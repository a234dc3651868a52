---------------------------- MODULE SafeRegistry ----------------------------
(***************************************************************************)
(* What retention promises the users of the registry, whatever its passes  *)
(* look like inside: the only content that ever disappears is a manifest   *)
(* no surviving tag needs.  An image that can still be named can still be  *)
(* pulled.                                                                 *)
(***************************************************************************)
EXTENDS RegistryContent

VARIABLES
    present,  \* the manifests stored in the registry
    tags      \* what each tag names, or None

vars == <<present, tags>>

TypeOK ==
    /\ present \in SUBSET Manifests
    /\ tags \in [Tags -> Manifests \cup {None}]

(* Every tag names an image that is there with everything it references.   *)
Intact == \A t \in Tags : tags[t] # None => Reach[tags[t]] \subseteq present

Init == TypeOK /\ Intact

(* A writer uploads a manifest after what it references, then names it.    *)
Put(t, m) ==
    /\ present' = present \cup Reach[m]
    /\ tags' = [tags EXCEPT ![t] = m]

(* The registry drops a manifest, and with it the tags that name it.       *)
Drop(m) ==
    /\ \A t \in Tags : tags[t] \notin {None, m} => m \notin Reach[tags[t]]
    /\ present' = present \ {m}
    /\ tags' = [t \in Tags |-> IF tags[t] = m THEN None ELSE tags[t]]

Next ==
    \/ \E t \in Tags, m \in Manifests : Put(t, m)
    \/ \E m \in Manifests : Drop(m)

Spec == Init /\ [][Next]_vars
=============================================================================
