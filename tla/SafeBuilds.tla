----------------------------- MODULE SafeBuilds -----------------------------
(***************************************************************************)
(* What reconciling promises about builds, whatever passes, Jobs and       *)
(* events look like inside: no image is being built twice at the same      *)
(* time, images come from builds that were started, and a key is only      *)
(* called ready when an image of it was pushed.                            *)
(***************************************************************************)
EXTENDS ImageTags

CONSTANT Builds  \* the builds there may be, each of a key and for a spec

VARIABLES
    running,  \* the builds in progress
    loose,    \* builds that were called off and may still push
    pushed,   \* the images ever pushed
    ready     \* the keys called ready

vars == <<running, loose, pushed, ready>>

Image(b) == TagOf(b.key, b.spec.precompile)
WasBuilt(k) == \E t \in pushed : t.driver = k.driver /\ t.flatcar = k.flatcar

Init == running = {} /\ loose = {} /\ pushed = {} /\ ready = {}

Start(b) ==
    /\ \A c \in running : c.key # b.key
    /\ running' = running \cup {b}
    /\ UNCHANGED <<loose, pushed, ready>>

(* A build is over, for whatever reason.                                   *)
Stop(b) ==
    /\ running' = running \ {b}
    /\ UNCHANGED <<loose, pushed, ready>>

CallOff(b) ==
    /\ b \in running
    /\ running' = running \ {b}
    /\ loose' = loose \cup {b}
    /\ UNCHANGED <<pushed, ready>>

Push(b) ==
    /\ b \in running
    /\ pushed' = pushed \cup {Image(b)}
    /\ UNCHANGED <<running, loose, ready>>

(* A build that was called off ends, and has pushed or not.                *)
End(b) ==
    /\ b \in loose
    /\ loose' = loose \ {b}
    /\ pushed' \in {pushed, pushed \cup {Image(b)}}
    /\ UNCHANGED <<running, ready>>

Show(keys) ==
    /\ \A k \in keys : WasBuilt(k)
    /\ ready' = keys
    /\ UNCHANGED <<running, loose, pushed>>

Next ==
    \/ \E b \in Builds : Start(b) \/ Stop(b) \/ CallOff(b) \/ Push(b) \/ End(b)
    \/ \E keys \in SUBSET Keys : Show(keys)

Spec == Init /\ [][Next]_vars
=============================================================================
