---------------------------- MODULE MCRetention ----------------------------
(***************************************************************************)
(* Instances of Retention.  Repository 1 holds an index (idx) over an      *)
(* image (img) that has a tag of its own, and an image of its own (lone);  *)
(* repository 2 holds one image (pre).  fresh is what a build Job pushes   *)
(* during the run; it is created at time 1.  The tags a1, b2, c3 and p2    *)
(* name Flatcar versions 1, 2, 3 and 2; the parser does not recognize      *)
(* latest.  A configuration chooses which of them there are.               *)
(***************************************************************************)
EXTENDS Retention, TLC

CONSTANTS idx, img, lone, pre, fresh

a1 == 1
b2 == 2
c3 == 3
latest == 4
p2 == 5

MCHome == [m \in Manifests |-> IF m = pre THEN 2 ELSE 1]
MCChildren == [m \in Manifests |-> IF m = idx THEN {img} ELSE {}]
MCCreated == [m \in Dated |-> IF m = fresh THEN 1 ELSE 0]

MCRepoOf == [t \in Tags |-> IF t = p2 THEN 2 ELSE 1]
MCRecognized == Tags \ {latest}
MCFlatcarOf == [t \in MCRecognized |-> CASE t = a1 -> 1 [] t = c3 -> 3 [] OTHER -> 2]
MCInitial == [t \in Tags |-> CASE t = a1 -> idx [] t = b2 -> img [] t = c3 -> lone
                               [] t = p2 -> pre [] OTHER -> None]

Wants(current, others, keep) ==
    [enabled |-> TRUE, valid |-> TRUE, keep |-> keep, current |-> current, others |-> others]
Off == [Wants({3}, {}, 0) EXCEPT !.enabled = FALSE]
Broken == [Wants({3}, {}, 0) EXCEPT !.valid = FALSE]

(* A rolling update: nodes move from version 2 to 3, and one went back to 1. *)
Rolling == {Wants({3}, {}, 0), Wants({1}, {3}, 0)}
(* Rollback versions are kept below the newest node version, or none. *)
Keeping == {Wants({3}, {}, 1), Wants({4}, {}, 2), Wants({4}, {}, 0)}
(* Everything a pass may find, the settings that keep it from starting included. *)
Everything == {Off, Broken, Wants({}, {}, 0), Wants({3}, {1}, 0), Wants({3}, {}, 0)}

EachPass == Permutations(Passes)
=============================================================================
