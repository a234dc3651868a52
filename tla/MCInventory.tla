---------------------------- MODULE MCInventory ----------------------------
(***************************************************************************)
(* Instances of Inventory: one repository with two indexes that share an   *)
(* image, one of which also references the other index, and an image of    *)
(* its own.  At first one tag names the outer index, one the shared image, *)
(* and one the single image; a tag is free.                                *)
(***************************************************************************)
EXTENDS Inventory

CONSTANTS outer, inner, shared, single

MCHome == [m \in Manifests |-> 1]
MCRepoOf == [t \in Tags |-> 1]
MCChildren == [m \in Manifests |-> CASE m = outer -> {inner, shared}
                                     [] m = inner -> {shared}
                                     [] OTHER -> {}]
MCInitial == [t \in Tags |-> CASE t = 1 -> outer [] t = 2 -> shared
                               [] t = 3 -> single [] OTHER -> None]
=============================================================================
