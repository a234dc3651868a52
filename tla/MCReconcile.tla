---------------------------- MODULE MCReconcile ----------------------------
(***************************************************************************)
(* Instances of Reconcile: up to two driver versions, of which the second  *)
(* may be the first with a suffix, up to two Flatcar versions, and the     *)
(* specs an administrator moves between.                                   *)
(***************************************************************************)
EXTENDS Reconcile

CONSTANTS d1, d2, f1, f2

Suffixed == {<<d1, d2>>}

(* A runtime spec that pins one version.  Two specs that differ in rev ask *)
(* for the same images by different Jobs.                                  *)
Pin == [drivers |-> {d1}, pinned |-> {f1}, discover |-> FALSE, precompile |-> FALSE,
        retention |-> FALSE, rev |-> 0]
Follow == [Pin EXCEPT !.pinned = {}, !.discover = TRUE, !.retention = TRUE]

JustPinned == {Pin}
Following == {Follow}
Rebuilt == {Pin, [Pin EXCEPT !.rev = 1], [Pin EXCEPT !.precompile = TRUE]}
BothDrivers == {[Pin EXCEPT !.drivers = Drivers, !.precompile = TRUE]}
PinnedRevised == {Pin, [Pin EXCEPT !.rev = 1]}
ModeSwitched == {Pin, [Pin EXCEPT !.precompile = TRUE]}

NoNodes == {{}}
AnyNodes == SUBSET Flatcars
NoChannels == {}
Latest == {{f2}}
=============================================================================
