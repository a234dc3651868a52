------------------------------ MODULE Discovery ------------------------------
(***************************************************************************)
(* From a node's new Flatcar version to a status that shows it: the node   *)
(* events of NodeDebounce, and the reconcile passes that kopf starts for a *)
(* touched resource (main.py:66-83), as far as they look at nodes          *)
(* (main.py:360-394).  The 10-minute timer, which makes good whatever the  *)
(* events miss and would hide it here, is left out; Reconcile has it.      *)
(***************************************************************************)
EXTENDS NodeDebounce

CONSTANT Other  \* stands for any version that is not one of Flatcar

VARIABLES
    at,         \* where the pass of each resource is
    found,      \* node_flatcars, the versions it found
    observed    \* status.observedNodes of each resource

passVars == <<at, found, observed>>
vars == <<eventVars, passVars>>

Flatcar == Versions \ {Other}

(* Mutant: the version of any system is taken for one of Flatcar.          *)
InUseOfAll == {nodes[n] : n \in Nodes}

InUse == {nodes[n] : n \in Nodes} \ {Other}

TypeOK ==
    /\ EventsTypeOK
    /\ at \in [Resources -> {"idle", "list", "patch"}]
    /\ found \in [Resources -> SUBSET Flatcar]
    /\ observed \in [Resources -> SUBSET Flatcar]

(* The operator starts; the resources have been reconciled before.         *)
Init ==
    /\ EventsInit
    /\ at = [r \in Resources |-> "idle"]
    /\ found = [r \in Resources |-> {}]
    /\ observed = [r \in Resources |-> InUse]

Goto(r, where) == at' = [at EXCEPT ![r] = where]

(* Mutant: a touch during a pass is taken as handled by it.                *)
ReconcileDuring(r) ==
    /\ r \in due
    /\ Handled(r)
    /\ IF at[r] = "idle" THEN Goto(r, "list") ELSE UNCHANGED at
    /\ UNCHANGED <<found, observed>>

(* kopf calls the update handler, for all touches so far, and not while it *)
(* is running for the same resource.                                       *)
Reconcile(r) ==
    /\ r \in due /\ at[r] = "idle"
    /\ Handled(r)
    /\ Goto(r, "list")
    /\ UNCHANGED <<found, observed>>

ListNodes(r) ==
    /\ at[r] = "list"
    /\ found' = [found EXCEPT ![r] = InUse]
    /\ Goto(r, "patch")
    /\ UNCHANGED <<eventVars, observed>>

(* Without the nodes a pass goes on as if there were none.                 *)
ListNodesFails(r) ==
    /\ at[r] = "list"
    /\ OtherCallFails
    /\ found' = [found EXCEPT ![r] = {}]
    /\ Goto(r, "patch")
    /\ UNCHANGED observed

PatchStatus(r) ==
    /\ at[r] = "patch"
    /\ observed' = [observed EXCEPT ![r] = found[r]]
    /\ found' = [found EXCEPT ![r] = {}]
    /\ Goto(r, "idle")
    /\ UNCHANGED eventVars

(* The operator restarts: passes that were cut off are due again.          *)
RestartAll ==
    /\ Restart
    /\ due' = due \cup {r \in Resources : at[r] # "idle"}
    /\ at' = [r \in Resources |-> "idle"]
    /\ found' = [r \in Resources |-> {}]
    /\ UNCHANGED observed

-----------------------------------------------------------------------------
EventStep ==
    /\ \/ \E n \in Nodes : OnNodeEvent(n)
       \/ \E t \in sleeping : Wakes(t)
       \/ \E t \in touching : Touches(t)
       \/ Tick
    /\ UNCHANGED passVars

PassStep(r) == Reconcile(r) \/ ListNodes(r) \/ PatchStatus(r)

Next ==
    \/ EventStep
    \/ \E r \in Resources : PassStep(r) \/ ListNodesFails(r)
    \/ \E n \in Nodes, v \in Versions : NodeReports(n, v) /\ UNCHANGED passVars
    \/ RestartAll

Spec == Init /\ [][Next]_vars

(* Events are delivered, threads wake and run, time passes, and kopf calls *)
(* handlers, which end.                                                    *)
FairSpec ==
    /\ Spec
    /\ WF_vars(EventStep)
    /\ \A r \in Resources : WF_vars(PassStep(r))

-----------------------------------------------------------------------------
(* When the nodes are at rest, every resource comes to show the versions   *)
(* they run, by the events alone: through any debouncing, through touches  *)
(* that arrive during a pass and through restarts, as long as no call to   *)
(* the API server fails (main.py:91-160, 380).                             *)
Noticed == [](lost = 0) => <>[](\A r \in Resources : observed[r] = InUse)
=============================================================================
