---------------------------- MODULE NodeDebounce ----------------------------
(***************************************************************************)
(* How the operator learns that a node changed (main.py:91-160).  Each     *)
(* event of a node starts a thread that sleeps; when it wakes and no newer *)
(* event of that node has come, it touches every VGPUDriverImage, and each *)
(* touch makes kopf reconcile that resource.  Threads and the table of     *)
(* event times are lost when the operator restarts, but its watch then     *)
(* begins with a listing, which is an event for every node.                *)
(***************************************************************************)
EXTENDS Integers

CONSTANTS
    Nodes,      \* the nodes of the cluster
    Versions,   \* the Flatcar versions a node may run
    Resources,  \* the VGPUDriverImages
    Debounce,   \* _DEBOUNCE_SECONDS, in ticks
    MaxTime,    \* bound on the clock, except to let threads wake
    MaxEvents,  \* bound on the changes and reports of nodes
    MaxLost,    \* bound on failing calls
    MaxRestarts \* bound on restarts of the operator

ASSUME DebounceTypes ==
    /\ Debounce \in Nat \ {0} /\ MaxTime \in Nat
    /\ MaxEvents \in Nat /\ MaxLost \in Nat /\ MaxRestarts \in Nat
    /\ Resources # {}

VARIABLES
    nodes,      \* the Flatcar version each node runs
    news,       \* nodes whose latest state the watch has yet to deliver
    reports,    \* changes and reports of nodes so far
    now,        \* time.monotonic()
    latest,     \* _node_event_times
    sleeping,   \* the threads that sleep
    touching,   \* the threads that touch, and the resources each has left
    due,        \* resources touched since kopf last called their handler
    lost,       \* failing calls so far
    restarts,   \* restarts so far
    untouched,  \* for each resource, the nodes that changed since it was
                \* last touched (history)
    decided     \* for each node, the last thread that found no newer event
                \* in this life of the operator, and when (history)

eventVars == <<nodes, news, reports, now, latest, sleeping, touching, due, lost, restarts,
          untouched, decided>>

Never == -1
Thread == [node : Nodes, since : Nat]

EventsTypeOK ==
    /\ nodes \in [Nodes -> Versions] /\ news \in SUBSET Nodes
    /\ reports \in Nat /\ now \in Nat /\ lost \in Nat /\ restarts \in Nat
    /\ latest \in [Nodes -> Nat \cup {Never}]
    /\ sleeping \in SUBSET Thread
    /\ touching \in SUBSET [thread : Thread, left : SUBSET Resources]
    /\ due \in SUBSET Resources
    /\ untouched \in [Resources -> SUBSET Nodes]
    /\ decided \in [Nodes -> [since : Nat \cup {Never}, at : Nat]]

Undecided == [since |-> Never, at |-> 0]

(* The operator starts, and so does its watch.                             *)
EventsInit ==
    /\ nodes \in [Nodes -> Versions] /\ news = Nodes
    /\ reports = 0 /\ now = 0 /\ lost = 0 /\ restarts = 0
    /\ latest = [n \in Nodes |-> Never]
    /\ sleeping = {} /\ touching = {} /\ due = {}
    /\ untouched = [r \in Resources |-> {}]
    /\ decided = [n \in Nodes |-> Undecided]

(* A call to the API server answers, or fails.                             *)
Call(ok) == IF ok THEN UNCHANGED lost ELSE lost < MaxLost /\ lost' = lost + 1

(* A node runs another version, or reports what it always does.            *)
NodeReports(n, v) ==
    /\ reports < MaxEvents /\ now < MaxTime
    /\ reports' = reports + 1
    /\ nodes' = [nodes EXCEPT ![n] = v]
    /\ news' = news \cup {n}
    /\ untouched' = IF v = nodes[n] THEN untouched
                    ELSE [r \in Resources |-> untouched[r] \cup {n}]
    /\ UNCHANGED <<now, latest, sleeping, touching, due, lost, restarts, decided>>

(* Mutant: an event that comes while a thread sleeps is left to it.        *)
OnNodeEventOnce(n) ==
    /\ n \in news
    /\ latest[n] # now
    /\ news' = news \ {n}
    /\ IF \E t \in sleeping : t.node = n
       THEN latest' = [latest EXCEPT ![n] = now] /\ UNCHANGED sleeping
       ELSE /\ latest' = [latest EXCEPT ![n] = now]
            /\ sleeping' = sleeping \cup {[node |-> n, since |-> now]}
    /\ UNCHANGED <<nodes, reports, now, touching, due, lost, restarts, untouched, decided>>

(* on_node_event: the time is noted and a thread started.  Two readings of *)
(* the clock differ.                                                       *)
OnNodeEvent(n) ==
    /\ n \in news
    /\ latest[n] # now
    /\ news' = news \ {n}
    /\ latest' = [latest EXCEPT ![n] = now]
    /\ sleeping' = sleeping \cup {[node |-> n, since |-> now]}
    /\ UNCHANGED <<nodes, reports, now, touching, due, lost, restarts, untouched, decided>>

Awake(t) == now >= t.since + Debounce

(* Mutant: a thread does not ask whether a newer event arrived.            *)
NewerIgnored(t) == FALSE

Newer(t) == latest[t.node] # t.since

(* A newer event arrived: that one will do the work.                       *)
GiveWay(t) ==
    /\ t \in sleeping /\ Awake(t)
    /\ Newer(t)
    /\ sleeping' = sleeping \ {t}
    /\ UNCHANGED <<nodes, news, reports, now, latest, touching, due, lost, restarts, untouched,
                   decided>>

(* No newer event: the resources are listed, or cannot be, and that is all.*)
StartTouching(t, ok) ==
    /\ t \in sleeping /\ Awake(t)
    /\ ~Newer(t)
    /\ Call(ok)
    /\ sleeping' = sleeping \ {t}
    /\ touching' = IF ok THEN touching \cup {[thread |-> t, left |-> Resources]}
                   ELSE touching
    /\ decided' = [decided EXCEPT ![t.node] = [since |-> t.since, at |-> now]]
    /\ UNCHANGED <<nodes, news, reports, now, latest, due, restarts, untouched>>

(* One resource gets its annotation, or does not; the others go on.        *)
Touch(t, r, ok) ==
    /\ t \in touching /\ r \in t.left
    /\ Call(ok)
    /\ touching' = (touching \ {t}) \cup
                   (IF t.left = {r} THEN {} ELSE {[t EXCEPT !.left = @ \ {r}]})
    /\ due' = IF ok THEN due \cup {r} ELSE due
    /\ untouched' = IF ok THEN [untouched EXCEPT ![r] = {}] ELSE untouched
    /\ UNCHANGED <<nodes, news, reports, now, latest, sleeping, restarts, decided>>

(* The operator restarts.  kopf keeps in a resource what it handled last,  *)
(* so a handler that was cut off is due again.                             *)
ForgetEvents ==
    /\ latest' = [n \in Nodes |-> Never]
    /\ sleeping' = {} /\ touching' = {}
    /\ news' = Nodes
    /\ decided' = [n \in Nodes |-> Undecided]

Restart ==
    /\ restarts < MaxRestarts
    /\ restarts' = restarts + 1
    /\ ForgetEvents
    /\ due' \in {d \in SUBSET Resources : due \subseteq d}
    /\ UNCHANGED <<nodes, reports, now, lost, untouched>>

(* Time passes.  Beyond its bound it only passes to let threads wake.      *)
Tick ==
    /\ now < MaxTime \/ \E t \in sleeping : ~Awake(t)
    /\ now' = now + 1
    /\ UNCHANGED <<nodes, news, reports, latest, sleeping, touching, due, lost, restarts,
                   untouched, decided>>

(* kopf calls the update handler for the touches so far.                   *)
Handled(r) ==
    /\ due' = due \ {r}
    /\ UNCHANGED <<nodes, news, reports, now, latest, sleeping, touching, lost, restarts,
                   untouched, decided>>

(* A call of somebody else fails.                                          *)
OtherCallFails ==
    /\ Call(FALSE)
    /\ UNCHANGED <<nodes, news, reports, now, latest, sleeping, touching, due, restarts,
                   untouched, decided>>

-----------------------------------------------------------------------------
Wakes(t) == GiveWay(t) \/ \E ok \in BOOLEAN : StartTouching(t, ok)
Touches(t) == \E r \in t.left, ok \in BOOLEAN : Touch(t, r, ok)

EventsNext ==
    \/ \E n \in Nodes, v \in Versions : NodeReports(n, v)
    \/ \E n \in Nodes : OnNodeEvent(n)
    \/ \E t \in sleeping : Wakes(t)
    \/ \E t \in touching : Touches(t)
    \/ \E r \in due : Handled(r)
    \/ Restart \/ OtherCallFails
    \/ Tick

EventsSpec == EventsInit /\ [][EventsNext]_eventVars

-----------------------------------------------------------------------------
(* No change of a node is forgotten: until it has led to a touch of every  *)
(* resource, its event waits, or the thread of that node's newest event    *)
(* sleeps, or a thread is about to touch the resource.  Only a call to the *)
(* API server that failed leaves a change to the timer (main.py:115-119,   *)
(* 126-160); a restart does not.                                           *)
Remembered(n, r) ==
    \/ n \in news
    \/ latest[n] # Never /\ [node |-> n, since |-> latest[n]] \in sleeping
    \/ \E t \in touching : r \in t.left

NoChangeForgotten ==
    lost = 0 => \A r \in Resources : \A n \in untouched[r] : Remembered(n, r)

(* However often a node reports, its events make the operator touch the    *)
(* resources at most once in Debounce ticks (main.py:115-119).             *)
RateLimited ==
    [][\A n \in Nodes :
          decided[n] # Undecided /\ decided'[n] \notin {decided[n], Undecided}
              => decided'[n].at >= decided[n].at + Debounce]_eventVars
=============================================================================
