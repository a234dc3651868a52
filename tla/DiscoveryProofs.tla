--------------------------- MODULE DiscoveryProofs ---------------------------
(***************************************************************************)
(* What holds of node events for any number of nodes, resources, events    *)
(* and restarts, and any debounce time.  The argument rests on EventsInv:  *)
(* after a thread of a node found no newer event, whatever becomes the     *)
(* node's newest event comes later than that moment.  Discovery implements *)
(* NodeDebounce, so what holds of events holds there as well.              *)
(***************************************************************************)
EXTENDS Discovery, TLAPS

(* A node about which a thread has decided.                                *)
DecidedBefore(n) ==
    decided[n] # Undecided =>
        /\ decided[n].since + Debounce <= decided[n].at
        /\ decided[n].at <= now
        /\ latest[n] # decided[n].since => latest[n] >= decided[n].at
        /\ \A t \in sleeping : t.node = n => t.since # decided[n].since

EventsInv ==
    /\ EventsTypeOK
    /\ \A n \in Nodes : DecidedBefore(n)

-----------------------------------------------------------------------------
(* Steps keep the types.                                                   *)
LEMMA EventsTypeStep == EventsTypeOK /\ [EventsNext]_eventVars => EventsTypeOK'
<1> SUFFICES ASSUME EventsTypeOK, [EventsNext]_eventVars
             PROVE  EventsTypeOK'
  OBVIOUS
<1> USE DebounceTypes DEF EventsTypeOK, Never
<1>1. ASSUME NEW n \in Nodes, NEW v \in Versions, NodeReports(n, v)
      PROVE  EventsTypeOK'
  BY <1>1 DEF NodeReports
<1>2. ASSUME NEW n \in Nodes, OnNodeEvent(n)
      PROVE  EventsTypeOK'
  BY <1>2 DEF OnNodeEvent, Thread
<1>3. ASSUME NEW t \in sleeping, GiveWay(t)
      PROVE  EventsTypeOK'
  BY <1>3 DEF GiveWay
<1>4. ASSUME NEW t \in sleeping, NEW ok \in BOOLEAN, StartTouching(t, ok)
      PROVE  EventsTypeOK'
  BY <1>4 DEF StartTouching, Call, Thread
<1>5. ASSUME NEW t \in touching, NEW r \in t.left, NEW ok \in BOOLEAN, Touch(t, r, ok)
      PROVE  EventsTypeOK'
  <2>1. touching' \in SUBSET [thread : Thread, left : SUBSET Resources]
    BY <1>5 DEF Touch
  <2> QED
    BY <1>5, <2>1 DEF Touch, Call
<1>6. ASSUME NEW r \in due, Handled(r)
      PROVE  EventsTypeOK'
  BY <1>6 DEF Handled
<1>7. CASE Restart
  BY <1>7 DEF Restart, ForgetEvents, Undecided
<1>8. CASE OtherCallFails
  BY <1>8 DEF OtherCallFails, Call
<1>9. CASE Tick
  BY <1>9 DEF Tick
<1>10. CASE UNCHANGED eventVars
  BY <1>10 DEF eventVars
<1> QED
  BY <1>1, <1>2, <1>3, <1>4, <1>5, <1>6, <1>7, <1>8, <1>9, <1>10
     DEF EventsNext, Wakes, Touches

(* The thread that decides about a node it was decided about before was    *)
(* started at least Debounce after that.                                   *)
LEMMA DecidesLate ==
    ASSUME EventsInv, NEW t \in sleeping, NEW ok \in BOOLEAN, StartTouching(t, ok),
           decided[t.node] # Undecided
    PROVE  now >= decided[t.node].at + Debounce
<1> USE DebounceTypes DEF EventsInv, EventsTypeOK
<1>1. t.node \in Nodes /\ t.since \in Nat
  BY DEF Thread
<1>2. latest[t.node] = t.since /\ now >= t.since + Debounce
  BY DEF StartTouching, Newer, Awake
<1>3. t.since # decided[t.node].since
  BY <1>1 DEF DecidedBefore
<1>4. t.since >= decided[t.node].at
  BY <1>1, <1>2, <1>3 DEF DecidedBefore
<1> QED
  BY <1>1, <1>2, <1>4

LEMMA EventsInvStep == EventsInv /\ [EventsNext]_eventVars => EventsInv'
<1> SUFFICES ASSUME EventsInv, [EventsNext]_eventVars, NEW m \in Nodes
             PROVE  DecidedBefore(m)'
  BY EventsTypeStep DEF EventsInv
<1>0. EventsTypeOK /\ DecidedBefore(m) /\ EventsTypeOK'
  BY EventsTypeStep DEF EventsInv
<1> USE DebounceTypes DEF Never
<1>1. ASSUME UNCHANGED <<decided, now, latest>>, sleeping' \subseteq sleeping
      PROVE  DecidedBefore(m)'
  BY <1>0, <1>1 DEF DecidedBefore, Undecided
<1>2. ASSUME NEW n \in Nodes, OnNodeEvent(n)
      PROVE  DecidedBefore(m)'
  <2>1. decided[m] # Undecided => decided[m].since < now
    BY <1>0 DEF DecidedBefore, EventsTypeOK
  <2>2. /\ decided' = decided /\ now' = now
        /\ latest' = [latest EXCEPT ![n] = now]
        /\ sleeping' = sleeping \cup {[node |-> n, since |-> now]}
    BY <1>2 DEF OnNodeEvent
  <2> QED
    BY <1>0, <2>1, <2>2 DEF DecidedBefore, EventsTypeOK, Undecided
<1>3. ASSUME NEW t \in sleeping, NEW ok \in BOOLEAN, StartTouching(t, ok)
      PROVE  DecidedBefore(m)'
  <2>1. t \in Thread /\ t.node \in Nodes /\ t.since \in Nat
    BY <1>0 DEF EventsTypeOK, Thread
  <2>2. /\ latest' = latest /\ now' = now /\ sleeping' = sleeping \ {t}
        /\ decided' = [decided EXCEPT ![t.node] = [since |-> t.since, at |-> now]]
        /\ latest[t.node] = t.since /\ now >= t.since + Debounce
    BY <1>3 DEF StartTouching, Newer, Awake
  <2>3. CASE m = t.node
    <3>1. decided'[m] = [since |-> t.since, at |-> now]
      BY <1>0, <2>1, <2>2, <2>3 DEF EventsTypeOK
    <3>2. ASSUME NEW u \in sleeping \ {t}, u.node = m
          PROVE  u.since # t.since
      BY <1>0, <2>1, <2>3, <3>2 DEF EventsTypeOK, Thread
    <3> QED
      BY <1>0, <2>1, <2>2, <2>3, <3>1, <3>2 DEF DecidedBefore, EventsTypeOK
  <2>4. CASE m # t.node
    BY <1>0, <2>2, <2>4 DEF DecidedBefore, EventsTypeOK, Undecided
  <2> QED
    BY <2>3, <2>4
<1>4. CASE Restart
  BY <1>4 DEF Restart, ForgetEvents, DecidedBefore
<1>5. CASE Tick
  BY <1>0, <1>5 DEF Tick, DecidedBefore, EventsTypeOK, Undecided
<1> QED
  BY <1>1, <1>2, <1>3, <1>4, <1>5
     DEF EventsNext, Wakes, Touches, NodeReports, GiveWay, Touch, Handled, OtherCallFails,
         eventVars

LEMMA EventsInvariance == EventsSpec => []EventsInv
<1>1. EventsInit => EventsInv
  BY DebounceTypes DEF EventsInit, EventsInv, EventsTypeOK, DecidedBefore, Undecided, Never
<1> QED
  BY <1>1, EventsInvStep, PTL DEF EventsSpec

-----------------------------------------------------------------------------
(* However often a node reports, its events make the operator touch the    *)
(* resources at most once in Debounce ticks (main.py:115-119).             *)
THEOREM EventsRateLimited == EventsSpec => RateLimited
<1>1. ASSUME EventsInv, [EventsNext]_eventVars, NEW n \in Nodes,
             decided[n] # Undecided, decided'[n] \notin {decided[n], Undecided}
      PROVE  decided'[n].at >= decided[n].at + Debounce
  <2>1. PICK t \in sleeping, ok \in BOOLEAN : StartTouching(t, ok)
    BY <1>1 DEF EventsNext, Wakes, Touches, NodeReports, OnNodeEvent, GiveWay, Touch, Handled,
                Restart, ForgetEvents, OtherCallFails, Tick, eventVars, Undecided
  <2>2. decided' = [decided EXCEPT ![t.node] = [since |-> t.since, at |-> now]]
    BY <2>1 DEF StartTouching
  <2>3. n = t.node /\ decided'[n].at = now
    BY <1>1, <2>2 DEF EventsInv, EventsTypeOK
  <2> QED
    BY <1>1, <2>1, <2>3, DecidesLate
<1>2. EventsInv /\ [EventsNext]_eventVars =>
          [\A n \in Nodes :
              decided[n] # Undecided /\ decided'[n] \notin {decided[n], Undecided}
                  => decided'[n].at >= decided[n].at + Debounce]_eventVars
  BY <1>1
<1> QED
  BY <1>2, EventsInvariance, PTL DEF EventsSpec, RateLimited

(* No step forgets a change.                                               *)
LEMMA RememberedStep ==
    ASSUME EventsTypeOK, EventsTypeOK', NoChangeForgotten, [EventsNext]_eventVars
    PROVE  NoChangeForgotten'
<1> SUFFICES ASSUME lost' = 0, NEW r \in Resources, NEW m \in untouched'[r]
             PROVE  Remembered(m, r)'
  BY DEF NoChangeForgotten
<1> m \in Nodes
  BY DEF EventsTypeOK
<1>0. lost = 0 /\ UNCHANGED lost
  <2>1. lost \in Nat
    BY DEF EventsTypeOK
  <2>2. ASSUME NEW ok \in BOOLEAN, Call(ok)
        PROVE  lost' = lost
    BY <2>1, <2>2 DEF Call
  <2>3. UNCHANGED lost
    BY <2>2 DEF EventsNext, Wakes, Touches, NodeReports, OnNodeEvent, GiveWay, StartTouching,
                Touch, Handled, Restart, OtherCallFails, Tick, eventVars
  <2> QED
    BY <2>3
<1>1. m \in untouched[r] => Remembered(m, r)
  BY <1>0 DEF NoChangeForgotten
<1>2. ASSUME UNCHANGED <<untouched, latest, sleeping, touching>>, news \subseteq news'
      PROVE  Remembered(m, r)'
  BY <1>1, <1>2 DEF Remembered
<1>3. ASSUME NEW n \in Nodes, NEW v \in Versions, NodeReports(n, v)
      PROVE  Remembered(m, r)'
  <2>1. m \in untouched[r] \/ m \in news'
    BY <1>3 DEF NodeReports, EventsTypeOK
  <2> QED
    BY <1>1, <1>3, <2>1 DEF NodeReports, Remembered
<1>4. ASSUME NEW n \in Nodes, OnNodeEvent(n)
      PROVE  Remembered(m, r)'
  <2>1. CASE m = n
    BY <1>4, <2>1 DEF OnNodeEvent, Remembered, EventsTypeOK, Never
  <2>2. CASE m # n
    BY <1>1, <1>4, <2>2 DEF OnNodeEvent, Remembered, EventsTypeOK
  <2> QED
    BY <2>1, <2>2
<1>5. ASSUME NEW t \in sleeping, GiveWay(t)
      PROVE  Remembered(m, r)'
  <2>1. t # [node |-> m, since |-> latest[m]]
    BY <1>5 DEF GiveWay, Newer
  <2> QED
    BY <1>1, <1>5, <2>1 DEF GiveWay, Remembered
<1>6. ASSUME NEW t \in sleeping, NEW ok \in BOOLEAN, StartTouching(t, ok)
      PROVE  Remembered(m, r)'
  <2>1. ok
    BY <1>0, <1>6 DEF StartTouching, Call, EventsTypeOK
  <2>2. [thread |-> t, left |-> Resources] \in touching'
    BY <1>6, <2>1 DEF StartTouching
  <2> QED
    BY <2>2 DEF Remembered
<1>7. ASSUME NEW t \in touching, NEW q \in t.left, NEW ok \in BOOLEAN, Touch(t, q, ok)
      PROVE  Remembered(m, r)'
  <2>1. ok
    BY <1>0, <1>7 DEF Touch, Call, EventsTypeOK
  <2>2. q # r /\ m \in untouched[r]
    BY <1>7, <2>1 DEF Touch, EventsTypeOK
  <2>3. CASE m \in news \/ (latest[m] # Never /\ [node |-> m, since |-> latest[m]] \in sleeping)
    BY <1>7, <2>3 DEF Touch, Remembered
  <2>4. ASSUME NEW u \in touching, r \in u.left
        PROVE  \E x \in touching' : r \in x.left
    <3>1. touching' = (touching \ {t}) \cup
                      (IF t.left = {q} THEN {} ELSE {[t EXCEPT !.left = @ \ {q}]})
      BY <1>7 DEF Touch
    <3>2. CASE u = t
      <4>1. [t EXCEPT !.left = @ \ {q}] \in touching'
        BY <2>2, <2>4, <3>1, <3>2
      <4>2. r \in [t EXCEPT !.left = @ \ {q}].left
        BY <2>2, <2>4, <3>2 DEF EventsTypeOK
      <4> QED
        BY <4>1, <4>2
    <3> QED
      BY <2>4, <3>1, <3>2
  <2> QED
    BY <1>1, <2>2, <2>3, <2>4 DEF Remembered
<1>8. CASE Restart
  BY <1>8 DEF Restart, ForgetEvents, Remembered
<1> QED
  BY <1>2, <1>3, <1>4, <1>5, <1>6, <1>7, <1>8
     DEF EventsNext, Wakes, Touches, Handled, OtherCallFails, Tick, eventVars

(* No change of a node is forgotten before it led to a touch of every      *)
(* resource, unless a call to the API server failed: neither by debouncing *)
(* nor by restarts (main.py:91-160).                                       *)
THEOREM ChangesRemembered == EventsSpec => []NoChangeForgotten
<1>1. EventsInit => NoChangeForgotten
  BY DEF EventsInit, NoChangeForgotten
<1>2. EventsInv /\ EventsInv' /\ NoChangeForgotten /\ [EventsNext]_eventVars
          => NoChangeForgotten'
  BY RememberedStep DEF EventsInv
<1> QED
  BY <1>1, <1>2, EventsInvariance, PTL DEF EventsSpec

-----------------------------------------------------------------------------
(* Seen from the events, kopf's passes only take touches off the list.     *)
THEOREM DiscoveryImplementsEvents == Spec => EventsSpec
<1>1. Init => EventsInit
  BY DEF Init
<1>2. ASSUME [Next]_vars
      PROVE  [EventsNext]_eventVars
  <2>1. CASE EventStep
    BY <2>1 DEF EventStep, EventsNext
  <2>2. ASSUME NEW r \in Resources, PassStep(r) \/ ListNodesFails(r)
        PROVE  [EventsNext]_eventVars
    BY <2>2 DEF PassStep, Reconcile, ListNodes, PatchStatus, ListNodesFails, EventsNext
  <2>3. ASSUME NEW n \in Nodes, NEW v \in Versions, NodeReports(n, v)
        PROVE  [EventsNext]_eventVars
    BY <2>3 DEF EventsNext
  <2>4. CASE RestartAll
    BY <2>4 DEF RestartAll, EventsNext
  <2>5. CASE UNCHANGED vars
    BY <2>5 DEF vars
  <2> QED
    BY <1>2, <2>1, <2>2, <2>3, <2>4, <2>5 DEF Next
<1> QED
  BY <1>1, <1>2, PTL DEF Spec, EventsSpec

(* So nothing is forgotten and nothing hurried under passes either.        *)
THEOREM DiscoveryRemembers == Spec => []NoChangeForgotten /\ RateLimited
  BY DiscoveryImplementsEvents, ChangesRemembered, EventsRateLimited, PTL

(* Types in the composition.                                               *)
THEOREM DiscoveryTypes == Spec => []TypeOK
<1>1. Init => TypeOK
  BY DebounceTypes DEF Init, TypeOK, EventsInit, EventsTypeOK, Undecided, Never, InUse, Flatcar
<1>2. ASSUME TypeOK, [Next]_vars, EventsTypeOK'
      PROVE  TypeOK'
  <2> USE <1>2 DEF TypeOK
  <2>1. CASE EventStep
    BY <2>1 DEF EventStep, passVars
  <2>2. ASSUME NEW r \in Resources, PassStep(r) \/ ListNodesFails(r)
        PROVE  TypeOK'
    <3>1. InUse \in SUBSET Flatcar
      BY DEF EventsTypeOK, InUse, Flatcar
    <3> QED
      BY <2>2, <3>1 DEF PassStep, Reconcile, ListNodes, PatchStatus, ListNodesFails, Goto
  <2>3. ASSUME UNCHANGED passVars
        PROVE  TypeOK'
    BY <2>3 DEF passVars
  <2>4. CASE RestartAll
    BY <2>4 DEF RestartAll
  <2> QED
    BY <2>1, <2>2, <2>3, <2>4 DEF Next, vars
<1>3. Spec => []EventsInv
  BY DiscoveryImplementsEvents, EventsInvariance, PTL
<1> QED
  BY <1>1, <1>2, <1>3, PTL DEF Spec, EventsInv
=============================================================================
