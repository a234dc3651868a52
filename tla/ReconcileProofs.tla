--------------------------- MODULE ReconcileProofs ---------------------------
(***************************************************************************)
(* What holds of reconcile passes for any driver versions, Flatcar         *)
(* versions, specs, Jobs, failures and crashes.                            *)
(*   Ready means built: BuiltInv, that whatever passes, events and the     *)
(* status hold of a Job's success or of a tag goes back to a push.  It     *)
(* needs driver versions that do not extend each other, and nothing else.  *)
(*   One build at a time: AloneInv, that every unfinished Job of a key the *)
(* pass wants is one it has yet to delete or counts as in flight.  It      *)
(* needs passes that do not overlap and Jobs that can be listed and        *)
(* deleted.  Together they show that Reconcile implements SafeBuilds.      *)
(***************************************************************************)
EXTENDS Reconcile, TLAPS

-----------------------------------------------------------------------------
(* What a pass computes has the right type.                                *)
LEMMA SpecFields ==
    ASSUME NEW s \in Specs
    PROVE  /\ s.drivers \subseteq Drivers /\ s.pinned \subseteq Flatcars
           /\ s.discover \in BOOLEAN /\ s.precompile \in BOOLEAN /\ s.retention \in BOOLEAN
  BY ReconcileTypes DEF SpecType

LEMMA ImageIsTag == \A n \in Names : Image(n) \in ImageTag
  BY SpecFields DEF Names, Image, TagOf, ImageTag, Keys

LEMMA PhaseOfJob ==
    ASSUME NEW j \in JobStates \ {"none"}
    PROVE  /\ JobPhase[j] \in Phases
           /\ JobPhase[j] = "Ready" <=> j = "succeeded"
           /\ JobPhase[j] \in Live <=> j \in {"pending", "active", "pushed"}
  BY DEF JobStates, JobPhase, Phases, Live

LEMMA DesiredIsKeys ==
    ASSUME NEW w \in Passes, mine[w] \in Specs, flats[w] \subseteq Flatcars
    PROVE  /\ Desired(w) \subseteq Keys
           /\ Missing(w) \subseteq Desired(w) \ InFlight(w)
           /\ \A k \in Keys : JobOf(w, k) \in Names /\ JobOf(w, k).key = k
<1>1. mine[w].drivers \subseteq Drivers
  BY SpecFields
<1> QED
  BY <1>1 DEF Desired, compute_desired, Missing, compute_missing, Keys, JobOf, Names

(* What a pass listed is what it doomed and shows.                         *)
LEMMA ListedTypes ==
    ASSUME TypeOK, NEW w \in Passes, NEW listed \in SUBSET Listed
    PROVE  /\ Doomed(w, listed) \in SUBSET Names
           /\ Shown(w, listed) \in [Keys -> Live \cup {"none"}]
  BY DEF Listed, Doomed, Stale, Useless, Shown

LEMMA ReportTypes ==
    ASSUME TypeOK, NEW w \in Passes
    PROVE  Report(w) \in [Keys -> Phases \cup {"absent"}]
  BY DEF Report, TypeOK, InFlight, Phases, Live

-----------------------------------------------------------------------------
(* Steps keep the types.                                                   *)
LEMMA InitTypes == Init => TypeOK
<1> SUFFICES ASSUME Init PROVE TypeOK
  OBVIOUS
<1>1. Unread \in Specs
  BY DEF Init, Unread
<1>2. nodes \in SUBSET Flatcars
  BY ReconcileTypes DEF Init
<1> QED
  BY <1>1, <1>2 DEF Init, TypeOK, NoBuilds, NoneShown, JobStates, EventStates, Early, Phases, Live

LEMMA DoneTypes ==
    ASSUME TypeOK, NEW w \in Passes, Done(w), builds' \in [Keys -> Phases \cup {"absent"}],
           cond' \in Early \cup {"AllBuildsReady", "BuildsPending"}, faults' \in Nat
    PROVE  TypeOK'
<1>1. Unread \in Specs
  BY DEF Unread, TypeOK
<1> QED
  BY <1>1 DEF TypeOK, Done, Goto, NoneShown, Early, clusterVars, imageVars, jobVars, handlerVars

LEMMA FaultTypes ==
    ASSUME TypeOK, NEW kind, NEW ok \in BOOLEAN, CallTo(kind, ok) \/ Fault(kind) \/ Call(ok)
    PROVE  faults' \in Nat
  BY DEF TypeOK, CallTo, Call, Fault

LEMMA PassTypeStep ==
    ASSUME TypeOK, NEW w \in Passes, Begin(w) \/ PassStep(w) \/ PassFault(w)
    PROVE  TypeOK'
<1> USE DEF clusterVars, imageVars, jobVars, handlerVars, statusVars, inputVars, workVars
<1>1. CASE Begin(w)
  <2>1. spec \in Specs /\ spec.pinned \cup tracked \subseteq Flatcars
    BY SpecFields DEF TypeOK
  <2> QED
    BY <1>1, <2>1 DEF Begin, Goto, TypeOK
<1>2. ASSUME NEW ok \in BOOLEAN, ListNodes(w, ok)
      PROVE  TypeOK'
  <2>1. faults' \in Nat
    BY <1>2, FaultTypes DEF ListNodes
  <2> QED
    BY <1>2, <2>1 DEF ListNodes, Goto, TypeOK
<1>3. CASE NoVersions(w)
  BY <1>3 DEF NoVersions, GiveUp, Goto, TypeOK, Early
<1>4. CASE ListTags(w)
  BY <1>4 DEF ListTags, Goto, TypeOK
<1>5. ASSUME NEW why \in Early, ListTagsFails(w, why)
      PROVE  TypeOK'
  <2>1. faults' \in Nat
    BY <1>5, FaultTypes DEF ListTagsFails
  <2> QED
    BY <1>5, <2>1 DEF ListTagsFails, GiveUp, Goto, TypeOK
<1>6. ASSUME NEW ok \in BOOLEAN, ListJobs(w, ok)
      PROVE  TypeOK'
  <2>1. faults' \in Nat
    BY <1>6, FaultTypes DEF ListJobs
  <2> DEFINE listed == IF ok THEN Listed ELSE {}
  <2>2. Doomed(w, listed) \in SUBSET Names /\ Shown(w, listed) \in [Keys -> Live \cup {"none"}]
    BY ListedTypes
  <2>3. /\ doomed' = [doomed EXCEPT ![w] = Doomed(w, listed)]
        /\ shown' = [shown EXCEPT ![w] = Shown(w, listed)]
    BY <1>6 DEF ListJobs
  <2> HIDE DEF listed
  <2> QED
    BY <1>6, <2>1, <2>2, <2>3 DEF ListJobs, Goto, TypeOK
<1>7. ASSUME NEW n \in Names, DeleteJob(w, n)
      PROVE  TypeOK'
  <2>1. JobPhase[jobs[n]] \in Phases
    BY <1>7, PhaseOfJob DEF DeleteJob, TypeOK
  <2> QED
    BY <1>7, <2>1 DEF DeleteJob, Notify, TypeOK, JobStates, EventStates
<1>8. ASSUME NEW n \in Names, DeleteJobFails(w, n)
      PROVE  TypeOK'
  <2>1. faults' \in Nat
    BY <1>8, FaultTypes DEF DeleteJobFails
  <2> QED
    BY <1>8, <2>1 DEF DeleteJobFails, TypeOK
<1>9. CASE StartCreating(w)
  <2>1. Missing(w) \subseteq Keys
    BY DesiredIsKeys DEF TypeOK
  <2> QED
    BY <1>9, <2>1 DEF StartCreating, Goto, TypeOK
<1>10. ASSUME NEW k \in Keys, NEW ok \in BOOLEAN, CreateJob(w, k, ok)
       PROVE  TypeOK'
  <2>1. faults' \in Nat
    BY <1>10, FaultTypes DEF CreateJob
  <2>2. JobOf(w, k) \in Names /\ JobPhase["pending"] \in Phases
    BY DesiredIsKeys, PhaseOfJob DEF TypeOK, JobStates
  <2>3. /\ jobs' \in [Names -> JobStates]
        /\ events' \in [Names -> EventStates]
    BY <1>10, <2>2 DEF CreateJob, Notify, TypeOK, JobStates, EventStates
  <2> QED
    BY <1>10, <2>1, <2>3 DEF CreateJob, TypeOK
<1>11. ASSUME NEW ok \in BOOLEAN, PatchStatus(w, ok)
       PROVE  TypeOK'
  <2>1. faults' \in Nat /\ builds' \in [Keys -> Phases \cup {"absent"}]
    BY <1>11, FaultTypes, ReportTypes DEF PatchStatus
  <2>2. cond' \in Early \cup {"AllBuildsReady", "BuildsPending"}
    BY <1>11 DEF PatchStatus, Verdict, Early
  <2> QED
    BY <1>11, <2>1, <2>2, DoneTypes DEF PatchStatus
<1>12. CASE PatchVerdict(w)
  BY <1>12, DoneTypes DEF PatchVerdict, TypeOK
<1>13. CASE Abort(w)
  <2>1. faults' \in Nat
    BY <1>13, FaultTypes DEF Abort
  <2> QED
    BY <1>13, <2>1, DoneTypes DEF Abort, TypeOK
<1> QED
  BY <1>1, <1>2, <1>3, <1>4, <1>5, <1>6, <1>7, <1>8, <1>9, <1>10, <1>11, <1>12, <1>13
     DEF PassStep, PassFault

LEMMA OtherTypeStep ==
    ASSUME TypeOK,
           \/ \E w \in Passes, t \in ImageTag : PruneTag(w, t)
           \/ \E n \in Names : JobEvent(n) \/ JobEventPatch(n) \/ JobEventFails(n)
           \/ \E n \in Names : JobRuns(n) \/ PodLeft(n) \/ JobFailure(n)
           \/ Asked \/ Crash \/ UNCHANGED vars
    PROVE  TypeOK'
<1> USE DEF clusterVars, imageVars, jobVars, handlerVars, statusVars, inputVars, workVars
<1>1. ASSUME NEW w \in Passes, NEW t \in ImageTag, PruneTag(w, t)
      PROVE  TypeOK'
  BY <1>1 DEF PruneTag, TypeOK
<1>2. ASSUME NEW n \in Names, JobEvent(n)
      PROVE  TypeOK'
  BY <1>2 DEF JobEvent, TypeOK
<1>3. ASSUME NEW n \in Names, HandlerOver(n), faults' \in Nat,
             builds' \in [Keys -> Phases \cup {"absent"}],
             cond' \in Early \cup {"AllBuildsReady", "BuildsPending"}
      PROVE  TypeOK'
  BY <1>3 DEF HandlerOver, TypeOK, EventStates, NoBuilds
<1>4. ASSUME NEW n \in Names, JobEventPatch(n)
      PROVE  TypeOK'
  <2>1. handler[n] \in Phases /\ n.key \in Keys
    BY <1>4 DEF JobEventPatch, TypeOK, EventStates, Names
  <2>2. builds' \in [Keys -> Phases \cup {"absent"}]
    <3>1. builds' = [basis[n] EXCEPT ![n.key] = handler[n]] \/ builds' = builds
      BY <1>4 DEF JobEventPatch
    <3>2. basis[n] \in [Keys -> Phases \cup {"absent"}]
      BY DEF TypeOK
    <3>3. [basis[n] EXCEPT ![n.key] = handler[n]] \in [Keys -> Phases \cup {"absent"}]
      BY <2>1, <3>2
    <3> QED
      BY <3>1, <3>3 DEF TypeOK
  <2>3. cond' \in Early \cup {"AllBuildsReady", "BuildsPending"}
    BY <1>4 DEF JobEventPatch, Verdict, TypeOK
  <2> QED
    BY <1>3, <1>4, <2>2, <2>3 DEF JobEventPatch, TypeOK
<1>5. ASSUME NEW n \in Names, JobEventFails(n)
      PROVE  TypeOK'
  <2>1. faults' \in Nat
    BY <1>5, FaultTypes DEF JobEventFails
  <2> QED
    BY <1>3, <1>5, <2>1 DEF JobEventFails, TypeOK
<1>6. ASSUME NEW n \in Names, NEW from \in JobStates \ {"none"}, NEW to \in JobStates \ {"none"},
             JobTurns(n, from, to), faults' \in Nat, tags' \in SUBSET ImageTag,
             pushed' \in SUBSET ImageTag
      PROVE  TypeOK'
  <2>1. JobPhase[to] \in Phases
    BY PhaseOfJob
  <2>2. events' \in [Names -> EventStates]
    BY <1>6, <2>1 DEF JobTurns, Notify, TypeOK, EventStates
  <2> QED
    BY <1>6, <2>2 DEF JobTurns, TypeOK
<1>7. ASSUME NEW n \in Names, Push(n)
      PROVE  tags' \in SUBSET ImageTag /\ pushed' \in SUBSET ImageTag
  BY <1>7, ImageIsTag DEF Push, TypeOK
<1>8. ASSUME NEW n \in Names, JobRuns(n) \/ JobFailure(n)
      PROVE  TypeOK'
  <2>1. JobStates \ {"none"} = {"pending", "active", "pushed", "succeeded", "failed"}
    BY DEF JobStates
  <2>2. CASE JobStarts(n)
    BY <1>6, <2>1, <2>2 DEF JobStarts, TypeOK
  <2>3. CASE JobPushes(n)
    BY <1>6, <1>7, <2>1, <2>3 DEF JobPushes, TypeOK
  <2>4. CASE JobSucceeds(n)
    BY <1>6, <2>1, <2>4 DEF JobSucceeds, TypeOK
  <2>5. ASSUME NEW from \in {"active", "pushed"}, JobFails(n, from)
        PROVE  TypeOK'
    <3>1. faults' \in Nat
      BY <2>5, FaultTypes DEF JobFails
    <3> QED
      BY <1>6, <2>1, <2>5, <3>1 DEF JobFails, TypeOK
  <2> QED
    BY <1>8, <2>2, <2>3, <2>4, <2>5 DEF JobRuns, JobFailure
<1>9. ASSUME NEW n \in Names, PodLeft(n)
      PROVE  TypeOK'
  BY <1>7, <1>9 DEF PodLeft, OrphanPushes, OrphanDies, TypeOK
<1>10. CASE Asked
  BY <1>10, ReconcileTypes
     DEF Asked, ChangeSpec, ChangeNodes, PollerPatch, Changing, TypeOK
<1>11. CASE Crash
  <2>1. Unread \in Specs
    BY DEF Unread, TypeOK
  <2>2. faults' \in Nat
    BY <1>11, FaultTypes DEF Crash
  <2>3. events' \in [Names -> EventStates]
    BY <1>11, PhaseOfJob DEF Crash, TypeOK, EventStates
  <2> QED
    BY <1>11, <2>1, <2>2, <2>3 DEF Crash, TypeOK, EventStates, NoBuilds, NoneShown, Early
<1>12. CASE UNCHANGED vars
  BY <1>12 DEF vars, TypeOK
<1> QED
  BY <1>1, <1>2, <1>4, <1>5, <1>8, <1>9, <1>10, <1>11, <1>12

LEMMA TypeStep == TypeOK /\ [Next]_vars => TypeOK'
  BY PassTypeStep, OtherTypeStep DEF Next

(* Every variable of the operator and of the cluster keeps its type.       *)
THEOREM TypeCorrect == Spec => []TypeOK
  BY InitTypes, TypeStep, PTL DEF Spec

-----------------------------------------------------------------------------
(* An image of the key was pushed.                                         *)
WasBuilt(k) == \E t \in pushed : t.driver = k.driver /\ t.flatcar = k.flatcar

TagsPushed ==
    /\ tags \subseteq pushed
    /\ \A w \in Passes : seen[w] \subseteq pushed

(* What tells of a Job's success: its state, an event of it, its handler.  *)
JobsPushed ==
    \A n \in Names :
        /\ jobs[n] \in {"pushed", "succeeded"} => Image(n) \in pushed
        /\ events[n] = "Ready" => Image(n) \in pushed
        /\ handler[n] = "Ready" => Image(n) \in pushed

(* The status, as it is and as handlers have read it.                      *)
StatusPushed ==
    \A k \in Keys :
        /\ builds[k] = "Ready" => WasBuilt(k)
        /\ \A n \in Names : basis[n][k] = "Ready" => WasBuilt(k)

BuiltInv == TagsPushed /\ JobsPushed /\ StatusPushed

LEMMA ImageWasBuilt ==
    ASSUME NEW n \in Names, Image(n) \in pushed
    PROVE  n.key \in Keys /\ WasBuilt(n.key)
  BY DEF Names, Image, TagOf, WasBuilt

(* A pass reports Ready what it has seen a tag of.                         *)
LEMMA ReportIsBuilt ==
    ASSUME Extends = {}, TypeOK, BuiltInv, NEW w \in Passes, NEW k \in Keys,
           Report(w)[k] = "Ready"
    PROVE  WasBuilt(k)
<1>1. shown[w][k] # "Ready"
  BY DEF TypeOK, Live
<1>2. Built(w, k)
  BY <1>1 DEF Report, InFlight
<1>3. PICK t \in seen[w] : t.driver = k.driver /\ t.flatcar = k.flatcar
  BY <1>2 DEF Built, HasTag, matches_precompile_tag, TagOf
<1> QED
  BY <1>3 DEF BuiltInv, TagsPushed, WasBuilt

(* A step that lets nothing look built but what was, or looked so before.  *)
LEMMA BuiltKeeps ==
    ASSUME BuiltInv, pushed \subseteq pushed', tags' \subseteq pushed',
           \A w \in Passes : seen'[w] \subseteq seen[w] \cup tags,
           \A n \in Names : jobs'[n] \in {"pushed", "succeeded"} => Image(n) \in pushed',
           \A n \in Names : events'[n] = "Ready" => events[n] = "Ready" \/ Image(n) \in pushed',
           \A n \in Names : handler'[n] = "Ready" => handler[n] = "Ready" \/ events[n] = "Ready",
           \A k \in Keys : builds'[k] = "Ready" => builds[k] = "Ready" \/ WasBuilt(k),
           \A k \in Keys, n \in Names :
               basis'[n][k] = "Ready" => basis[n][k] = "Ready" \/ builds[k] = "Ready"
    PROVE  BuiltInv'
<1>1. TagsPushed'
  BY DEF BuiltInv, TagsPushed
<1>2. JobsPushed'
  BY DEF BuiltInv, JobsPushed, Image
<1>3. \A k \in Keys : WasBuilt(k) => WasBuilt(k)'
  BY DEF WasBuilt
<1>4. StatusPushed'
  BY <1>3 DEF BuiltInv, StatusPushed
<1> QED
  BY <1>1, <1>2, <1>4 DEF BuiltInv

(* The news of a Job is Ready only if its image was pushed.                *)
LEMMA NotifyKeeps ==
    ASSUME TypeOK, NEW n \in Names, NEW j \in JobStates \ {"none"}, Notify(n, j),
           j = "succeeded" => Image(n) \in pushed
    PROVE  \A m \in Names : events'[m] = "Ready" => events[m] = "Ready" \/ Image(m) \in pushed
<1>1. JobPhase[j] = "Ready" => Image(n) \in pushed
  BY PhaseOfJob
<1> QED
  BY <1>1 DEF Notify, TypeOK

LEMMA PassKeepsBuilt ==
    ASSUME Extends = {}, TypeOK, BuiltInv, NEW w \in Passes,
           \/ Begin(w) \/ PassStep(w) \/ PassFault(w)
           \/ \E t \in ImageTag : PruneTag(w, t)
    PROVE  BuiltInv'
<1> USE DEF clusterVars, imageVars, jobVars, handlerVars, statusVars, inputVars, workVars
<1> DEFINE Silent == UNCHANGED <<pushed, tags, jobs, events, handler, basis>>
           Shows == \A k \in Keys : builds'[k] = "Ready" => builds[k] = "Ready" \/ WasBuilt(k)
           Sees == \A v \in Passes : seen'[v] \subseteq seen[v] \cup tags
<1>1. ASSUME Silent, Shows, Sees
      PROVE  BuiltInv'
  BY <1>1, BuiltKeeps DEF BuiltInv, TagsPushed, JobsPushed
<1>2. ASSUME Done(w), Shows, UNCHANGED clusterVars
      PROVE  BuiltInv'
  <2>1. Silent /\ Sees
    BY <1>2 DEF Done, TypeOK
  <2> QED
    BY <1>1, <1>2, <2>1
<1>3. CASE Begin(w) \/ NoVersions(w) \/ StartCreating(w)
  BY <1>1, <1>3 DEF Begin, NoVersions, StartCreating
<1>4. ASSUME NEW ok \in BOOLEAN, ListNodes(w, ok) \/ ListJobs(w, ok)
      PROVE  BuiltInv'
  BY <1>1, <1>4 DEF ListNodes, ListJobs
<1>5. CASE ListTags(w)
  BY <1>1, <1>5 DEF ListTags, TypeOK
<1>6. ASSUME NEW why \in Early, ListTagsFails(w, why)
      PROVE  BuiltInv'
  BY <1>1, <1>6 DEF ListTagsFails
<1>7. ASSUME NEW n \in Names, DeleteJob(w, n)
      PROVE  BuiltInv'
  <2>1. jobs[n] \in JobStates \ {"none"} /\ (jobs[n] = "succeeded" => Image(n) \in pushed)
    BY <1>7 DEF DeleteJob, TypeOK, BuiltInv, JobsPushed
  <2>2. \A m \in Names : events'[m] = "Ready" => events[m] = "Ready" \/ Image(m) \in pushed
    BY <1>7, <2>1, NotifyKeeps DEF DeleteJob
  <2>3. \A m \in Names : jobs'[m] \in {"pushed", "succeeded"} => Image(m) \in pushed
    BY <1>7 DEF DeleteJob, TypeOK, BuiltInv, JobsPushed
  <2>4. UNCHANGED <<pushed, tags, seen, handler, basis, builds>>
    BY <1>7 DEF DeleteJob
  <2> QED
    BY <2>2, <2>3, <2>4, BuiltKeeps DEF BuiltInv, TagsPushed
<1>8. ASSUME NEW n \in Names, DeleteJobFails(w, n)
      PROVE  BuiltInv'
  BY <1>1, <1>8 DEF DeleteJobFails
<1>9. ASSUME NEW k \in Keys, NEW ok \in BOOLEAN, CreateJob(w, k, ok)
      PROVE  BuiltInv'
  <2>1. JobOf(w, k) \in Names /\ "pending" \in JobStates \ {"none"}
    BY DesiredIsKeys DEF TypeOK, JobStates
  <2>2. \A m \in Names : events'[m] = "Ready" => events[m] = "Ready" \/ Image(m) \in pushed
    BY <1>9, <2>1, NotifyKeeps DEF CreateJob
  <2>3. \A m \in Names : jobs'[m] \in {"pushed", "succeeded"} => Image(m) \in pushed
    BY <1>9, <2>1 DEF CreateJob, TypeOK, BuiltInv, JobsPushed
  <2>4. UNCHANGED <<pushed, tags, seen, handler, basis, builds>>
    BY <1>9 DEF CreateJob
  <2> QED
    BY <2>2, <2>3, <2>4, BuiltKeeps DEF BuiltInv, TagsPushed
<1>10. ASSUME NEW ok \in BOOLEAN, PatchStatus(w, ok)
       PROVE  BuiltInv'
  BY <1>2, <1>10, ReportIsBuilt DEF PatchStatus, Done
<1>11. CASE PatchVerdict(w) \/ Abort(w)
  BY <1>2, <1>11 DEF PatchVerdict, Abort, Done
<1>12. ASSUME NEW t \in ImageTag, PruneTag(w, t)
       PROVE  BuiltInv'
  BY <1>12, BuiltKeeps DEF PruneTag, BuiltInv, TagsPushed, JobsPushed
<1> QED
  BY <1>3, <1>4, <1>5, <1>6, <1>7, <1>8, <1>9, <1>10, <1>11, <1>12
     DEF PassStep, PassFault

LEMMA OthersKeepBuilt ==
    ASSUME TypeOK, BuiltInv,
           \/ \E n \in Names : JobEvent(n) \/ JobEventPatch(n) \/ JobEventFails(n)
           \/ \E n \in Names : JobRuns(n) \/ PodLeft(n) \/ JobFailure(n)
           \/ Asked \/ Crash \/ UNCHANGED vars
    PROVE  BuiltInv'
<1> USE DEF clusterVars, imageVars, jobVars, handlerVars, statusVars, inputVars, workVars
<1>1. ASSUME NEW n \in Names, JobEvent(n)
      PROVE  BuiltInv'
  BY <1>1, BuiltKeeps DEF JobEvent, BuiltInv, TagsPushed, JobsPushed, TypeOK
<1>2. ASSUME NEW n \in Names, HandlerOver(n),
             \A k \in Keys : builds'[k] = "Ready" => builds[k] = "Ready" \/ WasBuilt(k)
      PROVE  BuiltInv'
  BY <1>2, BuiltKeeps
     DEF HandlerOver, BuiltInv, TagsPushed, JobsPushed, TypeOK, NoBuilds
<1>3. ASSUME NEW n \in Names, JobEventPatch(n)
      PROVE  BuiltInv'
  <2>1. builds' = [basis[n] EXCEPT ![n.key] = handler[n]] \/ builds' = builds
    BY <1>3 DEF JobEventPatch
  <2>2. handler[n] = "Ready" => WasBuilt(n.key)
    BY ImageWasBuilt DEF BuiltInv, JobsPushed
  <2>3. ASSUME NEW k \in Keys, builds'[k] = "Ready"
        PROVE  builds[k] = "Ready" \/ WasBuilt(k)
    <3>1. basis[n] \in [Keys -> Phases \cup {"absent"}]
      BY DEF TypeOK
    <3> QED
      BY <2>1, <2>2, <2>3, <3>1 DEF BuiltInv, StatusPushed
  <2> QED
    BY <1>2, <1>3, <2>3 DEF JobEventPatch
<1>4. ASSUME NEW n \in Names, JobEventFails(n)
      PROVE  BuiltInv'
  BY <1>2, <1>4 DEF JobEventFails
<1>5. ASSUME NEW n \in Names, NEW from \in JobStates \ {"none"}, NEW to \in JobStates \ {"none"},
             JobTurns(n, from, to), tags' \subseteq pushed', pushed \subseteq pushed',
             to \in {"pushed", "succeeded"} => Image(n) \in pushed'
      PROVE  BuiltInv'
  <2>1. \A m \in Names : jobs'[m] \in {"pushed", "succeeded"} => Image(m) \in pushed'
    BY <1>5 DEF JobTurns, TypeOK, BuiltInv, JobsPushed
  <2>2. JobPhase[to] = "Ready" => Image(n) \in pushed'
    BY <1>5, PhaseOfJob
  <2>3. \A m \in Names : events'[m] = "Ready" => events[m] = "Ready" \/ Image(m) \in pushed'
    BY <1>5, <2>2 DEF JobTurns, Notify, TypeOK
  <2> QED
    BY <1>5, <2>1, <2>3, BuiltKeeps DEF JobTurns
<1>6. ASSUME NEW n \in Names, Push(n)
      PROVE  tags' \subseteq pushed' /\ pushed \subseteq pushed' /\ Image(n) \in pushed'
  BY <1>6 DEF Push, BuiltInv, TagsPushed
<1>7. ASSUME NEW n \in Names, JobRuns(n) \/ JobFailure(n)
      PROVE  BuiltInv'
  <2>1. JobStates \ {"none"} = {"pending", "active", "pushed", "succeeded", "failed"}
    BY DEF JobStates
  <2>2. tags \subseteq pushed
    BY DEF BuiltInv, TagsPushed
  <2>3. CASE JobPushes(n)
    BY <1>5, <1>6, <2>1, <2>3 DEF JobPushes
  <2>4. CASE JobStarts(n)
    BY <1>5, <2>1, <2>2, <2>4 DEF JobStarts
  <2>5. CASE JobSucceeds(n)
    BY <1>5, <2>1, <2>2, <2>5 DEF JobSucceeds, JobTurns, BuiltInv, JobsPushed
  <2>6. ASSUME NEW from \in {"active", "pushed"}, JobFails(n, from)
        PROVE  BuiltInv'
    BY <1>5, <2>1, <2>2, <2>6 DEF JobFails
  <2> QED
    BY <1>7, <2>3, <2>4, <2>5, <2>6 DEF JobRuns, JobFailure
<1>8. ASSUME NEW n \in Names, OrphanPushes(n)
      PROVE  BuiltInv'
  BY <1>6, <1>8, BuiltKeeps DEF OrphanPushes, BuiltInv, JobsPushed
<1>9. ASSUME UNCHANGED <<pushed, tags, seen, jobs, events, handler, basis, builds>>
      PROVE  BuiltInv'
  BY <1>9, BuiltKeeps DEF BuiltInv, TagsPushed, JobsPushed
<1>10. CASE Crash
  <2>1. ASSUME NEW n \in Names, events'[n] = "Ready"
        PROVE  Image(n) \in pushed
    <3>1. jobs[n] \in JobStates \ {"none"} /\ JobPhase[jobs[n]] = "Ready"
      BY <1>10, <2>1 DEF Crash, TypeOK
    <3> QED
      BY <3>1, PhaseOfJob DEF BuiltInv, JobsPushed
  <2>2. \A k \in Keys, n \in Names : basis'[n][k] # "Ready" /\ handler'[n] # "Ready"
    BY <1>10 DEF Crash, NoBuilds
  <2>3. /\ UNCHANGED <<pushed, tags, jobs, builds>> /\ \A w \in Passes : seen'[w] = {}
        /\ \A n \in Names : handler'[n] # "Ready"
    BY <1>10 DEF Crash
  <2> QED
    BY <2>1, <2>2, <2>3, BuiltKeeps DEF BuiltInv, TagsPushed, JobsPushed
<1>11. ASSUME NEW n \in Names, OrphanDies(n)
       PROVE  BuiltInv'
  BY <1>9, <1>11 DEF OrphanDies
<1>12. CASE Asked
  <2>1. Changing
    BY <1>12 DEF Asked, ChangeSpec, ChangeNodes, PollerPatch
  <2> QED
    BY <1>9, <2>1 DEF Changing
<1>13. CASE UNCHANGED vars
  BY <1>9, <1>13 DEF vars
<1> QED
  BY <1>1, <1>3, <1>4, <1>7, <1>8, <1>10, <1>11, <1>12, <1>13 DEF PodLeft

LEMMA InitBuilt == Init => BuiltInv
  BY DEF Init, BuiltInv, TagsPushed, JobsPushed, StatusPushed, NoBuilds

LEMMA BuiltStep ==
    ASSUME Extends = {}, TypeOK, BuiltInv, [Next]_vars
    PROVE  BuiltInv'
  BY PassKeepsBuilt, OthersKeepBuilt DEF Next

LEMMA BuiltInvariance == Extends = {} => (Spec => []BuiltInv)
<1> SUFFICES ASSUME Extends = {} PROVE Spec => []BuiltInv
  OBVIOUS
<1>1. TypeOK /\ BuiltInv /\ [Next]_vars => BuiltInv'
  BY BuiltStep
<1> QED
  BY <1>1, InitBuilt, TypeCorrect, PTL DEF Spec

(* If no driver version extends another, the status never calls a build    *)
(* Ready whose image was never pushed, whatever events, passes, crashes    *)
(* and lost calls are interleaved (main.py:631-672, 754-775).              *)
THEOREM ReadyMeansBuilt == Extends = {} => (Spec => []ReadyWasBuilt)
<1>1. BuiltInv => ReadyWasBuilt
  BY DEF BuiltInv, StatusPushed, WasBuilt, ReadyWasBuilt
<1> QED
  BY <1>1, BuiltInvariance, PTL

-----------------------------------------------------------------------------
(* Passes do not overlap, and Jobs can be listed and deleted.              *)
Orderly ==
    /\ \A v, w \in Passes : v = w
    /\ "jobs" \notin Failing

(* Whatever runs of what the pass wants is doomed or counts as in flight,  *)
(* and nothing runs of what it is about to create.                         *)
Alone(w) ==
    /\ at[w] = "delete" =>
          \A n \in Names : Running(n) /\ n.key \in Desired(w) =>
              n \in doomed[w] \/ n.key \in InFlight(w)
    /\ at[w] = "create" => \A n \in Names : Running(n) => n.key \notin missing[w]

AloneInv ==
    /\ OneLiveJob
    /\ \A w \in Passes : Alone(w)

(* No Job has begun to run.                                                *)
Calm == \A n \in Names : Running(n)' => Running(n)

LEMMA CalmKeeps ==
    ASSUME AloneInv, Calm,
           \/ \A w \in Passes : at'[w] \notin {"delete", "create"}
           \/ UNCHANGED <<at, mine, flats, shown, doomed, missing>>
    PROVE  AloneInv'
<1>1. OneLiveJob'
  BY DEF AloneInv, OneLiveJob, Calm
<1>2. ASSUME NEW w \in Passes
      PROVE  Alone(w)'
  BY <1>2 DEF AloneInv, Alone, Calm, Desired, InFlight
<1> QED
  BY <1>1, <1>2 DEF AloneInv

LEMMA SameJobsCalm == UNCHANGED jobs => Calm
  BY DEF Calm, Running

(* What a pass lists and wants is doomed, or the very Job it would create. *)
LEMMA ListJobsKeepsAlone ==
    ASSUME Orderly, TypeOK, AloneInv, NEW w \in Passes, NEW ok \in BOOLEAN, ListJobs(w, ok)
    PROVE  AloneInv'
<1> USE DEF jobVars
<1>1. ok
  BY DEF ListJobs, CallTo, Fault, Orderly
<1>2. /\ doomed' = [doomed EXCEPT ![w] = Doomed(w, Listed)]
      /\ shown' = [shown EXCEPT ![w] = Shown(w, Listed)]
      /\ at' = [at EXCEPT ![w] = "delete"]
      /\ UNCHANGED <<jobs, mine, flats>>
  BY <1>1 DEF ListJobs, Goto
<1>3. ASSUME NEW n \in Names, Running(n), n.key \in Desired(w)
      PROVE  n \in Doomed(w, Listed) \/ Shown(w, Listed)[n.key] # "none"
  <2>1. n \in Listed /\ JobPhase[jobs[n]] \in Live /\ n.key \in Keys
    BY <1>3 DEF Running, Listed, Names
  <2>2. CASE n.spec # mine[w]
    BY <1>3, <2>1, <2>2 DEF Doomed, Stale
  <2>3. CASE n.spec = mine[w]
    <3>1. n = JobOf(w, n.key)
      BY <2>3 DEF JobOf, Names
    <3>2. Shown(w, Listed)[n.key] = JobPhase[jobs[n]]
      BY <2>1, <3>1 DEF Shown
    <3> QED
      BY <2>1, <3>2 DEF Live
  <2> QED
    BY <2>2, <2>3
<1>4. OneLiveJob'
  BY <1>2 DEF AloneInv, OneLiveJob, Running
<1>5. Alone(w)'
  <2>1. /\ at'[w] = "delete" /\ doomed'[w] = Doomed(w, Listed)
        /\ shown'[w] = Shown(w, Listed)
    BY <1>2 DEF TypeOK
  <2>2. \A n \in Names : Running(n)' => Running(n)
    BY <1>2 DEF Running
  <2>3. Desired(w)' = Desired(w)
    BY <1>2 DEF Desired
  <2>4. \A n \in Names : n.key \in Keys
    BY DEF Names
  <2> QED
    BY <1>3, <2>1, <2>2, <2>3, <2>4 DEF Alone, InFlight
<1> QED
  BY <1>4, <1>5 DEF AloneInv, Orderly

LEMMA DeleteKeepsAlone ==
    ASSUME Orderly, TypeOK, AloneInv, NEW w \in Passes, NEW n \in Names,
           DeleteJob(w, n) \/ DeleteJobFails(w, n)
    PROVE  AloneInv'
<1> USE DEF inputVars, jobVars
<1>1. /\ UNCHANGED <<at, mine, flats, shown, missing>>
      /\ at[w] = "delete"
      /\ doomed' = [doomed EXCEPT ![w] = @ \ {n}]
  BY DEF DeleteJob, DeleteJobFails
<1>2. jobs' = [jobs EXCEPT ![n] = "none"]
  <2>1. CASE DeleteJob(w, n)
    BY <2>1 DEF DeleteJob
  <2>2. CASE DeleteJobFails(w, n)
    BY <2>2 DEF DeleteJobFails, CallTo, Fault, Orderly, TypeOK
  <2> QED
    BY <2>1, <2>2
<1>3. ~Running(n)' /\ \A m \in Names \ {n} : Running(m)' => Running(m)
  BY <1>2 DEF Running, TypeOK
<1>4. OneLiveJob'
  BY <1>3 DEF AloneInv, OneLiveJob
<1>5. Alone(w)'
  <2>1. doomed'[w] = doomed[w] \ {n}
    BY <1>1 DEF TypeOK
  <2> QED
    BY <1>1, <1>3, <2>1 DEF AloneInv, Alone, Desired, InFlight
<1> QED
  BY <1>4, <1>5 DEF AloneInv, Orderly

LEMMA StartCreatingKeepsAlone ==
    ASSUME Orderly, TypeOK, AloneInv, NEW w \in Passes, StartCreating(w)
    PROVE  AloneInv'
<1> USE DEF inputVars, jobVars
<1>1. /\ UNCHANGED jobs /\ at[w] = "delete" /\ doomed[w] = {}
      /\ at'[w] = "create" /\ missing'[w] \subseteq Missing(w)
  BY DEF StartCreating, Goto, TypeOK
<1>2. Missing(w) \subseteq Desired(w) \ InFlight(w)
  BY DesiredIsKeys DEF TypeOK
<1>3. Alone(w)'
  BY <1>1, <1>2 DEF AloneInv, Alone, Running
<1>4. OneLiveJob'
  BY <1>1 DEF AloneInv, OneLiveJob, Running
<1> QED
  BY <1>3, <1>4 DEF AloneInv, Orderly

(* The Job that is created is the only one to run for its key.             *)
LEMMA CreateKeepsAlone ==
    ASSUME Orderly, TypeOK, AloneInv, NEW w \in Passes, NEW k \in Keys, NEW ok \in BOOLEAN,
           CreateJob(w, k, ok)
    PROVE  AloneInv'
<1> USE DEF inputVars
<1>1. /\ UNCHANGED at /\ at[w] = "create" /\ k \in missing[w]
      /\ missing'[w] = missing[w] \ {k}
      /\ jobs' = [jobs EXCEPT ![JobOf(w, k)] = "pending"] \/ UNCHANGED jobs
  BY DEF CreateJob, TypeOK
<1>2. JobOf(w, k) \in Names /\ JobOf(w, k).key = k
  BY DesiredIsKeys DEF TypeOK
<1>3. \A n \in Names : Running(n)' => Running(n) \/ n = JobOf(w, k)
  BY <1>1, <1>2 DEF Running, TypeOK
<1>4. \A n \in Names : Running(n) => n.key # k
  BY <1>1 DEF AloneInv, Alone
<1>5. OneLiveJob'
  BY <1>2, <1>3, <1>4 DEF AloneInv, OneLiveJob
<1>6. Alone(w)'
  BY <1>1, <1>2, <1>3 DEF AloneInv, Alone
<1> QED
  BY <1>5, <1>6 DEF AloneInv, Orderly

LEMMA RunsAreCalm ==
    ASSUME TypeOK, NEW n \in Names, JobRuns(n) \/ JobFailure(n)
    PROVE  Calm /\ UNCHANGED <<at, mine, flats, shown, doomed, missing, builds>>
<1> USE DEF inputVars, workVars, statusVars
<1>1. ASSUME NEW from, NEW to, JobTurns(n, from, to),
             from \in {"pending", "active", "pushed"}
      PROVE  Calm /\ UNCHANGED <<at, mine, flats, shown, doomed, missing, builds>>
  <2>1. Running(n)
    BY <1>1, PhaseOfJob DEF JobTurns, Running, JobStates
  <2>2. \A m \in Names \ {n} : Running(m)' => Running(m)
    BY <1>1 DEF JobTurns, Running, TypeOK
  <2> QED
    BY <1>1, <2>1, <2>2 DEF JobTurns, Calm
<1> QED
  BY <1>1 DEF JobRuns, JobStarts, JobPushes, JobSucceeds, JobFailure, JobFails

LEMMA AloneStep ==
    ASSUME Orderly, TypeOK, AloneInv, [Next]_vars
    PROVE  AloneInv'
<1> USE DEF clusterVars, imageVars, jobVars, handlerVars, statusVars, inputVars, workVars
<1>1. ASSUME NEW w \in Passes, Begin(w)
      PROVE  AloneInv'
  BY <1>1, CalmKeeps, SameJobsCalm DEF Begin, Goto, TypeOK, Orderly
<1>2. ASSUME NEW w \in Passes, PassStep(w) \/ PassFault(w)
      PROVE  AloneInv'
  <2>1. ASSUME NEW ok \in BOOLEAN, ListNodes(w, ok)
        PROVE  AloneInv'
    BY <2>1, CalmKeeps, SameJobsCalm DEF ListNodes, Goto, TypeOK, Orderly
  <2>2. CASE NoVersions(w) \/ ListTags(w)
    BY <2>2, CalmKeeps, SameJobsCalm
       DEF NoVersions, ListTags, GiveUp, Goto, TypeOK, Orderly
  <2>3. ASSUME NEW why \in Early, ListTagsFails(w, why)
        PROVE  AloneInv'
    BY <2>3, CalmKeeps, SameJobsCalm DEF ListTagsFails, GiveUp, Goto, TypeOK, Orderly
  <2>4. CASE Done(w)
    BY <2>4, CalmKeeps, SameJobsCalm DEF Done, Goto, TypeOK, Orderly
  <2> QED
    BY <1>2, <2>1, <2>2, <2>3, <2>4, ListJobsKeepsAlone, DeleteKeepsAlone,
       StartCreatingKeepsAlone, CreateKeepsAlone
       DEF PassStep, PassFault, PatchStatus, PatchVerdict, Abort
<1>3. ASSUME UNCHANGED <<jobs, at, mine, flats, shown, doomed, missing>>
      PROVE  AloneInv'
  BY <1>3, CalmKeeps, SameJobsCalm
<1>4. ASSUME NEW w \in Passes, NEW t \in ImageTag, PruneTag(w, t)
      PROVE  AloneInv'
  BY <1>3, <1>4 DEF PruneTag
<1>5. ASSUME NEW n \in Names, JobEvent(n) \/ JobEventPatch(n) \/ JobEventFails(n) \/ PodLeft(n)
      PROVE  AloneInv'
  BY <1>3, <1>5
     DEF JobEvent, JobEventPatch, JobEventFails, HandlerOver, PodLeft, OrphanPushes, OrphanDies
<1>6. ASSUME NEW n \in Names, JobRuns(n) \/ JobFailure(n)
      PROVE  AloneInv'
  BY <1>6, CalmKeeps, RunsAreCalm
<1>7. CASE Asked
  <2>1. Changing
    BY <1>7 DEF Asked, ChangeSpec, ChangeNodes, PollerPatch
  <2> QED
    BY <1>3, <2>1 DEF Changing
<1>8. CASE Crash
  BY <1>8, CalmKeeps, SameJobsCalm DEF Crash
<1>9. CASE UNCHANGED vars
  BY <1>3, <1>9 DEF vars
<1> QED
  BY <1>1, <1>2, <1>4, <1>5, <1>6, <1>7, <1>8, <1>9 DEF Next

LEMMA AloneInvariance == Orderly => (Spec => []AloneInv)
<1> SUFFICES ASSUME Orderly PROVE Spec => []AloneInv
  OBVIOUS
<1>1. Init => AloneInv
  BY DEF Init, AloneInv, OneLiveJob, Running, Alone
<1>2. TypeOK /\ AloneInv /\ [Next]_vars => AloneInv'
  BY AloneStep
<1> QED
  BY <1>1, <1>2, TypeCorrect, PTL DEF Spec

(* One build at a time: as long as passes do not overlap and the Jobs can  *)
(* be listed and deleted, no edit of the spec, no crash in the middle of a *)
(* pass and no other failure leaves two unfinished Jobs for one image      *)
(* (main.py:581-587, 618-627).                                             *)
THEOREM OneBuildAtATime == Orderly => (Spec => []OneLiveJob)
  BY AloneInvariance, PTL DEF AloneInv

-----------------------------------------------------------------------------
(* A step that neither starts nor ends nor shows a build.                  *)
LEMMA NothingBuilt ==
    ASSUME UNCHANGED <<orphans, pushed, builds>>,
           \A n \in Names : Running(n)' <=> Running(n)
    PROVE  UNCHANGED Abstract!vars
  BY DEF Abstract!vars

(* The status may come to show what was built.                             *)
LEMMA ShowsBuilt ==
    ASSUME UNCHANGED <<jobs, orphans, pushed>>, BuiltInv'
    PROVE  Abstract!Next
<1> DEFINE keys == {k \in Keys : builds'[k] = "Ready"}
<1>1. UNCHANGED {n \in Names : Running(n)}
  BY DEF Running
<1>2. \A k \in keys : Abstract!WasBuilt(k)
  BY DEF BuiltInv, StatusPushed, WasBuilt, Abstract!WasBuilt
<1>3. keys \in SUBSET Abstract!Keys
  BY DEF Keys, Abstract!Keys
<1>4. {k \in Keys : builds[k] = "Ready"}' = keys
  OBVIOUS
<1>5. \E ks \in SUBSET Abstract!Keys : Abstract!Show(ks)
  BY <1>1, <1>2, <1>3, <1>4 DEF Abstract!Show
<1> QED
  BY <1>5 DEF Abstract!Next

(* A build that stops running.                                             *)
LEMMA StopsRunning ==
    ASSUME NEW n \in Names, ~Running(n)', \A m \in Names \ {n} : Running(m)' <=> Running(m)
    PROVE  {m \in Names : Running(m)}' = {m \in Names : Running(m)} \ {n}
  OBVIOUS

(* A build that starts.                                                    *)
LEMMA StartsRunning ==
    ASSUME NEW n \in Names, Running(n)', \A m \in Names \ {n} : Running(m)' <=> Running(m)
    PROVE  {m \in Names : Running(m)}' = {m \in Names : Running(m)} \cup {n}
  OBVIOUS

LEMMA PassImplementsSafe ==
    ASSUME Orderly, TypeOK, AloneInv, BuiltInv', NEW w \in Passes,
           \/ Begin(w) \/ PassStep(w) \/ PassFault(w)
           \/ \E t \in ImageTag : PruneTag(w, t)
    PROVE  [Abstract!Next]_(Abstract!vars)
<1> USE DEF clusterVars, imageVars, jobVars, handlerVars, statusVars, inputVars, workVars
<1>1. ASSUME UNCHANGED <<jobs, orphans, pushed, builds>>
      PROVE  UNCHANGED Abstract!vars
  BY <1>1, NothingBuilt DEF Running
<1>2. CASE Done(w)
  BY <1>2, ShowsBuilt DEF Done
<1>3. ASSUME NEW n \in Names, DeleteJob(w, n)
      PROVE  [Abstract!Next]_(Abstract!vars)
  <2>1. /\ UNCHANGED <<pushed, builds>>
        /\ jobs' = [jobs EXCEPT ![n] = "none"]
        /\ orphans' = IF jobs[n] = "active" THEN orphans \cup {n} ELSE orphans
    BY <1>3 DEF DeleteJob
  <2>2. ~Running(n)' /\ \A m \in Names \ {n} : Running(m)' <=> Running(m)
    BY <2>1 DEF Running, TypeOK
  <2>3. {m \in Names : Running(m)}' = {m \in Names : Running(m)} \ {n}
    BY <2>2, StopsRunning
  <2>4. CASE jobs[n] = "active"
    <3>1. Running(n)
      BY <2>4, PhaseOfJob DEF Running, JobStates
    <3>2. Abstract!CallOff(n)
      BY <2>1, <2>3, <2>4, <3>1 DEF Abstract!CallOff
    <3> QED
      BY <3>2 DEF Abstract!Next
  <2>5. CASE jobs[n] # "active"
    <3>1. Abstract!Stop(n)
      BY <2>1, <2>3, <2>5 DEF Abstract!Stop
    <3> QED
      BY <3>1 DEF Abstract!Next
  <2> QED
    BY <2>4, <2>5
<1>4. ASSUME NEW k \in Keys, NEW ok \in BOOLEAN, CreateJob(w, k, ok)
      PROVE  [Abstract!Next]_(Abstract!vars)
  <2> DEFINE b == JobOf(w, k)
  <2>1. b \in Names /\ b.key = k
    BY DesiredIsKeys DEF TypeOK
  <2>2. UNCHANGED <<orphans, pushed, builds>>
    BY <1>4 DEF CreateJob
  <2>3. CASE jobs' = [jobs EXCEPT ![b] = "pending"]
    <3>1. \A c \in {m \in Names : Running(m)} : c.key # b.key
      BY <1>4, <2>1 DEF CreateJob, AloneInv, Alone
    <3>2. jobs'[b] = "pending" /\ \A m \in Names \ {b} : jobs'[m] = jobs[m]
      BY <2>1, <2>3 DEF TypeOK
    <3>3. JobPhase["pending"] \in Live
      BY PhaseOfJob DEF JobStates
    <3>4. {m \in Names : Running(m)}' = {m \in Names : Running(m)} \cup {b}
      BY <2>1, <3>2, <3>3, StartsRunning DEF Running
    <3>5. Abstract!Start(b)
      BY <2>2, <3>1, <3>4 DEF Abstract!Start
    <3> QED
      BY <2>1, <3>5 DEF Abstract!Next
  <2>4. CASE UNCHANGED jobs
    BY <1>1, <2>2, <2>4
  <2> QED
    BY <1>4, <2>3, <2>4 DEF CreateJob
<1>5. ASSUME NEW ok \in BOOLEAN, ListNodes(w, ok) \/ ListJobs(w, ok)
      PROVE  UNCHANGED Abstract!vars
  BY <1>1, <1>5 DEF ListNodes, ListJobs
<1>6. ASSUME NEW why \in Early, ListTagsFails(w, why)
      PROVE  UNCHANGED Abstract!vars
  BY <1>1, <1>6 DEF ListTagsFails
<1>7. ASSUME NEW n \in Names, DeleteJobFails(w, n)
      PROVE  UNCHANGED Abstract!vars
  BY <1>1, <1>7 DEF DeleteJobFails
<1>8. ASSUME NEW t \in ImageTag, PruneTag(w, t)
      PROVE  UNCHANGED Abstract!vars
  BY <1>1, <1>8 DEF PruneTag
<1>9. CASE Begin(w) \/ NoVersions(w) \/ ListTags(w) \/ StartCreating(w)
  BY <1>1, <1>9 DEF Begin, NoVersions, ListTags, StartCreating
<1> QED
  BY <1>2, <1>3, <1>4, <1>5, <1>6, <1>7, <1>8, <1>9
     DEF PassStep, PassFault, PatchStatus, PatchVerdict, Abort

LEMMA OthersImplementSafe ==
    ASSUME TypeOK, BuiltInv',
           \/ \E n \in Names : JobEvent(n) \/ JobEventPatch(n) \/ JobEventFails(n)
           \/ \E n \in Names : JobRuns(n) \/ PodLeft(n) \/ JobFailure(n)
           \/ Asked \/ Crash \/ UNCHANGED vars
    PROVE  [Abstract!Next]_(Abstract!vars)
<1> USE DEF clusterVars, imageVars, jobVars, handlerVars, statusVars, inputVars, workVars
<1>1. ASSUME UNCHANGED <<jobs, orphans, pushed>>
      PROVE  [Abstract!Next]_(Abstract!vars)
  BY <1>1, ShowsBuilt
<1>2. ASSUME NEW n \in Names, JobEvent(n) \/ JobEventPatch(n) \/ JobEventFails(n)
      PROVE  [Abstract!Next]_(Abstract!vars)
  BY <1>1, <1>2 DEF JobEvent, JobEventPatch, JobEventFails, HandlerOver
<1>3. ASSUME NEW n \in Names, NEW from, NEW to, JobTurns(n, from, to),
             from \in {"pending", "active", "pushed"}, to \in {"active", "pushed"}
      PROVE  \A m \in Names : Running(m)' <=> Running(m)
  <2>1. Running(n) /\ Running(n)'
    BY <1>3, PhaseOfJob DEF JobTurns, Running, TypeOK, JobStates
  <2>2. \A m \in Names \ {n} : Running(m)' <=> Running(m)
    BY <1>3 DEF JobTurns, Running, TypeOK
  <2> QED
    BY <2>1, <2>2
<1>4. ASSUME NEW n \in Names, NEW from, NEW to, JobTurns(n, from, to),
             to \in {"succeeded", "failed"}, UNCHANGED pushed
      PROVE  [Abstract!Next]_(Abstract!vars)
  <2>1. ~Running(n)'
    BY <1>4, PhaseOfJob DEF JobTurns, Running, TypeOK, JobStates
  <2>2. \A m \in Names \ {n} : Running(m)' <=> Running(m)
    BY <1>4 DEF JobTurns, Running, TypeOK
  <2>3. {m \in Names : Running(m)}' = {m \in Names : Running(m)} \ {n}
    BY <2>1, <2>2, StopsRunning
  <2>4. Abstract!Stop(n)
    BY <1>4, <2>3 DEF JobTurns, Abstract!Stop
  <2> QED
    BY <2>4 DEF Abstract!Next
<1>5. ASSUME NEW n \in Names
      PROVE  Image(n) = Abstract!Image(n)
  BY DEF Image, TagOf, Abstract!Image, Abstract!TagOf
<1>6. ASSUME NEW n \in Names, JobRuns(n) \/ JobFailure(n)
      PROVE  [Abstract!Next]_(Abstract!vars)
  <2>1. CASE JobStarts(n)
    BY <1>3, <2>1, NothingBuilt DEF JobStarts, JobTurns
  <2>2. CASE JobPushes(n)
    <3>1. \A m \in Names : Running(m)' <=> Running(m)
      BY <1>3, <2>2 DEF JobPushes
    <3>2. {m \in Names : Running(m)}' = {m \in Names : Running(m)}
      BY <3>1
    <3>3. Running(n)
      BY <2>2, PhaseOfJob DEF JobPushes, JobTurns, Running, JobStates
    <3>4. Abstract!Push(n)
      BY <1>5, <2>2, <3>2, <3>3 DEF JobPushes, JobTurns, Push, Abstract!Push
    <3> QED
      BY <3>4 DEF Abstract!Next
  <2>3. CASE JobSucceeds(n)
    BY <1>4, <2>3 DEF JobSucceeds
  <2>4. ASSUME NEW from \in {"active", "pushed"}, JobFails(n, from)
        PROVE  [Abstract!Next]_(Abstract!vars)
    BY <1>4, <2>4 DEF JobFails
  <2> QED
    BY <1>6, <2>1, <2>2, <2>3, <2>4 DEF JobRuns, JobFailure
<1>7. ASSUME NEW n \in Names, PodLeft(n)
      PROVE  [Abstract!Next]_(Abstract!vars)
  <2>1. UNCHANGED <<jobs, builds>> /\ n \in orphans /\ orphans' = orphans \ {n}
    BY <1>7 DEF PodLeft, OrphanPushes, OrphanDies
  <2>2. pushed' \in {pushed, pushed \cup {Abstract!Image(n)}}
    BY <1>5, <1>7 DEF PodLeft, OrphanPushes, OrphanDies, Push
  <2>3. UNCHANGED {m \in Names : Running(m)}
    BY <2>1 DEF Running
  <2>4. Abstract!End(n)
    BY <2>1, <2>2, <2>3 DEF Abstract!End
  <2> QED
    BY <2>4 DEF Abstract!Next
<1>8. CASE Asked
  <2>1. Changing
    BY <1>8 DEF Asked, ChangeSpec, ChangeNodes, PollerPatch
  <2> QED
    BY <1>1, <2>1 DEF Changing
<1>9. CASE Crash
  BY <1>1, <1>9 DEF Crash
<1>10. CASE UNCHANGED vars
  BY <1>1, <1>10 DEF vars
<1> QED
  BY <1>2, <1>6, <1>7, <1>8, <1>9, <1>10

(* To whoever looks at builds only, reconciling is SafeBuilds: no image is *)
(* built twice at a time, images come from builds that were started, and   *)
(* only what was pushed is called ready (main.py:534-629, 631-672).        *)
THEOREM ImplementsSafeBuilds ==
    Orderly /\ Extends = {} => (Spec => SafeBuilding)
<1> SUFFICES ASSUME Orderly, Extends = {} PROVE Spec => SafeBuilding
  OBVIOUS
<1>1. Init => Abstract!Init
  BY DEF Init, Abstract!Init, Running, NoBuilds
<1>2. TypeOK /\ AloneInv /\ BuiltInv' /\ [Next]_vars => [Abstract!Next]_(Abstract!vars)
  BY PassImplementsSafe, OthersImplementSafe DEF Next
<1> QED
  BY <1>1, <1>2, TypeCorrect, AloneInvariance, BuiltInvariance, PTL
     DEF Spec, SafeBuilding, Abstract!Spec

-----------------------------------------------------------------------------
(* Nothing is built again.  Passes do not overlap and the spec stays as it *)
(* is; anything may fail, Job listings and deletions included.             *)
Settled ==
    /\ \A v, w \in Passes : v = w
    /\ \A s, t \in Specs : s = t

(* An image that came after the tags were listed is known by its Job: the  *)
(* Job is still there, or the pass remembers that it has deleted it.       *)
KnownByJob(w) ==
    /\ at[w] = "jobs" =>
          \A n \in Names : Image(n) \in tags => Image(n) \in seen[w] \/ jobs[n] # "none"
    /\ at[w] = "delete" =>
          /\ \A n \in Names : Image(n) \in tags =>
                Image(n) \in seen[w] \/ jobs[n] # "none" \/ n \in gone[w]
          /\ \A n \in doomed[w] : jobs[n] \in {"none", "succeeded", "failed"}
    /\ at[w] = "create" =>
          \A k \in missing[w] : Image(JobOf(w, k)) \in tags => jobs[JobOf(w, k)] # "none"

RebuildInv == orphans = {} /\ \A w \in Passes : KnownByJob(w)

LEMMA ImageNamesJob ==
    ASSUME Settled, NEW m \in Names, NEW n \in Names, Image(m) = Image(n)
    PROVE  m = n
<1>1. PICK j \in Keys, s \in Specs : m = [key |-> j, spec |-> s]
  BY DEF Names
<1>2. PICK k \in Keys, t \in Specs : n = [key |-> k, spec |-> t]
  BY DEF Names
<1>3. j.driver = k.driver /\ j.flatcar = k.flatcar
  BY <1>1, <1>2 DEF Image, TagOf
<1>4. j = k
  BY <1>3 DEF Keys
<1> QED
  BY <1>1, <1>2, <1>4 DEF Settled

(* A pass creates nothing for what it has seen.                            *)
LEMMA MissingIsUnseen ==
    ASSUME NEW w \in Passes, NEW k \in Keys, k \in Missing(w)
    PROVE  Image(JobOf(w, k)) \notin seen[w]
<1> SUFFICES ASSUME Image(JobOf(w, k)) \in seen[w]
             PROVE  FALSE
  OBVIOUS
<1> DEFINE t == TagOf(k, mine[w].precompile)
<1>1. t \in seen[w] /\ t.kernel = mine[w].precompile
  BY DEF Image, JobOf, TagOf
<1>2. parse_tag(t) = k
  BY DEF parse_tag, TagOf, Keys
<1> HIDE DEF t
<1> QED
  BY <1>1, <1>2 DEF Missing, compute_missing

(* Steps by which no Job goes away and each new image has one.             *)
LEMMA JobsStayKeeps ==
    ASSUME TypeOK, RebuildInv, orphans' = {},
           UNCHANGED <<at, mine, seen, doomed, gone>>,
           \A w \in Passes : missing'[w] \subseteq missing[w],
           \A n \in Names : Image(n) \in tags' => Image(n) \in tags \/ jobs'[n] # "none",
           \A n \in Names : jobs[n] # "none" => jobs'[n] # "none",
           \/ \A w \in Passes : at[w] # "delete"
           \/ \A n \in Names : jobs[n] \in {"none", "succeeded", "failed"} => jobs'[n] = jobs[n]
    PROVE  RebuildInv'
<1> SUFFICES ASSUME NEW w \in Passes
             PROVE  KnownByJob(w)'
  BY DEF RebuildInv
<1>1. \A n : Image(n)' = Image(n) /\ JobOf(w, n)' = JobOf(w, n)
  BY DEF Image, JobOf
<1>2. KnownByJob(w) /\ doomed[w] \subseteq Names
  BY DEF RebuildInv, TypeOK
<1>3. CASE at[w] = "create"
  <2>1. \A k \in missing[w] : JobOf(w, k) \in Names
    BY DEF TypeOK, JobOf, Names
  <2> QED
    BY <1>1, <1>2, <1>3, <2>1 DEF KnownByJob
<1>4. CASE at[w] # "create"
  BY <1>1, <1>2, <1>4 DEF KnownByJob
<1> QED
  BY <1>3, <1>4

(* Steps after which the only pass has nothing to remember.                *)
LEMMA ElsewhereKeeps ==
    ASSUME RebuildInv, UNCHANGED orphans,
           \A w \in Passes : at'[w] \notin {"jobs", "delete", "create"}
    PROVE  RebuildInv'
  BY DEF RebuildInv, KnownByJob

LEMMA PassKeepsRebuild ==
    ASSUME Settled, TypeOK, RebuildInv, NEW w \in Passes,
           Begin(w) \/ PassStep(w) \/ PassFault(w)
    PROVE  RebuildInv'
<1> USE DEF clusterVars, imageVars, jobVars, handlerVars, statusVars, inputVars, workVars
<1>1. \A v \in Passes : v = w
  BY DEF Settled
<1>2. ASSUME NEW to \in {"idle", "nodes", "tags", "giveup"}, Goto(w, to), UNCHANGED orphans
      PROVE  RebuildInv'
  BY <1>1, <1>2, ElsewhereKeeps DEF Goto, TypeOK
<1>3. CASE Begin(w) \/ NoVersions(w)
  BY <1>2, <1>3 DEF Begin, NoVersions, GiveUp
<1>4. ASSUME NEW ok \in BOOLEAN, ListNodes(w, ok)
      PROVE  RebuildInv'
  BY <1>2, <1>4 DEF ListNodes
<1>5. ASSUME NEW why \in Early, ListTagsFails(w, why)
      PROVE  RebuildInv'
  BY <1>2, <1>5 DEF ListTagsFails, GiveUp
<1>6. CASE ListTags(w)
  <2>1. /\ UNCHANGED <<orphans, tags, jobs>> /\ at'[w] = "jobs" /\ seen'[w] = tags
    BY <1>6 DEF ListTags, Goto, TypeOK
  <2> QED
    BY <1>1, <2>1 DEF RebuildInv, KnownByJob
<1>7. ASSUME NEW ok \in BOOLEAN, ListJobs(w, ok)
      PROVE  RebuildInv'
  <2> DEFINE listed == IF ok THEN Listed ELSE {}
  <2>1. /\ UNCHANGED <<orphans, tags, jobs, seen, mine>>
        /\ at[w] = "jobs" /\ at'[w] = "delete" /\ doomed'[w] = Doomed(w, listed)
    BY <1>7 DEF ListJobs, Goto, TypeOK
  <2>2. ASSUME NEW n \in Doomed(w, listed)
        PROVE  jobs'[n] \in {"succeeded", "failed"}
    <3>1. n \in Listed /\ n \in Names /\ jobs[n] \in JobStates \ {"none"}
      BY <2>2 DEF Doomed, Stale, Useless, Listed, TypeOK
    <3>2. n.spec = mine[w]
      BY <3>1 DEF Settled, Names, TypeOK
    <3>3. JobPhase[jobs[n]] \notin Live
      BY <2>2, <3>2 DEF Doomed, Stale, Useless
    <3> QED
      BY <2>1, <3>1, <3>3, PhaseOfJob DEF JobStates
  <2>3. \A n \in Names : Image(n) \in tags => Image(n) \in seen[w] \/ jobs[n] # "none"
    BY <2>1 DEF RebuildInv, KnownByJob
  <2>4. KnownByJob(w)'
    BY <2>1, <2>2, <2>3 DEF KnownByJob, Image
  <2> QED
    BY <1>1, <2>1, <2>4 DEF RebuildInv
<1>8. ASSUME NEW n \in Names, DeleteJob(w, n)
      PROVE  RebuildInv'
  <2>1. /\ UNCHANGED <<tags, at, mine, seen>> /\ at[w] = "delete" /\ n \in doomed[w]
        /\ jobs' = [jobs EXCEPT ![n] = "none"] /\ doomed'[w] = doomed[w] \ {n}
        /\ gone'[w] = gone[w] \cup {n}
        /\ orphans' = IF jobs[n] = "active" THEN orphans \cup {n} ELSE orphans
    BY <1>8 DEF DeleteJob, TypeOK
  <2>2. jobs[n] # "active" /\ doomed[w] \subseteq Names
    BY <2>1 DEF RebuildInv, KnownByJob, TypeOK
  <2>3. \A m \in Names : jobs'[m] = IF m = n THEN "none" ELSE jobs[m]
    BY <2>1 DEF TypeOK
  <2>4. KnownByJob(w)'
    BY <2>1, <2>2, <2>3 DEF RebuildInv, KnownByJob, Image
  <2> QED
    BY <1>1, <2>1, <2>2, <2>4 DEF RebuildInv
<1>9. ASSUME NEW n \in Names, DeleteJobFails(w, n)
      PROVE  RebuildInv'
  <2>1. /\ UNCHANGED <<tags, at, mine, seen, jobs, gone, orphans>> /\ at[w] = "delete"
        /\ doomed'[w] \subseteq doomed[w]
    BY <1>9 DEF DeleteJobFails, TypeOK
  <2>2. KnownByJob(w)'
    BY <2>1 DEF RebuildInv, KnownByJob, Image
  <2> QED
    BY <1>1, <2>1, <2>2 DEF RebuildInv
<1>10. CASE StartCreating(w)
  <2>1. /\ UNCHANGED <<tags, mine, seen, jobs, orphans>>
        /\ at[w] = "delete" /\ at'[w] = "create"
        /\ missing'[w] = {k \in Missing(w) : JobOf(w, k) \notin gone[w]}
    BY <1>10 DEF StartCreating, Goto, TypeOK
  <2>2. ASSUME NEW k \in missing'[w], Image(JobOf(w, k)) \in tags
        PROVE  jobs[JobOf(w, k)] # "none"
    <3>1. k \in Keys /\ k \in Missing(w) /\ JobOf(w, k) \in Names /\ JobOf(w, k) \notin gone[w]
      BY <2>1, <2>2, DesiredIsKeys DEF TypeOK
    <3>2. Image(JobOf(w, k)) \notin seen[w]
      BY <3>1, MissingIsUnseen
    <3> QED
      BY <2>1, <2>2, <3>1, <3>2 DEF RebuildInv, KnownByJob
  <2>3. KnownByJob(w)'
    BY <2>1, <2>2 DEF KnownByJob, Image, JobOf
  <2> QED
    BY <1>1, <2>1, <2>3 DEF RebuildInv
<1>11. ASSUME NEW k \in Keys, NEW ok \in BOOLEAN, CreateJob(w, k, ok)
       PROVE  RebuildInv'
  <2>1. /\ UNCHANGED <<tags, at, mine, seen, doomed, gone, orphans>> /\ at[w] = "create"
        /\ missing'[w] \subseteq missing[w] /\ JobOf(w, k) \in Names
    BY <1>11, DesiredIsKeys DEF CreateJob, TypeOK
  <2>2. \A n \in Names : jobs[n] # "none" => jobs'[n] # "none"
    BY <1>11 DEF CreateJob, TypeOK
  <2> QED
    BY <1>1, <2>1, <2>2, JobsStayKeeps DEF RebuildInv
<1>12. CASE Done(w)
  BY <1>2, <1>12 DEF Done
<1> QED
  BY <1>3, <1>4, <1>5, <1>6, <1>7, <1>8, <1>9, <1>10, <1>11, <1>12
     DEF PassStep, PassFault, PatchStatus, PatchVerdict, Abort

LEMMA OthersKeepRebuild ==
    ASSUME Settled, TypeOK, RebuildInv,
           \/ \E w \in Passes, t \in ImageTag : PruneTag(w, t)
           \/ \E n \in Names : JobEvent(n) \/ JobEventPatch(n) \/ JobEventFails(n)
           \/ \E n \in Names : JobRuns(n) \/ PodLeft(n) \/ JobFailure(n)
           \/ Asked \/ Crash \/ UNCHANGED vars
    PROVE  RebuildInv'
<1> USE DEF clusterVars, imageVars, jobVars, handlerVars, statusVars, inputVars, workVars
<1>1. orphans = {}
  BY DEF RebuildInv
<1>2. ASSUME UNCHANGED <<jobs, orphans, at, mine, seen, doomed, gone, missing>>,
             tags' \subseteq tags
      PROVE  RebuildInv'
  BY <1>1, <1>2, JobsStayKeeps
<1>3. ASSUME NEW n \in Names, NEW from \in {"pending", "active", "pushed"},
             NEW to \in {"active", "pushed", "succeeded", "failed"}, JobTurns(n, from, to),
             UNCHANGED tags \/ Push(n)
      PROVE  RebuildInv'
  <2>1. /\ UNCHANGED <<orphans, at, mine, seen, doomed, gone, missing>>
        /\ jobs[n] = from /\ jobs' = [jobs EXCEPT ![n] = to]
    BY <1>3 DEF JobTurns
  <2>2. \A m \in Names : jobs'[m] = IF m = n THEN to ELSE jobs[m]
    BY <2>1 DEF TypeOK
  <2>3. \A m \in Names : Image(m) \in tags' => Image(m) \in tags \/ m = n
    BY <1>3, ImageNamesJob DEF Push
  <2> QED
    BY <1>1, <2>1, <2>2, <2>3, JobsStayKeeps
<1>4. ASSUME NEW n \in Names, JobRuns(n) \/ JobFailure(n)
      PROVE  RebuildInv'
  BY <1>3, <1>4 DEF JobRuns, JobStarts, JobPushes, JobSucceeds, JobFailure, JobFails
<1>5. \A n \in Names : ~PodLeft(n)
  BY <1>1 DEF PodLeft, OrphanPushes, OrphanDies
<1>6. ASSUME NEW w \in Passes, NEW t \in ImageTag, PruneTag(w, t)
      PROVE  RebuildInv'
  BY <1>2, <1>6 DEF PruneTag
<1>7. ASSUME NEW n \in Names, JobEvent(n) \/ JobEventPatch(n) \/ JobEventFails(n)
      PROVE  RebuildInv'
  BY <1>2, <1>7 DEF JobEvent, JobEventPatch, JobEventFails, HandlerOver
<1>8. CASE Asked
  <2>1. Changing
    BY <1>8 DEF Asked, ChangeSpec, ChangeNodes, PollerPatch
  <2> QED
    BY <1>2, <2>1 DEF Changing
<1>9. CASE Crash
  BY <1>9, ElsewhereKeeps DEF Crash
<1>10. CASE UNCHANGED vars
  BY <1>2, <1>10 DEF vars
<1> QED
  BY <1>4, <1>5, <1>6, <1>7, <1>8, <1>9, <1>10

(* Only CreateJob makes a Job, and only where no image is.                 *)
LEMMA OnlyCreateMakesJobs ==
    ASSUME TypeOK, RebuildInv, [Next]_vars, NEW n \in Names, jobs[n] = "none", jobs'[n] # "none"
    PROVE  Image(n) \notin tags
<1> USE DEF clusterVars, imageVars, jobVars, handlerVars, statusVars, inputVars, workVars
<1>1. ~UNCHANGED jobs
  OBVIOUS
<1>2. ASSUME NEW w \in Passes, NEW k \in Keys, NEW ok \in BOOLEAN, CreateJob(w, k, ok)
      PROVE  Image(n) \notin tags
  <2>1. n = JobOf(w, k)
    BY <1>2 DEF CreateJob, TypeOK
  <2> QED
    BY <1>2, <2>1 DEF CreateJob, RebuildInv, KnownByJob
<1>3. ASSUME NEW w \in Passes, NEW m \in Names, DeleteJob(w, m)
      PROVE  FALSE
  BY <1>3 DEF DeleteJob, TypeOK
<1>4. ASSUME NEW m \in Names, NEW from \in {"pending", "active", "pushed"}, NEW to,
             JobTurns(m, from, to)
      PROVE  FALSE
  BY <1>4 DEF JobTurns, TypeOK
<1>5. ASSUME NEW m \in Names, JobRuns(m) \/ JobFailure(m)
      PROVE  FALSE
  BY <1>4, <1>5 DEF JobRuns, JobStarts, JobPushes, JobSucceeds, JobFailure, JobFails
<1>6. ASSUME NEW m \in Names,
             JobEvent(m) \/ JobEventPatch(m) \/ JobEventFails(m) \/ PodLeft(m)
      PROVE  FALSE
  BY <1>1, <1>6
     DEF JobEvent, JobEventPatch, JobEventFails, HandlerOver, PodLeft, OrphanPushes, OrphanDies
<1>7. ASSUME NEW w \in Passes, Begin(w) \/ PassStep(w) \/ PassFault(w)
      PROVE  Image(n) \notin tags
  BY <1>1, <1>2, <1>3, <1>7
     DEF Begin, PassStep, PassFault, ListNodes, NoVersions, ListTags, ListTagsFails, ListJobs,
         DeleteJobFails, StartCreating, PatchStatus, PatchVerdict, Abort, Done
<1>8. ASSUME NEW w \in Passes, NEW t \in ImageTag, PruneTag(w, t)
      PROVE  FALSE
  BY <1>1, <1>8 DEF PruneTag
<1>9. ~Asked /\ ~Crash /\ ~UNCHANGED vars
  BY <1>1 DEF Asked, ChangeSpec, ChangeNodes, PollerPatch, Changing, Crash, vars
<1> QED
  BY <1>5, <1>6, <1>7, <1>8, <1>9 DEF Next

(* Nothing is built again: as long as passes do not overlap and the spec   *)
(* stays as it is, a Job is created only for an image that the registry    *)
(* does not hold at that moment, whatever calls fail and wherever the      *)
(* operator dies (main.py:488, 534, 596-629).                              *)
THEOREM NothingBuiltAgain == Settled => (Spec => NoRebuild)
<1> SUFFICES ASSUME Settled PROVE Spec => NoRebuild
  OBVIOUS
<1>1. Init => RebuildInv
  BY DEF Init, RebuildInv, KnownByJob
<1>2. TypeOK /\ RebuildInv /\ [Next]_vars => RebuildInv'
  BY PassKeepsRebuild, OthersKeepRebuild DEF Next
<1>3. TypeOK /\ RebuildInv /\ [Next]_vars =>
          [\A n \in Names : jobs[n] = "none" /\ jobs'[n] # "none" => Image(n) \notin tags]_vars
  BY OnlyCreateMakesJobs
<1> QED
  BY <1>1, <1>2, <1>3, TypeCorrect, PTL DEF Spec, NoRebuild
=============================================================================
