----------------------------- MODULE Reconcile -----------------------------
(***************************************************************************)
(* How one VGPUDriverImage is reconciled: passes of _do_reconcile (run by  *)
(* the create/update handler and by the 10-minute timer, which kopf does   *)
(* not serialise), the build Jobs they create and delete, the Job event    *)
(* handler that writes the same status, and the environment: nodes, the    *)
(* spec, the channel poller, the pods that push images, failing calls.     *)
(*                                                                         *)
(* Every call to the API server or to the registry is a step of its own;   *)
(* what a pass computes between two calls is part of the step before.  A   *)
(* Job is named by its key and the spec it was made from, for the name     *)
(* holds a hash of the whole spec.  Garbage collection appears only by     *)
(* what it may remove; Retention models it.                                *)
(***************************************************************************)
EXTENDS ImageTags, Naturals

CONSTANTS
    Passes,      \* the reconcile calls that may be in flight together
    Specs,       \* the specs the resource may have
    Clusters,    \* the sets of Flatcar versions its nodes may run
    Channels,    \* the sets of versions the poller may track
    Watching,    \* FALSE to leave out the Job event handler: passes never
                 \* read what it writes
    Failing,     \* what may go wrong, see Kinds
    MaxFaults,   \* bound on faults
    MaxChanges   \* bound on edits of the spec, node and channel changes

(* A Job that fails, a listing or deletion of Jobs that fails, any other   *)
(* API or registry call that fails, an operator that dies.                 *)
Kinds == {"build", "jobs", "call", "crash"}

SpecType == [drivers : SUBSET Drivers, pinned : SUBSET Flatcars, discover : BOOLEAN,
             precompile : BOOLEAN, retention : BOOLEAN, rev : Nat]

ASSUME ReconcileTypes ==
    /\ Specs \subseteq SpecType
    /\ Clusters \subseteq SUBSET Flatcars
    /\ Channels \subseteq SUBSET Flatcars
    /\ Watching \in BOOLEAN /\ Failing \subseteq Kinds
    /\ MaxFaults \in Nat /\ MaxChanges \in Nat

VARIABLES
    spec,     \* the spec of the resource
    nodes,    \* Flatcar versions of the nodes
    tracked,  \* status.trackedChannelVersions
    tags,     \* the tags in the registry
    pushed,   \* every tag ever pushed (history)
    jobs,     \* the Jobs in the cluster, by name
    orphans,  \* Jobs deleted while their pod ran, and it still does
    events,   \* for each Job, the latest state its watch has not delivered
    handler,  \* for each Job, the phase on_job_event is about to write
    basis,    \* ... and the status.builds it read
    builds,   \* status.builds: the phase of each entry, or "absent"
    cond,     \* the reason of status.conditions[Reconciled]
    faults,   \* faults so far
    changes,  \* changes so far
    at,       \* where each pass is
    mine,     \* the spec a pass works from
    flats,    \* the Flatcar versions it found
    nodesOk,  \* whether it could list the nodes
    seen,     \* the tags it listed
    shown,    \* the phases of the Jobs it counts as in flight
    doomed,   \* Jobs it has yet to delete
    gone,     \* Jobs it deleted
    missing,  \* keys it has yet to create Jobs for
    verdict   \* the reason it gives up with

clusterVars == <<spec, nodes, tracked>>
imageVars   == <<tags, pushed>>
jobVars     == <<jobs, orphans, events>>
handlerVars == <<handler, basis>>
statusVars  == <<builds, cond>>
inputVars   == <<mine, flats, nodesOk, seen, shown>>
workVars    == <<doomed, gone, missing, verdict>>
vars == <<clusterVars, imageVars, jobVars, handlerVars, statusVars, faults, changes,
          at, inputVars, workVars>>

Names == [key : Keys, spec : Specs]
JobStates == {"none", "pending", "active", "pushed", "succeeded", "failed"}
Phases == {"Pending", "Building", "Ready", "Failed"}
Early == {"NoFlatcarVersions", "RegistryAuthFailed", "RegistryError", "RegistryUnreachable"}

(* Mutant: a Job that is over is taken to have succeeded.                  *)
JobPhaseByEnd ==
    [state \in JobStates \ {"none"} |->
        CASE state = "pending" -> "Pending"
          [] state \in {"active", "pushed"} -> "Building"
          [] OTHER -> "Ready"]

(* The phase of a Job, from its counters.                                  *)
JobPhase ==
    [state \in JobStates \ {"none"} |->
        CASE state = "pending" -> "Pending"
          [] state \in {"active", "pushed"} -> "Building"
          [] state = "succeeded" -> "Ready"
          [] state = "failed" -> "Failed"]

Live == {"Pending", "Building"}
Image(n) == TagOf(n.key, n.spec.precompile)
Listed == {n \in Names : jobs[n] # "none"}

-----------------------------------------------------------------------------
(* What a pass concludes from what it listed.                              *)
Desired(w) == compute_desired(mine[w].drivers, flats[w])
JobOf(w, k) == [key |-> k, spec |-> mine[w]]
Built(w, k) == HasTag(k, mine[w].precompile, seen[w])

(* Mutant: the Job the pass would create itself counts as stale.           *)
StaleAny(w, listed) == {n \in listed : JobPhase[jobs[n]] \in Live}

(* In-flight Jobs of another spec, and finished Jobs that left no image.   *)
Stale(w, listed) == {n \in listed : JobPhase[jobs[n]] \in Live /\ n.spec # mine[w]}
Useless(w, listed) == {n \in listed : JobPhase[jobs[n]] \notin Live /\ ~Built(w, n.key)}

(* Mutants: finished Jobs are left alone, or unfinished ones.              *)
DoomedUnfinished(w, listed) == {n \in Stale(w, listed) : n.key \in Desired(w)}
DoomedFinished(w, listed) == {n \in Useless(w, listed) : n.key \in Desired(w)}

Doomed(w, listed) ==
    {n \in Stale(w, listed) \cup Useless(w, listed) : n.key \in Desired(w)}

(* Mutant: a finished Job counts as in flight.                             *)
ShownFinished(w, listed) ==
    [k \in Keys |-> IF JobOf(w, k) \in listed THEN JobPhase[jobs[JobOf(w, k)]] ELSE "none"]

(* What is left of a desired key's Jobs and unfinished is the one that the *)
(* pass itself would create.                                               *)
Shown(w, listed) ==
    [k \in Keys |->
        IF JobOf(w, k) \in listed /\ JobPhase[jobs[JobOf(w, k)]] \in Live
        THEN JobPhase[jobs[JobOf(w, k)]] ELSE "none"]

InFlight(w) == {k \in Keys : shown[w][k] # "none"}

Missing(w) == compute_missing(Desired(w), seen[w], InFlight(w), mine[w].precompile)

Report(w) ==
    [k \in Keys |->
        IF k \notin Desired(w) THEN "absent"
        ELSE IF Built(w, k) THEN "Ready"
        ELSE IF k \in InFlight(w) THEN shown[w][k] ELSE "Pending"]

Verdict(b) ==
    IF \A k \in Keys : b[k] \in {"absent", "Ready"} THEN "AllBuildsReady" ELSE "BuildsPending"

-----------------------------------------------------------------------------
EventStates == {"none"} \cup Phases

TypeOK ==
    /\ spec \in Specs /\ nodes \in SUBSET Flatcars /\ tracked \in SUBSET Flatcars
    /\ tags \in SUBSET ImageTag /\ pushed \in SUBSET ImageTag
    /\ jobs \in [Names -> JobStates] /\ orphans \in SUBSET Names
    /\ events \in [Names -> EventStates] /\ handler \in [Names -> EventStates]
    /\ basis \in [Names -> [Keys -> Phases \cup {"absent"}]]
    /\ builds \in [Keys -> Phases \cup {"absent"}]
    /\ cond \in Early \cup {"AllBuildsReady", "BuildsPending"}
    /\ faults \in Nat /\ changes \in Nat
    /\ at \in [Passes -> {"idle", "nodes", "tags", "jobs", "delete", "create", "giveup"}]
    /\ mine \in [Passes -> Specs]
    /\ flats \in [Passes -> SUBSET Flatcars]
    /\ nodesOk \in [Passes -> BOOLEAN]
    /\ seen \in [Passes -> SUBSET ImageTag]
    /\ shown \in [Passes -> [Keys -> Live \cup {"none"}]]
    /\ doomed \in [Passes -> SUBSET Names] /\ gone \in [Passes -> SUBSET Names]
    /\ missing \in [Passes -> SUBSET Keys]
    /\ verdict \in [Passes -> Early]

Unread == CHOOSE s \in Specs : TRUE
NoBuilds == [k \in Keys |-> "absent"]
NoneShown == [k \in Keys |-> "none"]

(* The resource has just been created.                                     *)
Init ==
    /\ spec \in Specs /\ nodes \in Clusters /\ tracked = {}
    /\ tags = {} /\ pushed = {}
    /\ jobs = [n \in Names |-> "none"] /\ orphans = {}
    /\ events = [n \in Names |-> "none"]
    /\ handler = [n \in Names |-> "none"]
    /\ basis = [n \in Names |-> NoBuilds]
    /\ builds = NoBuilds /\ cond = "BuildsPending"
    /\ faults = 0 /\ changes = 0
    /\ at = [w \in Passes |-> "idle"]
    /\ mine = [w \in Passes |-> Unread]
    /\ flats = [w \in Passes |-> {}]
    /\ nodesOk = [w \in Passes |-> TRUE]
    /\ seen = [w \in Passes |-> {}]
    /\ shown = [w \in Passes |-> NoneShown]
    /\ doomed = [w \in Passes |-> {}]
    /\ gone = [w \in Passes |-> {}]
    /\ missing = [w \in Passes |-> {}]
    /\ verdict = [w \in Passes |-> "NoFlatcarVersions"]

-----------------------------------------------------------------------------
Fault(kind) ==
    /\ kind \in Failing
    /\ faults < MaxFaults
    /\ faults' = faults + 1

(* A call succeeds, or fails at the cost of a fault.                       *)
CallTo(kind, ok) == IF ok THEN UNCHANGED faults ELSE Fault(kind)
Call(ok) == CallTo("call", ok)

(* The watch has news of a Job: the latest replaces what waits.            *)
Notify(n, state) ==
    events' = IF Watching THEN [events EXCEPT ![n] = JobPhase[state]] ELSE events

Goto(w, where) == at' = [at EXCEPT ![w] = where]

GiveUp(w, why) ==
    /\ Goto(w, "giveup")
    /\ verdict' = [verdict EXCEPT ![w] = why]

(* Mutant: the versions the poller tracks are forgotten.                   *)
BeginUntracked(w) ==
    /\ at[w] = "idle"
    /\ mine' = [mine EXCEPT ![w] = spec]
    /\ flats' = [flats EXCEPT ![w] = spec.pinned]
    /\ nodesOk' = [nodesOk EXCEPT ![w] = TRUE]
    /\ Goto(w, IF spec.discover THEN "nodes" ELSE "tags")
    /\ UNCHANGED <<clusterVars, imageVars, jobVars, handlerVars, statusVars, faults,
                   changes, seen, shown, workVars>>

(* The handler is called with the spec and the status of the moment.       *)
Begin(w) ==
    /\ at[w] = "idle"
    /\ mine' = [mine EXCEPT ![w] = spec]
    /\ flats' = [flats EXCEPT ![w] = spec.pinned \cup tracked]
    /\ nodesOk' = [nodesOk EXCEPT ![w] = TRUE]
    /\ Goto(w, IF spec.discover THEN "nodes" ELSE "tags")
    /\ UNCHANGED <<clusterVars, imageVars, jobVars, handlerVars, statusVars, faults,
                   changes, seen, shown, workVars>>

ListNodes(w, ok) ==
    /\ at[w] = "nodes"
    /\ Call(ok)
    /\ nodesOk' = [nodesOk EXCEPT ![w] = ok]
    /\ flats' = [flats EXCEPT ![w] = IF ok THEN @ \cup nodes ELSE @]
    /\ Goto(w, "tags")
    /\ UNCHANGED <<clusterVars, imageVars, jobVars, handlerVars, statusVars, changes,
                   mine, seen, shown, workVars>>

NoVersions(w) ==
    /\ at[w] = "tags"
    /\ flats[w] = {}
    /\ GiveUp(w, "NoFlatcarVersions")
    /\ UNCHANGED <<clusterVars, imageVars, jobVars, handlerVars, statusVars, faults,
                   changes, inputVars, doomed, gone, missing>>

ListTags(w) ==
    /\ at[w] = "tags"
    /\ flats[w] # {}
    /\ seen' = [seen EXCEPT ![w] = tags]
    /\ Goto(w, "jobs")
    /\ UNCHANGED <<clusterVars, imageVars, jobVars, handlerVars, statusVars, faults,
                   changes, mine, flats, nodesOk, shown, workVars>>

(* The Secret cannot be used, or the tags cannot be listed.                *)
ListTagsFails(w, why) ==
    /\ at[w] = "tags"
    /\ flats[w] # {}
    /\ why \in Early \ {"NoFlatcarVersions"}
    /\ Fault("call")
    /\ GiveUp(w, why)
    /\ UNCHANGED <<clusterVars, imageVars, jobVars, handlerVars, statusVars,
                   changes, inputVars, doomed, gone, missing>>

(* A failure to list the Jobs is taken for an empty list.                  *)
ListJobs(w, ok) ==
    /\ at[w] = "jobs"
    /\ CallTo("jobs", ok)
    /\ LET listed == IF ok THEN Listed ELSE {}
       IN  /\ doomed' = [doomed EXCEPT ![w] = Doomed(w, listed)]
           /\ shown' = [shown EXCEPT ![w] = Shown(w, listed)]
    /\ gone' = [gone EXCEPT ![w] = {}]
    /\ Goto(w, "delete")
    /\ UNCHANGED <<clusterVars, imageVars, jobVars, handlerVars, statusVars, changes,
                   mine, flats, nodesOk, seen, missing, verdict>>

(* Background deletion: the Job is gone at once, its pod when the garbage  *)
(* collector gets to it; the watch delivers the Job's last state.          *)
DeleteJob(w, n) ==
    /\ at[w] = "delete"
    /\ n \in doomed[w]
    /\ jobs[n] # "none"
    /\ jobs' = [jobs EXCEPT ![n] = "none"]
    /\ orphans' = IF jobs[n] = "active" THEN orphans \cup {n} ELSE orphans
    /\ Notify(n, jobs[n])
    /\ doomed' = [doomed EXCEPT ![w] = @ \ {n}]
    /\ gone' = [gone EXCEPT ![w] = @ \cup {n}]
    /\ UNCHANGED <<clusterVars, imageVars, handlerVars, statusVars, faults, changes,
                   at, inputVars, missing, verdict>>

(* 404, or an error: the pass goes on as if the Job were gone, but without *)
(* remembering that it deleted it.                                         *)
DeleteJobFails(w, n) ==
    /\ at[w] = "delete"
    /\ n \in doomed[w]
    /\ CallTo("jobs", jobs[n] = "none")
    /\ doomed' = [doomed EXCEPT ![w] = @ \ {n}]
    /\ UNCHANGED <<clusterVars, imageVars, jobVars, handlerVars, statusVars, changes,
                   at, inputVars, gone, missing, verdict>>

(* Mutant: a Job that was just deleted is created again at once.           *)
StartCreatingAtOnce(w) ==
    /\ at[w] = "delete"
    /\ doomed[w] = {}
    /\ missing' = [missing EXCEPT ![w] = Missing(w)]
    /\ gone' = [gone EXCEPT ![w] = {}]
    /\ Goto(w, "create")
    /\ UNCHANGED <<clusterVars, imageVars, jobVars, handlerVars, statusVars, faults,
                   changes, inputVars, doomed, verdict>>

(* What is missing gets a Job, unless one of that name was just deleted.   *)
StartCreating(w) ==
    /\ at[w] = "delete"
    /\ doomed[w] = {}
    /\ missing' = [missing EXCEPT ![w] = {k \in Missing(w) : JobOf(w, k) \notin gone[w]}]
    /\ gone' = [gone EXCEPT ![w] = {}]
    /\ Goto(w, "create")
    /\ UNCHANGED <<clusterVars, imageVars, jobVars, handlerVars, statusVars, faults,
                   changes, inputVars, doomed, verdict>>

(* 409 if there is a Job of that name; any error only skips the key.       *)
CreateJob(w, k, ok) ==
    /\ at[w] = "create"
    /\ k \in missing[w]
    /\ Call(ok)
    /\ missing' = [missing EXCEPT ![w] = @ \ {k}]
    /\ IF ok /\ jobs[JobOf(w, k)] = "none"
       THEN /\ jobs' = [jobs EXCEPT ![JobOf(w, k)] = "pending"]
            /\ Notify(JobOf(w, k), "pending")
       ELSE UNCHANGED <<jobs, events>>
    /\ UNCHANGED <<clusterVars, imageVars, orphans, handlerVars, statusVars, changes,
                   at, inputVars, doomed, gone, verdict>>

(* gc.run may remove what none of the versions the pass found asks for.    *)
PruneTag(w, t) ==
    /\ at[w] = "create"
    /\ missing[w] = {}
    /\ mine[w].retention /\ nodesOk[w]
    /\ t \in tags /\ t.flatcar \notin flats[w]
    /\ tags' = tags \ {t}
    /\ UNCHANGED <<clusterVars, pushed, jobVars, handlerVars, statusVars, faults, changes,
                   at, inputVars, workVars>>

(* The pass is over and its variables are gone.                            *)
Done(w) ==
    /\ Goto(w, "idle")
    /\ flats' = [flats EXCEPT ![w] = {}]
    /\ nodesOk' = [nodesOk EXCEPT ![w] = TRUE]
    /\ seen' = [seen EXCEPT ![w] = {}]
    /\ shown' = [shown EXCEPT ![w] = NoneShown]
    /\ doomed' = [doomed EXCEPT ![w] = {}]
    /\ gone' = [gone EXCEPT ![w] = {}]
    /\ missing' = [missing EXCEPT ![w] = {}]
    /\ mine' = [mine EXCEPT ![w] = Unread]
    /\ verdict' = [verdict EXCEPT ![w] = "NoFlatcarVersions"]
    /\ UNCHANGED <<clusterVars, imageVars, jobVars, handlerVars, changes>>

(* The patch kopf applies when the call returns.  Losing the registry in   *)
(* the middle of garbage collection only shows in the condition.           *)
PatchStatus(w, reached) ==
    /\ at[w] = "create"
    /\ missing[w] = {}
    /\ reached \/ (mine[w].retention /\ nodesOk[w])
    /\ Call(reached)
    /\ builds' = Report(w)
    /\ cond' = IF reached THEN Verdict(Report(w)) ELSE "RegistryUnreachable"
    /\ Done(w)

PatchVerdict(w) ==
    /\ at[w] = "giveup"
    /\ cond' = verdict[w]
    /\ UNCHANGED <<builds, faults>>
    /\ Done(w)

(* A call to the API server dies with an exception nobody catches, or the  *)
(* patch is lost: the pass is over and the status as it was.               *)
Abort(w) ==
    /\ at[w] \in {"delete", "create", "giveup"}
    /\ Fault("call")
    /\ UNCHANGED statusVars
    /\ Done(w)

-----------------------------------------------------------------------------
(* on_job_event: the phase follows from the event, the status is read ...  *)
JobEvent(n) ==
    /\ events[n] # "none"
    /\ handler[n] = "none"
    /\ handler' = [handler EXCEPT ![n] = events[n]]
    /\ basis' = [basis EXCEPT ![n] = builds]
    /\ events' = [events EXCEPT ![n] = "none"]
    /\ UNCHANGED <<clusterVars, imageVars, jobs, orphans, statusVars, faults, changes,
                   at, inputVars, workVars>>

(* ... and written back with the phase of one entry changed or added.  The *)
(* entry of a runtime Job would have mode "runtime", which is not in the   *)
(* enum of the CRD: the API server refuses the whole patch.                *)
Acceptable(n) == basis[n][n.key] # "absent" \/ n.spec.precompile

HandlerOver(n) ==
    /\ handler' = [handler EXCEPT ![n] = "none"]
    /\ basis' = [basis EXCEPT ![n] = NoBuilds]
    /\ UNCHANGED <<clusterVars, imageVars, jobVars, changes, at, inputVars, workVars>>

JobEventPatch(n) ==
    /\ handler[n] # "none"
    /\ IF Acceptable(n)
       THEN LET updated == [basis[n] EXCEPT ![n.key] = handler[n]]
            IN  builds' = updated /\ cond' = Verdict(updated)
       ELSE UNCHANGED statusVars
    /\ HandlerOver(n)
    /\ UNCHANGED faults

(* An error is logged and the event forgotten.                             *)
JobEventFails(n) ==
    /\ handler[n] # "none"
    /\ Fault("call")
    /\ HandlerOver(n)
    /\ UNCHANGED statusVars

-----------------------------------------------------------------------------
(* The environment: Jobs and their pods.                                   *)
JobTurns(n, from, to) ==
    /\ jobs[n] = from
    /\ jobs' = [jobs EXCEPT ![n] = to]
    /\ IF JobPhase[to] = JobPhase[from] THEN UNCHANGED events ELSE Notify(n, to)
    /\ UNCHANGED <<clusterVars, orphans, handlerVars, statusVars, changes,
                   at, inputVars, workVars>>

JobStarts(n) ==
    /\ JobTurns(n, "pending", "active")
    /\ UNCHANGED <<imageVars, faults>>

Push(n) ==
    /\ tags' = tags \cup {Image(n)}
    /\ pushed' = pushed \cup {Image(n)}

JobPushes(n) ==
    /\ JobTurns(n, "active", "pushed")
    /\ Push(n)
    /\ UNCHANGED faults

JobSucceeds(n) ==
    /\ JobTurns(n, "pushed", "succeeded")
    /\ UNCHANGED <<imageVars, faults>>

(* backoffLimit is 0 and the pod is never restarted.                       *)
JobFails(n, from) ==
    /\ from \in {"active", "pushed"}
    /\ JobTurns(n, from, "failed")
    /\ Fault("build")
    /\ UNCHANGED imageVars

(* The pod of a deleted Job pushes before it is killed, or does not.       *)
OrphanPushes(n) ==
    /\ n \in orphans
    /\ orphans' = orphans \ {n}
    /\ Push(n)
    /\ UNCHANGED <<clusterVars, jobs, events, handlerVars, statusVars, faults, changes,
                   at, inputVars, workVars>>

OrphanDies(n) ==
    /\ n \in orphans
    /\ orphans' = orphans \ {n}
    /\ UNCHANGED <<clusterVars, imageVars, jobs, events, handlerVars, statusVars, faults,
                   changes, at, inputVars, workVars>>

(* The environment: what the image is asked for.                           *)
Changing ==
    /\ changes < MaxChanges
    /\ changes' = changes + 1
    /\ UNCHANGED <<imageVars, jobVars, handlerVars, statusVars, faults, at, inputVars,
                   workVars>>

ChangeSpec(s) == s # spec /\ spec' = s /\ UNCHANGED <<nodes, tracked>> /\ Changing
ChangeNodes(c) == c # nodes /\ nodes' = c /\ UNCHANGED <<spec, tracked>> /\ Changing
PollerPatch(c) == c # tracked /\ tracked' = c /\ UNCHANGED <<spec, nodes>> /\ Changing

(* The operator dies.  When it is back the watch starts with a listing:    *)
(* every Job there is produces an event.                                   *)
Crash ==
    /\ Fault("crash")
    /\ at' = [w \in Passes |-> "idle"]
    /\ flats' = [w \in Passes |-> {}]
    /\ nodesOk' = [w \in Passes |-> TRUE]
    /\ seen' = [w \in Passes |-> {}]
    /\ shown' = [w \in Passes |-> NoneShown]
    /\ doomed' = [w \in Passes |-> {}]
    /\ gone' = [w \in Passes |-> {}]
    /\ missing' = [w \in Passes |-> {}]
    /\ mine' = [w \in Passes |-> Unread]
    /\ verdict' = [w \in Passes |-> "NoFlatcarVersions"]
    /\ handler' = [n \in Names |-> "none"]
    /\ basis' = [n \in Names |-> NoBuilds]
    /\ events' = [n \in Names |-> IF Watching /\ jobs[n] # "none"
                                  THEN JobPhase[jobs[n]] ELSE "none"]
    /\ UNCHANGED <<clusterVars, imageVars, jobs, orphans, statusVars, changes>>

-----------------------------------------------------------------------------
PassStep(w) ==
    \/ ListNodes(w, TRUE) \/ NoVersions(w) \/ ListTags(w) \/ ListJobs(w, TRUE)
    \/ \E n \in Names : DeleteJob(w, n) \/ (jobs[n] = "none" /\ DeleteJobFails(w, n))
    \/ StartCreating(w)
    \/ \E k \in Keys : CreateJob(w, k, TRUE)
    \/ PatchStatus(w, TRUE)
    \/ PatchVerdict(w)

PassFault(w) ==
    \/ ListNodes(w, FALSE) \/ ListJobs(w, FALSE)
    \/ \E why \in Early : ListTagsFails(w, why)
    \/ \E n \in Names : jobs[n] # "none" /\ DeleteJobFails(w, n)
    \/ \E k \in Keys : CreateJob(w, k, FALSE)
    \/ PatchStatus(w, FALSE)
    \/ Abort(w)

JobRuns(n) == JobStarts(n) \/ JobPushes(n) \/ JobSucceeds(n)

PodLeft(n) == OrphanPushes(n) \/ OrphanDies(n)

JobFailure(n) == \E from \in {"active", "pushed"} : JobFails(n, from)

Asked ==
    \/ \E s \in Specs : ChangeSpec(s)
    \/ \E c \in Clusters : ChangeNodes(c)
    \/ \E c \in Channels : PollerPatch(c)

Next ==
    \/ \E w \in Passes :
          \/ Begin(w) \/ PassStep(w) \/ PassFault(w)
          \/ \E t \in ImageTag : PruneTag(w, t)
    \/ \E n \in Names :
          \/ JobEvent(n) \/ JobEventPatch(n) \/ JobEventFails(n)
          \/ JobRuns(n) \/ PodLeft(n) \/ JobFailure(n)
    \/ Asked
    \/ Crash

Spec == Init /\ [][Next]_vars

(* The timer keeps starting passes and a pass runs to its end; events are  *)
(* delivered; a build Job that does not fail ends, and so do deleted pods. *)
FairSpec ==
    /\ Spec
    /\ \A w \in Passes : WF_vars(Begin(w)) /\ WF_vars(PassStep(w))
    /\ \A n \in Names :
          /\ WF_vars(JobEvent(n)) /\ WF_vars(JobEventPatch(n))
          /\ WF_vars(JobRuns(n)) /\ WF_vars(PodLeft(n))

-----------------------------------------------------------------------------
Running(n) == jobs[n] # "none" /\ JobPhase[jobs[n]] \in Live

(* One build at a time: as long as passes do not overlap and the Jobs can  *)
(* be listed and deleted, no edit of the spec, no crash in the middle of a *)
(* pass and no other failure leaves two unfinished Jobs for one image      *)
(* (main.py:581-587, 618-627).                                             *)
OneLiveJob == \A m, n \in Names : Running(m) /\ Running(n) /\ m.key = n.key => m = n

(* Nothing is built again: while the spec stays as it is, a Job is created *)
(* only for an image the registry does not hold at that very moment, even  *)
(* though the tags were listed before the Jobs were (main.py:488, 534) and *)
(* the Job that pushed the image may have been deleted for having none.    *)
NoRebuild ==
    [][\A n \in Names : jobs[n] = "none" /\ jobs'[n] # "none" => Image(n) \notin tags]_vars

(* The status never calls a build Ready whose image was never pushed,      *)
(* whatever events, passes, crashes and lost calls are interleaved.        *)
ReadyWasBuilt ==
    \A k \in Keys : builds[k] = "Ready" =>
        \E t \in pushed : t.driver = k.driver /\ t.flatcar = k.flatcar

Wanted ==
    compute_desired(spec.drivers, spec.pinned \cup tracked \cup
                                  (IF spec.discover THEN nodes ELSE {}))

(* Once failures and changes stop, what is asked for gets built, is in the *)
(* registry to stay, and the status says just that: failed builds are      *)
(* retried, pruned images rebuilt, lost writes made good.                  *)
Converged ==
    /\ \A k \in Wanted : TagOf(k, spec.precompile) \in tags
    /\ \A k \in Keys : builds[k] = IF k \in Wanted THEN "Ready" ELSE "absent"
    /\ cond = "AllBuildsReady"

Converges == <>[](Wanted # {} => Converged)

(* What the handler of a Job's event leaves behind is that event's phase.  *)
EventRecorded ==
    [][\A n \in Names : handler[n] # "none" /\ handler'[n] = "none" =>
          builds'[n.key] = handler[n]]_vars

(* To whoever looks at builds only, this is SafeBuilds: under the same     *)
(* conditions, and if no driver version extends another.                   *)
Abstract == INSTANCE SafeBuilds WITH
    Builds <- Names,
    running <- {n \in Names : Running(n)},
    loose <- orphans,
    pushed <- pushed,
    ready <- {k \in Keys : builds[k] = "Ready"}
SafeBuilding == Abstract!Spec
=============================================================================
