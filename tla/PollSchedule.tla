---------------------------- MODULE PollSchedule ----------------------------
(***************************************************************************)
(* The Jobs the poller runs in, and the Helm hook that archives them       *)
(* (stale_poller_archive.py).  The CronJob keeps creating Jobs, one at a   *)
(* time; the pod of a Job runs the poller of Poller until it exits with 0, *)
(* the Job fails, or the Job is suspended.  At an upgrade the hook lists   *)
(* the Jobs once and archives each one of an older image that has failed   *)
(* pods: it suspends it, notes what it was, and clears its status, by      *)
(* three patches, any of which may fail and so end the hook's pod, which   *)
(* is tried once more.  Meanwhile the CronJob and its Jobs go on.  Hooks   *)
(* are those of this chart: an older one may have archived differently.    *)
(***************************************************************************)
EXTENDS Poller, FiniteSets

CONSTANTS
    Jobs,         \* room for Jobs in the cluster
    History,      \* how many finished Jobs the CronJob keeps
    Attempts,     \* pods of one hook: backoffLimit and one more
    MaxUpgrades   \* bound on Helm upgrades

ASSUME ScheduleTypes ==
    /\ Jobs # {} /\ History \in Nat
    /\ Attempts \in Nat \ {0} /\ MaxUpgrades \in Nat

VARIABLES
    jobs,      \* the poller Jobs
    image,     \* the image of the CronJob's template
    hook,      \* what the hook does next, or "off"
    todo,      \* the candidates it has yet to archive
    victim,    \* the one it is archiving
    attempts,  \* pods the hook has used
    upgrades   \* upgrades so far

hookVars == <<hook, todo, victim, attempts, upgrades, image>>
vars == <<pollVars, jobs, hookVars>>

(* end is the condition that says a Job is over, active its place in the   *)
(* CronJob's status.active, noted the failed count in its annotation.      *)
(* History: cleared says that the hook has cleared its status, late counts *)
(* the pods that failed since a hook last listed the Jobs.                 *)
JobState == [image : {"old", "new"}, failed : Nat, end : {"no", "complete", "failed"},
             active : BOOLEAN, succeeded : BOOLEAN, suspended : BOOLEAN,
             noted : Nat, cleared : BOOLEAN, late : Nat]
NoJob == [image |-> "none"]
Exists(j) == jobs[j] # NoJob
NoVictim == [job |-> CHOOSE j \in Jobs : TRUE, failed |-> 0]

TypeOK ==
    /\ PollTypeOK
    /\ jobs \in [Jobs -> JobState \cup {NoJob}]
    /\ image \in {"old", "new"}
    /\ hook \in {"off", "list", "next", "suspend", "label", "clear"}
    /\ todo \in SUBSET [job : Jobs, failed : Nat]
    /\ victim \in [job : Jobs, failed : Nat]
    /\ attempts \in 0..Attempts /\ upgrades \in Nat

Init ==
    /\ PollInit
    /\ jobs = [j \in Jobs |-> NoJob]
    /\ image = "old" /\ hook = "off" /\ todo = {} /\ victim = NoVictim
    /\ attempts = 0 /\ upgrades = 0

-----------------------------------------------------------------------------
(* The CronJob (cronjob-flatcar-poll.yaml): the policy is Forbid, and old  *)
(* Jobs that are over are removed, here before a new one is created.       *)
Active(j) == Exists(j) /\ jobs[j].active
Finished == {j \in Jobs : Exists(j) /\ jobs[j].end # "no"}
Listed == {v.job : v \in todo} \cup (IF hook \in {"suspend", "label", "clear"}
                                     THEN {victim.job} ELSE {})

(* Room for a Job.  Archived Jobs, which no CronJob counts or removes and  *)
(* no hook finds again, stay in the cluster but give way here.             *)
Archived(j) == Exists(j) /\ jobs[j].cleared /\ ~jobs[j].active
Free == {j \in Jobs : ~Exists(j) \/ Archived(j)} \ Listed

NewJob ==
    /\ Free # {}
    /\ ~\E i \in Jobs : Active(i)
    /\ Cardinality(Finished) <= History
    /\ jobs' = [jobs EXCEPT ![CHOOSE j \in Free : TRUE] = 
                   [image |-> image, failed |-> 0, end |-> "no", active |-> TRUE,
                    succeeded |-> FALSE, suspended |-> FALSE, noted |-> 0, cleared |-> FALSE,
                    late |-> 0]]
    /\ UNCHANGED <<pollVars, hookVars>>

RemoveOld(j) ==
    /\ j \in Finished
    /\ Cardinality(Finished) > History
    /\ jobs' = [jobs EXCEPT ![j] = NoJob]
    /\ UNCHANGED <<pollVars, hookVars>>

(* The Job's pod.  It may be gone for reasons of its own, which counts as  *)
(* a failed pod, and a new one takes its place.                            *)
PodStarts(j) ==
    /\ Active(j) /\ ~jobs[j].suspended
    /\ Start
    /\ UNCHANGED <<jobs, hookVars>>

PodRuns == RunStep /\ UNCHANGED <<jobs, hookVars>>
PodMeetsFault == RunFault /\ UNCHANGED <<jobs, hookVars>>

AtItsEnd(job, how, failed) ==
    [job EXCEPT !.end = how, !.active = FALSE, !.failed = @ + failed,
                !.late = @ + failed, !.succeeded = (how = "complete")]
Ends(j, how, failed) == jobs' = [jobs EXCEPT ![j] = AtItsEnd(jobs[j], how, failed)]

PodSucceeds(j) ==
    /\ Active(j)
    /\ ~failure /\ Ended
    /\ Ends(j, "complete", 0)
    /\ UNCHANGED hookVars

(* Exit 1: the container is started again, or the Job has had enough.      *)
PodExits(j) ==
    /\ Active(j)
    /\ failure /\ Ended
    /\ \/ UNCHANGED jobs
       \/ ~jobs[j].suspended /\ Ends(j, "failed", 1)
    /\ UNCHANGED hookVars

OneMoreFailed(job) == [job EXCEPT !.failed = @ + 1, !.late = @ + 1]
PodFails(j) ==
    /\ Active(j)
    /\ Killed /\ Fails
    /\ jobs' = [jobs EXCEPT ![j] = OneMoreFailed(jobs[j])]
    /\ UNCHANGED hookVars

SuspendedPodStops(j) ==
    /\ Active(j) /\ jobs[j].suspended
    /\ Killed
    /\ UNCHANGED <<failing, jobs, hookVars>>

-----------------------------------------------------------------------------
(* The hook.                                                               *)
Complete(job) == job.succeeded \/ job.end = "complete"

(* Mutant: only Jobs that are not suspended yet are candidates.            *)
CandidateOnce(j) ==
    /\ Exists(j)
    /\ ~jobs[j].suspended /\ ~Complete(jobs[j]) /\ jobs[j].failed > 0
    /\ jobs[j].image # "new"

_archive_candidate(j) ==
    /\ Exists(j)
    /\ ~Complete(jobs[j])
    /\ jobs[j].failed > 0
    /\ jobs[j].image # "new"

Upgrade ==
    /\ hook = "off" /\ upgrades < MaxUpgrades
    /\ upgrades' = upgrades + 1
    /\ attempts' = 1
    /\ hook' = "list"
    /\ UNCHANGED <<pollVars, jobs, todo, victim, image>>

ListPollerJobs ==
    /\ hook = "list"
    /\ todo' = {[job |-> j, failed |-> jobs[j].failed] :
                    j \in {i \in Jobs : _archive_candidate(i)}}
    /\ jobs' = [j \in Jobs |-> IF Exists(j) THEN [jobs[j] EXCEPT !.late = 0] ELSE NoJob]
    /\ hook' = "next"
    /\ UNCHANGED <<pollVars, victim, attempts, upgrades, image>>

NextCandidate(v) ==
    /\ hook = "next" /\ v \in todo
    /\ todo' = todo \ {v}
    /\ victim' = v
    /\ hook' = "suspend"
    /\ UNCHANGED <<pollVars, jobs, attempts, upgrades, image>>

(* All is archived, and the upgrade goes on.                               *)
HookSucceeds ==
    /\ hook = "next" /\ todo = {}
    /\ hook' = "off" /\ image' = "new" /\ attempts' = 0
    /\ UNCHANGED <<pollVars, jobs, todo, victim, upgrades>>

Patch(step, next, job) ==
    /\ hook = step /\ Exists(victim.job)
    /\ jobs' = [jobs EXCEPT ![victim.job] = job]
    /\ hook' = next
    /\ victim' = IF next = "next" THEN NoVictim ELSE victim
    /\ UNCHANGED <<pollVars, todo, attempts, upgrades, image>>

(* Mutant: the status is cleared first and the Job labelled last.          *)
PatchSuspendAndClear ==
    Patch("suspend", "label", [jobs[victim.job] EXCEPT !.suspended = TRUE,
                                  !.failed = 0, !.end = "no", !.cleared = TRUE])

PatchSuspend == Patch("suspend", "label", [jobs[victim.job] EXCEPT !.suspended = TRUE])

PatchLabel == Patch("label", "clear", [jobs[victim.job] EXCEPT !.noted = victim.failed])

PatchClear ==
    Patch("clear", "next", [jobs[victim.job] EXCEPT !.failed = 0, !.end = "no",
                                                    !.cleared = TRUE])

(* Mutant: the hook has as many pods as it takes.                          *)
PodOfHookEndsAgain ==
    /\ hook # "off"
    /\ IF hook \in {"suspend", "label", "clear"} /\ ~Exists(victim.job)
       THEN UNCHANGED failing ELSE Fails
    /\ attempts' = attempts + 1 /\ hook' = "list"
    /\ todo' = {} /\ victim' = NoVictim
    /\ UNCHANGED <<feed, channels, entries, edits, runVars, jobs, upgrades, image>>

(* A call that fails, or is refused since the Job is gone, is an exception *)
(* nobody catches: the pod ends.  Another is started, or the upgrade fails.*)
PodOfHookEnds ==
    /\ hook # "off"
    /\ IF hook \in {"suspend", "label", "clear"} /\ ~Exists(victim.job)
       THEN UNCHANGED failing ELSE Fails
    /\ IF attempts < Attempts
       THEN attempts' = attempts + 1 /\ hook' = "list"
       ELSE attempts' = 0 /\ hook' = "off"
    /\ todo' = {} /\ victim' = NoVictim
    /\ UNCHANGED <<feed, channels, entries, edits, runVars, jobs, upgrades, image>>

-----------------------------------------------------------------------------
CronJobStep == NewJob \/ \E j \in Jobs : RemoveOld(j)

PodStep ==
    \/ PodRuns
    \/ \E j \in Jobs : PodStarts(j) \/ PodSucceeds(j) \/ PodExits(j) \/ SuspendedPodStops(j)

HookStep ==
    \/ ListPollerJobs \/ HookSucceeds
    \/ \E v \in todo : NextCandidate(v)
    \/ PatchSuspend \/ PatchLabel \/ PatchClear

Next ==
    \/ CronJobStep \/ PodStep \/ PodMeetsFault
    \/ \E j \in Jobs : PodFails(j)
    \/ Upgrade \/ HookStep \/ PodOfHookEnds
    \/ Environment /\ UNCHANGED <<jobs, hookVars>>

Spec == Init /\ [][Next]_vars

(* The CronJob keeps its schedule, pods run to their end, and so does the  *)
(* hook.                                                                   *)
FairSpec ==
    /\ Spec
    /\ WF_vars(CronJobStep) /\ WF_vars(PodStep) /\ WF_vars(HookStep \/ PodOfHookEnds)

-----------------------------------------------------------------------------
(* A hook that dies between the patches of a Job leaves the Job so that    *)
(* the next hook finds it again and finishes it: what makes it a candidate *)
(* is only cleared by the last patch (stale_poller_archive.py:87-104).  A  *)
(* Job that completed meanwhile needs no archiving.                        *)
ArchiveResumable ==
    \A j \in Jobs : Exists(j) /\ jobs[j].suspended /\ ~jobs[j].cleared =>
        _archive_candidate(j) \/ Complete(jobs[j])

(* No failure the hook knew of is erased without a trace: when the failed  *)
(* count of a Job is cleared, its annotation holds the count as this hook  *)
(* listed it, and all that the annotation misses are pods that failed      *)
(* after that (stale_poller_archive.py:88, 93-106).                        *)
Erases(j) == Exists(j) /\ Exists(j)' /\ jobs'[j].cleared /\ jobs'[j].failed < jobs[j].failed
FailuresNoted ==
    [][\A j \in Jobs : Erases(j) =>
           /\ jobs'[j].noted > 0
           /\ jobs[j].failed = jobs'[j].noted + jobs[j].late]_vars

(* Channels keep being followed through upgrades, failing hooks and failed *)
(* Jobs, unless a hook caught a Job that was still at work: suspended, it  *)
(* never ends, and the CronJob waits for it for ever.                      *)
Stuck == \E j \in Jobs : Active(j) /\ jobs[j].suspended
FollowedUnlessStuck == <>[]Stuck \/ ChannelsFollowed
=============================================================================
