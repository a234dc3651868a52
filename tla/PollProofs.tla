----------------------------- MODULE PollProofs -----------------------------
(***************************************************************************)
(* What holds of the poller and of the Jobs it runs in, for any number of  *)
(* resources, channels, releases, Jobs, failures and upgrades.             *)
(*   RunInv: a run that has not failed has every channel it was asked for  *)
(* ahead, fetched or written; and the entries it listed are still those of *)
(* the status, for nobody else writes them.                                *)
(*   HookInv: what the hook has listed fails only further until it is      *)
(* archived or removed, so that its failed count is what was listed and    *)
(* what came after; and before it is cleared, what was listed is noted.    *)
(***************************************************************************)
EXTENDS PollSchedule, TLAPS

(* What a run does not change by itself may change between its steps.      *)
PollStep ==
    \/ Start \/ RunStep \/ RunFault \/ Ended \/ Killed \/ Environment
    \/ UNCHANGED <<feed, channels, entries, edits, runVars>>

LEMMA StepPolls ==
    [Next]_vars => PollStep
<1> USE DEF PollStep, pollVars, hookVars
<1> QED
  BY DEF Next, vars, CronJobStep, NewJob, RemoveOld, PodStep, PodRuns, PodStarts, PodSucceeds,
         PodExits, SuspendedPodStops, PodMeetsFault, PodFails, Upgrade, HookStep,
         ListPollerJobs, HookSucceeds, NextCandidate, PatchSuspend, PatchLabel, PatchClear,
         Patch, PodOfHookEnds

LEMMA FailingTyped ==
    ASSUME failing \in Nat, [Next]_vars
    PROVE  failing' \in Nat
<1> USE DEF pollVars, hookVars
<1> QED
  BY DEF Next, vars, CronJobStep, NewJob, RemoveOld, PodStep, PodRuns, PodStarts, PodSucceeds,
         PodExits, SuspendedPodStops, PodMeetsFault, PodFails, Upgrade, HookStep,
         ListPollerJobs, HookSucceeds, NextCandidate, PatchSuspend, PatchLabel, PatchClear,
         Patch, PodOfHookEnds, Fails, Start, RunStep, RunFault, Ended, Environment, ListImages,
         NextImage, Fetch, FetchFails, NothingFetched, PatchStatus, PatchFails, Exit, Release,
         EditChannels

ObjectType == [name : Resources, channels : SUBSET Channels,
               entries : [Channels -> Nat \cup {Absent}]]

LEMMA NoObjectTyped == NoObject \in ObjectType
  BY PollerTypes DEF NoObject, NoEntries, ObjectType

LEMMA PollTypeStep ==
    ASSUME PollTypeOK, PollStep, failing' \in Nat
    PROVE  PollTypeOK'
<1> USE DEF PollTypeOK, ObjectType, runVars
<1>1. CASE Start
  BY <1>1 DEF Start
<1>2. ASSUME NEW ok \in BOOLEAN, ListImages(ok)
      PROVE  PollTypeOK'
  <2>1. {Object(r) : r \in Resources} \in SUBSET ObjectType
    BY DEF Object
  <2>2. objects' \in SUBSET ObjectType /\ asked' \in [Resources -> SUBSET Channels]
    BY <1>2, <2>1 DEF ListImages
  <2> QED
    BY <1>2, <2>2 DEF ListImages
<1>3. ASSUME NEW obj \in objects, NextImage(obj)
      PROVE  PollTypeOK'
  BY <1>3 DEF NextImage, NoEntries
<1>4. ASSUME NEW c \in ahead, Fetch(c) \/ FetchFails(c)
      PROVE  PollTypeOK'
  BY <1>4 DEF Fetch, FetchFails
<1>5. CASE NothingFetched \/ PatchFails
  BY <1>5, NoObjectTyped DEF NothingFetched, PatchFails, Over, NoEntries
<1>6. CASE PatchStatus
  <2>1. _merge_channel_entries(current.entries, updated) \in [Channels -> Nat \cup {Absent}]
    BY DEF _merge_channel_entries
  <2> QED
    BY <1>6, <2>1, NoObjectTyped DEF PatchStatus, Over, NoEntries
<1>7. CASE Exit
  BY <1>7 DEF Exit
<1>8. ASSUME Forget, UNCHANGED <<feed, channels, entries, edits>>
      PROVE  PollTypeOK'
  BY <1>8, NoObjectTyped DEF Forget, NoEntries
<1>9. CASE Environment
  BY <1>9 DEF Environment, Release, EditChannels
<1>10. CASE UNCHANGED <<feed, channels, entries, edits, runVars>>
  BY <1>10
<1> QED
  BY <1>1, <1>2, <1>3, <1>4, <1>5, <1>6, <1>7, <1>8, <1>9, <1>10
     DEF PollStep, RunStep, RunFault, Ended, Killed

-----------------------------------------------------------------------------
(* A listed object is as the run found it, and its entries still are.      *)
Listing(obj) ==
    obj.channels = asked[obj.name] /\ obj.entries = entries[obj.name]

(* The channels of the resource at work are ahead, or fetched.             *)
Working ==
    stage = "fetch" =>
        /\ Listing(current)
        /\ \A obj \in objects : obj.name # current.name
        /\ ~failure => \A c \in asked[current.name] : c \in ahead \/ updated[c] >= oldest[c]
        /\ \A c \in Channels :
              updated[c] <= feed[c] /\ (updated[c] # Absent => updated[c] >= current.entries[c])

(* Every resource is ahead, at work, or done.                              *)
Covered ==
    stage \in {"next", "fetch", "exit"} /\ ~failure =>
        \A r \in Resources :
            \/ \E obj \in objects : obj.name = r
            \/ stage = "fetch" /\ current.name = r
            \/ \A c \in asked[r] : entries[r][c] >= oldest[c]

RunInv ==
    /\ PollTypeOK
    /\ \A c \in Channels : oldest[c] <= feed[c]
    /\ \A r \in Resources, c \in Channels : entries[r][c] <= feed[c]
    /\ \A obj \in objects : Listing(obj)
    /\ \A o, p \in objects : o.name = p.name => o = p
    /\ stage \in {"idle", "list", "exit"} => objects = {}
    /\ Working
    /\ Covered

LEMMA Numbers ==
    ASSUME PollTypeOK, NEW c \in Channels
    PROVE  /\ feed[c] \in Nat /\ oldest[c] \in Nat
           /\ updated[c] \in Int
           /\ \A r \in Resources : entries[r][c] \in Int
<1>1. Nat \cup {Absent} \subseteq Int
  BY DEF Absent
<1>2. /\ updated \in [Channels -> Nat \cup {Absent}]
      /\ \A r \in Resources : entries[r] \in [Channels -> Nat \cup {Absent}]
  BY DEF PollTypeOK
<1>3. feed[c] \in Nat /\ oldest[c] \in Nat
  BY DEF PollTypeOK
<1>4. updated[c] \in Int
  BY <1>1, <1>2
<1>5. \A r \in Resources : entries[r][c] \in Int
  BY <1>1, <1>2
<1> QED
  BY <1>3, <1>4, <1>5

LEMMA InitRun == Init => RunInv
<1> SUFFICES ASSUME PollInit PROVE RunInv
  BY DEF Init
<1>1. PollTypeOK
  BY NoObjectTyped, PollerTypes DEF PollInit, PollTypeOK, NoEntries, ObjectType
<1> QED
  BY <1>1 DEF PollInit, RunInv, Working, Covered, NoEntries, Absent

LEMMA ListKeeps ==
    ASSUME RunInv, PollTypeOK', NEW ok \in BOOLEAN, ListImages(ok)
    PROVE  RunInv'
<1>1. CASE ok
  <2>1. /\ stage = "list" /\ stage' = "next" /\ asked' = channels
        /\ objects' = {Object(r) : r \in Resources}
        /\ UNCHANGED <<feed, entries, oldest, current, ahead, updated, failure>>
    BY <1>1 DEF ListImages
  <2>2. \A obj \in objects' : Listing(obj)'
    BY <2>1 DEF Object, Listing
  <2>3. \A o, p \in objects' : o.name = p.name => o = p
    BY <2>1 DEF Object
  <2>4. \A r \in Resources : Object(r) \in objects' /\ Object(r).name = r
    BY <2>1 DEF Object
  <2> QED
    BY <2>1, <2>2, <2>3, <2>4 DEF RunInv, Working, Covered
<1>2. CASE ~ok
  BY <1>2 DEF ListImages, RunInv, Listing, Working, Covered
<1> QED
  BY <1>1, <1>2

LEMMA NextImageKeeps ==
    ASSUME RunInv, PollTypeOK', NEW obj \in objects, NextImage(obj)
    PROVE  RunInv'
<1>1. /\ stage = "next" /\ objects' = objects \ {obj}
      /\ UNCHANGED <<feed, entries, oldest, asked, failure>>
      /\ Listing(obj) /\ obj.name \in Resources /\ obj.entries \in [Channels -> Nat \cup {Absent}]
  BY DEF NextImage, RunInv, PollTypeOK
<1>2. \A o \in objects' : o.name # obj.name /\ Listing(o)'
  BY <1>1 DEF RunInv, Listing
<1>3. CASE obj.channels = {}
  <2>1. UNCHANGED <<stage, current, ahead, updated>> /\ asked[obj.name] = {}
    BY <1>1, <1>3 DEF NextImage, Listing
  <2>2. Covered'
    BY <1>1, <2>1 DEF RunInv, Covered
  <2> QED
    BY <1>1, <1>2, <2>1, <2>2 DEF RunInv, Working
<1>4. CASE obj.channels # {}
  <2>1. stage' = "fetch" /\ current' = obj /\ ahead' = obj.channels /\ updated' = NoEntries
    BY <1>4 DEF NextImage
  <2>2. Covered'
    BY <1>1, <2>1 DEF RunInv, Covered
  <2>3. Working'
    BY <1>1, <1>2, <2>1 DEF RunInv, PollTypeOK, Working, Listing, NoEntries, Absent
  <2> QED
    BY <1>1, <1>2, <2>1, <2>2, <2>3 DEF RunInv
<1> QED
  BY <1>3, <1>4

LEMMA FetchKeeps ==
    ASSUME RunInv, PollTypeOK', NEW c \in ahead, Fetch(c) \/ FetchFails(c)
    PROVE  RunInv'
<1>1. /\ stage = "fetch" /\ ahead' = ahead \ {c} /\ c \in Channels
      /\ UNCHANGED <<feed, entries, oldest, asked, stage, objects, current>>
  BY DEF Fetch, FetchFails, RunInv, PollTypeOK
<1>2. CASE Fetch(c)
  <2>1. updated' = [updated EXCEPT ![c] = feed[c]] /\ UNCHANGED failure
    BY <1>2 DEF Fetch
  <2>2. /\ feed[c] \in Nat /\ feed[c] >= oldest[c]
        /\ current.name \in Resources /\ current.entries[c] <= feed[c]
    BY <1>1 DEF RunInv, PollTypeOK, Working, Listing
  <2>3. Working'
    BY <1>1, <2>1, <2>2 DEF RunInv, PollTypeOK, Working, Listing
  <2> QED
    BY <1>1, <2>1, <2>3 DEF RunInv, Covered, Listing
<1>3. CASE FetchFails(c)
  BY <1>1, <1>3 DEF FetchFails, RunInv, Working, Covered, Listing
<1> QED
  BY <1>2, <1>3

(* What is written is never older than what is there, and as new as asked. *)
LEMMA MergeNewer ==
    ASSUME RunInv, PatchStatus
    PROVE  /\ current.name \in Resources
           /\ \A c \in Channels :
                /\ entries'[current.name][c] >= entries[current.name][c]
                /\ entries'[current.name][c] <= feed[c]
           /\ ~failure => \A c \in asked[current.name] :
                             entries'[current.name][c] >= oldest[c]
           /\ \A r \in Resources \ {current.name} : entries'[r] = entries[r]
<1> DEFINE merged == _merge_channel_entries(current.entries, updated)
<1>1. /\ current.name \in Resources
      /\ \A c \in Channels : entries[current.name][c] \in Nat \cup {Absent}
                             /\ updated[c] \in Nat \cup {Absent} /\ feed[c] \in Nat
      /\ asked[current.name] \subseteq Channels
      /\ \A c \in Channels : oldest[c] \in Nat
  BY DEF RunInv, PollTypeOK
<1>2. /\ entries'[current.name] = merged
      /\ \A r \in Resources \ {current.name} : entries'[r] = entries[r]
  BY <1>1 DEF PatchStatus, RunInv, PollTypeOK
<1>3. /\ current.entries = entries[current.name]
      /\ \A c \in Channels :
            updated[c] <= feed[c] /\ (updated[c] # Absent => updated[c] >= current.entries[c])
      /\ ~failure => \A c \in asked[current.name] : updated[c] >= oldest[c]
  BY DEF PatchStatus, RunInv, Working, Listing
<1>4. \A c \in Channels :
          merged[c] = IF updated[c] # Absent THEN updated[c] ELSE entries[current.name][c]
  BY <1>3 DEF _merge_channel_entries
<1>5. \A c \in Channels : merged[c] >= entries[current.name][c] /\ merged[c] <= feed[c]
  BY <1>1, <1>3, <1>4 DEF RunInv, Absent
<1>6. ~failure => \A c \in asked[current.name] : merged[c] >= oldest[c]
  BY <1>1, <1>3, <1>4 DEF Absent
<1> QED
  BY <1>1, <1>2, <1>5, <1>6

LEMMA PatchKeeps ==
    ASSUME RunInv, PollTypeOK', PatchStatus
    PROVE  RunInv'
<1>1. /\ stage = "fetch" /\ stage' = "next"
      /\ UNCHANGED <<feed, oldest, asked, objects, failure>>
  BY DEF PatchStatus, Over
<1>2. \A obj \in objects : obj.name \in Resources \ {current.name}
  BY <1>1 DEF RunInv, PollTypeOK, Working
<1>3. \A obj \in objects' : Listing(obj)'
  BY <1>1, <1>2, MergeNewer DEF RunInv, Listing
<1>4. Covered'
  BY <1>1, MergeNewer DEF RunInv, Covered
<1>5. \A r \in Resources, c \in Channels : entries'[r][c] <= feed'[c]
  BY <1>1, MergeNewer DEF RunInv
<1> QED
  BY <1>1, <1>3, <1>4, <1>5 DEF RunInv, Working

(* Nothing was fetched: nothing was asked for, or something failed.        *)
LEMMA NothingKeeps ==
    ASSUME RunInv, PollTypeOK', NothingFetched \/ PatchFails
    PROVE  RunInv'
<1>1. /\ stage = "fetch" /\ stage' = "next" /\ ahead = {}
      /\ UNCHANGED <<feed, entries, oldest, asked, objects>>
      /\ PatchFails => failure'
      /\ NothingFetched => updated = NoEntries /\ UNCHANGED failure
  BY DEF NothingFetched, PatchFails, Over
<1>2. NothingFetched /\ ~failure => asked[current.name] = {}
  <2>1. asked[current.name] \subseteq Channels /\ \A c \in Channels : oldest[c] \in Nat
    BY DEF RunInv, PollTypeOK
  <2> QED
    BY <1>1, <2>1 DEF RunInv, Working, NoEntries, Absent
<1>3. Covered'
  BY <1>1, <1>2 DEF RunInv, Covered
<1> QED
  BY <1>1, <1>3 DEF RunInv, Working, Listing

LEMMA RunStepKeeps ==
    ASSUME RunInv, PollTypeOK', PollStep
    PROVE  RunInv'
<1>1. CASE Start
  BY <1>1 DEF Start, RunInv, PollTypeOK, Working, Covered, Listing
<1>2. CASE Exit
  BY <1>2 DEF Exit, RunInv, Working, Covered, Listing
<1>3. ASSUME Forget, UNCHANGED <<feed, entries>>
      PROVE  RunInv'
  BY <1>3 DEF Forget, RunInv, PollTypeOK, Working, Covered
<1>4. CASE Environment
  <2>1. PollTypeOK
    BY DEF RunInv
  <2>2. UNCHANGED <<entries, runVars>>
    BY <1>4 DEF Environment, Release, EditChannels
  <2>3. \A c \in Channels : feed'[c] \in Nat /\ feed'[c] >= feed[c]
    <3>1. feed \in [Channels -> Nat]
      BY <2>1 DEF PollTypeOK
    <3> QED
      BY <1>4, <3>1 DEF Environment, Release, EditChannels
  <2>4. \A r \in Resources, c \in Channels : entries[r][c] <= feed'[c]
    BY <2>1, <2>3, Numbers DEF RunInv
  <2>5. \A c \in Channels : oldest[c] <= feed'[c]
    BY <2>1, <2>3, Numbers DEF RunInv
  <2>6. stage = "fetch" => \A c \in Channels : updated[c] <= feed'[c]
    BY <2>1, <2>3, Numbers DEF RunInv, Working
  <2> QED
    BY <2>2, <2>4, <2>5, <2>6 DEF RunInv, Working, Covered, Listing, runVars
<1>5. CASE UNCHANGED <<feed, channels, entries, edits, runVars>>
  BY <1>5 DEF RunInv, Working, Covered, Listing, runVars
<1> QED
  BY <1>1, <1>2, <1>3, <1>4, <1>5, ListKeeps, NextImageKeeps, FetchKeeps, PatchKeeps,
     NothingKeeps DEF PollStep, RunStep, RunFault, Ended, Killed

LEMMA RunInvStep == RunInv /\ [Next]_vars => RunInv'
  BY StepPolls, FailingTyped, PollTypeStep, RunStepKeeps DEF RunInv, PollTypeOK

LEMMA RunInvariance == Spec => []RunInv
  BY InitRun, RunInvStep, PTL DEF Spec

(* The exit code tells the truth: a run that ends with 0 has brought every *)
(* channel it was asked for, of every resource it listed, at least to the  *)
(* release that was out when the run began (poller.py:46-52).              *)
THEOREM SuccessIsCurrent == Spec => []SuccessMeansCurrent
<1>1. RunInv => SuccessMeansCurrent
  BY DEF RunInv, Covered, SuccessMeansCurrent
<1> QED
  BY <1>1, RunInvariance, PTL

(* No entry ever goes back to an older release, or vanishes, whatever      *)
(* fails (poller.py:99-103, 116-129).                                      *)
THEOREM EntriesNeverGoBack == Spec => NeverBack
<1>1. ASSUME RunInv, [Next]_vars, NEW r \in Resources, NEW c \in Channels
      PROVE  entries'[r][c] >= entries[r][c]
  <2>1. entries[r][c] \in Int
    BY <1>1, Numbers DEF RunInv
  <2>2. CASE PatchStatus
    <3>1. r = current.name => entries'[r][c] >= entries[r][c]
      BY <1>1, <2>2, MergeNewer
    <3>2. r # current.name => entries'[r] = entries[r]
      BY <1>1, <2>2, MergeNewer
    <3> QED
      BY <2>1, <3>1, <3>2
  <2>3. CASE UNCHANGED entries
    BY <2>1, <2>3
  <2>4. PatchStatus \/ UNCHANGED entries
    BY <1>1, StepPolls
       DEF PollStep, Start, RunStep, RunFault, Ended, Killed, Environment, ListImages,
           NextImage, Fetch, FetchFails, NothingFetched, PatchFails, Exit, Release, EditChannels
  <2> QED
    BY <2>2, <2>3, <2>4
<1>2. RunInv /\ [Next]_vars =>
          [\A r \in Resources, c \in Channels : entries'[r][c] >= entries[r][c]]_pollVars
  BY <1>1
<1> QED
  BY <1>2, RunInvariance, PTL DEF Spec, NeverBack

-----------------------------------------------------------------------------
Entry == [job : Jobs, failed : Nat]
Steps == {"suspend", "label", "clear"}

ScheduleTypeOK ==
    /\ jobs \in [Jobs -> JobState \cup {NoJob}]
    /\ image \in {"old", "new"}
    /\ hook \in {"off", "list", "next"} \cup Steps
    /\ todo \in SUBSET Entry /\ victim \in Entry
    /\ attempts \in 0..Attempts /\ upgrades \in Nat

(* What the hook listed and has not archived.                              *)
Pending(v) == v \in todo \/ (hook \in Steps /\ v = victim)

(* What came of a Job since the hook listed it.                            *)
Accounted(v, job) == job.image # "new" /\ job.failed = v.failed + job.late

HookInv ==
    /\ ScheduleTypeOK
    /\ ArchiveResumable
    /\ \A v \in Entry :
          Pending(v) => v.failed > 0 /\ (Exists(v.job) => Accounted(v, jobs[v.job]))
    /\ \A u, v \in Entry : Pending(u) /\ Pending(v) /\ u.job = v.job => u = v
    /\ hook \in Steps => victim \notin todo
    /\ hook = "clear" /\ Exists(victim.job) => jobs[victim.job].noted = victim.failed

LEMMA NoVictimTyped == NoVictim \in Entry
  BY ScheduleTypes DEF NoVictim, Entry

LEMMA JobTyped ==
    ASSUME ScheduleTypeOK, NEW j \in Jobs, Exists(j)
    PROVE  jobs[j] \in JobState
  BY DEF ScheduleTypeOK, Exists

LEMMA OneMoreTyped ==
    ASSUME NEW job \in JobState
    PROVE  LET more == OneMoreFailed(job)
           IN  /\ more \in JobState
               /\ more.failed = job.failed + 1 /\ more.failed > 0 /\ more.late = job.late + 1
               /\ more.cleared = job.cleared /\ more.noted = job.noted
               /\ more.suspended = job.suspended /\ more.image = job.image
               /\ more.end = job.end /\ more.succeeded = job.succeeded
<1>1. job.failed \in Nat /\ job.late \in Nat
  BY DEF JobState
<1>2. job.failed + 1 \in Nat /\ job.failed + 1 > 0 /\ job.late + 1 \in Nat
  BY <1>1
<1> DEFINE more == OneMoreFailed(job)
<1>3. /\ more.failed = job.failed + 1 /\ more.late = job.late + 1
      /\ more.cleared = job.cleared /\ more.noted = job.noted
      /\ more.suspended = job.suspended /\ more.image = job.image
      /\ more.end = job.end /\ more.succeeded = job.succeeded
  BY DEF JobState, OneMoreFailed
<1>4. more \in JobState
  BY <1>2 DEF JobState, OneMoreFailed
<1> QED
  BY <1>2, <1>3, <1>4

LEMMA JobExists ==
    ASSUME NEW job \in JobState
    PROVE  job # NoJob
<1>1. job.image \in {"old", "new"}
  BY DEF JobState
<1> QED
  BY <1>1 DEF NoJob

(* A Job that changes or appears, while the hook goes on as before or     *)
(* forgets what it listed.                                                 *)
LEMMA JobChangeKeeps ==
    ASSUME HookInv, NEW j \in Jobs, NEW job \in JobState \cup {NoJob},
           jobs' = [jobs EXCEPT ![j] = job],
           UNCHANGED hookVars,
           job # NoJob =>
               /\ job.suspended /\ ~job.cleared =>
                      Complete(job) \/ (job.failed > 0 /\ job.image # "new")
               /\ \/ \A v \in Entry : Pending(v) => v.job # j
                  \/ /\ Exists(j)
                     /\ \A v \in Entry : Accounted(v, jobs[j]) => Accounted(v, job)
                     /\ job.noted = jobs[j].noted
    PROVE  HookInv'
<1> USE DEF hookVars
<1>1. ScheduleTypeOK'
  BY DEF HookInv, ScheduleTypeOK
<1>2. jobs'[j] = job /\ \A i \in Jobs \ {j} : jobs'[i] = jobs[i]
  BY DEF HookInv, ScheduleTypeOK
<1>3. ArchiveResumable'
  BY <1>2 DEF HookInv, ArchiveResumable, Exists, _archive_candidate, Complete
<1>5. ASSUME NEW v \in Entry, Pending(v)'
      PROVE  v.failed > 0 /\ (Exists(v.job)' => Accounted(v, jobs'[v.job]))
  <2>1. Pending(v) /\ v.job \in Jobs
    BY <1>5 DEF Pending, Entry
  <2>2. v.failed > 0 /\ (Exists(v.job) => Accounted(v, jobs[v.job]))
    BY <2>1 DEF HookInv
  <2> QED
    BY <1>2, <2>1, <2>2 DEF Exists
<1>6. hook' = "clear" /\ Exists(victim.job)' => jobs'[victim.job].noted = victim'.failed
  <2>1. SUFFICES ASSUME hook = "clear", jobs'[victim.job] # NoJob
                 PROVE  jobs'[victim.job].noted = victim.failed
    BY DEF Exists
  <2>2. victim \in Entry /\ Pending(victim) /\ victim.job \in Jobs
    BY <2>1 DEF HookInv, ScheduleTypeOK, Pending, Steps, Entry
  <2>3. CASE victim.job # j
    BY <1>2, <2>1, <2>2, <2>3 DEF HookInv, Exists
  <2>4. CASE victim.job = j
    <3>1. Exists(j) /\ job # NoJob
      BY <1>2, <2>1, <2>2, <2>4
    <3>2. job.noted = jobs[j].noted
      BY <2>2, <2>4, <3>1
    <3> QED
      BY <1>2, <2>1, <2>4, <3>1, <3>2 DEF HookInv
  <2> QED
    BY <2>3, <2>4
<1>7. \A u, v \in Entry : Pending(u)' /\ Pending(v)' /\ u.job = v.job => u = v
  BY DEF HookInv, Pending
<1> QED
  BY <1>1, <1>3, <1>5, <1>6, <1>7 DEF HookInv

LEMMA ScheduleKeeps ==
    ASSUME HookInv,
           \/ CronJobStep
           \/ \E j \in Jobs : PodSucceeds(j) \/ PodExits(j) \/ PodFails(j)
    PROVE  HookInv'
<1> USE DEF hookVars
<1>0. HookInv /\ UNCHANGED <<jobs, hookVars>> => HookInv'
  BY DEF HookInv, ScheduleTypeOK, ArchiveResumable, Pending, Exists, _archive_candidate,
         Complete
<1>1. CASE NewJob
  <2> DEFINE j == CHOOSE i \in Free : TRUE
             job == [image |-> image, failed |-> 0, end |-> "no", active |-> TRUE,
                     succeeded |-> FALSE, suspended |-> FALSE, noted |-> 0, cleared |-> FALSE,
                     late |-> 0]
  <2>1. j \in Free /\ UNCHANGED hookVars /\ jobs' = [jobs EXCEPT ![j] = job]
    BY <1>1 DEF NewJob
  <2>2. j \in Jobs /\ (~Exists(j) \/ Archived(j)) /\ j \notin Listed
    BY <2>1 DEF Free
  <2>3. ASSUME NEW v \in Entry, Pending(v)
        PROVE  v.job # j
    <3>1. CASE v \in todo
      <4>1. v.job \in Listed
        BY <3>1 DEF Listed
      <4> QED
        BY <2>2, <4>1
    <3>2. CASE hook \in Steps /\ v = victim
      <4>1. v.job \in Listed
        BY <3>2 DEF Listed, Steps
      <4> QED
        BY <2>2, <4>1
    <3> QED
      BY <2>3, <3>1, <3>2 DEF Pending
  <2>4. job \in JobState
    BY DEF HookInv, ScheduleTypeOK, JobState
  <2> QED
    BY <2>1, <2>2, <2>3, <2>4, JobChangeKeeps
<1>2. ASSUME NEW j \in Jobs, RemoveOld(j)
      PROVE  HookInv'
  BY <1>2, JobChangeKeeps DEF RemoveOld
<1>3. ASSUME NEW j \in Jobs, NEW how \in {"complete", "failed"}, NEW n \in {0, 1},
             Active(j), Ends(j, how, n), UNCHANGED hookVars,
             how = "failed" => n = 1 /\ ~jobs[j].suspended
      PROVE  HookInv'
  <2> DEFINE job == AtItsEnd(jobs[j], how, n)
  <2>1. jobs[j] \in JobState /\ Exists(j)
    BY <1>3, JobTyped DEF Active, HookInv
  <2>2. job \in JobState
    <3>1. jobs[j].failed + n \in Nat /\ jobs[j].late + n \in Nat
      BY <2>1 DEF JobState
    <3>2. CASE how = "complete"
      <4>1. job = [jobs[j] EXCEPT !.end = how, !.active = FALSE, !.failed = @ + n,
                                  !.late = @ + n, !.succeeded = TRUE]
        BY <3>2, Zenon DEF AtItsEnd
      <4> QED
        BY <2>1, <3>1, <4>1 DEF JobState
    <3>3. CASE how # "complete"
      <4>1. job = [jobs[j] EXCEPT !.end = how, !.active = FALSE, !.failed = @ + n,
                                  !.late = @ + n, !.succeeded = FALSE]
        BY <3>3, Zenon DEF AtItsEnd
      <4> QED
        BY <2>1, <3>1, <4>1 DEF JobState
    <3> QED
      BY <3>2, <3>3
  <2>3. /\ job.cleared = jobs[j].cleared /\ job.noted = jobs[j].noted
        /\ job.suspended = jobs[j].suspended /\ job.image = jobs[j].image
        /\ job.end = how /\ job.failed = jobs[j].failed + n /\ job.late = jobs[j].late + n
    BY <2>1 DEF JobState, AtItsEnd
  <2>4. jobs' = [jobs EXCEPT ![j] = job]
    BY <1>3 DEF Ends
  <2>6. Complete(job) \/ (job.failed > 0 /\ ~job.suspended)
    BY <1>3, <2>1, <2>3 DEF JobState, Complete
  <2>7. ASSUME NEW v \in Entry, Accounted(v, jobs[j])
        PROVE  Accounted(v, job)
    BY <2>1, <2>3, <2>7 DEF Accounted, Entry, JobState
  <2>8. job # NoJob =>
            /\ job.suspended /\ ~job.cleared =>
                   Complete(job) \/ (job.failed > 0 /\ job.image # "new")
            /\ \/ \A v \in Entry : Pending(v) => v.job # j
               \/ /\ Exists(j)
                  /\ \A v \in Entry : Accounted(v, jobs[j]) => Accounted(v, job)
                  /\ job.noted = jobs[j].noted
    BY <2>1, <2>3, <2>6, <2>7
  <2> HIDE DEF job
  <2> QED
    BY <1>3, <2>2, <2>4, <2>8, JobChangeKeeps
<1>4. ASSUME NEW j \in Jobs, PodSucceeds(j)
      PROVE  HookInv'
  BY <1>3, <1>4 DEF PodSucceeds
<1>5. ASSUME NEW j \in Jobs, PodExits(j)
      PROVE  HookInv'
  BY <1>0, <1>3, <1>5 DEF PodExits
<1>6. ASSUME NEW j \in Jobs, PodFails(j)
      PROVE  HookInv'
  <2> DEFINE job == OneMoreFailed(jobs[j])
  <2>1. jobs[j] \in JobState /\ Exists(j)
    BY <1>6, JobTyped DEF PodFails, Active, HookInv
  <2>2. /\ job \in JobState
        /\ job.failed = jobs[j].failed + 1 /\ job.failed > 0 /\ job.late = jobs[j].late + 1
        /\ job.cleared = jobs[j].cleared /\ job.noted = jobs[j].noted
        /\ job.suspended = jobs[j].suspended /\ job.image = jobs[j].image
        /\ job.end = jobs[j].end /\ job.succeeded = jobs[j].succeeded
    BY <2>1, OneMoreTyped
  <2>3. jobs' = [jobs EXCEPT ![j] = job] /\ UNCHANGED hookVars
    BY <1>6 DEF PodFails
  <2>5. ASSUME NEW v \in Entry, Accounted(v, jobs[j])
        PROVE  Accounted(v, job)
    BY <2>1, <2>2, <2>5 DEF Accounted, Entry, JobState
  <2>6. job.suspended /\ ~job.cleared => Complete(job) \/ (job.failed > 0 /\ job.image # "new")
    BY <2>1, <2>2 DEF HookInv, ArchiveResumable, _archive_candidate, Complete
  <2>8. job # NoJob =>
            /\ job.suspended /\ ~job.cleared =>
                   Complete(job) \/ (job.failed > 0 /\ job.image # "new")
            /\ \/ \A v \in Entry : Pending(v) => v.job # j
               \/ /\ Exists(j)
                  /\ \A v \in Entry : Accounted(v, jobs[j]) => Accounted(v, job)
                  /\ job.noted = jobs[j].noted
    BY <2>1, <2>2, <2>5, <2>6
  <2> HIDE DEF job
  <2> QED
    BY <2>2, <2>3, <2>8, JobChangeKeeps
<1> QED
  BY <1>1, <1>2, <1>4, <1>5, <1>6 DEF CronJobStep

(* A patch of the hook, on the Job it is archiving.                        *)
LEMMA PatchHolds ==
    ASSUME HookInv, NEW step \in Steps, NEW next \in {"label", "clear", "next"},
           NEW job \in JobState, Patch(step, next, job),
           job.suspended /\ ~job.cleared =>
               Complete(job) \/ (job.failed > 0 /\ job.image # "new"),
           next # "next" => Accounted(victim, job),
           next = "clear" => job.noted = victim.failed
    PROVE  HookInv'
<1> DEFINE j == victim.job
<1>1. /\ hook = step /\ jobs' = [jobs EXCEPT ![j] = job] /\ hook' = next
      /\ victim' = (IF next = "next" THEN NoVictim ELSE victim)
      /\ UNCHANGED <<todo, attempts, upgrades, image>>
  BY DEF Patch
<1>2. victim \in Entry /\ j \in Jobs /\ Pending(victim) /\ victim \notin todo
  BY <1>1 DEF HookInv, ScheduleTypeOK, Pending, Entry
<1>3. jobs'[j] = job /\ \A i \in Jobs \ {j} : jobs'[i] = jobs[i]
  BY <1>1, <1>2 DEF HookInv, ScheduleTypeOK
<1>4. ScheduleTypeOK'
  BY <1>1, <1>2, NoVictimTyped DEF HookInv, ScheduleTypeOK, Steps
<1>5. ArchiveResumable'
  BY <1>2, <1>3 DEF HookInv, ArchiveResumable, Exists, _archive_candidate, Complete
<1>7. ASSUME NEW v \in Entry, Pending(v)'
      PROVE  Pending(v) /\ (v = victim => next # "next")
  BY <1>1, <1>2, <1>7 DEF Pending, Steps
<1>8. ASSUME NEW v \in Entry, Pending(v)'
      PROVE  v.failed > 0 /\ (Exists(v.job)' => Accounted(v, jobs'[v.job]))
  <2>1. Pending(v) /\ (v = victim => next # "next") /\ v.job \in Jobs
    BY <1>7, <1>8 DEF Entry
  <2>2. v.failed > 0 /\ (Exists(v.job) => Accounted(v, jobs[v.job]))
    BY <2>1 DEF HookInv
  <2>3. v.job = j => v = victim
    BY <1>2, <2>1 DEF HookInv
  <2> QED
    BY <1>3, <2>1, <2>2, <2>3 DEF Exists
<1>9. \A u, v \in Entry : Pending(u)' /\ Pending(v)' /\ u.job = v.job => u = v
  BY <1>7 DEF HookInv
<1>10. hook' \in Steps => victim' \notin todo'
  BY <1>1, <1>2 DEF Steps
<1>11. hook' = "clear" => jobs'[victim'.job].noted = victim'.failed
  BY <1>1, <1>3
<1> QED
  BY <1>4, <1>5, <1>8, <1>9, <1>10, <1>11 DEF HookInv

LEMMA PatchesKeep ==
    ASSUME HookInv, PatchSuspend \/ PatchLabel \/ PatchClear
    PROVE  HookInv'
<1> DEFINE old == jobs[victim.job]
<1>1. hook \in Steps /\ Exists(victim.job)
  BY DEF PatchSuspend, PatchLabel, PatchClear, Patch, Steps
<1>2. victim \in Entry /\ Pending(victim) /\ victim.job \in Jobs
  BY <1>1 DEF HookInv, ScheduleTypeOK, Pending, Entry
<1>3. old \in JobState /\ Accounted(victim, old) /\ victim.failed > 0 /\ victim.failed \in Nat
  BY <1>1, <1>2, JobTyped DEF HookInv, Entry
<1>4. old.failed > 0 /\ old.image # "new"
  BY <1>3 DEF Accounted, JobState
<1>5. CASE PatchSuspend
  <2> DEFINE job == [old EXCEPT !.suspended = TRUE]
  <2>1. Patch("suspend", "label", job)
    BY <1>5 DEF PatchSuspend
  <2>2. /\ job \in JobState /\ job.cleared = old.cleared /\ job.noted = old.noted
        /\ job.failed = old.failed /\ job.late = old.late /\ job.image = old.image
        /\ job.end = old.end /\ job.succeeded = old.succeeded
    BY <1>3 DEF JobState
  <2>3. Accounted(victim, job)
    BY <1>3, <2>2 DEF Accounted
  <2>4. job.failed > 0 /\ job.image # "new"
    BY <1>4, <2>2
  <2> HIDE DEF job
  <2> QED
    BY <2>1, <2>2, <2>3, <2>4, PatchHolds DEF Steps
<1>6. CASE PatchLabel
  <2> DEFINE job == [old EXCEPT !.noted = victim.failed]
  <2>1. Patch("label", "clear", job)
    BY <1>6 DEF PatchLabel
  <2>2. /\ job \in JobState /\ job.cleared = old.cleared /\ job.noted = victim.failed
        /\ job.failed = old.failed /\ job.late = old.late /\ job.image = old.image
        /\ job.end = old.end /\ job.succeeded = old.succeeded
    BY <1>3 DEF JobState
  <2>3. Accounted(victim, job)
    BY <1>3, <2>2 DEF Accounted
  <2>4. job.failed > 0 /\ job.image # "new"
    BY <1>4, <2>2
  <2> HIDE DEF job
  <2> QED
    BY <2>1, <2>2, <2>3, <2>4, PatchHolds DEF Steps
<1>7. CASE PatchClear
  <2> DEFINE job == [old EXCEPT !.failed = 0, !.end = "no", !.cleared = TRUE]
  <2>1. Patch("clear", "next", job) /\ hook = "clear"
    BY <1>7 DEF PatchClear, Patch
  <2>2. job \in JobState /\ job.cleared
    BY <1>3 DEF JobState
  <2> HIDE DEF job
  <2> QED
    BY <2>1, <2>2, PatchHolds DEF Steps
<1> QED
  BY <1>5, <1>6, <1>7

(* The listing, from which the pods that fail are counted anew.            *)
LEMMA ListingKeeps ==
    ASSUME HookInv, ListPollerJobs
    PROVE  HookInv'
<1>1. /\ hook' = "next" /\ hook' \notin Steps
      /\ UNCHANGED <<victim, attempts, upgrades, image>>
  BY DEF ListPollerJobs, Steps
<1>2. ASSUME NEW j \in Jobs
      PROVE  jobs'[j] = IF Exists(j) THEN [jobs[j] EXCEPT !.late = 0] ELSE NoJob
  BY DEF ListPollerJobs
<1>3. ASSUME NEW j \in Jobs, Exists(j)
      PROVE  /\ jobs[j] \in JobState /\ jobs'[j] \in JobState /\ jobs'[j].late = 0
             /\ jobs'[j].image = jobs[j].image /\ jobs'[j].failed = jobs[j].failed
             /\ jobs'[j].suspended = jobs[j].suspended /\ jobs'[j].cleared = jobs[j].cleared
             /\ jobs'[j].end = jobs[j].end /\ jobs'[j].succeeded = jobs[j].succeeded
  <2>1. jobs[j] \in JobState
    BY <1>3, JobTyped DEF HookInv
  <2>2. jobs'[j] = [jobs[j] EXCEPT !.late = 0]
    BY <1>2, <1>3
  <2> QED
    BY <2>1, <2>2 DEF JobState
<1>4. ASSUME NEW v \in todo'
      PROVE  v \in Entry /\ v.failed > 0 /\ Accounted(v, jobs'[v.job])
  <2>1. PICK j \in Jobs : _archive_candidate(j) /\ v = [job |-> j, failed |-> jobs[j].failed]
    BY <1>4 DEF ListPollerJobs
  <2>2. jobs[j].failed > 0 /\ Exists(j) /\ jobs[j].image # "new"
    BY <2>1 DEF _archive_candidate
  <2>3. jobs[j].failed \in Nat
    BY <1>3, <2>2 DEF JobState
  <2> QED
    BY <1>3, <2>1, <2>2, <2>3 DEF Entry, Accounted
<1>5. ScheduleTypeOK'
  <2>1. jobs' \in [Jobs -> JobState \cup {NoJob}]
    BY <1>2, <1>3 DEF ListPollerJobs
  <2> QED
    BY <1>1, <1>4, <2>1 DEF HookInv, ScheduleTypeOK
<1>6. ArchiveResumable'
  BY <1>2, <1>3 DEF HookInv, ArchiveResumable, Exists, _archive_candidate, Complete
<1>7. \A v \in Entry : Pending(v)' => v \in todo'
  BY <1>1 DEF Pending
<1>8. \A u, v \in todo' : u.job = v.job => u = v
  BY DEF ListPollerJobs
<1> QED
  BY <1>1, <1>4, <1>5, <1>6, <1>7, <1>8 DEF HookInv, Steps

(* The steps of the hook that change no Job.                               *)
LEMMA HookKeeps ==
    ASSUME HookInv,
           \/ Upgrade \/ HookSucceeds \/ PodOfHookEnds
           \/ \E v \in todo : NextCandidate(v)
    PROVE  HookInv'
<1> USE ScheduleTypes
<1>1. UNCHANGED jobs
  BY DEF Upgrade, HookSucceeds, PodOfHookEnds, NextCandidate
<1>2. ArchiveResumable'
  BY <1>1 DEF HookInv, ArchiveResumable, Exists, _archive_candidate, Complete
<1>3. ASSUME hook' \notin Steps, ScheduleTypeOK', \A v \in Entry : v \in todo' => v \in todo,
             hook = "next" \/ todo = {} \/ todo' = {}
      PROVE  HookInv'
  <2>1. \A v \in Entry : Pending(v)' => Pending(v)
    BY <1>3 DEF Pending
  <2> QED
    BY <1>1, <1>2, <1>3, <2>1 DEF HookInv, Pending, Exists, Steps
<1>4. CASE Upgrade
  <2>1. ScheduleTypeOK' /\ hook' \notin Steps /\ UNCHANGED todo
    BY <1>4 DEF Upgrade, HookInv, ScheduleTypeOK, Steps
  <2>2. \A v \in Entry : Pending(v)' => Pending(v)
    BY <2>1 DEF Pending
  <2> QED
    BY <1>1, <1>2, <2>1, <2>2 DEF HookInv, Exists, Steps
<1>5. CASE HookSucceeds
  <2>1. ScheduleTypeOK' /\ hook' \notin Steps /\ UNCHANGED todo /\ hook = "next"
    BY <1>5 DEF HookSucceeds, HookInv, ScheduleTypeOK, Steps
  <2> QED
    BY <1>3, <2>1
<1>6. CASE PodOfHookEnds
  <2>1. ScheduleTypeOK' /\ hook' \notin Steps /\ todo' = {}
    BY <1>6, NoVictimTyped DEF PodOfHookEnds, HookInv, ScheduleTypeOK, Steps
  <2> QED
    BY <1>3, <2>1
<1>8. ASSUME NEW v \in todo, NextCandidate(v)
      PROVE  HookInv'
  <2>1. /\ hook = "next" /\ hook' = "suspend" /\ victim' = v /\ todo' = todo \ {v}
        /\ UNCHANGED <<attempts, upgrades, image>>
    BY <1>8 DEF NextCandidate
  <2>2. ScheduleTypeOK'
    BY <1>1, <2>1 DEF HookInv, ScheduleTypeOK, Steps
  <2>3. \A u \in Entry : Pending(u)' => Pending(u)
    BY <2>1 DEF Pending
  <2> QED
    BY <1>1, <1>2, <2>1, <2>2, <2>3 DEF HookInv, Exists
<1> QED
  BY <1>4, <1>5, <1>6, <1>8

LEMMA InitHook == Init => HookInv
<1> SUFFICES ASSUME Init
             PROVE  HookInv
  OBVIOUS
<1>1. \A j \in Jobs : jobs[j] = NoJob
  BY DEF Init
<1>2. ScheduleTypeOK /\ hook \notin Steps /\ todo = {}
  BY NoVictimTyped, ScheduleTypes DEF Init, ScheduleTypeOK, Steps
<1>3. hook # "clear"
  BY <1>2 DEF Steps
<1>4. ArchiveResumable
  BY <1>1 DEF ArchiveResumable, Exists
<1> QED
  BY <1>2, <1>3, <1>4 DEF HookInv, Pending

LEMMA HookInvStep == HookInv /\ [Next]_vars => HookInv'
<1> SUFFICES ASSUME HookInv, [Next]_vars
             PROVE  HookInv'
  OBVIOUS
<1>1. CASE UNCHANGED <<jobs, hookVars>>
  BY <1>1 DEF hookVars, HookInv, ScheduleTypeOK, ArchiveResumable, Pending, Exists,
         _archive_candidate, Complete
<1>2. \/ UNCHANGED <<jobs, hookVars>>
      \/ CronJobStep
      \/ \E j \in Jobs : PodSucceeds(j) \/ PodExits(j) \/ PodFails(j)
      \/ PatchSuspend \/ PatchLabel \/ PatchClear
      \/ Upgrade \/ ListPollerJobs \/ HookSucceeds \/ PodOfHookEnds
      \/ \E v \in todo : NextCandidate(v)
  BY DEF Next, vars, PodStep, PodRuns, PodStarts, SuspendedPodStops, PodMeetsFault, HookStep
<1> QED
  BY <1>1, <1>2, ScheduleKeeps, PatchesKeep, ListingKeeps, HookKeeps

LEMMA HookInvariance == Spec => []HookInv
  BY InitHook, HookInvStep, PTL DEF Spec

(* A hook that dies between the patches of a Job leaves the Job so that    *)
(* the next hook finds it again and finishes it                            *)
(* (stale_poller_archive.py:87-104).                                       *)
THEOREM ArchivesResumable == Spec => []ArchiveResumable
<1>1. HookInv => ArchiveResumable
  BY DEF HookInv
<1> QED
  BY <1>1, HookInvariance, PTL

(* Only the last patch of the hook makes a failed count go down.           *)
LEMMA ErasedByHook ==
    ASSUME HookInv, [Next]_vars, NEW j \in Jobs, Erases(j)
    PROVE  PatchClear /\ j = victim.job
<1>1. /\ Exists(j) /\ jobs'[j] # NoJob /\ jobs'[j].cleared
      /\ jobs'[j].failed < jobs[j].failed /\ jobs[j].failed \in Nat /\ jobs[j] \in JobState
      /\ jobs \in [Jobs -> JobState \cup {NoJob}]
  BY JobTyped DEF Erases, Exists, HookInv, ScheduleTypeOK, JobState
<1>2. ~(UNCHANGED jobs)
  BY <1>1
<1>3. ~CronJobStep
  <2>1. ASSUME NEW i \in Jobs, NEW job, jobs' = [jobs EXCEPT ![i] = job]
        PROVE  i = j /\ jobs'[j] = job
    <3>1. i = j
      BY <1>1, <2>1
    <3> QED
      BY <1>1, <2>1, <3>1
  <2>2. ~NewJob
    <3> SUFFICES ASSUME NewJob
                 PROVE  FALSE
      OBVIOUS
    <3> DEFINE i == CHOOSE i \in Free : TRUE
               job == [image |-> image, failed |-> 0, end |-> "no", active |-> TRUE,
                       succeeded |-> FALSE, suspended |-> FALSE, noted |-> 0,
                       cleared |-> FALSE, late |-> 0]
    <3>1. i \in Jobs /\ jobs' = [jobs EXCEPT ![i] = job] /\ ~job.cleared
      BY DEF NewJob, Free
    <3> HIDE DEF i, job
    <3> QED
      BY <1>1, <2>1, <3>1
  <2>3. \A i \in Jobs : ~RemoveOld(i)
    BY <1>1, <2>1 DEF RemoveOld
  <2> QED
    BY <2>2, <2>3 DEF CronJobStep
<1>4. ASSUME NEW i \in Jobs
      PROVE  ~(PodSucceeds(i) \/ PodExits(i) \/ PodFails(i))
  <2>1. ASSUME NEW how, NEW n \in {0, 1}, Ends(i, how, n)
        PROVE  FALSE
    BY <1>1, <2>1 DEF Ends, AtItsEnd, JobState
  <2>2. ~PodFails(i)
    BY <1>1, OneMoreTyped DEF PodFails
  <2> QED
    BY <1>2, <2>1, <2>2 DEF PodSucceeds, PodExits
<1>5. ~ListPollerJobs
  BY <1>1 DEF ListPollerJobs, JobState
<1>6. ~PatchSuspend /\ ~PatchLabel
  BY <1>1 DEF PatchSuspend, PatchLabel, Patch, JobState
<1>7. PatchClear
  BY <1>2, <1>3, <1>4, <1>5, <1>6
     DEF Next, vars, hookVars, PodStep, PodRuns, PodStarts, SuspendedPodStops, PodMeetsFault,
         Upgrade, HookStep, HookSucceeds, NextCandidate, PodOfHookEnds
<1>8. j = victim.job
  BY <1>1, <1>7 DEF PatchClear, Patch
<1> QED
  BY <1>7, <1>8

(* No failure the hook knew of is erased without a trace: what is cleared  *)
(* is what the annotation says and the pods that failed after the hook     *)
(* listed the Jobs (stale_poller_archive.py:88, 93-106).                   *)
THEOREM FailuresAlwaysNoted == Spec => FailuresNoted
<1>1. ASSUME HookInv, [Next]_vars, NEW j \in Jobs, Erases(j)
      PROVE  jobs'[j].noted > 0 /\ jobs[j].failed = jobs'[j].noted + jobs[j].late
  <2>1. PatchClear /\ j = victim.job
    BY <1>1, ErasedByHook
  <2>2. /\ hook = "clear" /\ Exists(j)
        /\ jobs' = [jobs EXCEPT ![j] = [jobs[j] EXCEPT !.failed = 0, !.end = "no",
                                                      !.cleared = TRUE]]
    BY <2>1 DEF PatchClear, Patch
  <2>3. jobs'[j].noted = jobs[j].noted
    <3>1. jobs[j] \in JobState /\ jobs \in [Jobs -> JobState \cup {NoJob}]
      BY <1>1, <2>2, JobTyped DEF HookInv, ScheduleTypeOK
    <3> QED
      BY <2>2, <3>1 DEF JobState
  <2>4. victim \in Entry /\ Pending(victim)
    BY <1>1, <2>2 DEF HookInv, ScheduleTypeOK, Pending, Steps
  <2> QED
    BY <1>1, <2>1, <2>2, <2>3, <2>4 DEF HookInv, Accounted
<1>2. HookInv /\ [Next]_vars =>
          [\A j \in Jobs : Erases(j) =>
               /\ jobs'[j].noted > 0
               /\ jobs[j].failed = jobs'[j].noted + jobs[j].late]_vars
  BY <1>1
<1> QED
  BY <1>2, HookInvariance, PTL DEF Spec, FailuresNoted

(* Every variable of the poller, its Jobs and the hook has its type; the   *)
(* hook uses no more than its pods (stale_poller_archive.py:107-160).      *)
THEOREM PollScheduleTypes == Spec => []TypeOK
<1>1. RunInv /\ HookInv => TypeOK
  BY DEF RunInv, HookInv, ScheduleTypeOK, TypeOK, Entry, Steps
<1> QED
  BY <1>1, RunInvariance, HookInvariance, PTL
=============================================================================
