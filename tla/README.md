# Verification of vgpu-driver-operator

TLA+ models of the operator that builds NVIDIA vGPU driver images for Flatcar
nodes, checked with TLC; the safety properties of retention, reconciling, node
events, inventories and polling are also proved with TLAPS. Paths are
relative to `src/operator/src/vgpu_driver_operator/` unless they start with
`docs/`, `charts/` or `TODO.md`.

## The system

A `VGPUDriverImage` resource asks for images, one per NVIDIA driver version and
Flatcar version. The operator creates one Kubernetes Job per missing image; the
Job's pod builds it and pushes it to a registry. Images nobody needs any more
are deleted from the registry.

| Part | State it keeps | Operations | Talks to | What is hard |
|---|---|---|---|---|
| Reconcile pass (`main.py:_do_reconcile`) | nothing between calls; `status.builds`, `status.conditions` | list nodes, tags and Jobs, delete and create Jobs, collect garbage, patch the status | API server, registry | runs in the create/update handler and in the 10-minute timer, which kopf does not serialise; each listing is stale when used; every call can fail; the process can die anywhere |
| Job event handler (`main.py:on_job_event`) | the same status | read the status, change one entry, write all of it | API server, registry | races with passes and with handlers of other Jobs for one list |
| Node event handler (`main.py:on_node_event`) | last event time per node, one thread per event | wait 5 s, touch all resources | API server | debounce, threads |
| Retention (`gc.py:run`) | `status.pruned`, `status.retention` | two inventories, plan, delete in order, report | registry | not atomic with the registry, overlapping passes, partial failure, lost answers |
| Registry client (`registry.py`) | token cache | list tags page by page, inspect a manifest and what it references, delete a digest | registry | a repository that changes between requests, shared and nested indexes, challenges, tokens that expire |
| Tags and decisions (`reconciler.py`) | none | format and parse tags, desired, missing, retained | - | two definitions of "has an image" |
| Job factory (`job_factory.py`) | none | Job name and manifest | - | the name is the identity that makes creation idempotent |
| Channel poller (`poller.py`, `flatcar.py`) | `status.trackedChannelVersions` | list the resources, fetch each channel, merge, patch | release feed, API server | merges into what it listed before; partial failure, killed pods |
| CronJob of the poller (`charts/.../cronjob-flatcar-poll.yaml`) | its Jobs | create a Job when none is active, remove old ones | API server | `Forbid`, history limits |
| Stale poller archive (`stale_poller_archive.py`) | annotations on Jobs | at an upgrade, three patches per failing Job of an older image | API server | failure between patches, Jobs that go on meanwhile |
| Driver container (`charts/.../files/build/nvidia-driver`) | kernel modules of a node | build, load, unload | kernel | order, partial failure |

The parts interact through three shared stores: the resource's status (passes,
Job handler, poller), the Jobs (passes, Job controller; CronJob and hook for those
of the poller) and the registry (passes, retention, pods, other writers).

What makes each part correct:

* Retention: a tag that exists can be pulled whole, whatever is interleaved;
  only old, unneeded images vanish; rollback versions stay; the record of
  deletions is complete; garbage goes eventually.
* Reconcile: one build at a time per image; nothing is built that is there;
  the status tells the truth about what was built; everything wanted is built
  in the end, through failures, edits and crashes.
* Job events: an event leaves its phase in the status; Ready is never shown for
  what was not built.
* Node events: no change of a node is forgotten, a burst of events is one
  touch, and the status comes to show what the nodes run.
* Inventory: what it returns is complete and closed, whatever changes while it
  reads; it fails rather than return less, but never without a reason; it ends.
* Poller: exit 0 means current; entries never go back; a channel that fails does
  not stop the others.
* Archive: a hook can die anywhere and be run again; no failure it listed is
  erased without a note; polling goes on.

## Modules

| Module | What it is |
|---|---|
| `RegistryContent` | manifests, tags and reference closures, and what is assumed of them |
| `RegistryContentProofs` | facts about reference closures |
| `SafeRegistry` | the abstract promise of retention: content disappears only if no surviving tag needs it |
| `Retention` | `gc.run` as overlapping passes over a shared registry; instantiates `SafeRegistry` |
| `MCRetention` | instances of `Retention` for TLC |
| `RetentionProofs` | its inductive invariant and theorems |
| `HistoryProofs` | theorems about `status.pruned`, the record of deletions |
| `PassProofs` | theorems about what a pass leaves behind and how it gets to its end |
| `Inventory` | one `inventory_repository`, request by request, over a registry that changes; instantiates `SafeRegistry` for the other users |
| `MCInventory` | an instance of `Inventory` for TLC |
| `InventoryProofs` | its inductive invariant and theorems |
| `ImageTags` | tags, keys and the decisions taken by reading tags |
| `SafeBuilds` | the abstract promise of reconciling: one build at a time per image, and ready means pushed |
| `Reconcile` | passes, Jobs, Job event handlers, nodes, spec and poller around one resource; instantiates `SafeBuilds` |
| `MCReconcile` | instances of `Reconcile` for TLC |
| `ReconcileProofs` | its invariants and theorems |
| `NodeDebounce` | `on_node_event`, its threads and the touch of every resource |
| `Discovery` | `NodeDebounce` composed with the passes that the touches start |
| `DiscoveryProofs` | theorems about both, and that `Discovery` implements `NodeDebounce` |
| `Poller` | one run of the poller after the other |
| `PollSchedule` | `Poller` composed with the CronJob, its Jobs and the archive hook |
| `PollProofs` | theorems about both |

### Retention

`tags` and `present` are the registry. Everything else that is a function of
`Passes` is the local state of one `gc.run` call, `phase` saying where it is:
`list`/`read` is the first inventory (`ListTags`, one `ReadTag` per tag,
`NextRepo`), `relist`/`reread` the second (`Recheck`, then `CompareRepo`,
`InventoryChanged` or `StartDeleting` for each repository), `delete` the loop of
gc.py:239-268 (`Delete`, `DeleteNotFound`, `DeleteRefused`, `DeleteReplyLost`)
and `report` the verdict that `_do_reconcile` then patches (`Report`). `pol` is
the spec and the versions that were read at the beginning; `pending` is the set
the loop empties and `batch` the `roots` list of its current round. `Plan` and
the functions it is built from are gc.py:200-231 and
`compute_retained_flatcar_set`.

Abstractions: a tag and a digest are values; a tag is read together with the
closure of its manifest in one step (a deletion between the requests of one
inspection is a failed inspection, `ReadFails`; `Inventory` takes this step
apart); Flatcar versions are integers
in the order of `_ver`; times are integers. The order in which the registry
lists is not used by the code, the sorted order in which the code visits is
kept. Versions that do not match the pattern, durations that cannot be parsed,
a negative keep and the absence of a repository are one boolean, `valid`.

The environment pushes new images (`BuilderPush`), moves tags and pushes old
content again (`ExternalWrite`, never between the second inventory and the last
delete of a pass, the rule docs/architecture.md:196-200 gives external
writers), changes nodes, channels, pins and retention settings
(`ChangePolicy`), lets time pass and kills the operator.

### Reconcile

A pass goes through `nodes`, `tags`, `jobs`, `delete`, `create` and back to
`idle`, or to `giveup` where the code returns early. Each of these is a call to
the API server or the registry; what the code computes from an answer belongs
to the step that received it. The local variables of the code are functions of
`Passes`: `mine` is the `spec` argument, `flats` all_flatcar_versions, `seen`
existing_tags, `shown` in_flight with job_phase_map, `doomed` the Jobs the loop
of main.py:561-601 deletes, `gone` deleted_job_names, `missing` the loop of
main.py:615-635. The loop that deletes is cut from the loop that classifies:
which Jobs are deleted depends on the listing only.

A Job is named by key and spec, because its name hashes the spec
(job_factory.py:99-115). `jobs` goes from `pending` over `active`, `pushed` and
`succeeded` or `failed`; a Job that is deleted in the background while its pod
runs leaves an orphan that may still push. `events` holds, per Job, the latest
state its watch has not yet delivered: kopf hands the handler the latest one.
`handler` and `basis` are an `on_job_event` call between reading the status and
writing it.

Abstractions: a resource has one repository for the mode it is in; `mode`,
`tag`, `jobName` and times of an entry are left out, but the mode the CRD
refuses is `Acceptable`; calls of one kind fail alike, except where the code
tells failures apart. Events of two incarnations of a Job name share one slot.
The kernel in a precompiled tag is a boolean, and a driver suffix does not look
like a kernel version. What retention does to the tags is `PruneTag`: any tag
of a version the pass did not find may go, which is what `Retention` allows it.
`Watching = FALSE` leaves out the event handler in the runs that ask about Jobs
and tags: no pass reads `status.builds`, so nothing they ask about depends on it.

### SafeBuilds

`Reconcile` seen by somebody who looks at builds only: a build starts when none
of its key runs, pushes, stops, or is called off and may still push; the keys
shown ready have been pushed. A Job that runs is in `running`, the pod of a
deleted Job in `loose`. Begun deletions, listings and the status are inside.

### Inventory

`phase` says whether `list_tags` (`list`) or the loop over the tags with its
recursive `inspect` (`inspect`) is running. `cursor` is the `last` of the next
page, `left` the tags not yet inspected, `path` the stack of `inspect` with the
references each frame has left (`visiting` is `Visiting`), `manifests` what has
been inspected. Every request goes through `_request`: a registry that is
`private` answers the first attempt with a challenge, which a session with
`basic` credentials turns into a token and a second attempt. The token is used
until the session ends; there are two sessions, since `list_tags` has its own.

Abstractions: the blob with an image's creation time is read with its manifest;
references are taken in any order; the many ways in which an answer can be
wrong are one failing request. `always` and `sometime` remember which tags
existed all through the listing and at some time in it.

`Retention` inventories two times and lets a tag be read, with everything it
references, in one step. `InventoryClosed` is what entitles it to: the content
behind a digest does not change, so reading it bit by bit gives what reading it
at once would, or fails. That tags are read one after the other is in both.

### NodeDebounce and Discovery

An event gets a thread that sleeps `Debounce` ticks (`sleeping`), then gives way
to a newer event (`GiveWay`) or lists the resources and touches them one by one
(`touching`). `news` holds the nodes whose latest state the watch has not
delivered; a restart forgets threads and times, and makes every node news again,
because the watch begins with a listing. Two events of one node do not share a
reading of the clock, as `time.monotonic` has a far finer resolution.

`Discovery` adds, per resource, the pass that kopf runs for the touches so far
(`due`), never two at once; `Handled` and `OtherCallFails` are the steps the
two share, so that `Discovery` implements `NodeDebounce` with the same
variables. The 10-minute timer is left out on purpose: it starts a pass whether
or not anything happened, so that with it nothing about events could fail. It
is in `Reconcile`. `Other` is a version that is not one of Flatcar, whose node
no pass counts.

### Poller and PollSchedule

`stage` is the place in `run_once`: `list`, `next` resource, `fetch`, `exit`.
A listed resource is an object with the channels and entries it had then; the
merge works on these. A release of a channel is a number. Channels in `Flaky`
may fail every time.

`PollSchedule` runs this in Jobs: the CronJob creates one when none is active
and removes finished ones beyond `History`; a pod may fail, be restarted or end
the Job. At an upgrade the hook lists the Jobs once and patches each candidate
three times (`PatchSuspend`, `PatchLabel`, `PatchClear`). A failing call, or a
Job that is gone, ends its pod, and `Attempts` pods are tried, which is the
backoffLimit and one more; then the upgrade fails and may be repeated. A Job's
`late` counts the pods that failed since a hook last listed the Jobs; only
`FailuresNoted` reads it. New
Jobs take the place of archived ones in the model's finite room (`Free`): in the
cluster archived Jobs stay for ever, because nothing finds them again.

## Runs

All on two cores in at most about two and a half minutes.

| Run | Instance | Shows |
|---|---|---|
| `RetentionTwoPasses` | 2 passes, an index and its child plus a fresh image, 3 tags, 1 fault, 1 write, time 0-1 | `Intact`, `PlanStillTrue`, `OnlyGarbageVanishes`, `RecordExact`, `NextStepFound`, `OnlyForward`, `SuccessLeavesNothing`, and that `SafeRegistry` is implemented |
| `RetentionHistory` | 1 pass at a time, 2 repositories, 4 images, cap 2, 2 refused deletes, keep 0-2 | `HistoryComplete`, `HistoriesTyped`, `RollbackDepth` |
| `RetentionLiveness` | 2 passes colliding over an index and its child, settings off, invalid, empty or normal, one failure of any kind | `PassesEnd`, `GarbageCollected`, `RecordTruthful` |
| `ReconcileOneBuild` | 1 pass at a time, 3 specs (one precompiled), 3 edits, 2 failing builds, crashes, or calls other than listing and deleting Jobs | `OneLiveJob`, and that `SafeBuilds` is implemented |
| `ReconcileConverges` | 1 pass at a time, 2 keys from any set of nodes and a channel, 2 changes, 1 fault of any kind, pruning | `NoRebuild`, `Converges` |
| `ReconcileEvents` | 1 key, 2 specs of different modes, event handlers, 1 fault of any kind including a crash | `ReadyWasBuilt`, `Converges` |
| `ReconcileOverlap` | 2 overlapping passes, 2 specs, a failing build | `Converges` |
| `Discovery` | 1 node, 3 versions (one not of Flatcar), 2 resources, 3 events within 3 ticks, debounce 2, 1 failing call, 1 restart | `NoChangeForgotten`, `RateLimited`, `Noticed` |
| `Inventory` | 4 tags on pages of 1, 2 nested indexes that share an image, 1 push, 4 deletions, 1 failure, 3 kinds of server | `ListingComplete`, `InventoryClosed`, `FailureExplained`, `InventoryAdvances`, `InventoryEnds` |
| `PollSchedule` | 1 resource, 2 channels (one may always fail), 1 release, 1 edit, 1 failing call or pod, room for 2 Jobs, 1 upgrade, 2 pods for the hook | `SuccessMeansCurrent`, `NeverBack`, `ArchiveResumable`, `FailuresNoted`, `FollowedUnlessStuck` |
| `ReconcileRejectedEntry` | 1 pass, 1 Job, nothing fails | `EventRecorded` is violated (finding) |
| `ReconcileSuffix` | 2 driver versions, one with a suffix, precompiled | `ReadyWasBuilt` is violated (finding) |

Why the bounds are enough for what they ask. Two passes are the smallest number
that overlap, and overlapping is symmetric: a third sees the other two as one
registry that changes. An index over a tagged image is the smallest content
where the order of deletion, protection by a preserved root, and aliases
matter; `fresh` and one write give a push or a moved tag at every point. Cap 2
with four prunable images makes the history overflow across passes.
`RetentionTwoPasses` keeps no history (`MaxHistory = 0`), since it asks only what
a pass records of itself; the other two do. In `Reconcile` the Jobs of two specs for one
key make handlers, stale Jobs and orphans collide, two keys let one image be
wanted without the other, and two changes let an image be pruned and wanted
again. In `Discovery` the nodes only meet in the touches, which are for all
nodes: a second node adds threads that touch, as two threads of one node do. Two
resources let a thread be cut off between them, and three events in less than
two debounce times make one give way, one touch, and one arrive during a pass.
In `Inventory` one tag per page puts a page boundary between any two tags, and
`shared` can be reached on two paths and by a tag. In `PollSchedule` two Jobs and a
history of one make the hook's listing stale in every way: a candidate fails
again, completes, or is removed. A second resource makes the run too long; with
two resources and no edit (`Resources = {r1, r2}`, `MaxEdits = 0`) it passes as
well, in 1.9 million states. Hooks are those of this chart. The bounds named `Max...` are in the guards of
the actions they bound. Where something is proved, the proofs do not depend on
any of this.

`Discovery`, `Inventory` and `PollSchedule` do not check for deadlock, because
these systems really stop: the first when all changes are seen and the clock
is at its bound, the second when the inventory has ended, the third when the
hook has suspended a Job that was at work (see below). What must not stop is
stated by their liveness properties.

`OneLiveJob`, `NoRebuild` and `SafeBuilding` are claims about passes that do not
overlap, and `OneLiveJob` and `SafeBuilding` about Jobs that can be listed and
deleted: with two passes that read different specs, a listing that failed and
counts as empty, or a DELETE that failed and is only logged (main.py:557-559),
two Jobs for one image run side by side. `NoRebuild` is about a
spec that stays as it is, since the pod of a Job that an edit made stale may
push late. Both limits are the code's, and `ReconcileOverlap` shows what still
holds beyond them.

### Fairness

`Retention!FairSpec`: a call in flight takes its next step, kopf's timer starts
the next pass, and listing the nodes is not refused for ever.
`Reconcile!FairSpec`: the same for reconcile passes; kopf delivers a Job's
latest event and a handler thread finishes; a build that does not fail ends;
the pod of a deleted Job ends. `Discovery!FairSpec`: the watch delivers, threads
wake and run, time passes, kopf calls the handlers that are due. `Inventory!FairSpec`:
the client goes on; the registry answers or the request fails, since every
request has a timeout. `PollSchedule!FairSpec`: the CronJob keeps its schedule,
and the pods of poller and hook run. No fairness is assumed of failures, edits,
pushes, pruning, releases or crashes. Failures and changes are bounded, which
states that the environment is quiet eventually; without this, liveness fails
for the plain reason that every attempt may fail. The exception are the `Flaky`
channels, which may fail for ever.

## Proofs

Every theorem holds for all values of the constants that satisfy the named
assumptions of the modules, and for every value of the bounds.

### Retention (`RetentionProofs`)

`TypeCorrect`, `AlwaysIntact`, `PlanStaysTrue`, `OnlyGarbage`, and
`ImplementsSafeRegistry`.

Assumed of the registry: a manifest's references stay in its repository and are
acyclic, because a digest hashes what it references; and a digest names the same
content for ever. Nothing is assumed of the order in which passes interleave.

`Intact` is not inductive: a delete keeps it only because of facts the pass
established long before. The inductive invariant `IInv` adds them. For each
pass (`PassInv`): in a pass past its first inventory every tag of a repository
already compared is as inventoried, or gone, or names content disjoint from all
that was inventoried (`Rechecked`, `Rereading` for the repository in
progress); while deleting, the pending digests are a part of the plan, the
deleted part is named by no tag, and no digest of the current batch is
reachable from another pending one (`Deleting`). Everything inventoried was
stored once (`ever`), which is what makes fresh pushes disjoint. From this,
`DeleteIsSafe`: if a surviving tag reached the digest about to be deleted, then
either its root is in the plan, hence pending above a root, or it is protected
and so is the digest (`PlanClosedUpwards`); both are contradictions.
`RemoveDisturbsNoOne` and `NameDisturbsNoOne` show that what one pass or the
environment does to the registry keeps the invariant of every other pass.

### Passes (`PassProofs`)

`RollbackStaysPossible` (`RollbackDepth`) holds if passes do not overlap, or all
of them keep the same number of versions below the same versions of nodes
(`OneDepth`): a pass that began with another setting may take versions the
first one keeps, which is what the code does. `RollbackDepth` is not inductive:
it speaks of a pass that deletes, of the versions it planned with, while those
were read one tag after the other and other passes went on deleting. `DepthInv`
is an account of every version that a pass has seen: it still exists below the
nodes, or at least keepPrevious newer ones do (`Deep`). A version that a delete
takes had that many above it when the pass planned, and has them still or, if
one of these is gone, by the account of that one (`EnoughAbove`). Of the versions
that one delete takes, the greatest loses none above it (`Greatest`), and what it
has above it is enough for all older versions too (`DeleteKeepsDepth`).

`NeverStuck` (`NextStepFound`) and `AlwaysForward` (`OnlyForward`) are the safety
half of `PassesEnd`: a pass always has a next step, and each step it takes lowers
a rank (stage of the pass, repositories left, tags to read, digests to delete)
that can fall only finitely often; nobody else's step raises it. "Cyclic deletion
plan" is raised if no pending digest is a root. `RootsExist` shows that there
is one in every finite set: references are acyclic (`ReachAcyclic`), so being
reached is a strict order, and `SomeIsUnsurpassed` finds a member that nothing
in the set is above, by the well-founded order of finite subsets.

`SuccessIsThorough` (`SuccessLeavesNothing`): when a pass ends with
`RetentionComplete`, every tag that is as it was inventoried is reached from a
tag the pass was not entitled to delete.

### The record of deletions (`HistoryProofs`)

`RecordCapped` (`HistoriesTyped`), `RecordIsTruthful` (`RecordTruthful`) and
`RecordIsExact` (`RecordExact`) with passes that overlap, fail, die and miss
answers; the cap needs only that there are finitely many tags. `RecordComplete`
(`HistoryComplete`) holds if passes do not overlap, none dies and no answer is
lost (`Undisturbed`): the code gives no more, see the behaviours below.

Passes that overlap write back the record each of them read, so that entries of
the other are lost; `RecordIsTruthful` says that none is ever made up. A planned
tag that was given to other content in mid-delete counts as deleted, as in the
record. `TruthInv`
covers the copy each pass read and what it adds. That two passes do not both
record one deletion is not true across passes, but `RecordIsExact` holds of each:
what it struck off its plan is gone for good, and it recorded each tag of that
once. `ExactInv` adds that nothing is recorded before the deleting begins; no one
brings a planned digest back, because every tag that could is disjoint from the
plan (`PassInv`).

`HistoryComplete` speaks of the moments when no pass is in flight. In between,
`RecordInv` puts the tags of the current pass in front of the record it read
and says that the two together account for what was deleted (`Accounts`): they
hold nothing else, all of it if it fits the cap, and are shorter than it only
once they have reached the cap. A delete adds the same tags to both sides
(`AccountsGrow`), the cap cuts only what is beyond it (`AccountsCapped`), and a
pass that ends before `gc.run` leaves the record and has deleted nothing.

### Reconcile (`ReconcileProofs`)

`TypeCorrect` without further assumptions. `ReadyMeansBuilt` for driver versions
of which none extends another (`Extends = {}`), passes and handlers overlapping
in any way. `BuiltInv` follows success backwards: a Ready in the status, in a
handler, in an undelivered event, in what a pass has seen, and a tag in the
registry all go back to a push.
`OneBuildAtATime` for passes that do not overlap and Jobs that can be listed and
deleted (`Orderly`): builds, other calls and the operator may fail. `AloneInv` says of every unfinished Job at every point of
a pass that it is the one the pass wants, or doomed, or of a key the
pass will not create. `ImplementsSafeBuilds` needs both.
`NothingBuiltAgain` (`NoRebuild`) for passes that do not overlap and a spec that
stays as it is (`Settled`); anything may fail, listings of Jobs included.
`NoRebuild` is an action property; what makes it hold is that an image which came
after the tags were listed is known by its Job. `RebuildInv` carries that from
call to call (`KnownByJob`): the Job is still there, or the pass remembers that
it deleted it and leaves the key alone. With a single spec a Job is never
deleted while its pod runs, so there are no orphans that push unseen.

### Node events (`DiscoveryProofs`)

`ChangesRemembered` and `EventsRateLimited` for `NodeDebounce`, and
`DiscoveryImplementsEvents`, from which they follow for the composition
(`DiscoveryRemembers`); `DiscoveryTypes`. `EventsInv` adds that after a thread
has decided, the node's newest event is that thread's or came no earlier than
its decision: so the next decision is a whole debounce time later.

### Inventories (`InventoryProofs`)

`InventoryTyped`, `ListingIsComplete`, `InventoryIsClosed`, `FailuresExplained`
and `AlwaysAdvances`, for every graph of references, page size, and number of
failures, pushes and deletions that keep the registry intact, which is what
`AlwaysIntact` proves of retention. `InvInv` says how far the inventory has
come. `ListInv`: a tag that always existed and lies behind the cursor is
listed. `PathInv` and `ReadInv`: the manifests inspected are closed under
references, a manifest on the path has its references inspected, left, or next
on the path, and every manifest reaches those above it on the path. From the
last, a reference to a manifest being visited would be a cycle, so the check
for cycles never fails an inventory. Everything found is present unless
something was deleted. `AlwaysAdvances` (`InventoryAdvances`) bounds the work: no
page and no manifest's references are followed twice, although the graph may
have exponentially many paths. `OnceInv` says why: the manifests on the path are
all different and none of them is among those inspected, so that leaving
one always completes one more.

### Polling (`PollProofs`)

`PollScheduleTypes`, `SuccessIsCurrent`, `EntriesNeverGoBack`,
`ArchivesResumable` and `FailuresAlwaysNoted`. `RunInv`: in a run that has not
failed every channel asked for is ahead, fetched or written, and the entries a
run listed are still the entries, which is why a merge into a stale object
loses nothing. That rests on one run at a time: `Forbid` allows one active Job,
a Job has one pod, and the model has one `stage`. `HookInv`: until a
listed candidate is archived or removed, its failed count is the one listed and
what failed since (`Accounted`), and before it is cleared the one listed is
noted. So `FailuresAlwaysNoted` says exactly what a note is worth: what is
cleared is what it says and the pods that failed after the listing, no less.

Only model-checked: all liveness (`PassesEnd`, `GarbageCollected`, `Converges`,
`Noticed`, `InventoryEnds`, `FollowedUnlessStuck`), which is out of the prover's
reach. Of `PassesEnd` the safety half is proved (see Passes), of `InventoryEnds`
that its steps go forward; that fairness turns them into an end is for TLC.

## Findings

1. The event of a runtime Job without an entry is lost: the entry it appends
   has mode `runtime`, which the CRD refuses (main.py:239;
   `ReconcileRejectedEntry`).
2. The image of `550.54.15-beta` makes the precompiled build of `550.54.15`
   Ready (reconciler.py:90; `ReconcileSuffix`). It is still built, unless its Job
   fails: the cleanup counts the failed Job as having an image (main.py:590) and
   keeps it, and its name refuses the retry (409).

Behaviours a reader should know of, which no document denies:

* A DELETE the registry executed but whose answer was lost is never recorded in
  `status.pruned` (gc.py:259): `RetentionHistory` with `LostReplies = TRUE`
  violates `HistoryComplete`.
* Passes and Job handlers overwrite each other's entries (main.py:216, 766), so
  a Ready may be taken back; `ReconcileEvents` shows that a later pass repairs it.
* The entry of a channel that is no longer tracked stays in
  `status.trackedChannelVersions` (poller.py:116), and retention keeps its images.
* The hook also suspends a Job that has failed pods but is still being retried
  (stale_poller_archive.py:94). Such a Job never ends, and with
  `concurrencyPolicy: Forbid` the CronJob creates no other: polling stops until
  somebody deletes it. `FollowedUnlessStuck` shows that this is the only way.
* The annotation of an archived Job holds the failed count the hook listed
  (stale_poller_archive.py:88); pods that fail between the listing and the last
  patch are cleared with it (stale_poller_archive.py:103-106) and noted nowhere.
  `FailuresNoted` says that nothing else is. A Job that fails again and is archived
  again loses its earlier note.
* docs/architecture.md:225 says that one resource can run both modes, "runtime
  builds are always created; precompiled is opt-in", and the CRD that
  `precompile: true` means to "also build" precompiled images. The code builds
  one mode only (main.py:414, 440; reconciler.py:155-185): with
  `precompile: true` no runtime Job is created. The models follow the code, and
  no run states the documents' claim: `compute_desired` alone refutes it.
* An archived Job has no condition left, so the CronJob's history limits do not
  find it and it stays.
* A node that reports more often than every five seconds is never acted upon by
  events (main.py:116); the timer covers it.

## Not modelled, and the plan

Not modelled: volumes, environment and shell text of the build Jobs; regular
expressions and the parsing of node data, headers, secrets and durations; the
command line and the health server; the Helm templates but for the values
named above; the wording of messages. The driver container script builds,
loads and unloads kernel modules on one node: its state is the node's kernel,
each of its steps is a command whose effects would have to be made up, and it
shares nothing with the operator but the image it starts from.

What would come next: proofs of the safety halves of `Noticed` and of
`FollowedUnlessStuck`, as those of `PassesEnd`; `Retention` composed with `Reconcile` in place of
`PruneTag`; a resource of its own for each of two that share a repository, whose
passes `Retention` has, but not their two statuses; and the abstract versions of
the feed (a version the operator cannot parse turns retention off, gc.py:184)
carried from `Poller` into `Retention`.
