----------------------------- MODULE Retention -----------------------------
(***************************************************************************)
(* Retention passes (gc.run) over the image repositories of one            *)
(* VGPUDriverImage.  A pass takes an inventory of every repository, plans  *)
(* which digests to delete, takes every inventory again and, if nothing    *)
(* changed, deletes the planned digests one request at a time, parents     *)
(* before children, and finally writes its verdict to the status.          *)
(*                                                                         *)
(* Passes are not serialised: kopf runs the 10-minute timer beside the     *)
(* update handler, and a rolling update of the operator overlaps two       *)
(* processes.  Each pass in flight is a member of Passes.  The registry    *)
(* is shared with the build Jobs, which push new content at any time, and  *)
(* with external writers, which may move tags while no pass is between its *)
(* second inventory and its last delete (docs/architecture.md:196-200).    *)
(***************************************************************************)
EXTENDS RegistryContent, Sequences, FiniteSets

CONSTANTS
    Passes,      \* the reconcile calls that may be in flight together
    Versions,    \* Flatcar versions, numbered in the order of reconciler._ver
    Recognized,  \* the tags gc.parse_image_tag accepts
    FlatcarOf,   \* the Flatcar version a recognized tag names
    Dated,       \* the manifests whose creation time is reliable
    Created,     \* their creation time
    MinAge,      \* spec.retention.minAgeBeforeDelete
    Policies,    \* what the spec and the cluster may ask for, over time
    Initial,     \* the content of the registry at the start: a tag function
    MaxHistory,  \* _MAX_PRUNED_HISTORY
    LostReplies, \* TRUE if a DELETE may be executed and its answer lost
    Crashes,     \* TRUE if the operator may die or fail to write its status
    MaxTime,     \* bound on the clock
    MaxFaults,   \* bound on failed calls and crashes
    MaxWrites    \* bound on pushes, external writes and policy changes

ASSUME RetentionTypes ==
    /\ IsFiniteSet(Tags) /\ Versions \subseteq Int /\ Repos # {}
    /\ Recognized \subseteq Tags
    /\ FlatcarOf \in [Recognized -> Versions]
    /\ Dated \subseteq Manifests
    /\ Created \in [Dated -> Int]
    /\ MinAge \in Nat
    /\ Policies \subseteq [enabled : BOOLEAN, valid : BOOLEAN, keep : Nat,
                           current : SUBSET Versions, others : SUBSET Versions]
    /\ Initial \in [Tags -> Manifests \cup {None}]
    /\ \A t \in Tags : Initial[t] # None => Home[Initial[t]] = RepoOf[t]
    /\ MaxHistory \in Nat
    /\ LostReplies \in BOOLEAN /\ Crashes \in BOOLEAN
    /\ MaxTime \in Nat /\ MaxFaults \in Nat /\ MaxWrites \in Nat

VARIABLES
    present,   \* the manifests stored in the registry
    tags,      \* what each tag names, or None
    ever,      \* every manifest that was ever stored (history)
    now,       \* the clock
    policy,    \* the policy in force: spec.retention, node versions (current),
               \* tracked and pinned versions (others)
    faults,    \* failed calls and crashes so far
    writes,    \* pushes, external writes and policy changes so far
    status,    \* status.pruned and status.retention
    executed,  \* planned tags of every digest the registry deleted (history)
    phase,     \* where each pass is
    left,      \* repositories the current inventory has not finished
    todo,      \* listed tags of the current repository not yet inspected
    seen,      \* the inventory being taken
    inv,       \* the first inventory, once complete
    pending,   \* planned digests not yet deleted
    batch,     \* the rest of the roots the inner loop is deleting
    pol,       \* the policy the pass read when it began
    began,     \* the time it began
    prev,      \* the status.pruned it read when it began
    news,      \* tags it recorded as pruned, in order
    reason     \* its verdict

regVars  == <<present, tags, ever>>
envVars  == <<now, policy, faults, writes>>
readVars == <<left, todo, seen>>
planVars == <<inv, pol, began, prev>>
delVars  == <<pending, batch, news>>
vars == <<regVars, envVars, status, executed, phase, readVars, planVars,
          delVars, reason>>

NoTags == [t \in Tags |-> None]

-----------------------------------------------------------------------------
(* Planning: pure functions of an inventory i, a policy p and a time at.   *)

TagsNaming(i, m) == {t \in Tags : i[t] = m}
Named(i) == {i[t] : t \in Tags} \ {None}

(* The Flatcar versions of existing images, over all repositories.         *)
History(i) == {FlatcarOf[t] : t \in {u \in Recognized : i[u] # None}}

(* Mutant: the newest node version takes a place among its predecessors.   *)
OlderOrSame(p, history) == {v \in history : \E c \in p.current : v <= c}

Older(p, history) == {v \in history : \E c \in p.current : v < c}

(* Mutant: one version too many is kept.                                   *)
RetainedOneMore(p, history) ==
    p.current \cup p.others \cup
    {v \in Older(p, history) :
        Cardinality({u \in Older(p, history) : u > v}) <= p.keep}

(* Required versions, and the keep newest existing ones below the highest  *)
(* version on a node.                                                      *)
Retained(p, history) ==
    p.current \cup p.others \cup
    {v \in Older(p, history) :
        Cardinality({u \in Older(p, history) : u > v}) < p.keep}

OldEnough(m, at) == m \in Dated /\ Created[m] <= at /\ at - Created[m] >= MinAge

Eligible(i, p, at) ==
    {t \in Recognized : /\ i[t] # None
                        /\ FlatcarOf[t] \notin Retained(p, History(i))
                        /\ OldEnough(i[t], at)}

(* Mutant: one eligible tag condemns the digest.                           *)
ExpendableByOne(i, p, at) ==
    {m \in Named(i) : TagsNaming(i, m) \cap Eligible(i, p, at) # {}}

(* Digests all of whose tags are eligible.                                 *)
Expendable(i, p, at) ==
    {m \in Named(i) : TagsNaming(i, m) \subseteq Eligible(i, p, at)}

(* Mutant: a preserved index does not protect its children.                *)
ProtectedAlone(i, p, at) == Named(i) \ Expendable(i, p, at)

(* A preserved root protects everything it references.                     *)
Protected(i, p, at) ==
    UNION {Reach[m] : m \in Named(i) \ Expendable(i, p, at)}

Plan(i, p, at) == Expendable(i, p, at) \ Protected(i, p, at)

-----------------------------------------------------------------------------
(* Mutant: digests are deleted in any order.                               *)
RootsUnordered(S) == {m \in S : \A x \in S : Home[m] <= Home[x]}

(* Mutant: a digest counts as one of its own descendants.                  *)
RootsReflexive(S) ==
    {m \in S : (\A x \in S : Home[m] <= Home[x]) /\ (\A x \in S : m \notin Reach[x])}

(* The pending digests of the first unfinished repository that no other    *)
(* pending digest references.                                              *)
Roots(S) ==
    {m \in S : /\ \A x \in S : Home[m] <= Home[x]
               /\ \A x \in S \ {m} : m \notin Reach[x]}

Batch(w) == IF batch[w] # {} THEN batch[w] ELSE Roots(pending[w])

(* The tags of a digest are recorded in sorted order.                      *)
Sorted(S) ==
    {s \in [1..Cardinality(S) -> S] : \A i, j \in DOMAIN s : i < j => s[i] < s[j]}

(* Mutants: the cap is forgotten, or cuts one entry too many.              *)
NewestUncapped(s) == s
NewestButOne(s) == SubSeq(s, 1, IF Len(s) < MaxHistory THEN Len(s) ELSE MaxHistory - 1)

Newest(s) == SubSeq(s, 1, IF Len(s) < MaxHistory THEN Len(s) ELSE MaxHistory)

Elements(s) == {s[i] : i \in DOMAIN s}

Inspecting == {"list", "read", "relist", "reread"}
Committed  == {"relist", "reread", "delete"}

(* The verdicts _do_reconcile reaches without calling gc.run.              *)
Early == {"Disabled", "NodeDiscoveryFailed", "NoFlatcarVersions"}
Skips == Early \cup {"InventoryChanged"}
Failures == {"InvalidConfiguration", "InventoryIncomplete", "RegistryUnreachable",
             "RegistryDeleteDisabled", "RegistryDeleteFailed"}
Reasons == Skips \cup Failures \cup {"RetentionComplete"}

Outcome(why, pruned) ==
    CASE why \in Skips -> "Skipped"
      [] why = "RetentionComplete" -> "Succeeded"
      [] OTHER -> IF pruned = <<>> THEN "Failed" ELSE "PartialFailure"

-----------------------------------------------------------------------------
TypeOK ==
    /\ present \in SUBSET Manifests /\ ever \in SUBSET Manifests
    /\ tags \in [Tags -> Manifests \cup {None}]
    /\ now \in Nat /\ faults \in Nat /\ writes \in Nat
    /\ policy \in Policies
    /\ phase \in [Passes -> {"idle", "delete", "report"} \cup Inspecting]
    /\ left \in [Passes -> SUBSET Repos]
    /\ todo \in [Passes -> SUBSET Tags]
    /\ seen \in [Passes -> [Tags -> Manifests \cup {None}]]
    /\ inv \in [Passes -> [Tags -> Manifests \cup {None}]]
    /\ pending \in [Passes -> SUBSET Manifests]
    /\ batch \in [Passes -> SUBSET Manifests]
    /\ pol \in [Passes -> Policies]
    /\ began \in [Passes -> Nat]
    /\ reason \in [Passes -> Reasons]

(* The recorded histories are sequences of tags, the status' one capped.   *)
HistoriesTyped ==
    /\ executed \in Seq(Tags)
    /\ \A w \in Passes : prev[w] \in Seq(Tags) /\ news[w] \in Seq(Tags)
    /\ status.pruned \in Seq(Tags) /\ Len(status.pruned) <= MaxHistory

Init ==
    /\ tags = Initial
    /\ present = UNION {Reach[m] : m \in Named(Initial)}
    /\ ever = present
    /\ now = 0 /\ faults = 0 /\ writes = 0
    /\ policy \in Policies
    /\ status = [pruned |-> <<>>, result |-> "Skipped", reason |-> "Disabled",
                 candidates |-> 0, deleted |-> 0, skipped |-> 0]
    /\ executed = <<>>
    /\ phase = [w \in Passes |-> "idle"]
    /\ left = [w \in Passes |-> {}]
    /\ todo = [w \in Passes |-> {}]
    /\ seen = [w \in Passes |-> NoTags]
    /\ inv = [w \in Passes |-> NoTags]
    /\ pending = [w \in Passes |-> {}]
    /\ batch = [w \in Passes |-> {}]
    /\ pol = [w \in Passes |-> policy]
    /\ began = [w \in Passes |-> 0]
    /\ prev = [w \in Passes |-> <<>>]
    /\ news = [w \in Passes |-> <<>>]
    /\ reason = [w \in Passes |-> "Disabled"]

-----------------------------------------------------------------------------
(* Mutant: a pass that ended is in a state of its own.                     *)
FinishElsewhere(w, why) ==
    /\ phase' = [phase EXCEPT ![w] = "done"]
    /\ reason' = [reason EXCEPT ![w] = why]

(* A pass ends with a verdict, to be written by Report.                    *)
Finish(w, why) ==
    /\ phase' = [phase EXCEPT ![w] = "report"]
    /\ reason' = [reason EXCEPT ![w] = why]

(* What a call that fails becomes, by the class of the exception.          *)
Fails(w, why) ==
    /\ faults < MaxFaults
    /\ faults' = faults + 1
    /\ Finish(w, why)

(* _do_reconcile decides whether gc.run is entered, and gc.run whether the *)
(* configuration can be used.                                              *)
Verdict(nodesListed) ==
    IF ~policy.enabled THEN "Disabled"
    ELSE IF ~nodesListed THEN "NodeDiscoveryFailed"
    ELSE IF policy.current \cup policy.others = {} THEN "NoFlatcarVersions"
    ELSE IF policy.valid THEN "RetentionComplete" ELSE "InvalidConfiguration"

Begin(w, nodesListed) ==
    /\ phase[w] = "idle"
    /\ IF nodesListed THEN faults' = faults
       ELSE faults < MaxFaults /\ faults' = faults + 1
    /\ pol' = [pol EXCEPT ![w] = policy]
    /\ began' = [began EXCEPT ![w] = now]
    /\ prev' = [prev EXCEPT ![w] = status.pruned]
    /\ reason' = [reason EXCEPT ![w] = Verdict(nodesListed)]
    /\ IF Verdict(nodesListed) = "RetentionComplete"
       THEN /\ phase' = [phase EXCEPT ![w] = "list"]
            /\ left' = [left EXCEPT ![w] = Repos]
       ELSE /\ phase' = [phase EXCEPT ![w] = "report"]
            /\ left' = left
    /\ UNCHANGED <<regVars, now, policy, writes, status, executed, todo, seen,
                   inv, delVars>>

(* inventory_repository: list the tags of the next repository ...          *)
ListTags(w, r) ==
    /\ phase[w] \in {"list", "relist"}
    /\ r \in left[w] /\ \A q \in left[w] : r <= q
    /\ phase' = [phase EXCEPT ![w] = IF @ = "list" THEN "read" ELSE "reread"]
    /\ todo' = [todo EXCEPT ![w] = {t \in TagsIn(r) : tags[t] # None}]
    /\ UNCHANGED <<regVars, envVars, status, executed, left, seen, planVars,
                   delVars, reason>>

(* ... inspect each with all it references, failing closed on a missing    *)
(* manifest ...                                                            *)
ReadTag(w, t) ==
    /\ phase[w] \in {"read", "reread"}
    /\ t \in todo[w] /\ \A u \in todo[w] : t <= u
    /\ IF tags[t] # None /\ Reach[tags[t]] \subseteq present
       THEN /\ seen' = [seen EXCEPT ![w][t] = tags[t]]
            /\ todo' = [todo EXCEPT ![w] = @ \ {t}]
            /\ UNCHANGED <<phase, reason>>
       ELSE /\ Finish(w, "InventoryIncomplete")
            /\ UNCHANGED <<seen, todo>>
    /\ UNCHANGED <<regVars, envVars, status, executed, left, planVars, delVars>>

(* ... and the repository is done when every listed tag was inspected.     *)
RepoDone(w, r) ==
    /\ r \in left[w] /\ \A q \in left[w] : r <= q
    /\ todo[w] = {}
    /\ left[w] \ {r} # {}
    /\ left' = [left EXCEPT ![w] = @ \ {r}]

NextRepo(w, r) ==
    /\ phase[w] = "read"
    /\ RepoDone(w, r)
    /\ phase' = [phase EXCEPT ![w] = "list"]
    /\ UNCHANGED <<regVars, envVars, status, executed, todo, seen, planVars,
                   delVars, reason>>

(* The first inventory is complete; the plan follows from it.              *)
Recheck(w) ==
    /\ phase[w] = "read"
    /\ Cardinality(left[w]) = 1 /\ todo[w] = {}
    /\ phase' = [phase EXCEPT ![w] = "relist"]
    /\ inv' = [inv EXCEPT ![w] = seen[w]]
    /\ seen' = [seen EXCEPT ![w] = NoTags]
    /\ left' = [left EXCEPT ![w] = Repos]
    /\ UNCHANGED <<regVars, envVars, status, executed, todo, pol, began, prev,
                   delVars, reason>>

(* Mutant: the second inventory only looks at which tags there are.        *)
SameNames(w, r) == \A t \in TagsIn(r) : seen[w][t] = None <=> inv[w][t] = None

SameAgain(w, r) == \A t \in TagsIn(r) : seen[w][t] = inv[w][t]

CompareRepo(w, r) ==
    /\ phase[w] = "reread"
    /\ RepoDone(w, r)
    /\ SameAgain(w, r)
    /\ phase' = [phase EXCEPT ![w] = "relist"]
    /\ UNCHANGED <<regVars, envVars, status, executed, todo, seen, planVars,
                   delVars, reason>>

(* Mutant: a changed inventory makes the pass begin again.                 *)
InventoryChangedRetry(w, r) ==
    /\ phase[w] = "reread"
    /\ r \in left[w] /\ \A q \in left[w] : r <= q
    /\ todo[w] = {}
    /\ ~SameAgain(w, r)
    /\ phase' = [phase EXCEPT ![w] = "list"]
    /\ left' = [left EXCEPT ![w] = Repos]
    /\ seen' = [seen EXCEPT ![w] = NoTags]
    /\ UNCHANGED <<regVars, envVars, status, executed, todo, planVars, delVars, reason>>

InventoryChanged(w, r) ==
    /\ phase[w] = "reread"
    /\ r \in left[w] /\ \A q \in left[w] : r <= q
    /\ todo[w] = {}
    /\ ~SameAgain(w, r)
    /\ Finish(w, "InventoryChanged")
    /\ UNCHANGED <<regVars, envVars, status, executed, readVars, planVars, delVars>>

StartDeleting(w, r) ==
    /\ phase[w] = "reread"
    /\ left[w] = {r} /\ todo[w] = {}
    /\ SameAgain(w, r)
    /\ phase' = [phase EXCEPT ![w] = "delete"]
    /\ left' = [left EXCEPT ![w] = {}]
    /\ pending' = [pending EXCEPT ![w] = Plan(inv[w], pol[w], began[w])]
    /\ UNCHANGED <<regVars, envVars, status, executed, todo, seen, planVars,
                   batch, news, reason>>

(* Any read may fail: no connection, or an answer the inventory rejects.   *)
ReadFails(w, why) ==
    /\ phase[w] \in Inspecting
    /\ why \in {"RegistryUnreachable", "InventoryIncomplete"}
    /\ Fails(w, why)
    /\ UNCHANGED <<regVars, now, policy, writes, status, executed, readVars,
                   planVars, delVars>>

-----------------------------------------------------------------------------
(* The registry executes DELETE of a manifest by digest: the tags that     *)
(* name it go with it.                                                     *)
Remove(m) ==
    /\ m \in present
    /\ present' = present \ {m}
    /\ tags' = [t \in Tags |-> IF tags[t] = m THEN None ELSE tags[t]]
    /\ UNCHANGED ever

Delete(w, m) ==
    /\ phase[w] = "delete"
    /\ m \in Batch(w)
    /\ Remove(m)
    /\ \E s \in Sorted(TagsNaming(inv[w], m)) :
          /\ news' = [news EXCEPT ![w] = @ \o s]
          /\ executed' = executed \o s
    /\ pending' = [pending EXCEPT ![w] = @ \ {m}]
    /\ batch' = [batch EXCEPT ![w] = Batch(w) \ {m}]
    /\ UNCHANGED <<envVars, status, phase, readVars, planVars, reason>>

(* Mutant: a digest that is gone already is struck off and the pass goes   *)
(* on.                                                                     *)
DeleteNotFoundGoesOn(w, m) ==
    /\ phase[w] = "delete"
    /\ m \in Batch(w)
    /\ m \notin present
    /\ pending' = [pending EXCEPT ![w] = @ \ {m}]
    /\ batch' = [batch EXCEPT ![w] = Batch(w) \ {m}]
    /\ UNCHANGED <<regVars, envVars, status, executed, phase, readVars, planVars,
                   news, reason>>

(* Another pass was first: any answer but 202 and 405 is an error.         *)
DeleteNotFound(w, m) ==
    /\ phase[w] = "delete"
    /\ m \in Batch(w)
    /\ m \notin present
    /\ Finish(w, "RegistryDeleteFailed")
    /\ UNCHANGED <<regVars, envVars, status, executed, readVars, planVars, delVars>>

(* Mutant: the tags are recorded before the answer is known.               *)
DeleteRefusedRecorded(w, m, why) ==
    /\ phase[w] = "delete"
    /\ m \in Batch(w)
    /\ why \in {"RegistryDeleteDisabled", "RegistryDeleteFailed", "RegistryUnreachable"}
    /\ Fails(w, why)
    /\ \E s \in Sorted(TagsNaming(inv[w], m)) : news' = [news EXCEPT ![w] = @ \o s]
    /\ UNCHANGED <<regVars, now, policy, writes, status, executed, readVars,
                   planVars, pending, batch>>

(* The request is refused (405, 5xx) or never arrives.                     *)
DeleteRefused(w, m, why) ==
    /\ phase[w] = "delete"
    /\ m \in Batch(w)
    /\ why \in {"RegistryDeleteDisabled", "RegistryDeleteFailed", "RegistryUnreachable"}
    /\ Fails(w, why)
    /\ UNCHANGED <<regVars, now, policy, writes, status, executed, readVars,
                   planVars, delVars>>

(* The registry executes the request and the answer is lost.               *)
DeleteReplyLost(w, m) ==
    /\ LostReplies
    /\ phase[w] = "delete"
    /\ m \in Batch(w)
    /\ Remove(m)
    /\ \E s \in Sorted(TagsNaming(inv[w], m)) : executed' = executed \o s
    /\ Fails(w, "RegistryUnreachable")
    /\ UNCHANGED <<now, policy, writes, status, readVars, planVars, delVars>>

(* Mutant: a round of roots is taken for the whole plan.                   *)
SucceedAfterRound(w) ==
    /\ phase[w] = "delete"
    /\ batch[w] = {}
    /\ Finish(w, "RetentionComplete")
    /\ UNCHANGED <<regVars, envVars, status, executed, readVars, planVars, delVars>>

Succeed(w) ==
    /\ phase[w] = "delete"
    /\ pending[w] = {}
    /\ Finish(w, "RetentionComplete")
    /\ UNCHANGED <<regVars, envVars, status, executed, readVars, planVars, delVars>>

(* The pass is over and its variables are gone.                            *)
Forget(w) ==
    /\ phase' = [phase EXCEPT ![w] = "idle"]
    /\ left' = [left EXCEPT ![w] = {}]
    /\ todo' = [todo EXCEPT ![w] = {}]
    /\ seen' = [seen EXCEPT ![w] = NoTags]
    /\ inv' = [inv EXCEPT ![w] = NoTags]
    /\ pending' = [pending EXCEPT ![w] = {}]
    /\ batch' = [batch EXCEPT ![w] = {}]
    /\ prev' = [prev EXCEPT ![w] = <<>>]
    /\ news' = [news EXCEPT ![w] = <<>>]
    /\ UNCHANGED <<regVars, now, policy, writes, executed, pol, began, reason>>

PlannedTags(w) ==
    {t \in Tags : inv[w][t] \in Plan(inv[w], pol[w], began[w])}

(* retention_status and the status patch at the end of the reconcile.      *)
Report(w) ==
    /\ phase[w] = "report"
    /\ status' =
        [pruned |-> IF reason[w] \in Early THEN status.pruned
                    ELSE Newest(news[w] \o prev[w]),
         result |-> Outcome(reason[w], news[w]),
         reason |-> reason[w],
         candidates |-> Cardinality(Eligible(inv[w], pol[w], began[w])),
         deleted |-> Len(news[w]),
         skipped |-> Cardinality({t \in Tags : inv[w][t] # None}) -
                     Cardinality(PlannedTags(w))]
    /\ Forget(w)
    /\ UNCHANGED faults

(* The operator dies, or the status patch is lost with the answers.        *)
Crash(w) ==
    /\ Crashes
    /\ phase[w] # "idle"
    /\ faults < MaxFaults
    /\ faults' = faults + 1
    /\ Forget(w)
    /\ UNCHANGED status

-----------------------------------------------------------------------------
(* The environment.                                                        *)
Tick ==
    /\ now < MaxTime
    /\ now' = now + 1
    /\ UNCHANGED <<regVars, policy, faults, writes, status, executed, phase,
                   readVars, planVars, delVars, reason>>

Writing ==
    /\ writes < MaxWrites
    /\ writes' = writes + 1
    /\ UNCHANGED <<now, faults, status, executed, phase, readVars, planVars,
                   delVars, reason>>

(* Nodes join, leave or update; the spec or a tracked channel changes.     *)
ChangePolicy(p) ==
    /\ p # policy
    /\ policy' = p
    /\ UNCHANGED regVars
    /\ Writing

Name(t, m) ==
    /\ Home[m] = RepoOf[t]
    /\ present' = present \cup Reach[m]
    /\ ever' = ever \cup Reach[m]
    /\ tags' = [tags EXCEPT ![t] = m]
    /\ UNCHANGED policy
    /\ Writing

(* A build Job pushes an image nobody has seen before.                     *)
BuilderPush(t, m) ==
    /\ Reach[m] \cap ever = {}
    /\ Name(t, m)

(* Another writer re-pushes or retags an image, but not while a pass is    *)
(* between its second inventory and its last delete.                       *)
ExternalWrite(t, m) ==
    /\ tags[t] # m
    /\ m \in ever
    /\ \A w \in Passes : phase[w] \notin Committed
    /\ Name(t, m)

PassStep(w) ==
    \/ \E r \in Repos :
          \/ ListTags(w, r) \/ NextRepo(w, r) \/ CompareRepo(w, r)
          \/ InventoryChanged(w, r) \/ StartDeleting(w, r)
    \/ \E t \in Tags : ReadTag(w, t)
    \/ Recheck(w)
    \/ \E m \in Manifests : Delete(w, m) \/ DeleteNotFound(w, m)
    \/ Succeed(w)
    \/ Report(w)

Fault(w) ==
    \/ \E why \in Failures : ReadFails(w, why)
    \/ \E m \in Manifests :
          \/ \E why \in Failures : DeleteRefused(w, m, why)
          \/ DeleteReplyLost(w, m)
    \/ Crash(w)

Environment ==
    \/ Tick
    \/ \E p \in Policies : ChangePolicy(p)
    \/ \E t \in Tags, m \in Manifests : BuilderPush(t, m) \/ ExternalWrite(t, m)

Next ==
    \/ \E w \in Passes :
          \/ \E nodesListed \in BOOLEAN : Begin(w, nodesListed)
          \/ PassStep(w)
          \/ Fault(w)
    \/ Environment

Spec == Init /\ [][Next]_vars

(* A handler call in flight runs to its end, kopf's timer keeps starting   *)
(* new ones, and the node listing succeeds again and again.                *)
FairSpec ==
    /\ Spec
    /\ \A w \in Passes : WF_vars(PassStep(w)) /\ WF_vars(Begin(w, TRUE))

-----------------------------------------------------------------------------
(* A tag that can be pulled can be pulled whole: no pass, however it is    *)
(* interleaved with pushes, other passes and its own failures, deletes a   *)
(* manifest that a surviving tag still reaches (parents before children,   *)
(* protected closures: gc.py:221-229 and 240-268).                         *)
Intact == \A t \in Tags : tags[t] # None => Reach[tags[t]] \subseteq present

Unneeded(p, t) == t \in Recognized /\ FlatcarOf[t] \notin p.current \cup p.others

(* A tag disappears only if a deleting pass was entitled to it under the   *)
(* policy and the time it began with: its name was recognized, no node,    *)
(* channel or pin asked for its version, and the image it named when it    *)
(* vanished, not just the one inventoried, was old enough.                 *)
OnlyGarbageVanishes ==
    [][\A t \in Tags : tags[t] # None /\ tags'[t] = None =>
          \E w \in Passes : /\ phase[w] = "delete"
                            /\ Unneeded(pol[w], t)
                            /\ tags[t] \in Dated
                            /\ Created[tags[t]] + MinAge <= began[w]]_vars

(* The second inventory is worth its price: while a pass deletes, every    *)
(* tag is as the plan knew it, or gone, or names content that shares       *)
(* nothing with anything the plan was made from.                           *)
PlanStillTrue ==
    \A w \in Passes : phase[w] = "delete" =>
        \A t \in Tags :
            \/ tags[t] \in {None, inv[w][t]}
            \/ Reach[tags[t]] \cap UNION {Reach[m] : m \in Named(inv[w])} = {}

(* Rollback stays possible: a pass leaves at least keepPrevious versions   *)
(* below the newest node version, or all there were (architecture.md:161). *)
RollbackDepth ==
    \A w \in Passes : phase[w] = "delete" =>
        LET below(i) == {v \in History(i) : \E c \in pol[w].current : v < c}
        IN  Cardinality(below(tags)) >= pol[w].keep \/ below(inv[w]) \subseteq below(tags)

(* When no pass is in flight, status.pruned accounts for every digest the  *)
(* registry deleted for the operator, up to the cap: a failure in mid-pass *)
(* keeps the record of what was deleted before (architecture.md:185-186).  *)
HistoryComplete ==
    (\A w \in Passes : phase[w] = "idle") =>
        /\ Elements(status.pruned) \subseteq Elements(executed)
        /\ Len(executed) <= MaxHistory => Elements(executed) \subseteq Elements(status.pruned)
        /\ Len(executed) > MaxHistory => Len(status.pruned) = MaxHistory

(* However passes overlap, fail, die or miss an answer, status.pruned      *)
(* names nothing that was not deleted, neither the entries an overlapping  *)
(* pass carries over nor its own (gc.py:142-150).  A planned tag that was  *)
(* given to other content while the pass deleted counts as deleted, here   *)
(* as in the record: what it named is gone.                                *)
RecordTruthful == Elements(status.pruned) \subseteq Elements(executed)

(* A deleting pass knows exactly what it did, beside any other: the        *)
(* digests it struck off its plan are gone from the registry for good, and *)
(* it recorded each tag the plan had for them once (gc.py:258-268).        *)
RecordExact ==
    \A w \in Passes : phase[w] = "delete" =>
        LET done == Plan(inv[w], pol[w], began[w]) \ pending[w]
            doneTags == {t \in Tags : inv[w][t] \in done}
        IN  /\ done \cap present = {}
            /\ Elements(news[w]) = doneTags
            /\ Len(news[w]) = Cardinality(doneTags)

(* A pass that reports success leaves nothing it could have deleted: each  *)
(* tag that is as it was inventoried is reached from one that was not      *)
(* eligible, its own name or an index over it (gc.py:214-229, 269).        *)
SuccessLeavesNothing ==
    [][\A w \in Passes :
          phase[w] = "delete" /\ phase'[w] = "report" /\ reason'[w] = "RetentionComplete" =>
              \A t \in Tags : tags[t] # None /\ tags[t] = inv[w][t] =>
                  \E u \in Tags \ Eligible(inv[w], pol[w], began[w]) :
                      inv[w][u] # None /\ tags[t] \in Reach[inv[w][u]]]_vars

(* A pass in flight always finds its next step: a repository to inspect,   *)
(* or, as long as digests are to be deleted, one that no other refers to:  *)
(* "Cyclic deletion plan" is never raised (gc.py:243-257).                 *)
NextStepFound ==
    \A w \in Passes :
        /\ phase[w] \in Inspecting => left[w] # {}
        /\ phase[w] = "delete" /\ pending[w] # {} => Batch(w) # {}

StageOf(at) ==
    CASE at \in {"list", "read"} -> 4
      [] at \in {"relist", "reread"} -> 3
      [] at = "delete" -> 2
      [] at = "report" -> 1
      [] OTHER -> 0

Shrinks(next, last) == next \subseteq last /\ next # last

(* A pass never goes back: each of its steps ends a stage of the pass, or  *)
(* a repository, or lists one, or inspects a tag, or deletes a digest, and *)
(* what environment and other passes do sets it back nowhere.              *)
OnlyForward ==
    [][\A w \in Passes : phase[w] # "idle" =>
          \/ UNCHANGED <<phase[w], left[w], todo[w], pending[w]>>
          \/ StageOf(phase'[w]) < StageOf(phase[w])
          \/ /\ StageOf(phase'[w]) = StageOf(phase[w])
             /\ \/ Shrinks(left'[w], left[w])
                \/ /\ left'[w] = left[w]
                   /\ \/ phase[w] \in {"list", "relist"} /\ phase'[w] \in {"read", "reread"}
                      \/ phase'[w] = phase[w] /\ Shrinks(todo'[w], todo[w])
                      \/ phase'[w] = phase[w] /\ Shrinks(pending'[w], pending[w])]_vars

(* Every pass ends: it never waits for a root that is not there or for a   *)
(* repository that is never finished.                                      *)
PassesEnd == \A w \in Passes : phase[w] # "idle" ~> phase[w] = "idle"

Garbage(t) ==
    /\ Unneeded(policy, t)
    /\ LET below == {v \in History(tags) : \E c \in policy.current : v < c}
           newer == {v \in below : v > FlatcarOf[t]}
       IN  FlatcarOf[t] \in below => Cardinality(newer) >= policy.keep
    /\ tags[t] \in Dated /\ Created[tags[t]] <= now
    /\ Created[tags[t]] + MinAge <= now

(* Once the environment is quiet, garbage is collected: no tag remains     *)
(* whose image only garbage tags reach, unless retention is switched off,  *)
(* misconfigured, or has no version to keep.                               *)
GarbageCollected ==
    <>[](policy.enabled /\ policy.valid /\ policy.current \cup policy.others # {} =>
            \A t \in Tags : tags[t] # None =>
                \E u \in Tags : /\ tags[u] # None /\ tags[t] \in Reach[tags[u]]
                                /\ ~Garbage(u))

(* The passes delete only what the abstract registry lets go of.           *)
Safe == INSTANCE SafeRegistry WITH present <- present, tags <- tags
SafeSpec == Safe!Spec
=============================================================================
