-------------------------- MODULE RetentionProofs --------------------------
(***************************************************************************)
(* What holds of retention passes for any number of passes, repositories,  *)
(* tags, manifests and policies.  The argument rests on IInv: what a pass  *)
(* has inspected twice stays as it saw it except for deletions and for     *)
(* content that is new since, and its remaining plan never names a digest  *)
(* that anything outside the plan reaches.                                 *)
(***************************************************************************)
EXTENDS Retention, RegistryContentProofs

(* Everything the plan of a pass was made from.                            *)
Known(w) == UNION {Reach[m] : m \in Named(inv[w])}

PlanOf(w) == Plan(inv[w], pol[w], began[w])

(* The tag is as inventory i has it, gone, or names content that is new.   *)
Still(w, i, t) ==
    \/ tags[t] = None
    \/ tags[t] = i[t]
    \/ Reach[tags[t]] \cap Known(w) = {}

First(w, r) == r \in left[w] /\ \A q \in left[w] : r <= q

Rechecked(w) ==
    phase[w] \in Committed =>
        \A t \in Tags : RepoOf[t] \notin left[w] => Still(w, inv[w], t)

Rereading(w) ==
    phase[w] = "reread" =>
        \A t \in Tags :
            First(w, RepoOf[t]) /\ t \notin todo[w] => Still(w, seen[w], t)

Deleting(w) ==
    /\ phase[w] = "delete" =>
        /\ left[w] = {}
        /\ pending[w] \subseteq PlanOf(w)
        /\ batch[w] \subseteq pending[w]
        /\ \A d \in PlanOf(w) \ pending[w] : \A t \in Tags : tags[t] # d
        /\ \A m \in batch[w] : \A x \in pending[w] \ {m} : m \notin Reach[x]
    /\ phase[w] \notin {"delete", "report"} => batch[w] = {}

(* The part of the invariant that is about one pass.                       *)
PassInv(w) ==
    /\ Known(w) \subseteq ever
    /\ \A t \in Tags : seen[w][t] # None => Reach[seen[w][t]] \subseteq ever
    /\ Rechecked(w)
    /\ Rereading(w)
    /\ Deleting(w)

IInv ==
    /\ TypeOK
    /\ Intact
    /\ present \subseteq ever
    /\ \A w \in Passes : PassInv(w)

-----------------------------------------------------------------------------
(* What is named in an inventory is covered by what the pass knows.        *)
LEMMA NamedKnown ==
    ASSUME NEW w \in Passes, inv[w] \in [Tags -> Manifests \cup {None}],
           NEW m \in Named(inv[w])
    PROVE  m \in Manifests /\ m \in Known(w) /\ Reach[m] \subseteq Known(w)
<1>1. m \in Manifests
  BY DEF Named
<1> QED
  BY <1>1, ReachClosed DEF Known

(* A planned digest was named in the inventory, and every digest of the    *)
(* inventory that reaches it is planned as well.                           *)
LEMMA PlanClosedUpwards ==
    ASSUME NEW w \in Passes, inv[w] \in [Tags -> Manifests \cup {None}],
           NEW m \in PlanOf(w)
    PROVE  /\ m \in Named(inv[w])
           /\ TagsNaming(inv[w], m) \subseteq Eligible(inv[w], pol[w], began[w])
           /\ \A d \in Named(inv[w]) : m \in Reach[d] => d \in PlanOf(w)
<1> DEFINE E == Expendable(inv[w], pol[w], began[w])
           P == Protected(inv[w], pol[w], began[w])
<1>1. m \in E /\ m \notin P
  BY DEF PlanOf, Plan
<1>2. m \in Named(inv[w]) /\ TagsNaming(inv[w], m) \subseteq Eligible(inv[w], pol[w], began[w])
  BY <1>1 DEF Expendable
<1>3. ASSUME NEW d \in Named(inv[w]), m \in Reach[d], d \notin PlanOf(w)
      PROVE  FALSE
  <2>1. d \in Manifests
    BY NamedKnown
  <2>2. d \notin E => m \in P
    BY <1>3 DEF Protected
  <2>3. d \in P => m \in P
    <3>1. SUFFICES ASSUME NEW n \in Named(inv[w]) \ E, d \in Reach[n]
                   PROVE  m \in P
      BY DEF Protected
    <3>2. n \in Manifests
      BY NamedKnown
    <3>3. m \in Reach[n]
      BY <1>3, <3>1, <3>2, ReachClosed
    <3> QED
      BY <3>3 DEF Protected
  <2> QED
    BY <1>1, <1>3, <2>2, <2>3 DEF PlanOf, Plan
<1> QED
  BY <1>2, <1>3

-----------------------------------------------------------------------------
(* The initial states satisfy the invariant: nothing is in flight.         *)
LEMMA InitIInv == Init => IInv
<1> SUFFICES ASSUME Init PROVE IInv
  OBVIOUS
<1> USE ContentTypes, RetentionTypes
<1>1. \A t \in Tags : tags[t] # None => tags[t] \in Named(Initial) /\ tags[t] \in Manifests
  BY DEF Init, Named
<1>2. \A m \in Named(Initial) : m \in Manifests
  BY DEF Named
<1>3. present \in SUBSET Manifests
  BY <1>2, ReachClosed DEF Init
<1>4. TypeOK
  BY <1>3 DEF Init, TypeOK, NoTags, Inspecting, Reasons, Skips, Early
<1>5. Intact
  BY <1>1 DEF Init, Intact
<1>6. \A w \in Passes : Named(inv[w]) = {} /\ Known(w) = {}
  BY DEF Init, Named, Known, NoTags
<1>7. \A w \in Passes : PassInv(w)
  BY <1>6 DEF Init, PassInv, Rechecked, Rereading, Deleting, Committed, NoTags
<1> QED
  BY <1>4, <1>5, <1>7 DEF Init, IInv

(* Every step preserves the types.                                         *)
LEMMA TypeStep == TypeOK /\ [Next]_vars => TypeOK'
<1> SUFFICES ASSUME TypeOK, [Next]_vars PROVE TypeOK'
  OBVIOUS
<1> USE ContentTypes, RetentionTypes
<1> USE DEF TypeOK
<1>1. CASE UNCHANGED vars
  BY <1>1 DEF vars, regVars, envVars, readVars, planVars, delVars
<1>2. ASSUME NEW w \in Passes, NEW nodesListed \in BOOLEAN, Begin(w, nodesListed)
      PROVE  TypeOK'
  <2>1. Verdict(nodesListed) \in Reasons
    BY DEF Verdict, Reasons, Skips, Early, Failures
  <2>2. faults' \in Nat
    BY <1>2 DEF Begin
  <2>3. /\ left' \in [Passes -> SUBSET Repos]
        /\ phase' \in [Passes -> {"idle", "delete", "report"} \cup Inspecting]
    <3>1. CASE Verdict(nodesListed) = "RetentionComplete"
      BY <1>2, <3>1 DEF Begin, Inspecting
    <3>2. CASE Verdict(nodesListed) # "RetentionComplete"
      BY <1>2, <3>2 DEF Begin, Inspecting
    <3> QED
      BY <3>1, <3>2
  <2>4. /\ pol' \in [Passes -> Policies] /\ began' \in [Passes -> Nat]
        /\ reason' \in [Passes -> Reasons]
    BY <1>2, <2>1 DEF Begin
  <2> QED
    BY <1>2, <2>2, <2>3, <2>4 DEF Begin, regVars, delVars
<1>3. ASSUME NEW w \in Passes, PassStep(w) PROVE TypeOK'
  <2>1. ASSUME NEW r \in Repos, ListTags(w, r) PROVE TypeOK'
    BY <2>1 DEF ListTags, TagsIn, regVars, envVars, planVars, delVars, Inspecting
  <2>2. ASSUME NEW r \in Repos, NextRepo(w, r) \/ CompareRepo(w, r) PROVE TypeOK'
    <3>1. left' \in [Passes -> SUBSET Repos]
      <4>1. left' = [left EXCEPT ![w] = left[w] \ {r}]
        BY <2>2 DEF NextRepo, CompareRepo, RepoDone
      <4> QED
        BY <4>1
    <3>2. phase' \in [Passes -> {"idle", "delete", "report"} \cup Inspecting]
      BY <2>2 DEF NextRepo, CompareRepo, Inspecting
    <3> QED
      BY <2>2, <3>1, <3>2 DEF NextRepo, CompareRepo, regVars, envVars, planVars, delVars
  <2>3. ASSUME NEW r \in Repos, InventoryChanged(w, r) PROVE TypeOK'
    BY <2>3 DEF InventoryChanged, Finish, regVars, envVars, readVars, planVars, delVars,
                Reasons, Skips
  <2>4. ASSUME NEW r \in Repos, StartDeleting(w, r) PROVE TypeOK'
    <3>1. Plan(inv[w], pol[w], began[w]) \in SUBSET Manifests
      BY DEF Plan, Expendable, Named
    <3> QED
      BY <2>4, <3>1 DEF StartDeleting, regVars, envVars, planVars
  <2>5. ASSUME NEW t \in Tags, ReadTag(w, t) PROVE TypeOK'
    <3>1. CASE tags[t] # None /\ Reach[tags[t]] \subseteq present
      <4>1. seen' = [seen EXCEPT ![w][t] = tags[t]]
        BY <2>5, <3>1 DEF ReadTag
      <4>2. seen' \in [Passes -> [Tags -> Manifests \cup {None}]]
        BY <4>1
      <4>3. todo' \in [Passes -> SUBSET Tags]
        <5>1. todo' = [todo EXCEPT ![w] = todo[w] \ {t}]
          BY <2>5, <3>1 DEF ReadTag
        <5> QED
          BY <5>1
      <4> QED
        BY <2>5, <3>1, <4>2, <4>3 DEF ReadTag, regVars, envVars, planVars, delVars
    <3>2. CASE ~(tags[t] # None /\ Reach[tags[t]] \subseteq present)
      BY <2>5, <3>2 DEF ReadTag, Finish, regVars, envVars, planVars, delVars,
                        Reasons, Failures
    <3> QED
      BY <3>1, <3>2
  <2>6. CASE Recheck(w)
    BY <2>6 DEF Recheck, NoTags, regVars, envVars, delVars, Inspecting
  <2>7. ASSUME NEW m \in Manifests, Delete(w, m) PROVE TypeOK'
    <3>1. Batch(w) \in SUBSET Manifests
      BY DEF Batch, Roots
    <3> QED
      BY <2>7, <3>1 DEF Delete, Remove, envVars, readVars, planVars
  <2>8. ASSUME NEW m \in Manifests, DeleteNotFound(w, m) PROVE TypeOK'
    BY <2>8 DEF DeleteNotFound, Finish, regVars, envVars, readVars, planVars, delVars,
                Reasons, Failures
  <2>9. CASE Succeed(w)
    BY <2>9 DEF Succeed, Finish, regVars, envVars, readVars, planVars, delVars, Reasons
  <2>10. CASE Report(w)
    BY <2>10 DEF Report, Forget, NoTags, regVars
  <2> QED
    BY <1>3, <2>1, <2>2, <2>3, <2>4, <2>5, <2>6, <2>7, <2>8, <2>9, <2>10 DEF PassStep
<1>4. ASSUME NEW w \in Passes, Fault(w) PROVE TypeOK'
  <2>1. ASSUME NEW why \in Failures, ReadFails(w, why) PROVE TypeOK'
    BY <2>1 DEF ReadFails, Fails, Finish, regVars, readVars, planVars, delVars, Reasons
  <2>2. ASSUME NEW m \in Manifests, NEW why \in Failures, DeleteRefused(w, m, why)
        PROVE  TypeOK'
    BY <2>2 DEF DeleteRefused, Fails, Finish, regVars, readVars, planVars, delVars, Reasons
  <2>3. ASSUME NEW m \in Manifests, DeleteReplyLost(w, m) PROVE TypeOK'
    BY <2>3 DEF DeleteReplyLost, Remove, Fails, Finish, readVars, planVars, delVars,
                Reasons, Failures
  <2>4. CASE Crash(w)
    BY <2>4 DEF Crash, Forget, NoTags, regVars
  <2> QED
    BY <1>4, <2>1, <2>2, <2>3, <2>4 DEF Fault
<1>5. CASE Environment
  <2>1. CASE Tick
    BY <2>1 DEF Tick, regVars, readVars, planVars, delVars
  <2>2. ASSUME NEW p \in Policies, ChangePolicy(p) PROVE TypeOK'
    BY <2>2 DEF ChangePolicy, Writing, regVars, readVars, planVars, delVars
  <2>3. ASSUME NEW t \in Tags, NEW m \in Manifests, Name(t, m) PROVE TypeOK'
    BY <2>3, ReachClosed DEF Name, Writing, readVars, planVars, delVars
  <2> QED
    BY <1>5, <2>1, <2>2, <2>3 DEF Environment, BuilderPush, ExternalWrite
<1> QED
  BY <1>1, <1>2, <1>3, <1>4, <1>5 DEF Next

-----------------------------------------------------------------------------
Untouched(w) ==
    UNCHANGED <<phase[w], left[w], todo[w], seen[w], inv[w], pending[w], batch[w],
                pol[w], began[w]>>

(* A step that touches neither the registry nor a pass keeps the pass's    *)
(* part of the invariant.                                                  *)
LEMMA Framed ==
    ASSUME NEW w \in Passes, PassInv(w), UNCHANGED <<present, tags, ever>>, Untouched(w)
    PROVE  PassInv(w)'
  BY DEF PassInv, Untouched, Known, Rechecked, Rereading, Deleting, Still, First, PlanOf,
         Named

(* A pass that failed, was reported or has not begun remembers nothing     *)
(* that has to stay true.                                                  *)
LEMMA Over ==
    ASSUME NEW w \in Passes, PassInv(w), phase[w]' = "report",
           UNCHANGED <<ever, seen[w], inv[w], batch[w]>>
    PROVE  PassInv(w)'
  BY DEF PassInv, Known, Rechecked, Rereading, Deleting, Named, Committed

(* Deleting a digest disturbs no pass: it only takes tags away.            *)
LEMMA RemoveDisturbsNoOne ==
    ASSUME NEW w \in Passes, NEW m \in Manifests, TypeOK, PassInv(w), Remove(m),
           Untouched(w)
    PROVE  PassInv(w)'
<1>1. \A t \in Tags : tags'[t] = None \/ tags'[t] = tags[t]
  BY DEF Remove
<1>2. Known(w)' = Known(w) /\ PlanOf(w)' = PlanOf(w) /\ ever' = ever
  BY DEF Remove, Known, Named, PlanOf, Untouched
<1>3. PlanOf(w) \subseteq Manifests
  BY DEF PlanOf, Plan, Expendable, Named, TypeOK
<1>4. Rechecked(w)' /\ Rereading(w)'
  BY <1>1, <1>2 DEF PassInv, Rechecked, Rereading, Still, First, Untouched
<1>5. Deleting(w)'
  BY <1>1, <1>2, <1>3, ContentTypes DEF PassInv, Deleting, Untouched
<1> QED
  BY <1>2, <1>4, <1>5 DEF PassInv, Untouched

(* Neither does new content, nor, before the second inventory, any write.  *)
LEMMA NameDisturbsNoOne ==
    ASSUME NEW w \in Passes, NEW t \in Tags, NEW m \in Manifests, TypeOK, PassInv(w),
           BuilderPush(t, m) \/ ExternalWrite(t, m)
    PROVE  PassInv(w)'
<1>1. /\ ever' = ever \cup Reach[m] /\ tags' = [tags EXCEPT ![t] = m]
      /\ UNCHANGED <<phase, left, todo, seen, inv, pending, batch, pol, began>>
  BY DEF BuilderPush, ExternalWrite, Name, Writing, readVars, planVars, delVars
<1>2. Known(w)' = Known(w) /\ PlanOf(w)' = PlanOf(w)
  BY <1>1 DEF Known, Named, PlanOf
<1>3. /\ Known(w)' \subseteq ever'
      /\ \A u \in Tags : seen'[w][u] # None => Reach[seen'[w][u]] \subseteq ever'
  BY <1>1, <1>2 DEF PassInv
<1>4. CASE phase[w] \notin Committed
  BY <1>1, <1>3, <1>4 DEF PassInv, Rechecked, Rereading, Deleting, Committed
<1>5. CASE phase[w] \in Committed
  <2>1. Reach[m] \cap ever = {}
    BY <1>5 DEF BuilderPush, ExternalWrite
  <2>2. \A u \in Tags : IF u = t THEN tags'[u] = m ELSE tags'[u] = tags[u]
    BY <1>1 DEF TypeOK
  <2>3. Reach[m] \cap Known(w) = {}
    BY <2>1 DEF PassInv
  <2>4. Rechecked(w)'
    BY <1>1, <1>2, <2>2, <2>3 DEF PassInv, Rechecked, Still
  <2>5. Rereading(w)'
    BY <1>1, <1>2, <2>2, <2>3 DEF PassInv, Rereading, Still, First
  <2>6. \A d \in PlanOf(w) : d # m
    <3>1. \A d \in PlanOf(w) : d \in Known(w)
      BY NamedKnown, PlanClosedUpwards DEF TypeOK
    <3> QED
      BY <2>3, <3>1, ReachClosed
  <2>7. Deleting(w)'
    BY <1>1, <1>2, <2>2, <2>6 DEF PassInv, Deleting
  <2> QED
    BY <1>3, <2>4, <2>5, <2>7 DEF PassInv
<1> QED
  BY <1>4, <1>5

-----------------------------------------------------------------------------
(* The steps of a pass that only read keep its own part of the invariant.  *)
LEMMA BeginKeeps ==
    ASSUME NEW w \in Passes, NEW b \in BOOLEAN, TypeOK, PassInv(w), Begin(w, b)
    PROVE  PassInv(w)'
<1>1. phase[w]' \in {"list", "report"}
  BY DEF Begin, TypeOK
<1>2. UNCHANGED <<present, tags, ever, seen, inv, batch>> /\ phase[w] = "idle"
  BY DEF Begin, regVars, delVars
<1> QED
  BY <1>1, <1>2 DEF PassInv, Known, Rechecked, Rereading, Deleting, Committed

(* Listing the tags of a repository leaves every pass invariant as it was. *)
LEMMA ListKeeps ==
    ASSUME NEW w \in Passes, NEW r \in Repos, TypeOK, PassInv(w), ListTags(w, r)
    PROVE  PassInv(w)'
<1>1. /\ UNCHANGED <<present, tags, ever, left, seen, inv, pending, batch, pol, began>>
      /\ r \in left[w] /\ \A q \in left[w] : r <= q
      /\ phase[w] \in {"list", "relist"}
      /\ phase[w]' = IF phase[w] = "list" THEN "read" ELSE "reread"
      /\ todo[w]' = {t \in TagsIn(r) : tags[t] # None}
  BY DEF ListTags, regVars, planVars, delVars, TypeOK
<1>2. Rechecked(w)'
  BY <1>1 DEF PassInv, Rechecked, Still, Known, Committed
<1>3. Rereading(w)'
  <2>1. ASSUME NEW t \in Tags, First(w, RepoOf[t])', t \notin todo[w]'
        PROVE  tags'[t] = None
    <3>1. RepoOf[t] = r
      <4>1. RepoOf[t] \in left[w] /\ \A q \in left[w] : RepoOf[t] <= q
        BY <1>1, <2>1 DEF First
      <4>2. RepoOf[t] \in Int /\ r \in Int
        BY ContentTypes
      <4>3. RepoOf[t] <= r /\ r <= RepoOf[t]
        BY <1>1, <4>1
      <4> QED
        BY <4>2, <4>3
    <3> QED
      BY <1>1, <2>1, <3>1 DEF TagsIn
  <2> QED
    BY <2>1 DEF Rereading, Still
<1>4. Deleting(w)'
  BY <1>1 DEF PassInv, Deleting
<1> QED
  BY <1>1, <1>2, <1>3, <1>4 DEF PassInv, Known

(* Inspecting one tag keeps them: what the pass has seen is in the registry*)
(* at that moment, and stays or goes under the same rules as before.       *)
LEMMA ReadKeeps ==
    ASSUME NEW w \in Passes, NEW t \in Tags, TypeOK, present \subseteq ever, PassInv(w),
           ReadTag(w, t)
    PROVE  PassInv(w)'
<1>1. /\ UNCHANGED <<present, tags, ever, left, inv, pending, batch, pol, began>>
      /\ phase[w] \in {"read", "reread"}
  BY DEF ReadTag, regVars, planVars, delVars
<1>2. CASE tags[t] # None /\ Reach[tags[t]] \subseteq present
  <2>1. /\ seen' = [seen EXCEPT ![w][t] = tags[t]]
        /\ todo' = [todo EXCEPT ![w] = todo[w] \ {t}]
        /\ phase' = phase
    BY <1>2 DEF ReadTag
  <2>2. /\ seen[w]' = [seen[w] EXCEPT ![t] = tags[t]]
        /\ todo[w]' = todo[w] \ {t}
    BY <2>1 DEF TypeOK
  <2>3. seen[w] \in [Tags -> Manifests \cup {None}]
    BY DEF TypeOK
  <2>4. \A u \in Tags : seen'[w][u] = IF u = t THEN tags[t] ELSE seen[w][u]
    BY <2>2, <2>3
  <2>5. \A u \in Tags : seen'[w][u] # None => Reach[seen'[w][u]] \subseteq ever
    BY <1>2, <2>4 DEF PassInv
  <2>6. Rechecked(w)' /\ Deleting(w)' /\ Known(w)' \subseteq ever'
    BY <1>1, <2>1 DEF PassInv, Rechecked, Deleting, Known, Still, PlanOf
  <2>7. Rereading(w)'
    BY <1>1, <2>1, <2>2, <2>4 DEF PassInv, Rereading, Still, Known, First
  <2> QED
    BY <1>1, <2>5, <2>6, <2>7 DEF PassInv
<1>3. CASE ~(tags[t] # None /\ Reach[tags[t]] \subseteq present)
  BY <1>1, <1>3, Over DEF ReadTag, Finish, TypeOK
<1> QED
  BY <1>2, <1>3

(* Moving on to the next repository in either inventory, or to the second. *)
LEMMA NextRepoKeeps ==
    ASSUME NEW w \in Passes, NEW r \in Repos, TypeOK, PassInv(w), NextRepo(w, r)
    PROVE  PassInv(w)'
  BY DEF NextRepo, RepoDone, regVars, planVars, delVars, TypeOK, PassInv, Known,
         Rechecked, Rereading, Deleting, Committed

(* The first inventory becomes the plan and the second starts from nothing.*)
LEMMA RecheckKeeps ==
    ASSUME NEW w \in Passes, TypeOK, PassInv(w), Recheck(w)
    PROVE  PassInv(w)'
<1>1. /\ UNCHANGED <<present, tags, ever, pending, batch, pol, began>>
      /\ phase[w] = "read" /\ phase[w]' = "relist"
      /\ inv[w]' = seen[w] /\ left[w]' = Repos /\ seen[w]' = NoTags
  BY DEF Recheck, regVars, delVars, TypeOK
<1>2. Known(w)' \subseteq ever'
  <2>1. Known(w)' = UNION {Reach[m] : m \in Named(seen[w])}
    BY <1>1 DEF Known
  <2>2. \A m \in Named(seen[w]) : Reach[m] \subseteq ever
    BY DEF Named, PassInv
  <2> QED
    BY <1>1, <2>1, <2>2
<1>3. \A t \in Tags : RepoOf[t] \in left[w]'
  BY <1>1, ContentTypes
<1> QED
  BY <1>1, <1>2, <1>3 DEF PassInv, Rechecked, Rereading, Deleting, NoTags

(* A repository that reads the same twice holds what the plan needs.       *)
LEMMA SameAgainStill ==
    ASSUME NEW w \in Passes, NEW r \in Repos, PassInv(w), phase[w] = "reread",
           First(w, r), todo[w] = {}, SameAgain(w, r)
    PROVE  \A t \in Tags : RepoOf[t] \notin left[w] \ {r} => Still(w, inv[w], t)
<1> SUFFICES ASSUME NEW t \in Tags, RepoOf[t] \notin left[w] \ {r}
             PROVE  Still(w, inv[w], t)
  OBVIOUS
<1>1. CASE RepoOf[t] = r
  <2>1. Still(w, seen[w], t)
    BY <1>1 DEF PassInv, Rereading
  <2>2. seen[w][t] = inv[w][t]
    BY <1>1 DEF SameAgain, TagsIn
  <2> QED
    BY <2>1, <2>2 DEF Still
<1>2. CASE RepoOf[t] # r
  BY <1>2 DEF PassInv, Rechecked, Committed
<1> QED
  BY <1>1, <1>2

(* A repository found unchanged keeps the agreement of both inventories.   *)
LEMMA CompareKeeps ==
    ASSUME NEW w \in Passes, NEW r \in Repos, TypeOK, PassInv(w), CompareRepo(w, r)
    PROVE  PassInv(w)'
<1>1. /\ UNCHANGED <<present, tags, ever, seen, inv, pending, batch, pol, began>>
      /\ phase[w] = "reread" /\ First(w, r) /\ todo[w] = {} /\ SameAgain(w, r)
      /\ phase[w]' = "relist" /\ left[w]' = left[w] \ {r}
  BY DEF CompareRepo, RepoDone, First, regVars, planVars, delVars, TypeOK
<1>2. \A t \in Tags : RepoOf[t] \notin left[w]' => Still(w, inv[w], t)
  BY <1>1, SameAgainStill
<1>3. Rechecked(w)'
  BY <1>1, <1>2 DEF Rechecked, Still, Known
<1> QED
  BY <1>1, <1>3 DEF PassInv, Known, Rereading, Deleting

(* When the last repository agrees, the pass is entitled to its plan.      *)
LEMMA StartDeletingKeeps ==
    ASSUME NEW w \in Passes, NEW r \in Repos, TypeOK, PassInv(w), StartDeleting(w, r)
    PROVE  PassInv(w)'
<1>1. /\ UNCHANGED <<present, tags, ever, seen, inv, batch, pol, began>>
      /\ phase[w] = "reread" /\ left[w] = {r} /\ todo[w] = {} /\ SameAgain(w, r)
      /\ phase[w]' = "delete" /\ left[w]' = {} /\ pending[w]' = PlanOf(w)
  BY DEF StartDeleting, PlanOf, regVars, planVars, TypeOK
<1>2. First(w, r)
  BY <1>1, ContentTypes DEF First
<1>3. \A t \in Tags : RepoOf[t] \notin left[w]' => Still(w, inv[w], t)
  BY <1>1, <1>2, SameAgainStill
<1>4. Rechecked(w)'
  BY <1>1, <1>3 DEF Rechecked, Still, Known
<1>5. batch[w] = {} /\ PlanOf(w)' = PlanOf(w)
  BY <1>1 DEF PassInv, Deleting, PlanOf
<1>6. Deleting(w)'
  BY <1>1, <1>5 DEF Deleting
<1> QED
  BY <1>1, <1>4, <1>6 DEF PassInv, Known, Rereading

(* What a deleting pass may delete next: a planned digest that no other    *)
(* digest it has yet to delete reaches.                                    *)
LEMMA BatchIsRoots ==
    ASSUME NEW w \in Passes, PassInv(w), phase[w] = "delete", NEW m \in Batch(w)
    PROVE  /\ m \in pending[w] /\ Batch(w) \subseteq pending[w]
           /\ \A x \in pending[w] \ {m} : m \notin Reach[x]
  BY DEF Batch, Roots, PassInv, Deleting

(* The heart of the matter: no surviving tag reaches the deleted digest,   *)
(* and the tags that go with it are those the plan was entitled to.        *)
LEMMA DeleteIsSafe ==
    ASSUME NEW w \in Passes, TypeOK, PassInv(w), phase[w] = "delete", NEW m \in Batch(w)
    PROVE  /\ m \in PlanOf(w)
           /\ \A t \in Tags : tags[t] \notin {None, m} => m \notin Reach[tags[t]]
           /\ \A t \in Tags : tags[t] = m => inv[w][t] = m
<1>1. /\ m \in pending[w] /\ m \in PlanOf(w) /\ m \in Named(inv[w]) /\ m \in Manifests
      /\ inv[w] \in [Tags -> Manifests \cup {None}]
      /\ \A t \in Tags : Still(w, inv[w], t)
      /\ \A x \in pending[w] \ {m} : m \notin Reach[x]
  BY BatchIsRoots, PlanClosedUpwards, NamedKnown
     DEF PassInv, Deleting, Rechecked, Committed, TypeOK
<1>2. m \in Known(w) /\ m \in Reach[m]
  BY <1>1, NamedKnown, ReachClosed
<1>3. ASSUME NEW t \in Tags, tags[t] \notin {None, m}, m \in Reach[tags[t]]
      PROVE  FALSE
  <2>1. tags[t] = inv[w][t] /\ tags[t] \in Named(inv[w])
    BY <1>1, <1>2, <1>3 DEF Still, Named
  <2>2. tags[t] \in PlanOf(w)
    BY <1>1, <1>3, <2>1, PlanClosedUpwards
  <2>3. tags[t] \in pending[w]
    BY <2>2 DEF PassInv, Deleting
  <2> QED
    BY <1>1, <1>3, <2>3
<1>4. ASSUME NEW t \in Tags, tags[t] = m PROVE inv[w][t] = m
  BY <1>1, <1>2, <1>4, ContentTypes DEF Still
<1> QED
  BY <1>1, <1>3, <1>4

(* A delete keeps the invariants of the pass that sends it.                *)
LEMMA DeleteKeeps ==
    ASSUME NEW w \in Passes, NEW m \in Manifests, TypeOK, PassInv(w), Delete(w, m)
    PROVE  PassInv(w)'
<1>1. /\ UNCHANGED <<phase, left, todo, seen, inv, pol, began, ever>>
      /\ phase[w] = "delete" /\ m \in Batch(w)
      /\ tags' = [t \in Tags |-> IF tags[t] = m THEN None ELSE tags[t]]
      /\ pending[w]' = pending[w] \ {m} /\ batch[w]' = Batch(w) \ {m}
  BY DEF Delete, Remove, envVars, readVars, planVars, TypeOK
<1>2. Known(w)' = Known(w) /\ PlanOf(w)' = PlanOf(w)
  BY <1>1 DEF Known, Named, PlanOf
<1>3. Rechecked(w)' /\ Rereading(w)'
  BY <1>1, <1>2 DEF PassInv, Rechecked, Rereading, Still, First
<1>4. Deleting(w)'
  <2>1. \A d \in PlanOf(w) \ pending[w]' : \A t \in Tags : tags'[t] # d
    <3>1. None \notin PlanOf(w)
      BY ContentTypes DEF PlanOf, Plan, Expendable, Named
    <3> QED
      BY <1>1, <3>1 DEF PassInv, Deleting
  <2>2. \A n \in batch[w]' : \A x \in pending[w]' \ {n} : n \notin Reach[x]
    BY <1>1, BatchIsRoots
  <2>3. batch[w]' \subseteq pending[w]'
    BY <1>1, BatchIsRoots
  <2> QED
    BY <1>1, <1>2, <2>1, <2>2, <2>3 DEF PassInv, Deleting
<1> QED
  BY <1>1, <1>2, <1>3, <1>4 DEF PassInv

(* A pass that reports or dies has no obligations left.                    *)
LEMMA ForgetKeeps ==
    ASSUME NEW w \in Passes, TypeOK, PassInv(w), Forget(w)
    PROVE  PassInv(w)'
<1>1. /\ phase[w]' = "idle" /\ batch[w]' = {} /\ seen[w]' = NoTags /\ inv[w]' = NoTags
  BY DEF Forget, TypeOK
<1>2. Known(w)' = {}
  BY <1>1 DEF Known, Named, NoTags
<1> QED
  BY <1>1, <1>2 DEF PassInv, Rechecked, Rereading, Deleting, Committed, NoTags

-----------------------------------------------------------------------------
(* Every step a pass can take keeps its own part of the invariant ...      *)
LEMMA OwnStep ==
    ASSUME NEW w \in Passes, TypeOK, present \subseteq ever, PassInv(w),
           (\E b \in BOOLEAN : Begin(w, b)) \/ PassStep(w) \/ Fault(w)
    PROVE  PassInv(w)'
<1>1. ASSUME NEW b \in BOOLEAN, Begin(w, b) PROVE PassInv(w)'
  BY <1>1, BeginKeeps
<1>2. CASE PassStep(w)
  <2>1. ASSUME NEW r \in Repos,
               ListTags(w, r) \/ NextRepo(w, r) \/ CompareRepo(w, r) \/ StartDeleting(w, r)
        PROVE  PassInv(w)'
    BY <2>1, ListKeeps, NextRepoKeeps, CompareKeeps, StartDeletingKeeps
  <2>2. ASSUME NEW r \in Repos, InventoryChanged(w, r) PROVE PassInv(w)'
    BY <2>2, Over DEF InventoryChanged, Finish, regVars, readVars, planVars, delVars, TypeOK
  <2>3. ASSUME NEW t \in Tags, ReadTag(w, t) PROVE PassInv(w)'
    BY <2>3, ReadKeeps
  <2>4. CASE Recheck(w)
    BY <2>4, RecheckKeeps
  <2>5. ASSUME NEW m \in Manifests, Delete(w, m) PROVE PassInv(w)'
    BY <2>5, DeleteKeeps
  <2>6. ASSUME NEW m \in Manifests, DeleteNotFound(w, m) PROVE PassInv(w)'
    BY <2>6, Over DEF DeleteNotFound, Finish, regVars, readVars, planVars, delVars, TypeOK
  <2>7. CASE Succeed(w)
    BY <2>7, Over DEF Succeed, Finish, regVars, readVars, planVars, delVars, TypeOK
  <2>8. CASE Report(w)
    BY <2>8, ForgetKeeps DEF Report
  <2> QED
    BY <1>2, <2>1, <2>2, <2>3, <2>4, <2>5, <2>6, <2>7, <2>8 DEF PassStep
<1>3. CASE Fault(w)
  <2>1. ASSUME NEW why \in Failures, ReadFails(w, why) PROVE PassInv(w)'
    BY <2>1, Over DEF ReadFails, Fails, Finish, regVars, readVars, planVars, delVars, TypeOK
  <2>2. ASSUME NEW m \in Manifests, NEW why \in Failures, DeleteRefused(w, m, why)
        PROVE  PassInv(w)'
    BY <2>2, Over DEF DeleteRefused, Fails, Finish, regVars, readVars, planVars, delVars, TypeOK
  <2>3. ASSUME NEW m \in Manifests, DeleteReplyLost(w, m) PROVE PassInv(w)'
    BY <2>3, Over DEF DeleteReplyLost, Remove, Fails, Finish, readVars, planVars, delVars, TypeOK
  <2>4. CASE Crash(w)
    BY <2>4, ForgetKeeps DEF Crash
  <2> QED
    BY <1>3, <2>1, <2>2, <2>3, <2>4 DEF Fault
<1> QED
  BY <1>1, <1>2, <1>3

(* ... and either leaves the registry alone or deletes a planned digest.   *)
LEMMA RegistryStep ==
    ASSUME NEW w \in Passes, TypeOK,
           (\E b \in BOOLEAN : Begin(w, b)) \/ PassStep(w) \/ Fault(w)
    PROVE  \/ UNCHANGED <<present, tags, ever>>
           \/ \E m \in Manifests : phase[w] = "delete" /\ m \in Batch(w) /\ Remove(m)
<1> USE DEF regVars, envVars, readVars, planVars, delVars
<1>1. CASE \E b \in BOOLEAN : Begin(w, b)
  BY <1>1 DEF Begin
<1>2. CASE PassStep(w)
  BY <1>2 DEF PassStep, ListTags, NextRepo, CompareRepo, InventoryChanged, StartDeleting,
              ReadTag, Recheck, Delete, DeleteNotFound, Succeed, Report, Forget
<1>3. CASE Fault(w)
  BY <1>3 DEF Fault, ReadFails, DeleteRefused, DeleteReplyLost, Crash, Forget
<1> QED
  BY <1>1, <1>2, <1>3

(* A step of one pass does not touch the variables of another.             *)
LEMMA OthersFramed ==
    ASSUME NEW w \in Passes, NEW v \in Passes \ {w}, TypeOK,
           (\E b \in BOOLEAN : Begin(w, b)) \/ PassStep(w) \/ Fault(w)
    PROVE  Untouched(v)
<1> USE DEF TypeOK, Untouched, envVars, readVars, planVars, delVars
<1>1. ASSUME NEW b \in BOOLEAN, Begin(w, b)
      PROVE  Untouched(v)
  BY <1>1 DEF Begin
<1>2. CASE PassStep(w)
  <2>1. ASSUME NEW r \in Repos,
               ListTags(w, r) \/ InventoryChanged(w, r) \/ StartDeleting(w, r)
        PROVE  Untouched(v)
    BY <2>1 DEF ListTags, InventoryChanged, StartDeleting, Finish
  <2>2. ASSUME NEW r \in Repos, NextRepo(w, r) \/ CompareRepo(w, r)
        PROVE  Untouched(v)
    BY <2>2 DEF NextRepo, CompareRepo, RepoDone
  <2>3. ASSUME NEW t \in Tags, ReadTag(w, t)
        PROVE  Untouched(v)
    BY <2>3 DEF ReadTag, Finish
  <2>4. CASE Recheck(w)
    BY <2>4 DEF Recheck
  <2>5. ASSUME NEW m \in Manifests, Delete(w, m) \/ DeleteNotFound(w, m)
        PROVE  Untouched(v)
    BY <2>5 DEF Delete, DeleteNotFound, Finish
  <2>6. CASE Succeed(w)
    BY <2>6 DEF Succeed, Finish
  <2>7. CASE Report(w)
    BY <2>7 DEF Report, Forget
  <2> QED
    BY <1>2, <2>1, <2>2, <2>3, <2>4, <2>5, <2>6, <2>7 DEF PassStep
<1>3. CASE Fault(w)
  BY <1>3 DEF Fault, ReadFails, DeleteRefused, DeleteReplyLost, Crash, Forget, Fails, Finish
<1> QED
  BY <1>1, <1>2, <1>3

(* Every step preserves the parts of all passes.                           *)
LEMMA PassesStep ==
    ASSUME IInv, [Next]_vars, NEW v \in Passes
    PROVE  PassInv(v)'
<1>1. TypeOK /\ PassInv(v) /\ present \subseteq ever
  BY DEF IInv
<1>2. CASE UNCHANGED vars
  BY <1>1, <1>2, Framed DEF vars, regVars, readVars, planVars, delVars, Untouched
<1>3. ASSUME NEW w \in Passes,
             (\E b \in BOOLEAN : Begin(w, b)) \/ PassStep(w) \/ Fault(w)
      PROVE  PassInv(v)'
  <2>1. CASE v = w
    BY <1>1, <1>3, <2>1, OwnStep
  <2>2. CASE v # w
    <3>1. Untouched(v)
      BY <1>1, <1>3, <2>2, OthersFramed
    <3>2. CASE UNCHANGED <<present, tags, ever>>
      BY <1>1, <3>1, <3>2, Framed
    <3>3. ASSUME NEW m \in Manifests, Remove(m) PROVE PassInv(v)'
      BY <1>1, <3>1, <3>3, RemoveDisturbsNoOne
    <3> QED
      BY <1>1, <1>3, <3>2, <3>3, RegistryStep
  <2> QED
    BY <2>1, <2>2
<1>4. CASE Environment
  <2>1. CASE Tick \/ \E p \in Policies : ChangePolicy(p)
    BY <1>1, <2>1, Framed DEF Tick, ChangePolicy, Writing, regVars, readVars, planVars,
                              delVars, Untouched
  <2>2. ASSUME NEW t \in Tags, NEW m \in Manifests,
               BuilderPush(t, m) \/ ExternalWrite(t, m)
        PROVE  PassInv(v)'
    BY <1>1, <2>2, NameDisturbsNoOne
  <2> QED
    BY <1>4, <2>1, <2>2 DEF Environment
<1> QED
  BY <1>2, <1>3, <1>4 DEF Next

(* Every step changes the registry as SafeRegistry allows, or not at all.  *)
LEMMA RegistrySafeStep ==
    ASSUME IInv, [Next]_vars
    PROVE  \/ UNCHANGED <<present, tags>> /\ ever' = ever
           \/ \E t \in Tags, m \in Manifests :
                 Safe!Put(t, m) /\ ever' = ever \cup Reach[m]
           \/ \E m \in Manifests : Safe!Drop(m) /\ ever' = ever
<1>1. Safe!Reach = Reach
  BY DEF Safe!Reach, Reach
<1>2. CASE UNCHANGED vars
  BY <1>2 DEF vars, regVars
<1>3. ASSUME NEW w \in Passes,
             (\E b \in BOOLEAN : Begin(w, b)) \/ PassStep(w) \/ Fault(w),
             ~UNCHANGED <<present, tags, ever>>
      PROVE  \E m \in Manifests : Safe!Drop(m) /\ ever' = ever
  <2>1. PICK m \in Manifests : phase[w] = "delete" /\ m \in Batch(w) /\ Remove(m)
    BY <1>3, RegistryStep DEF IInv
  <2>2. \A t \in Tags : tags[t] \notin {None, m} => m \notin Reach[tags[t]]
    BY <2>1, DeleteIsSafe DEF IInv
  <2> QED
    BY <1>1, <2>1, <2>2 DEF Remove, Safe!Drop
<1>4. CASE Environment
  BY <1>1, <1>4 DEF Environment, Tick, ChangePolicy, BuilderPush, ExternalWrite, Name,
                    regVars, Safe!Put
<1> QED
  BY <1>2, <1>3, <1>4 DEF Next

(* Every step keeps the registry whole and its history complete.           *)
LEMMA RegistryInvStep ==
    ASSUME IInv, [Next]_vars
    PROVE  Intact' /\ (present \subseteq ever)'
<1> USE DEF IInv, TypeOK
<1>1. Safe!Reach = Reach
  BY DEF Safe!Reach, Reach
<1>2. CASE UNCHANGED <<present, tags>> /\ ever' = ever
  BY <1>2 DEF Intact
<1>3. ASSUME NEW t \in Tags, NEW m \in Manifests,
             Safe!Put(t, m), ever' = ever \cup Reach[m]
      PROVE  Intact' /\ (present \subseteq ever)'
  BY <1>1, <1>3 DEF Safe!Put, Intact
<1>4. ASSUME NEW m \in Manifests, Safe!Drop(m), ever' = ever
      PROVE  Intact' /\ (present \subseteq ever)'
  BY <1>1, <1>4 DEF Safe!Drop, Intact
<1> QED
  BY <1>2, <1>3, <1>4, RegistrySafeStep

(* The strengthened invariant is inductive.                                *)
LEMMA IInvStep == IInv /\ [Next]_vars => IInv'
  BY TypeStep, PassesStep, RegistryInvStep DEF IInv

(* Hence it holds in every state of every behavior.                        *)
LEMMA Invariance == Spec => []IInv
  BY InitIInv, IInvStep, PTL DEF Spec

-----------------------------------------------------------------------------
(* Every variable of the model keeps its type, for any parameters.         *)
THEOREM TypeCorrect == Spec => []TypeOK
<1>1. IInv => TypeOK
  BY DEF IInv
<1> QED
  BY <1>1, Invariance, PTL

(* No retention pass ever leaves a tag that cannot be pulled whole,        *)
(* whatever passes run beside it and wherever it fails or dies.            *)
THEOREM AlwaysIntact == Spec => []Intact
<1>1. IInv => Intact
  BY DEF IInv
<1> QED
  BY <1>1, Invariance, PTL

(* While a pass deletes, the registry is as its plan assumes.              *)
THEOREM PlanStaysTrue == Spec => []PlanStillTrue
<1>1. IInv => PlanStillTrue
  BY DEF IInv, PassInv, Rechecked, Deleting, Still, Known, PlanStillTrue, Committed
<1> QED
  BY <1>1, Invariance, PTL

(* The only tags that ever disappear are those a pass was entitled to.     *)
THEOREM OnlyGarbage == Spec => OnlyGarbageVanishes
<1> DEFINE A == \A t \in Tags : tags[t] # None /\ tags'[t] = None =>
                   \E w \in Passes : /\ phase[w] = "delete"
                                     /\ Unneeded(pol[w], t)
                                     /\ tags[t] \in Dated
                                     /\ Created[tags[t]] + MinAge <= began[w]
<1>1. IInv /\ [Next]_vars => [A]_vars
  <2> SUFFICES ASSUME IInv, Next, NEW t \in Tags, tags[t] # None, tags'[t] = None
               PROVE  \E w \in Passes : /\ phase[w] = "delete"
                                        /\ Unneeded(pol[w], t)
                                        /\ tags[t] \in Dated
                                        /\ Created[tags[t]] + MinAge <= began[w]
    OBVIOUS
  <2>1. PICK w \in Passes, m \in Manifests :
           phase[w] = "delete" /\ m \in Batch(w) /\ Remove(m)
    <3>1. CASE Environment
      <4>1. ASSUME NEW u \in Tags, NEW m \in Manifests, Name(u, m) PROVE FALSE
        BY <4>1, ContentTypes DEF Name, IInv, TypeOK
      <4> QED
        BY <3>1, <4>1 DEF Environment, Tick, ChangePolicy, BuilderPush, ExternalWrite, regVars
    <3>2. ASSUME NEW w \in Passes,
                 (\E b \in BOOLEAN : Begin(w, b)) \/ PassStep(w) \/ Fault(w)
          PROVE  \E m \in Manifests : phase[w] = "delete" /\ m \in Batch(w) /\ Remove(m)
      BY <3>2, RegistryStep DEF IInv
    <3> QED
      BY <3>1, <3>2 DEF Next
  <2>2. tags[t] = m
    BY <2>1 DEF Remove
  <2>3. m \in PlanOf(w) /\ inv[w][t] = m
    BY <2>1, <2>2, DeleteIsSafe DEF IInv
  <2>4. t \in Eligible(inv[w], pol[w], began[w])
    BY <2>3, PlanClosedUpwards DEF IInv, TypeOK, TagsNaming
  <2>5. Unneeded(pol[w], t) /\ OldEnough(m, began[w])
    BY <2>3, <2>4 DEF Eligible, Unneeded, Retained
  <2>6. Created[m] + MinAge <= began[w]
    BY <2>5, RetentionTypes DEF OldEnough, IInv, TypeOK
  <2> QED
    BY <2>1, <2>2, <2>5, <2>6 DEF OldEnough
<1> QED
  BY <1>1, Invariance, PTL DEF Spec, OnlyGarbageVanishes

(* Retention implements the abstract registry: its steps upload content    *)
(* or drop a manifest that no surviving tag reaches.                       *)
THEOREM ImplementsSafeRegistry == Spec => SafeSpec
<1>1. Safe!Reach = Reach
  BY DEF Safe!Reach, Reach
<1>2. Init => Safe!Init
  BY <1>1, InitIInv DEF IInv, TypeOK, Intact, Safe!Init, Safe!TypeOK, Safe!Intact
<1>3. IInv /\ [Next]_vars => [Safe!Next]_(Safe!vars)
  BY RegistrySafeStep DEF Safe!Next, Safe!vars
<1> QED
  BY <1>2, <1>3, Invariance, PTL DEF Spec, SafeSpec, Safe!Spec
=============================================================================
