----------------------------- MODULE PassProofs -----------------------------
(***************************************************************************)
(* What retention passes leave behind and how they get to their end, for   *)
(* any number of passes, repositories, tags and manifests.                 *)
(***************************************************************************)
EXTENDS RetentionProofs, FiniteSetTheorems

-----------------------------------------------------------------------------
(* Finite sets.  Induction is by the least element of a well-founded order.*)

(* Some member has no member above it, in any order (Above is where each   *)
(* is surpassed).                                                          *)
LEMMA SomeIsUnsurpassed ==
    ASSUME NEW S, IsFiniteSet(S), S # {}, NEW Above \in [S -> SUBSET S],
           \A x \in S : x \notin Above[x],
           \A x \in S : \A y \in Above[x] : Above[y] \subseteq Above[x]
    PROVE  \E x \in S : Above[x] = {}
<1> DEFINE T == {Above[x] : x \in S}
           R == StrictSubsetOrdering(S)
<1>1. T \subseteq FiniteSubsetsOf(S)
  BY FS_FiniteSubsetsOfFinite
<1>2. IsWellFoundedOn(R, FiniteSubsetsOf(S))
  BY FS_StrictSubsetOrderingWellFounded
<1>3. T # {}
  OBVIOUS
<1> HIDE DEF R, T
<1>4. PICK C \in T : \A D \in T : <<D, C>> \notin R
  BY <1>1, <1>2, <1>3, WFMin
<1>5. PICK x \in S : C = Above[x]
  BY <1>4 DEF T
<1>6. ASSUME NEW y \in Above[x]
      PROVE  FALSE
  <2>1. y \in S /\ Above[y] \in T /\ Above[y] \subseteq Above[x] /\ y \notin Above[y]
    BY <1>5, <1>6 DEF T
  <2>2. Above[y] \in SUBSET S /\ Above[x] \in SUBSET S /\ Above[y] # Above[x]
    BY <1>5, <1>6, <2>1
  <2>3. <<Above[y], Above[x]>> \in R
    BY <2>1, <2>2 DEF R, StrictSubsetOrdering
  <2> QED
    BY <1>4, <1>5, <2>1, <2>3
<1> QED
  BY <1>5, <1>6

LEMMA Greatest ==
    ASSUME NEW S, IsFiniteSet(S), S # {}, S \subseteq Int
    PROVE  \E x \in S : \A y \in S : y <= x
<1> DEFINE Above == [x \in S |-> {y \in S : y > x}]
<1>1. Above \in [S -> SUBSET S] /\ \A x \in S : Above[x] = {y \in S : y > x}
  OBVIOUS
<1>2. /\ \A x \in S : x \notin Above[x]
      /\ \A x \in S : \A y \in Above[x] : Above[y] \subseteq Above[x]
  <2>1. \A x, y, z \in S : y > x /\ z > y => z > x
    OBVIOUS
  <2>2. \A x \in S : ~(x > x)
    OBVIOUS
  <2> HIDE DEF Above
  <2> QED
    BY <1>1, <2>1, <2>2
<1> HIDE DEF Above
<1>3. PICK x \in S : Above[x] = {}
  BY <1>1, <1>2, SomeIsUnsurpassed
<1>4. \A y \in S : ~(y > x)
  BY <1>1, <1>3
<1> QED
  BY <1>4

LEMMA Smallest ==
    ASSUME NEW S, IsFiniteSet(S), S # {}, S \subseteq Int
    PROVE  \E x \in S : \A y \in S : x <= y
<1> DEFINE Above == [x \in S |-> {y \in S : y < x}]
<1>1. Above \in [S -> SUBSET S] /\ \A x \in S : Above[x] = {y \in S : y < x}
  OBVIOUS
<1>2. /\ \A x \in S : x \notin Above[x]
      /\ \A x \in S : \A y \in Above[x] : Above[y] \subseteq Above[x]
  <2>1. \A x, y, z \in S : y < x /\ z < y => z < x
    OBVIOUS
  <2>2. \A x \in S : ~(x < x)
    OBVIOUS
  <2> HIDE DEF Above
  <2> QED
    BY <1>1, <2>1, <2>2
<1> HIDE DEF Above
<1>3. PICK x \in S : Above[x] = {}
  BY <1>1, <1>2, SomeIsUnsurpassed
<1>4. \A y \in S : ~(y < x)
  BY <1>1, <1>3
<1> QED
  BY <1>4

(* What finitely many tags name is finite.                                 *)
LEMMA HistoryFinite ==
    ASSUME NEW i
    PROVE  IsFiniteSet(History(i)) /\ History(i) \subseteq Int
<1> USE RetentionTypes
<1> DEFINE D == {u \in Recognized : i[u] # None}
           f == [t \in D |-> FlatcarOf[t]]
<1>1. IsFiniteSet(D)
  BY FS_Subset
<1>2. f \in Surjection(D, History(i))
  BY DEF Surjection, History
<1>3. History(i) \subseteq Int
  BY DEF History
<1> QED
  BY <1>1, <1>2, <1>3, FS_Surjection

LEMMA MoreIsEnough ==
    ASSUME NEW S, IsFiniteSet(S), NEW T \in SUBSET S, NEW n \in Nat, Cardinality(T) >= n
    PROVE  Cardinality(S) >= n
<1>1. Cardinality(S) \in Nat /\ Cardinality(T) \in Nat /\ Cardinality(T) <= Cardinality(S)
  BY FS_Subset, FS_CardinalityType
<1> QED
  BY <1>1

-----------------------------------------------------------------------------
(* Rollback depth.  The key is an account of each version a pass has seen: *)
(* it still exists, or at least keepPrevious newer ones do.                *)

Below(p, i) == Older(p, History(i))

Deep(p, i, v) ==
    \/ v \in Below(p, i)
    \/ Cardinality({x \in Below(p, i) : x > v}) >= p.keep

Remembered(w) == {t \in Tags : seen[w][t] # None \/ inv[w][t] # None}

DepthInv ==
    \A w \in Passes :
        /\ phase[w] = "idle" => Remembered(w) = {}
        /\ \A v \in Below(pol[w], seen[w]) \cup Below(pol[w], inv[w]) : Deep(pol[w], tags, v)

(* Passes do not overlap, or all of them keep the same rollback depth      *)
(* below the same versions.                                                *)
OneDepth ==
    \/ \A v, w \in Passes : v = w
    \/ \A p, q \in Policies : p.current = q.current /\ p.keep = q.keep

LEMMA BelowFinite ==
    ASSUME NEW p, NEW i
    PROVE  IsFiniteSet(Below(p, i)) /\ Below(p, i) \subseteq Int
  BY HistoryFinite, FS_Subset DEF Below, Older

LEMMA GrowthKeepsDepth ==
    ASSUME NEW p, NEW i, NEW j, NEW v \in Int, p.keep \in Nat, Deep(p, i, v),
           History(i) \subseteq History(j)
    PROVE  Deep(p, j, v)
<1>1. Below(p, i) \subseteq Below(p, j)
  BY DEF Below, Older
<1>2. /\ IsFiniteSet({x \in Below(p, j) : x > v})
      /\ {x \in Below(p, i) : x > v} \subseteq {x \in Below(p, j) : x > v}
  BY <1>1, BelowFinite, FS_Subset
<1> QED
  BY <1>1, <1>2, MoreIsEnough DEF Deep

(* A version that a delete takes out of the history leaves enough above it.*)
LEMMA EnoughAbove ==
    ASSUME NEW w \in Passes, NEW m \in Manifests, TypeOK, PassInv(w), phase[w] = "delete",
           m \in Batch(w), Remove(m), \A v \in Below(pol[w], inv[w]) : Deep(pol[w], tags, v),
           NEW u \in Below(pol[w], tags), u \notin Below(pol[w], tags')
    PROVE  Cardinality({x \in Below(pol[w], tags) : x > u}) >= pol[w].keep
<1> DEFINE p == pol[w]
           above == {x \in Below(p, inv[w]) : x > u}
<1>1. /\ p.keep \in Nat /\ IsFiniteSet(Below(p, tags)) /\ IsFiniteSet(above)
      /\ Below(p, tags) \subseteq Int /\ Below(p, inv[w]) \subseteq Int
  BY BelowFinite, FS_Subset, RetentionTypes DEF TypeOK
<1>2. PICK t \in Recognized : tags[t] # None /\ tags'[t] = None /\ FlatcarOf[t] = u
  BY RetentionTypes DEF Below, Older, History, Remove
<1>3. tags[t] = m /\ t \in Tags
  BY <1>2, RetentionTypes DEF Remove
<1>4. m \in PlanOf(w) /\ inv[w][t] = m
  BY <1>3, DeleteIsSafe
<1>5. t \in Eligible(inv[w], p, began[w])
  BY <1>3, <1>4, PlanClosedUpwards DEF TypeOK, TagsNaming
<1>6. u \notin Retained(p, History(inv[w])) /\ u \in Below(p, inv[w])
  BY <1>2, <1>5 DEF Eligible, Below, Older, History
<1>7. Cardinality(above) >= p.keep
  <2>1. ~(Cardinality(above) < p.keep)
    BY <1>6 DEF Retained, Below
  <2>2. Cardinality(above) \in Nat
    BY <1>1, FS_CardinalityType
  <2> QED
    BY <1>1, <2>1, <2>2
<1> HIDE DEF p
<1>8. IsFiniteSet({x \in Below(p, tags) : x > u})
  BY <1>1, FS_Subset
<1> HIDE DEF above
<1>9. CASE above \subseteq Below(p, tags)
  <2>1. above \subseteq {x \in Below(p, tags) : x > u}
    BY <1>9 DEF above
  <2> QED
    BY <1>1, <1>7, <1>8, <2>1, MoreIsEnough DEF p
<1>10. ASSUME NEW x \in above, x \notin Below(p, tags)
       PROVE  Cardinality({y \in Below(p, tags) : y > u}) >= p.keep
  <2>1. Cardinality({y \in Below(p, tags) : y > x}) >= p.keep
    BY <1>10 DEF Deep, p, above
  <2>2. x \in Int /\ u \in Int /\ x > u
    BY <1>1, <1>10 DEF above, p
  <2>3. {y \in Below(p, tags) : y > x} \subseteq {y \in Below(p, tags) : y > u}
    BY <1>1, <2>2
  <2> QED
    BY <1>1, <1>8, <2>1, <2>3, MoreIsEnough
<1> QED
  BY <1>9, <1>10 DEF p

(* So a delete keeps the account of every version.                         *)
LEMMA DeleteKeepsDepth ==
    ASSUME NEW w \in Passes, NEW m \in Manifests, TypeOK, PassInv(w), phase[w] = "delete",
           m \in Batch(w), Remove(m), \A v \in Below(pol[w], inv[w]) : Deep(pol[w], tags, v),
           NEW v \in Int, Deep(pol[w], tags, v)
    PROVE  Deep(pol[w], tags', v)
<1> DEFINE p == pol[w]
           had == Below(p, tags)
           next == Below(p, tags')
           gone == {u \in had \ next : u >= v}
<1>1. /\ p.keep \in Nat /\ IsFiniteSet(had) /\ IsFiniteSet(next) /\ IsFiniteSet(gone)
      /\ had \subseteq Int /\ next \subseteq Int
      /\ \A u \in Int : IsFiniteSet({x \in next : x > u})
  BY BelowFinite, FS_Subset, RetentionTypes DEF TypeOK
<1>2. \A u \in gone : Cardinality({x \in had : x > u}) >= p.keep
  BY EnoughAbove
<1>3. v \in had \/ Cardinality({x \in had : x > v}) >= p.keep
  BY DEF Deep
<1> HIDE DEF p, had, next
<1>4. CASE gone = {}
  <2>1. \A x \in had : x >= v => x \in next
    BY <1>4
  <2>2. (\A x \in had : x > v => x \in next) /\ (v \in had => v \in next)
    <3>1. v >= v /\ \A x \in Int : x > v => x >= v
      OBVIOUS
    <3> QED
      BY <1>1, <2>1, <3>1
  <2>3. {x \in had : x > v} \subseteq {x \in next : x > v}
    BY <2>2
  <2> QED
    BY <1>1, <1>3, <2>2, <2>3, MoreIsEnough DEF p, next, Deep
<1>5. CASE gone # {}
  <2>1. PICK u \in gone : \A y \in gone : y <= u
    BY <1>1, <1>5, Greatest
  <2>2. \A x \in had : x > u => x > v /\ x \in next
    <3>1. u \in Int /\ u >= v
      BY <1>1, <2>1
    <3>2. \A x \in Int : x > u => x > v /\ x >= v /\ ~(x <= u)
      BY <3>1
    <3> QED
      BY <1>1, <2>1, <3>2
  <2>3. {x \in had : x > u} \subseteq {x \in next : x > v}
    BY <2>2
  <2> QED
    BY <1>1, <1>2, <2>1, <2>3, MoreIsEnough DEF p, next, Deep
<1> QED
  BY <1>4, <1>5

(* What a pass remembers it has read, and it keeps the policy it read by.  *)
LEMMA RemembersWhatItRead ==
    ASSUME TypeOK, [Next]_vars, NEW w \in Passes, phase[w] = "idle" => Remembered(w) = {}
    PROVE  /\ phase'[w] = "idle" => Remembered(w)' = {}
           /\ \/ Remembered(w)' = {}
              \/ /\ pol'[w] = pol[w]
                 /\ Remembered(w)' \subseteq Remembered(w) \cup {t \in Tags : tags[t] # None}
<1> USE DEF Remembered, TypeOK, NoTags, vars, regVars, envVars, readVars, planVars, delVars
<1> DEFINE Result ==
              /\ phase'[w] = "idle" => Remembered(w)' = {}
              /\ \/ Remembered(w)' = {}
                 \/ /\ pol'[w] = pol[w]
                    /\ Remembered(w)' \subseteq Remembered(w) \cup {t \in Tags : tags[t] # None}
           Keeps == /\ phase'[w] = phase[w] \/ phase'[w] # "idle"
                    /\ UNCHANGED <<seen, inv, pol>>
<1> SUFFICES Result
  OBVIOUS
<1>1. Keeps => Result
  OBVIOUS
<1>2. ASSUME NEW v \in Passes, NEW nodesListed \in BOOLEAN, Begin(v, nodesListed)
      PROVE  Result
  BY <1>2 DEF Begin
<1>3. ASSUME NEW v \in Passes, Report(v) \/ Crash(v)
      PROVE  Result
  <2>1. Forget(v)
    BY <1>3 DEF Report, Crash
  <2>2. CASE v = w
    BY <2>1, <2>2 DEF Forget
  <2>3. CASE v # w
    <3>1. UNCHANGED <<phase[w], seen[w], inv[w], pol[w]>>
      BY <2>1, <2>3 DEF Forget
    <3> QED
      BY <3>1
  <2> QED
    BY <2>2, <2>3
<1>4. CASE \E v \in Passes : /\ PassStep(v) /\ ~Report(v) /\ ~Recheck(v)
                             /\ \A t \in Tags : ~ReadTag(v, t)
  <2>1. Keeps
    BY <1>4 DEF PassStep, ListTags, NextRepo, CompareRepo, InventoryChanged, StartDeleting,
                Delete, DeleteNotFound, Succeed, Finish
  <2> QED
    BY <1>1, <2>1
<1>5. ASSUME NEW v \in Passes, Recheck(v)
      PROVE  Result
  BY <1>5 DEF Recheck
<1>6. ASSUME NEW v \in Passes, NEW t \in Tags, ReadTag(v, t)
      PROVE  Result
  <2>1. CASE tags[t] # None /\ Reach[tags[t]] \subseteq present
    <3>1. /\ UNCHANGED <<phase, pol, inv>> /\ phase[v] # "idle"
          /\ seen' = [seen EXCEPT ![v][t] = tags[t]]
      BY <1>6, <2>1 DEF ReadTag
    <3>2. \A u \in Tags : seen'[w][u] = seen[w][u] \/ (w = v /\ u = t)
      BY <3>1
    <3> QED
      BY <2>1, <3>1, <3>2
  <2>2. CASE ~(tags[t] # None /\ Reach[tags[t]] \subseteq present)
    BY <1>1, <1>6, <2>2 DEF ReadTag, Finish
  <2> QED
    BY <2>1, <2>2
<1>7. CASE \E v \in Passes : Fault(v) /\ ~Crash(v)
  <2>1. Keeps
    BY <1>7 DEF Fault, ReadFails, DeleteRefused, DeleteReplyLost, Fails, Finish
  <2> QED
    BY <1>1, <2>1
<1>8. CASE Environment \/ UNCHANGED vars
  <2>1. Keeps
    BY <1>8 DEF Environment, Tick, ChangePolicy, BuilderPush, ExternalWrite, Name, Writing
  <2> QED
    BY <1>1, <2>1
<1> HIDE DEF Result, Remembered, TypeOK, NoTags, vars, regVars, envVars, readVars, planVars,
             delVars
<1>9. ASSUME NEW v \in Passes, PassStep(v) \/ Fault(v)
      PROVE  Result
  BY <1>3, <1>4, <1>5, <1>6, <1>7, <1>9
<1> QED
  BY <1>2, <1>8, <1>9 DEF Next

LEMMA DepthStep ==
    ASSUME OneDepth, IInv, DepthInv, [Next]_vars
    PROVE  DepthInv'
<1>1. /\ TypeOK
      /\ \A x \in Passes : PassInv(x)
      /\ \A x \in Passes : \A v \in Below(pol[x], inv[x]) : Deep(pol[x], tags, v)
  BY DEF IInv, DepthInv
<1>2. ASSUME NEW w \in Passes,
             NEW v \in Below(pol'[w], seen'[w]) \cup Below(pol'[w], inv'[w])
      PROVE  pol'[w] = pol[w] /\ Deep(pol[w], tags, v) /\ v \in Int
  <2>1. PICK t \in Tags : t \in Remembered(w)' /\ t \in Recognized /\ FlatcarOf[t] = v
    BY <1>2, RetentionTypes DEF Below, Older, History, Remembered
  <2>2. pol'[w] = pol[w] /\ (t \in Remembered(w) \/ tags[t] # None)
    BY <1>1, <2>1, RemembersWhatItRead DEF DepthInv
  <2>3. (\E c \in pol[w].current : v < c) /\ v \in Int
    BY <1>2, <2>2, BelowFinite DEF Below, Older
  <2>4. v \in Below(pol[w], seen[w]) \cup Below(pol[w], inv[w]) \cup Below(pol[w], tags)
    BY <2>1, <2>2, <2>3 DEF Below, Older, History, Remembered
  <2> QED
    BY <2>2, <2>3, <2>4 DEF Deep, DepthInv
<1>3. ASSUME NEW w \in Passes, NEW v \in Int, Deep(pol[w], tags, v)
      PROVE  Deep(pol[w], tags', v)
  <2>1. pol[w].keep \in Nat
    BY <1>1, RetentionTypes DEF TypeOK
  <2>2. CASE \A t \in Tags : tags[t] # None => tags'[t] # None
    <3>1. History(tags) \subseteq History(tags')
      BY <2>2, RetentionTypes DEF History
    <3> QED
      BY <1>3, <2>1, <3>1, GrowthKeepsDepth
  <2>3. ASSUME NEW x \in Passes, NEW m \in Manifests,
               phase[x] = "delete", m \in Batch(x), Remove(m)
        PROVE  Deep(pol[w], tags', v)
    <3>1. pol[x].current = pol[w].current /\ pol[x].keep = pol[w].keep
      BY <1>1 DEF OneDepth, TypeOK
    <3>2. Below(pol[x], tags) = Below(pol[w], tags) /\ Below(pol[x], tags') = Below(pol[w], tags')
      BY <3>1 DEF Below, Older
    <3>3. Deep(pol[x], tags, v)
      BY <1>3, <3>1, <3>2 DEF Deep
    <3>4. Deep(pol[x], tags', v)
      BY <1>1, <1>3, <2>3, <3>3, DeleteKeepsDepth
    <3> QED
      BY <3>1, <3>2, <3>4 DEF Deep
  <2>4. CASE Environment \/ UNCHANGED vars
    <3>1. \A t \in Tags : tags[t] # None => tags'[t] # None
      BY <1>1, <2>4, ContentTypes
         DEF Environment, Tick, ChangePolicy, BuilderPush, ExternalWrite, Name, regVars, vars,
             TypeOK
    <3> QED
      BY <2>2, <3>1
  <2>5. CASE \E x \in Passes : (\E b \in BOOLEAN : Begin(x, b)) \/ PassStep(x) \/ Fault(x)
    <3>1. PICK x \in Passes : (\E b \in BOOLEAN : Begin(x, b)) \/ PassStep(x) \/ Fault(x)
      BY <2>5
    <3>2. CASE UNCHANGED <<present, tags, ever>>
      BY <2>2, <3>2
    <3>3. ASSUME NEW m \in Manifests, phase[x] = "delete" /\ m \in Batch(x) /\ Remove(m)
          PROVE  Deep(pol[w], tags', v)
      BY <2>3, <3>3
    <3> QED
      BY <1>1, <3>1, <3>2, <3>3, RegistryStep
  <2> QED
    BY <2>4, <2>5 DEF Next
<1>4. ASSUME NEW w \in Passes
      PROVE  phase'[w] = "idle" => Remembered(w)' = {}
  BY <1>1, RemembersWhatItRead DEF DepthInv
<1> QED
  BY <1>2, <1>3, <1>4 DEF DepthInv

(* Rollback stays possible: as long as the passes that overlap agree on    *)
(* how many versions to keep below which, or none overlap, each leaves     *)
(* that many of them or all it found, for any history, whatever fails and  *)
(* whatever is pushed meanwhile (gc.py:121-133, architecture.md:161).      *)
THEOREM RollbackStaysPossible == OneDepth => (Spec => []RollbackDepth)
<1> SUFFICES ASSUME OneDepth
             PROVE  Spec => []RollbackDepth
  OBVIOUS
<1>1. Init => DepthInv
  <2> SUFFICES ASSUME Init, NEW w \in Passes
               PROVE  Remembered(w) = {} /\ History(seen[w]) = {} /\ History(inv[w]) = {}
    BY DEF DepthInv, Below, Older
  <2>1. seen[w] = NoTags /\ inv[w] = NoTags
    BY DEF Init
  <2> QED
    BY <2>1, RetentionTypes DEF Remembered, NoTags, History
<1>2. IInv /\ DepthInv /\ [Next]_vars => DepthInv'
  BY DepthStep
<1>3. TypeOK /\ DepthInv => RollbackDepth
  <2> SUFFICES ASSUME TypeOK, DepthInv, NEW w \in Passes, NEW v \in Below(pol[w], inv[w]),
                      v \notin Below(pol[w], tags)
               PROVE  Cardinality(Below(pol[w], tags)) >= pol[w].keep
    BY DEF RollbackDepth, Below, Older
  <2>1. Cardinality({x \in Below(pol[w], tags) : x > v}) >= pol[w].keep
    BY DEF DepthInv, Deep
  <2>2. IsFiniteSet(Below(pol[w], tags)) /\ pol[w].keep \in Nat
    BY BelowFinite, RetentionTypes DEF TypeOK
  <2> QED
    BY <2>1, <2>2, MoreIsEnough
<1>4. IInv => TypeOK
  BY DEF IInv
<1> QED
  BY <1>1, <1>2, <1>3, <1>4, Invariance, PTL DEF Spec

-----------------------------------------------------------------------------
(* No pass is ever stuck.  References are acyclic and stay inside a        *)
(* repository, so some pending digest of the first repository is referred  *)
(* to by no other.                                                         *)
LEMMA RootsExist ==
    ASSUME NEW S \in SUBSET Manifests, IsFiniteSet(S), S # {}
    PROVE  Roots(S) # {}
<1> DEFINE H == {Home[m] : m \in S}
           home == [m \in S |-> Home[m]]
<1>1. H # {} /\ H \subseteq Int /\ \A m \in S : Home[m] \in Int
  <2>1. \A m \in S : Home[m] \in Repos /\ Home[m] \in Int
    BY ContentTypes
  <2> QED
    BY <2>1
<1>2. home \in Surjection(S, H)
  BY DEF Surjection
<1>3. PICK h \in H : \A g \in H : h <= g
  BY <1>1, <1>2, FS_Surjection, Smallest
<1> DEFINE F == {m \in S : Home[m] = h}
           Above == [x \in F |-> {y \in F : y # x /\ x \in Reach[y]}]
<1>4. F # {} /\ IsFiniteSet(F) /\ F \subseteq Manifests
  BY FS_Subset
<1>5. Above \in [F -> SUBSET F] /\ \A x \in F : x \notin Above[x]
  OBVIOUS
<1>6. ASSUME NEW x \in F, NEW y \in Above[x], NEW z \in Above[y]
      PROVE  z \in Above[x]
  <2>1. /\ y \in F /\ y # x /\ x \in Reach[y] /\ z \in F /\ y \in Reach[z]
    BY <1>6
  <2>2. x \in Reach[z]
    BY <1>4, <2>1, ReachClosed
  <2>3. z # x
    BY <1>4, <2>1, ReachAcyclic
  <2> QED
    BY <2>1, <2>2, <2>3
<1> HIDE DEF Above
<1>7. PICK m \in F : Above[m] = {}
  BY <1>4, <1>5, <1>6, SomeIsUnsurpassed
<1>8. ASSUME NEW x \in S \ {m}, m \in Reach[x]
      PROVE  FALSE
  <2>1. x \in F
    BY <1>8, ReachLocal
  <2> QED
    BY <1>7, <1>8, <2>1 DEF Above
<1>9. \A x \in S : Home[m] <= Home[x]
  BY <1>3
<1> QED
  BY <1>8, <1>9 DEF Roots

(* What finitely many tags name is finite.                                 *)
LEMMA NamedFinite ==
    ASSUME NEW i
    PROVE  IsFiniteSet(Named(i))
<1> DEFINE f == [t \in Tags |-> i[t]]
           T == {i[t] : t \in Tags}
<1>1. f \in Surjection(Tags, T)
  BY DEF Surjection
<1>2. IsFiniteSet(T)
  BY <1>1, RetentionTypes, FS_Surjection
<1> QED
  BY <1>2, FS_Subset DEF Named

LEMMA BatchExists ==
    ASSUME NEW w \in Passes, TypeOK, PassInv(w), phase[w] = "delete", pending[w] # {}
    PROVE  Batch(w) # {}
<1>1. pending[w] \subseteq Named(inv[w]) /\ pending[w] \in SUBSET Manifests
  BY PlanClosedUpwards DEF PassInv, Deleting, TypeOK
<1>2. IsFiniteSet(pending[w])
  BY <1>1, NamedFinite, FS_Subset
<1> QED
  BY <1>1, <1>2, RootsExist DEF Batch

-----------------------------------------------------------------------------
(* How far a step takes the pass that makes it.                            *)
Forward(w) ==
    \/ UNCHANGED <<phase[w], left[w], todo[w], pending[w]>>
    \/ StageOf(phase'[w]) < StageOf(phase[w])
    \/ /\ StageOf(phase'[w]) = StageOf(phase[w])
       /\ \/ Shrinks(left'[w], left[w])
          \/ /\ left'[w] = left[w]
             /\ \/ phase[w] \in {"list", "relist"} /\ phase'[w] \in {"read", "reread"}
                \/ phase'[w] = phase[w] /\ Shrinks(todo'[w], todo[w])
                \/ phase'[w] = phase[w] /\ Shrinks(pending'[w], pending[w])

Has(w) == phase[w] \in Inspecting => left[w] # {}

LEMMA OwnForward ==
    ASSUME NEW w \in Passes, TypeOK, PassInv(w), Has(w),
           (\E b \in BOOLEAN : Begin(w, b)) \/ PassStep(w) \/ Fault(w)
    PROVE  Has(w)' /\ (phase[w] # "idle" => Forward(w))
<1> USE DEF TypeOK, StageOf
<1> DEFINE Result == Has(w)' /\ (phase[w] # "idle" => Forward(w))
<1> SUFFICES Result
  OBVIOUS
<1>1. ASSUME NEW b \in BOOLEAN, Begin(w, b)
      PROVE  Result
  BY <1>1, RetentionTypes DEF Begin, Has, Inspecting
<1>2. ASSUME phase'[w] = "report", phase[w] \in {"delete"} \cup Inspecting
      PROVE  Result
  BY <1>2 DEF Has, Forward, Inspecting
<1>3. ASSUME phase'[w] = "idle", phase[w] # "idle"
      PROVE  Result
  BY <1>3 DEF Has, Forward, Inspecting
<1>4. ASSUME NEW r \in Repos, ListTags(w, r)
      PROVE  Result
  BY <1>4 DEF ListTags, Has, Forward, Inspecting
<1>5. ASSUME NEW r \in Repos, NextRepo(w, r) \/ CompareRepo(w, r)
      PROVE  Result
  <2>1. /\ \/ phase[w] = "read" /\ phase'[w] = "list"
           \/ phase[w] = "reread" /\ phase'[w] = "relist"
        /\ r \in left[w] /\ left'[w] = left[w] \ {r} /\ left[w] \ {r} # {}
    BY <1>5 DEF NextRepo, CompareRepo, RepoDone
  <2>2. Shrinks(left'[w], left[w])
    BY <2>1 DEF Shrinks
  <2> QED
    BY <2>1, <2>2 DEF Has, Forward
<1>6. ASSUME NEW t \in Tags, ReadTag(w, t)
      PROVE  Result
  <2>1. CASE tags[t] # None /\ Reach[tags[t]] \subseteq present
    <3>1. /\ UNCHANGED <<phase, left>> /\ t \in todo[w] /\ todo'[w] = todo[w] \ {t}
      BY <1>6, <2>1 DEF ReadTag
    <3>2. Shrinks(todo'[w], todo[w])
      BY <3>1 DEF Shrinks
    <3> QED
      BY <3>1, <3>2 DEF Has, Forward
  <2>2. CASE ~(tags[t] # None /\ Reach[tags[t]] \subseteq present)
    BY <1>2, <1>6, <2>2 DEF ReadTag, Finish, Inspecting
  <2> QED
    BY <2>1, <2>2
<1>7. CASE Recheck(w)
  BY <1>7, RetentionTypes DEF Recheck, Has, Forward
<1>8. ASSUME NEW r \in Repos, StartDeleting(w, r)
      PROVE  Result
  BY <1>8 DEF StartDeleting, Has, Forward, Inspecting
<1>9. ASSUME NEW m \in Manifests, Delete(w, m)
      PROVE  Result
  <2>1. /\ UNCHANGED <<phase, left>> /\ phase[w] = "delete"
        /\ pending'[w] = pending[w] \ {m} /\ m \in pending[w]
    BY <1>9, BatchIsRoots DEF Delete, readVars
  <2>2. Shrinks(pending'[w], pending[w])
    BY <2>1 DEF Shrinks
  <2> QED
    BY <2>1, <2>2 DEF Has, Forward
<1>10. CASE PassStep(w)
  <2>1. ASSUME NEW r \in Repos, InventoryChanged(w, r)
        PROVE  Result
    BY <1>2, <2>1 DEF InventoryChanged, Finish, Inspecting
  <2>2. ASSUME NEW m \in Manifests, DeleteNotFound(w, m)
        PROVE  Result
    BY <1>2, <2>2 DEF DeleteNotFound, Finish
  <2>3. CASE Succeed(w)
    BY <1>2, <2>3 DEF Succeed, Finish
  <2>4. CASE Report(w)
    BY <1>3, <2>4 DEF Report, Forget
  <2> HIDE DEF Result
  <2> QED
    BY <1>4, <1>5, <1>6, <1>7, <1>8, <1>9, <1>10, <2>1, <2>2, <2>3, <2>4 DEF PassStep
<1>11. CASE Fault(w)
  <2>1. CASE Crash(w)
    BY <1>3, <2>1 DEF Crash, Forget
  <2>2. CASE ~Crash(w)
    <3>1. phase'[w] = "report" /\ phase[w] \in {"delete"} \cup Inspecting
      BY <1>11, <2>2 DEF Fault, ReadFails, DeleteRefused, DeleteReplyLost, Fails, Finish
    <3> QED
      BY <1>2, <3>1
  <2> QED
    BY <2>1, <2>2
<1> HIDE DEF Result
<1> QED
  BY <1>1, <1>10, <1>11

LEMMA AllForward ==
    ASSUME IInv, \A w \in Passes : Has(w), [Next]_vars, NEW w \in Passes
    PROVE  Has(w)' /\ (phase[w] # "idle" => Forward(w))
<1>1. TypeOK /\ PassInv(w)
  BY DEF IInv
<1>2. ASSUME Untouched(w)
      PROVE  Has(w)' /\ Forward(w)
  BY <1>2 DEF Untouched, Has, Forward
<1>3. ASSUME NEW v \in Passes,
             (\E b \in BOOLEAN : Begin(v, b)) \/ PassStep(v) \/ Fault(v)
      PROVE  Has(w)' /\ (phase[w] # "idle" => Forward(w))
  <2>1. CASE v = w
    BY <1>1, <1>3, <2>1, OwnForward
  <2>2. CASE v # w
    BY <1>1, <1>2, <1>3, <2>2, OthersFramed
  <2> QED
    BY <2>1, <2>2
<1>4. CASE Environment \/ UNCHANGED vars
  <2>1. Untouched(w)
    BY <1>4 DEF Environment, Tick, ChangePolicy, BuilderPush, ExternalWrite, Name, Writing,
                vars, readVars, planVars, delVars, Untouched
  <2> QED
    BY <1>2, <2>1
<1> QED
  BY <1>3, <1>4 DEF Next

LEMMA HasInvariance == Spec => [](\A w \in Passes : Has(w))
<1> DEFINE AllHave == \A w \in Passes : Has(w)
<1>1. Init => AllHave
  BY DEF Init, Has, Inspecting
<1>2. IInv /\ AllHave /\ [Next]_vars => AllHave'
  BY AllForward
<1> QED
  BY <1>1, <1>2, Invariance, PTL DEF Spec

(* A pass in flight always finds its next step, for any graph of           *)
(* references and any number of passes: "Cyclic deletion plan" is never    *)
(* raised and the loop over pending digests never waits (gc.py:243-257).   *)
THEOREM NeverStuck == Spec => []NextStepFound
<1>1. IInv /\ (\A w \in Passes : Has(w)) => NextStepFound
  BY BatchExists DEF IInv, Has, NextStepFound
<1> QED
  BY <1>1, HasInvariance, Invariance, PTL

(* And no step of its own, another pass or the environment takes it back.  *)
(* Each step that moves it lowers a rank that cannot fall for ever, which  *)
(* with NeverStuck is why a pass whose steps are not withheld ends.        *)
THEOREM AlwaysForward == Spec => OnlyForward
<1> DEFINE AllHave == \A w \in Passes : Has(w)
           A == \A w \in Passes : phase[w] # "idle" => Forward(w)
<1>1. IInv /\ AllHave /\ [Next]_vars => [A]_vars
  BY AllForward
<1>2. ([][A]_vars) <=> OnlyForward
  BY DEF OnlyForward, Forward
<1>3. Spec => []AllHave
  BY HasInvariance
<1> HIDE DEF AllHave, A
<1>4. Spec => [][A]_vars
  BY <1>1, <1>3, Invariance, PTL DEF Spec
<1> QED
  BY <1>2, <1>4

(* A pass that reports success leaves nothing it could have deleted: what  *)
(* it planned is gone, and what it did not plan is protected by a tag that *)
(* was not eligible (gc.py:214-229, 269).                                  *)
THEOREM SuccessIsThorough == Spec => SuccessLeavesNothing
<1> DEFINE Succeeds(w) ==
               phase[w] = "delete" /\ phase'[w] = "report" /\ reason'[w] = "RetentionComplete"
           Kept(w, t) == \E u \in Tags \ Eligible(inv[w], pol[w], began[w]) :
                             inv[w][u] # None /\ tags[t] \in Reach[inv[w][u]]
           A == \A w \in Passes : Succeeds(w) =>
                    \A t \in Tags : tags[t] # None /\ tags[t] = inv[w][t] => Kept(w, t)
<1>1. ASSUME IInv, [Next]_vars, NEW w \in Passes, Succeeds(w)
      PROVE  pending[w] = {}
  <2>1. TypeOK
    BY <1>1 DEF IInv
  <2>2. CASE Environment \/ UNCHANGED vars
    BY <1>1, <2>2 DEF Environment, Tick, ChangePolicy, BuilderPush, ExternalWrite, Name,
                      Writing, vars
  <2>3. ASSUME NEW v \in Passes \ {w},
               (\E b \in BOOLEAN : Begin(v, b)) \/ PassStep(v) \/ Fault(v)
        PROVE  FALSE
    BY <1>1, <2>1, <2>3, OthersFramed DEF Untouched
  <2>4. CASE \E b \in BOOLEAN : Begin(w, b)
    BY <1>1, <2>4 DEF Begin
  <2>5. CASE Fault(w)
    BY <1>1, <2>1, <2>5
       DEF Fault, ReadFails, DeleteRefused, DeleteReplyLost, Crash, Forget, Fails, Finish,
           Inspecting, TypeOK
  <2>6. CASE PassStep(w)
    BY <1>1, <2>1, <2>6
       DEF PassStep, ListTags, NextRepo, CompareRepo, InventoryChanged, StartDeleting, ReadTag,
           Recheck, Delete, DeleteNotFound, Succeed, Report, Finish, TypeOK
  <2> QED
    BY <1>1, <2>2, <2>3, <2>4, <2>5, <2>6 DEF Next
<1>2. ASSUME IInv, NEW w \in Passes, phase[w] = "delete", pending[w] = {},
             NEW t \in Tags, tags[t] # None, tags[t] = inv[w][t]
      PROVE  Kept(w, t)
  <2> DEFINE m == tags[t]
             E == Expendable(inv[w], pol[w], began[w])
  <2>1. m \in Named(inv[w]) /\ m \in Manifests /\ m \notin PlanOf(w)
    BY <1>2 DEF IInv, TypeOK, PassInv, Deleting, Named
  <2>2. PICK n \in Named(inv[w]) \ E : m \in Reach[n]
    BY <2>1, ReachClosed DEF PlanOf, Plan, Protected
  <2>3. PICK u \in Tags : inv[w][u] = n /\ u \notin Eligible(inv[w], pol[w], began[w])
    BY <2>2 DEF Expendable, TagsNaming
  <2> QED
    BY <2>2, <2>3 DEF Named
<1>3. IInv /\ [Next]_vars => [A]_vars
  <2> SUFFICES ASSUME IInv, [Next]_vars, NEW w \in Passes, Succeeds(w),
                      NEW t \in Tags, tags[t] # None, tags[t] = inv[w][t]
               PROVE  Kept(w, t)
    OBVIOUS
  <2> HIDE DEF Kept
  <2> QED
    BY <1>1, <1>2
<1>4. ([][A]_vars) <=> SuccessLeavesNothing
  BY DEF SuccessLeavesNothing
<1> HIDE DEF A
<1>5. Spec => [][A]_vars
  BY <1>3, Invariance, PTL DEF Spec
<1> QED
  BY <1>4, <1>5
=============================================================================
