---------------------------- MODULE HistoryProofs ----------------------------
(***************************************************************************)
(* What holds of status.pruned, the record of deleted tags, for any        *)
(* registry, any cap and any number of refused deletes.  That it is well-  *)
(* typed and capped holds however passes overlap; that it is complete      *)
(* needs passes that neither overlap nor die, and answers that arrive.     *)
(*   The argument counts: with the tags of the pass in flight put in front *)
(* of it, the record is never longer than what was deleted, and shorter    *)
(* only when it has reached the cap (Accounts).                            *)
(***************************************************************************)
EXTENDS RetentionProofs, FiniteSetTheorems, SequenceTheorems

RecordTypes ==
    /\ executed \in Seq(Tags) /\ status.pruned \in Seq(Tags)
    /\ Len(status.pruned) <= MaxHistory
    /\ prev \in [Passes -> Seq(Tags)] /\ news \in [Passes -> Seq(Tags)]

(* s stands for everything in all, up to the cap.                          *)
Accounts(s, all) ==
    /\ Elements(s) \subseteq Elements(all)
    /\ Len(all) <= MaxHistory => Elements(all) \subseteq Elements(s)
    /\ Len(s) <= Len(all)
    /\ Len(s) >= MaxHistory \/ Len(s) = Len(all)

RecordInv(w) ==
    /\ phase[w] # "idle" => prev[w] = status.pruned
    /\ phase[w] = "idle" => news[w] = <<>>
    /\ phase[w] \notin {"idle", "report"} => reason[w] = "RetentionComplete"
    /\ reason[w] \in Early => news[w] = <<>>
    /\ Accounts(news[w] \o status.pruned, executed)

-----------------------------------------------------------------------------
(* Two facts about lengths.                                                *)
LEMMA NotLess == \A a, b \in Nat : ~(a < b) => (a <= b => a = b)
  OBVIOUS

LEMMA BothGrow ==
    \A a, b, c, m \in Nat :
        a <= b /\ (a >= m \/ a = b) => a + c <= b + c /\ (a + c >= m \/ a + c = b + c)
  OBVIOUS

(* Sequences of tags.                                                      *)
LEMMA SortedIsSeq ==
    ASSUME NEW S \in SUBSET Tags, NEW s \in Sorted(S)
    PROVE  s \in Seq(Tags)
<1>1. Cardinality(S) \in Nat
  BY RetentionTypes, FS_Subset, FS_CardinalityType
<1>2. s \in [1..Cardinality(S) -> Tags]
  BY DEF Sorted
<1> QED
  BY <1>1, <1>2

LEMMA ElementsOfConcat ==
    ASSUME NEW s \in Seq(Tags), NEW t \in Seq(Tags)
    PROVE  /\ s \o t \in Seq(Tags) /\ Len(s \o t) = Len(s) + Len(t)
           /\ Elements(s \o t) = Elements(s) \cup Elements(t)
<1>1. /\ s \o t \in Seq(Tags) /\ Len(s \o t) = Len(s) + Len(t)
      /\ Len(s) \in Nat /\ Len(t) \in Nat
      /\ \A i \in 1..(Len(s) + Len(t)) :
             (s \o t)[i] = IF i <= Len(s) THEN s[i] ELSE t[i - Len(s)]
  BY ConcatProperties, LenProperties
<1>2. /\ DOMAIN s = 1..Len(s) /\ DOMAIN t = 1..Len(t)
      /\ DOMAIN (s \o t) = 1..(Len(s) + Len(t))
  BY <1>1, LenProperties
<1>3. ASSUME NEW i \in DOMAIN (s \o t)
      PROVE  (s \o t)[i] \in Elements(s) \cup Elements(t)
  <2>1. i \in 1..Len(s) \/ (i > Len(s) /\ i - Len(s) \in 1..Len(t))
    BY <1>1, <1>2
  <2> QED
    BY <1>1, <1>2, <2>1 DEF Elements
<1>4. ASSUME NEW i \in DOMAIN s
      PROVE  s[i] \in Elements(s \o t)
  <2>1. i \in 1..(Len(s) + Len(t)) /\ (s \o t)[i] = s[i]
    BY <1>1, <1>2
  <2> QED
    BY <1>2, <2>1 DEF Elements
<1>5. ASSUME NEW i \in DOMAIN t
      PROVE  t[i] \in Elements(s \o t)
  <2>1. i + Len(s) \in 1..(Len(s) + Len(t)) /\ (s \o t)[i + Len(s)] = t[i]
    BY <1>1, <1>2
  <2> QED
    BY <1>2, <2>1 DEF Elements
<1>6. Elements(s \o t) \subseteq Elements(s) \cup Elements(t)
  BY <1>3 DEF Elements
<1>7. Elements(s) \cup Elements(t) \subseteq Elements(s \o t)
  BY <1>4, <1>5 DEF Elements
<1> QED
  BY <1>1, <1>6, <1>7

(* The cap keeps the first entries, and all there are if they fit.         *)
LEMMA NewestIsPrefix ==
    ASSUME NEW s \in Seq(Tags)
    PROVE  /\ Newest(s) \in Seq(Tags) /\ Len(Newest(s)) <= MaxHistory
           /\ Len(Newest(s)) = IF Len(s) < MaxHistory THEN Len(s) ELSE MaxHistory
           /\ Elements(Newest(s)) \subseteq Elements(s)
           /\ Len(s) <= MaxHistory => Elements(Newest(s)) = Elements(s)
<1> DEFINE n == IF Len(s) < MaxHistory THEN Len(s) ELSE MaxHistory
<1>1. /\ Len(s) \in Nat /\ MaxHistory \in Nat /\ DOMAIN s = 1..Len(s)
      /\ n \in Nat /\ n <= Len(s) /\ n <= MaxHistory
  BY RetentionTypes, LenProperties
<1>2. \A i \in 1..n : i \in 1..Len(s) /\ s[i] \in Tags
  BY <1>1, ElementOfSeq
<1>3. Newest(s) = SubSeq(s, 1, n)
  BY DEF Newest
<1>4. n = IF Len(s) < MaxHistory THEN Len(s) ELSE MaxHistory
  OBVIOUS
<1> HIDE DEF n
<1>5. Len(s) <= MaxHistory => n = Len(s)
  <2>1. CASE Len(s) < MaxHistory
    BY <1>4, <2>1
  <2>2. CASE ~(Len(s) < MaxHistory)
    <3>1. n = MaxHistory
      BY <1>4, <2>2
    <3>2. Len(s) <= MaxHistory => Len(s) = MaxHistory
      BY <1>1, <2>2, NotLess
    <3> QED
      BY <3>1, <3>2
  <2> QED
    BY <2>1, <2>2
<1>6. /\ Newest(s) \in Seq(Tags) /\ Len(Newest(s)) = n
      /\ \A i \in 1..n : Newest(s)[i] = s[i]
  <2>1. /\ SubSeq(s, 1, n) \in Seq(Tags)
        /\ Len(SubSeq(s, 1, n)) = IF 1 <= n THEN n - 1 + 1 ELSE 0
        /\ \A i \in 1..(n - 1 + 1) : SubSeq(s, 1, n)[i] = s[1 + i - 1]
    BY <1>1, <1>2, SubSeqProperties
  <2>2. (IF 1 <= n THEN n - 1 + 1 ELSE 0) = n /\ n - 1 + 1 = n
    BY <1>1
  <2>3. ASSUME NEW i \in 1..n
        PROVE  Newest(s)[i] = s[i]
    <3>1. i \in 1..(n - 1 + 1) /\ 1 + i - 1 = i
      BY <1>1
    <3> QED
      BY <1>3, <2>1, <3>1
  <2> QED
    BY <1>3, <2>1, <2>2, <2>3
<1>7. DOMAIN Newest(s) = 1..n
  BY <1>6, LenProperties
<1>8. Elements(Newest(s)) \subseteq Elements(s)
  BY <1>1, <1>2, <1>6, <1>7 DEF Elements
<1>9. Len(s) <= MaxHistory => Elements(s) \subseteq Elements(Newest(s))
  BY <1>1, <1>5, <1>6, <1>7 DEF Elements
<1> QED
  BY <1>1, <1>4, <1>6, <1>8, <1>9

-----------------------------------------------------------------------------
(* Only these steps touch the record.                                      *)
Recording ==
    \E w \in Passes :
        \/ \E nodesListed \in BOOLEAN : Begin(w, nodesListed)
        \/ \E m \in Manifests : Delete(w, m) \/ DeleteReplyLost(w, m)
        \/ Report(w) \/ Crash(w)

LEMMA OthersLeaveRecord ==
    ASSUME [Next]_vars, ~Recording
    PROVE  UNCHANGED <<executed, status, prev, news>>
<1> USE DEF vars, planVars, delVars
<1>1. ASSUME NEW w \in Passes, PassStep(w)
      PROVE  UNCHANGED <<executed, status, prev, news>>
  BY <1>1 DEF Recording, PassStep, ListTags, NextRepo, CompareRepo, InventoryChanged,
              StartDeleting, ReadTag, Recheck, DeleteNotFound, Succeed
<1>2. ASSUME NEW w \in Passes, Fault(w)
      PROVE  UNCHANGED <<executed, status, prev, news>>
  BY <1>2 DEF Recording, Fault, ReadFails, DeleteRefused
<1>3. CASE Environment
  BY <1>3 DEF Environment, Tick, ChangePolicy, BuilderPush, ExternalWrite, Name, Writing
<1>4. CASE UNCHANGED vars
  BY <1>4
<1> QED
  BY <1>1, <1>2, <1>3, <1>4 DEF Next, Recording

LEMMA RecordTypesStep == RecordTypes /\ [Next]_vars => RecordTypes'
<1> SUFFICES ASSUME RecordTypes, [Next]_vars
             PROVE  RecordTypes'
  OBVIOUS
<1> USE DEF RecordTypes
<1>1. CASE ~Recording
  <2>1. UNCHANGED <<executed, status, prev, news>>
    BY <1>1, OthersLeaveRecord
  <2> QED
    BY <2>1
<1>2. ASSUME NEW w \in Passes, NEW nodesListed \in BOOLEAN, Begin(w, nodesListed)
      PROVE  RecordTypes'
  BY <1>2 DEF Begin, delVars
<1>3. ASSUME NEW w \in Passes, NEW m \in Manifests, Delete(w, m)
      PROVE  RecordTypes'
  <2>1. PICK s \in Sorted(TagsNaming(inv[w], m)) :
               news' = [news EXCEPT ![w] = @ \o s] /\ executed' = executed \o s
    BY <1>3 DEF Delete
  <2>2. s \in Seq(Tags)
    BY SortedIsSeq DEF TagsNaming
  <2>3. executed \o s \in Seq(Tags) /\ news[w] \o s \in Seq(Tags)
    BY <2>2, ElementsOfConcat
  <2>4. status' = status /\ prev' = prev
    BY <1>3 DEF Delete, planVars
  <2> QED
    BY <2>1, <2>3, <2>4
<1>4. ASSUME NEW w \in Passes, NEW m \in Manifests, DeleteReplyLost(w, m)
      PROVE  RecordTypes'
  <2>1. PICK s \in Sorted(TagsNaming(inv[w], m)) : executed' = executed \o s
    BY <1>4 DEF DeleteReplyLost
  <2>2. s \in Seq(Tags)
    BY SortedIsSeq DEF TagsNaming
  <2>3. executed \o s \in Seq(Tags)
    BY <2>2, ElementsOfConcat
  <2>4. UNCHANGED <<status, prev, news>>
    BY <1>4 DEF DeleteReplyLost, planVars, delVars
  <2> QED
    BY <2>1, <2>3, <2>4
<1>5. <<>> \in Seq(Tags)
  OBVIOUS
<1>6. ASSUME NEW w \in Passes, Report(w)
      PROVE  RecordTypes'
  <2>1. news[w] \o prev[w] \in Seq(Tags)
    BY ElementsOfConcat
  <2>2. /\ status'.pruned \in {status.pruned, Newest(news[w] \o prev[w])}
        /\ executed' = executed
        /\ prev' = [prev EXCEPT ![w] = <<>>] /\ news' = [news EXCEPT ![w] = <<>>]
    BY <1>6 DEF Report, Forget
  <2> QED
    BY <1>5, <2>1, <2>2, NewestIsPrefix
<1>7. ASSUME NEW w \in Passes, Crash(w)
      PROVE  RecordTypes'
  BY <1>5, <1>7 DEF Crash, Forget
<1> QED
  BY <1>1, <1>2, <1>3, <1>4, <1>6, <1>7 DEF Recording

LEMMA RecordTypesInvariance == Spec => []RecordTypes
<1>1. Init => RecordTypes
  BY RetentionTypes DEF Init, RecordTypes
<1> QED
  BY <1>1, RecordTypesStep, PTL DEF Spec

(* The record is a sequence of tags, and never longer than its cap, with   *)
(* passes that overlap, fail and die (gc.py:142-150).                      *)
THEOREM RecordCapped == Spec => []HistoriesTyped
<1>1. RecordTypes => HistoriesTyped
  BY DEF RecordTypes, HistoriesTyped
<1> QED
  BY <1>1, RecordTypesInvariance, PTL

-----------------------------------------------------------------------------
(* What keeps the account.                                                 *)
LEMMA AccountsGrow ==
    ASSUME NEW n \in Seq(Tags), NEW s \in Seq(Tags), NEW p \in Seq(Tags),
           NEW all \in Seq(Tags), Accounts(n \o p, all)
    PROVE  Accounts((n \o s) \o p, all \o s)
<1>1. MaxHistory \in Nat
  BY RetentionTypes
<1>2. /\ Elements(all \o s) = Elements(all) \cup Elements(s)
      /\ Len(all \o s) = Len(all) + Len(s)
  BY ElementsOfConcat
<1>3. /\ Elements(n \o p) = Elements(n) \cup Elements(p)
      /\ Len(n \o p) = Len(n) + Len(p)
  BY ElementsOfConcat
<1>4. n \o s \in Seq(Tags) /\ Elements(n \o s) = Elements(n) \cup Elements(s)
      /\ Len(n \o s) = Len(n) + Len(s)
  BY ElementsOfConcat
<1>5. /\ Elements((n \o s) \o p) = Elements(n \o p) \cup Elements(s)
      /\ Len((n \o s) \o p) = Len(n \o p) + Len(s)
  <2>1. /\ Elements((n \o s) \o p) = Elements(n \o s) \cup Elements(p)
        /\ Len((n \o s) \o p) = Len(n \o s) + Len(p)
    BY <1>4, ElementsOfConcat
  <2>2. Len(n) \in Nat /\ Len(s) \in Nat /\ Len(p) \in Nat
    BY LenProperties
  <2> QED
    BY <1>3, <1>4, <2>1, <2>2
<1>6. Len(all) \in Nat /\ Len(s) \in Nat /\ Len(n \o p) \in Nat
  BY <1>3, LenProperties
<1>7. /\ Elements((n \o s) \o p) \subseteq Elements(all \o s)
      /\ Len(all \o s) <= MaxHistory =>
             Elements(all \o s) \subseteq Elements((n \o s) \o p)
  <2>1. Len(all \o s) <= MaxHistory => Len(all) <= MaxHistory
    BY <1>1, <1>2, <1>6
  <2> QED
    BY <1>2, <1>5, <2>1 DEF Accounts
<1>8. /\ Len((n \o s) \o p) <= Len(all \o s)
      /\ Len((n \o s) \o p) >= MaxHistory \/ Len((n \o s) \o p) = Len(all \o s)
  <2> DEFINE a == Len(n \o p)
             b == Len(all)
             c == Len(s)
  <2>1. a <= b /\ (a >= MaxHistory \/ a = b)
    BY DEF Accounts
  <2>2. a \in Nat /\ b \in Nat /\ c \in Nat
    BY <1>6
  <2>3. Len((n \o s) \o p) = a + c /\ Len(all \o s) = b + c
    BY <1>2, <1>5
  <2> HIDE DEF a, b, c
  <2>4. a + c <= b + c /\ (a + c >= MaxHistory \/ a + c = b + c)
    BY <1>1, <2>1, <2>2, BothGrow
  <2> QED
    BY <2>3, <2>4
<1> QED
  BY <1>7, <1>8 DEF Accounts

LEMMA AccountsCapped ==
    ASSUME NEW s \in Seq(Tags), NEW all \in Seq(Tags), Accounts(s, all)
    PROVE  Accounts(Newest(s), all)
<1>1. Len(s) \in Nat /\ Len(all) \in Nat /\ MaxHistory \in Nat
  BY RetentionTypes, LenProperties
<1>2. /\ Len(Newest(s)) = IF Len(s) < MaxHistory THEN Len(s) ELSE MaxHistory
      /\ Elements(Newest(s)) \subseteq Elements(s)
      /\ Len(s) <= MaxHistory => Elements(Newest(s)) = Elements(s)
  BY NewestIsPrefix
<1>3. CASE Len(s) < MaxHistory
  <2>1. Len(Newest(s)) = Len(s) /\ Elements(Newest(s)) = Elements(s)
    BY <1>1, <1>2, <1>3
  <2> QED
    BY <2>1 DEF Accounts
<1>4. CASE ~(Len(s) < MaxHistory)
  <2>1. Len(Newest(s)) = MaxHistory
    BY <1>2, <1>4
  <2>2. Len(all) <= MaxHistory => Len(s) <= MaxHistory
    BY <1>1 DEF Accounts
  <2> QED
    BY <1>1, <1>2, <1>4, <2>1, <2>2 DEF Accounts
<1> QED
  BY <1>3, <1>4

(* Passes do not overlap, do not die, and hear what their calls did.       *)
Undisturbed == (\E w \in Passes : Passes = {w}) /\ ~LostReplies /\ ~Crashes

LEMMA RecordInit ==
    ASSUME Init, NEW w \in Passes
    PROVE  RecordInv(w)
<1>1. <<>> \o <<>> = <<>> /\ Len(<<>>) = 0
  OBVIOUS
<1>2. /\ executed = <<>> /\ status.pruned = <<>> /\ news[w] = <<>>
      /\ phase[w] = "idle" /\ reason[w] = "Disabled"
  BY DEF Init
<1> QED
  BY <1>1, <1>2, RetentionTypes DEF RecordInv, Accounts

(* Where the other steps lead: a pass neither begins nor ends by them.     *)
GoesOn(w) ==
    /\ phase'[w] = "idle" <=> phase[w] = "idle"
    /\ phase'[w] \notin {"idle", "report"} =>
           phase[w] \notin {"idle", "report"} /\ reason'[w] = reason[w]
    /\ reason'[w] = reason[w] \/ reason'[w] \notin Early

LEMMA OthersGoOn ==
    ASSUME TypeOK, [Next]_vars, ~Recording, NEW w \in Passes
    PROVE  GoesOn(w)
<1> USE DEF TypeOK, Early, GoesOn
<1>1. ASSUME NEW v \in Passes, NEW why \in Reasons \ Early, Finish(v, why),
             phase[v] \notin {"idle", "report"}
      PROVE  GoesOn(w)
  BY <1>1 DEF Finish
<1>2. {"InventoryChanged", "RetentionComplete"} \cup Failures \subseteq Reasons \ Early
  BY DEF Reasons, Failures, Skips
<1>3. ASSUME NEW v \in Passes, PassStep(v)
      PROVE  GoesOn(w)
  <2>1. ASSUME NEW r \in Repos, InventoryChanged(v, r)
        PROVE  Finish(v, "InventoryChanged") /\ phase[v] = "reread"
    BY <2>1 DEF InventoryChanged
  <2>2. ASSUME NEW m \in Manifests, DeleteNotFound(v, m)
        PROVE  Finish(v, "RegistryDeleteFailed") /\ phase[v] = "delete"
    BY <2>2 DEF DeleteNotFound
  <2>3. CASE Succeed(v)
    BY <1>1, <1>2, <2>3 DEF Succeed
  <2>4. ASSUME NEW r \in Repos,
               ListTags(v, r) \/ NextRepo(v, r) \/ CompareRepo(v, r) \/ StartDeleting(v, r)
        PROVE  /\ reason' = reason /\ phase[v] \notin {"idle", "report"}
               /\ \E to \in {"list", "read", "relist", "reread", "delete"} :
                      phase' = [phase EXCEPT ![v] = to]
    BY <2>4 DEF ListTags, NextRepo, CompareRepo, StartDeleting
  <2>5. ASSUME NEW t \in Tags, ReadTag(v, t)
        PROVE  \/ UNCHANGED <<phase, reason>>
               \/ Finish(v, "InventoryIncomplete") /\ phase[v] \notin {"idle", "report"}
    BY <2>5 DEF ReadTag
  <2>6. CASE Recheck(v)
    BY <2>6 DEF Recheck
  <2>7. ASSUME NEW r \in Repos,
               ListTags(v, r) \/ NextRepo(v, r) \/ CompareRepo(v, r) \/ StartDeleting(v, r)
        PROVE  GoesOn(w)
    BY <2>4, <2>7
  <2>8. {"InventoryIncomplete", "RegistryDeleteFailed"} \subseteq Failures
    BY DEF Failures
  <2>9. ASSUME NEW r \in Repos, InventoryChanged(v, r)
        PROVE  GoesOn(w)
    BY <1>1, <1>2, <2>1, <2>9
  <2>10. ASSUME NEW t \in Tags, ReadTag(v, t)
         PROVE  GoesOn(w)
    BY <1>1, <1>2, <2>5, <2>8, <2>10
  <2>11. ASSUME NEW m \in Manifests, DeleteNotFound(v, m)
         PROVE  GoesOn(w)
    BY <1>1, <1>2, <2>2, <2>8, <2>11
  <2> QED
    BY <1>3, <2>3, <2>6, <2>7, <2>9, <2>10, <2>11 DEF PassStep, Recording
<1>4. ASSUME NEW v \in Passes, Fault(v)
      PROVE  GoesOn(w)
  <2>1. ASSUME NEW why \in Failures,
               ReadFails(v, why) \/ \E m \in Manifests : DeleteRefused(v, m, why)
        PROVE  Finish(v, why) /\ phase[v] \notin {"idle", "report"}
    BY <2>1 DEF ReadFails, DeleteRefused, Fails, Inspecting
  <2>2. \E why \in Failures :
            ReadFails(v, why) \/ \E m \in Manifests : DeleteRefused(v, m, why)
    BY <1>4 DEF Fault, Recording
  <2> QED
    BY <1>1, <1>2, <2>1, <2>2
<1>5. CASE Environment \/ UNCHANGED vars
  <2>1. UNCHANGED <<phase, reason>>
    BY <1>5 DEF Environment, Tick, ChangePolicy, BuilderPush, ExternalWrite, Name, Writing, vars
  <2> QED
    BY <2>1
<1> QED
  BY <1>3, <1>4, <1>5 DEF Next, Recording

LEMMA RecordStep ==
    ASSUME TypeOK, RecordTypes, NEW w \in Passes, Passes = {w}, ~LostReplies, ~Crashes,
           RecordInv(w), [Next]_vars
    PROVE  RecordInv(w)'
<1> DEFINE done == news[w] \o status.pruned
<1>1. /\ executed \in Seq(Tags) /\ status.pruned \in Seq(Tags) /\ news[w] \in Seq(Tags)
      /\ done \in Seq(Tags)
  BY ElementsOfConcat DEF RecordTypes
<1>2. Accounts(done, executed)
  BY DEF RecordInv
<1>3. CASE ~Recording
  <2>1. UNCHANGED <<executed, status, prev, news>>
    BY <1>3, OthersLeaveRecord
  <2>2. GoesOn(w)
    BY <1>3, OthersGoOn
  <2> QED
    BY <2>1, <2>2 DEF RecordInv, GoesOn
<1>4. ASSUME NEW nodesListed \in BOOLEAN, Begin(w, nodesListed)
      PROVE  RecordInv(w)'
  <2>1. /\ UNCHANGED <<executed, status, news>> /\ prev'[w] = status.pruned
        /\ phase[w] = "idle" /\ phase'[w] \in {"list", "report"}
        /\ phase'[w] = "list" => reason'[w] = "RetentionComplete"
    BY <1>4 DEF Begin, delVars, RecordTypes, TypeOK
  <2> QED
    BY <1>2, <2>1 DEF RecordInv
<1>5. ASSUME NEW m \in Manifests, Delete(w, m)
      PROVE  RecordInv(w)'
  <2>1. PICK s \in Sorted(TagsNaming(inv[w], m)) :
               news' = [news EXCEPT ![w] = @ \o s] /\ executed' = executed \o s
    BY <1>5 DEF Delete
  <2>2. s \in Seq(Tags)
    BY SortedIsSeq DEF TagsNaming
  <2>3. /\ UNCHANGED <<status, phase, reason, prev>> /\ phase[w] = "delete"
        /\ news'[w] = news[w] \o s
    BY <1>5, <2>1 DEF Delete, planVars, RecordTypes
  <2>4. Accounts((news[w] \o s) \o status.pruned, executed \o s)
    BY <1>1, <1>2, <2>2, AccountsGrow
  <2>5. Accounts(done', executed')
    BY <2>1, <2>3, <2>4
  <2> QED
    BY <2>3, <2>5 DEF RecordInv, Early
<1>6. CASE Report(w)
  <2>1. /\ phase[w] = "report" /\ phase'[w] = "idle" /\ executed' = executed
        /\ news'[w] = <<>>
        /\ status'.pruned = IF reason[w] \in Early THEN status.pruned
                            ELSE Newest(news[w] \o prev[w])
    BY <1>6 DEF Report, Forget, RecordTypes, TypeOK
  <2>2. prev[w] = status.pruned
    BY <2>1 DEF RecordInv
  <2>3. Accounts(status'.pruned, executed)
    <3>1. CASE reason[w] \in Early
      <4>1. done = status.pruned
        BY <1>1, <3>1, ConcatEmptySeq DEF RecordInv
      <4> QED
        BY <1>2, <2>1, <3>1, <4>1
    <3>2. CASE reason[w] \notin Early
      <4>1. status'.pruned = Newest(done)
        BY <2>1, <2>2, <3>2
      <4> QED
        BY <1>1, <1>2, <4>1, AccountsCapped
    <3> QED
      BY <3>1, <3>2
  <2>4. status'.pruned \in Seq(Tags)
    BY RecordTypesStep DEF RecordTypes
  <2>5. done' = status'.pruned
    BY <2>1, <2>4, ConcatEmptySeq
  <2> QED
    BY <2>1, <2>3, <2>5 DEF RecordInv
<1>7. ~Crash(w) /\ \A m \in Manifests : ~DeleteReplyLost(w, m)
  BY DEF Crash, DeleteReplyLost
<1> QED
  BY <1>3, <1>4, <1>5, <1>6, <1>7 DEF Recording

(* As long as passes do not overlap or die and no answer is lost, the      *)
(* record accounts for every deletion up to its cap, whatever was refused  *)
(* in mid-pass (gc.py:255-281, architecture.md:185-186).                   *)
THEOREM RecordComplete == Undisturbed => (Spec => []HistoryComplete)
<1> SUFFICES ASSUME Undisturbed
             PROVE  Spec => []HistoryComplete
  OBVIOUS
<1>1. PICK w \in Passes : Passes = {w}
  BY DEF Undisturbed
<1>2. Init => RecordInv(w)
  BY RecordInit
<1>3. TypeOK /\ RecordTypes /\ RecordInv(w) /\ [Next]_vars => RecordInv(w)'
  BY <1>1, RecordStep DEF Undisturbed
<1>4. RecordTypes /\ RecordInv(w) => HistoryComplete
  <2> SUFFICES ASSUME RecordTypes, RecordInv(w), phase[w] = "idle"
               PROVE  /\ Elements(status.pruned) \subseteq Elements(executed)
                      /\ Len(executed) <= MaxHistory =>
                             Elements(executed) \subseteq Elements(status.pruned)
                      /\ Len(executed) > MaxHistory => Len(status.pruned) = MaxHistory
    BY DEF HistoryComplete, Elements
  <2>1. news[w] \o status.pruned = status.pruned
    BY ConcatEmptySeq DEF RecordInv, RecordTypes
  <2>2. Accounts(status.pruned, executed)
    BY <2>1 DEF RecordInv
  <2>3. /\ Len(executed) \in Nat /\ Len(status.pruned) \in Nat /\ MaxHistory \in Nat
        /\ Len(status.pruned) <= MaxHistory
    BY RetentionTypes, LenProperties DEF RecordTypes
  <2>4. Len(executed) > MaxHistory => Len(status.pruned) = MaxHistory
    BY <2>2, <2>3 DEF Accounts
  <2> QED
    BY <2>2, <2>4 DEF Accounts
<1> QED
  BY <1>2, <1>3, <1>4, TypeCorrect, RecordTypesInvariance, PTL DEF Spec

-----------------------------------------------------------------------------
(* Nothing is ever in a record that was not deleted.                       *)
TruthInv ==
    /\ Elements(status.pruned) \subseteq Elements(executed)
    /\ \A w \in Passes : /\ Elements(prev[w]) \subseteq Elements(executed)
                         /\ Elements(news[w]) \subseteq Elements(executed)

LEMMA TruthStep == RecordTypes /\ TruthInv /\ [Next]_vars => TruthInv'
<1> SUFFICES ASSUME RecordTypes, TruthInv, [Next]_vars
             PROVE  TruthInv'
  OBVIOUS
<1> DEFINE Result == TruthInv'
<1> SUFFICES Result
  OBVIOUS
<1>1. CASE ~Recording
  <2>1. UNCHANGED <<executed, status, prev, news>>
    BY <1>1, OthersLeaveRecord
  <2> QED
    BY <2>1 DEF TruthInv
<1>2. ASSUME NEW w \in Passes, NEW nodesListed \in BOOLEAN, Begin(w, nodesListed)
      PROVE  Result
  BY <1>2 DEF Begin, delVars, RecordTypes, TruthInv
<1>3. ASSUME NEW s \in Seq(Tags), executed' = executed \o s
      PROVE  Elements(executed') = Elements(executed) \cup Elements(s)
  BY <1>3, ElementsOfConcat DEF RecordTypes
<1>4. ASSUME NEW w \in Passes, NEW m \in Manifests, Delete(w, m)
      PROVE  Result
  <2>1. PICK s \in Sorted(TagsNaming(inv[w], m)) :
               news' = [news EXCEPT ![w] = @ \o s] /\ executed' = executed \o s
    BY <1>4 DEF Delete
  <2>2. s \in Seq(Tags)
    BY SortedIsSeq DEF TagsNaming
  <2>3. Elements(news[w] \o s) = Elements(news[w]) \cup Elements(s)
    BY <2>2, ElementsOfConcat DEF RecordTypes
  <2>4. status' = status /\ prev' = prev
    BY <1>4 DEF Delete, planVars
  <2> QED
    BY <1>3, <2>1, <2>2, <2>3, <2>4 DEF RecordTypes, TruthInv
<1>5. ASSUME NEW w \in Passes, NEW m \in Manifests, DeleteReplyLost(w, m)
      PROVE  Result
  <2>1. PICK s \in Sorted(TagsNaming(inv[w], m)) : executed' = executed \o s
    BY <1>5 DEF DeleteReplyLost
  <2>2. s \in Seq(Tags)
    BY SortedIsSeq DEF TagsNaming
  <2>3. UNCHANGED <<status, prev, news>>
    BY <1>5 DEF DeleteReplyLost, planVars, delVars
  <2> QED
    BY <1>3, <2>1, <2>2, <2>3 DEF TruthInv
<1>6. Elements(<<>>) = {}
  BY DEF Elements
<1>7. ASSUME NEW w \in Passes, Report(w)
      PROVE  Result
  <2>1. Elements(Newest(news[w] \o prev[w])) \subseteq Elements(news[w]) \cup Elements(prev[w])
    <3>1. /\ news[w] \o prev[w] \in Seq(Tags)
          /\ Elements(news[w] \o prev[w]) = Elements(news[w]) \cup Elements(prev[w])
      BY ElementsOfConcat DEF RecordTypes
    <3> QED
      BY <3>1, NewestIsPrefix
  <2>2. /\ status'.pruned \in {status.pruned, Newest(news[w] \o prev[w])}
        /\ executed' = executed
        /\ prev' = [prev EXCEPT ![w] = <<>>] /\ news' = [news EXCEPT ![w] = <<>>]
    BY <1>7 DEF Report, Forget
  <2> QED
    BY <1>6, <2>1, <2>2 DEF RecordTypes, TruthInv
<1>8. ASSUME NEW w \in Passes, Crash(w)
      PROVE  Result
  BY <1>6, <1>8 DEF Crash, Forget, RecordTypes, TruthInv
<1> HIDE DEF Result
<1> QED
  BY <1>1, <1>2, <1>4, <1>5, <1>7, <1>8 DEF Recording

(* The record names only what was deleted, however passes overlap, fail,   *)
(* die or miss an answer: a pass that reports last may drop what another   *)
(* recorded, but claims nothing that is not true (gc.py:142-150).          *)
THEOREM RecordIsTruthful == Spec => []RecordTruthful
<1>1. Init => TruthInv
  BY DEF Init, TruthInv, Elements
<1>2. TruthInv => RecordTruthful
  BY DEF TruthInv, RecordTruthful
<1> QED
  BY <1>1, <1>2, TruthStep, RecordTypesInvariance, PTL DEF Spec

-----------------------------------------------------------------------------
(* What a deleting pass has done, and the tags that went with it.          *)
Done(w) == PlanOf(w) \ pending[w]
DoneTags(w) == {t \in Tags : inv[w][t] \in Done(w)}

ExactInv(w) ==
    /\ phase[w] \notin {"delete", "report"} => news[w] = <<>>
    /\ phase[w] = "delete" => /\ Done(w) \cap present = {}
                              /\ Elements(news[w]) = DoneTags(w)
                              /\ Len(news[w]) = Cardinality(DoneTags(w))

(* A set of tags sorted is each of them, once.                             *)
LEMMA SortedIsAll ==
    ASSUME NEW S \in SUBSET Tags, NEW s \in Sorted(S)
    PROVE  Elements(s) = S /\ Len(s) = Cardinality(S)
<1> DEFINE n == Cardinality(S)
<1>1. IsFiniteSet(S) /\ n \in Nat /\ S \subseteq Int
  BY ContentTypes, RetentionTypes, FS_Subset, FS_CardinalityType
<1>2. s \in [1..n -> S] /\ \A i, j \in 1..n : i < j => s[i] < s[j]
  BY DEF Sorted
<1> HIDE DEF n
<1>3. ASSUME NEW i \in 1..n, NEW j \in 1..n, s[i] = s[j]
      PROVE  i = j
  <2>1. ~(i < j) /\ ~(j < i)
    <3>1. s[i] \in Int
      <4>1. s[i] \in S
        BY <1>2
      <4> QED
        BY <1>1, <4>1
    <3>2. \A x \in Int : ~(x < x)
      OBVIOUS
    <3>3. ~(s[i] < s[j]) /\ ~(s[j] < s[i])
      BY <1>3, <3>1, <3>2
    <3> QED
      BY <1>2, <3>3
  <2> QED
    BY <1>1, <2>1
<1>4. s \in Injection(1..n, S)
  BY <1>2, <1>3 DEF Injection, IsInjective
<1>5. Cardinality(1..n) = n
  BY <1>1, FS_Interval
<1>6. s \in Surjection(1..n, S)
  BY <1>1, <1>4, <1>5, FS_Injection DEF n
<1>7. DOMAIN s = 1..n /\ Len(s) = n
  BY <1>1, <1>2
<1> QED
  BY <1>2, <1>6, <1>7 DEF Elements, Surjection, n

(* Deleting the next digest adds its tags to the record.                   *)
LEMMA DeleteIsExact ==
    ASSUME NEW w \in Passes, NEW m \in Manifests, TypeOK, RecordTypes, PassInv(w),
           ExactInv(w), Delete(w, m)
    PROVE  ExactInv(w)'
<1>1. /\ phase' = phase /\ inv' = inv /\ pol' = pol /\ began' = began
      /\ phase[w] = "delete" /\ m \in Batch(w)
      /\ present' = present \ {m} /\ pending'[w] = pending[w] \ {m}
  BY DEF Delete, Remove, planVars, TypeOK
<1>2. m \in PlanOf(w) /\ m \in pending[w]
  BY <1>1, DeleteIsSafe, BatchIsRoots
<1>3. Done(w)' = Done(w) \cup {m} /\ m \notin Done(w)
  BY <1>1, <1>2 DEF Done, PlanOf
<1>4. /\ DoneTags(w)' = DoneTags(w) \cup TagsNaming(inv[w], m)
      /\ DoneTags(w) \cap TagsNaming(inv[w], m) = {}
      /\ DoneTags(w) \subseteq Tags /\ TagsNaming(inv[w], m) \subseteq Tags
  BY <1>1, <1>3 DEF DoneTags, TagsNaming
<1>5. PICK s \in Sorted(TagsNaming(inv[w], m)) : news' = [news EXCEPT ![w] = @ \o s]
  BY DEF Delete
<1>6. /\ s \in Seq(Tags) /\ Elements(s) = TagsNaming(inv[w], m)
      /\ Len(s) = Cardinality(TagsNaming(inv[w], m))
  BY <1>4, SortedIsSeq, SortedIsAll
<1>7. news'[w] = news[w] \o s
  BY <1>5 DEF RecordTypes
<1>8. /\ Elements(news'[w]) = Elements(news[w]) \cup Elements(s)
      /\ Len(news'[w]) = Len(news[w]) + Len(s)
  BY <1>6, <1>7, ElementsOfConcat DEF RecordTypes
<1>9. Cardinality(DoneTags(w)') = Cardinality(DoneTags(w)) + Cardinality(TagsNaming(inv[w], m))
  <2>1. IsFiniteSet(DoneTags(w)) /\ IsFiniteSet(TagsNaming(inv[w], m))
    BY <1>4, RetentionTypes, FS_Subset
  <2>2. Cardinality(DoneTags(w) \cup TagsNaming(inv[w], m)) =
          Cardinality(DoneTags(w)) + Cardinality(TagsNaming(inv[w], m)) - Cardinality({})
    BY <1>4, <2>1, FS_Union
  <2>3. /\ Cardinality({}) = 0 /\ Cardinality(DoneTags(w)) \in Nat
        /\ Cardinality(TagsNaming(inv[w], m)) \in Nat
    BY <2>1, FS_EmptySet, FS_CardinalityType
  <2> QED
    BY <1>4, <2>2, <2>3
<1>10. Done(w)' \cap present' = {}
  BY <1>1, <1>3 DEF ExactInv
<1> QED
  BY <1>1, <1>4, <1>6, <1>8, <1>9, <1>10 DEF ExactInv

(* What the other steps of a pass do to its record.                        *)
LEMMA OwnRecord ==
    ASSUME NEW w \in Passes, TypeOK, RecordTypes,
           (\E b \in BOOLEAN : Begin(w, b)) \/ PassStep(w) \/ Fault(w),
           \A m \in Manifests : ~Delete(w, m), \A r \in Repos : ~StartDeleting(w, r)
    PROVE  \/ phase'[w] = "report"
           \/ phase'[w] # "delete" /\ news'[w] = <<>>
           \/ /\ phase'[w] # "delete" /\ news'[w] = news[w]
              /\ phase[w] \notin {"delete", "report"}
<1> USE DEF TypeOK, RecordTypes
<1> DEFINE Result == \/ phase'[w] = "report"
                     \/ phase'[w] # "delete" /\ news'[w] = <<>>
                     \/ /\ phase'[w] # "delete" /\ news'[w] = news[w]
                        /\ phase[w] \notin {"delete", "report"}
<1> SUFFICES Result
  OBVIOUS
<1>1. ASSUME NEW b \in BOOLEAN, Begin(w, b)
      PROVE  Result
  BY <1>1 DEF Begin, delVars
<1>2. ASSUME NEW r \in Repos, ListTags(w, r) \/ NextRepo(w, r) \/ CompareRepo(w, r)
      PROVE  Result
  BY <1>2 DEF ListTags, NextRepo, CompareRepo, delVars
<1>3. ASSUME NEW why \in Reasons, Finish(w, why)
      PROVE  Result
  BY <1>3 DEF Finish
<1>4. ASSUME NEW t \in Tags, ReadTag(w, t)
      PROVE  Result
  BY <1>4 DEF ReadTag, Finish, delVars
<1>5. CASE Recheck(w)
  BY <1>5 DEF Recheck, delVars
<1>6. CASE Report(w) \/ Crash(w)
  BY <1>6 DEF Report, Crash, Forget
<1>7. CASE PassStep(w)
  <2>1. ASSUME NEW r \in Repos, InventoryChanged(w, r)
        PROVE  Result
    BY <2>1 DEF InventoryChanged, Finish
  <2>2. ASSUME NEW m \in Manifests, DeleteNotFound(w, m)
        PROVE  Result
    BY <2>2 DEF DeleteNotFound, Finish
  <2>3. CASE Succeed(w)
    BY <2>3 DEF Succeed, Finish
  <2> HIDE DEF Result
  <2> QED
    BY <1>2, <1>4, <1>5, <1>6, <1>7, <2>1, <2>2, <2>3 DEF PassStep
<1>8. CASE Fault(w)
  <2>1. ~Crash(w) => phase'[w] = "report"
    BY <1>8 DEF Fault, ReadFails, DeleteRefused, DeleteReplyLost, Fails, Finish
  <2> QED
    BY <1>6, <2>1
<1> HIDE DEF Result
<1> QED
  BY <1>1, <1>7, <1>8

LEMMA ExactStep ==
    ASSUME IInv, RecordTypes, NEW w \in Passes, ExactInv(w), [Next]_vars
    PROVE  ExactInv(w)'
<1>1. TypeOK /\ PassInv(w) /\ RecordTypes'
  BY RecordTypesStep DEF IInv
<1>2. ASSUME Untouched(w), news'[w] = news[w],
             phase[w] = "delete" => Done(w) \cap present' = {}
      PROVE  ExactInv(w)'
  <2>1. Done(w)' = Done(w) /\ DoneTags(w)' = DoneTags(w) /\ phase'[w] = phase[w]
    BY <1>2 DEF Untouched, Done, DoneTags, PlanOf
  <2> QED
    BY <1>2, <2>1 DEF ExactInv
<1>3. ASSUME NEW v \in Passes,
             (\E b \in BOOLEAN : Begin(v, b)) \/ PassStep(v) \/ Fault(v)
      PROVE  ExactInv(w)'
  <2>1. CASE v = w
    <3>1. ASSUME NEW m \in Manifests, Delete(w, m)
          PROVE  ExactInv(w)'
      BY <1>1, <3>1, DeleteIsExact
    <3>2. ASSUME NEW r \in Repos, StartDeleting(w, r)
          PROVE  ExactInv(w)'
      <4>1. /\ news' = news /\ phase[w] = "reread" /\ phase'[w] = "delete"
            /\ pending'[w] = PlanOf(w) /\ PlanOf(w)' = PlanOf(w)
        BY <1>1, <3>2 DEF StartDeleting, planVars, PlanOf, TypeOK
      <4>2. Done(w)' = {} /\ DoneTags(w)' = {} /\ news'[w] = <<>>
        BY <4>1 DEF Done, DoneTags, ExactInv
      <4> QED
        BY <4>1, <4>2, FS_EmptySet DEF ExactInv, Elements
    <3> QED
      BY <1>1, <1>3, <2>1, <3>1, <3>2, OwnRecord DEF ExactInv
  <2>2. CASE v # w
    <3>1. Untouched(w)
      BY <1>1, <1>3, <2>2, OthersFramed
    <3>2. present' \subseteq present
      BY <1>1, <1>3, RegistryStep DEF Remove
    <3>3. news'[w] = news[w]
      <4>1. CASE Recording
        BY <1>1, <1>3, <2>2, <4>1
           DEF PassStep, Fault, Begin, ListTags, NextRepo, CompareRepo, InventoryChanged,
               StartDeleting, ReadTag, Recheck, Delete, DeleteNotFound, Succeed, Report,
               ReadFails, DeleteRefused, DeleteReplyLost, Crash, Forget, delVars, RecordTypes
      <4>2. CASE ~Recording
        BY <4>2, OthersLeaveRecord
      <4> QED
        BY <4>1, <4>2
    <3> QED
      BY <1>2, <3>1, <3>2, <3>3 DEF ExactInv
  <2> QED
    BY <2>1, <2>2
<1>4. CASE Environment
  <2>1. Untouched(w) /\ news' = news
    BY <1>4 DEF Environment, Tick, ChangePolicy, BuilderPush, ExternalWrite, Name, Writing,
                Untouched, readVars, planVars, delVars
  <2>2. CASE present' = present
    BY <1>2, <2>1, <2>2 DEF ExactInv
  <2>3. ASSUME NEW t \in Tags, NEW m \in Manifests,
               BuilderPush(t, m) \/ ExternalWrite(t, m), phase[w] = "delete"
        PROVE  Done(w) \cap present' = {}
    <3>1. present' = present \cup Reach[m] /\ Reach[m] \cap ever = {}
      BY <2>3 DEF BuilderPush, ExternalWrite, Name, Committed
    <3>2. Done(w) \subseteq Known(w) /\ Known(w) \subseteq ever
      BY <1>1, PlanClosedUpwards, NamedKnown DEF Done, PassInv, TypeOK
    <3> QED
      BY <2>3, <3>1, <3>2 DEF ExactInv
  <2>4. present' = present \/ \E t \in Tags, m \in Manifests : BuilderPush(t, m) \/ ExternalWrite(t, m)
    BY <1>4 DEF Environment, Tick, ChangePolicy, regVars
  <2> QED
    BY <1>2, <2>1, <2>2, <2>3, <2>4
<1>5. CASE UNCHANGED vars
  BY <1>2, <1>5 DEF vars, regVars, readVars, planVars, delVars, Untouched, ExactInv
<1> QED
  BY <1>3, <1>4, <1>5 DEF Next

(* A deleting pass knows exactly what it did: the digests it struck off    *)
(* are gone for good, beside any other pass, push or write, and each tag   *)
(* it planned for them is recorded once (gc.py:258-268).                   *)
THEOREM RecordIsExact == Spec => []RecordExact
<1> DEFINE AllExact == \A w \in Passes : ExactInv(w)
<1>1. Init => AllExact
  BY DEF Init, ExactInv
<1>2. IInv /\ RecordTypes /\ AllExact /\ [Next]_vars => AllExact'
  BY ExactStep
<1>3. AllExact => RecordExact
  BY DEF ExactInv, RecordExact, Done, DoneTags, PlanOf
<1> HIDE DEF AllExact
<1> QED
  BY <1>1, <1>2, <1>3, Invariance, RecordTypesInvariance, PTL DEF Spec
=============================================================================
