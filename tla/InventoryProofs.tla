--------------------------- MODULE InventoryProofs ---------------------------
(***************************************************************************)
(* What holds of an inventory for any repository, page size and number of  *)
(* pushes, deletions, failures and expired tokens.  InvInv says how far    *)
(* the listing and the depth-first reading have come: what lies behind the *)
(* cursor is listed, what was read is closed but for the path, and each    *)
(* manifest of the path is reached from those before it.                   *)
(***************************************************************************)
EXTENDS Inventory, RegistryContentProofs, FiniteSetTheorems, SequenceTheorems

(* What can be reached from the tags inspected so far.                     *)
Found == UNION {Reach[inv[t]] : t \in {u \in Tags : inv[u] # None}}

RegistryInv == Safe!TypeOK /\ Safe!Intact

ListInv ==
    /\ phase = "list" => always \subseteq Existing /\ Existing \subseteq sometime
    /\ phase = "list" => \A t \in always : t <= cursor => t \in listed
    /\ phase = "list" => (cursor = 0 /\ listed = {}) \/ cursor \in listed
    /\ phase \in {"inspect", "done"} => always \subseteq listed
    /\ listed \subseteq sometime
    /\ drops = 0 /\ phase # "failed" => listed \subseteq Existing

PathInv ==
    /\ \A i \in 1..Len(path) :
           /\ path[i].manifest \in Found
           /\ path[i].left \subseteq Children[path[i].manifest]
           /\ Children[path[i].manifest] \ path[i].left \subseteq
                  manifests \cup {path[k].manifest : k \in {i + 1} \cap (1..Len(path))}
    /\ \A i, k \in 1..Len(path) :
           i <= k => path[k].manifest \in Reach[path[i].manifest]

ReadInv ==
    /\ phase = "list" => left = {} /\ (\A t \in Tags : inv[t] = None) /\ path = <<>> /\ manifests = {}
    /\ left \subseteq listed
    /\ phase \in {"inspect", "done"} =>
           \A t \in Tags : inv[t] # None <=> t \in listed \ left
    /\ phase = "done" => left = {} /\ path = <<>>
    /\ manifests \subseteq Found
    /\ \A m \in manifests : Children[m] \subseteq manifests
    /\ \A t \in Tags : inv[t] # None =>
           inv[t] \in manifests \/ (path # <<>> /\ inv[t] = path[1].manifest)
    /\ drops = 0 => Found \subseteq present

SessionInv == token = "expired" => faults > 0

InvInv ==
    /\ TypeOK
    /\ RegistryInv
    /\ ListInv
    /\ PathInv
    /\ ReadInv
    /\ SessionInv
    /\ FailureExplained

-----------------------------------------------------------------------------
(* The path of the depth-first reading.                                    *)
LEMMA WithoutPath ==
    ASSUME path \in Seq(Frame), path # <<>>, NEW c
    PROVE  /\ Len(path) \in Nat \ {0} /\ Top \in Frame
           /\ Without(c) \in Seq(Frame) /\ Len(Without(c)) = Len(path)
           /\ \A i \in 1..Len(path) : Without(c)[i].manifest = path[i].manifest
           /\ \A i \in 1..Len(path) :
                  Without(c)[i].left = IF i = Len(path) THEN Top.left \ {c} ELSE path[i].left
<1>1. Len(path) \in Nat \ {0}
  BY EmptySeq
<1>2. Top \in Frame /\ \A i \in 1..Len(path) : path[i] \in Frame
  BY <1>1, ElementOfSeq DEF Top
<1> DEFINE e == [Top EXCEPT !.left = @ \ {c}]
<1>3. e \in Frame /\ e.manifest = Top.manifest /\ e.left = Top.left \ {c}
  BY <1>2 DEF Frame
<1> HIDE DEF e
<1>4. /\ [path EXCEPT ![Len(path)] = e] \in Seq(Frame)
      /\ Len([path EXCEPT ![Len(path)] = e]) = Len(path)
      /\ \A i \in 1..Len(path) : [path EXCEPT ![Len(path)] = e][i] = IF i = Len(path) THEN e ELSE path[i]
  BY <1>1, <1>3, ExceptSeq
<1>5. Without(c) = [path EXCEPT ![Len(path)] = e]
  BY DEF Without, e
<1> QED
  BY <1>1, <1>2, <1>3, <1>4, <1>5 DEF Top

LEMMA BelowPath ==
    ASSUME path \in Seq(Frame), path # <<>>
    PROVE  /\ Below \in Seq(Frame) /\ Len(Below) = Len(path) - 1
           /\ \A i \in 1..Len(Below) : Below[i] = path[i]
<1>1. Len(path) \in Nat \ {0}
  BY EmptySeq
<1>2. \A i \in 1..(Len(path) - 1) : path[i] \in Frame
  BY <1>1, ElementOfSeq
<1>3. /\ Below \in Seq(Frame)
      /\ Len(Below) = IF 1 <= Len(path) - 1 THEN Len(path) - 1 - 1 + 1 ELSE 0
      /\ \A i \in 1..(Len(path) - 1 - 1 + 1) : Below[i] = path[1 + i - 1]
  BY <1>1, <1>2, SubSeqProperties DEF Below
<1>4. Len(Below) = Len(path) - 1
  <2> DEFINE n == Len(path)
  <2>1. n \in Nat /\ n # 0
    BY <1>1
  <2>2. Len(Below) = IF 1 <= n - 1 THEN n - 1 - 1 + 1 ELSE 0
    BY <1>3
  <2> HIDE DEF n
  <2>3. \A l : l = (IF 1 <= n - 1 THEN n - 1 - 1 + 1 ELSE 0) => l = n - 1
    BY <2>1
  <2>4. Len(Below) = n - 1
    BY <2>2, <2>3
  <2> QED
    BY <2>4 DEF n
<1>5. ASSUME NEW i \in 1..Len(Below)
      PROVE  Below[i] = path[i]
  <2>1. i \in 1..(Len(path) - 1 - 1 + 1) /\ 1 + i - 1 = i
    BY <1>1, <1>4
  <2> QED
    BY <1>3, <2>1
<1> QED
  BY <1>3, <1>4, <1>5

LEMMA AppendPath ==
    ASSUME NEW p \in Seq(Frame), NEW f \in Frame
    PROVE  /\ Append(p, f) \in Seq(Frame) /\ Len(Append(p, f)) = Len(p) + 1
           /\ Len(p) \in Nat /\ Append(p, f) # <<>>
           /\ Append(p, f)[Len(p) + 1] = f
           /\ \A i \in 1..Len(p) : Append(p, f)[i] = p[i]
  OBVIOUS

-----------------------------------------------------------------------------
(* Pages.  What comes before the last tag of a page is on the page.        *)
LEMMA PageFacts ==
    ASSUME Safe!TypeOK, cursor \in Tags \cup {0}
    PROVE  /\ Page \subseteq After(cursor) /\ After(cursor) \subseteq Existing
           /\ Existing \subseteq Tags
           /\ \A c \in Page : \A t \in After(cursor) : t <= c => t \in Page
           /\ \A t \in Existing : t <= cursor \/ t \in After(cursor)
<1>1. /\ Page \subseteq After(cursor) /\ After(cursor) \subseteq Existing
      /\ Existing \subseteq Tags
  BY DEF Page, After, Existing
<1>2. IsFiniteSet(After(cursor)) /\ After(cursor) \subseteq Nat /\ cursor \in Nat
  <2>1. After(cursor) \in SUBSET Tags
    BY <1>1
  <2>2. IsFiniteSet(Tags) /\ Tags \subseteq Nat
    BY InventoryTypes
  <2>3. IsFiniteSet(After(cursor))
    BY <2>1, <2>2, FS_Subset
  <2>4. cursor \in Nat
    BY <2>2
  <2> QED
    BY <2>1, <2>2, <2>3, <2>4
<1>3. ASSUME NEW c \in Page, NEW t \in After(cursor), t <= c
      PROVE  t \in Page
  <2> DEFINE S == {u \in After(cursor) : u <= c}
             T == {u \in After(cursor) : u <= t}
  <2>1. IsFiniteSet(S)
    BY <1>2, FS_Subset
  <2>2. T \subseteq S
    BY <1>1, <1>2, <1>3
  <2>3. Cardinality(T) <= Cardinality(S) /\ Cardinality(T) \in Nat /\ Cardinality(S) \in Nat
    BY <2>1, <2>2, FS_Subset, FS_CardinalityType
  <2>4. Cardinality(S) <= PageSize
    BY <1>3 DEF Page
  <2>5. Cardinality(T) <= PageSize
    BY <2>3, <2>4, InventoryTypes
  <2> QED
    BY <1>3, <2>5 DEF Page
<1>4. \A t \in Existing : t <= cursor \/ t \in After(cursor)
  BY <1>1, <1>2, InventoryTypes DEF After
<1> QED
  BY <1>1, <1>3, <1>4

-----------------------------------------------------------------------------
LEMMA SameReach == Safe!Reach = Reach
  BY DEF Safe!Reach, Reach

LEMMA InitTypes == Init => TypeOK
<1> SUFFICES ASSUME Init
             PROVE  TypeOK
  OBVIOUS
<1>1. Safe!TypeOK
  <2>1. tags \in [Tags -> Manifests \cup {None}]
    BY InventoryTypes DEF Init
  <2>2. \A t \in Existing : Reach[tags[t]] \subseteq Manifests
    BY <2>1, ReachClosed DEF Existing
  <2>3. present = UNION {Reach[tags[t]] : t \in Existing}
    BY DEF Init
  <2> QED
    BY <2>1, <2>2, <2>3 DEF Safe!TypeOK
<1>2. path \in Seq(Frame)
  BY DEF Init
<1> QED
  BY <1>1, <1>2, InventoryTypes, ContentTypes DEF Init, TypeOK, Tokens, ServerKinds, Existing

LEMMA RegistryTypes ==
    ASSUME TypeOK, \/ \E t \in Tags, m \in Manifests : Put(t, m)
                   \/ \E m \in Manifests : Drop(m)
    PROVE  TypeOK'
<1>1. tags \in [Tags -> Manifests \cup {None}] /\ present \in SUBSET Manifests
  BY DEF TypeOK, Safe!TypeOK
<1>2. ASSUME NEW t \in Tags, NEW m \in Manifests, Put(t, m)
      PROVE  Safe!TypeOK'
  <2>1. /\ present' = present \cup Reach[m] /\ Reach[m] \subseteq Manifests
        /\ tags' = [tags EXCEPT ![t] = m]
    <3>1. Safe!Put(t, m)
      BY <1>2 DEF Put
    <3> QED
      BY <3>1, ReachClosed, SameReach DEF Safe!Put
  <2>2. tags' \in [Tags -> Manifests \cup {None}]
    BY <1>1, <2>1
  <2> QED
    BY <1>1, <2>1, <2>2 DEF Safe!TypeOK
<1>3. ASSUME NEW m \in Manifests, Drop(m)
      PROVE  Safe!TypeOK'
  BY <1>1, <1>3 DEF Drop, Safe!Drop, Safe!TypeOK
<1>4. Safe!TypeOK'
  BY <1>2, <1>3
<1>5. always' \in SUBSET Tags /\ sometime' \in SUBSET Tags
  BY DEF Put, Drop, Remember, history, TypeOK
<1>6. /\ puts' \in Nat /\ drops' \in Nat
      /\ UNCHANGED <<faults, sessionVars, phase, listVars, readVars>>
  BY DEF Put, Drop, TypeOK
<1> QED
  BY <1>4, <1>5, <1>6 DEF TypeOK, sessionVars, listVars, readVars

LEMMA ClientTypes ==
    ASSUME TypeOK, ClientStep \/ TokenExpires \/ RequestFails
    PROVE  TypeOK'
<1> USE DEF TypeOK, registryVars, sessionVars, listVars, readVars, history, Safe!TypeOK
<1>1. CASE Challenge \/ FetchToken \/ TokenExpires
  BY <1>1 DEF Challenge, FetchToken, TokenExpires, Tokens
<1>2. CASE Refused \/ RequestFails \/ RepeatedLink \/ Missing
  BY <1>2 DEF Refused, RequestFails, RepeatedLink, Missing, Fail, Tokens
<1>3. CASE ReadPage
  <2>1. Page \subseteq Tags
    BY DEF Page, After, Existing
  <2>2. listed' \in SUBSET Tags /\ cursor' \in Tags \cup {0} /\ left' \in SUBSET Tags
    BY <1>3, <2>1 DEF ReadPage, StartInspecting
  <2>3. phase' \in {"list", "inspect"} /\ token' \in Tokens
    BY <1>3 DEF ReadPage, StartInspecting, Tokens
  <2> QED
    BY <1>3, <2>2, <2>3 DEF ReadPage
<1>4. CASE NoRepository
  BY <1>4 DEF NoRepository, StartInspecting, Fail, Tokens
<1>5. CASE Done
  BY <1>5 DEF Done, Tokens
<1>6. CASE Leave
  <2>1. path # <<>>
    BY <1>6 DEF Leave, Deep
  <2>2. Below \in Seq(Frame) /\ Top \in Frame
    BY <2>1, BelowPath, WithoutPath
  <2>3. Top.manifest \in Manifests
    BY <2>2 DEF Frame
  <2> QED
    BY <1>6, <2>2, <2>3 DEF Leave
<1>7. ASSUME NEW c \in Manifests, Known(c)
      PROVE  TypeOK'
  <2>1. path # <<>>
    BY <1>7 DEF Known, Deep
  <2> QED
    BY <1>7, <2>1, WithoutPath DEF Known
<1>8. ASSUME NEW p \in Seq(Frame), NEW m \in Manifests, Enter(p, m)
      PROVE  path' \in Seq(Frame)
  <2>1. [manifest |-> m, left |-> References(m)] \in Frame
    BY ContentTypes DEF Frame, References
  <2> QED
    BY <1>8, <2>1, AppendPath DEF Enter
<1>9. ASSUME NEW c \in Manifests, InspectReference(c)
      PROVE  TypeOK'
  <2>1. path # <<>>
    BY <1>9 DEF InspectReference, Deep
  <2>2. path' \in Seq(Frame)
    BY <1>8, <1>9, <2>1, WithoutPath DEF InspectReference
  <2> QED
    BY <1>9, <2>2 DEF InspectReference, NextRequest
<1>10. ASSUME NEW t \in left, InspectTag(t)
       PROVE  TypeOK'
  <2>1. tags[t] \in Manifests
    BY <1>10 DEF InspectTag
  <2>2. path' \in Seq(Frame)
    <3>1. <<>> \in Seq(Frame)
      OBVIOUS
    <3> QED
      BY <1>8, <1>10, <2>1, <3>1 DEF InspectTag
  <2> QED
    BY <1>10, <2>1, <2>2 DEF InspectTag, NextRequest
<1> QED
  BY <1>1, <1>2, <1>3, <1>4, <1>5, <1>6, <1>7, <1>9, <1>10 DEF ClientStep

LEMMA TypeStep == TypeOK /\ [Next]_vars => TypeOK'
<1>1. TypeOK /\ UNCHANGED vars => TypeOK'
  BY DEF vars, TypeOK, registryVars, sessionVars, listVars, readVars, history, Safe!TypeOK
<1> QED
  BY <1>1, RegistryTypes, ClientTypes DEF Next

-----------------------------------------------------------------------------
LEMMA InitInv == Init => InvInv
<1> SUFFICES ASSUME Init
             PROVE  InvInv
  OBVIOUS
<1>1. TypeOK
  BY InitTypes
<1>2. RegistryInv
  <2>1. ASSUME NEW t \in Tags, tags[t] # None
        PROVE  Reach[tags[t]] \subseteq present
    BY <2>1 DEF Init, Existing
  <2> QED
    BY <1>1, <2>1, SameReach DEF TypeOK, RegistryInv, Safe!Intact
<1>3. ListInv
  BY InventoryTypes DEF Init, ListInv, Existing
<1>4. PathInv
  BY DEF Init, PathInv
<1>5. ReadInv
  <2>1. Found = {}
    BY DEF Init, Found
  <2> QED
    BY <2>1 DEF Init, ReadInv
<1>6. SessionInv /\ FailureExplained
  BY DEF Init, SessionInv, FailureExplained
<1> QED
  BY <1>1, <1>2, <1>3, <1>4, <1>5, <1>6 DEF InvInv

(* Pushes and legal deletions keep the registry intact.                    *)
LEMMA RegistryStep == TypeOK /\ RegistryInv /\ [Next]_vars => RegistryInv'
<1> SUFFICES ASSUME TypeOK, RegistryInv, [Next]_vars
             PROVE  RegistryInv'
  OBVIOUS
<1>1. Safe!TypeOK'
  BY TypeStep DEF TypeOK
<1>2. ASSUME NEW t \in Tags, tags[t] # None
      PROVE  Reach[tags[t]] \subseteq present
  BY <1>2, SameReach DEF RegistryInv, Safe!Intact
<1>3. ASSUME NEW t \in Tags, NEW m \in Manifests, Put(t, m)
      PROVE  Safe!Intact'
  <2>1. /\ present' = present \cup Reach[m]
        /\ tags' = [tags EXCEPT ![t] = m]
    <3>1. Safe!Put(t, m)
      BY <1>3 DEF Put
    <3> QED
      BY <3>1, SameReach DEF Safe!Put
  <2>2. tags \in [Tags -> Manifests \cup {None}]
    BY DEF TypeOK, Safe!TypeOK
  <2>3. ASSUME NEW u \in Tags, tags'[u] # None
        PROVE  Reach[tags'[u]] \subseteq present'
    BY <1>2, <2>1, <2>2, <2>3
  <2> QED
    BY <2>3, SameReach DEF Safe!Intact
<1>4. ASSUME NEW m \in Manifests, Drop(m)
      PROVE  Safe!Intact'
  <2>1. Safe!Drop(m)
    BY <1>4 DEF Drop
  <2>2. ASSUME NEW u \in Tags, tags'[u] # None
        PROVE  Reach[tags'[u]] \subseteq present'
    BY <1>2, <2>1, <2>2, SameReach DEF Safe!Drop
  <2> QED
    BY <2>2, SameReach DEF Safe!Intact
<1>5. ASSUME present' = present, tags' = tags
      PROVE  Safe!Intact'
  <2>1. \A t \in Tags : tags'[t] # None => Reach[tags'[t]] \subseteq present'
    BY <1>2, <1>5
  <2> QED
    BY <2>1, SameReach DEF Safe!Intact
<1>6. Safe!Intact'
  <2>1. CASE ClientStep \/ TokenExpires \/ RequestFails \/ UNCHANGED vars
    <3>1. present' = present /\ tags' = tags
      BY <2>1 DEF ClientStep, Challenge, FetchToken, Refused, ReadPage, RepeatedLink,
                  NoRepository, InspectTag, Known, InspectReference, Missing, Leave, Done,
                  TokenExpires, RequestFails, Fail, vars, registryVars
    <3> QED
      BY <1>5, <3>1
  <2> QED
    BY <1>3, <1>4, <2>1 DEF Next
<1> QED
  BY <1>1, <1>6 DEF RegistryInv

-----------------------------------------------------------------------------
(* What each kind of step leaves alone, first that of authentication.      *)
LEMMA QuietFrame ==
    ASSUME Challenge \/ FetchToken \/ TokenExpires \/ UNCHANGED vars
    PROVE  /\ UNCHANGED <<present, tags, puts, drops, phase, cursor, listed, left, inv, path>>
           /\ UNCHANGED <<manifests, always, sometime, server, auth>>
  BY DEF Challenge, FetchToken, TokenExpires, vars, registryVars, listVars, readVars,
         history, sessionVars

(* The steps that end in failure.                                          *)
Failing ==
    \/ Refused \/ RequestFails \/ RepeatedLink \/ Missing
    \/ (NoRepository /\ cursor # 0)

LEMMA FailingFrame ==
    ASSUME Failing
    PROVE  /\ phase' = "failed" /\ token' = "none"
           /\ UNCHANGED <<present, tags, puts, drops, cursor, listed, left, inv, path>>
           /\ UNCHANGED <<manifests, always, sometime, server, auth>>
  BY DEF Failing, Refused, RequestFails, RepeatedLink, Missing, NoRepository, Fail,
         registryVars, listVars, readVars, history

(* The steps that read.                                                    *)
Reading ==
    \/ \E t \in left : InspectTag(t)
    \/ \E c \in Manifests : Known(c) \/ InspectReference(c)
    \/ Leave \/ Done

LEMMA ReadingFrame ==
    ASSUME Reading
    PROVE  /\ phase = "inspect" /\ phase' \in {"inspect", "done"}
           /\ UNCHANGED <<present, tags, puts, drops, faults, cursor, listed>>
           /\ UNCHANGED <<always, sometime, server, auth>>
           /\ token' \in {token, "none"}
  BY DEF Reading, InspectTag, Known, InspectReference, Leave, Done, Deep, NextRequest,
         registryVars, listVars, readVars, history, sessionVars

(* The steps of the registry's other users.                                *)
Changing == (\E t \in Tags, m \in Manifests : Put(t, m)) \/ (\E m \in Manifests : Drop(m))

LEMMA ChangingFrame ==
    ASSUME Changing
    PROVE  /\ UNCHANGED <<phase, cursor, listed, left, inv, path, manifests>>
           /\ UNCHANGED <<server, auth, token, faults>>
  BY DEF Changing, Put, Drop, listVars, readVars, sessionVars

LEMMA Steps ==
    ASSUME [Next]_vars
    PROVE  \/ Challenge \/ FetchToken \/ TokenExpires \/ UNCHANGED vars
           \/ Failing \/ Reading \/ Changing
           \/ ReadPage \/ (NoRepository /\ cursor = 0)
<1>1. CASE ClientStep
  <2>1. CASE NoRepository /\ ~(cursor = 0)
    BY <2>1 DEF Failing
  <2>2. Refused \/ RepeatedLink \/ Missing => Failing
    BY DEF Failing
  <2>3. Leave \/ Done \/ (\E t \in left : InspectTag(t)) => Reading
    BY DEF Reading
  <2>4. (\E c \in Manifests : Known(c) \/ InspectReference(c)) => Reading
    BY DEF Reading
  <2> QED
    BY <1>1, <2>1, <2>2, <2>3, <2>4 DEF ClientStep
<1>2. CASE (\E t \in Tags, m \in Manifests : Put(t, m)) \/ (\E m \in Manifests : Drop(m))
  BY <1>2 DEF Changing
<1>3. CASE TokenExpires \/ RequestFails \/ UNCHANGED vars
  BY <1>3 DEF Failing
<1> QED
  BY <1>1, <1>2, <1>3 DEF Next

-----------------------------------------------------------------------------
(* The first request of an inventory that finds no repository.             *)
LEMMA NoRepositoryFrame ==
    ASSUME NoRepository, cursor = 0
    PROVE  /\ phase = "list" /\ phase' = "inspect" /\ Existing = {} /\ left' = {}
           /\ UNCHANGED <<present, tags, puts, drops, faults, cursor, listed, inv, path>>
           /\ UNCHANGED <<manifests, always, sometime, server, auth>>
           /\ token' \in {token, "none"}
  BY DEF NoRepository, StartInspecting, registryVars, history

(* The listing.                                                            *)
LEMMA ListStep == TypeOK /\ ListInv /\ [Next]_vars => ListInv'
<1> SUFFICES ASSUME TypeOK, ListInv, [Next]_vars
             PROVE  ListInv'
  OBVIOUS
<1>1. TypeOK' /\ Existing \subseteq Tags /\ drops \in Nat
  BY TypeStep DEF TypeOK, Existing
<1>2. CASE Challenge \/ FetchToken \/ TokenExpires \/ UNCHANGED vars
  <2>1. UNCHANGED <<tags, drops, phase, cursor, listed, always, sometime>>
    BY <1>2, QuietFrame
  <2> QED
    BY <2>1 DEF ListInv, Existing
<1>3. CASE Failing
  <2>1. phase' = "failed" /\ UNCHANGED <<tags, drops, cursor, listed, always, sometime>>
    BY <1>3, FailingFrame
  <2> QED
    BY <2>1 DEF ListInv
<1>4. CASE Reading
  <2>1. /\ phase = "inspect" /\ phase' \in {"inspect", "done"}
        /\ UNCHANGED <<tags, drops, cursor, listed, always, sometime>>
    BY <1>4, ReadingFrame
  <2> QED
    BY <2>1 DEF ListInv, Existing
<1>5. CASE Changing
  <2>1. UNCHANGED <<phase, cursor, listed>>
    BY <1>5, ChangingFrame
  <2>2. /\ phase = "list" => always' = always \cap Existing' /\ sometime' = sometime \cup Existing'
        /\ phase # "list" => UNCHANGED <<always, sometime>>
    BY <1>5 DEF Changing, Put, Drop, Remember, history, Existing
  <2>3. drops' = 0 => drops = 0 /\ Existing \subseteq Existing'
    <3>1. ASSUME NEW t \in Tags, NEW m \in Manifests, Put(t, m)
          PROVE  drops' = drops /\ Existing \subseteq Existing'
      <4>1. tags' = [tags EXCEPT ![t] = m] /\ tags \in [Tags -> Manifests \cup {None}]
        BY <3>1 DEF Put, Safe!Put, TypeOK, Safe!TypeOK
      <4> QED
        BY <3>1, <4>1, ContentTypes DEF Put, Existing
    <3>2. ASSUME NEW m \in Manifests, Drop(m)
          PROVE  drops' # 0
      BY <1>1, <3>2 DEF Drop
    <3> QED
      BY <1>5, <3>1, <3>2 DEF Changing
  <2> QED
    BY <2>1, <2>2, <2>3 DEF ListInv
<1>6. CASE NoRepository /\ cursor = 0
  <2>1. /\ phase = "list" /\ phase' = "inspect" /\ Existing = {}
        /\ UNCHANGED <<tags, drops, cursor, listed, always, sometime>>
    BY <1>6, NoRepositoryFrame
  <2> QED
    BY <2>1 DEF ListInv, Existing
<1>7. CASE ReadPage
  <2>1. /\ phase = "list" /\ listed' = listed \cup Page
        /\ UNCHANGED <<tags, drops, always, sometime>>
    BY <1>7 DEF ReadPage, registryVars, history
  <2>2. /\ Page \subseteq After(cursor) /\ After(cursor) \subseteq Existing
        /\ \A c \in Page : \A t \in After(cursor) : t <= c => t \in Page
        /\ \A t \in Existing : t <= cursor \/ t \in After(cursor)
    BY PageFacts DEF TypeOK
  <2>3. listed' \subseteq sometime' /\ (drops' = 0 => listed' \subseteq Existing')
    BY <2>1, <2>2 DEF ListInv, Existing
  <2>4. CASE More
    <3>1. cursor' \in Page /\ phase' = "list"
      BY <1>7, <2>1, <2>4 DEF ReadPage
    <3>2. \A t \in always' : t <= cursor' => t \in listed'
      BY <2>1, <2>2, <3>1 DEF ListInv
    <3> QED
      BY <2>1, <2>3, <3>1, <3>2 DEF ListInv, Existing
  <2>5. CASE ~More
    <3>1. phase' = "inspect" /\ cursor' = cursor /\ After(cursor) = Page
      BY <1>7, <2>5 DEF ReadPage, StartInspecting, More
    <3>2. always' \subseteq listed'
      BY <2>1, <2>2, <3>1 DEF ListInv
    <3> QED
      BY <2>1, <2>3, <3>1, <3>2 DEF ListInv
  <2> QED
    BY <2>4, <2>5
<1> QED
  BY <1>2, <1>3, <1>4, <1>5, <1>6, <1>7, Steps

-----------------------------------------------------------------------------
(* What is being read has been found, and stays found.                     *)
LEMMA FoundFacts ==
    ASSUME TypeOK
    PROVE  /\ Found \subseteq Manifests
           /\ \A m \in Found : m \in Manifests /\ Children[m] \subseteq Found
           /\ \A t \in Tags : inv[t] # None => inv[t] \in Found
<1>1. \A t \in Tags : inv[t] # None => inv[t] \in Manifests
  BY DEF TypeOK
<1>2. ASSUME NEW m \in Found
      PROVE  m \in Manifests /\ Children[m] \subseteq Found
  <2>1. PICK t \in Tags : inv[t] # None /\ m \in Reach[inv[t]]
    BY DEF Found
  <2>2. m \in Manifests /\ Children[m] \subseteq Reach[inv[t]]
    BY <1>1, <2>1, ReachClosed, ReachChildren
  <2> QED
    BY <2>1, <2>2 DEF Found
<1>3. \A t \in Tags : inv[t] # None => inv[t] \in Found
  BY <1>1, ReachClosed DEF Found
<1> QED
  BY <1>2, <1>3

(* Where a reference of the path leads.                                    *)
LEMMA TopFacts ==
    ASSUME TypeOK, PathInv, path # <<>>
    PROVE  /\ Len(path) \in Nat \ {0} /\ Top \in Frame
           /\ Top.manifest \in Found /\ Top.manifest \in Manifests
           /\ Top.left \subseteq Children[Top.manifest] /\ Top.left \subseteq Found
           /\ Children[Top.manifest] \ Top.left \subseteq manifests
           /\ \A i \in 1..Len(path) :
                  path[i].manifest \in Manifests /\ Top.manifest \in Reach[path[i].manifest]
           /\ Top.left \cap Visiting = {}
<1>1. Len(path) \in Nat \ {0} /\ Top \in Frame
  BY WithoutPath DEF TypeOK
<1>2. Len(path) \in 1..Len(path) /\ Len(path) + 1 \notin 1..Len(path)
  BY <1>1
<1>3. /\ Top.manifest \in Found /\ Top.left \subseteq Children[Top.manifest]
      /\ Children[Top.manifest] \ Top.left \subseteq
             manifests \cup {path[k].manifest : k \in {Len(path) + 1} \cap (1..Len(path))}
  BY <1>2 DEF PathInv, Top
<1>4. Children[Top.manifest] \ Top.left \subseteq manifests
  BY <1>2, <1>3
<1>5. Top.manifest \in Manifests /\ Top.left \subseteq Found
  BY <1>3, FoundFacts
<1>6. \A i \in 1..Len(path) :
          path[i].manifest \in Manifests /\ Top.manifest \in Reach[path[i].manifest]
  <2>1. ASSUME NEW i \in 1..Len(path)
        PROVE  path[i].manifest \in Manifests /\ Top.manifest \in Reach[path[i].manifest]
    <3>1. path[i].manifest \in Found /\ i <= Len(path)
      BY <1>1 DEF PathInv
    <3>2. path[Len(path)].manifest \in Reach[path[i].manifest]
      BY <1>2, <3>1 DEF PathInv
    <3> QED
      BY <3>1, <3>2, FoundFacts DEF Top
  <2> QED
    BY <2>1
<1>7. ASSUME NEW c \in Top.left, c \in Visiting
      PROVE  FALSE
  <2>1. PICK i \in 1..Len(path) : path[i].manifest = c
    BY <1>7 DEF Visiting
  <2> QED
    BY <1>3, <1>5, <1>6, <2>1, ReferencesAreAcyclic
<1> QED
  BY <1>1, <1>3, <1>4, <1>5, <1>6, <1>7

(* A step down the tree.                                                   *)
LEMMA PathInspect ==
    ASSUME TypeOK, PathInv, NEW c \in Manifests, InspectReference(c)
    PROVE  PathInv' /\ path' # <<>> /\ path'[1].manifest = path[1].manifest
<1> DEFINE n == Len(path)
           f == [manifest |-> c, left |-> Children[c]]
<1>1. /\ path # <<>> /\ c \in Top.left /\ c \notin manifests
      /\ path' = Append(Without(c), f) /\ manifests' = manifests /\ inv' = inv
  BY DEF InspectReference, Deep, Enter, References
<1>2. /\ Without(c) \in Seq(Frame) /\ Len(Without(c)) = n /\ n \in Nat \ {0}
      /\ \A i \in 1..n : Without(c)[i].manifest = path[i].manifest
      /\ \A i \in 1..n :
             Without(c)[i].left = IF i = n THEN Top.left \ {c} ELSE path[i].left
  BY <1>1, WithoutPath DEF TypeOK
<1>3. f \in Frame /\ f.manifest = c /\ f.left = Children[c]
  BY ContentTypes DEF Frame
<1> HIDE DEF f
<1>4. /\ Len(path') = n + 1 /\ path' # <<>> /\ path'[n + 1] = f
      /\ \A i \in 1..n : path'[i] = Without(c)[i]
  BY <1>1, <1>2, <1>3, AppendPath
<1>5. /\ Top.manifest \in Manifests /\ c \in Children[Top.manifest] /\ c \in Found
      /\ Children[Top.manifest] \ Top.left \subseteq manifests
      /\ \A i \in 1..n :
             path[i].manifest \in Manifests /\ Top.manifest \in Reach[path[i].manifest]
  BY <1>1, TopFacts
<1>6. Found' = Found
  BY <1>1 DEF Found
<1> HIDE DEF n
<1>7. 1..(n + 1) = (1..n) \cup {n + 1} /\ n + 1 \notin 1..n /\ n \in 1..n /\ 1 \in 1..n
  BY <1>2
<1>8. ASSUME NEW i \in 1..n
      PROVE  /\ path'[i].manifest = path[i].manifest
             /\ path'[i].left = IF i = n THEN Top.left \ {c} ELSE path[i].left
             /\ path[i].manifest \in Found
             /\ path[i].left \subseteq Children[path[i].manifest]
             /\ Children[path[i].manifest] \ path[i].left \subseteq
                    manifests \cup {path[k].manifest : k \in {i + 1} \cap (1..n)}
  BY <1>2, <1>4 DEF PathInv, n
<1>9. path'[n + 1].manifest = c /\ path'[n + 1].left = Children[c]
  BY <1>3, <1>4
<1>10. ASSUME NEW i \in 1..(n + 1)
       PROVE  /\ path'[i].manifest \in Found
              /\ path'[i].left \subseteq Children[path'[i].manifest]
              /\ Children[path'[i].manifest] \ path'[i].left \subseteq
                     manifests \cup {path'[k].manifest : k \in {i + 1} \cap (1..(n + 1))}
  <2>1. CASE i = n + 1
    BY <1>5, <1>9, <2>1
  <2>2. CASE i = n
    <3>1. path[n] = Top /\ n + 1 \in {i + 1} \cap (1..(n + 1))
      BY <1>7, <2>2 DEF Top, n
    <3>2. c \in {path'[k].manifest : k \in {i + 1} \cap (1..(n + 1))}
      BY <1>9, <3>1
    <3>3. Children[path'[i].manifest] \ path'[i].left \subseteq manifests \cup {c}
      BY <1>5, <1>7, <1>8, <2>2, <3>1
    <3>4. path'[i].manifest \in Found /\ path'[i].left \subseteq Children[path'[i].manifest]
      BY <1>7, <1>8, <2>2, <3>1
    <3> QED
      BY <3>2, <3>3, <3>4
  <2>3. CASE i \in 1..n /\ i # n
    <3>1. i + 1 \in 1..n /\ i + 1 \in 1..(n + 1)
      BY <1>2, <2>3
    <3>2. path'[i + 1].manifest = path[i + 1].manifest
      BY <1>8, <3>1
    <3> QED
      BY <1>8, <2>3, <3>1, <3>2
  <2> QED
    BY <1>7, <2>1, <2>2, <2>3
<1>11. ASSUME NEW i \in 1..(n + 1), NEW k \in 1..(n + 1), i <= k
       PROVE  path'[k].manifest \in Reach[path'[i].manifest]
  <2>1. CASE k \in 1..n
    <3>1. i \in 1..n
      BY <1>2, <1>11, <2>1
    <3>2. path[k].manifest \in Reach[path[i].manifest]
      BY <1>11, <2>1, <3>1 DEF PathInv, n
    <3> QED
      BY <1>8, <2>1, <3>1, <3>2
  <2>2. CASE k = n + 1 /\ i \in 1..n
    <3>1. Children[Top.manifest] \subseteq Reach[path[i].manifest]
      BY <1>5, <2>2, ReachChildren
    <3> QED
      BY <1>5, <1>8, <1>9, <2>2, <3>1
  <2>3. CASE k = n + 1 /\ i = n + 1
    BY <1>9, <2>3, ReachClosed
  <2> QED
    BY <1>7, <2>1, <2>2, <2>3
<1>12. PathInv'
  <2>1. /\ \A i \in 1..Len(path') :
               /\ path'[i].manifest \in Found'
               /\ path'[i].left \subseteq Children[path'[i].manifest]
               /\ Children[path'[i].manifest] \ path'[i].left \subseteq
                      manifests' \cup {path'[k].manifest : k \in {i + 1} \cap (1..Len(path'))}
        /\ \A i, k \in 1..Len(path') :
               i <= k => path'[k].manifest \in Reach[path'[i].manifest]
    BY <1>1, <1>4, <1>6, <1>10, <1>11
  <2> QED
    BY <2>1 DEF PathInv
<1> QED
  BY <1>4, <1>7, <1>8, <1>12

(* A reference that is known.                                              *)
LEMMA PathKnown ==
    ASSUME TypeOK, PathInv, NEW c \in Manifests, Known(c)
    PROVE  PathInv' /\ path' # <<>> /\ path'[1].manifest = path[1].manifest
<1> DEFINE n == Len(path)
<1>1. /\ path # <<>> /\ c \in Top.left /\ c \in manifests
      /\ path' = Without(c) /\ manifests' = manifests /\ inv' = inv
  BY DEF Known, Deep
<1>2. /\ Len(path') = n /\ n \in Nat \ {0} /\ path' \in Seq(Frame)
      /\ \A i \in 1..n : path'[i].manifest = path[i].manifest
      /\ \A i \in 1..n :
             path'[i].left = IF i = n THEN Top.left \ {c} ELSE path[i].left
  BY <1>1, WithoutPath DEF TypeOK
<1>3. path' # <<>>
  BY <1>2
<1>4. Found' = Found
  BY <1>1 DEF Found
<1> HIDE DEF n
<1>5. n \in 1..n /\ 1 \in 1..n
  BY <1>2
<1>6. ASSUME NEW i \in 1..n
      PROVE  /\ path'[i].manifest \in Found
             /\ path'[i].left \subseteq Children[path'[i].manifest]
             /\ Children[path'[i].manifest] \ path'[i].left \subseteq
                    manifests \cup {path'[k].manifest : k \in {i + 1} \cap (1..n)}
  <2>1. /\ path[i].manifest \in Found
        /\ path[i].left \subseteq Children[path[i].manifest]
        /\ Children[path[i].manifest] \ path[i].left \subseteq
               manifests \cup {path[k].manifest : k \in {i + 1} \cap (1..n)}
    BY DEF PathInv, n
  <2>2. {path'[k].manifest : k \in {i + 1} \cap (1..n)} = {path[k].manifest : k \in {i + 1} \cap (1..n)}
    BY <1>2
  <2>3. path[i].left \ {c} \subseteq path'[i].left /\ path'[i].left \subseteq path[i].left
    BY <1>2 DEF Top, n
  <2> QED
    BY <1>1, <1>2, <2>1, <2>2, <2>3
<1>7. ASSUME NEW i \in 1..n, NEW k \in 1..n, i <= k
      PROVE  path'[k].manifest \in Reach[path'[i].manifest]
  BY <1>2, <1>7 DEF PathInv, n
<1>8. PathInv'
  <2>1. /\ \A i \in 1..Len(path') :
               /\ path'[i].manifest \in Found'
               /\ path'[i].left \subseteq Children[path'[i].manifest]
               /\ Children[path'[i].manifest] \ path'[i].left \subseteq
                      manifests' \cup {path'[k].manifest : k \in {i + 1} \cap (1..Len(path'))}
        /\ \A i, k \in 1..Len(path') :
               i <= k => path'[k].manifest \in Reach[path'[i].manifest]
    BY <1>1, <1>2, <1>4, <1>6, <1>7
  <2> QED
    BY <2>1 DEF PathInv
<1> QED
  BY <1>2, <1>3, <1>5, <1>8

(* A manifest whose references are all read.                               *)
LEMMA PathLeave ==
    ASSUME TypeOK, PathInv, Leave
    PROVE  /\ PathInv'
           /\ manifests' = manifests \cup {Top.manifest} /\ Top.manifest \in Found
           /\ Children[Top.manifest] \subseteq manifests
           /\ \/ path' # <<>> /\ path'[1] = path[1]
              \/ path' = <<>> /\ path[1] = Top
<1> DEFINE n == Len(path)
<1>1. /\ path # <<>> /\ Top.left = {} /\ path' = Below
      /\ manifests' = manifests \cup {Top.manifest} /\ inv' = inv
  BY DEF Leave, Deep
<1>2. /\ n \in Nat \ {0} /\ path' \in Seq(Frame) /\ Len(path') = n - 1
      /\ \A i \in 1..(n - 1) : path'[i] = path[i]
  BY <1>1, BelowPath, WithoutPath DEF TypeOK
<1>3. Found' = Found
  BY <1>1 DEF Found
<1>4. Top.manifest \in Found /\ Children[Top.manifest] \subseteq manifests
  BY <1>1, TopFacts
<1> HIDE DEF n
<1>5. \A i \in 1..(n - 1) : i \in 1..n /\ i + 1 \in 1..n
  BY <1>2
<1>6. ASSUME NEW i \in 1..(n - 1)
      PROVE  /\ path'[i].manifest \in Found
             /\ path'[i].left \subseteq Children[path'[i].manifest]
             /\ Children[path'[i].manifest] \ path'[i].left \subseteq
                    manifests' \cup {path'[k].manifest : k \in {i + 1} \cap (1..(n - 1))}
  <2>1. /\ path[i].manifest \in Found
        /\ path[i].left \subseteq Children[path[i].manifest]
        /\ Children[path[i].manifest] \ path[i].left \subseteq
               manifests \cup {path[k].manifest : k \in {i + 1} \cap (1..n)}
    BY <1>5 DEF PathInv, n
  <2>2. CASE i + 1 = n
    <3>1. path[i + 1] = Top
      BY <2>2 DEF Top, n
    <3> QED
      BY <1>1, <1>2, <2>1, <3>1
  <2>3. CASE i + 1 # n
    <3>1. i + 1 \in 1..(n - 1)
      BY <1>2, <2>3
    <3>2. path'[i + 1] = path[i + 1]
      BY <1>2, <3>1
    <3> QED
      BY <1>1, <1>2, <2>1, <3>1, <3>2
  <2> QED
    BY <2>2, <2>3
<1>7. ASSUME NEW i \in 1..(n - 1), NEW k \in 1..(n - 1), i <= k
      PROVE  path'[k].manifest \in Reach[path'[i].manifest]
  <2>1. path[k].manifest \in Reach[path[i].manifest]
    BY <1>5, <1>7 DEF PathInv, n
  <2> QED
    BY <1>2, <2>1
<1>8. PathInv'
  <2>1. /\ \A i \in 1..Len(path') :
               /\ path'[i].manifest \in Found'
               /\ path'[i].left \subseteq Children[path'[i].manifest]
               /\ Children[path'[i].manifest] \ path'[i].left \subseteq
                      manifests' \cup {path'[k].manifest : k \in {i + 1} \cap (1..Len(path'))}
        /\ \A i, k \in 1..Len(path') :
               i <= k => path'[k].manifest \in Reach[path'[i].manifest]
    BY <1>2, <1>3, <1>6, <1>7
  <2> QED
    BY <2>1 DEF PathInv
<1>9. \/ path' # <<>> /\ path'[1] = path[1]
      \/ path' = <<>> /\ path[1] = Top
  <2>1. CASE n = 1
    <3>1. path' = <<>>
      BY <1>2, <2>1, EmptySeq
    <3> QED
      BY <2>1, <3>1 DEF Top, n
  <2>2. CASE n # 1
    <3>1. 1 \in 1..(n - 1) /\ Len(path') # 0
      BY <1>2, <2>2
    <3> QED
      BY <1>2, <3>1, EmptySeq
  <2> QED
    BY <2>1, <2>2
<1> QED
  BY <1>1, <1>4, <1>8, <1>9

(* A tag whose manifest is yet unknown.                                    *)
LEMMA PathTag ==
    ASSUME TypeOK, NEW t \in left, InspectTag(t), inv[t] = None
    PROVE  /\ PathInv'
           /\ tags[t] \in Manifests /\ inv' = [inv EXCEPT ![t] = tags[t]] /\ t \in Tags
           /\ Found' = Found \cup Reach[tags[t]]
           /\ tags[t] \in manifests' \/ (path' # <<>> /\ path'[1].manifest = tags[t])
<1>1. /\ t \in Tags /\ tags[t] \in Manifests /\ inv' = [inv EXCEPT ![t] = tags[t]]
      /\ manifests' = manifests /\ path = <<>>
  BY DEF InspectTag, TypeOK, Safe!TypeOK
<1>2. \A u \in Tags : inv'[u] = IF u = t THEN tags[t] ELSE inv[u]
  BY <1>1 DEF TypeOK
<1>3. Found' = Found \cup Reach[tags[t]]
  <2>1. tags[t] # None
    BY <1>1, ContentTypes
  <2>2. Found' = UNION {Reach[inv'[u]] : u \in {w \in Tags : inv'[w] # None}}
    BY DEF Found
  <2>3. {w \in Tags : inv'[w] # None} = {w \in Tags : inv[w] # None} \cup {t}
    BY <1>1, <1>2, <2>1
  <2> QED
    BY <1>1, <1>2, <2>1, <2>2, <2>3 DEF Found
<1>4. CASE tags[t] \in manifests
  <2>1. path' = <<>>
    BY <1>1, <1>4 DEF InspectTag
  <2> QED
    BY <1>1, <1>3, <1>4, <2>1 DEF PathInv
<1>5. CASE tags[t] \notin manifests
  <2> DEFINE f == [manifest |-> tags[t], left |-> Children[tags[t]]]
  <2>1. f \in Frame /\ f.manifest = tags[t] /\ f.left = Children[tags[t]]
    BY <1>1, ContentTypes DEF Frame
  <2>2. path' = Append(<<>>, f)
    BY <1>5 DEF InspectTag, Enter, References
  <2> HIDE DEF f
  <2>3. Len(path') = 1 /\ path' # <<>> /\ path'[1] = f
    BY <2>1, <2>2
  <2>4. f.manifest \in Found'
    BY <1>1, <1>3, <2>1, ReachClosed
  <2>5. f.manifest \in Reach[f.manifest]
    BY <1>1, <2>1, ReachClosed
  <2>6. PathInv'
    <3>1. 1..Len(path') = {1}
      BY <2>3
    <3> QED
      BY <2>1, <2>3, <2>4, <2>5, <3>1 DEF PathInv
  <2> QED
    BY <1>1, <1>3, <2>1, <2>3, <2>6
<1> QED
  BY <1>1, <1>4, <1>5

-----------------------------------------------------------------------------
(* The path and what was read, step by step.                               *)
LEMMA ReadStep ==
    TypeOK /\ RegistryInv /\ ListInv /\ PathInv /\ ReadInv /\ [Next]_vars => PathInv' /\ ReadInv'
<1> SUFFICES ASSUME TypeOK, RegistryInv, ListInv, PathInv, ReadInv, [Next]_vars
             PROVE  PathInv' /\ ReadInv'
  OBVIOUS
<1>1. CASE Challenge \/ FetchToken \/ TokenExpires \/ UNCHANGED vars
  <2>1. UNCHANGED <<present, drops, phase, listed, left, inv, path, manifests>>
    BY <1>1, QuietFrame
  <2> QED
    BY <2>1 DEF PathInv, ReadInv, Found
<1>2. CASE Failing
  <2>1. phase' = "failed" /\ UNCHANGED <<present, drops, listed, left, inv, path, manifests>>
    BY <1>2, FailingFrame
  <2> QED
    BY <2>1 DEF PathInv, ReadInv, Found
<1>3. CASE Changing
  <2>1. UNCHANGED <<phase, listed, left, inv, path, manifests>>
    BY <1>3, ChangingFrame
  <2>2. drops' = 0 => drops = 0 /\ present \subseteq present'
    <3>1. ASSUME NEW m \in Manifests, Drop(m)
          PROVE  drops' # 0
      BY <3>1 DEF Drop, TypeOK
    <3> QED
      BY <1>3, <3>1 DEF Changing, Put, Safe!Put
  <2>3. PathInv' /\ Found' = Found
    BY <2>1 DEF PathInv, Found
  <2> QED
    BY <2>1, <2>2, <2>3 DEF ReadInv
<1>4. CASE ReadPage \/ (NoRepository /\ cursor = 0)
  <2>1. /\ phase = "list" /\ UNCHANGED <<present, drops, inv, path, manifests>>
        /\ phase' \in {"list", "inspect"}
        /\ left' \subseteq listed'
        /\ phase' = "list" => left' = left
        /\ phase' = "inspect" => left' = listed'
    <3>1. CASE ReadPage
      BY <3>1 DEF ReadPage, StartInspecting, registryVars, ReadInv
    <3>2. CASE NoRepository /\ cursor = 0
      <4>1. /\ phase = "list" /\ phase' = "inspect" /\ Existing = {} /\ left' = {}
            /\ UNCHANGED <<present, drops, listed, inv, path, manifests>>
        BY <3>2, NoRepositoryFrame
      <4>2. listed = {}
        BY <3>2, <4>1, InventoryTypes DEF ListInv, TypeOK
      <4> QED
        BY <4>1, <4>2
    <3> QED
      BY <1>4, <3>1, <3>2
  <2>2. PathInv' /\ Found' = Found
    BY <2>1 DEF PathInv, Found
  <2> QED
    BY <2>1, <2>2 DEF ReadInv
<1>5. ASSUME NEW t \in left, InspectTag(t)
      PROVE  PathInv' /\ ReadInv'
  <2>1. /\ phase = "inspect" /\ UNCHANGED <<present, tags, drops, phase, listed, manifests>>
        /\ path = <<>> /\ left' = left \ {t} /\ tags[t] # None
    BY <1>5 DEF InspectTag, registryVars, listVars
  <2>2. inv[t] = None
    BY <2>1 DEF ReadInv, TypeOK
  <2>3. /\ PathInv' /\ t \in Tags
        /\ tags[t] \in Manifests /\ inv' = [inv EXCEPT ![t] = tags[t]]
        /\ Found' = Found \cup Reach[tags[t]]
        /\ tags[t] \in manifests' \/ (path' # <<>> /\ path'[1].manifest = tags[t])
    BY <1>5, <2>2, PathTag
  <2>4. \A u \in Tags : inv'[u] = IF u = t THEN tags[t] ELSE inv[u]
    BY <2>3 DEF TypeOK
  <2>5. \A u \in Tags : inv'[u] # None <=> u \in listed' \ left'
    <3>1. t \in listed /\ t \notin left'
      BY <2>1 DEF ReadInv
    <3> QED
      BY <2>1, <2>4, <3>1 DEF ReadInv
  <2>6. \A u \in Tags : inv'[u] # None =>
            inv'[u] \in manifests' \/ (path' # <<>> /\ inv'[u] = path'[1].manifest)
    BY <2>1, <2>3, <2>4 DEF ReadInv
  <2>7. drops' = 0 => Found' \subseteq present'
    <3>1. Reach[tags[t]] \subseteq present
      BY <2>1, <2>3, SameReach DEF RegistryInv, Safe!Intact
    <3> QED
      BY <2>1, <2>3, <3>1 DEF ReadInv
  <2> QED
    BY <2>1, <2>3, <2>5, <2>6, <2>7 DEF ReadInv
<1>6. ASSUME NEW c \in Manifests, Known(c) \/ InspectReference(c)
      PROVE  PathInv' /\ ReadInv'
  <2>1. /\ phase = "inspect" /\ path # <<>>
        /\ UNCHANGED <<present, drops, phase, listed, left, inv, manifests>>
    BY <1>6 DEF Known, InspectReference, Deep, registryVars, listVars
  <2>2. PathInv' /\ path' # <<>> /\ path'[1].manifest = path[1].manifest
    BY <1>6, PathKnown, PathInspect
  <2>3. Found' = Found
    BY <2>1 DEF Found
  <2> QED
    BY <2>1, <2>2, <2>3 DEF ReadInv
<1>7. CASE Leave
  <2>1. /\ phase = "inspect" /\ path # <<>>
        /\ UNCHANGED <<present, drops, phase, listed, left, inv>>
    BY <1>7 DEF Leave, Deep, registryVars, listVars
  <2>2. /\ PathInv'
        /\ manifests' = manifests \cup {Top.manifest} /\ Top.manifest \in Found
        /\ Children[Top.manifest] \subseteq manifests
        /\ \/ path' # <<>> /\ path'[1] = path[1]
           \/ path' = <<>> /\ path[1] = Top
    BY <1>7, PathLeave
  <2>3. Found' = Found
    BY <2>1 DEF Found
  <2>4. \A t \in Tags : inv'[t] # None =>
            inv'[t] \in manifests' \/ (path' # <<>> /\ inv'[t] = path'[1].manifest)
    BY <2>1, <2>2 DEF ReadInv
  <2>5. manifests' \subseteq Found' /\ \A m \in manifests' : Children[m] \subseteq manifests'
    BY <2>2, <2>3 DEF ReadInv
  <2> QED
    BY <2>1, <2>2, <2>3, <2>4, <2>5 DEF ReadInv
<1>8. CASE Done
  <2>1. /\ phase = "inspect" /\ phase' = "done" /\ path = <<>> /\ left = {}
        /\ UNCHANGED <<present, drops, listed, left, inv, path, manifests>>
    BY <1>8 DEF Done, registryVars, listVars, readVars
  <2>2. PathInv' /\ Found' = Found
    BY <2>1 DEF PathInv, Found
  <2> QED
    BY <2>1, <2>2 DEF ReadInv
<1> QED
  BY <1>1, <1>2, <1>3, <1>4, <1>5, <1>6, <1>7, <1>8, Steps DEF Reading

LEMMA SessionStep == SessionInv /\ TypeOK /\ [Next]_vars => SessionInv'
<1> SUFFICES ASSUME SessionInv, TypeOK, [Next]_vars
             PROVE  SessionInv'
  OBVIOUS
<1>1. CASE Challenge \/ FetchToken \/ TokenExpires \/ UNCHANGED vars
  BY <1>1 DEF SessionInv, Challenge, FetchToken, TokenExpires, vars, sessionVars, TypeOK
<1>2. CASE Failing
  BY <1>2, FailingFrame DEF SessionInv
<1>3. CASE Reading
  BY <1>3, ReadingFrame DEF SessionInv
<1>4. CASE Changing
  BY <1>4, ChangingFrame DEF SessionInv
<1>5. CASE NoRepository /\ cursor = 0
  BY <1>5, NoRepositoryFrame DEF SessionInv
<1>6. CASE ReadPage
  <2>1. token' \in {token, "none"} /\ faults' = faults
    BY <1>6 DEF ReadPage, StartInspecting
  <2> QED
    BY <2>1 DEF SessionInv
<1> QED
  BY <1>1, <1>2, <1>3, <1>4, <1>5, <1>6, Steps

(* Why a step fails.                                                       *)
LEMMA FailureStep == InvInv /\ [Next]_vars => FailureExplained'
<1> SUFFICES ASSUME InvInv, [Next]_vars
             PROVE  FailureExplained'
  OBVIOUS
<1> USE DEF InvInv
<1>1. faults \in Nat /\ drops \in Nat
  BY DEF TypeOK
<1>2. CASE Challenge \/ FetchToken \/ TokenExpires \/ UNCHANGED vars
  <2>1. UNCHANGED <<drops, phase, server, auth>>
    BY <1>2, QuietFrame
  <2>2. faults' = faults \/ faults' = faults + 1
    BY <1>2 DEF Challenge, FetchToken, TokenExpires, vars
  <2> QED
    BY <1>1, <2>1, <2>2 DEF FailureExplained
<1>3. CASE Reading
  <2>1. phase' # "failed"
    BY <1>3, ReadingFrame
  <2> QED
    BY <2>1 DEF FailureExplained
<1>4. CASE Changing
  <2>1. UNCHANGED <<phase, server, auth, faults>>
    BY <1>4, ChangingFrame
  <2>2. drops' = drops \/ drops' = drops + 1
    BY <1>4 DEF Changing, Put, Drop
  <2> QED
    BY <1>1, <2>1, <2>2 DEF FailureExplained
<1>5. CASE ReadPage
  <2>1. phase' # "failed"
    BY <1>5 DEF ReadPage, StartInspecting
  <2> QED
    BY <2>1 DEF FailureExplained
<1>6. CASE NoRepository /\ cursor = 0
  <2>1. phase' # "failed"
    BY <1>6, NoRepositoryFrame
  <2> QED
    BY <2>1 DEF FailureExplained
<1>7. CASE Failing
  <2>1. UNCHANGED <<drops, server, auth>>
    BY <1>7, FailingFrame
  <2>2. CASE Refused
    <3>1. faults' = faults /\ server = "private" /\ (auth = "none" \/ token = "expired")
      BY <2>2 DEF Refused
    <3> QED
      BY <2>1, <3>1 DEF SessionInv, FailureExplained
  <2>3. CASE RequestFails
    <3>1. faults' = faults + 1
      BY <2>3 DEF RequestFails
    <3> QED
      BY <1>1, <3>1 DEF FailureExplained
  <2>4. CASE RepeatedLink
    <3>1. server = "looping"
      BY <2>4 DEF RepeatedLink
    <3> QED
      BY <2>1, <3>1 DEF FailureExplained
  <2>5. CASE NoRepository /\ cursor # 0
    <3>1. phase = "list" /\ Existing = {}
      BY <2>5 DEF NoRepository
    <3>2. cursor \in listed
      BY <2>5, <3>1 DEF ListInv
    <3>3. drops # 0
      BY <3>1, <3>2 DEF ListInv
    <3> QED
      BY <1>1, <2>1, <3>3 DEF FailureExplained
  <2>6. CASE Missing
    <3>1. phase = "inspect" /\ Running
      BY <2>6 DEF Missing, Running
    <3>2. ASSUME NEW t \in left, tags[t] = None
          PROVE  drops # 0
      <4>1. t \in listed /\ t \notin Existing
        BY <3>2 DEF ReadInv, Existing
      <4> QED
        BY <3>1, <4>1 DEF ListInv
    <3>3. ASSUME path # <<>>, NEW c \in Top.left, c \notin present \/ c \in Visiting
          PROVE  drops # 0
      <4>1. c \in Found /\ c \notin Visiting
        BY <3>3, TopFacts
      <4> QED
        BY <3>3, <4>1 DEF ReadInv
    <3>4. drops # 0
      BY <2>6, <3>2, <3>3 DEF Missing, Deep
    <3> QED
      BY <1>1, <2>1, <3>4 DEF FailureExplained
  <2> QED
    BY <1>7, <2>2, <2>3, <2>4, <2>5, <2>6 DEF Failing
<1> QED
  BY <1>2, <1>3, <1>4, <1>5, <1>6, <1>7, Steps

-----------------------------------------------------------------------------
LEMMA InvInvStep == InvInv /\ [Next]_vars => InvInv'
<1> SUFFICES ASSUME InvInv, [Next]_vars
             PROVE  InvInv'
  OBVIOUS
<1>1. TypeOK' /\ RegistryInv' /\ ListInv'
  BY TypeStep, RegistryStep, ListStep DEF InvInv
<1>2. PathInv' /\ ReadInv'
  BY ReadStep DEF InvInv
<1>3. SessionInv' /\ FailureExplained'
  BY SessionStep, FailureStep DEF InvInv
<1> QED
  BY <1>1, <1>2, <1>3 DEF InvInv

LEMMA InvInvariance == Spec => []InvInv
  BY InitInv, InvInvStep, PTL DEF Spec

(* The tags, manifests and references an inventory holds are of its        *)
(* repository (registry.py:531-640).                                       *)
THEOREM InventoryTyped == Spec => []TypeOK
<1>1. InvInv => TypeOK
  BY DEF InvInv
<1> QED
  BY <1>1, InvInvariance, PTL

(* A paged listing misses no tag that was there all the time, and invents  *)
(* none, whatever the page size and however the repository changes from    *)
(* page to page (registry.py:382-422).                                     *)
THEOREM ListingIsComplete == Spec => []ListingComplete
<1>1. InvInv => ListingComplete
  BY DEF InvInv, ListInv, ListingComplete
<1> QED
  BY <1>1, InvInvariance, PTL

(* An inventory that succeeds holds everything that can be reached from    *)
(* the tags it lists, for every graph of references (registry.py:531-640). *)
THEOREM InventoryIsClosed == Spec => []InventoryClosed
<1>1. InvInv => InventoryClosed
  <2> SUFFICES ASSUME InvInv, phase = "done"
               PROVE  /\ \A t \in Tags : inv[t] # None <=> t \in listed
                      /\ manifests = UNION {Reach[inv[t]] : t \in listed}
    BY DEF InventoryClosed
  <2> USE DEF InvInv
  <2>1. \A t \in Tags : inv[t] # None <=> t \in listed
    BY DEF ReadInv
  <2>2. Found = UNION {Reach[inv[t]] : t \in listed}
    <3>1. {t \in Tags : inv[t] # None} = listed
      BY <2>1 DEF TypeOK
    <3> QED
      BY <3>1 DEF Found
  <2>3. ASSUME NEW t \in Tags, inv[t] # None
        PROVE  Reach[inv[t]] \subseteq manifests
    <3>1. inv[t] \in manifests /\ inv[t] \in Manifests /\ manifests \in SUBSET Manifests
      BY <2>3 DEF ReadInv, TypeOK
    <3>2. \A m \in manifests : Children[m] \subseteq manifests
      BY DEF ReadInv
    <3> QED
      BY <3>1, <3>2, ReachLeast
  <2>4. Found \subseteq manifests
    BY <2>3 DEF Found
  <2>5. manifests \subseteq Found
    BY DEF ReadInv
  <2> QED
    BY <2>1, <2>2, <2>4, <2>5
<1> QED
  BY <1>1, InvInvariance, PTL

(* An inventory that may read fails only for a reason that lies outside of *)
(* it: sharing and pushes never make it fail (registry.py:531-640).        *)
THEOREM FailuresExplained == Spec => []FailureExplained
<1>1. InvInv => FailureExplained
  BY DEF InvInv
<1> QED
  BY <1>1, InvInvariance, PTL

-----------------------------------------------------------------------------
(* Each manifest is opened once: those being visited are not among those   *)
(* inspected, and are all different.                                       *)
OnceInv ==
    \A i \in 1..Len(path) :
        /\ path[i].manifest \notin manifests
        /\ \A k \in 1..Len(path) : path[k].manifest = path[i].manifest => k = i

LEMMA OnceInspect ==
    ASSUME TypeOK, OnceInv, NEW c \in Manifests, InspectReference(c)
    PROVE  OnceInv' /\ Exceeds(Visiting', Visiting)
<1> DEFINE n == Len(path)
           f == [manifest |-> c, left |-> Children[c]]
<1>1. /\ path # <<>> /\ c \notin manifests /\ c \notin Visiting
      /\ path' = Append(Without(c), f) /\ manifests' = manifests
  BY DEF InspectReference, Deep, Enter, References
<1>2. /\ Without(c) \in Seq(Frame) /\ Len(Without(c)) = n /\ n \in Nat \ {0}
      /\ \A i \in 1..n : Without(c)[i].manifest = path[i].manifest
  BY <1>1, WithoutPath DEF TypeOK
<1>3. f \in Frame /\ f.manifest = c
  BY ContentTypes DEF Frame
<1> HIDE DEF f
<1>4. /\ Len(path') = n + 1
      /\ path'[n + 1].manifest = c
      /\ \A i \in 1..n : path'[i].manifest = path[i].manifest
  BY <1>1, <1>2, <1>3, AppendPath
<1>5. \A i \in 1..n :
          /\ path[i].manifest \notin manifests /\ path[i].manifest # c
          /\ \A k \in 1..n : path[k].manifest = path[i].manifest => k = i
  BY <1>1 DEF OnceInv, Visiting
<1>6. Visiting = {path[i].manifest : i \in 1..n} /\ Visiting' = {path'[i].manifest : i \in 1..(n + 1)}
  BY <1>4 DEF Visiting
<1> HIDE DEF n
<1>7. 1..(n + 1) = (1..n) \cup {n + 1} /\ n + 1 \notin 1..n
  BY <1>2
<1>8. \A i \in 1..(n + 1) :
          /\ path'[i].manifest \notin manifests
          /\ \A k \in 1..(n + 1) : path'[k].manifest = path'[i].manifest => k = i
  BY <1>1, <1>4, <1>5, <1>7
<1>9. Visiting' = Visiting \cup {c}
  BY <1>4, <1>6, <1>7
<1> QED
  BY <1>1, <1>4, <1>8, <1>9 DEF OnceInv, Exceeds

LEMMA OnceKnown ==
    ASSUME TypeOK, OnceInv, NEW c \in Manifests, Known(c)
    PROVE  OnceInv' /\ Deep /\ Visiting' = Visiting /\ Exceeds(Top.left, Top'.left)
<1>1. /\ path # <<>> /\ c \in Top.left /\ Deep
      /\ path' = Without(c) /\ manifests' = manifests
  BY DEF Known, Deep
<1>2. /\ Len(path') = Len(path) /\ Len(path) \in Nat \ {0}
      /\ \A i \in 1..Len(path) : path'[i].manifest = path[i].manifest
      /\ \A i \in 1..Len(path) :
             path'[i].left = IF i = Len(path) THEN Top.left \ {c} ELSE path[i].left
  BY <1>1, WithoutPath DEF TypeOK
<1>3. OnceInv' /\ Visiting' = Visiting
  BY <1>1, <1>2 DEF OnceInv, Visiting
<1>4. Top'.left = Top.left \ {c}
  <2>1. Top' = path'[Len(path')] /\ Len(path) \in 1..Len(path)
    BY <1>2 DEF Top
  <2> QED
    BY <1>2, <2>1
<1> QED
  BY <1>1, <1>3, <1>4 DEF Exceeds

LEMMA OnceLeave ==
    ASSUME TypeOK, OnceInv, Leave
    PROVE  OnceInv' /\ Exceeds(manifests', manifests)
<1> DEFINE n == Len(path)
<1>1. /\ path # <<>> /\ path' = Below
      /\ manifests' = manifests \cup {Top.manifest}
  BY DEF Leave, Deep
<1>2. /\ n \in Nat \ {0} /\ Len(path') = n - 1
      /\ \A i \in 1..(n - 1) : path'[i] = path[i]
  BY <1>1, BelowPath, WithoutPath DEF TypeOK
<1>3. Top = path[n]
  BY DEF Top
<1>4. \A i \in 1..n :
          /\ path[i].manifest \notin manifests
          /\ \A k \in 1..n : path[k].manifest = path[i].manifest => k = i
  BY DEF OnceInv
<1> HIDE DEF n
<1>5. n \in 1..n /\ (\A i \in 1..(n - 1) : i \in 1..n /\ i # n)
  BY <1>2
<1>6. \A i \in 1..(n - 1) :
          /\ path'[i].manifest \notin manifests'
          /\ \A k \in 1..(n - 1) : path'[k].manifest = path'[i].manifest => k = i
  BY <1>1, <1>2, <1>3, <1>4, <1>5
<1> QED
  BY <1>1, <1>2, <1>3, <1>4, <1>5, <1>6 DEF OnceInv, Exceeds

LEMMA OnceTag ==
    ASSUME TypeOK, NEW t \in left, InspectTag(t)
    PROVE  OnceInv' /\ Exceeds(left, left')
<1>1. /\ t \in Tags /\ tags[t] \in Manifests /\ left' = left \ {t}
      /\ manifests' = manifests /\ path = <<>>
  BY DEF InspectTag, TypeOK, Safe!TypeOK
<1>2. CASE tags[t] \in manifests
  <2>1. path' = <<>>
    BY <1>1, <1>2 DEF InspectTag
  <2> QED
    BY <1>1, <2>1 DEF OnceInv, Exceeds
<1>3. CASE tags[t] \notin manifests
  <2> DEFINE f == [manifest |-> tags[t], left |-> Children[tags[t]]]
  <2>1. f.manifest = tags[t] /\ path' = Append(<<>>, f)
    BY <1>3 DEF InspectTag, Enter, References
  <2> HIDE DEF f
  <2>2. 1..Len(path') = {1} /\ path'[1] = f
    BY <2>1
  <2> QED
    BY <1>1, <1>3, <2>1, <2>2 DEF OnceInv, Exceeds
<1> QED
  BY <1>2, <1>3

LEMMA OnceStep == InvInv /\ OnceInv /\ [Next]_vars => OnceInv'
<1> SUFFICES ASSUME InvInv, OnceInv, [Next]_vars
             PROVE  OnceInv'
  OBVIOUS
<1>1. TypeOK
  BY DEF InvInv
<1>2. CASE UNCHANGED <<path, manifests>>
  BY <1>2 DEF OnceInv
<1>3. CASE Challenge \/ FetchToken \/ TokenExpires \/ UNCHANGED vars
  BY <1>2, <1>3, QuietFrame
<1>4. CASE Failing
  BY <1>2, <1>4, FailingFrame
<1>5. CASE Changing
  BY <1>2, <1>5, ChangingFrame
<1>6. CASE NoRepository /\ cursor = 0
  BY <1>2, <1>6, NoRepositoryFrame
<1>7. CASE ReadPage
  BY <1>2, <1>7 DEF ReadPage
<1>8. CASE Reading
  <2>1. ASSUME NEW t \in left, InspectTag(t)
        PROVE  OnceInv'
    BY <1>1, <2>1, OnceTag
  <2>2. ASSUME NEW c \in Manifests, Known(c) \/ InspectReference(c)
        PROVE  OnceInv'
    BY <1>1, <2>2, OnceKnown, OnceInspect
  <2>3. CASE Leave
    BY <1>1, <2>3, OnceLeave
  <2>4. CASE Done
    BY <1>2, <2>4 DEF Done, readVars
  <2> QED
    BY <1>8, <2>1, <2>2, <2>3, <2>4 DEF Reading
<1> QED
  BY <1>3, <1>4, <1>5, <1>6, <1>7, <1>8, Steps

(* Where a step of the client takes the inventory.                         *)
LEMMA ClientAdvances == InvInv /\ OnceInv /\ ClientStep => Advance
<1> SUFFICES ASSUME InvInv, OnceInv, ClientStep
             PROVE  Advance
  OBVIOUS
<1>1. TypeOK /\ Safe!TypeOK
  BY DEF InvInv, TypeOK
<1>2. CASE Challenge \/ FetchToken
  <2>1. UNCHANGED <<phase, cursor, left, manifests, path>>
    BY <1>2, QuietFrame
  <2>2. Visiting' = Visiting
    BY <2>1 DEF Visiting
  <2>3. CASE Challenge
    BY <2>1, <2>2, <2>3 DEF Challenge, Advance
  <2>4. CASE FetchToken
    BY <2>1, <2>2, <2>4 DEF FetchToken, Advance
  <2> QED
    BY <1>2, <2>3, <2>4
<1>3. CASE Refused \/ RepeatedLink \/ Missing \/ NoRepository
  <2>1. phase \in {"list", "inspect"}
    BY <1>3 DEF Refused, Running, RepeatedLink, Missing, NoRepository
  <2>2. phase' = "failed" \/ (phase = "list" /\ phase' = "inspect")
    BY <1>3 DEF Refused, RepeatedLink, Missing, NoRepository, Fail, StartInspecting
  <2> QED
    BY <2>1, <2>2 DEF Advance
<1>4. CASE ReadPage
  <2>1. CASE More
    <3>1. phase' = phase /\ cursor' \in Page
      BY <1>4, <2>1 DEF ReadPage
    <3>2. cursor' > cursor
      BY <3>1 DEF Page, After
    <3> QED
      BY <3>1, <3>2 DEF Advance
  <2>2. CASE ~More
    <3>1. phase = "list" /\ phase' = "inspect"
      BY <1>4, <2>2 DEF ReadPage, StartInspecting
    <3> QED
      BY <3>1 DEF Advance
  <2> QED
    BY <2>1, <2>2
<1>5. ASSUME NEW t \in left, InspectTag(t)
      PROVE  Advance
  <2>1. phase' = phase /\ cursor' = cursor
    BY <1>5 DEF InspectTag, listVars
  <2> QED
    BY <1>1, <1>5, <2>1, OnceTag DEF Advance
<1>6. ASSUME NEW c \in Manifests, Known(c) \/ InspectReference(c)
      PROVE  Advance
  <2>1. phase' = phase /\ cursor' = cursor /\ left' = left /\ manifests' = manifests
    BY <1>6 DEF Known, InspectReference, listVars
  <2> QED
    BY <1>1, <1>6, <2>1, OnceKnown, OnceInspect DEF Advance
<1>7. CASE Leave
  <2>1. phase' = phase /\ cursor' = cursor /\ left' = left
    BY <1>7 DEF Leave, listVars
  <2> QED
    BY <1>1, <1>7, <2>1, OnceLeave DEF Advance
<1>8. CASE Done
  BY <1>8 DEF Done, Advance
<1> QED
  BY <1>2, <1>3, <1>4, <1>5, <1>6, <1>7, <1>8 DEF ClientStep

(* The work of an inventory is bounded by the repository it finds and what *)
(* that references, for every graph, page size and authentication: no step *)
(* of it repeats another (registry.py:388-422, 549-609).                   *)
THEOREM AlwaysAdvances == Spec => InventoryAdvances
<1>1. Init => OnceInv
  BY DEF Init, OnceInv
<1>2. Spec => []OnceInv
  BY <1>1, OnceStep, InvInvariance, PTL DEF Spec
<1>3. InvInv /\ OnceInv /\ [Next]_vars => [ClientStep => Advance]_vars
  BY ClientAdvances
<1>4. Spec => [][ClientStep => Advance]_vars
  BY <1>2, <1>3, InvInvariance, PTL DEF Spec
<1> QED
  BY <1>4 DEF InventoryAdvances
=============================================================================
