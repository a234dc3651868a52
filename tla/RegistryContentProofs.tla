----------------------- MODULE RegistryContentProofs -----------------------
(***************************************************************************)
(* Facts about reference closures, for any registry content.               *)
(***************************************************************************)
EXTENDS RegistryContent, TLAPS

(* A reference closure contains its root and the closures of its members.  *)
LEMMA ReachClosed ==
    ASSUME NEW m \in Manifests
    PROVE  /\ m \in Reach[m]
           /\ Reach[m] \subseteq Manifests
           /\ \A x \in Reach[m] : Reach[x] \subseteq Reach[m]
<1>1. m \in Reach[m] /\ Reach[m] \subseteq Manifests
  BY DEF Reach
<1>2. ASSUME NEW x \in Reach[m], NEW y \in Reach[x] PROVE y \in Reach[m]
  <2>1. x \in Manifests
    BY <1>1
  <2>2. SUFFICES ASSUME NEW C \in SUBSET Manifests,
                        m \in C, \A c \in C : Children[c] \subseteq C
                 PROVE  y \in C
    BY <2>1 DEF Reach
  <2>3. x \in C
    BY <2>2 DEF Reach
  <2> QED
    BY <2>1, <2>2, <2>3 DEF Reach
<1> QED
  BY <1>1, <1>2

(* It contains the references of its members.                              *)
LEMMA ReachChildren ==
    ASSUME NEW m \in Manifests, NEW x \in Reach[m]
    PROVE  Children[x] \subseteq Reach[m]
  BY ContentTypes DEF Reach

(* It is the least set that does.                                          *)
LEMMA ReachLeast ==
    ASSUME NEW m \in Manifests, NEW C \in SUBSET Manifests,
           m \in C, \A c \in C : Children[c] \subseteq C
    PROVE  Reach[m] \subseteq C
  BY DEF Reach

(* It stays inside the repository of its root.                             *)
LEMMA ReachLocal ==
    ASSUME NEW m \in Manifests, NEW x \in Reach[m]
    PROVE  Home[x] = Home[m]
<1> DEFINE C == {y \in Manifests : Home[y] = Home[m]}
<1>1. m \in C /\ \A c \in C : Children[c] \subseteq C
  BY ContentTypes, ReferencesAreLocal
<1> QED
  BY <1>1, ReachLeast

(* No two manifests reach each other.                                      *)
LEMMA ReachAcyclic ==
    ASSUME NEW m \in Manifests, NEW x \in Reach[m], m \in Reach[x]
    PROVE  x = m
<1> DEFINE C == {m} \cup UNION {Reach[c] : c \in Children[m]}
<1>1. Children[m] \subseteq Manifests
  BY ContentTypes
<1>2. C \in SUBSET Manifests /\ m \in C
  BY <1>1, ReachClosed
<1>3. \A c \in C : Children[c] \subseteq C
  <2>1. Children[m] \subseteq C
    BY <1>1, ReachClosed
  <2>2. ASSUME NEW d \in Children[m], NEW c \in Reach[d]
        PROVE  Children[c] \subseteq C
    BY <1>1, <2>2, ReachChildren
  <2> QED
    BY <2>1, <2>2
<1>4. x \in C
  BY <1>2, <1>3, ReachLeast
<1>5. ASSUME NEW c \in Children[m], x \in Reach[c]
      PROVE  FALSE
  <2>1. m \in Reach[c]
    BY <1>1, <1>5, ReachClosed
  <2> QED
    BY <2>1, ReferencesAreAcyclic
<1> QED
  BY <1>4, <1>5
=============================================================================
