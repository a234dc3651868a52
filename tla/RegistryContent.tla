-------------------------- MODULE RegistryContent --------------------------
(***************************************************************************)
(* What an image registry holds, as the operator sees it: manifests are    *)
(* immutable and named by digest, an index manifest references its         *)
(* children, and tags are mutable names for manifests.  A digest is        *)
(* scoped by its repository, so Manifests are (repository, digest) pairs   *)
(* and Home gives the first component.                                     *)
(***************************************************************************)
EXTENDS Integers

CONSTANTS
    Repos,      \* repositories, numbered in the order sorted() visits them
    Manifests,  \* every manifest that may ever be pushed
    Tags,       \* tag names, scoped by repository, numbered in sorted() order
    None,       \* "this tag does not exist"
    Home,       \* the repository of each manifest
    RepoOf,     \* the repository of each tag
    Children    \* the manifests an index (or a subject field) references

(* The reference closure of each manifest, itself included: the least set  *)
(* that contains it and is closed under Children.                          *)
Reach ==
    [m \in Manifests |->
        {x \in Manifests :
            \A C \in SUBSET Manifests :
                (m \in C /\ \A c \in C : Children[c] \subseteq C) => x \in C}]

ASSUME ContentTypes ==
    /\ Repos \subseteq Int /\ Tags \subseteq Int
    /\ Home \in [Manifests -> Repos]
    /\ RepoOf \in [Tags -> Repos]
    /\ None \notin Manifests
    /\ Children \in [Manifests -> SUBSET Manifests]

(* References stay inside a repository.                                    *)
ASSUME ReferencesAreLocal ==
    \A m \in Manifests : \A c \in Children[m] : Home[c] = Home[m]

(* A digest is a hash of the content that names the children, so no        *)
(* manifest can be reached from its own children.                          *)
ASSUME ReferencesAreAcyclic ==
    \A m \in Manifests : \A c \in Children[m] : m \notin Reach[c]

TagsIn(r) == {t \in Tags : RepoOf[t] = r}

=============================================================================
