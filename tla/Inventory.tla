----------------------------- MODULE Inventory -----------------------------
(***************************************************************************)
(* One inventory_repository, request by request (registry.py:371-424,      *)
(* 514-640): the tags are listed page by page, then every tag is inspected *)
(* in sorted order and what its manifest references depth first, each      *)
(* manifest once.  Each request may have to authenticate (registry.py:100- *)
(* 238).  Anything unexpected ends the inventory: it fails closed.         *)
(*                                                                         *)
(* The registry is that of SafeRegistry, and goes on changing.  Retention  *)
(* takes a tag to be read with all its manifest references in one step;    *)
(* this module is what stands behind that step.                            *)
(***************************************************************************)
EXTENDS RegistryContent, Sequences, FiniteSets

CONSTANTS
    Initial,    \* the tags at the beginning
    Servers,    \* the registries there are, see ServerKinds
    PageSize,   \* tags on a page
    MaxPuts,    \* bound on pushes and retags
    MaxDrops,   \* bound on deletions
    MaxFaults   \* bound on failures

(* One that lets everybody read, one that asks for credentials, and one    *)
(* whose pages name themselves as the next page.                           *)
ServerKinds == {"public", "private", "looping"}

ASSUME InventoryTypes ==
    /\ Initial \in [Tags -> Manifests \cup {None}]
    /\ Servers \subseteq ServerKinds
    /\ IsFiniteSet(Tags) /\ Tags \subseteq Nat \ {0} /\ PageSize \in Nat \ {0}
    /\ MaxPuts \in Nat /\ MaxDrops \in Nat /\ MaxFaults \in Nat

VARIABLES
    present, tags,       \* the registry, see SafeRegistry
    puts, drops, faults, \* pushes, deletions, failures so far
    server,     \* the kind of registry
    auth,       \* "none", "basic" credentials, or a "bearer" token
    token,      \* the token cache of the session in use
    exchange,   \* "first" attempt of a request, or "challenge" received
    phase,      \* "list", "inspect", "done" or "failed"
    cursor,     \* the last tag of the pages so far
    listed,     \* the tags on them
    left,       \* tags yet to be inspected
    inv,        \* what each inspected tag named
    path,       \* the manifests being inspected, each with the references
                \* it has left; visiting
    manifests,  \* the manifests inspected
    always,     \* tags that existed all through the listing (history)
    sometime    \* tags that existed at some time in it (history)

registryVars == <<present, tags, puts, drops>>
sessionVars == <<server, auth, token, exchange>>
listVars == <<cursor, listed>>
readVars == <<left, inv, path, manifests>>
history == <<always, sometime>>
vars == <<registryVars, faults, sessionVars, phase, listVars, readVars, history>>

Safe == INSTANCE SafeRegistry WITH present <- present, tags <- tags

Tokens == {"none", "good", "expired"}
Frame == [manifest : Manifests, left : SUBSET Manifests]
Existing == {t \in Tags : tags[t] # None}

TypeOK ==
    /\ Safe!TypeOK
    /\ puts \in Nat /\ drops \in Nat /\ faults \in Nat
    /\ server \in ServerKinds /\ auth \in {"none", "basic", "bearer"}
    /\ token \in Tokens /\ exchange \in {"first", "challenge"}
    /\ phase \in {"list", "inspect", "done", "failed"}
    /\ cursor \in Tags \cup {0} /\ listed \in SUBSET Tags
    /\ left \in SUBSET Tags /\ inv \in [Tags -> Manifests \cup {None}]
    /\ path \in Seq(Frame) /\ manifests \in SUBSET Manifests
    /\ always \in SUBSET Tags /\ sometime \in SUBSET Tags

Init ==
    /\ tags = Initial
    /\ present = UNION {Reach[tags[t]] : t \in Existing}
    /\ puts = 0 /\ drops = 0 /\ faults = 0
    /\ server \in Servers /\ auth \in {"none", "basic", "bearer"}
    /\ token = IF auth = "bearer" THEN "good" ELSE "none"
    /\ exchange = "first" /\ phase = "list"
    /\ cursor = 0 /\ listed = {} /\ left = {}
    /\ inv = [t \in Tags |-> None]
    /\ path = <<>> /\ manifests = {}
    /\ always = Existing /\ sometime = Existing

-----------------------------------------------------------------------------
(* The registry changes.                                                   *)
Remember ==
    IF phase = "list"
    THEN always' = always \cap {t \in Tags : tags'[t] # None} /\
         sometime' = sometime \cup {t \in Tags : tags'[t] # None}
    ELSE UNCHANGED history

Put(t, m) ==
    /\ puts < MaxPuts /\ puts' = puts + 1
    /\ RepoOf[t] = Home[m] /\ tags[t] # m
    /\ Safe!Put(t, m)
    /\ Remember
    /\ UNCHANGED <<drops, faults, sessionVars, phase, listVars, readVars>>

Drop(m) ==
    /\ drops < MaxDrops /\ drops' = drops + 1
    /\ m \in present
    /\ Safe!Drop(m)
    /\ Remember
    /\ UNCHANGED <<puts, faults, sessionVars, phase, listVars, readVars>>

-----------------------------------------------------------------------------
(* _RegistrySession._request.                                              *)
Running == phase \in {"list", "inspect"}

(* The exchange after which a request has its answer.                      *)
Answered ==
    IF server = "private" /\ auth = "basic"
    THEN exchange = "challenge" /\ token = "good"
    ELSE exchange = "first" /\ (server = "private" => auth = "bearer" /\ token = "good")

Fail ==
    /\ phase' = "failed"
    /\ exchange' = "first" /\ token' = "none"
    /\ UNCHANGED <<registryVars, server, auth, listVars, readVars, history>>

(* The first attempt carries no credentials and is refused with 401.       *)
Challenge ==
    /\ Running /\ exchange = "first"
    /\ server = "private" /\ auth = "basic"
    /\ exchange' = "challenge"
    /\ UNCHANGED <<registryVars, faults, server, auth, token, phase, listVars, readVars,
                   history>>

FetchToken ==
    /\ Running /\ exchange = "challenge" /\ token = "none"
    /\ token' = "good"
    /\ UNCHANGED <<registryVars, faults, server, auth, exchange, phase, listVars,
                   readVars, history>>

(* No credentials for the challenge, a bearer token that is refused, or a  *)
(* cached token that is refused on the retry: all of them end it.          *)
Refused ==
    /\ Running /\ server = "private"
    /\ \/ auth = "none"
       \/ auth = "bearer" /\ token = "expired"
       \/ auth = "basic" /\ exchange = "challenge" /\ token = "expired"
    /\ Fail
    /\ UNCHANGED faults

(* A token has a lifetime.                                                 *)
TokenExpires ==
    /\ faults < MaxFaults /\ faults' = faults + 1
    /\ Running /\ token = "good"
    /\ token' = "expired"
    /\ UNCHANGED <<registryVars, server, auth, exchange, phase, listVars, readVars, history>>

(* No answer, not the status or the content expected, a link to elsewhere, *)
(* a token that cannot be had.                                             *)
RequestFails ==
    /\ faults < MaxFaults /\ faults' = faults + 1
    /\ Running
    /\ Fail

(* Each answer frees the session for the next request.                     *)
NextRequest == exchange' = "first" /\ UNCHANGED <<server, auth, token>>

-----------------------------------------------------------------------------
(* list_tags.  A page holds the tags after the last one of the page before.*)
After(c) == {t \in Existing : t > c}
Page == {t \in After(cursor) : Cardinality({u \in After(cursor) : u <= t}) <= PageSize}
More == After(cursor) # Page

(* Mutant: the cursor is taken for a tag.                                  *)
StartInspectingCursor(found) ==
    /\ phase' = "inspect"
    /\ left' = found \cup {cursor}
    /\ token' = IF auth = "bearer" THEN token ELSE "none"

(* The session of list_tags, with its token, is dropped.                   *)
StartInspecting(found) ==
    /\ phase' = "inspect"
    /\ left' = found
    /\ token' = IF auth = "bearer" THEN token ELSE "none"

(* Mutant: the page after the first is not asked for.                      *)
ReadPageOnce ==
    /\ phase = "list" /\ Answered
    /\ listed' = listed \cup Page
    /\ StartInspecting(listed \cup Page)
    /\ exchange' = "first"
    /\ UNCHANGED <<registryVars, faults, server, auth, cursor, inv, path, manifests, history>>

ReadPage ==
    /\ phase = "list" /\ Answered
    /\ server # "looping"
    /\ listed' = listed \cup Page
    /\ IF More
       THEN /\ cursor' \in {c \in Page : \A u \in Page : u <= c}
            /\ UNCHANGED <<phase, left, token>>
       ELSE StartInspecting(listed \cup Page) /\ UNCHANGED cursor
    /\ exchange' = "first"
    /\ UNCHANGED <<registryVars, faults, server, auth, inv, path, manifests, history>>

(* Mutant: a page seen before is read again.                               *)
RepeatedLinkFollowed ==
    /\ phase = "list" /\ Answered
    /\ server = "looping"
    /\ listed' = listed \cup Page
    /\ UNCHANGED <<registryVars, faults, sessionVars, phase, cursor, readVars, history>>

(* The link names a page that was visited.                                 *)
RepeatedLink ==
    /\ phase = "list" /\ Answered
    /\ server = "looping"
    /\ Fail
    /\ UNCHANGED faults

(* 404: there is no such repository, or not any more.                      *)
NoRepository ==
    /\ phase = "list" /\ Answered
    /\ Existing = {}
    /\ IF cursor = 0
       THEN /\ StartInspecting({})
            /\ exchange' = "first"
            /\ UNCHANGED <<registryVars, server, auth, cursor, listed, inv, path,
                           manifests, history>>
       ELSE Fail
    /\ UNCHANGED faults

-----------------------------------------------------------------------------
(* inspect.                                                                *)
Top == path[Len(path)]
Below == SubSeq(path, 1, Len(path) - 1)
Without(c) == [path EXCEPT ![Len(path)] = [Top EXCEPT !.left = @ \ {c}]]
Deep == phase = "inspect" /\ path # <<>>
Visiting == {path[i].manifest : i \in 1..Len(path)}

(* Mutant: the first reference is skipped.                                 *)
ButFirstReference(m) ==
    IF Children[m] = {} THEN {} ELSE Children[m] \ {CHOOSE c \in Children[m] : TRUE}

References(m) == Children[m]

Enter(below, m) == path' = Append(below, [manifest |-> m, left |-> References(m)])

(* A tag is resolved.  Its manifest may be known by then.                  *)
InspectTag(t) ==
    /\ phase = "inspect" /\ path = <<>> /\ Answered
    /\ t \in left /\ \A u \in left : t <= u
    /\ tags[t] # None
    /\ inv' = [inv EXCEPT ![t] = tags[t]]
    /\ left' = left \ {t}
    /\ IF tags[t] \in manifests THEN UNCHANGED path ELSE Enter(<<>>, tags[t])
    /\ NextRequest
    /\ UNCHANGED <<registryVars, faults, phase, listVars, manifests, history>>

(* A reference whose manifest is known needs no request.                   *)
Known(c) ==
    /\ Deep /\ c \in Top.left \cap manifests
    /\ path' = Without(c)
    /\ UNCHANGED <<registryVars, faults, sessionVars, phase, listVars, left, inv,
                   manifests, history>>

(* Mutant: what was inspected for another index is inspected again.        *)
InspectReferenceAgain(c) ==
    /\ Deep /\ c \in Top.left /\ Answered
    /\ c \in present /\ c \notin Visiting
    /\ Enter(Without(c), c)
    /\ NextRequest
    /\ UNCHANGED <<registryVars, faults, phase, listVars, left, inv, manifests, history>>

InspectReference(c) ==
    /\ Deep /\ c \in Top.left \ manifests /\ Answered
    /\ c \in present /\ c \notin Visiting
    /\ Enter(Without(c), c)
    /\ NextRequest
    /\ UNCHANGED <<registryVars, faults, phase, listVars, left, inv, manifests, history>>

(* Mutant: what was ever inspected counts as being visited.                *)
MissingOrSeen ==
    /\ phase = "inspect" /\ Answered
    /\ \/ path = <<>> /\ \E t \in left : (\A u \in left : t <= u) /\ tags[t] = None
       \/ Deep /\ \E c \in Top.left : c \notin present \/ c \in Visiting \cup manifests
    /\ Fail
    /\ UNCHANGED faults

(* 404 for a tag or a reference, or a reference to what is being visited.  *)
Missing ==
    /\ phase = "inspect" /\ Answered
    /\ \/ path = <<>> /\ \E t \in left : (\A u \in left : t <= u) /\ tags[t] = None
       \/ Deep /\ \E c \in Top.left \ manifests : c \notin present \/ c \in Visiting
    /\ Fail
    /\ UNCHANGED faults

Leave ==
    /\ Deep /\ Top.left = {}
    /\ path' = Below
    /\ manifests' = manifests \cup {Top.manifest}
    /\ UNCHANGED <<registryVars, faults, sessionVars, phase, listVars, left, inv, history>>

Done ==
    /\ phase = "inspect" /\ path = <<>> /\ left = {}
    /\ phase' = "done" /\ token' = "none"
    /\ UNCHANGED <<registryVars, faults, server, auth, exchange, listVars, readVars, history>>

-----------------------------------------------------------------------------
ClientStep ==
    \/ Challenge \/ FetchToken \/ Refused
    \/ ReadPage \/ RepeatedLink \/ NoRepository
    \/ \E t \in left : InspectTag(t)
    \/ \E c \in Manifests : Known(c) \/ InspectReference(c)
    \/ Missing \/ Leave \/ Done

Next ==
    \/ ClientStep
    \/ TokenExpires \/ RequestFails
    \/ \E t \in Tags, m \in Manifests : Put(t, m)
    \/ \E m \in Manifests : Drop(m)

Spec == Init /\ [][Next]_vars
FairSpec == Spec /\ WF_vars(ClientStep)

-----------------------------------------------------------------------------
(* The pages make up a listing of the repository although it changes from  *)
(* page to page: every tag that was there all the time is on it, and none  *)
(* that never was (registry.py:382-422).                                   *)
ListingComplete ==
    phase \in {"inspect", "done"} => always \subseteq listed /\ listed \subseteq sometime

(* An inventory that succeeds is closed: it has a manifest for each listed *)
(* tag, with all that can be reached from it, however references are       *)
(* shared, and nothing else.  What retention protects and what it deletes  *)
(* is computed from these references alone (registry.py:531-640).          *)
InventoryClosed ==
    phase = "done" =>
        /\ \A t \in Tags : inv[t] # None <=> t \in listed
        /\ manifests = UNION {Reach[inv[t]] : t \in listed}

(* Failing closed is not failing for nothing: with credentials, an         *)
(* inventory only fails when a call failed or a token expired, the server  *)
(* sent it in circles, or something was deleted while it was being read.   *)
(* Aliases, manifests shared by indexes and pushes do not disturb it.      *)
FailureExplained ==
    phase = "failed" =>
        faults > 0 \/ drops > 0 \/ server = "looping" \/ (server = "private" /\ auth = "none")

Exceeds(s, t) == t \subseteq s /\ s # t

Advance ==
    \/ phase = "list" /\ phase' # "list"
    \/ phase = "inspect" /\ phase' \in {"done", "failed"}
    \/ phase' = phase /\ cursor' > cursor
    \/ /\ phase' = phase /\ cursor' = cursor
       /\ \/ Exceeds(left, left')
          \/ left' = left /\ Exceeds(manifests', manifests)
          \/ /\ left' = left /\ manifests' = manifests
             /\ \/ Exceeds(Visiting', Visiting)
                \/ Deep /\ Visiting' = Visiting /\ Exceeds(Top.left, Top'.left)
                \/ path' = path /\ exchange = "first" /\ exchange' = "challenge"
                \/ /\ path' = path /\ exchange' = exchange
                   /\ token = "none" /\ token' = "good"

(* No references are followed twice, and no page: what the inventory does  *)
(* ends the listing or itself, takes it to a later page, resolves a tag,   *)
(* completes a manifest, opens one that is neither completed nor open, or  *)
(* settles a reference of the one it is at.  Between two of these, a       *)
(* request is repeated once and a token fetched once.  So the work is that *)
(* of the graph, not that of the paths in it, and what the other users do  *)
(* adds none (registry.py:388-422, 549-609).                               *)
InventoryAdvances == [][ClientStep => Advance]_vars

(* Every inventory ends, even if the server repeats a page for ever.       *)
InventoryEnds == <>(phase \in {"done", "failed"})
=============================================================================
