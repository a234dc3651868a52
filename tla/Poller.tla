------------------------------- MODULE Poller -------------------------------
(***************************************************************************)
(* The CronJob that keeps status.trackedChannelVersions (poller.py:27-134).*)
(* A run lists the resources once, then fetches the current release of     *)
(* each channel a resource tracks, one request per channel, merges what it *)
(* got into the entries it listed and patches the status.  A channel that  *)
(* cannot be fetched and a patch that fails are skipped and make the run   *)
(* fail in the end.  concurrencyPolicy is Forbid: runs do not overlap.     *)
(***************************************************************************)
EXTENDS Integers

CONSTANTS
    Resources,   \* the VGPUDriverImages
    Channels,    \* the release channels
    Flaky,       \* channels whose feed may fail again and again
    MaxRelease,  \* bound on the releases of a channel
    MaxEdits,    \* bound on changes of spec.flatcar.trackChannels
    MaxFailing   \* bound on failing calls and pods

ASSUME PollerTypes ==
    /\ Resources # {} /\ Flaky \subseteq Channels
    /\ MaxRelease \in Nat /\ MaxEdits \in Nat /\ MaxFailing \in Nat

VARIABLES
    feed,      \* the number of the current release of each channel
    channels,  \* spec.flatcar.trackChannels of each resource
    entries,   \* status.trackedChannelVersions of each resource
    edits,     \* changes of channels so far
    failing,   \* failing calls and pods so far
    stage,     \* "idle", "list", "next" resource, "fetch", or "exit"
    objects,   \* the resources as listed, without those already done
    current,   \* the resource being worked on
    ahead,     \* its channels yet to be fetched
    updated,   \* updated_entries
    failure,   \* any_failure
    oldest,    \* what the feed said when this run began (history)
    asked      \* the channels each resource tracked when listed (history)

runVars == <<stage, objects, current, ahead, updated, failure, oldest, asked>>
pollVars == <<feed, channels, entries, edits, failing, runVars>>

(* A channel without an entry.                                             *)
Absent == -1
NoEntries == [c \in Channels |-> Absent]

PollTypeOK ==
    /\ feed \in [Channels -> Nat] /\ oldest \in [Channels -> Nat]
    /\ channels \in [Resources -> SUBSET Channels]
    /\ asked \in [Resources -> SUBSET Channels]
    /\ entries \in [Resources -> [Channels -> Nat \cup {Absent}]]
    /\ edits \in Nat /\ failing \in Nat
    /\ stage \in {"idle", "list", "next", "fetch", "exit"}
    /\ objects \in SUBSET [name : Resources, channels : SUBSET Channels,
                           entries : [Channels -> Nat \cup {Absent}]]
    /\ current \in [name : Resources, channels : SUBSET Channels,
                    entries : [Channels -> Nat \cup {Absent}]]
    /\ ahead \in SUBSET Channels
    /\ updated \in [Channels -> Nat \cup {Absent}]
    /\ failure \in BOOLEAN

Object(r) == [name |-> r, channels |-> channels[r], entries |-> entries[r]]
NoObject == [name |-> CHOOSE r \in Resources : TRUE, channels |-> {}, entries |-> NoEntries]

PollInit ==
    /\ feed = [c \in Channels |-> 0] /\ oldest = feed
    /\ channels \in [Resources -> SUBSET Channels]
    /\ entries = [r \in Resources |-> NoEntries]
    /\ edits = 0 /\ failing = 0
    /\ stage = "idle" /\ objects = {} /\ current = NoObject
    /\ ahead = {} /\ updated = NoEntries /\ failure = FALSE
    /\ asked = [r \in Resources |-> {}]

Fails == failing < MaxFailing /\ failing' = failing + 1

(* The environment: a release, as far as it can be seen; an edit of the    *)
(* spec.                                                                   *)
Release(c) ==
    /\ c \notin Flaky /\ feed[c] < MaxRelease
    /\ feed' = [feed EXCEPT ![c] = @ + 1]
    /\ UNCHANGED <<channels, entries, edits, failing, runVars>>

EditChannels(r, cs) ==
    /\ edits < MaxEdits /\ cs # channels[r]
    /\ edits' = edits + 1
    /\ channels' = [channels EXCEPT ![r] = cs]
    /\ UNCHANGED <<feed, entries, failing, runVars>>

Start ==
    /\ stage = "idle"
    /\ stage' = "list"
    /\ failure' = FALSE
    /\ oldest' = feed
    /\ UNCHANGED <<feed, channels, entries, edits, failing, objects, current, ahead,
                   updated, asked>>

(* Without the list there is nothing to do: exit 1.                        *)
ListImages(ok) ==
    /\ stage = "list"
    /\ IF ok
       THEN /\ stage' = "next"
            /\ objects' = {Object(r) : r \in Resources}
            /\ asked' = channels
            /\ UNCHANGED <<failing, failure>>
       ELSE /\ Fails
            /\ stage' = "exit"
            /\ failure' = TRUE
            /\ UNCHANGED <<objects, asked>>
    /\ UNCHANGED <<feed, channels, entries, edits, current, ahead, updated, oldest>>

(* A resource without channels is passed over, whatever entries it has.    *)
NextImage(obj) ==
    /\ stage = "next" /\ obj \in objects
    /\ objects' = objects \ {obj}
    /\ IF obj.channels = {}
       THEN UNCHANGED <<stage, current, ahead, updated>>
       ELSE /\ stage' = "fetch"
            /\ current' = obj /\ ahead' = obj.channels /\ updated' = NoEntries
    /\ UNCHANGED <<feed, channels, entries, edits, failing, failure, oldest, asked>>

Fetch(c) ==
    /\ stage = "fetch" /\ c \in ahead
    /\ ahead' = ahead \ {c}
    /\ updated' = [updated EXCEPT ![c] = feed[c]]
    /\ UNCHANGED <<feed, channels, entries, edits, failing, stage, objects, current,
                   failure, oldest, asked>>

(* Mutant: a channel that fails ends the work on its resource.             *)
FetchFailsForAll(c) ==
    /\ stage = "fetch" /\ c \in ahead
    /\ IF c \in Flaky THEN UNCHANGED failing ELSE Fails
    /\ ahead' = {}
    /\ updated' = NoEntries
    /\ failure' = TRUE
    /\ UNCHANGED <<feed, channels, entries, edits, stage, objects, current, oldest, asked>>

(* FlatcarFeedError: no answer, or one without the line.                   *)
FetchFails(c) ==
    /\ stage = "fetch" /\ c \in ahead
    /\ IF c \in Flaky THEN UNCHANGED failing ELSE Fails
    /\ ahead' = ahead \ {c}
    /\ failure' = TRUE
    /\ UNCHANGED <<feed, channels, entries, edits, stage, objects, current, updated,
                   oldest, asked>>

(* Mutant: only what was fetched is written.                               *)
OnlyFetched(existing, new) == [c \in Channels |-> new[c]]

(* What was fetched replaces the entry of its channel; all others stay.    *)
_merge_channel_entries(existing, new) ==
    [c \in Channels |-> IF new[c] # Absent THEN new[c] ELSE existing[c]]

Over == current' = NoObject /\ updated' = NoEntries /\ stage' = "next"

NothingFetched ==
    /\ stage = "fetch" /\ ahead = {} /\ updated = NoEntries
    /\ Over
    /\ UNCHANGED <<feed, channels, entries, edits, failing, objects, ahead, failure,
                   oldest, asked>>

PatchStatus ==
    /\ stage = "fetch" /\ ahead = {} /\ updated # NoEntries
    /\ entries' = [entries EXCEPT
                      ![current.name] = _merge_channel_entries(current.entries, updated)]
    /\ Over
    /\ UNCHANGED <<feed, channels, edits, failing, objects, ahead, failure, oldest, asked>>

(* Mutant: a patch that fails is only logged.                              *)
PatchFailsUnseen ==
    /\ stage = "fetch" /\ ahead = {} /\ updated # NoEntries
    /\ Fails
    /\ Over
    /\ UNCHANGED <<feed, channels, entries, edits, objects, ahead, failure, oldest, asked>>

PatchFails ==
    /\ stage = "fetch" /\ ahead = {} /\ updated # NoEntries
    /\ Fails
    /\ failure' = TRUE
    /\ Over
    /\ UNCHANGED <<feed, channels, entries, edits, objects, ahead, oldest, asked>>

(* All resources are done: the exit code is failure.                       *)
Exit ==
    /\ stage = "next" /\ objects = {}
    /\ stage' = "exit"
    /\ UNCHANGED <<feed, channels, entries, edits, failing, objects, current, ahead,
                   updated, failure, oldest, asked>>

Forget ==
    /\ stage' = "idle" /\ objects' = {} /\ current' = NoObject /\ ahead' = {}
    /\ updated' = NoEntries /\ failure' = FALSE
    /\ oldest' = [c \in Channels |-> 0] /\ asked' = [r \in Resources |-> {}]

Ended ==
    /\ stage = "exit"
    /\ Forget
    /\ UNCHANGED <<feed, channels, entries, edits, failing>>

(* The pod is gone in the middle of a run.                                 *)
Killed ==
    /\ stage # "idle"
    /\ Forget
    /\ UNCHANGED <<feed, channels, entries, edits>>

-----------------------------------------------------------------------------
(* A run that goes well, but for the flaky channels.                       *)
RunStep ==
    \/ ListImages(TRUE)
    \/ \E obj \in objects : NextImage(obj)
    \/ \E c \in ahead : Fetch(c) \/ (c \in Flaky /\ FetchFails(c))
    \/ NothingFetched \/ PatchStatus
    \/ Exit

RunFault ==
    \/ ListImages(FALSE)
    \/ \E c \in ahead \ Flaky : FetchFails(c)
    \/ PatchFails

Environment ==
    \/ \E c \in Channels : Release(c)
    \/ \E r \in Resources, cs \in SUBSET Channels : EditChannels(r, cs)

-----------------------------------------------------------------------------
(* The exit code tells the truth: a run that ends with 0 has brought every *)
(* channel it was asked for, of every resource it listed, at least to the  *)
(* release that was out when the run began (poller.py:46-52).              *)
SuccessMeansCurrent ==
    stage = "exit" /\ ~failure =>
        \A r \in Resources : \A c \in asked[r] : entries[r][c] >= oldest[c]

(* No entry ever goes back to an older release, or vanishes, whatever      *)
(* fails (poller.py:99-103, 116-129).                                      *)
NeverBack ==
    [][\A r \in Resources, c \in Channels : entries'[r][c] >= entries[r][c]]_pollVars

(* Channels that may never answer, failing patches and killed runs do not  *)
(* keep the other channels of any resource from being followed: once the   *)
(* feed and the spec are at rest their entries are the current releases    *)
(* (poller.py:3-5, 78-85).                                                 *)
ChannelsFollowed ==
    <>[](\A r \in Resources : \A c \in channels[r] \ Flaky : entries[r][c] = feed[c])
=============================================================================
