---------------------------- MODULE JsonlEventStore ----------------------------
(***************************************************************************)
(* The local event store of packages/runtime/src/events/jsonl-store.ts, for *)
(* one stream: a directory of segment files, each the batch of one append,  *)
(* named by the revision of its first event.  Writers in any number of      *)
(* processes share nothing but that directory.  An append reads the stream, *)
(* checks the expected revision, writes and syncs a temporary file, links   *)
(* it under the segment's name, which only one writer can, and syncs the    *)
(* directory.                                                              *)
(*                                                                         *)
(* Left out: the temporary files, which carry random names and are never    *)
(* read; checksums, which cannot fail on files that are linked when they    *)
(* are complete; size limits and secrets, checked before anything is read.  *)
(* The directories above the segments are taken to be on disk.              *)
(***************************************************************************)
EXTENDS Naturals, Sequences, FiniteSetsExt

CONSTANTS
  Appends,        \* append calls that may be under way together
  Batches,        \* the batches that may be appended
  IdOf(_),        \* the eventId of an event
  MaxRevision,    \* bound: the revision no append goes beyond
  MaxLosses       \* bound: how often the power goes

Events == UNION {{batch[i] : i \in DOMAIN batch} : batch \in Batches}

ASSUME BatchesAreNotEmpty == Batches \subseteq Seq(Events) \ {<<>>}
ASSUME BoundsAreNumbers == MaxRevision \in Nat /\ MaxLosses \in Nat

VARIABLES
  segments,   \* start revision |-> batch, for every linked segment file
  synced,     \* the start revisions whose directory entries are on disk
  stage,      \* where each append call stands
  asked,      \* what it was called with
  listed,     \* the segments that were linked when it began to list them
  acks,       \* history: the appends that returned, and how
  losses      \* how often the power went

streamVars == <<segments, synced, stage, asked, listed, acks, losses>>

AppendArgs == [expected : 0..MaxRevision, batch : Batches]

NoArgs == [expected |-> 0, batch |-> <<>>]

Linked == DOMAIN segments

Start(w) == asked[w].expected + 1

-----------------------------------------------------------------------------
(* Reading.  The directory is listed entry by entry, and files linked while *)
(* this goes on may or may not be in the list; their contents never change. *)

SegmentListings(w) == {S \in SUBSET Linked : listed[w] \subseteq S}

After(s) == s + Len(segments[s])

EventIds(s) == {IdOf(segments[s][i]) : i \in 1..Len(segments[s])}

(* readStreamStateFromDirectory: anything else is CORRUPT_EVENT_STREAM.     *)
ReadableStream(S) ==
  /\ \A s \in S : s = 1 \/ \E r \in S : After(r) = s
  /\ \A r, s \in S : EventIds(r) \cap EventIds(s) # {} => r = s

Revision(S) == Max({0} \cup {After(s) - 1 : s \in S})

(* Broken, for mutation testing: the events may be of several commits.      *)
HoldsTheEvents(w, S) ==
  /\ Revision(S) >= asked[w].expected + Len(asked[w].batch)
  /\ \A i \in 1..Len(asked[w].batch) :
       \E s \in S : \E j \in 1..Len(segments[s]) :
         segments[s][j] = asked[w].batch[i] /\ s + j - 1 = asked[w].expected + i

(* hasExactCommittedAppend                                                  *)
HasExactCommittedAppend(w, S) ==
  /\ Revision(S) >= asked[w].expected + Len(asked[w].batch)
  /\ Start(w) \in S
  /\ segments[Start(w)] = asked[w].batch

(* Broken, for mutation testing: looks for duplicates in the batch alone.   *)
IdsDiffer(w, S) ==
  LET batch == asked[w].batch IN
  \A i, j \in 1..Len(batch) : IdOf(batch[i]) = IdOf(batch[j]) => i = j

(* DUPLICATE_EVENT_ID: with what is committed, or within the batch.         *)
IdsAreNew(w, S) ==
  LET batch == asked[w].batch IN
  /\ \A i \in 1..Len(batch) : \A s \in S : IdOf(batch[i]) \notin EventIds(s)
  /\ \A i, j \in 1..Len(batch) : IdOf(batch[i]) = IdOf(batch[j]) => i = j

-----------------------------------------------------------------------------
AppendReturns(w, how) ==
  /\ stage' = [stage EXCEPT ![w] = "idle"]
  /\ asked' = [asked EXCEPT ![w] = NoArgs]
  /\ listed' = [listed EXCEPT ![w] = {}]
  /\ acks' = IF how \in {"committed", "already"}
               THEN acks \cup {[expected |-> asked[w].expected,
                                batch |-> asked[w].batch, how |-> how]}
               ELSE acks

AppendGoes(w, place, listing) ==
  /\ stage' = [stage EXCEPT ![w] = place]
  /\ listed' = [listed EXCEPT ![w] = listing]
  /\ UNCHANGED <<asked, acks>>

(* append(stream, expectedRevision, events), also of what was appended      *)
(* before: a caller that was not told how its append ended tries it again.  *)
CallAppend(w, r) ==
  /\ stage[w] = "idle"
  /\ r.expected + Len(r.batch) <= MaxRevision
  /\ stage' = [stage EXCEPT ![w] = "prepare"]
  /\ asked' = [asked EXCEPT ![w] = r]
  /\ listed' = [listed EXCEPT ![w] = Linked]
  /\ UNCHANGED <<segments, synced, acks, losses>>

(* prepareAppend: a batch read to be committed as it stands is reported so. *)
PrepareAppend(w) ==
  /\ stage[w] = "prepare"
  /\ \E S \in SegmentListings(w) :
       \/ ~ReadableStream(S) /\ AppendReturns(w, "corrupt")
       \/ /\ ReadableStream(S) /\ Revision(S) # asked[w].expected
          /\ AppendReturns(w, IF HasExactCommittedAppend(w, S) THEN "already" ELSE "conflict")
       \/ /\ ReadableStream(S) /\ Revision(S) = asked[w].expected
          /\ IF IdsAreNew(w, S) THEN AppendGoes(w, "link", {}) ELSE AppendReturns(w, "duplicate")
  /\ UNCHANGED <<segments, synced, losses>>

(* commitSegment, up to link(temporary, target), and what it throws.        *)
LinkSegment(w) ==
  /\ stage[w] = "link"
  /\ \/ /\ Start(w) \notin Linked
        /\ segments' = [s \in Linked \cup {Start(w)} |->
                          IF s = Start(w) THEN asked[w].batch ELSE segments[s]]
        /\ AppendGoes(w, "sync", {})
     \/ /\ Start(w) \in Linked
        /\ AppendGoes(w, "recheck", Linked)
        /\ UNCHANGED segments
     \/ /\ AppendReturns(w, "failed")
        /\ UNCHANGED segments
  /\ UNCHANGED <<synced, losses>>

(* commitSegment, from syncDirectory on, and what it throws.                *)
SyncDirectory(w) ==
  /\ stage[w] = "sync"
  /\ \/ synced' = Linked /\ AppendReturns(w, "committed")
     \/ AppendReturns(w, "failed") /\ UNCHANGED synced
  /\ UNCHANGED <<segments, losses>>

(* Another writer took the segment's name first, maybe with this very batch.*)
Recheck(w) ==
  /\ stage[w] = "recheck"
  /\ \E S \in SegmentListings(w) :
       AppendReturns(w, CASE ~ReadableStream(S) -> "corrupt"
                          [] ReadableStream(S) /\ HasExactCommittedAppend(w, S) -> "already"
                          [] ReadableStream(S) /\ ~HasExactCommittedAppend(w, S) -> "conflict")
  /\ UNCHANGED <<segments, synced, losses>>

(* The process of the call ends, between any two of its steps.              *)
AppendDies(w) ==
  /\ stage[w] # "idle"
  /\ AppendReturns(w, "never")
  /\ UNCHANGED <<segments, synced, losses>>

(* All processes end, and of the entries that were not synced any may go.   *)
PowerFails ==
  /\ losses < MaxLosses
  /\ \E S \in SUBSET Linked :
       /\ synced \subseteq S
       /\ segments' = [s \in S |-> segments[s]]
       /\ synced' = S
       /\ stage' = [w \in Appends |-> "idle"]
       /\ asked' = [w \in Appends |-> NoArgs]
       /\ listed' = [w \in Appends |-> {}]
       /\ losses' = losses + 1
       /\ UNCHANGED acks

StreamInit ==
  /\ segments = <<>> /\ synced = {}
  /\ stage = [w \in Appends |-> "idle"]
  /\ asked = [w \in Appends |-> NoArgs]
  /\ listed = [w \in Appends |-> {}]
  /\ acks = {} /\ losses = 0

AppendStep(w) ==
  \/ PrepareAppend(w) \/ LinkSegment(w) \/ SyncDirectory(w) \/ Recheck(w) \/ AppendDies(w)
  \/ \E r \in AppendArgs : CallAppend(w, r)

StreamNext == PowerFails \/ \E w \in Appends : AppendStep(w)

StreamSpec == StreamInit /\ [][StreamNext]_streamVars

-----------------------------------------------------------------------------
(* An append that returned is in the stream as one commit of its own, at    *)
(* its place: a retry neither joins two commits nor takes part of one for   *)
(* its own.  A power loss takes nothing of an append that returned because  *)
(* it committed; it may take what a retry was told of that found its batch  *)
(* there, as that retry syncs nothing (append, commitSegment).              *)
AckedIsOneCommit ==
  \A a \in acks : losses = 0 \/ a.how = "committed" =>
    /\ a.expected + 1 \in Linked /\ segments[a.expected + 1] = a.batch
    /\ \E S \in SUBSET Linked : ReadableStream(S) /\ a.expected + 1 \in S

(* The events that are held without a gap, and those of them on disk.       *)
Held(S, n)   == \E s \in S : s <= n /\ n < After(s)
WholeUpTo(S) == Max({n \in 0..MaxRevision : \A m \in 1..n : Held(S, m)})
EventAt(n)   == LET s == CHOOSE s \in Linked : s <= n /\ n < After(s) IN segments[s][n - s + 1]

Log == INSTANCE EventLog WITH
         events   <- [n \in 1..WholeUpTo(Linked) |-> EventAt(n)],
         promised <- WholeUpTo(synced)

(* To a caller the directory is one stream that grows by whole batches.     *)
ImplementsEventLog == Log!Spec
================================================================================
