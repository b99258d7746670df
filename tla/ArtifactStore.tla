------------------------------ MODULE ArtifactStore ------------------------------
(***************************************************************************)
(* The local artifact store of packages/runtime/src/artifacts/file-store.ts *)
(* for one run: a directory of blobs, named by their digest, and a          *)
(* directory of admissions, named by their revision, each of one reference  *)
(* under one limit.  Writers of any number of processes share the two       *)
(* directories and nothing else.  A write commits the bytes, then links an  *)
(* admission under the next revision, which only one writer can, and reads  *)
(* the admissions again when another one did.                               *)
(*                                                                         *)
(* Left out: preflightWrite, which only reads; the contents of a blob,      *)
(* which are those of its name; temporary files; the sizes of one artifact  *)
(* and the known secrets, checked before anything is read; symbolic links.  *)
(* The directories above the two are taken to be on disk.  A limit stands   *)
(* for the limits with the policy digest made from them.  A run is deleted  *)
(* when nothing writes to it: "Hosts coordinate event and artifact          *)
(* cleanup."  What was removed does not come back with the power.           *)
(***************************************************************************)
EXTENDS FiniteSetsExt, Integers

CONSTANTS
  Writers,       \* write calls that may be under way together
  References,    \* receipts: a digest with a purpose
  DigestOf(_),   \* the digest of a reference
  SizeOf(_),     \* the bytes of a digest
  Limits,        \* the limits a store may be opened with
  MaxRetries     \* MAX_ADMISSION_RETRIES

ASSUME RetriesAreCounted == MaxRetries \in Nat \ {0}
ASSUME LimitsAreNumbers == Limits \subseteq Nat

VARIABLES
  blobs,        \* the digests whose bytes are linked
  blobsSynced,  \* those of them whose directory entry is on disk
  ledger,       \* revision |-> admission, for every linked admission
  ledgerSynced, \* the revisions whose directory entry is on disk
  pc,           \* where each write stands
  request,      \* what it writes, under the limit its store was opened with
  seen,         \* the revisions that were linked when it began to list them
  entry,        \* the revision it is about to admit its reference under
  tries,        \* how many revisions it lost to other writers
  deleting,     \* whether deleteRun has begun and has not ended
  accepted,     \* history: the references that writes returned
  relied,       \* history: whether a write took a file for kept before it was synced
  damage        \* history: what took files from the run since it began

directories == <<blobs, blobsSynced, ledger, ledgerSynced>>
calls == <<pc, request, seen, entry, tries>>
history == <<accepted, relied, damage>>
vars == <<directories, calls, deleting, history>>

Request == [ref : References, limit : Limits]

NoRequest == [ref |-> "none", limit |-> 0]

Empty == [r \in {} |-> NoRequest]

Admitted == {ledger[r].ref : r \in DOMAIN ledger}

-----------------------------------------------------------------------------
(* Reading.  The directory is listed entry by entry, and admissions linked  *)
(* while this goes on may or may not be in the list.                        *)

Listings(w) == {S \in SUBSET DOMAIN ledger : seen[w] \subseteq S}

(* readAdmissions: anything else is ARTIFACT_INTEGRITY.                     *)
Contiguous(S) == S = 1..Cardinality(S)

(* Broken, for mutation testing: the first admission sets the limit.        *)
AnyPolicy(S, limit) == TRUE

(* assertAdmissionPolicy                                                    *)
UnderPolicy(S, limit) == \A r \in S : ledger[r].limit = limit

Holds(S, ref) == \E r \in S : ledger[r].ref = ref

Charged(S) == {DigestOf(ledger[r].ref) : r \in S}

Sum(digests) == MapThenSumSet(SizeOf, digests)

(* assertQuota                                                              *)
WithinQuota(charged, digest, limit) ==
  digest \in charged \/ Sum(charged \cup {digest}) <= limit

Fits(w, S) == WithinQuota(Charged(S), DigestOf(request[w].ref), request[w].limit)

(* read, of what is there now.                                              *)
Readable(ref) ==
  /\ Contiguous(DOMAIN ledger)
  /\ Holds(DOMAIN ledger, ref) /\ DigestOf(ref) \in blobs

-----------------------------------------------------------------------------
Returns(w, how) ==
  /\ pc' = [pc EXCEPT ![w] = "idle"]
  /\ request' = [request EXCEPT ![w] = NoRequest]
  /\ seen' = [seen EXCEPT ![w] = {}]
  /\ entry' = [entry EXCEPT ![w] = 0]
  /\ tries' = [tries EXCEPT ![w] = 0]
  /\ accepted' = IF how = "accepted" THEN accepted \cup {request[w].ref} ELSE accepted

Goes(w, place) ==
  /\ pc' = [pc EXCEPT ![w] = place]
  /\ UNCHANGED <<request, entry, tries, accepted>>

Lists(w, place) ==
  /\ Goes(w, place)
  /\ seen' = [seen EXCEPT ![w] = DOMAIN ledger]

(* write(scope, artifact), also of what was written before.  Bounded: once  *)
(* the power went, one at a time.                                           *)
Call(w, asked) ==
  /\ pc[w] = "idle" /\ ~deleting
  /\ "power" \in damage => \A v \in Writers : pc[v] = "idle"
  /\ pc' = [pc EXCEPT ![w] = "read"]
  /\ request' = [request EXCEPT ![w] = asked]
  /\ seen' = [seen EXCEPT ![w] = DOMAIN ledger]
  /\ UNCHANGED <<directories, entry, tries, deleting, history>>

(* What a write does with the admissions it read, when they are in order.   *)
Refused(w, S) == ~Contiguous(S) \/ ~UnderPolicy(S, request[w].limit)

(* Broken, for mutation testing: an admission is taken for its bytes.       *)
AcceptUnread(w) == Returns(w, "accepted") /\ UNCHANGED relied

Relies(unsynced) == relied' = (relied \/ unsynced)

(* The reference is admitted already: its bytes are read, and not synced.   *)
AcceptAdmitted(w) ==
  /\ Returns(w, IF DigestOf(request[w].ref) \in blobs THEN "accepted" ELSE "missing")
  /\ Relies(DigestOf(request[w].ref) \notin blobsSynced \/ ledgerSynced # DOMAIN ledger)

(* write, before anything is written.                                       *)
Read(w) ==
  /\ pc[w] = "read"
  /\ \E S \in Listings(w) :
       \/ Refused(w, S) /\ Returns(w, "refused") /\ UNCHANGED relied
       \/ /\ ~Refused(w, S) /\ Holds(S, request[w].ref)
          /\ AcceptAdmitted(w)
       \/ /\ ~Refused(w, S) /\ ~Holds(S, request[w].ref)
          /\ UNCHANGED relied
          /\ IF Fits(w, S)
               THEN Goes(w, "blob") /\ seen' = [seen EXCEPT ![w] = {}]
               ELSE Returns(w, "full")
  /\ UNCHANGED <<directories, deleting, damage>>

(* Broken, for mutation testing: the admission comes before the bytes.      *)
SkipBlob(w) ==
  /\ pc[w] = "blob"
  /\ Lists(w, "list")
  /\ UNCHANGED <<directories, deleting, relied, damage>>

(* commitBlob, up to the link.  A file that is there is not synced: not by  *)
(* the writer that finds it, nor by one whose link comes second.            *)
CommitBlob(w) ==
  /\ pc[w] = "blob"
  /\ \/ /\ DigestOf(request[w].ref) \in blobs
        /\ Lists(w, "list")
        /\ Relies(DigestOf(request[w].ref) \notin blobsSynced)
        /\ UNCHANGED blobs
     \/ /\ DigestOf(request[w].ref) \notin blobs
        /\ blobs' = blobs \cup {DigestOf(request[w].ref)}
        /\ Goes(w, "syncBlob")
        /\ UNCHANGED <<seen, relied>>
     \/ Returns(w, "failed") /\ UNCHANGED <<blobs, relied>>
  /\ UNCHANGED <<blobsSynced, ledger, ledgerSynced, deleting, damage>>

(* Broken, for mutation testing: the link is taken to be on disk.           *)
LeaveUnsynced(w) ==
  /\ pc[w] = "syncBlob"
  /\ Lists(w, "list")
  /\ UNCHANGED <<directories, deleting, relied, damage>>

(* commitBlob, from syncDirectory on.                                       *)
SyncBlobs(w) ==
  /\ pc[w] = "syncBlob"
  /\ \/ blobsSynced' = blobs /\ Lists(w, "list")
     \/ Returns(w, "failed") /\ UNCHANGED blobsSynced
  /\ UNCHANGED <<blobs, ledger, ledgerSynced, deleting, relied, damage>>

(* One turn of write's loop, up to the admission it makes.                  *)
List(w) ==
  /\ pc[w] = "list"
  /\ \E S \in Listings(w) :
       \/ Refused(w, S) /\ Returns(w, "refused") /\ UNCHANGED relied
       \/ /\ ~Refused(w, S) /\ Holds(S, request[w].ref)
          /\ AcceptAdmitted(w)
       \/ /\ ~Refused(w, S) /\ ~Holds(S, request[w].ref)
          /\ ~Fits(w, S)
          /\ Returns(w, "full") /\ UNCHANGED relied
       \/ /\ ~Refused(w, S) /\ ~Holds(S, request[w].ref)
          /\ Fits(w, S)
          /\ entry' = [entry EXCEPT ![w] = Cardinality(S) + 1]
          /\ seen' = [seen EXCEPT ![w] = {}]
          /\ pc' = [pc EXCEPT ![w] = "admit"]
          /\ UNCHANGED <<request, tries, accepted, relied>>
  /\ UNCHANGED <<directories, deleting, damage>>

Link(w) ==
  ledger' = [r \in DOMAIN ledger \cup {entry[w]} |->
               IF r = entry[w] THEN request[w] ELSE ledger[r]]

(* commitAdmission, up to the link: another writer may have won the         *)
(* revision, and all is read again as long as tries are left.               *)
Admit(w) ==
  /\ pc[w] = "admit"
  /\ \/ /\ entry[w] \notin DOMAIN ledger
        /\ Link(w)
        /\ Relies(ledgerSynced # DOMAIN ledger)
        /\ Goes(w, "syncAdmission") /\ UNCHANGED seen
     \/ /\ entry[w] \in DOMAIN ledger
        /\ IF tries[w] + 1 < MaxRetries
             THEN /\ pc' = [pc EXCEPT ![w] = "list"]
                  /\ tries' = [tries EXCEPT ![w] = @ + 1]
                  /\ entry' = [entry EXCEPT ![w] = 0]
                  /\ seen' = [seen EXCEPT ![w] = DOMAIN ledger]
                  /\ UNCHANGED <<request, accepted>>
             ELSE Returns(w, "conflict")
        /\ UNCHANGED <<ledger, relied>>
     \/ Returns(w, "failed") /\ UNCHANGED <<ledger, relied>>
  /\ UNCHANGED <<blobs, blobsSynced, ledgerSynced, deleting, damage>>

(* commitAdmission, from syncDirectory on: a failure hides an admission.    *)
SyncAdmissions(w) ==
  /\ pc[w] = "syncAdmission"
  /\ \/ ledgerSynced' = DOMAIN ledger /\ Returns(w, "accepted")
     \/ Returns(w, "failed") /\ UNCHANGED ledgerSynced
  /\ UNCHANGED <<blobs, blobsSynced, ledger, deleting, relied, damage>>

(* The process of the call ends, between any two of its steps.              *)
Crash(w) ==
  /\ pc[w] # "idle"
  /\ Returns(w, "never")
  /\ UNCHANGED <<directories, deleting, relied, damage>>

Forget ==
  /\ pc' = [w \in Writers |-> "idle"]
  /\ request' = [w \in Writers |-> NoRequest]
  /\ seen' = [w \in Writers |-> {}]
  /\ entry' = [w \in Writers |-> 0]
  /\ tries' = [w \in Writers |-> 0]

(* All processes end, and of the entries that were not synced any may go.   *)
(* Bounded: once, and not on what a deletion left behind.                   *)
PowerLoss ==
  /\ damage = {}
  /\ \E S \in SUBSET DOMAIN ledger, B \in SUBSET blobs :
       /\ ledgerSynced \subseteq S /\ blobsSynced \subseteq B
       /\ ledger' = [r \in S |-> ledger[r]] /\ ledgerSynced' = S
       /\ blobs' = B /\ blobsSynced' = B
  /\ damage' = damage \cup {"power"} \cup IF deleting THEN {"deletion"} ELSE {}
  /\ deleting' = FALSE
  /\ Forget
  /\ UNCHANGED <<accepted, relied>>

(* deleteRun: it begins, removes the files one by one, in an order the file *)
(* system chooses, and ends; cut short, it leaves what it did not reach.    *)
BeginDelete ==
  /\ ~deleting /\ \A w \in Writers : pc[w] = "idle"
  /\ "power" \notin damage
  /\ ledger # Empty \/ blobs # {}
  /\ deleting' = TRUE
  /\ accepted' = {}
  /\ UNCHANGED <<directories, calls, relied, damage>>

DeleteFile ==
  /\ deleting
  /\ \/ \E r \in DOMAIN ledger :
          /\ ledger' = [q \in DOMAIN ledger \ {r} |-> ledger[q]]
          /\ ledgerSynced' = ledgerSynced \ {r}
          /\ UNCHANGED <<blobs, blobsSynced>>
     \/ \E d \in blobs :
          /\ blobs' = blobs \ {d} /\ blobsSynced' = blobsSynced \ {d}
          /\ UNCHANGED <<ledger, ledgerSynced>>
  /\ UNCHANGED <<calls, deleting, history>>

EndDelete ==
  /\ deleting /\ deleting' = FALSE
  /\ damage' = IF ledger = Empty /\ blobs = {} THEN {} ELSE damage \cup {"deletion"}
  /\ UNCHANGED <<directories, calls, accepted, relied>>

Init ==
  /\ blobs = {} /\ blobsSynced = {}
  /\ ledger = Empty /\ ledgerSynced = {}
  /\ pc = [w \in Writers |-> "idle"]
  /\ request = [w \in Writers |-> NoRequest]
  /\ seen = [w \in Writers |-> {}]
  /\ entry = [w \in Writers |-> 0]
  /\ tries = [w \in Writers |-> 0]
  /\ deleting = FALSE /\ accepted = {} /\ relied = FALSE
  /\ damage = {}

Write(w) ==
  \/ Read(w) \/ CommitBlob(w) \/ SyncBlobs(w) \/ List(w) \/ Admit(w)
  \/ SyncAdmissions(w) \/ Crash(w)
  \/ \E asked \in Request : Call(w, asked)

Next ==
  \/ \E w \in Writers : Write(w)
  \/ PowerLoss \/ BeginDelete \/ DeleteFile \/ EndDelete

Spec == Init /\ [][Next]_vars

-----------------------------------------------------------------------------
Places == {"idle", "read", "blob", "syncBlob", "list", "admit", "syncAdmission"}

TypeOK ==
  /\ blobsSynced \subseteq blobs
  /\ ledgerSynced \subseteq DOMAIN ledger /\ IsFiniteSet(DOMAIN ledger)
  /\ ledger \in [DOMAIN ledger -> Request]
  /\ pc \in [Writers -> Places]
  /\ request \in [Writers -> Request \cup {NoRequest}]
  /\ seen \in [Writers -> SUBSET DOMAIN ledger]
  /\ entry \in [Writers -> Nat]
  /\ deleting \in BOOLEAN

(* Bytes come before their admission: whichever writers race, fail or die,  *)
(* no admission is ever there without its bytes, until something takes      *)
(* files away.                                                              *)
AdmittedBytesExist ==
  damage = {} /\ ~deleting => \A ref \in Admitted : DigestOf(ref) \in blobs

(* What a write returned can be read: also what was admitted by another     *)
(* call, and what was written to the rest that a deletion cut short left    *)
(* behind.  It can be read after a power loss, too, unless some write took  *)
(* for kept what another had linked and not yet synced: a blob              *)
(* (file-store.ts:615), an admission, or the one before its own.  "Accepted *)
(* artifacts stay until `deleteRun` removes that run"                       *)
(* (docs/public/recording/events-and-artifacts.mdx:82) holds this far.      *)
AcceptedIsReadable ==
  ("power" \in damage => ~relied) => \A ref \in accepted : Readable(ref)

Ledger == INSTANCE ArtifactLedger WITH
            admitted <- {ledger[r] : r \in DOMAIN ledger},
            promised <- {ledger[r] : r \in ledgerSynced},
            open <- ~deleting,
            Total <- Sum

(* To a caller the two directories are one ledger under one limit: however  *)
(* writers race, under whichever limits, it stays within the quota and      *)
(* holds nothing twice.                                                     *)
ImplementsArtifactLedger == Ledger!Spec
================================================================================
