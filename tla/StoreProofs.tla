------------------------------ MODULE StoreProofs ------------------------------
(***************************************************************************)
(* Proofs about the two stores that writers of any number of processes      *)
(* share as directories, for any number of writers and any data: that each  *)
(* implements what it promises, ArtifactLedger and EventLog, and what holds *)
(* of what a write or an append was told.                                   *)
(*                                                                          *)
(* ArtifactStore: until files are taken away the revisions are those from   *)
(* one on (InOrder), so that a listing in order is a beginning of them; a   *)
(* writer that goes on to admit knows the admissions below its revision     *)
(* (MayAdmit), and its link succeeds only when there is none above, so that *)
(* what it knew of a part of the ledger holds of the whole.  What a write   *)
(* returned stays (AcceptedStay), as the only admission that may be lost is *)
(* the last (OnlyLastUnsynced) unless one was made on top of it.            *)
(*                                                                          *)
(* JsonlEventStore: an append links its segment only at the end of a stream *)
(* without a gap (MayLink), so no two segments have a revision in common    *)
(* (SegmentsApart) and no event identity is there twice (IdsOnce); the      *)
(* stream a caller reads is then the one up to the first gap (WholeIn).     *)
(***************************************************************************)
EXTENDS ArtifactStore, JsonlEventStore, FiniteSetTheorems, WellFoundedInduction,
        SequenceTheorems, TLAPS

-----------------------------------------------------------------------------
(* The invariant.                                                           *)

(* The admissions are those of the revisions from one on, as they are until *)
(* files are taken away.                                                    *)
InOrder == \E k \in Nat : DOMAIN ledger = 1..k

(* What a writer that chose its revision relies on: the admissions below it *)
(* are under its limit, without its reference, and leave it room.           *)
MayAdmit(w) ==
  \E n \in Nat :
    /\ entry[w] = n + 1 /\ 1..n \subseteq DOMAIN ledger
    /\ UnderPolicy(1..n, request[w].limit)
    /\ ~Holds(1..n, request[w].ref)
    /\ Fits(w, 1..n)

(* A writer that is past its bytes.                                         *)
PastBytes(w) == pc[w] \in {"syncBlob", "list", "admit", "syncAdmission"}

(* Nothing was taken away.                                                  *)
Whole == damage = {} /\ ~deleting

(* What holds of one writer.                                                *)
WriterHolds(w) ==
  /\ pc[w] # "idle" => request[w] \in Request /\ ~deleting
  /\ pc[w] = "idle" => seen[w] = {}
  /\ InOrder \/ pc[w] = "idle" \/ (pc[w] = "read" /\ seen[w] = DOMAIN ledger)
  /\ pc[w] = "admit" => MayAdmit(w)
  /\ PastBytes(w) /\ Whole => DigestOf(request[w].ref) \in blobs

(* The inductive invariant.                                                 *)
IInv ==
  /\ TypeOK
  /\ \A w \in Writers : WriterHolds(w)
  /\ AdmittedBytesExist

-----------------------------------------------------------------------------
(* Steps that leave the admissions alone.                                   *)

(* A step of one writer that links no admission leaves what the others rely *)
(* on.                                                                      *)
LEMMA WriterMoves ==
  ASSUME IInv, NEW w \in Writers, TypeOK',
         UNCHANGED <<ledger, deleting, damage>>, blobs \subseteq blobs',
         \A v \in Writers \ {w} :
           pc'[v] = pc[v] /\ request'[v] = request[v] /\ seen'[v] = seen[v] /\ entry'[v] = entry[v],
         WriterHolds(w)'
  PROVE  IInv'
<1>1. ASSUME NEW v \in Writers \ {w}
      PROVE  WriterHolds(v)'
  <2>1. WriterHolds(v)
    BY DEF IInv
  <2>2. /\ pc'[v] = pc[v] /\ request'[v] = request[v] /\ seen'[v] = seen[v] /\ entry'[v] = entry[v]
    OBVIOUS
  <2>3. InOrder' <=> InOrder
    BY DEF InOrder
  <2>4. MayAdmit(v)' <=> MayAdmit(v)
    BY <2>2 DEF MayAdmit, UnderPolicy, Holds, Fits, Charged
  <2>5. QED
    BY <2>1, <2>2, <2>3, <2>4 DEF WriterHolds, PastBytes, Whole
<1>2. AdmittedBytesExist'
  BY DEF IInv, AdmittedBytesExist, Admitted
<1>3. QED
  BY <1>1, <1>2 DEF IInv

(* What a call leaves behind that returns.                                  *)
LEMMA Returning ==
  ASSUME TypeOK, NEW w \in Writers, NEW how, Returns(w, how)
  PROVE  /\ pc' \in [Writers -> Places] /\ request' \in [Writers -> Request \cup {NoRequest}]
         /\ seen' \in [Writers -> SUBSET DOMAIN ledger] /\ entry' \in [Writers -> Nat]
         /\ pc'[w] = "idle" /\ seen'[w] = {}
         /\ \A v \in Writers \ {w} :
              pc'[v] = pc[v] /\ request'[v] = request[v] /\ seen'[v] = seen[v] /\ entry'[v] = entry[v]
BY DEF TypeOK, Returns, Places

(* A call that returns keeps the invariant, with whatever blobs it leaves.  *)
LEMMA ReturnIsSafe ==
  ASSUME IInv, NEW w \in Writers, NEW how, Returns(w, how),
         UNCHANGED <<ledger, deleting, damage>>, blobs \subseteq blobs', blobsSynced' \subseteq blobs',
         ledgerSynced' \subseteq DOMAIN ledger
  PROVE  IInv'
<1>1. TypeOK'
  BY Returning DEF IInv, TypeOK
<1>2. WriterHolds(w)'
  BY Returning DEF IInv, WriterHolds, PastBytes
<1>3. QED
  BY <1>1, <1>2, Returning, WriterMoves DEF IInv

(* Where a call is that goes on.                                            *)
LEMMA Going ==
  ASSUME TypeOK, NEW w \in Writers, NEW place \in Places, Goes(w, place),
         NEW S \in SUBSET DOMAIN ledger, seen' = [seen EXCEPT ![w] = S] \/ seen' = seen
  PROVE  /\ pc' \in [Writers -> Places] /\ request' \in [Writers -> Request \cup {NoRequest}]
         /\ seen' \in [Writers -> SUBSET DOMAIN ledger] /\ entry' \in [Writers -> Nat]
         /\ pc'[w] = place /\ request' = request /\ entry' = entry
         /\ \A v \in Writers \ {w} : pc'[v] = pc[v] /\ seen'[v] = seen[v]
BY DEF TypeOK, Goes

(* A call that goes on, in order and with its bytes where it needs them,    *)
(* keeps the invariant.                                                     *)
LEMMA GoingIsSafe ==
  ASSUME IInv, NEW w \in Writers, pc[w] # "idle", InOrder,
         NEW place \in {"blob", "syncBlob", "list"}, Goes(w, place),
         NEW S \in SUBSET DOMAIN ledger, seen' = [seen EXCEPT ![w] = S] \/ seen' = seen,
         UNCHANGED <<ledger, ledgerSynced, deleting, damage>>,
         blobs \subseteq blobs', blobsSynced' \subseteq blobs',
         place # "blob" => (Whole => DigestOf(request[w].ref) \in blobs')
  PROVE  IInv'
<1>1. place \in Places /\ TypeOK
  BY DEF Places, IInv
<1>2. /\ pc' \in [Writers -> Places] /\ request' \in [Writers -> Request \cup {NoRequest}]
      /\ seen' \in [Writers -> SUBSET DOMAIN ledger] /\ entry' \in [Writers -> Nat]
      /\ pc'[w] = place /\ request' = request /\ entry' = entry
      /\ \A v \in Writers \ {w} : pc'[v] = pc[v] /\ seen'[v] = seen[v]
  BY <1>1, Going
<1>3. TypeOK'
  BY <1>1, <1>2 DEF TypeOK
<1>4. WriterHolds(w)
  BY DEF IInv
<1>5. InOrder'
  BY DEF InOrder
<1>6. WriterHolds(w)'
  BY <1>2, <1>4, <1>5 DEF WriterHolds, PastBytes, Whole
<1>7. QED
  BY <1>2, <1>3, <1>6, WriterMoves

(* What was listed and is in order are the first so many revisions.         *)
LEMMA ListedInOrder ==
  ASSUME IInv, NEW w \in Writers, pc[w] \in {"read", "list"}, NEW S \in Listings(w), Contiguous(S)
  PROVE  InOrder /\ \E n \in Nat : S = 1..n /\ n = Cardinality(S) /\ S \subseteq DOMAIN ledger
<1>1. S \subseteq DOMAIN ledger /\ seen[w] \subseteq S
  BY DEF Listings
<1>2. IsFiniteSet(S)
  BY <1>1, FS_Subset DEF IInv, TypeOK
<1>3. Cardinality(S) \in Nat /\ S = 1..Cardinality(S)
  BY <1>2, FS_CardinalityType DEF Contiguous
<1>4. CASE InOrder
  BY <1>1, <1>3, <1>4
<1>5. CASE ~InOrder
  <2>1. S = DOMAIN ledger
    BY <1>1, <1>5 DEF IInv, WriterHolds
  <2>2. QED
    BY <1>1, <1>3, <2>1 DEF InOrder
<1>6. QED
  BY <1>4, <1>5

(* The beginning of a call keeps the invariant.                             *)
LEMMA CallKeeps ==
  ASSUME IInv, NEW w \in Writers, NEW wanted \in Request, Call(w, wanted)
  PROVE  IInv'
<1>1. /\ pc' \in [Writers -> Places] /\ request' \in [Writers -> Request \cup {NoRequest}]
      /\ seen' \in [Writers -> SUBSET DOMAIN ledger] /\ entry' = entry
      /\ pc'[w] = "read" /\ request'[w] = wanted /\ seen'[w] = DOMAIN ledger
      /\ \A v \in Writers \ {w} : pc'[v] = pc[v] /\ request'[v] = request[v] /\ seen'[v] = seen[v]
      /\ ~deleting /\ UNCHANGED <<directories, deleting, damage>>
  BY DEF IInv, TypeOK, Call, Places, history
<1>2. TypeOK'
  BY <1>1 DEF IInv, TypeOK, directories
<1>3. WriterHolds(w)'
  BY <1>1 DEF WriterHolds, PastBytes, directories
<1>4. QED
  BY <1>1, <1>2, <1>3, WriterMoves DEF directories

(* The first reading of the admissions keeps the invariant.                 *)
LEMMA ReadKeeps ==
  ASSUME IInv, NEW w \in Writers, Read(w)
  PROVE  IInv'
<1>1. /\ pc[w] = "read" /\ UNCHANGED <<directories, deleting, damage>>
      /\ blobsSynced \subseteq blobs /\ ledgerSynced \subseteq DOMAIN ledger
  BY DEF Read, IInv, TypeOK
<1>2. ASSUME NEW how, Returns(w, how)
      PROVE  IInv'
  BY <1>1, <1>2, ReturnIsSafe DEF directories
<1>3. ASSUME NEW S \in Listings(w), Contiguous(S), Goes(w, "blob"), seen' = [seen EXCEPT ![w] = {}]
      PROVE  IInv'
  <2>1. InOrder
    BY <1>1, <1>3, ListedInOrder
  <2>2. {} \in SUBSET DOMAIN ledger
    OBVIOUS
  <2>3. QED
    BY <1>1, <1>3, <2>1, <2>2, GoingIsSafe DEF directories
<1>4. QED
  BY <1>2, <1>3 DEF Read, Refused, AcceptAdmitted

(* The link of the bytes keeps the invariant.                               *)
LEMMA CommitBlobKeeps ==
  ASSUME IInv, NEW w \in Writers, CommitBlob(w)
  PROVE  IInv'
<1>1. /\ pc[w] = "blob" /\ UNCHANGED <<blobsSynced, ledger, ledgerSynced, deleting, damage>>
      /\ blobsSynced \subseteq blobs /\ ledgerSynced \subseteq DOMAIN ledger /\ blobs \subseteq blobs'
  BY DEF CommitBlob, IInv, TypeOK
<1>2. InOrder
  BY <1>1 DEF IInv, WriterHolds
<1>3. CASE DigestOf(request[w].ref) \in blobs /\ Lists(w, "list") /\ UNCHANGED blobs
  <2>1. DOMAIN ledger \in SUBSET DOMAIN ledger
    OBVIOUS
  <2>2. QED
    BY <1>1, <1>2, <1>3, <2>1, GoingIsSafe DEF Lists
<1>4. CASE Goes(w, "syncBlob") /\ blobs' = blobs \cup {DigestOf(request[w].ref)} /\ UNCHANGED seen
  <2>1. {} \in SUBSET DOMAIN ledger
    OBVIOUS
  <2>2. QED
    BY <1>1, <1>2, <1>4, <2>1, GoingIsSafe
<1>5. CASE Returns(w, "failed") /\ UNCHANGED blobs
  BY <1>1, <1>5, ReturnIsSafe
<1>6. QED
  BY <1>3, <1>4, <1>5 DEF CommitBlob

(* The sync of the bytes keeps the invariant.                               *)
LEMMA SyncBlobsKeeps ==
  ASSUME IInv, NEW w \in Writers, SyncBlobs(w)
  PROVE  IInv'
<1>1. /\ pc[w] = "syncBlob" /\ UNCHANGED <<blobs, ledger, ledgerSynced, deleting, damage>>
      /\ blobsSynced' \subseteq blobs /\ ledgerSynced \subseteq DOMAIN ledger
  BY DEF SyncBlobs, IInv, TypeOK
<1>2. InOrder /\ (Whole => DigestOf(request[w].ref) \in blobs)
  BY <1>1 DEF IInv, WriterHolds, PastBytes
<1>3. CASE Lists(w, "list")
  <2>1. DOMAIN ledger \in SUBSET DOMAIN ledger
    OBVIOUS
  <2>2. QED
    BY <1>1, <1>2, <1>3, <2>1, GoingIsSafe DEF Lists
<1>4. CASE Returns(w, "failed")
  BY <1>1, <1>4, ReturnIsSafe
<1>5. QED
  BY <1>3, <1>4 DEF SyncBlobs

(* The listing before an admission keeps the invariant: what is found in    *)
(* order, under the limit and with room is what the writer may go by.       *)
LEMMA ListKeeps ==
  ASSUME IInv, NEW w \in Writers, List(w)
  PROVE  IInv'
<1>1. /\ pc[w] = "list" /\ UNCHANGED <<directories, deleting, damage>>
      /\ blobsSynced \subseteq blobs /\ ledgerSynced \subseteq DOMAIN ledger
  BY DEF List, IInv, TypeOK
<1>2. ASSUME NEW how, Returns(w, how)
      PROVE  IInv'
  BY <1>1, <1>2, ReturnIsSafe DEF directories
<1>3. ASSUME NEW S \in Listings(w), ~Refused(w, S), ~Holds(S, request[w].ref), Fits(w, S),
             entry' = [entry EXCEPT ![w] = Cardinality(S) + 1],
             seen' = [seen EXCEPT ![w] = {}], pc' = [pc EXCEPT ![w] = "admit"], UNCHANGED request
      PROVE  IInv'
  <2>1. PICK n \in Nat : InOrder /\ S = 1..n /\ n = Cardinality(S) /\ S \subseteq DOMAIN ledger
    BY <1>1, <1>3, ListedInOrder DEF Refused
  <2>2. /\ pc' \in [Writers -> Places] /\ seen' \in [Writers -> SUBSET DOMAIN ledger]
        /\ entry' \in [Writers -> Nat] /\ pc'[w] = "admit" /\ entry'[w] = n + 1
        /\ \A v \in Writers \ {w} : pc'[v] = pc[v] /\ seen'[v] = seen[v] /\ entry'[v] = entry[v]
    BY <1>3, <2>1 DEF IInv, TypeOK, Places
  <2>3. TypeOK'
    BY <1>1, <1>3, <2>2 DEF IInv, TypeOK, directories
  <2>4. UnderPolicy(1..n, request[w].limit) /\ ~Holds(1..n, request[w].ref) /\ Fits(w, 1..n)
    BY <1>3, <2>1 DEF Refused
  <2>5. MayAdmit(w)'
    <3>1. (UnderPolicy(1..n, request[w].limit) /\ ~Holds(1..n, request[w].ref) /\ Fits(w, 1..n))'
      BY <1>1, <1>3, <2>4 DEF UnderPolicy, Holds, Fits, Charged, directories
    <3>2. entry'[w] = n + 1 /\ 1..n \subseteq (DOMAIN ledger)'
      BY <1>1, <2>1, <2>2 DEF directories
    <3>3. QED
      BY <3>1, <3>2 DEF MayAdmit
  <2>6. InOrder'
    BY <1>1, <2>1 DEF InOrder, directories
  <2>7. WriterHolds(w)'
    BY <1>1, <1>3, <2>2, <2>5, <2>6 DEF IInv, WriterHolds, PastBytes, Whole, directories
  <2>8. QED
    BY <1>1, <1>3, <2>2, <2>3, <2>7, WriterMoves DEF directories
<1>4. QED
  BY <1>2, <1>3 DEF List, AcceptAdmitted

-----------------------------------------------------------------------------
(* Steps that change the admissions.                                        *)

(* The link of an admission: it is the next one, under a limit that all are *)
(* under, of a reference that is new and fits.                              *)
LEMMA LinksNext ==
  ASSUME IInv, NEW w \in Writers, pc[w] = "admit", entry[w] \notin DOMAIN ledger, Link(w)
  PROVE  /\ \E k \in Nat : DOMAIN ledger = 1..k /\ DOMAIN ledger' = 1..(k + 1)
         /\ ledger' \in [DOMAIN ledger' -> Request] /\ DOMAIN ledger \subseteq DOMAIN ledger'
         /\ \A r \in DOMAIN ledger : ledger'[r] = ledger[r]
         /\ DOMAIN ledger' = DOMAIN ledger \cup {entry[w]} /\ ledger'[entry[w]] = request[w]
         /\ request[w] \in Request
         /\ UnderPolicy(DOMAIN ledger, request[w].limit)
         /\ ~Holds(DOMAIN ledger, request[w].ref)
         /\ Fits(w, DOMAIN ledger)
<1>1. request[w] \in Request /\ InOrder /\ MayAdmit(w) /\ ledger \in [DOMAIN ledger -> Request]
  BY DEF IInv, WriterHolds, TypeOK
<1>2. PICK k \in Nat : DOMAIN ledger = 1..k
  BY <1>1 DEF InOrder
<1>3. PICK n \in Nat :
        /\ entry[w] = n + 1 /\ 1..n \subseteq DOMAIN ledger
        /\ UnderPolicy(1..n, request[w].limit) /\ ~Holds(1..n, request[w].ref) /\ Fits(w, 1..n)
  BY <1>1 DEF MayAdmit
<1>4. n = k
  <2>1. n + 1 \notin 1..k
    BY <1>2, <1>3
  <2>2. n = 0 \/ n \in 1..k
    BY <1>2, <1>3
  <2>3. QED
    BY <2>1, <2>2
<1>5. DOMAIN ledger' = DOMAIN ledger \cup {entry[w]}
  BY DEF Link
<1>6. (DOMAIN ledger \cup {entry[w]}) = 1..(k + 1)
  BY <1>2, <1>3, <1>4
<1>7. /\ ledger'[entry[w]] = request[w]
      /\ \A r \in DOMAIN ledger : ledger'[r] = ledger[r]
  BY DEF Link
<1>8. ledger' \in [DOMAIN ledger' -> Request]
  BY <1>1 DEF Link
<1>9. QED
  BY <1>1, <1>2, <1>3, <1>4, <1>5, <1>6, <1>7, <1>8

(* The link of an admission keeps the invariant.                            *)
LEMMA LinkKeeps ==
  ASSUME IInv, NEW w \in Writers, pc[w] = "admit", entry[w] \notin DOMAIN ledger, Link(w),
         Goes(w, "syncAdmission"), UNCHANGED <<blobs, blobsSynced, ledgerSynced, seen, deleting, damage>>
  PROVE  IInv'
<1>1. /\ \E k \in Nat : DOMAIN ledger = 1..k /\ DOMAIN ledger' = 1..(k + 1)
      /\ ledger' \in [DOMAIN ledger' -> Request] /\ DOMAIN ledger \subseteq DOMAIN ledger'
      /\ \A r \in DOMAIN ledger : ledger'[r] = ledger[r]
      /\ DOMAIN ledger' = DOMAIN ledger \cup {entry[w]} /\ ledger'[entry[w]] = request[w]
      /\ request[w] \in Request
  BY LinksNext
<1>2. InOrder' /\ IsFiniteSet(DOMAIN ledger')
  <2>1. PICK k \in Nat : DOMAIN ledger' = 1..(k + 1)
    BY <1>1
  <2>2. k + 1 \in Int /\ 1 \in Int /\ k + 1 \in Nat
    OBVIOUS
  <2>3. IsFiniteSet(1..(k + 1))
    BY <2>2, FS_Interval, Zenon
  <2>4. QED
    BY <2>1, <2>2, <2>3 DEF InOrder
<1>3. /\ pc' = [pc EXCEPT ![w] = "syncAdmission"] /\ request' = request /\ entry' = entry
      /\ pc' \in [Writers -> Places]
  BY DEF IInv, TypeOK, Goes, Places
<1>4. TypeOK'
  BY <1>1, <1>2, <1>3 DEF IInv, TypeOK
<1>5. Whole => DigestOf(request[w].ref) \in blobs
  BY DEF IInv, WriterHolds, PastBytes
<1>6. AdmittedBytesExist'
  <2>1. SUFFICES ASSUME Whole, NEW r \in DOMAIN ledger'
                 PROVE  DigestOf(ledger'[r].ref) \in blobs
    BY DEF AdmittedBytesExist, Admitted, Whole
  <2>2. CASE r = entry[w]
    BY <1>1, <1>5, <2>1, <2>2
  <2>3. CASE r \in DOMAIN ledger
    BY <1>1, <2>1, <2>3 DEF IInv, AdmittedBytesExist, Admitted, Whole
  <2>4. QED
    BY <1>1, <2>1, <2>2, <2>3
<1>7. ASSUME NEW v \in Writers
      PROVE  WriterHolds(v)'
  <2>1. WriterHolds(v)
    BY DEF IInv
  <2>2. CASE v = w
    BY <1>1, <1>2, <1>3, <1>5, <2>1, <2>2 DEF WriterHolds, PastBytes, Whole, IInv, TypeOK
  <2>3. CASE v # w
    <3>1. pc'[v] = pc[v]
      BY <1>3, <2>3 DEF IInv, TypeOK
    <3>2. ASSUME MayAdmit(v)
          PROVE  MayAdmit(v)'
      <4>1. PICK n \in Nat :
              /\ entry[v] = n + 1 /\ 1..n \subseteq DOMAIN ledger
              /\ UnderPolicy(1..n, request[v].limit) /\ ~Holds(1..n, request[v].ref) /\ Fits(v, 1..n)
        BY <3>2 DEF MayAdmit
      <4>2. \A r \in 1..n : ledger'[r] = ledger[r]
        BY <1>1, <4>1
      <4>3. Charged(1..n)' = Charged(1..n)
        BY <4>2 DEF Charged
      <4>4. (UnderPolicy(1..n, request[v].limit) /\ ~Holds(1..n, request[v].ref) /\ Fits(v, 1..n))'
        BY <1>3, <4>1, <4>2, <4>3 DEF UnderPolicy, Holds, Fits
      <4>5. entry'[v] = n + 1 /\ 1..n \subseteq (DOMAIN ledger)'
        BY <1>1, <1>3, <4>1
      <4>6. QED
        BY <4>4, <4>5 DEF MayAdmit
    <3>3. QED
      BY <1>2, <1>3, <2>1, <3>1, <3>2 DEF WriterHolds, PastBytes, Whole
  <2>4. QED
    BY <2>2, <2>3
<1>8. QED
  BY <1>4, <1>6, <1>7 DEF IInv

(* An admission that is linked, lost to another writer or failed keeps the  *)
(* invariant.                                                               *)
LEMMA AdmitKeeps ==
  ASSUME IInv, NEW w \in Writers, Admit(w)
  PROVE  IInv'
<1>1. /\ pc[w] = "admit" /\ UNCHANGED <<blobs, blobsSynced, ledgerSynced, deleting, damage>>
      /\ blobsSynced \subseteq blobs /\ ledgerSynced \subseteq DOMAIN ledger
  BY DEF Admit, IInv, TypeOK
<1>2. CASE entry[w] \notin DOMAIN ledger /\ Link(w) /\ Goes(w, "syncAdmission") /\ UNCHANGED seen
  BY <1>1, <1>2, LinkKeeps
<1>3. ASSUME NEW how, Returns(w, how), UNCHANGED ledger
      PROVE  IInv'
  BY <1>1, <1>3, ReturnIsSafe
<1>4. CASE /\ pc' = [pc EXCEPT ![w] = "list"] /\ entry' = [entry EXCEPT ![w] = 0]
           /\ seen' = [seen EXCEPT ![w] = DOMAIN ledger] /\ UNCHANGED <<request, ledger>>
  <2>1. /\ pc' \in [Writers -> Places] /\ entry' \in [Writers -> Nat]
        /\ seen' \in [Writers -> SUBSET DOMAIN ledger] /\ pc'[w] = "list"
        /\ \A v \in Writers \ {w} : pc'[v] = pc[v] /\ seen'[v] = seen[v] /\ entry'[v] = entry[v]
    BY <1>4 DEF IInv, TypeOK, Places
  <2>2. TypeOK'
    BY <1>1, <1>4, <2>1 DEF IInv, TypeOK
  <2>3. InOrder'
    BY <1>1, <1>4 DEF IInv, WriterHolds, InOrder
  <2>4. WriterHolds(w)'
    BY <1>1, <1>4, <2>1, <2>3 DEF IInv, WriterHolds, PastBytes, Whole
  <2>5. QED
    BY <1>1, <1>4, <2>1, <2>2, <2>4, WriterMoves
<1>5. QED
  BY <1>2, <1>3, <1>4 DEF Admit

(* The sync of an admission keeps the invariant.                            *)
LEMMA SyncAdmissionsKeeps ==
  ASSUME IInv, NEW w \in Writers, SyncAdmissions(w)
  PROVE  IInv'
BY ReturnIsSafe DEF SyncAdmissions, IInv, TypeOK

(* The death of a writer keeps the invariant.                               *)
LEMMA CrashKeeps ==
  ASSUME IInv, NEW w \in Writers, Crash(w)
  PROVE  IInv'
BY ReturnIsSafe DEF Crash, IInv, TypeOK, directories

(* With nobody at work, whatever files are taken away.                      *)
LEMMA RemovalIsSafe ==
  ASSUME IInv, blobsSynced' \subseteq blobs', NEW S \in SUBSET DOMAIN ledger,
         ledger' = [r \in S |-> ledger[r]], ledgerSynced' \subseteq S, deleting' \in BOOLEAN,
         pc' = [w \in Writers |-> "idle"], request' \in [Writers -> Request \cup {NoRequest}],
         seen' = [w \in Writers |-> {}], entry' \in [Writers -> Nat], ~Whole'
  PROVE  IInv'
<1>1. DOMAIN ledger' = S /\ ledger' \in [S -> Request]
  BY DEF IInv, TypeOK
<1>2. IsFiniteSet(S)
  BY FS_Subset DEF IInv, TypeOK
<1>3. TypeOK'
  BY <1>1, <1>2 DEF TypeOK, Places
<1>4. \A w \in Writers : WriterHolds(w)'
  BY DEF WriterHolds, PastBytes
<1>5. AdmittedBytesExist'
  BY <1>1 DEF AdmittedBytesExist, Admitted, Whole
<1>6. QED
  BY <1>3, <1>4, <1>5 DEF IInv

(* A power loss keeps the invariant.                                        *)
LEMMA PowerLossKeeps ==
  ASSUME IInv, PowerLoss
  PROVE  IInv'
<1>1. PICK S \in SUBSET DOMAIN ledger : ledger' = [r \in S |-> ledger[r]] /\ ledgerSynced' = S
  BY DEF PowerLoss
<1>2. blobsSynced' \subseteq blobs' /\ ~Whole' /\ deleting' \in BOOLEAN
  BY DEF PowerLoss, Whole
<1>3. /\ pc' = [w \in Writers |-> "idle"] /\ request' \in [Writers -> Request \cup {NoRequest}]
      /\ seen' = [w \in Writers |-> {}] /\ entry' \in [Writers -> Nat]
  BY DEF PowerLoss, Forget
<1>4. QED
  BY <1>1, <1>2, <1>3, RemovalIsSafe

(* The beginning of a deletion keeps the invariant.                         *)
LEMMA BeginDeleteKeeps ==
  ASSUME IInv, BeginDelete
  PROVE  IInv'
<1>1. TypeOK'
  BY DEF IInv, TypeOK, BeginDelete, directories, calls
<1>2. \A w \in Writers : WriterHolds(w)'
  BY DEF IInv, WriterHolds, PastBytes, BeginDelete, calls
<1>3. AdmittedBytesExist'
  BY DEF AdmittedBytesExist, BeginDelete
<1>4. QED
  BY <1>1, <1>2, <1>3 DEF IInv

(* The removal of a file keeps the invariant.                               *)
LEMMA DeleteFileKeeps ==
  ASSUME IInv, DeleteFile
  PROVE  IInv'
<1>1. /\ \A w \in Writers : pc[w] = "idle" /\ seen[w] = {}
      /\ UNCHANGED <<pc, request, seen, entry, deleting>> /\ deleting
  BY DEF IInv, WriterHolds, DeleteFile, calls
<1>2. PICK S \in SUBSET DOMAIN ledger : ledger' = [r \in S |-> ledger[r]] /\ ledgerSynced' \subseteq S
  <2>1. ASSUME NEW r \in DOMAIN ledger, ledger' = [q \in DOMAIN ledger \ {r} |-> ledger[q]],
               ledgerSynced' = ledgerSynced \ {r}
        PROVE  \E S \in SUBSET DOMAIN ledger :
                 ledger' = [q \in S |-> ledger[q]] /\ ledgerSynced' \subseteq S
    <3>1. DOMAIN ledger \ {r} \in SUBSET DOMAIN ledger /\ ledgerSynced' \subseteq DOMAIN ledger \ {r}
      BY <2>1 DEF IInv, TypeOK
    <3>2. QED
      BY <2>1, <3>1
  <2>2. CASE UNCHANGED <<ledger, ledgerSynced>>
    <3>1. ledger' = [q \in DOMAIN ledger |-> ledger[q]] /\ ledgerSynced' \subseteq DOMAIN ledger
      BY <2>2 DEF IInv, TypeOK
    <3>2. QED
      BY <3>1
  <2>3. QED
    BY <2>1, <2>2 DEF DeleteFile
<1>3. blobsSynced' \subseteq blobs'
  BY DEF DeleteFile, IInv, TypeOK
<1>4. /\ pc' = [w \in Writers |-> "idle"] /\ request' \in [Writers -> Request \cup {NoRequest}]
      /\ seen' = [w \in Writers |-> {}] /\ entry' \in [Writers -> Nat] /\ deleting' \in BOOLEAN
      /\ ~Whole'
  BY <1>1 DEF IInv, TypeOK, Whole
<1>5. QED
  BY <1>2, <1>3, <1>4, RemovalIsSafe

(* The end of a deletion keeps the invariant.                               *)
LEMMA EndDeleteKeeps ==
  ASSUME IInv, EndDelete
  PROVE  IInv'
<1>1. TypeOK' /\ \A w \in Writers : pc'[w] = "idle" /\ seen'[w] = {}
  BY DEF IInv, TypeOK, WriterHolds, EndDelete, directories, calls
<1>2. \A w \in Writers : WriterHolds(w)'
  BY <1>1 DEF WriterHolds, PastBytes
<1>3. AdmittedBytesExist'
  BY DEF AdmittedBytesExist, Admitted, EndDelete, directories, Empty
<1>4. QED
  BY <1>1, <1>2, <1>3 DEF IInv

(* The invariant holds at first.                                            *)
LEMMA InitKeeps ==
  ASSUME Init
  PROVE  IInv
<1>1. DOMAIN Empty = {} /\ ledger = Empty
  BY DEF Init, Empty
<1>2. TypeOK
  <2>1. IsFiniteSet(DOMAIN ledger) /\ ledger \in [DOMAIN ledger -> Request]
    BY <1>1, FS_EmptySet DEF Empty
  <2>2. deleting \in BOOLEAN
    BY Zenon DEF Init
  <2>3. QED
    BY <2>1, <2>2 DEF Init, TypeOK, Places
<1>3. \A w \in Writers : WriterHolds(w)
  BY DEF Init, WriterHolds, PastBytes
<1>4. AdmittedBytesExist
  BY <1>1 DEF AdmittedBytesExist, Admitted
<1>5. QED
  BY <1>2, <1>3, <1>4 DEF IInv

(* Every step keeps the invariant.                                          *)
LEMMA StepKeeps ==
  ASSUME IInv, [Next]_vars
  PROVE  IInv'
<1>1. CASE UNCHANGED vars
  <2>1. /\ TypeOK' /\ AdmittedBytesExist'
    BY <1>1 DEF vars, IInv, TypeOK, AdmittedBytesExist, Admitted, directories, calls, history
  <2>2. \A w \in Writers : WriterHolds(w)'
    <3>1. InOrder' <=> InOrder
      BY <1>1 DEF vars, directories, InOrder
    <3>2. ASSUME NEW w \in Writers
          PROVE  MayAdmit(w)' <=> MayAdmit(w)
      BY <1>1 DEF vars, directories, calls, MayAdmit, UnderPolicy, Holds, Fits, Charged
    <3>3. QED
      BY <1>1, <3>1, <3>2 DEF vars, IInv, WriterHolds, PastBytes, Whole, directories, calls, history
  <2>3. QED
    BY <2>1, <2>2 DEF IInv
<1>2. CASE Next
  BY <1>2, CallKeeps, ReadKeeps, CommitBlobKeeps, SyncBlobsKeeps, ListKeeps, AdmitKeeps,
     SyncAdmissionsKeeps, CrashKeeps, PowerLossKeeps, BeginDeleteKeeps, DeleteFileKeeps,
     EndDeleteKeeps DEF Next, Write
<1>3. QED
  BY <1>1, <1>2

(* The invariant always holds.                                              *)
THEOREM StoreInvariant == Spec => []IInv
BY InitKeeps, StepKeeps, PTL DEF Spec

(* Every state has its type.                                                *)
THEOREM TypeCorrect == Spec => []TypeOK
<1>1. IInv => TypeOK
  BY DEF IInv
<1>2. QED
  BY <1>1, StoreInvariant, PTL

(* No admission is ever there without its bytes, until files are taken away.*)
THEOREM BytesAlwaysExist == Spec => []AdmittedBytesExist
<1>1. IInv => AdmittedBytesExist
  BY DEF IInv
<1>2. QED
  BY <1>1, StoreInvariant, PTL

-----------------------------------------------------------------------------
(* The two directories are a ledger.                                        *)

(* The state of the ledger that the directories stand for.                  *)
Mapped == <<{ledger[r] : r \in DOMAIN ledger}, {ledger[r] : r \in ledgerSynced}, ~deleting>>

(* An empty store is an empty ledger.                                       *)
LEMMA InitIsLedger == Init => Ledger!Init
<1>1. SUFFICES ASSUME Init PROVE Ledger!Init
  OBVIOUS
<1>2. ledger = Empty /\ DOMAIN Empty = {} /\ ledgerSynced = {} /\ ~deleting
  <2>1. ledger = Empty /\ DOMAIN Empty = {} /\ ledgerSynced = {}
    BY <1>1 DEF Init, Empty
  <2>2. ~deleting
    BY <1>1, Zenon DEF Init
  <2>3. QED
    BY <2>1, <2>2
<1>3. QED
  BY <1>2 DEF Ledger!Init

(* An admission that is linked is one the ledger admits.                    *)
LEMMA LinkIsAdmit ==
  ASSUME IInv, NEW w \in Writers, Admit(w), ledger' # ledger
  PROVE  Ledger!Admit(request[w].ref, request[w].limit)
         /\ request[w].ref \in References /\ request[w].limit \in Limits
<1>1. /\ pc[w] = "admit" /\ entry[w] \notin DOMAIN ledger /\ Link(w)
      /\ UNCHANGED <<ledgerSynced, deleting>>
  BY DEF Admit
<1>2. /\ ledger' \in [DOMAIN ledger' -> Request] /\ DOMAIN ledger \subseteq DOMAIN ledger'
      /\ \A r \in DOMAIN ledger : ledger'[r] = ledger[r]
      /\ DOMAIN ledger' = DOMAIN ledger \cup {entry[w]} /\ ledger'[entry[w]] = request[w]
      /\ request[w] \in Request
      /\ UnderPolicy(DOMAIN ledger, request[w].limit)
      /\ ~Holds(DOMAIN ledger, request[w].ref)
      /\ Fits(w, DOMAIN ledger)
  BY <1>1, LinksNext
<1>3. /\ request[w] = [ref |-> request[w].ref, limit |-> request[w].limit]
      /\ request[w].ref \in References /\ request[w].limit \in Limits
  BY <1>2 DEF Request
<1>4. ~deleting /\ ledgerSynced \subseteq DOMAIN ledger
  BY <1>1 DEF IInv, WriterHolds, TypeOK
<1>5. Ledger!Charged = Charged(DOMAIN ledger)
  BY DEF Ledger!Charged, Charged
<1>6. Ledger!Room(Ledger!Charged, DigestOf(request[w].ref), request[w].limit)
  BY <1>2, <1>5 DEF Ledger!Room, Fits, WithinQuota
<1>7. {ledger'[r] : r \in DOMAIN ledger'} = {ledger[r] : r \in DOMAIN ledger} \cup {request[w]}
  BY <1>2
<1>8. {ledger'[r] : r \in ledgerSynced'} = {ledger[r] : r \in ledgerSynced}
  BY <1>1, <1>2, <1>4
<1>9. \A e \in {ledger[r] : r \in DOMAIN ledger} : e.limit = request[w].limit /\ e.ref # request[w].ref
  BY <1>2 DEF UnderPolicy, Holds
<1>10. QED
  BY <1>1, <1>3, <1>4, <1>6, <1>7, <1>8, <1>9 DEF Ledger!Admit

(* A power loss takes from the ledger what was not promised.                *)
LEMMA LossIsPowerLoss ==
  ASSUME IInv, PowerLoss
  PROVE  Ledger!PowerLoss
<1>1. PICK S \in SUBSET DOMAIN ledger :
        ledgerSynced \subseteq S /\ ledger' = [r \in S |-> ledger[r]] /\ ledgerSynced' = S
  BY DEF PowerLoss
<1>2. DOMAIN ledger' = S /\ deleting' = FALSE
  BY <1>1 DEF PowerLoss
<1>3. {ledger'[r] : r \in S} = {ledger[r] : r \in S}
  BY <1>1
<1>4. /\ {ledger[r] : r \in ledgerSynced} \subseteq {ledger[r] : r \in S}
      /\ {ledger[r] : r \in S} \subseteq {ledger[r] : r \in DOMAIN ledger}
  BY <1>1
<1>5. QED
  BY <1>1, <1>2, <1>3, <1>4 DEF Ledger!PowerLoss

(* The removal of a file is a part of a deletion, or leaves the ledger      *)
(* alone.                                                                   *)
LEMMA RemovalIsDeletion ==
  ASSUME IInv, DeleteFile
  PROVE  Ledger!DeleteSome \/ UNCHANGED Mapped
<1>1. deleting /\ UNCHANGED deleting /\ ledgerSynced \subseteq DOMAIN ledger
  BY DEF DeleteFile, IInv, TypeOK
<1>2. CASE UNCHANGED <<ledger, ledgerSynced>>
  BY <1>1, <1>2 DEF Mapped
<1>3. ASSUME NEW r \in DOMAIN ledger, ledger' = [q \in DOMAIN ledger \ {r} |-> ledger[q]],
             ledgerSynced' = ledgerSynced \ {r}
      PROVE  Ledger!DeleteSome
  <2>1. DOMAIN ledger' = DOMAIN ledger \ {r} /\ \A q \in DOMAIN ledger' : ledger'[q] = ledger[q]
    BY <1>3
  <2>2. {ledger'[q] : q \in DOMAIN ledger'} \subseteq {ledger[q] : q \in DOMAIN ledger}
    BY <2>1
  <2>3. {ledger'[q] : q \in ledgerSynced'} \subseteq {ledger[q] : q \in ledgerSynced}
    BY <1>1, <1>3, <2>1
  <2>4. QED
    BY <1>1, <2>2, <2>3 DEF Ledger!DeleteSome
<1>4. QED
  BY <1>2, <1>3 DEF DeleteFile

(* Every step is one of the ledger, or leaves it alone.                     *)
LEMMA StepIsLedger ==
  ASSUME IInv, [Next]_vars
  PROVE  [Ledger!Next]_Mapped
<1>1. CASE UNCHANGED <<ledger, ledgerSynced, deleting>>
  BY <1>1 DEF Mapped
<1>2. ASSUME NEW w \in Writers, Write(w)
      PROVE  [Ledger!Next]_Mapped
  <2>1. CASE UNCHANGED <<directories, deleting>>
    BY <1>1, <2>1 DEF directories
  <2>2. CASE CommitBlob(w) \/ SyncBlobs(w)
    BY <1>1, <2>2 DEF CommitBlob, SyncBlobs
  <2>3. CASE Admit(w)
    <3>1. CASE ledger' = ledger
      BY <1>1, <2>3, <3>1 DEF Admit
    <3>2. CASE ledger' # ledger
      <4>1. /\ Ledger!Admit(request[w].ref, request[w].limit)
            /\ request[w].ref \in References /\ request[w].limit \in Limits
        BY <2>3, <3>2, LinkIsAdmit
      <4>2. \E ref \in References, limit \in Limits : Ledger!Admit(ref, limit)
        BY <4>1 DEF Ledger!Admit
      <4>3. QED
        BY <4>2 DEF Ledger!Next
    <3>3. QED
      BY <3>1, <3>2
  <2>4. CASE SyncAdmissions(w)
    <3>1. CASE UNCHANGED ledgerSynced
      BY <1>1, <2>4, <3>1 DEF SyncAdmissions
    <3>2. CASE ledgerSynced' = DOMAIN ledger
      <4>1. ledgerSynced \subseteq DOMAIN ledger /\ UNCHANGED <<ledger, deleting>>
        BY <2>4 DEF SyncAdmissions, IInv, TypeOK
      <4>2. /\ {ledger[r] : r \in ledgerSynced} \subseteq {ledger'[r] : r \in ledgerSynced'}
            /\ {ledger'[r] : r \in ledgerSynced'} \subseteq {ledger[r] : r \in DOMAIN ledger}
            /\ {ledger'[r] : r \in DOMAIN ledger'} = {ledger[r] : r \in DOMAIN ledger}
        BY <3>2, <4>1
      <4>3. QED
        BY <4>1, <4>2 DEF Ledger!Promise, Ledger!Next
    <3>3. QED
      BY <2>4, <3>1, <3>2 DEF SyncAdmissions
  <2>5. QED
    BY <1>2, <2>1, <2>2, <2>3, <2>4 DEF Write, Call, Read, List, Crash
<1>3. CASE BeginDelete
  <2>1. UNCHANGED <<ledger, ledgerSynced>> /\ deleting' = TRUE
    BY <1>3 DEF BeginDelete, directories
  <2>2. QED
    BY <2>1 DEF Ledger!BeginDelete, Ledger!Next
<1>4. CASE EndDelete
  <2>1. UNCHANGED <<ledger, ledgerSynced>> /\ deleting' = FALSE
    BY <1>4 DEF EndDelete, directories
  <2>2. QED
    BY <2>1 DEF Ledger!EndDelete, Ledger!Next
<1>5. CASE PowerLoss
  BY <1>5, LossIsPowerLoss DEF Ledger!Next
<1>6. CASE DeleteFile
  BY <1>6, RemovalIsDeletion DEF Ledger!Next
<1>7. CASE UNCHANGED vars
  BY <1>1, <1>7 DEF vars, directories
<1>8. QED
  BY <1>2, <1>3, <1>4, <1>5, <1>6, <1>7 DEF Next

(* The store implements the ledger.                                         *)
THEOREM StoreIsLedger == Spec => ImplementsArtifactLedger
<1>1. Init => Ledger!Init
  BY InitIsLedger
<1>2. IInv /\ [Next]_vars => [Ledger!Next]_Mapped
  BY StepIsLedger
<1>3. QED
  BY <1>1, <1>2, StoreInvariant, PTL DEF Spec, ImplementsArtifactLedger, Ledger!Spec, Mapped

-----------------------------------------------------------------------------
(* What a write returned can be read.                                       *)

(* The references that writes returned, where power took nothing that one   *)
(* of them relied on, and where none relied on what was not synced.         *)
AcceptedStay ==
  /\ deleting => accepted = {}
  /\ ("power" \in damage => ~relied) =>
       /\ accepted # {} => InOrder
       /\ \A ref \in accepted : Holds(DOMAIN ledger, ref) /\ DigestOf(ref) \in blobs
  /\ ~relied =>
       \A ref \in accepted : Holds(ledgerSynced, ref) /\ DigestOf(ref) \in blobsSynced

(* Only the last admission may be one that is not on disk.                  *)
OnlyLastUnsynced ==
  ~relied => \A r \in DOMAIN ledger \ ledgerSynced : \A q \in DOMAIN ledger : q <= r

(* The bytes and the admission of a write that is past them.                *)
WriterStays(w) ==
  /\ PastBytes(w) => DigestOf(request[w].ref) \in blobs
  /\ ~relied /\ pc[w] \in {"list", "admit", "syncAdmission"} =>
       DigestOf(request[w].ref) \in blobsSynced
  /\ pc[w] = "syncAdmission" => InOrder /\ Holds(DOMAIN ledger, request[w].ref)

(* The invariant of what was accepted, beside the one of the ledger.        *)
KeepInv ==
  /\ relied \in BOOLEAN /\ AcceptedStay /\ OnlyLastUnsynced
  /\ \A w \in Writers : WriterStays(w)

(* A step of one writer that changes no admission keeps what was accepted.  *)
LEMMA WriterStaysOn ==
  ASSUME IInv, KeepInv, NEW w \in Writers, UNCHANGED <<ledger, deleting, damage>>,
         blobs \subseteq blobs', blobsSynced \subseteq blobsSynced',
         ledgerSynced \subseteq ledgerSynced',
         relied' \in BOOLEAN, relied => relied',
         \A v \in Writers \ {w} : pc'[v] = pc[v] /\ request'[v] = request[v],
         WriterStays(w)',
         \A ref \in accepted' \ accepted :
           /\ ~deleting /\ InOrder /\ Holds(DOMAIN ledger, ref) /\ DigestOf(ref) \in blobs'
           /\ ~relied' => Holds(ledgerSynced', ref) /\ DigestOf(ref) \in blobsSynced'
  PROVE  KeepInv'
<1>1. InOrder' <=> InOrder
  BY DEF InOrder
<1>2. \A ref : Holds(DOMAIN ledger, ref)' <=> Holds(DOMAIN ledger, ref)
  BY DEF Holds
<1>3. \A ref : Holds(ledgerSynced, ref)' <=> Holds(ledgerSynced', ref)
  BY DEF Holds
<1>4. \A ref : Holds(ledgerSynced, ref) => Holds(ledgerSynced', ref)
  BY DEF Holds
<1>5. AcceptedStay'
  BY <1>1, <1>2, <1>3, <1>4 DEF KeepInv, AcceptedStay
<1>6. OnlyLastUnsynced'
  BY DEF KeepInv, OnlyLastUnsynced
<1>7. ASSUME NEW v \in Writers \ {w}
      PROVE  WriterStays(v)'
  <2>1. WriterStays(v) /\ pc'[v] = pc[v] /\ request'[v] = request[v]
    BY DEF KeepInv
  <2>2. Holds(DOMAIN ledger, request[v].ref)' <=> Holds(DOMAIN ledger, request[v].ref)
    BY <1>2, <2>1 DEF Holds
  <2>3. QED
    BY <1>1, <2>1, <2>2 DEF WriterStays, PastBytes
<1>8. QED
  BY <1>5, <1>6, <1>7 DEF KeepInv

(* A call that returns keeps what was accepted.                             *)
LEMMA ReturnStays ==
  ASSUME IInv, KeepInv, NEW w \in Writers, NEW how, Returns(w, how),
         UNCHANGED <<ledger, deleting, damage>>,
         blobs \subseteq blobs', blobsSynced \subseteq blobsSynced',
         ledgerSynced \subseteq ledgerSynced', relied' \in BOOLEAN, relied => relied',
         how = "accepted" =>
           /\ ~deleting /\ InOrder /\ Holds(DOMAIN ledger, request[w].ref)
           /\ DigestOf(request[w].ref) \in blobs'
           /\ ~relied' => /\ Holds(ledgerSynced', request[w].ref)
                          /\ DigestOf(request[w].ref) \in blobsSynced'
  PROVE  KeepInv'
<1>1. /\ pc'[w] = "idle"
      /\ \A v \in Writers \ {w} : pc'[v] = pc[v] /\ request'[v] = request[v]
  BY Returning DEF IInv
<1>2. accepted' = IF how = "accepted" THEN accepted \cup {request[w].ref} ELSE accepted
  BY DEF Returns
<1>3. WriterStays(w)'
  BY <1>1 DEF WriterStays, PastBytes
<1>4. \A ref \in accepted' \ accepted :
        /\ ~deleting /\ InOrder /\ Holds(DOMAIN ledger, ref) /\ DigestOf(ref) \in blobs'
        /\ ~relied' => Holds(ledgerSynced', ref) /\ DigestOf(ref) \in blobsSynced'
  BY <1>2
<1>5. QED
  BY <1>1, <1>3, <1>4, WriterStaysOn

(* A call that finds its reference admitted keeps what was accepted.        *)
LEMMA AcceptStays ==
  ASSUME IInv, KeepInv, NEW w \in Writers, pc[w] \in {"read", "list"}, NEW S \in Listings(w),
         ~Refused(w, S), Holds(S, request[w].ref), AcceptAdmitted(w),
         UNCHANGED <<directories, deleting, damage>>
  PROVE  KeepInv'
<1>1. InOrder /\ S \subseteq DOMAIN ledger
  BY ListedInOrder DEF Refused
<1>2. ~deleting
  BY DEF IInv, WriterHolds
<1>3. Holds(DOMAIN ledger, request[w].ref)
  BY <1>1 DEF Holds
<1>4. PICK how : how = IF DigestOf(request[w].ref) \in blobs THEN "accepted" ELSE "missing"
  OBVIOUS
<1>5. /\ UNCHANGED <<ledger, deleting, damage>> /\ Returns(w, how)
      /\ blobs' = blobs /\ blobsSynced' = blobsSynced /\ ledgerSynced' = ledgerSynced
      /\ relied' = (relied \/ (DigestOf(request[w].ref) \notin blobsSynced \/ ledgerSynced # DOMAIN ledger))
  BY <1>4 DEF AcceptAdmitted, Relies, directories
<1>6. relied' \in BOOLEAN /\ (relied => relied')
  BY <1>5, Zenon DEF KeepInv
<1>7. how = "accepted" => DigestOf(request[w].ref) \in blobs'
  BY <1>4, <1>5
<1>8. ~relied' => DigestOf(request[w].ref) \in blobsSynced /\ ledgerSynced = DOMAIN ledger
  BY <1>5
<1>9. ~relied' => /\ Holds(ledgerSynced', request[w].ref)
                  /\ DigestOf(request[w].ref) \in blobsSynced'
  BY <1>3, <1>5, <1>8
<1>10. QED
  BY <1>1, <1>2, <1>3, <1>5, <1>6, <1>7, <1>9, ReturnStays

(* A write that finds its bytes named is accepted for an admission that     *)
(* stays.                                                                   *)
LEMMA ReadStays ==
  ASSUME IInv, KeepInv, NEW w \in Writers, Read(w)
  PROVE  KeepInv'
<1>1. /\ pc[w] = "read" /\ UNCHANGED <<directories, deleting, damage>>
  BY DEF Read
<1>2. UNCHANGED <<blobs, blobsSynced, ledger, ledgerSynced>> /\ relied \in BOOLEAN
  BY <1>1 DEF directories, KeepInv
<1>3. ASSUME NEW how, how # "accepted", Returns(w, how), UNCHANGED relied
      PROVE  KeepInv'
  BY <1>1, <1>2, <1>3, ReturnStays
<1>4. ASSUME NEW S \in Listings(w), ~Refused(w, S), Holds(S, request[w].ref), AcceptAdmitted(w)
      PROVE  KeepInv'
  BY <1>1, <1>4, AcceptStays
<1>5. CASE Goes(w, "blob") /\ UNCHANGED relied
  <2>1. /\ pc'[w] = "blob" /\ request' = request /\ accepted' = accepted
        /\ \A v \in Writers \ {w} : pc'[v] = pc[v]
    BY <1>5 DEF Goes, IInv, TypeOK
  <2>2. WriterStays(w)'
    BY <2>1 DEF WriterStays, PastBytes
  <2>3. QED
    BY <1>1, <1>2, <1>5, <2>1, <2>2, WriterStaysOn
<1>6. QED
  BY <1>3, <1>4, <1>5 DEF Read

(* More bytes change nothing of what was accepted.                          *)
LEMMA CommitBlobStays ==
  ASSUME IInv, KeepInv, NEW w \in Writers, CommitBlob(w)
  PROVE  KeepInv'
<1>1. /\ pc[w] = "blob" /\ UNCHANGED <<blobsSynced, ledger, ledgerSynced, deleting, damage>>
      /\ relied \in BOOLEAN
  BY DEF CommitBlob, KeepInv
<1>2. CASE Returns(w, "failed") /\ UNCHANGED <<blobs, relied>>
  BY <1>1, <1>2, ReturnStays
<1>3. ASSUME NEW place \in {"list", "syncBlob"}, Goes(w, place),
             DigestOf(request[w].ref) \in blobs', blobs \subseteq blobs',
             relied' \in BOOLEAN, relied => relied',
             place = "list" => (~relied' => DigestOf(request[w].ref) \in blobsSynced)
      PROVE  KeepInv'
  <2>1. /\ pc'[w] = place /\ request' = request /\ accepted' = accepted
        /\ \A v \in Writers \ {w} : pc'[v] = pc[v]
    BY <1>3 DEF Goes, IInv, TypeOK
  <2>2. WriterStays(w)'
    BY <1>1, <1>3, <2>1 DEF WriterStays, PastBytes
  <2>3. QED
    BY <1>1, <1>3, <2>1, <2>2, WriterStaysOn
<1>4. CASE DigestOf(request[w].ref) \in blobs /\ Lists(w, "list")
           /\ Relies(DigestOf(request[w].ref) \notin blobsSynced) /\ UNCHANGED blobs
  <2>1. relied' = (relied \/ DigestOf(request[w].ref) \notin blobsSynced)
    BY <1>4 DEF Relies
  <2>2. relied' \in BOOLEAN /\ (relied => relied')
    BY <1>1, <2>1, Zenon
  <2>3. QED
    BY <1>3, <1>4, <2>1, <2>2 DEF Lists
<1>5. CASE /\ blobs' = blobs \cup {DigestOf(request[w].ref)} /\ Goes(w, "syncBlob")
           /\ UNCHANGED relied
  BY <1>1, <1>3, <1>5
<1>6. QED
  BY <1>2, <1>4, <1>5 DEF CommitBlob

(* Bytes that are synced change nothing of what was accepted.               *)
LEMMA SyncBlobsStays ==
  ASSUME IInv, KeepInv, NEW w \in Writers, SyncBlobs(w)
  PROVE  KeepInv'
<1>1. /\ pc[w] = "syncBlob" /\ UNCHANGED <<blobs, ledger, ledgerSynced, deleting, relied, damage>>
      /\ relied \in BOOLEAN /\ DigestOf(request[w].ref) \in blobs /\ blobsSynced \subseteq blobs
  BY DEF SyncBlobs, KeepInv, WriterStays, PastBytes, IInv, TypeOK
<1>2. CASE Returns(w, "failed") /\ UNCHANGED blobsSynced
  BY <1>1, <1>2, ReturnStays
<1>3. CASE blobsSynced' = blobs /\ Lists(w, "list")
  <2>1. /\ pc'[w] = "list" /\ request' = request /\ accepted' = accepted
        /\ \A v \in Writers \ {w} : pc'[v] = pc[v]
    BY <1>3 DEF Lists, Goes, IInv, TypeOK
  <2>2. WriterStays(w)'
    BY <1>1, <1>3, <2>1 DEF WriterStays, PastBytes
  <2>3. QED
    BY <1>1, <1>3, <2>1, <2>2, WriterStaysOn
<1>4. QED
  BY <1>2, <1>3 DEF SyncBlobs

(* A list that finds the reference admitted accepts it for an admission     *)
(* that stays.                                                              *)
LEMMA ListStays ==
  ASSUME IInv, KeepInv, NEW w \in Writers, List(w)
  PROVE  KeepInv'
<1>1. /\ pc[w] = "list" /\ UNCHANGED <<directories, deleting, damage>>
      /\ WriterStays(w)
  BY DEF List, KeepInv
<1>2. UNCHANGED <<blobs, blobsSynced, ledger, ledgerSynced>> /\ relied \in BOOLEAN
  BY <1>1 DEF directories, KeepInv
<1>3. ASSUME NEW how, how # "accepted", Returns(w, how), UNCHANGED relied
      PROVE  KeepInv'
  BY <1>1, <1>2, <1>3, ReturnStays
<1>4. ASSUME NEW S \in Listings(w), ~Refused(w, S), Holds(S, request[w].ref), AcceptAdmitted(w)
      PROVE  KeepInv'
  BY <1>1, <1>4, AcceptStays
<1>5. CASE pc' = [pc EXCEPT ![w] = "admit"] /\ UNCHANGED <<request, accepted, relied>>
  <2>1. pc'[w] = "admit" /\ \A v \in Writers \ {w} : pc'[v] = pc[v]
    BY <1>5 DEF IInv, TypeOK
  <2>2. WriterStays(w)'
    BY <1>1, <1>2, <1>5, <2>1 DEF WriterStays, PastBytes
  <2>3. QED
    BY <1>1, <1>2, <1>5, <2>1, <2>2, WriterStaysOn
<1>6. QED
  BY <1>3, <1>4, <1>5 DEF List

(* The link of an admission: when no write relied on what was not synced,   *)
(* all before it are.                                                       *)
LEMMA LinkStays ==
  ASSUME IInv, KeepInv, NEW w \in Writers, pc[w] = "admit", entry[w] \notin DOMAIN ledger, Link(w),
         Relies(ledgerSynced # DOMAIN ledger), Goes(w, "syncAdmission"),
         UNCHANGED <<blobs, blobsSynced, ledgerSynced, deleting, damage>>
  PROVE  KeepInv'
<1>1. /\ \E k \in Nat : DOMAIN ledger = 1..k /\ DOMAIN ledger' = 1..(k + 1)
      /\ DOMAIN ledger \subseteq DOMAIN ledger'
      /\ \A r \in DOMAIN ledger : ledger'[r] = ledger[r]
      /\ DOMAIN ledger' = DOMAIN ledger \cup {entry[w]} /\ ledger'[entry[w]] = request[w]
  BY LinksNext
<1>2. /\ pc'[w] = "syncAdmission" /\ request' = request /\ accepted' = accepted
      /\ \A v \in Writers \ {w} : pc'[v] = pc[v]
      /\ ledgerSynced \subseteq DOMAIN ledger /\ WriterStays(w)
  BY DEF Goes, IInv, TypeOK, KeepInv
<1>3. InOrder /\ InOrder'
  BY <1>1 DEF InOrder
<1>4. relied' = (relied \/ ledgerSynced # DOMAIN ledger)
  BY DEF Relies
<1>5. relied' \in BOOLEAN /\ (relied => relied')
  BY <1>4, Zenon DEF KeepInv
<1>6. /\ \A ref : Holds(DOMAIN ledger, ref) => Holds(DOMAIN ledger, ref)'
      /\ \A ref : Holds(ledgerSynced, ref) => Holds(ledgerSynced, ref)'
  BY <1>1, <1>2 DEF Holds
<1>7. AcceptedStay'
  BY <1>2, <1>3, <1>5, <1>6 DEF KeepInv, AcceptedStay
<1>8. OnlyLastUnsynced'
  <2> SUFFICES ASSUME ~relied', NEW r \in DOMAIN ledger' \ ledgerSynced, NEW q \in DOMAIN ledger'
               PROVE  q <= r
    BY DEF OnlyLastUnsynced
  <2>1. ledgerSynced = DOMAIN ledger
    BY <1>4
  <2>2. PICK k \in Nat : DOMAIN ledger = 1..k /\ DOMAIN ledger' = 1..(k + 1)
    BY <1>1
  <2>3. r = k + 1
    BY <2>1, <2>2
  <2>4. QED
    BY <2>2, <2>3
<1>9. WriterStays(w)'
  <2>1. Holds(DOMAIN ledger, request[w].ref)'
    BY <1>1, <1>2 DEF Holds
  <2>2. QED
    BY <1>2, <1>3, <1>5, <2>1 DEF WriterStays, PastBytes
<1>10. ASSUME NEW v \in Writers \ {w}
       PROVE  WriterStays(v)'
  <2>1. WriterStays(v) /\ pc'[v] = pc[v]
    BY <1>2 DEF KeepInv
  <2>2. Holds(DOMAIN ledger, request[v].ref) => Holds(DOMAIN ledger, request[v].ref)'
    BY <1>1, <1>2 DEF Holds
  <2>3. QED
    BY <1>2, <1>3, <1>5, <2>1, <2>2 DEF WriterStays, PastBytes
<1>11. QED
  BY <1>5, <1>7, <1>8, <1>9, <1>10 DEF KeepInv

(* An admission takes nothing from those before it.                         *)
LEMMA AdmitStays ==
  ASSUME IInv, KeepInv, NEW w \in Writers, Admit(w)
  PROVE  KeepInv'
<1>1. /\ pc[w] = "admit" /\ UNCHANGED <<blobs, blobsSynced, ledgerSynced, deleting, damage>>
      /\ relied \in BOOLEAN /\ WriterStays(w)
  BY DEF Admit, KeepInv
<1>2. CASE /\ entry[w] \notin DOMAIN ledger /\ Link(w)
           /\ Relies(ledgerSynced # DOMAIN ledger) /\ Goes(w, "syncAdmission")
  BY <1>1, <1>2, LinkStays
<1>3. ASSUME NEW how \in {"conflict", "failed"}, Returns(w, how), UNCHANGED <<ledger, relied>>
      PROVE  KeepInv'
  BY <1>1, <1>3, ReturnStays
<1>4. CASE pc' = [pc EXCEPT ![w] = "list"] /\ UNCHANGED <<request, accepted, ledger, relied>>
  <2>1. pc'[w] = "list" /\ \A v \in Writers \ {w} : pc'[v] = pc[v]
    BY <1>4 DEF IInv, TypeOK
  <2>2. WriterStays(w)'
    BY <1>1, <1>4, <2>1 DEF WriterStays, PastBytes
  <2>3. QED
    BY <1>1, <1>4, <2>1, <2>2, WriterStaysOn
<1>5. QED
  BY <1>2, <1>3, <1>4 DEF Admit

(* A synced admission stays without relying on anybody else.                *)
LEMMA SyncAdmissionsStays ==
  ASSUME IInv, KeepInv, NEW w \in Writers, SyncAdmissions(w)
  PROVE  KeepInv'
<1>1. /\ pc[w] = "syncAdmission" /\ UNCHANGED <<blobs, blobsSynced, ledger, deleting, relied, damage>>
      /\ relied \in BOOLEAN /\ WriterStays(w) /\ ledgerSynced \subseteq DOMAIN ledger /\ ~deleting
  BY DEF SyncAdmissions, KeepInv, IInv, TypeOK, WriterHolds
<1>2. CASE Returns(w, "failed") /\ UNCHANGED ledgerSynced
  BY <1>1, <1>2, ReturnStays
<1>3. CASE ledgerSynced' = DOMAIN ledger /\ Returns(w, "accepted")
  <2>1. /\ InOrder /\ Holds(DOMAIN ledger, request[w].ref)
        /\ DigestOf(request[w].ref) \in blobs'
        /\ ~relied' => DigestOf(request[w].ref) \in blobsSynced'
    BY <1>1 DEF WriterStays, PastBytes
  <2>2. Holds(ledgerSynced', request[w].ref)
    BY <1>3, <2>1
  <2>3. QED
    BY <1>1, <1>3, <2>1, <2>2, ReturnStays
<1>4. QED
  BY <1>2, <1>3 DEF SyncAdmissions

(* A writer that dies was not accepted.                                     *)
LEMMA CrashStays ==
  ASSUME IInv, KeepInv, NEW w \in Writers, Crash(w)
  PROVE  KeepInv'
<1>1. relied \in BOOLEAN /\ UNCHANGED <<blobs, blobsSynced, ledger, ledgerSynced, deleting, relied, damage>>
  BY DEF Crash, KeepInv, directories
<1>2. QED
  BY <1>1, ReturnStays DEF Crash

(* A call accepts nothing yet.                                              *)
LEMMA CallStays ==
  ASSUME IInv, KeepInv, NEW w \in Writers, NEW wanted \in Request, Call(w, wanted)
  PROVE  KeepInv'
<1>1. /\ pc'[w] = "read" /\ UNCHANGED <<accepted, relied>> /\ relied \in BOOLEAN
      /\ \A v \in Writers \ {w} : pc'[v] = pc[v] /\ request'[v] = request[v]
      /\ UNCHANGED <<blobs, blobsSynced, ledger, ledgerSynced, deleting, damage>>
  BY DEF IInv, TypeOK, Call, history, directories, KeepInv
<1>2. WriterStays(w)'
  BY <1>1 DEF WriterStays, PastBytes
<1>3. QED
  BY <1>1, <1>2, WriterStaysOn

(* A power loss leaves the admissions in order when only the last may go.   *)
LEMMA PowerLossStays ==
  ASSUME IInv, KeepInv, PowerLoss
  PROVE  KeepInv'
<1>1. PICK S \in SUBSET DOMAIN ledger, B \in SUBSET blobs :
       /\ ledgerSynced \subseteq S /\ blobsSynced \subseteq B
       /\ ledger' = [r \in S |-> ledger[r]] /\ ledgerSynced' = S
       /\ blobs' = B /\ blobsSynced' = B
  BY DEF PowerLoss
<1>2. /\ UNCHANGED <<accepted, relied>> /\ deleting' = FALSE /\ "power" \in damage' /\ damage = {}
      /\ pc' = [w \in Writers |-> "idle"] /\ DOMAIN ledger' = S
  BY <1>1 DEF PowerLoss, Forget
<1>3. OnlyLastUnsynced'
  BY <1>1, <1>2 DEF OnlyLastUnsynced
<1>4. \A w \in Writers : WriterStays(w)'
  BY <1>2 DEF WriterStays, PastBytes
<1>5. ASSUME ~relied
      PROVE  /\ accepted # {} => InOrder'
             /\ \A ref \in accepted : /\ Holds(DOMAIN ledger, ref)' /\ DigestOf(ref) \in blobs'
                                      /\ Holds(ledgerSynced, ref)'
  <2>1. ASSUME accepted # {}
        PROVE  InOrder'
    <3>1. PICK k \in Nat : DOMAIN ledger = 1..k
      BY <1>2, <2>1 DEF KeepInv, AcceptedStay, InOrder
    <3>2. CASE S = DOMAIN ledger
      BY <1>2, <3>1, <3>2 DEF InOrder
    <3>3. ASSUME NEW r \in DOMAIN ledger, r \notin S
          PROVE  InOrder'
      <4>1. \A q \in DOMAIN ledger \ S : \A p \in DOMAIN ledger : p <= q
        BY <1>1, <1>5 DEF KeepInv, OnlyLastUnsynced
      <4>2. \A q \in DOMAIN ledger \ S : q = k
        BY <3>1, <4>1
      <4>3. k \notin S /\ k \in 1..k
        BY <3>1, <3>3, <4>2
      <4>4. k - 1 \in Nat
        BY <4>3
      <4>5. ASSUME NEW q \in 1..(k - 1)
            PROVE  q \in S
        BY <3>1, <4>2, <4>4
      <4>6. ASSUME NEW q \in S
            PROVE  q \in 1..(k - 1)
        <5>1. q \in 1..k /\ q # k
          BY <3>1, <4>3
        <5>2. QED
          BY <5>1
      <4>7. S = 1..(k - 1)
        BY <4>5, <4>6
      <4>8. QED
        BY <1>2, <4>4, <4>7 DEF InOrder
    <3>4. QED
      BY <3>2, <3>3
  <2>2. \A ref \in accepted : Holds(ledgerSynced, ref) /\ DigestOf(ref) \in blobsSynced
    BY <1>5 DEF KeepInv, AcceptedStay
  <2>3. \A r \in ledgerSynced : r \in S /\ ledger'[r] = ledger[r]
    BY <1>1
  <2>4. QED
    BY <1>1, <1>2, <2>1, <2>2, <2>3 DEF Holds
<1>6. AcceptedStay'
  BY <1>1, <1>2, <1>5 DEF AcceptedStay
<1>7. QED
  BY <1>2, <1>3, <1>4, <1>6 DEF KeepInv

(* Once files are taken away nothing more is said of what was accepted.     *)
LEMMA BeginDeleteStays ==
  ASSUME IInv, KeepInv, BeginDelete
  PROVE  KeepInv'
<1>1. /\ accepted' = {} /\ UNCHANGED <<ledger, ledgerSynced, blobs, blobsSynced, relied, pc>>
      /\ \A w \in Writers : pc[w] = "idle"
  BY DEF BeginDelete, directories, calls
<1>2. AcceptedStay'
  BY <1>1 DEF AcceptedStay
<1>3. OnlyLastUnsynced'
  BY <1>1 DEF KeepInv, OnlyLastUnsynced
<1>4. \A w \in Writers : WriterStays(w)'
  BY <1>1 DEF WriterStays, PastBytes
<1>5. QED
  BY <1>1, <1>2, <1>3, <1>4 DEF KeepInv

(* Once files are taken away nothing more is said of what was accepted.     *)
LEMMA DeleteFileStays ==
  ASSUME IInv, KeepInv, DeleteFile
  PROVE  KeepInv'
<1>1. /\ deleting /\ UNCHANGED <<pc, deleting, accepted, relied>> /\ accepted = {}
  BY DEF DeleteFile, calls, history, KeepInv, AcceptedStay
<1>2. \A w \in Writers : pc[w] = "idle"
  BY <1>1 DEF IInv, WriterHolds
<1>3. AcceptedStay'
  BY <1>1 DEF AcceptedStay
<1>4. DOMAIN ledger' \ ledgerSynced' \subseteq DOMAIN ledger \ ledgerSynced
      /\ DOMAIN ledger' \subseteq DOMAIN ledger
  BY DEF DeleteFile
<1>5. OnlyLastUnsynced'
  BY <1>1, <1>4 DEF KeepInv, OnlyLastUnsynced
<1>6. \A w \in Writers : WriterStays(w)'
  BY <1>1, <1>2 DEF WriterStays, PastBytes
<1>7. QED
  BY <1>1, <1>3, <1>5, <1>6 DEF KeepInv

(* Once files are taken away nothing more is said of what was accepted.     *)
LEMMA EndDeleteStays ==
  ASSUME IInv, KeepInv, EndDelete
  PROVE  KeepInv'
<1>1. /\ deleting /\ accepted = {} /\ UNCHANGED <<ledger, ledgerSynced, blobs, blobsSynced>>
      /\ UNCHANGED <<pc, accepted, relied>>
  BY DEF EndDelete, directories, calls, KeepInv, AcceptedStay
<1>2. \A w \in Writers : pc[w] = "idle"
  BY <1>1 DEF IInv, WriterHolds
<1>3. AcceptedStay'
  BY <1>1 DEF AcceptedStay
<1>4. OnlyLastUnsynced'
  BY <1>1 DEF KeepInv, OnlyLastUnsynced
<1>5. \A w \in Writers : WriterStays(w)'
  BY <1>1, <1>2 DEF WriterStays, PastBytes
<1>6. QED
  BY <1>1, <1>3, <1>4, <1>5 DEF KeepInv

(* A store begins with nothing accepted.                                    *)
LEMMA KeepInit == Init => KeepInv
<1> SUFFICES ASSUME Init PROVE KeepInv
  OBVIOUS
<1>1. ledger = Empty /\ DOMAIN Empty = {} /\ accepted = {} /\ pc = [w \in Writers |-> "idle"]
  BY DEF Init, Empty
<1>2. relied \in BOOLEAN
  BY Zenon DEF Init
<1>3. AcceptedStay /\ OnlyLastUnsynced
  BY <1>1 DEF AcceptedStay, OnlyLastUnsynced
<1>4. \A w \in Writers : WriterStays(w)
  BY <1>1 DEF WriterStays, PastBytes
<1>5. QED
  BY <1>2, <1>3, <1>4 DEF KeepInv

(* Every step keeps what was accepted.                                      *)
LEMMA KeepStep ==
  ASSUME IInv, KeepInv, [Next]_vars
  PROVE  KeepInv'
<1>1. CASE UNCHANGED vars
  <2>1. UNCHANGED <<blobs, blobsSynced, ledger, ledgerSynced>> /\ UNCHANGED <<pc, request>>
        /\ UNCHANGED <<deleting, accepted, relied, damage>>
    BY <1>1 DEF vars, directories, calls, history
  <2>2. InOrder' <=> InOrder
    BY <2>1 DEF InOrder
  <2>3. AcceptedStay' /\ OnlyLastUnsynced'
    BY <2>1, <2>2 DEF KeepInv, AcceptedStay, OnlyLastUnsynced, Holds
  <2>4. \A w \in Writers : WriterStays(w)'
    BY <2>1, <2>2 DEF KeepInv, WriterStays, PastBytes, Holds
  <2>5. QED
    BY <2>1, <2>3, <2>4 DEF KeepInv
<1>2. ASSUME NEW w \in Writers, Write(w)
      PROVE  KeepInv'
  BY <1>2, ReadStays, CommitBlobStays, SyncBlobsStays, ListStays, AdmitStays,
     SyncAdmissionsStays, CrashStays, CallStays DEF Write
<1>3. QED
  BY <1>1, <1>2, PowerLossStays, BeginDeleteStays, DeleteFileStays, EndDeleteStays DEF Next

(* What a write returned can be read, also after a power loss, unless some  *)
(* write relied on what was not yet synced.                                 *)
THEOREM AcceptedAlwaysReadable == Spec => []AcceptedIsReadable
<1>1. Init => IInv /\ KeepInv
  BY InitKeeps, KeepInit
<1>2. IInv /\ KeepInv /\ [Next]_vars => (IInv /\ KeepInv)'
  BY StepKeeps, KeepStep
<1>3. IInv /\ KeepInv => AcceptedIsReadable
  <2> SUFFICES ASSUME IInv, KeepInv, "power" \in damage => ~relied, NEW ref \in accepted
               PROVE  Readable(ref)
    BY DEF AcceptedIsReadable
  <2>1. InOrder /\ Holds(DOMAIN ledger, ref) /\ DigestOf(ref) \in blobs
    BY DEF KeepInv, AcceptedStay
  <2>2. PICK k \in Nat : DOMAIN ledger = 1..k
    BY <2>1 DEF InOrder
  <2>3. Cardinality(1..k) = k
    <3>1. k \in Int /\ 1 \in Int
      OBVIOUS
    <3>2. Cardinality(1..k) = IF 1 > k THEN 0 ELSE k - 1 + 1
      BY <3>1, FS_Interval, Zenon
    <3>3. QED
      BY <3>2
  <2>4. Contiguous(DOMAIN ledger)
    BY <2>2, <2>3 DEF Contiguous
  <2>5. QED
    BY <2>1, <2>4 DEF Readable
<1>4. QED
  BY <1>1, <1>2, <1>3, PTL DEF Spec

-----------------------------------------------------------------------------
(* The event store.                                                         *)

-----------------------------------------------------------------------------
(* The invariant.                                                           *)

(* Where an append stands.                                                  *)
Stages == {"idle", "prepare", "link", "sync", "recheck"}

(* The shapes of the variables, as far as the steps below rely on them.     *)
StreamTyped ==
  /\ segments \in [Linked -> Batches] /\ Linked \subseteq Nat \ {0}
  /\ \A s \in Linked : After(s) <= MaxRevision + 1
  /\ synced \subseteq Linked
  /\ stage \in [Appends -> Stages]
  /\ asked = [w \in Appends |-> asked[w]] /\ listed = [w \in Appends |-> listed[w]]
  /\ losses \in Nat

(* No two segments have a revision in common.                               *)
SegmentsApart == \A r, s \in Linked : r < s => After(r) <= s

(* The events of one batch have identities of their own.                    *)
OwnIds(batch) == \A i, j \in 1..Len(batch) : IdOf(batch[i]) = IdOf(batch[j]) => i = j

(* No event identity is on the stream twice.                                *)
IdsOnce ==
  /\ \A s \in Linked : OwnIds(segments[s])
  /\ \A r, s \in Linked : EventIds(r) \cap EventIds(s) # {} => r = s

(* What an append that checked its revision relies on: the stream has no    *)
(* gap, a segment ends where its own begins, and its events are new to all  *)
(* that comes before.                                                       *)
MayLink(w) ==
  /\ ReadableStream(Linked)
  /\ asked[w].expected = 0 \/ \E r \in Linked : After(r) = Start(w)
  /\ \A s \in Linked : s < Start(w) =>
       \A i \in 1..Len(asked[w].batch) : IdOf(asked[w].batch[i]) \notin EventIds(s)
  /\ OwnIds(asked[w].batch)

(* The append's segment is there, in a stream without a gap.                *)
HasLinked(w) ==
  ReadableStream(Linked) /\ Start(w) \in Linked /\ segments[Start(w)] = asked[w].batch

(* What holds of one append.  A stream with a gap gets no more segments, so *)
(* an append that began to read it lists what it is.                        *)
AppendHolds(w) ==
  /\ stage[w] # "idle" =>
       asked[w] \in AppendArgs /\ asked[w].expected + Len(asked[w].batch) <= MaxRevision
  /\ stage[w] = "prepare" => ReadableStream(Linked) \/ listed[w] = Linked
  /\ stage[w] = "link" => MayLink(w)
  /\ stage[w] = "sync" => HasLinked(w)

(* Among the segments is the append's own, and with it all that comes       *)
(* before it.                                                               *)
IsCommit(S, a) ==
  /\ a.expected + 1 \in S /\ segments[a.expected + 1] = a.batch
  /\ \E T \in SUBSET S : ReadableStream(T) /\ a.expected + 1 \in T

(* A committed append is on disk with all that comes before it; one that    *)
(* found its batch there is safe until power fails.                         *)
AckHolds(a) ==
  /\ a.how = "committed" => IsCommit(synced, a)
  /\ losses = 0 => IsCommit(Linked, a)

(* The inductive invariant.                                                 *)
StreamInv ==
  /\ StreamTyped /\ SegmentsApart /\ IdsOnce
  /\ \A w \in Appends : AppendHolds(w)
  /\ \A a \in acks : AckHolds(a)

(* What is known of acknowledged appends is the property.                   *)
LEMMA StreamInvImpliesAcked == StreamInv => AckedIsOneCommit
  BY DEF StreamInv, StreamTyped, AckHolds, IsCommit, AckedIsOneCommit

-----------------------------------------------------------------------------
(* Numbers, batches and what a listing comes to.                            *)

(* A set of numbers has a least one.                                        *)
LEMMA LeastExists ==
  ASSUME NEW T \in SUBSET Nat, T # {}
  PROVE  \E x \in T : \A y \in T : x <= y
<1>1. PICK x \in T : \A y \in T : <<y, x>> \notin OpToRel(<, Nat)
  BY NatLessThanWellFounded, WFMin
<1>2. \A y \in T : ~(y < x)
  BY <1>1 DEF OpToRel
<1>3. QED
  BY <1>2

(* A set of numbers with a bound has a greatest one.                        *)
LEMMA MaxIs ==
  ASSUME NEW S \in SUBSET Nat, S # {}, NEW k \in Nat, \A n \in S : n <= k
  PROVE  Max(S) \in S /\ \A n \in S : n <= Max(S)
<1> DEFINE T == {j \in Nat : k - j \in S}
<1>1. ASSUME NEW n \in S
      PROVE  k - n \in T
  <2>1. n \in Nat /\ n <= k /\ k - (k - n) = n
    OBVIOUS
  <2>2. QED
    BY <2>1
<1>2. PICK x \in T : \A y \in T : x <= y
  BY <1>1, LeastExists
<1>3. k - x \in S /\ x \in Nat
  OBVIOUS
<1>4. ASSUME NEW n \in S
      PROVE  k - x >= n
  <2>1. x <= k - n /\ n \in Nat
    BY <1>1, <1>2
  <2>2. QED
    BY <1>3, <2>1
<1>5. QED
  BY <1>3, <1>4 DEF Max

(* A batch is a sequence of events, and not empty.                          *)
LEMMA BatchIs ==
  ASSUME NEW batch \in Batches
  PROVE  batch \in Seq(Events) /\ Len(batch) \in Nat \ {0} /\ DOMAIN batch = 1..Len(batch)
  BY BatchesAreNotEmpty

(* A segment ends after it begins.                                          *)
LEMMA SegmentIs ==
  ASSUME StreamTyped, NEW s \in Linked
  PROVE  /\ s \in Nat \ {0} /\ segments[s] \in Batches
         /\ After(s) \in Nat /\ After(s) > s
         /\ segments[s] \in Seq(Events) /\ Len(segments[s]) \in Nat \ {0}
<1>1. s \in Nat \ {0} /\ segments[s] \in Batches
  BY DEF StreamTyped
<1>2. segments[s] \in Seq(Events) /\ Len(segments[s]) \in Nat \ {0}
  BY <1>1, BatchIs
<1>3. QED
  BY <1>1, <1>2 DEF After

(* The revision of a listing is where the last of its segments ends.        *)
LEMMA RevisionIs ==
  ASSUME StreamTyped, NEW S \in SUBSET Linked
  PROVE  /\ Revision(S) \in Nat
         /\ \A s \in S : After(s) - 1 <= Revision(S)
         /\ Revision(S) = 0 \/ \E s \in S : After(s) - 1 = Revision(S)
<1> DEFINE N == {0} \cup {After(s) - 1 : s \in S}
<1>1. \A s \in S : After(s) \in Nat \ {0} /\ After(s) - 1 <= MaxRevision
  BY SegmentIs, BoundsAreNumbers DEF StreamTyped
<1>2. N \in SUBSET Nat /\ N # {} /\ \A n \in N : n <= MaxRevision
  BY <1>1, BoundsAreNumbers
<1>3. Max(N) \in N /\ \A n \in N : n <= Max(N)
  <2>1. PICK M : M = N
    OBVIOUS
  <2>2. QED
    BY <1>2, <2>1, MaxIs, BoundsAreNumbers
<1>4. Revision(S) \in N /\ \A n \in N : n <= Revision(S)
  BY <1>3 DEF Revision
<1> HIDE DEF N
<1>5. Revision(S) \in Nat
  BY <1>2, <1>4
<1>6. \A s \in S : After(s) - 1 <= Revision(S)
  BY <1>4 DEF N
<1>7. Revision(S) = 0 \/ \E s \in S : After(s) - 1 = Revision(S)
  BY <1>4 DEF N
<1>8. QED
  BY <1>5, <1>6, <1>7

(* A stream without a gap holds every revision up to its own.               *)
LEMMA ReadableHolds ==
  ASSUME StreamTyped, NEW S \in SUBSET Linked, ReadableStream(S),
         NEW n \in Nat, 0 < n, \E s \in S : n < After(s)
  PROVE  Held(S, n)
<1> DEFINE T == {s \in S : n < After(s)}
<1>1. T \in SUBSET Nat /\ T # {}
  BY SegmentIs
<1>2. PICK s \in T : \A r \in T : s <= r
  <2>1. PICK U : U = T
    OBVIOUS
  <2>2. QED
    BY <1>1, <2>1, LeastExists
<1>3. CASE s = 1
  BY <1>2, <1>3 DEF Held
<1>4. CASE s # 1
  <2>1. PICK r \in S : After(r) = s
    BY <1>2, <1>4 DEF ReadableStream
  <2>2. r < s /\ r \in Nat /\ s \in Nat
    BY <1>2, <2>1, SegmentIs
  <2>3. ~(n < s)
    BY <1>2, <2>1, <2>2
  <2>4. QED
    BY <1>2, <2>2, <2>3 DEF Held
<1>5. QED
  BY <1>3, <1>4

(* A listing without a gap is all there is up to its revision.              *)
LEMMA ListedIsAll ==
  ASSUME StreamTyped, SegmentsApart, NEW S \in SUBSET Linked, ReadableStream(S),
         NEW s \in Linked, s <= Revision(S)
  PROVE  s \in S
<1>1. s \in Nat /\ 0 < s
  BY SegmentIs
<1>2. PICK t \in S : s < After(t)
  BY <1>1, RevisionIs, SegmentIs
<1>3. PICK r \in S : r <= s /\ s < After(r)
  BY <1>1, <1>2, ReadableHolds DEF Held
<1>4. ~(r < s)
  BY <1>1, <1>3, SegmentIs DEF SegmentsApart
<1>5. r \in Nat
  BY <1>3, SegmentIs
<1>6. QED
  BY <1>1, <1>3, <1>4, <1>5

(* What a segment holds does not change under what is linked with it.       *)
LEMMA SameContents ==
  ASSUME NEW S, \A s \in S : segments'[s] = segments[s]
  PROVE  /\ \A s \in S : After(s)' = After(s) /\ EventIds(s)' = EventIds(s)
         /\ ReadableStream(S)' <=> ReadableStream(S)
<1>1. \A s \in S : After(s)' = After(s) /\ EventIds(s)' = EventIds(s)
  BY DEF After, EventIds
<1>2. QED
  BY <1>1 DEF ReadableStream

(* A commit among some segments is one among more.                          *)
LEMMA SameCommit ==
  ASSUME NEW S, NEW T, S \subseteq T, \A s \in S : segments'[s] = segments[s],
         NEW a, IsCommit(S, a)
  PROVE  IsCommit(T, a)'
<1>1. PICK U \in SUBSET S : ReadableStream(U) /\ a.expected + 1 \in U
  BY DEF IsCommit
<1>2. ReadableStream(U)'
  BY <1>1, SameContents
<1>3. QED
  BY <1>1, <1>2 DEF IsCommit

-----------------------------------------------------------------------------
(* Steps of one append that link nothing.                                   *)

(* A step of one append that changes no segment leaves what the others rely *)
(* on.                                                                      *)
LEMMA AppendMoves ==
  ASSUME StreamInv, NEW w \in Appends, UNCHANGED <<segments, losses>>,
         synced \subseteq synced', synced' \subseteq Linked,
         stage' \in [Appends -> Stages],
         asked' = [v \in Appends |-> asked'[v]], listed' = [v \in Appends |-> listed'[v]],
         \A v \in Appends \ {w} :
           stage'[v] = stage[v] /\ asked'[v] = asked[v] /\ listed'[v] = listed[v],
         AppendHolds(w)',
         \A a \in acks' \ acks : AckHolds(a)'
  PROVE  StreamInv'
<1> USE DEF StreamInv
<1>1. Linked' = Linked /\ \A s : After(s)' = After(s) /\ EventIds(s)' = EventIds(s)
  BY DEF Linked, After, EventIds
<1>2. \A S : ReadableStream(S)' <=> ReadableStream(S)
  BY <1>1 DEF ReadableStream
<1>3. StreamTyped' /\ SegmentsApart' /\ IdsOnce'
  BY <1>1 DEF StreamTyped, SegmentsApart, IdsOnce
<1>4. ASSUME NEW v \in Appends \ {w}
      PROVE  AppendHolds(v)'
  <2>1. AppendHolds(v) /\ stage'[v] = stage[v] /\ asked'[v] = asked[v] /\ listed'[v] = listed[v]
    OBVIOUS
  <2>2. ReadableStream(Linked)' <=> ReadableStream(Linked)
    BY <1>1, <1>2
  <2>3. MayLink(v) => MayLink(v)'
    BY <1>1, <2>1, <2>2 DEF MayLink, Start
  <2>4. HasLinked(v) => HasLinked(v)'
    BY <1>1, <2>1, <2>2 DEF HasLinked, Start
  <2>5. QED
    BY <1>1, <2>1, <2>2, <2>3, <2>4 DEF AppendHolds
<1>5. ASSUME NEW a \in acks
      PROVE  AckHolds(a)'
  <2>1. AckHolds(a) /\ losses' = losses
    OBVIOUS
  <2>2. IsCommit(synced, a) => IsCommit(synced, a)'
    BY <1>2 DEF IsCommit
  <2>3. IsCommit(Linked, a) => IsCommit(Linked, a)'
    BY <1>1, <1>2 DEF IsCommit
  <2>4. QED
    BY <2>1, <2>2, <2>3 DEF AckHolds
<1>6. QED
  BY <1>3, <1>4, <1>5

(* An append that returns leaves what the others rely on.                   *)
LEMMA ReturnKeeps ==
  ASSUME StreamInv, NEW w \in Appends, NEW how, AppendReturns(w, how),
         UNCHANGED <<segments, losses>>, synced \subseteq synced', synced' \subseteq Linked,
         NEW k, k = [expected |-> asked[w].expected, batch |-> asked[w].batch, how |-> how],
         how \in {"committed", "already"} => AckHolds(k)'
  PROVE  StreamInv'
<1>1. /\ stage' \in [Appends -> Stages] /\ stage'[w] = "idle"
      /\ asked' = [v \in Appends |-> asked'[v]] /\ listed' = [v \in Appends |-> listed'[v]]
      /\ \A v \in Appends \ {w} :
           stage'[v] = stage[v] /\ asked'[v] = asked[v] /\ listed'[v] = listed[v]
  BY DEF StreamInv, StreamTyped, AppendReturns, Stages
<1>2. AppendHolds(w)'
  BY <1>1 DEF AppendHolds
<1>3. acks' \ acks \subseteq IF how \in {"committed", "already"} THEN {k} ELSE {}
  BY DEF AppendReturns
<1>4. \A a \in acks' \ acks : AckHolds(a)'
  BY <1>3
<1>5. QED
  BY <1>1, <1>2, <1>4, AppendMoves

(* An append that goes on leaves what the others rely on.                   *)
LEMMA GoesKeeps ==
  ASSUME StreamInv, NEW w \in Appends, NEW place \in {"link", "recheck"}, NEW listing,
         AppendGoes(w, place, listing), stage[w] # "idle",
         UNCHANGED <<segments, synced, losses>>, place = "link" => MayLink(w)
  PROVE  StreamInv'
<1>1. /\ stage' \in [Appends -> Stages] /\ stage'[w] = place
      /\ asked' = asked /\ listed' = [v \in Appends |-> listed'[v]]
      /\ \A v \in Appends \ {w} : stage'[v] = stage[v] /\ listed'[v] = listed[v]
      /\ acks' = acks
  BY DEF StreamInv, StreamTyped, AppendGoes, Stages
<1>2. MayLink(w) => MayLink(w)'
  BY <1>1 DEF MayLink, Linked, Start, After, EventIds, ReadableStream
<1>3. AppendHolds(w)'
  BY <1>1, <1>2 DEF AppendHolds, StreamInv
<1>4. synced' \subseteq Linked /\ asked' = [v \in Appends |-> asked'[v]]
  BY <1>1 DEF StreamInv, StreamTyped
<1>5. QED
  BY <1>1, <1>3, <1>4, AppendMoves

-----------------------------------------------------------------------------
(* The steps.                                                               *)

(* An empty stream has the invariant.                                       *)
LEMMA StreamBegins == StreamInit => StreamInv
<1> SUFFICES ASSUME StreamInit PROVE StreamInv
  OBVIOUS
<1>1. Linked = {} /\ synced = {} /\ acks = {}
  BY DEF StreamInit, Linked
<1>2. StreamTyped
  BY <1>1 DEF StreamInit, StreamTyped, Stages
<1>3. \A w \in Appends : AppendHolds(w)
  BY DEF StreamInit, AppendHolds
<1>4. QED
  BY <1>1, <1>2, <1>3 DEF StreamInv, SegmentsApart, IdsOnce

(* A call begins with nothing read.                                         *)
LEMMA CallKeepsStream ==
  ASSUME StreamInv, NEW w \in Appends, NEW r \in AppendArgs, CallAppend(w, r)
  PROVE  StreamInv'
<1>1. /\ stage' \in [Appends -> Stages] /\ stage'[w] = "prepare"
      /\ asked' = [v \in Appends |-> asked'[v]] /\ listed' = [v \in Appends |-> listed'[v]]
      /\ asked'[w] = r /\ listed'[w] = Linked /\ r.expected + Len(r.batch) <= MaxRevision
      /\ \A v \in Appends \ {w} :
           stage'[v] = stage[v] /\ asked'[v] = asked[v] /\ listed'[v] = listed[v]
      /\ UNCHANGED <<segments, synced, acks, losses>>
  BY DEF StreamInv, StreamTyped, CallAppend, Stages
<1>2. AppendHolds(w)'
  BY <1>1 DEF AppendHolds, Linked, AppendArgs
<1>3. synced' \subseteq Linked
  BY <1>1 DEF StreamInv, StreamTyped
<1>4. QED
  BY <1>1, <1>2, <1>3, AppendMoves

(* An append that finds its batch at its revision is that commit.           *)
LEMMA AlreadyKeeps ==
  ASSUME StreamInv, NEW w \in Appends, NEW S \in SUBSET Linked, ReadableStream(S),
         HasExactCommittedAppend(w, S), UNCHANGED <<segments, synced, losses>>,
         AppendReturns(w, "already")
  PROVE  StreamInv'
<1>1. PICK a : a = [expected |-> asked[w].expected, batch |-> asked[w].batch, how |-> "already"]
  OBVIOUS
<1>2. a.expected + 1 = Start(w) /\ a.batch = asked[w].batch /\ a.how = "already"
  BY <1>1 DEF Start
<1>3. IsCommit(Linked, a)
  BY <1>2 DEF HasExactCommittedAppend, IsCommit
<1>4. PICK L : L = Linked
  OBVIOUS
<1>5. IsCommit(L, a)'
  BY <1>3, <1>4, SameCommit
<1>6. AckHolds(a)'
  BY <1>2, <1>4, <1>5 DEF AckHolds, Linked
<1>7. synced' \subseteq Linked /\ synced \subseteq synced'
  BY DEF StreamInv, StreamTyped
<1>8. QED
  BY <1>1, <1>6, <1>7, ReturnKeeps

(* What an append checks before it links is what it relies on.              *)
LEMMA PrepareKeeps ==
  ASSUME StreamInv, NEW w \in Appends, PrepareAppend(w)
  PROVE  StreamInv'
<1>1. PICK S \in SegmentListings(w) :
       \/ ~ReadableStream(S) /\ AppendReturns(w, "corrupt")
       \/ /\ ReadableStream(S) /\ Revision(S) # asked[w].expected
          /\ AppendReturns(w, IF HasExactCommittedAppend(w, S) THEN "already" ELSE "conflict")
       \/ /\ ReadableStream(S) /\ Revision(S) = asked[w].expected
          /\ IF IdsAreNew(w, S) THEN AppendGoes(w, "link", {}) ELSE AppendReturns(w, "duplicate")
  BY DEF PrepareAppend
<1>2. /\ stage[w] = "prepare" /\ UNCHANGED <<segments, synced, losses>>
      /\ S \in SUBSET Linked /\ listed[w] \subseteq S
  BY <1>1 DEF PrepareAppend, SegmentListings
<1>3. synced' \subseteq Linked /\ synced \subseteq synced'
  BY <1>2 DEF StreamInv, StreamTyped
<1>4. CASE \E how \in {"corrupt", "conflict", "duplicate"} : AppendReturns(w, how)
  <2>1. PICK how \in {"corrupt", "conflict", "duplicate"} : AppendReturns(w, how)
    BY <1>4
  <2>2. PICK k : k = [expected |-> asked[w].expected, batch |-> asked[w].batch, how |-> how]
    OBVIOUS
  <2>3. QED
    BY <1>2, <1>3, <2>1, <2>2, ReturnKeeps
<1>5. CASE ReadableStream(S) /\ HasExactCommittedAppend(w, S) /\ AppendReturns(w, "already")
  BY <1>2, <1>5, AlreadyKeeps
<1>6. CASE /\ ReadableStream(S) /\ Revision(S) = asked[w].expected
           /\ IdsAreNew(w, S) /\ AppendGoes(w, "link", {})
  <2>1. ReadableStream(Linked)
    <3>1. ReadableStream(Linked) \/ listed[w] = Linked
      BY <1>2 DEF StreamInv, AppendHolds
    <3>2. listed[w] = Linked => S = Linked
      BY <1>2
    <3>3. QED
      BY <1>6, <3>1, <3>2
  <2>2. asked[w] \in AppendArgs
    BY <1>2 DEF StreamInv, AppendHolds
  <2>3. asked[w].expected = 0 \/ \E r \in Linked : After(r) = Start(w)
    <3>1. CASE asked[w].expected # 0
      <4>1. PICK r \in S : After(r) - 1 = asked[w].expected
        BY <1>2, <1>6, <3>1, RevisionIs DEF StreamInv
      <4>2. r \in Linked /\ After(r) \in Nat
        BY <1>2, <4>1, SegmentIs DEF StreamInv
      <4>3. QED
        BY <4>1, <4>2 DEF Start
    <3>2. QED
      BY <3>1
  <2>4. ASSUME NEW s \in Linked, s < Start(w)
        PROVE  \A i \in 1..Len(asked[w].batch) : IdOf(asked[w].batch[i]) \notin EventIds(s)
    <3>1. s <= Revision(S)
      BY <1>6, <2>2, <2>4, SegmentIs, BoundsAreNumbers DEF Start, AppendArgs, StreamInv
    <3>2. s \in S
      BY <1>2, <1>6, <3>1, ListedIsAll DEF StreamInv
    <3>3. QED
      BY <1>6, <3>2 DEF IdsAreNew
  <2>5. OwnIds(asked[w].batch)
    BY <1>6 DEF IdsAreNew, OwnIds
  <2>6. MayLink(w)
    BY <2>1, <2>3, <2>4, <2>5 DEF MayLink
  <2>7. QED
    BY <1>2, <1>6, <2>6, GoesKeeps
<1>7. QED
  BY <1>1, <1>4, <1>5, <1>6

(* Where an append links, nothing is beyond.                                *)
LEMMA LinksAtEnd ==
  ASSUME StreamTyped, SegmentsApart, NEW w \in Appends, asked[w] \in AppendArgs,
         MayLink(w), Start(w) \notin Linked
  PROVE  \A s \in Linked : After(s) <= Start(w)
<1>1. Start(w) \in Nat \ {0} /\ asked[w].expected \in Nat
  BY BoundsAreNumbers DEF Start, AppendArgs
<1>2. \A s \in Linked : s \in Nat \ {0} /\ After(s) \in Nat /\ s < After(s)
  BY SegmentIs
<1>3. asked[w].expected = 0 \/ \E q \in Linked : After(q) = Start(w)
  BY DEF MayLink
<1>4. ASSUME NEW s \in Linked, s < Start(w)
      PROVE  After(s) <= Start(w)
  <2>1. asked[w].expected # 0
    BY <1>1, <1>2, <1>4 DEF Start
  <2>2. PICK q \in Linked : After(q) = Start(w)
    BY <1>3, <2>1
  <2>3. CASE s < q
    BY <1>1, <1>2, <2>2, <2>3 DEF SegmentsApart
  <2>4. CASE q < s
    BY <1>1, <1>2, <1>4, <2>2, <2>4 DEF SegmentsApart
  <2>5. CASE s = q
    BY <1>1, <2>2, <2>5
  <2>6. QED
    BY <1>2, <2>3, <2>4, <2>5
<1>5. ASSUME NEW u \in Linked, u > Start(w)
      PROVE  FALSE
  <2> DEFINE T == {s \in Linked : s > Start(w)}
  <2>1. T \in SUBSET Nat /\ u \in T
    BY <1>2, <1>5
  <2>2. PICK s \in T : \A r \in T : s <= r
    <3>1. PICK U : U = T
      OBVIOUS
    <3>2. QED
      BY <2>1, <3>1, LeastExists
  <2>3. PICK r \in Linked : After(r) = s
    BY <1>1, <1>2, <2>2 DEF MayLink, ReadableStream
  <2>4. r < s /\ r \notin T
    BY <1>2, <2>2, <2>3
  <2>5. r < Start(w)
    BY <1>1, <1>2, <2>4
  <2>6. QED
    BY <1>1, <1>2, <1>4, <2>2, <2>3, <2>5
<1>6. QED
  BY <1>1, <1>2, <1>4, <1>5

(* The link of a new segment, and what it leaves as it was.                 *)
NewSegment(w) ==
  /\ stage[w] = "link" /\ Start(w) \notin Linked
  /\ segments' = [s \in Linked \cup {Start(w)} |->
                    IF s = Start(w) THEN asked[w].batch ELSE segments[s]]
  /\ AppendGoes(w, "sync", {})
  /\ UNCHANGED <<synced, losses>>

(* What a linked segment changes.                                           *)
LEMMA SegmentLinked ==
  ASSUME StreamInv, NEW w \in Appends, NewSegment(w)
  PROVE  /\ asked[w] \in AppendArgs /\ Start(w) \in Nat \ {0}
         /\ MayLink(w) /\ \A s \in Linked : After(s) <= Start(w)
         /\ Linked' = Linked \cup {Start(w)}
         /\ \A s \in Linked : /\ segments'[s] = segments[s] /\ s < Start(w)
                              /\ After(s)' = After(s) /\ EventIds(s)' = EventIds(s)
         /\ segments'[Start(w)] = asked[w].batch
         /\ After(Start(w))' = Start(w) + Len(asked[w].batch)
         /\ EventIds(Start(w))' =
              {IdOf(asked[w].batch[i]) : i \in 1..Len(asked[w].batch)}
<1> USE DEF StreamInv
<1>1. asked[w] \in AppendArgs /\ MayLink(w)
  BY DEF AppendHolds, NewSegment
<1>2. Start(w) \in Nat \ {0}
  BY <1>1, BoundsAreNumbers DEF Start, AppendArgs
<1>3. \A s \in Linked : After(s) <= Start(w)
  BY <1>1, LinksAtEnd DEF NewSegment
<1>4. /\ Linked' = Linked \cup {Start(w)} /\ segments'[Start(w)] = asked[w].batch
      /\ \A s \in Linked : segments'[s] = segments[s]
  BY DEF NewSegment, Linked
<1>5. \A s \in Linked : After(s)' = After(s) /\ EventIds(s)' = EventIds(s)
  BY <1>4 DEF After, EventIds
<1>6. \A s \in Linked : s < Start(w)
  BY <1>2, <1>3, SegmentIs
<1>7. PICK n : n = Start(w)
  OBVIOUS
<1>8. segments'[n] = asked[w].batch
  BY <1>4, <1>7
<1>9. After(n)' = n + Len(asked[w].batch)
  BY <1>8 DEF After
<1>10. EventIds(n)' = {IdOf(asked[w].batch[i]) : i \in 1..Len(asked[w].batch)}
  BY <1>8 DEF EventIds
<1>11. asked' = asked
  BY DEF NewSegment, AppendGoes
<1>12. /\ After(Start(w))' = Start(w) + Len(asked[w].batch)
       /\ EventIds(Start(w))' = {IdOf(asked[w].batch[i]) : i \in 1..Len(asked[w].batch)}
  <2>1. Start(w)' = n
    BY <1>7, <1>11 DEF Start
  <2>2. After(Start(w))' = n + Len(asked[w].batch)
    BY <1>8, <2>1 DEF After
  <2>3. EventIds(Start(w))' = {IdOf(asked[w].batch[i]) : i \in 1..Len(asked[w].batch)}
    BY <1>8, <2>1 DEF EventIds
  <2>4. QED
    BY <1>7, <2>2, <2>3
<1>13. QED
  BY <1>1, <1>2, <1>3, <1>4, <1>5, <1>6, <1>12

(* A segment goes to the end of the stream, with identities that were not   *)
(* there.                                                                   *)
LEMMA NewSegmentKeeps ==
  ASSUME StreamInv, NEW w \in Appends, NewSegment(w)
  PROVE  StreamInv'
<1> USE DEF StreamInv
<1>1. PICK n : n = Start(w)
  OBVIOUS
<1>2. PICK batch : batch = asked[w].batch
  OBVIOUS
<1>3. /\ n \in Nat \ {0} /\ batch \in Batches /\ n = asked[w].expected + 1
      /\ asked[w].expected \in Nat
      /\ MayLink(w) /\ \A s \in Linked : After(s) <= n
      /\ Linked' = Linked \cup {n}
      /\ \A s \in Linked : /\ segments'[s] = segments[s] /\ s < n
                           /\ After(s)' = After(s) /\ EventIds(s)' = EventIds(s)
      /\ segments'[n] = batch
  BY <1>1, <1>2, SegmentLinked DEF AppendArgs, Start
<1>4. /\ After(n)' = n + Len(batch)
      /\ EventIds(n)' = {IdOf(batch[i]) : i \in 1..Len(batch)}
  BY <1>3 DEF After, EventIds
<1>5. Len(batch) \in Nat \ {0}
  BY <1>3, BatchIs
<1>6. /\ stage' \in [Appends -> Stages] /\ stage'[w] = "sync"
      /\ asked' = asked /\ listed' = [v \in Appends |-> listed'[v]]
      /\ \A v \in Appends \ {w} : stage'[v] = stage[v] /\ listed'[v] = listed[v]
      /\ acks' = acks /\ UNCHANGED <<synced, losses>>
  BY DEF StreamTyped, AppendGoes, Stages, NewSegment
<1>7. StreamTyped'
  <2>1. segments' \in [Linked' -> Batches]
    BY <1>1, <1>2, <1>3 DEF NewSegment, StreamTyped
  <2>2. After(n)' <= MaxRevision + 1
    <3>1. asked[w].expected + Len(batch) <= MaxRevision
      BY <1>2 DEF AppendHolds, NewSegment
    <3>2. QED
      BY <1>3, <1>4, <1>5, <3>1, BoundsAreNumbers
  <2>3. \A s \in Linked' : After(s)' <= MaxRevision + 1
    BY <1>3, <2>2 DEF StreamTyped
  <2>4. Linked' \subseteq Nat \ {0} /\ synced' \subseteq Linked'
    BY <1>3, <1>6 DEF StreamTyped
  <2>5. QED
    BY <1>6, <2>1, <2>3, <2>4 DEF StreamTyped
<1>8. SegmentsApart'
  <2> SUFFICES ASSUME NEW r \in Linked', NEW s \in Linked', r < s
               PROVE  After(r)' <= s
    BY DEF SegmentsApart
  <2>1. r \in Nat /\ s \in Nat /\ (r \in Linked \/ r = n) /\ (s \in Linked \/ s = n)
    BY <1>3 DEF StreamTyped
  <2>2. r \in Linked
    BY <1>3, <2>1
  <2>3. QED
    BY <1>3, <2>1, <2>2 DEF SegmentsApart
<1>9. \A s \in Linked : EventIds(s)' \cap EventIds(n)' = {}
  BY <1>1, <1>2, <1>3, <1>4 DEF MayLink
<1>10. IdsOnce'
  <2>1. OwnIds(batch)
    BY <1>2, <1>3 DEF MayLink
  <2>2. \A s \in Linked' : OwnIds(segments'[s])
    BY <1>3, <2>1 DEF IdsOnce
  <2>3. \A r, s \in Linked' : EventIds(r)' \cap EventIds(s)' # {} => r = s
    BY <1>3, <1>9 DEF IdsOnce
  <2>4. QED
    BY <2>2, <2>3 DEF IdsOnce, OwnIds
<1>11. ReadableStream(Linked)'
  <2>1. \A s \in Linked' : s = 1 \/ \E r \in Linked' : After(r)' = s
    <3>1. n = 1 \/ \E r \in Linked : After(r) = n
      BY <1>1, <1>3 DEF MayLink
    <3>2. \A s \in Linked : s = 1 \/ \E r \in Linked : After(r) = s
      BY <1>3 DEF MayLink, ReadableStream
    <3>3. QED
      BY <1>3, <3>1, <3>2
  <2>2. QED
    BY <1>10, <2>1 DEF IdsOnce, ReadableStream
<1>12. ASSUME NEW v \in Appends \ {w}
       PROVE  AppendHolds(v)'
  <2>1. AppendHolds(v) /\ stage'[v] = stage[v] /\ asked'[v] = asked[v]
    BY <1>6
  <2>2. PICK m : m = Start(v)
    OBVIOUS
  <2>3. Start(v)' = m
    BY <2>1, <2>2 DEF Start
  <2>4. ASSUME stage[v] = "link"
        PROVE  MayLink(v)'
    <3>1. MayLink(v) /\ asked[v] \in AppendArgs
      BY <2>1, <2>4 DEF AppendHolds
    <3>2. m <= n /\ m \in Nat
      <4>1. m = asked[v].expected + 1 /\ asked[v].expected \in Nat
        BY <2>2, <3>1, BoundsAreNumbers DEF Start, AppendArgs
      <4>2. asked[v].expected = 0 \/ \E r \in Linked : After(r) = m
        BY <2>2, <3>1 DEF MayLink
      <4>3. QED
        BY <1>3, <4>1, <4>2
    <3>3. asked'[v].expected = 0 \/ \E r \in Linked' : After(r)' = m
      BY <1>3, <2>1, <2>2, <3>1 DEF MayLink
    <3>4. \A s \in Linked' : s < m =>
            \A i \in 1..Len(asked'[v].batch) : IdOf(asked'[v].batch[i]) \notin EventIds(s)'
      <4>1. \A s \in Linked : s < m =>
              \A i \in 1..Len(asked[v].batch) : IdOf(asked[v].batch[i]) \notin EventIds(s)
        BY <2>2, <3>1 DEF MayLink
      <4>2. ~(n < m)
        BY <1>3, <3>2
      <4>3. QED
        BY <1>3, <2>1, <4>1, <4>2
    <3>5. OwnIds(asked'[v].batch)
      BY <2>1, <3>1 DEF MayLink
    <3>6. QED
      BY <1>11, <2>3, <3>3, <3>4, <3>5 DEF MayLink, OwnIds
  <2>5. HasLinked(v) => HasLinked(v)'
    BY <1>3, <1>11, <2>1, <2>2, <2>3 DEF HasLinked
  <2>6. QED
    BY <1>11, <2>1, <2>4, <2>5 DEF AppendHolds
<1>13. AppendHolds(w)'
  <2>1. Start(w)' = n
    BY <1>1, <1>6 DEF Start
  <2>2. HasLinked(w)'
    BY <1>2, <1>3, <1>6, <1>11, <2>1 DEF HasLinked
  <2>3. QED
    BY <1>6, <2>2 DEF AppendHolds, NewSegment
<1>14. ASSUME NEW a \in acks'
       PROVE  AckHolds(a)'
  <2>1. AckHolds(a)
    BY <1>6
  <2>2. PICK L, M, K : L = Linked /\ M = Linked' /\ K = synced
    OBVIOUS
  <2>3. L \subseteq M /\ K \subseteq L /\ \A s \in L : segments'[s] = segments[s]
    BY <1>3, <2>2 DEF StreamTyped
  <2>4. IsCommit(L, a) => IsCommit(M, a)'
    BY <2>3, SameCommit
  <2>5. IsCommit(K, a) => IsCommit(K, a)'
    BY <2>3, SameCommit
  <2>6. QED
    BY <1>6, <2>1, <2>2, <2>4, <2>5 DEF AckHolds
<1>15. QED
  BY <1>7, <1>8, <1>10, <1>12, <1>13, <1>14

(* A link keeps the invariant, and so does one that fails.                  *)
LEMMA LinkKeepsStream ==
  ASSUME StreamInv, NEW w \in Appends, LinkSegment(w)
  PROVE  StreamInv'
<1>1. CASE NewSegment(w)
  BY <1>1, NewSegmentKeeps
<1>2. CASE AppendGoes(w, "recheck", Linked) /\ UNCHANGED segments
  <2>1. PICK L : L = Linked
    OBVIOUS
  <2>2. QED
    BY <1>2, <2>1, GoesKeeps DEF LinkSegment
<1>3. CASE AppendReturns(w, "failed") /\ UNCHANGED segments
  <2>1. PICK k : k = [expected |-> asked[w].expected, batch |-> asked[w].batch, how |-> "failed"]
    OBVIOUS
  <2>2. synced' \subseteq Linked /\ synced \subseteq synced'
    BY DEF LinkSegment, StreamInv, StreamTyped
  <2>3. QED
    BY <1>3, <2>1, <2>2, ReturnKeeps DEF LinkSegment
<1>4. QED
  BY <1>1, <1>2, <1>3 DEF LinkSegment, NewSegment

(* Once the directory is synced the append is on disk with all that comes   *)
(* before it.                                                               *)
LEMMA SyncKeeps ==
  ASSUME StreamInv, NEW w \in Appends, SyncDirectory(w)
  PROVE  StreamInv'
<1> USE DEF StreamInv
<1>1. UNCHANGED <<segments, losses>> /\ HasLinked(w)
  BY DEF SyncDirectory, AppendHolds
<1>2. CASE synced' = Linked /\ AppendReturns(w, "committed")
  <2>1. PICK a : a = [expected |-> asked[w].expected, batch |-> asked[w].batch, how |-> "committed"]
    OBVIOUS
  <2>2. PICK L : L = Linked
    OBVIOUS
  <2>3. a.expected + 1 = Start(w) /\ a.batch = asked[w].batch
    BY <2>1 DEF Start
  <2>4. IsCommit(L, a)
    BY <1>1, <2>2, <2>3 DEF HasLinked, IsCommit
  <2>5. IsCommit(L, a)'
    BY <1>1, <2>4, SameCommit
  <2>6. AckHolds(a)'
    BY <1>1, <1>2, <2>2, <2>5 DEF AckHolds, Linked
  <2>7. synced' \subseteq Linked /\ synced \subseteq synced'
    BY <1>2 DEF StreamTyped
  <2>8. QED
    BY <1>1, <1>2, <2>1, <2>6, <2>7, ReturnKeeps
<1>3. CASE AppendReturns(w, "failed") /\ UNCHANGED synced
  <2>1. PICK k : k = [expected |-> asked[w].expected, batch |-> asked[w].batch, how |-> "failed"]
    OBVIOUS
  <2>2. synced' \subseteq Linked /\ synced \subseteq synced'
    BY <1>3 DEF StreamTyped
  <2>3. QED
    BY <1>1, <1>3, <2>1, <2>2, ReturnKeeps
<1>4. QED
  BY <1>2, <1>3 DEF SyncDirectory

(* An append that lost its place returns what it finds there.               *)
LEMMA RecheckKeeps ==
  ASSUME StreamInv, NEW w \in Appends, Recheck(w)
  PROVE  StreamInv'
<1>1. PICK S \in SegmentListings(w) :
       AppendReturns(w, CASE ~ReadableStream(S) -> "corrupt"
                          [] ReadableStream(S) /\ HasExactCommittedAppend(w, S) -> "already"
                          [] ReadableStream(S) /\ ~HasExactCommittedAppend(w, S) -> "conflict")
  BY DEF Recheck
<1>2. UNCHANGED <<segments, synced, losses>> /\ S \in SUBSET Linked
  BY DEF Recheck, SegmentListings
<1>3. CASE ReadableStream(S) /\ HasExactCommittedAppend(w, S)
  BY <1>1, <1>2, <1>3, AlreadyKeeps
<1>4. CASE ~(ReadableStream(S) /\ HasExactCommittedAppend(w, S))
  <2>1. PICK how \in {"corrupt", "conflict"} : AppendReturns(w, how)
    BY <1>1, <1>4
  <2>2. PICK k : k = [expected |-> asked[w].expected, batch |-> asked[w].batch, how |-> how]
    OBVIOUS
  <2>3. synced' \subseteq Linked /\ synced \subseteq synced'
    BY <1>2 DEF StreamInv, StreamTyped
  <2>4. QED
    BY <1>2, <2>1, <2>2, <2>3, ReturnKeeps
<1>5. QED
  BY <1>3, <1>4

(* An append that dies was told nothing.                                    *)
LEMMA DiesKeeps ==
  ASSUME StreamInv, NEW w \in Appends, AppendDies(w)
  PROVE  StreamInv'
<1>1. PICK k : k = [expected |-> asked[w].expected, batch |-> asked[w].batch, how |-> "never"]
  OBVIOUS
<1>2. synced' \subseteq Linked /\ synced \subseteq synced'
  BY DEF AppendDies, StreamInv, StreamTyped
<1>3. QED
  BY <1>1, <1>2, ReturnKeeps DEF AppendDies

(* What is left after a power loss.                                         *)
LEMMA PowerKeeps ==
  ASSUME StreamInv, PowerFails
  PROVE  StreamInv'
<1> USE DEF StreamInv
<1>1. PICK S \in SUBSET Linked :
       /\ synced \subseteq S
       /\ segments' = [s \in S |-> segments[s]]
       /\ synced' = S
       /\ stage' = [w \in Appends |-> "idle"]
       /\ asked' = [w \in Appends |-> NoArgs]
       /\ listed' = [w \in Appends |-> {}]
       /\ losses' = losses + 1
       /\ UNCHANGED acks
  BY DEF PowerFails
<1>2. Linked' = S /\ \A s \in S : segments'[s] = segments[s]
  BY <1>1 DEF Linked
<1>3. \A s \in S : After(s)' = After(s) /\ EventIds(s)' = EventIds(s)
  BY <1>2 DEF After, EventIds
<1>4. StreamTyped'
  <2>1. segments' \in [Linked' -> Batches]
    BY <1>1, <1>2 DEF StreamTyped
  <2>2. QED
    BY <1>1, <1>2, <1>3, <2>1 DEF StreamTyped, Stages
<1>5. SegmentsApart' /\ IdsOnce'
  BY <1>1, <1>2, <1>3 DEF SegmentsApart, IdsOnce
<1>6. \A w \in Appends : AppendHolds(w)'
  BY <1>1 DEF AppendHolds
<1>7. ASSUME NEW a \in acks'
      PROVE  AckHolds(a)'
  <2>1. AckHolds(a) /\ losses' # 0
    BY <1>1 DEF StreamTyped
  <2>2. PICK K : K = synced
    OBVIOUS
  <2>3. K \subseteq S /\ \A s \in K : segments'[s] = segments[s]
    BY <1>1, <1>2, <2>2
  <2>4. IsCommit(K, a) => IsCommit(S, a)'
    BY <2>3, SameCommit
  <2>5. QED
    BY <1>1, <2>1, <2>2, <2>4 DEF AckHolds
<1>8. QED
  BY <1>4, <1>5, <1>6, <1>7

(* Every step keeps the invariant.                                          *)
LEMMA StreamKept == StreamInv /\ [StreamNext]_streamVars => StreamInv'
<1> SUFFICES ASSUME StreamInv, [StreamNext]_streamVars PROVE StreamInv'
  OBVIOUS
<1>1. CASE PowerFails
  BY <1>1, PowerKeeps
<1>2. ASSUME NEW w \in Appends, AppendStep(w)
      PROVE  StreamInv'
  BY <1>2, PrepareKeeps, LinkKeepsStream, SyncKeeps, RecheckKeeps, DiesKeeps, CallKeepsStream
     DEF AppendStep
<1>3. CASE UNCHANGED streamVars
  <2> USE <1>3 DEF streamVars
  <2>1. Linked' = Linked /\ \A s : After(s)' = After(s) /\ EventIds(s)' = EventIds(s)
    BY DEF Linked, After, EventIds
  <2>2. \A S : ReadableStream(S)' <=> ReadableStream(S)
    BY <2>1 DEF ReadableStream
  <2>3. StreamTyped' /\ SegmentsApart' /\ IdsOnce'
    BY <2>1 DEF StreamInv, StreamTyped, SegmentsApart, IdsOnce
  <2>4. ReadableStream(Linked)' <=> ReadableStream(Linked)
    BY <2>1, <2>2
  <2>5. \A w \in Appends : AppendHolds(w)'
    BY <2>1, <2>4 DEF StreamInv, AppendHolds, MayLink, HasLinked, Start
  <2>6. \A a \in acks' : AckHolds(a)'
    BY <2>1, <2>2 DEF StreamInv, AckHolds, IsCommit
  <2>7. QED
    BY <2>3, <2>5, <2>6 DEF StreamInv
<1>4. QED
  BY <1>1, <1>2, <1>3 DEF StreamNext

(* The invariant holds in every state of a stream.                          *)
THEOREM StreamInvariant == StreamSpec => []StreamInv
  BY StreamBegins, StreamKept, PTL DEF StreamSpec

(* An append that returned is in the stream as one commit of its own.       *)
THEOREM AckedIsAlwaysOneCommit == StreamSpec => []AckedIsOneCommit
  BY StreamInvariant, StreamInvImpliesAcked, PTL

-----------------------------------------------------------------------------
(* The stream a directory amounts to, with the segments as an argument, so  *)
(* that the same facts serve for a state and for the next one.              *)

(* The end of a segment; whether the segments of S hold a revision; the    *)
(* last revision before the first gap; an event; and the events up to there. *)
AfterIn(f, s)   == s + Len(f[s])
HeldIn(f, S, n) == \E s \in S : s <= n /\ n < AfterIn(f, s)
WholeIn(f, S)   == Max({n \in 0..MaxRevision : \A m \in 1..n : HeldIn(f, S, m)})
EventIn(f, n)   == LET s == CHOOSE s \in DOMAIN f : s <= n /\ n < AfterIn(f, s) IN f[s][n - s + 1]
EventsIn(f)     == [n \in 1..WholeIn(f, DOMAIN f) |-> EventIn(f, n)]

(* A directory of segments as the invariant has it: none overlaps another,  *)
(* and no identity is there twice.                                          *)
IsDirectory(f) ==
  /\ f \in [DOMAIN f -> Batches] /\ DOMAIN f \subseteq Nat \ {0}
  /\ \A s \in DOMAIN f : AfterIn(f, s) <= MaxRevision + 1
  /\ \A r, s \in DOMAIN f : r < s => AfterIn(f, r) <= s
  /\ \A s \in DOMAIN f : OwnIds(f[s])
  /\ \A r, s \in DOMAIN f : \A i \in 1..Len(f[r]), j \in 1..Len(f[s]) :
       IdOf(f[r][i]) = IdOf(f[s][j]) => r = s

(* The segments are such a directory.                                       *)
LEMMA SegmentsAreDirectory == StreamInv => IsDirectory(segments)
<1> SUFFICES ASSUME StreamInv PROVE IsDirectory(segments)
  OBVIOUS
<1> USE DEF StreamInv
<1>1. segments \in [DOMAIN segments -> Batches] /\ DOMAIN segments \subseteq Nat \ {0}
  BY DEF StreamTyped, Linked
<1>2. \A s \in DOMAIN segments : AfterIn(segments, s) <= MaxRevision + 1
  BY DEF StreamTyped, Linked, After, AfterIn
<1>3. \A r, s \in DOMAIN segments : r < s => AfterIn(segments, r) <= s
  BY DEF SegmentsApart, Linked, After, AfterIn
<1>4. \A s \in DOMAIN segments : OwnIds(segments[s])
  BY DEF IdsOnce, Linked
<1>5. ASSUME NEW r \in DOMAIN segments, NEW s \in DOMAIN segments,
             NEW i \in 1..Len(segments[r]), NEW j \in 1..Len(segments[s]),
             IdOf(segments[r][i]) = IdOf(segments[s][j])
      PROVE  r = s
  <2>1. IdOf(segments[r][i]) \in EventIds(r) \cap EventIds(s)
    BY <1>5 DEF EventIds
  <2>2. QED
    BY <2>1 DEF IdsOnce, Linked
<1>6. QED
  BY <1>1, <1>2, <1>3, <1>4, <1>5 DEF IsDirectory

(* The same of the next state.                                              *)
LEMMA NextIsDirectory == StreamInv' => IsDirectory(segments')
<1> SUFFICES ASSUME StreamInv' PROVE IsDirectory(segments')
  OBVIOUS
<1> USE DEF StreamInv
<1>1. segments' \in [DOMAIN segments' -> Batches] /\ DOMAIN segments' \subseteq Nat \ {0}
  BY DEF StreamTyped, Linked
<1>2. \A s \in DOMAIN segments' : AfterIn(segments', s) <= MaxRevision + 1
  BY DEF StreamTyped, Linked, After, AfterIn
<1>3. \A r, s \in DOMAIN segments' : r < s => AfterIn(segments', r) <= s
  BY DEF SegmentsApart, Linked, After, AfterIn
<1>4. \A s \in DOMAIN segments' : OwnIds(segments'[s])
  BY DEF IdsOnce, Linked
<1>5. ASSUME NEW r \in DOMAIN segments', NEW s \in DOMAIN segments',
             NEW i \in 1..Len(segments'[r]), NEW j \in 1..Len(segments'[s]),
             IdOf(segments'[r][i]) = IdOf(segments'[s][j])
      PROVE  r = s
  <2>1. IdOf(segments'[r][i]) \in EventIds(r)' \cap EventIds(s)'
    BY <1>5 DEF EventIds
  <2>2. QED
    BY <2>1 DEF IdsOnce, Linked
<1>6. QED
  BY <1>1, <1>2, <1>3, <1>4, <1>5 DEF IsDirectory

(* What a segment of a directory is.                                        *)
LEMMA EntryIs ==
  ASSUME NEW f, IsDirectory(f), NEW s \in DOMAIN f
  PROVE  /\ s \in Nat \ {0} /\ f[s] \in Seq(Events) /\ Len(f[s]) \in Nat \ {0}
         /\ AfterIn(f, s) \in Nat /\ s < AfterIn(f, s)
<1>1. s \in Nat \ {0} /\ f[s] \in Batches
  BY DEF IsDirectory
<1>2. f[s] \in Seq(Events) /\ Len(f[s]) \in Nat \ {0}
  BY <1>1, BatchIs
<1>3. QED
  BY <1>1, <1>2 DEF AfterIn

(* One segment holds a revision.                                            *)
LEMMA EventInIs ==
  ASSUME NEW f, IsDirectory(f), NEW s \in DOMAIN f, NEW n \in Nat, s <= n, n < AfterIn(f, s)
  PROVE  EventIn(f, n) = f[s][n - s + 1] /\ EventIn(f, n) \in Events /\ n - s + 1 \in 1..Len(f[s])
<1>1. \A r \in DOMAIN f : r <= n /\ n < AfterIn(f, r) => r = s
  <2> SUFFICES ASSUME NEW r \in DOMAIN f, r <= n, n < AfterIn(f, r), r # s
               PROVE  FALSE
    OBVIOUS
  <2>1. r \in Nat /\ s \in Nat /\ AfterIn(f, r) \in Nat /\ AfterIn(f, s) \in Nat
    BY EntryIs
  <2>2. r < s \/ s < r
    BY <2>1
  <2>3. QED
    BY <2>1, <2>2 DEF IsDirectory
<1>2. (CHOOSE r \in DOMAIN f : r <= n /\ n < AfterIn(f, r)) = s
  BY <1>1
<1>3. EventIn(f, n) = f[s][n - s + 1]
  BY <1>2 DEF EventIn
<1>4. s \in Nat \ {0} /\ f[s] \in Seq(Events) /\ Len(f[s]) \in Nat
  BY EntryIs
<1>5. n - s + 1 \in 1..Len(f[s])
  BY <1>4 DEF AfterIn
<1>6. QED
  BY <1>3, <1>4, <1>5, ElementOfSeq

(* How far a listing goes without a gap.                                    *)
LEMMA WholeIs ==
  ASSUME NEW f, NEW S
  PROVE  /\ WholeIn(f, S) \in 0..MaxRevision
         /\ \A m \in 1..WholeIn(f, S) : HeldIn(f, S, m)
         /\ \A k \in 0..MaxRevision : (\A m \in 1..k : HeldIn(f, S, m)) => k <= WholeIn(f, S)
<1>1. PICK N : N = {n \in 0..MaxRevision : \A m \in 1..n : HeldIn(f, S, m)}
  OBVIOUS
<1>2. N \in SUBSET Nat /\ \A n \in N : n <= MaxRevision
  BY <1>1, BoundsAreNumbers
<1>3. 0 \in N
  BY <1>1, BoundsAreNumbers
<1>4. Max(N) \in N /\ \A n \in N : n <= Max(N)
  BY <1>2, <1>3, MaxIs, BoundsAreNumbers
<1>5. Max(N) = WholeIn(f, S)
  BY <1>1 DEF WholeIn
<1>6. QED
  BY <1>1, <1>4, <1>5

(* It goes up to k when all up to k is held and the next is not.            *)
LEMMA WholeAt ==
  ASSUME NEW f, NEW S, NEW k \in 0..MaxRevision,
         \A m \in 1..k : HeldIn(f, S, m), ~HeldIn(f, S, k + 1)
  PROVE  WholeIn(f, S) = k
<1>1. k <= WholeIn(f, S) /\ WholeIn(f, S) \in Nat /\ k \in Nat
  BY WholeIs, BoundsAreNumbers
<1>2. ~(k + 1 \in 1..WholeIn(f, S))
  BY WholeIs
<1>3. QED
  BY <1>1, <1>2

(* More segments hold no less.                                              *)
LEMMA WholeGrows ==
  ASSUME NEW f, NEW S, NEW T, S \subseteq T
  PROVE  WholeIn(f, S) <= WholeIn(f, T)
<1>1. \A m : HeldIn(f, S, m) => HeldIn(f, T, m)
  BY DEF HeldIn
<1>2. QED
  BY <1>1, WholeIs

(* Segments with the same contents go as far.                               *)
LEMMA WholeSame ==
  ASSUME NEW f, NEW g, NEW S, \A s \in S : g[s] = f[s]
  PROVE  WholeIn(g, S) = WholeIn(f, S)
<1>1. \A m : HeldIn(g, S, m) <=> HeldIn(f, S, m)
  BY DEF HeldIn, AfterIn
<1>2. QED
  BY <1>1 DEF WholeIn

(* The events of a directory are a sequence.                                *)
LEMMA EventsAreSequence ==
  ASSUME NEW f, IsDirectory(f)
  PROVE  /\ EventsIn(f) \in Seq(Events) /\ Len(EventsIn(f)) = WholeIn(f, DOMAIN f)
         /\ \A n \in 1..WholeIn(f, DOMAIN f) : EventsIn(f)[n] = EventIn(f, n)
<1>1. PICK k : k = WholeIn(f, DOMAIN f)
  OBVIOUS
<1>2. k \in Nat
  BY <1>1, WholeIs, BoundsAreNumbers
<1>3. ASSUME NEW n \in 1..k
      PROVE  EventIn(f, n) \in Events
  <2>1. n \in Nat /\ HeldIn(f, DOMAIN f, n)
    BY <1>1, <1>2, WholeIs
  <2>2. QED
    BY <2>1, EventInIs DEF HeldIn
<1>4. EventsIn(f) = [n \in 1..k |-> EventIn(f, n)]
  BY <1>1 DEF EventsIn
<1>5. EventsIn(f) \in [1..k -> Events]
  BY <1>3, <1>4
<1>6. EventsIn(f) \in Seq(Events) /\ Len(EventsIn(f)) = k
  BY <1>2, <1>5
<1>7. QED
  BY <1>1, <1>4, <1>6

(* No event identity is in the stream twice.                                *)
LEMMA EventsAreDistinct ==
  ASSUME NEW f, IsDirectory(f), NEW i \in 1..WholeIn(f, DOMAIN f), NEW j \in 1..WholeIn(f, DOMAIN f),
         IdOf(EventIn(f, i)) = IdOf(EventIn(f, j))
  PROVE  i = j
<1>1. i \in Nat /\ j \in Nat
  BY WholeIs, BoundsAreNumbers
<1>2. PICK r \in DOMAIN f : r <= i /\ i < AfterIn(f, r)
  BY WholeIs DEF HeldIn
<1>3. PICK s \in DOMAIN f : s <= j /\ j < AfterIn(f, s)
  BY WholeIs DEF HeldIn
<1>4. EventIn(f, i) = f[r][i - r + 1] /\ i - r + 1 \in 1..Len(f[r])
  BY <1>1, <1>2, EventInIs
<1>5. EventIn(f, j) = f[s][j - s + 1] /\ j - s + 1 \in 1..Len(f[s])
  BY <1>1, <1>3, EventInIs
<1>6. r = s
  BY <1>4, <1>5 DEF IsDirectory
<1>7. i - r + 1 = j - r + 1
  BY <1>4, <1>5, <1>6 DEF IsDirectory, OwnIds
<1>8. r \in Nat
  BY EntryIs
<1>9. QED
  BY <1>1, <1>7, <1>8

-----------------------------------------------------------------------------
(* The steps of the store, as steps of the log.                             *)

(* What the mapped variables are, before a step and after it.               *)
LEMMA MappedEvents ==
  /\ [n \in 1..WholeUpTo(Linked) |-> EventAt(n)] = EventsIn(segments)
  /\ [n \in 1..WholeUpTo(Linked) |-> EventAt(n)]' = EventsIn(segments')
<1>1. [n \in 1..WholeUpTo(Linked) |-> EventAt(n)] = EventsIn(segments)
  BY DEF WholeUpTo, Linked, EventAt, Held, After, EventsIn, EventIn, WholeIn, HeldIn, AfterIn
<1>2. [n \in 1..WholeUpTo(Linked) |-> EventAt(n)]' = EventsIn(segments')
  BY DEF WholeUpTo, Linked, EventAt, Held, After, EventsIn, EventIn, WholeIn, HeldIn, AfterIn
<1>3. QED
  BY <1>1, <1>2

(* What the abstract log is promised is what the synced segments hold from  *)
(* the first revision on.                                                   *)
LEMMA MappedPromise ==
  /\ WholeUpTo(synced) = WholeIn(segments, synced)
  /\ WholeUpTo(synced)' = WholeIn(segments', synced')
<1>1. WholeUpTo(synced) = WholeIn(segments, synced)
  BY DEF WholeUpTo, Held, After, WholeIn, HeldIn, AfterIn
<1>2. WholeUpTo(synced)' = WholeIn(segments', synced')
  BY DEF WholeUpTo, Held, After, WholeIn, HeldIn, AfterIn
<1>3. QED
  BY <1>1, <1>2

(* The link of a segment makes the stream longer by its batch.              *)
LEMMA LinkedBatchIsNext ==
  ASSUME StreamInv, StreamInv', NEW w \in Appends, NewSegment(w)
  PROVE  /\ asked[w].batch \in Batches
         /\ EventsIn(segments') = EventsIn(segments) \o asked[w].batch
         /\ WholeIn(segments', synced) = WholeIn(segments, synced)
<1>1. PICK f, g : f = segments /\ g = segments'
  OBVIOUS
<1>2. PICK batch : batch = asked[w].batch
  OBVIOUS
<1>3. PICK n : n = Start(w)
  OBVIOUS
<1>4. PICK k : k = asked[w].expected
  OBVIOUS
<1>5. IsDirectory(f) /\ IsDirectory(g)
  BY <1>1, SegmentsAreDirectory, NextIsDirectory
<1>6. /\ k \in Nat /\ n = k + 1 /\ batch \in Batches
      /\ DOMAIN g = DOMAIN f \cup {n} /\ g[n] = batch
      /\ \A s \in DOMAIN f : g[s] = f[s] /\ AfterIn(f, s) <= n /\ s < n
  <2>1. asked[w] \in AppendArgs
    BY SegmentLinked
  <2>2. k \in Nat /\ n = k + 1 /\ batch \in Batches
    BY <1>2, <1>3, <1>4, <2>1, BoundsAreNumbers DEF AppendArgs, Start
  <2>3. Linked' = Linked \cup {n} /\ segments'[n] = batch
    BY <1>2, <1>3, SegmentLinked
  <2>4. \A s \in Linked : segments'[s] = segments[s] /\ After(s) <= n /\ s < n
    BY <1>3, SegmentLinked
  <2>5. QED
    BY <1>1, <2>2, <2>3, <2>4 DEF Linked, After, AfterIn
<1>7. batch \in Seq(Events) /\ Len(batch) \in Nat \ {0} /\ k + Len(batch) <= MaxRevision
  <2>1. asked[w].expected + Len(asked[w].batch) <= MaxRevision
    BY DEF StreamInv, AppendHolds, NewSegment
  <2>2. QED
    BY <1>2, <1>4, <1>6, <2>1, BatchIs
<1>8. \A m \in 1..k : HeldIn(f, DOMAIN f, m)
  <2> SUFFICES ASSUME NEW m \in 1..k PROVE HeldIn(f, DOMAIN f, m)
    OBVIOUS
  <2>1. MayLink(w)
    BY SegmentLinked
  <2>2. PICK r \in Linked : After(r) = n
    BY <1>3, <1>4, <1>6, <2>1 DEF MayLink
  <2>3. m \in Nat /\ 0 < m /\ m < After(r)
    BY <1>6, <2>2
  <2>4. ReadableStream(Linked) /\ StreamTyped
    BY <2>1 DEF MayLink, StreamInv
  <2>5. Held(Linked, m)
    BY <2>2, <2>3, <2>4, ReadableHolds
  <2>6. QED
    BY <1>1, <2>5 DEF Held, HeldIn, After, AfterIn, Linked
<1>9. WholeIn(f, DOMAIN f) = k
  <2>1. ~HeldIn(f, DOMAIN f, k + 1)
    <3> SUFFICES ASSUME NEW s \in DOMAIN f, k + 1 < AfterIn(f, s) PROVE FALSE
      BY DEF HeldIn
    <3>1. AfterIn(f, s) \in Nat
      BY <1>5, EntryIs
    <3>2. QED
      BY <1>6, <3>1
  <2>2. k \in 0..MaxRevision
    BY <1>6, <1>7, BoundsAreNumbers
  <2>3. QED
    BY <1>8, <2>1, <2>2, WholeAt
<1>10. n \in DOMAIN g /\ AfterIn(g, n) = n + Len(batch)
  BY <1>6 DEF AfterIn
<1>11. \A s \in DOMAIN f : AfterIn(g, s) = AfterIn(f, s) /\ s \in DOMAIN g
  BY <1>6 DEF AfterIn
<1>12. WholeIn(g, DOMAIN g) = k + Len(batch)
  <2>1. ASSUME NEW m \in 1..(k + Len(batch))
        PROVE  HeldIn(g, DOMAIN g, m)
    <3>1. CASE m \in 1..k
      BY <1>8, <1>11, <3>1 DEF HeldIn
    <3>2. CASE n <= m
      <4>1. m < n + Len(batch)
        BY <1>6, <1>7
      <4>2. QED
        BY <1>10, <3>2, <4>1 DEF HeldIn
    <3>3. QED
      BY <1>6, <1>7, <3>1, <3>2
  <2>2. ~HeldIn(g, DOMAIN g, k + Len(batch) + 1)
    <3> SUFFICES ASSUME NEW s \in DOMAIN g, k + Len(batch) + 1 < AfterIn(g, s) PROVE FALSE
      BY DEF HeldIn
    <3>1. CASE s = n
      BY <1>6, <1>7, <1>10, <3>1
    <3>2. CASE s \in DOMAIN f
      <4>1. AfterIn(f, s) \in Nat /\ AfterIn(f, s) <= k + 1
        BY <1>5, <1>6, <3>2, EntryIs
      <4>2. QED
        BY <1>6, <1>7, <1>11, <3>2, <4>1
    <3>3. QED
      BY <1>6, <3>1, <3>2
  <2>3. k + Len(batch) \in 0..MaxRevision
    BY <1>6, <1>7, BoundsAreNumbers
  <2>4. QED
    BY <2>1, <2>2, <2>3, WholeAt
<1>13. \A m \in 1..k : EventIn(g, m) = EventIn(f, m)
  <2> SUFFICES ASSUME NEW m \in 1..k PROVE EventIn(g, m) = EventIn(f, m)
    OBVIOUS
  <2>1. PICK s \in DOMAIN f : s <= m /\ m < AfterIn(f, s)
    BY <1>8 DEF HeldIn
  <2>2. m \in Nat /\ s \in DOMAIN g /\ m < AfterIn(g, s) /\ g[s] = f[s]
    BY <1>6, <1>11, <2>1
  <2>3. EventIn(f, m) = f[s][m - s + 1]
    BY <1>5, <2>1, <2>2, EventInIs
  <2>4. EventIn(g, m) = g[s][m - s + 1]
    BY <1>5, <2>1, <2>2, EventInIs
  <2>5. QED
    BY <2>2, <2>3, <2>4
<1>14. ASSUME NEW m \in n..(k + Len(batch))
       PROVE  EventIn(g, m) = batch[m - k]
  <2>1. m \in Nat /\ n <= m /\ m < AfterIn(g, n)
    BY <1>6, <1>7, <1>10
  <2>2. EventIn(g, m) = g[n][m - n + 1]
    BY <1>5, <1>10, <2>1, EventInIs
  <2>3. m - n + 1 = m - k
    BY <1>6, <2>1
  <2>4. QED
    BY <1>6, <2>2, <2>3
<1>15. EventsIn(g) = EventsIn(f) \o batch
  <2>1. PICK e, d : e = EventsIn(f) /\ d = EventsIn(g)
    OBVIOUS
  <2>2. /\ e \in Seq(Events) /\ Len(e) = k /\ \A m \in 1..k : e[m] = EventIn(f, m)
        /\ d \in Seq(Events) /\ Len(d) = k + Len(batch)
        /\ \A m \in 1..(k + Len(batch)) : d[m] = EventIn(g, m)
    BY <1>5, <1>9, <1>12, <2>1, EventsAreSequence
  <2>3. /\ e \o batch \in Seq(Events) /\ Len(e \o batch) = k + Len(batch)
        /\ \A m \in 1..(k + Len(batch)) :
             (e \o batch)[m] = IF m <= k THEN e[m] ELSE batch[m - k]
    BY <1>7, <2>2, ConcatProperties
  <2>4. ASSUME NEW m \in 1..(k + Len(batch))
        PROVE  d[m] = (e \o batch)[m]
    <3>1. CASE m <= k
      <4>1. m \in 1..k
        BY <1>6, <3>1
      <4>2. QED
        BY <1>13, <2>2, <2>3, <3>1, <4>1
    <3>2. CASE ~(m <= k)
      <4>1. m \in n..(k + Len(batch))
        BY <1>6, <1>7, <3>2
      <4>2. QED
        BY <1>14, <2>2, <2>3, <3>2, <4>1
    <3>3. QED
      BY <3>1, <3>2
  <2>5. d = e \o batch
    BY <2>2, <2>3, <2>4, SeqEqual
  <2>6. QED
    BY <2>1, <2>5
<1>16. WholeIn(g, synced) = WholeIn(f, synced)
  <2>1. \A s \in synced : g[s] = f[s]
    BY <1>1, <1>6 DEF StreamInv, StreamTyped, Linked
  <2>2. QED
    BY <2>1, WholeSame
<1>17. QED
  BY <1>1, <1>2, <1>6, <1>15, <1>16

(* A segment that is linked commits its batch to the abstract log.          *)
LEMMA LinkIsCommit ==
  ASSUME StreamInv, StreamInv', NEW w \in Appends, NewSegment(w)
  PROVE  \E batch \in Batches : Log!Commit(batch)
<1>1. PICK batch : batch = asked[w].batch
  OBVIOUS
<1>2. /\ batch \in Batches /\ EventsIn(segments') = EventsIn(segments) \o batch
      /\ WholeIn(segments', synced) = WholeIn(segments, synced)
  BY <1>1, LinkedBatchIsNext
<1>3. PICK g : g = segments'
  OBVIOUS
<1>4. IsDirectory(g)
  BY <1>3, NextIsDirectory
<1>5. PICK d : d = EventsIn(g)
  OBVIOUS
<1>6. /\ d \in Seq(Events) /\ DOMAIN d = 1..WholeIn(g, DOMAIN g)
      /\ \A n \in 1..WholeIn(g, DOMAIN g) : d[n] = EventIn(g, n)
  BY <1>4, <1>5, EventsAreSequence, LenProperties
<1>7. \A i, j \in DOMAIN d : IdOf(d[i]) = IdOf(d[j]) => i = j
  BY <1>4, <1>6, EventsAreDistinct
<1>8. Log!Distinct(d)
  BY <1>7 DEF Log!Distinct
<1>9. d = EventsIn(segments) \o batch
  BY <1>2, <1>3, <1>5
<1>10. Log!Distinct([n \in 1..WholeUpTo(Linked) |-> EventAt(n)] \o batch)
  BY <1>8, <1>9, MappedEvents
<1>11. [n \in 1..WholeUpTo(Linked) |-> EventAt(n)]'
         = [n \in 1..WholeUpTo(Linked) |-> EventAt(n)] \o batch
  BY <1>3, <1>5, <1>9, MappedEvents
<1>12. WholeUpTo(synced)' = WholeUpTo(synced)
  BY <1>2, MappedPromise DEF NewSegment
<1>13. Log!Commit(batch)
  BY <1>10, <1>11, <1>12 DEF Log!Commit
<1>14. QED
  BY <1>2, <1>13

(* The stream, and how much of it is promised.                              *)
LogMapped == <<[n \in 1..WholeUpTo(Linked) |-> EventAt(n)], WholeUpTo(synced)>>

(* How much of the stream a set of its segments holds.                      *)
LEMMA PromisedIsPart ==
  ASSUME StreamInv, NEW S \in SUBSET Linked, synced \subseteq S
  PROVE  WholeIn(segments, S) \in WholeUpTo(synced)..Len([n \in 1..WholeUpTo(Linked) |-> EventAt(n)])
<1>1. PICK f : f = segments
  OBVIOUS
<1>2. IsDirectory(f) /\ S \subseteq DOMAIN f
  BY <1>1, SegmentsAreDirectory DEF Linked
<1>3. Len(EventsIn(f)) = WholeIn(f, DOMAIN f)
  BY <1>2, EventsAreSequence
<1>4. WholeIn(f, synced) <= WholeIn(f, S) /\ WholeIn(f, S) <= WholeIn(f, DOMAIN f)
  BY <1>2, WholeGrows
<1>5. WholeIn(f, synced) \in Nat /\ WholeIn(f, S) \in Nat /\ WholeIn(f, DOMAIN f) \in Nat
  BY WholeIs, BoundsAreNumbers
<1>6. WholeIn(f, S) \in WholeIn(f, synced)..Len(EventsIn(f))
  BY <1>3, <1>4, <1>5
<1>7. QED
  BY <1>1, <1>6, MappedEvents, MappedPromise

(* A sync of the directory promises what is in it.                          *)
LEMMA SyncIsPromise ==
  ASSUME StreamInv, UNCHANGED segments, synced' = Linked
  PROVE  Log!Promise
<1>1. WholeUpTo(synced)' = WholeIn(segments, Linked)
  BY MappedPromise
<1>2. PICK L : L = Linked
  OBVIOUS
<1>3. synced \subseteq L /\ L \in SUBSET Linked
  BY <1>2 DEF StreamInv, StreamTyped
<1>4. WholeIn(segments, L) \in WholeUpTo(synced)..Len([n \in 1..WholeUpTo(Linked) |-> EventAt(n)])
  BY <1>2, <1>3, PromisedIsPart
<1>5. UNCHANGED [n \in 1..WholeUpTo(Linked) |-> EventAt(n)]
  BY MappedEvents
<1>6. QED
  BY <1>1, <1>2, <1>4, <1>5 DEF Log!Promise

(* What a power loss leaves is the stream up to its first gap.              *)
LEMMA LeftIsPrefix ==
  ASSUME NEW f, NEW g, IsDirectory(f), IsDirectory(g), DOMAIN g \subseteq DOMAIN f,
         \A s \in DOMAIN g : g[s] = f[s]
  PROVE  EventsIn(g) = SubSeq(EventsIn(f), 1, WholeIn(g, DOMAIN g))
<1>1. PICK n : n = WholeIn(g, DOMAIN g)
  OBVIOUS
<1>2. PICK k : k = WholeIn(f, DOMAIN f)
  OBVIOUS
<1>3. n \in Nat /\ k \in Nat /\ n <= k
  <2>1. WholeIn(g, DOMAIN g) = WholeIn(f, DOMAIN g)
    BY WholeSame
  <2>2. WholeIn(f, DOMAIN g) <= WholeIn(f, DOMAIN f)
    BY WholeGrows
  <2>3. QED
    BY <1>1, <1>2, <2>1, <2>2, WholeIs, BoundsAreNumbers
<1>4. ASSUME NEW m \in 1..n
      PROVE  EventIn(g, m) = EventIn(f, m)
  <2>1. PICK s \in DOMAIN g : s <= m /\ m < AfterIn(g, s)
    BY <1>1, WholeIs DEF HeldIn
  <2>2. m \in Nat /\ s \in DOMAIN f /\ g[s] = f[s]
    BY <1>3, <2>1
  <2>3. m < AfterIn(f, s)
    BY <2>1, <2>2 DEF AfterIn
  <2>4. EventIn(g, m) = g[s][m - s + 1]
    BY <2>1, <2>2, EventInIs
  <2>5. EventIn(f, m) = f[s][m - s + 1]
    BY <2>1, <2>2, <2>3, EventInIs
  <2>6. QED
    BY <2>2, <2>4, <2>5
<1>5. PICK e, d : e = EventsIn(f) /\ d = EventsIn(g)
  OBVIOUS
<1>6. /\ e \in Seq(Events) /\ Len(e) = k /\ \A m \in 1..k : e[m] = EventIn(f, m)
      /\ d \in Seq(Events) /\ Len(d) = n /\ \A m \in 1..n : d[m] = EventIn(g, m)
  BY <1>1, <1>2, <1>5, EventsAreSequence
<1>7. \A m \in 1..n : e[m] \in Events /\ e[m] = EventIn(f, m)
  BY <1>3, <1>6, ElementOfSeq
<1>8. /\ SubSeq(e, 1, n) \in Seq(Events)
      /\ Len(SubSeq(e, 1, n)) = IF 1 <= n THEN n - 1 + 1 ELSE 0
      /\ \A m \in 1..(n - 1 + 1) : SubSeq(e, 1, n)[m] = e[1 + m - 1]
  BY <1>3, <1>7, SubSeqProperties
<1>9. Len(SubSeq(e, 1, n)) = n
  BY <1>3, <1>8
<1>10. ASSUME NEW m \in 1..n
       PROVE  SubSeq(e, 1, n)[m] = e[m]
  <2>1. m \in 1..(n - 1 + 1) /\ 1 + m - 1 = m
    BY <1>3
  <2>2. QED
    BY <1>8, <2>1
<1>11. d = SubSeq(e, 1, n)
  BY <1>4, <1>6, <1>7, <1>8, <1>9, <1>10, SeqEqual
<1>12. QED
  BY <1>1, <1>5, <1>11

(* A power failure leaves the abstract log a beginning that has all it was  *)
(* promised.                                                                *)
LEMMA LossIsLogLoss ==
  ASSUME StreamInv, StreamInv', PowerFails
  PROVE  Log!PowerLoss
<1>1. PICK S \in SUBSET Linked :
        synced \subseteq S /\ segments' = [s \in S |-> segments[s]] /\ synced' = S
  BY DEF PowerFails
<1>2. PICK f, g : f = segments /\ g = segments'
  OBVIOUS
<1>3. IsDirectory(f) /\ IsDirectory(g)
  BY <1>2, SegmentsAreDirectory, NextIsDirectory
<1>4. DOMAIN g = S /\ DOMAIN g \subseteq DOMAIN f /\ \A s \in DOMAIN g : g[s] = f[s]
  BY <1>1, <1>2 DEF Linked
<1>5. PICK n : n = WholeIn(g, S)
  OBVIOUS
<1>6. WholeIn(g, S) = WholeIn(f, S)
  BY <1>4, WholeSame
<1>7. n \in WholeUpTo(synced)..Len([m \in 1..WholeUpTo(Linked) |-> EventAt(m)])
  BY <1>1, <1>2, <1>5, <1>6, PromisedIsPart
<1>8. EventsIn(g) = SubSeq(EventsIn(f), 1, n)
  BY <1>3, <1>4, <1>5, LeftIsPrefix
<1>9. [m \in 1..WholeUpTo(Linked) |-> EventAt(m)]'
        = SubSeq([m \in 1..WholeUpTo(Linked) |-> EventAt(m)], 1, n)
  BY <1>2, <1>8, MappedEvents
<1>10. WholeUpTo(synced)' = n
  BY <1>1, <1>2, <1>5, MappedPromise
<1>11. QED
  BY <1>7, <1>9, <1>10 DEF Log!PowerLoss

(* A step that changes no segment is a stutter of the abstract log.         *)
LEMMA LogStays ==
  ASSUME UNCHANGED <<segments, synced>>
  PROVE  UNCHANGED LogMapped
<1>1. UNCHANGED [n \in 1..WholeUpTo(Linked) |-> EventAt(n)]
  BY MappedEvents
<1>2. UNCHANGED WholeUpTo(synced)
  BY MappedPromise
<1>3. QED
  BY <1>1, <1>2 DEF LogMapped

(* An empty directory is an empty log.                                      *)
LEMMA StreamInitIsLog == StreamInit => Log!Init
<1> SUFFICES ASSUME StreamInit PROVE Log!Init
  OBVIOUS
<1>1. Linked = {} /\ synced = {}
  BY DEF StreamInit, Linked
<1>2. WholeIn(segments, {}) = 0
  <2>1. ~HeldIn(segments, {}, 0 + 1)
    BY DEF HeldIn
  <2>2. 0 \in 0..MaxRevision /\ \A m \in 1..0 : HeldIn(segments, {}, m)
    BY BoundsAreNumbers
  <2>3. QED
    BY <2>1, <2>2, WholeAt
<1>3. EventsIn(segments) = <<>>
  <2>1. StreamInv
    BY StreamBegins
  <2>2. IsDirectory(segments)
    BY <2>1, SegmentsAreDirectory
  <2>3. EventsIn(segments) \in Seq(Events) /\ Len(EventsIn(segments)) = 0
    BY <1>1, <1>2, <2>2, EventsAreSequence DEF Linked
  <2>4. QED
    BY <2>3, EmptySeq
<1>4. QED
  BY <1>1, <1>2, <1>3, MappedEvents, MappedPromise DEF Log!Init

(* Every step of a stream is one of the abstract log, or a stutter.         *)
LEMMA StreamStepIsLog ==
  ASSUME StreamInv, [StreamNext]_streamVars
  PROVE  [Log!Next]_LogMapped
<1>1. StreamInv'
  BY StreamKept
<1>2. CASE UNCHANGED <<segments, synced>>
  BY <1>2, LogStays
<1>3. ASSUME NEW w \in Appends, AppendStep(w)
      PROVE  [Log!Next]_LogMapped
  <2>1. CASE NewSegment(w)
    BY <1>1, <2>1, LinkIsCommit DEF Log!Next
  <2>2. CASE SyncDirectory(w)
    <3>1. CASE synced' = Linked
      BY <2>2, <3>1, SyncIsPromise DEF SyncDirectory, Log!Next
    <3>2. CASE UNCHANGED synced
      BY <1>2, <2>2, <3>2 DEF SyncDirectory
    <3>3. QED
      BY <2>2, <3>1, <3>2 DEF SyncDirectory
  <2>3. CASE UNCHANGED <<segments, synced>>
    BY <1>2, <2>3
  <2>4. CASE LinkSegment(w)
    BY <2>1, <2>3, <2>4 DEF LinkSegment, NewSegment
  <2>5. QED
    BY <1>3, <2>2, <2>3, <2>4 DEF AppendStep, PrepareAppend, Recheck, AppendDies, CallAppend
<1>4. CASE PowerFails
  BY <1>1, <1>4, LossIsLogLoss DEF Log!Next
<1>5. CASE UNCHANGED streamVars
  BY <1>2, <1>5 DEF streamVars
<1>6. QED
  BY <1>3, <1>4, <1>5 DEF StreamNext

(* To a caller the directory is one stream that grows by whole batches and  *)
(* keeps what it promised: the store implements the log.                    *)
THEOREM StreamIsLog == StreamSpec => ImplementsEventLog
<1>1. StreamInit => Log!Init
  BY StreamInitIsLog
<1>2. StreamInv /\ [StreamNext]_streamVars => [Log!Next]_LogMapped
  BY StreamStepIsLog
<1>3. QED
  BY <1>1, <1>2, StreamInvariant, PTL DEF StreamSpec, ImplementsEventLog, Log!Spec, LogMapped
================================================================================
