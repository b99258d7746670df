----------------------------- MODULE ArtifactLedger -----------------------------
(***************************************************************************)
(* What an artifact store promises of one run: the references it admitted   *)
(* are under one limit and within it, each digest charged once; they are    *)
(* never changed, and taken away only by the deletion of the run, or by the *)
(* power before they were promised to be on disk.                           *)
(***************************************************************************)
EXTENDS Integers

CONSTANTS
  References,    \* receipts: a digest with a purpose
  DigestOf(_),   \* the digest of a reference
  Total(_),      \* the bytes of a set of digests
  Limits         \* the limits a store may be opened with

VARIABLES
  admitted,      \* the references admitted, each with the limit it was under
  promised,      \* those of them promised to stay
  open           \* FALSE while the run is deleted

Charged == {DigestOf(entry.ref) : entry \in admitted}

(* A digest that is charged already costs nothing.                          *)
Room(charged, digest, limit) ==
  digest \in charged \/ Total(charged \cup {digest}) <= limit

Init == admitted = {} /\ promised = {} /\ open = TRUE

Admit(ref, limit) ==
  /\ open
  /\ \A entry \in admitted : entry.limit = limit /\ entry.ref # ref
  /\ Room(Charged, DigestOf(ref), limit)
  /\ admitted' = admitted \cup {[ref |-> ref, limit |-> limit]}
  /\ UNCHANGED <<promised, open>>

Promise ==
  /\ promised \subseteq promised' /\ promised' \subseteq admitted
  /\ UNCHANGED <<admitted, open>>

(* A deletion that is under way ends with the power, too.                   *)
PowerLoss ==
  /\ promised \subseteq admitted' /\ admitted' \subseteq admitted
  /\ promised' = admitted'
  /\ open' = TRUE

BeginDelete == open' = FALSE /\ UNCHANGED <<admitted, promised>>

DeleteSome ==
  /\ ~open
  /\ admitted' \subseteq admitted /\ promised' \subseteq promised
  /\ UNCHANGED open

EndDelete == open' = TRUE /\ UNCHANGED <<admitted, promised>>

Next ==
  \/ \E ref \in References, limit \in Limits : Admit(ref, limit)
  \/ Promise \/ PowerLoss \/ BeginDelete \/ DeleteSome \/ EndDelete

Spec == Init /\ [][Next]_<<admitted, promised, open>>
================================================================================
