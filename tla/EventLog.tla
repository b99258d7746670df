------------------------------- MODULE EventLog -------------------------------
(***************************************************************************)
(* What an event store promises of one stream: it only grows, batch by      *)
(* batch and each batch whole; no event identity is in it twice; and what   *)
(* was promised to be on disk is still there when the power comes back.     *)
(* The rest of what was written may be lost with the power, from the end.   *)
(***************************************************************************)
EXTENDS Naturals, Sequences

CONSTANTS
  Batches,    \* the non-empty sequences of events that callers append
  IdOf(_)     \* the identity of an event

VARIABLES
  events,     \* the stream
  promised    \* how many of its events are promised to stay

Ids(s) == {IdOf(s[i]) : i \in DOMAIN s}

Distinct(s) == \A i, j \in DOMAIN s : IdOf(s[i]) = IdOf(s[j]) => i = j

Init == events = <<>> /\ promised = 0

Commit(batch) ==
  /\ Distinct(events \o batch)
  /\ events' = events \o batch
  /\ UNCHANGED promised

Promise ==
  /\ promised' \in promised..Len(events)
  /\ UNCHANGED events

PowerLoss ==
  \E n \in promised..Len(events) :
    /\ events' = SubSeq(events, 1, n)
    /\ promised' = n

Next == Promise \/ PowerLoss \/ \E batch \in Batches : Commit(batch)

Spec == Init /\ [][Next]_<<events, promised>>
===============================================================================
