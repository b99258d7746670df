--------------------------- MODULE MCJsonlEventStore ---------------------------
(* Two writers on a stream of at most three events.  The batches overlap:   *)
(* one is the two single ones joined, one repeats an identity with another  *)
(* payload.                                                                 *)
EXTENDS JsonlEventStore, TLC

MCIdOf(event) == event[1]

MCBatches == { << <<"a", 1>> >>,
               << <<"b", 1>> >>,
               << <<"a", 2>> >>,
               << <<"a", 1>>, <<"b", 1>> >> }

Symmetric == Permutations(Appends)
================================================================================
