--------------------------- MODULE MCStoredCallbacks ---------------------------
(* Two clients that route under one name, and two questions of one gate, of *)
(* which the first asks for an approval.                                    *)
EXTENDS StoredCallbacks, TLC

MCGateOf   == [q \in Questions |-> "gate"]
MCRouterOf == [c \in Clients |-> "monitor"]

Interchangeable == Permutations(Clients)
================================================================================
