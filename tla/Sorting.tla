------------------------------ MODULE Sorting -------------------------------
(***************************************************************************)
(* Lists the code gets by Array.sort and Array.filter, by what they are.   *)
(***************************************************************************)
EXTENDS Integers, FiniteSets

\* The numbers of a set, the least first.
Ascending(S) ==
  CHOOSE f \in [1 .. Cardinality(S) -> S] : \A i, j \in DOMAIN f : i < j => f[i] < f[j]

\* The requests of a queue in their order, but for those of some operations.
Without(requests, ops) ==
  LET kept == Ascending({k \in DOMAIN requests : requests[k].op \notin ops})
  IN  [k \in DOMAIN kept |-> requests[kept[k]]]
=============================================================================
