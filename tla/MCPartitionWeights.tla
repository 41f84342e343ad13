------------------------- MODULE MCPartitionWeights -------------------------
(***************************************************************************)
(* Three ranks requesting 0 to 2 partitions each (not all 0), two zones of *)
(* 1 and 5 cells: zones smaller than, equal to and larger than the total  *)
(* number of partitions, with and without remainder.                      *)
(***************************************************************************)
EXTENDS PartitionWeights

MCInputs ==
  {[n_part |-> np, n_cell |-> [z \in {"Z1", "Z5"} |-> IF z = "Z1" THEN 1 ELSE 5]] :
     np \in {f \in [Ranks -> 0 .. 2] : \E r \in Ranks : f[r] > 0}}
=============================================================================
