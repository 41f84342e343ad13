------------------------ MODULE PartitionWeightsSeq ------------------------
(***************************************************************************)
(* What npart_per_zone promises, computed in one place: the partitions     *)
(* requested by all the ranks are numbered one after the other, rank 0's  *)
(* first (the order of the Allgather into n_part_shift), and partition p  *)
(* of a zone gets the p-th share of the zone's cells in the homogeneous   *)
(* split; a rank's weights are the shares of its own partitions, in       *)
(* order.  The result appears in one step, once.                          *)
(***************************************************************************)
EXTENDS Integers, Sequences, SequencesExt

CONSTANTS NRanks, Inputs

Ranks == 0 .. NRanks - 1

VARIABLES n_part, n_cell, weights

\* the owner of each partition, in global order
Owners == FlattenSeq([q \in 1 .. NRanks |-> [i \in 1 .. n_part[q - 1] |-> q - 1]])

\* the homogeneous split of n cells into k shares, by its contract
Shares(n, k) == [i \in 1 .. k |-> n \div k + (IF i <= n % k THEN 1 ELSE 0)]

\* the shares of rank r's partitions of zone z, as pairs <<k, n_cell>>
Reference(r, z) ==
  LET sh == Shares(n_cell[z], Len(Owners))
      mine == SelectSeq([p \in DOMAIN Owners |-> p], LAMBDA p : Owners[p] = r)
  IN  [i \in DOMAIN mine |-> <<sh[mine[i]], n_cell[z]>>]

Init ==
  \E in \in Inputs :
    /\ n_part = in.n_part
    /\ n_cell = in.n_cell
    /\ weights = [r \in Ranks |-> <<>>]

Assign ==
  /\ \A r \in Ranks : weights[r] = <<>>
  /\ weights' = [r \in Ranks |-> [z \in DOMAIN n_cell |-> Reference(r, z)]]
  /\ UNCHANGED <<n_part, n_cell>>

Spec == Init /\ [][Assign]_<<n_part, n_cell, weights>>
=============================================================================
