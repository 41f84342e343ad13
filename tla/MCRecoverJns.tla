---------------------------- MODULE MCRecoverJns ----------------------------
(***************************************************************************)
(* Two ranks and two partitionings of joined zones for RecoverJns.  Part   *)
(* numbers are counted per zone and per rank (part zone "Z.P<rank>.N<i>"), *)
(* so faces of two zones may share rank, part and pl.                      *)
(***************************************************************************)
EXTENDS RecoverJns, TLC

Slot(rank, part, gc, idx, pl) ==
  [rank |-> rank, part |-> part, gc |-> gc, idx |-> idx, pl |-> pl]

\* Zones A and B joined by the GCs of ordinals 1 (on A) and 2 (on B), three
\* faces: one pair across ranks with equal pl, one pair of identical
\* entries (same rank, same part number in the two zones, same pl), one
\* pair on one rank in parts of different numbers.
TwoZones ==
  [jns       |-> <<[ordinal |-> 1, opp |-> 2], [ordinal |-> 2, opp |-> 1]>>,
   n_face    |-> (0 :> 3 @@ 1 :> 3),
   slots     |-> {Slot(0, 0, 0, 1, 5), Slot(1, 0, 1, 1, 5),
                  Slot(0, 0, 0, 2, 6), Slot(0, 0, 1, 2, 6),
                  Slot(1, 1, 0, 3, 2), Slot(1, 0, 1, 3, 4)}]

\* Zone A periodic on itself (ordinals 1 and 3, one face, both sides in
\* the same part) and joined to B (ordinals 2 and 4, two faces), so that
\* the second pair's gnums are shifted by the first pair's size.
PeriodicAndJoin ==
  [jns       |-> <<[ordinal |-> 1, opp |-> 3], [ordinal |-> 2, opp |-> 4],
                  [ordinal |-> 3, opp |-> 1], [ordinal |-> 4, opp |-> 2]>>,
   n_face    |-> (0 :> 1 @@ 1 :> 2 @@ 2 :> 1 @@ 3 :> 2),
   slots     |-> {Slot(0, 0, 0, 1, 3), Slot(0, 0, 2, 1, 4),
                  Slot(1, 0, 1, 1, 1), Slot(0, 1, 3, 1, 1),
                  Slot(1, 0, 1, 2, 2), Slot(1, 0, 3, 2, 8)}]

\* Zones A and B joined by two faces from part 0 of rank 0 to part 0 of
\* rank 1, the pairing reversing the order of the PointLists (1 - 7, 2 - 3)
Crossing ==
  [jns       |-> <<[ordinal |-> 1, opp |-> 2], [ordinal |-> 2, opp |-> 1]>>,
   n_face    |-> (0 :> 2 @@ 1 :> 2),
   slots     |-> {Slot(0, 0, 0, 1, 1), Slot(1, 0, 1, 1, 7),
                  Slot(0, 0, 0, 2, 2), Slot(1, 0, 1, 2, 3)}]

MCScenarios == {TwoZones, PeriodicAndJoin, Crossing}
=============================================================================
