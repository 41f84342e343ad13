--------------------------- MODULE MCPartSolToDist ---------------------------
(***************************************************************************)
(* Three ranks, a dist zone with one cell-centred solution, partitions    *)
(* that create new solutions.  Rank 0 holds no cell (an empty block) and  *)
(* no part zone.                                                          *)
(***************************************************************************)
EXTENDS PartSolToDist

Sol(name, loc, fields) == [name |-> name, loc |-> loc, fields |-> fields]

Init_ == Sol("Init", "CellCenter", {"rho"})

Distri == <<[Vertex |-> <<0, 2, 5>>, CellCenter |-> <<0, 0, 2>>],
            [Vertex |-> <<2, 4, 5>>, CellCenter |-> <<0, 1, 2>>],
            [Vertex |-> <<4, 5, 5>>, CellCenter |-> <<1, 2, 2>>]>>

AsRanks(f) == [r \in Ranks |-> f[r + 1]]

\* "New" created on one part of rank 2 only
OneRankCreates ==
  [dist_sols |-> <<Init_>>,
   parts     |-> AsRanks(<<<<>>, <<<<Init_>>>>,
                           <<<<Init_, Sol("New", "Vertex", {"u"})>>, <<Init_>>>>>>),
   distri    |-> AsRanks(Distri)]

\* ranks 1 and 2 create "New" alike, rank 2 also a cell-centred "Extra"
BothCreate ==
  [dist_sols |-> <<Init_>>,
   parts     |-> AsRanks(<<<<>>, <<<<Sol("New", "Vertex", {"u", "v"}), Init_>>>>,
                           <<<<Init_, Sol("New", "Vertex", {"u", "v"})>>,
                             <<Sol("Extra", "CellCenter", {"w"})>>>>>>),
   distri    |-> AsRanks(Distri)]

MCScenarios == {OneRankCreates, BothCreate}

\* "New" created with two fields on rank 1 and with one on rank 2
DisagreeScenarios ==
  {[dist_sols |-> <<Init_>>,
    parts     |-> AsRanks(<<<<>>, <<<<Sol("New", "Vertex", {"u", "v"})>>>>,
                            <<<<Sol("New", "Vertex", {"u"})>>>>>>),
    distri    |-> AsRanks(Distri)]}
=============================================================================
