------------------------ MODULE MCPeriodicAdaptation ------------------------
(***************************************************************************)
(* Zones for checking PeriodicAdaptation: a column of N layers of three   *)
(* tetrahedra each (a triangular prism cut in three), periodic between its *)
(* bottom triangle (1,2,3) and its top triangle, with a twisted vertex     *)
(* correspondence so that the GC point lists are not in matching order.   *)
(***************************************************************************)
EXTENDS PeriodicAdaptation

\* Builds a zone from connectivity tables; a BC is [name, kind, idx, fam]
\* where idx lists positions in its kind's table.
MkZone(coord, tets, tris, bars, bcdefs, gcs) ==
  LET tbl  == "TETRA_4" :> tets @@ "TRI_3" :> tris @@ "BAR_2" :> bars
      off  == "TETRA_4" :> 0 @@ "TRI_3" :> Len(tets) @@ "BAR_2" :> Len(tets) + Len(tris)
  IN  [nVtx    |-> Len(coord),
       coord   |-> coord,
       fs      |-> [v \in DOMAIN coord |-> [vel |-> coord[v], tag |-> 0]],
       vdistri |-> Len(coord),
       elts    |-> [k \in KINDS |-> [i \in DOMAIN tbl[k] |->
                                      [vtx |-> tbl[k][i], id |-> off[k] + i]]],
       er      |-> [k \in KINDS |-> <<off[k] + 1, off[k] + Len(tbl[k])>>],
       edistri |-> [k \in KINDS |-> Len(tbl[k])],
       bcs     |-> [i \in DOMAIN bcdefs |->
                      [name |-> bcdefs[i].name, loc |-> CGNS_TO_LOC[bcdefs[i].kind],
                       fam  |-> bcdefs[i].fam,
                       pl   |-> [j \in DOMAIN bcdefs[i].idx |->
                                   off[bcdefs[i].kind] + bcdefs[i].idx[j]]]],
       gcs     |-> gcs,
       nextId  |-> Len(tets) + Len(tris) + Len(bars) + 1]

\* Column of n layers: vertices 3L+1..3L+3 on level L, the top level a
\* periodic image of the bottom one (top vertex 1 over bottom vertex 2, ...)
Top(n) == <<3*n + 1, 3*n + 2, 3*n + 3>>
Twist == <<2, 3, 1>>
ColCoord(n) == [v \in 1..3*n + 3 |->
                  IF v <= 3*n THEN <<v, <<0>>>> ELSE <<Twist[v - 3*n], <<1>>>>]
ColTets(n) == [i \in 1..3*n |-> <<i, i + 1, i + 2, i + 3>>]
WallOf(L) == LET o == 3*L IN
  <<<<o+1, o+2, o+4>>, <<o+2, o+4, o+5>>, <<o+2, o+3, o+5>>,
    <<o+3, o+5, o+6>>, <<o+1, o+3, o+4>>, <<o+3, o+4, o+6>>>>
ColTris(n) == <<<<1, 2, 3>>, Top(n)>> \o FlattenSeq([L \in 1..n |-> WallOf(L - 1)])
ColBars(n) == <<<<1, 2>>, <<2, 3>>, <<3, 1>>,
                <<Top(n)[1], Top(n)[2]>>, <<Top(n)[2], Top(n)[3]>>, <<Top(n)[3], Top(n)[1]>>>>
ColGcs(n) == <<[name |-> "Jmax", pl |-> Top(n), pld |-> Twist],
               [name |-> "Jmin", pl |-> Twist, pld |-> Top(n)]>>

\* the wall as one BC, or as one BC per layer
OneWall(n) == <<[name |-> "Wall", kind |-> "TRI_3", fam |-> "WALL",
                 idx |-> [j \in 1..6*n |-> 2 + j]]>>
LayerWalls(n) == [L \in 1..n |-> [name |-> "Wall" \o ToString(L), kind |-> "TRI_3",
                                  fam |-> "WALL", idx |-> [j \in 1..6 |-> 2 + 6*(L-1) + j]]]
Curves == <<[name |-> "Lbot", kind |-> "BAR_2", fam |-> "CURVE", idx |-> <<1, 2, 3>>],
            [name |-> "Ltop", kind |-> "BAR_2", fam |-> "CURVE", idx |-> <<4, 5, 6>>]>>

Column(n, walls) == MkZone(ColCoord(n), ColTets(n), ColTris(n), ColBars(n),
                           walls \o Curves, ColGcs(n))

\* the pairing keyed (Jmax, Jmin): the bottom layer is carved and moved up
UpPairing == <<[gcs |-> <<"Jmax", "Jmin">>,
                values |-> <<[jn |-> 1, dir |-> -1], [jn |-> 1, dir |-> 1]>>]>>
\* the pairing keyed (Jmin, Jmax): the top layer is carved and moved down
DownPairing == <<[gcs |-> <<"Jmin", "Jmax">>,
                  values |-> <<[jn |-> 1, dir |-> 1], [jn |-> 1, dir |-> -1]>>]>>

MCScenarios ==
  {[zone |-> Column(2, OneWall(2)), jn |-> UpPairing],
   [zone |-> Column(2, OneWall(2)), jn |-> DownPairing],
   [zone |-> Column(3, LayerWalls(3)), jn |-> UpPairing],
   [zone |-> Column(3, LayerWalls(3)), jn |-> DownPairing]}

MCRemeshChoices == {"identity", "renumber", "feflo_cells", "feflo_faces"}
\* the boundary curves of bottom and top split in two, the top one split
\* elsewhere than the image of the bottom split: bottom (1,2) | (2,3),(3,1);
\* top (9,7) | (7,8),(8,9), where (1,2) is the donor image of (9,7)
SplitCurves ==
  <<[name |-> "Ca", kind |-> "BAR_2", fam |-> "CURVE", idx |-> <<1>>],
    [name |-> "Cb", kind |-> "BAR_2", fam |-> "CURVE", idx |-> <<2, 3>>],
    [name |-> "Ta", kind |-> "BAR_2", fam |-> "CURVE", idx |-> <<6>>],
    [name |-> "Tb", kind |-> "BAR_2", fam |-> "CURVE", idx |-> <<4, 5>>]>>

SplitScenarios ==
  {[zone |-> MkZone(ColCoord(2), ColTets(2), ColTris(2), ColBars(2),
                    OneWall(2) \o SplitCurves, ColGcs(2)),
    jn |-> UpPairing]}
=============================================================================
