--------------------------- MODULE MCIndexExchange ---------------------------
(***************************************************************************)
(* A full zone of 4 vertices and 2 cells with a TRI_3 section of 2        *)
(* elements and an NGON section of 4 faces of 1 to 3 vertices, three BCs, *)
(* a FlowSolution and possibly a ZoneSubRegion, distributed over three    *)
(* ranks (so that slices of 2 elements leave a rank empty); and a part    *)
(* zone holding global ids 3 and 1, or only 3.                            *)
(*                                                                         *)
(* Either the three BCs range over every location and kind (a PointList   *)
(* <<2, 1>>, a 1-d PointRange 2..3 or a 2-d PointRange), or they are     *)
(* fixed and the first BC carries the variants: a BCDataSet with or      *)
(* without its own PointList, a PointList FlowSolution, a ZoneSubRegion  *)
(* of its own or one on the first BC.                                     *)
(***************************************************************************)
EXTENDS IndexExchange

Node(name, label, loc, kind, pts, data, child, link) ==
  [name |-> name, label |-> label, loc |-> loc, kind |-> kind, pts |-> pts,
   data |-> data, child |-> child, link |-> link, distri |-> NoDistri]

Pos(n) == [i \in 1 .. n |-> i]

PtsOf(kind) == IF kind = "pl" THEN <<2, 1>> ELSE <<2, 3>>

Bc(j, loc, kind, child) ==
  Node(<<"bc", j>>, "BC", loc, kind, PtsOf(kind), Pos(IF kind = "pr2" THEN 4 ELSE 2), child, 0)

\* BCDataSets: none, one without PointList, one with its PointList <<1>>
NoPlDataSet == Node(<<"bcds", 0>>, "BCDataSet", "Vertex", "none", <<>>, Pos(2), <<>>, 0)
PlDataSet == Node(<<"bcds", 0>>, "BCDataSet", "Vertex", "pl", <<1>>, Pos(1), <<>>, 0)

CellSol == Node(<<"sol", 0>>, "FS", "CellCenter", "none", <<>>, Pos(2), <<>>, 0)
PlSol == Node(<<"sol", 0>>, "FS", "Vertex", "pl", <<4, 2, 1>>, Pos(3), <<>>, 0)
OwnZsr == Node(<<"zsr", 0>>, "ZSR", "Vertex", "pl", <<2>>, Pos(1), <<>>, 0)
\* a ZoneSubRegion on BC 1 (BCRegionName), with data of BC 1's size
LinkedZsr == Node(<<"zsr", 0>>, "ZSR", "Vertex", "none", <<>>, Pos(2), <<>>, 1)

Zone(bcs, others) ==
  [nVtx |-> 4, nCell |-> 2,
   elts |-> <<[name |-> "tri", kind |-> "TRI_3", conn |-> <<<<1, 2, 3>>, <<2, 3, 4>>>>],
              [name |-> "ngon", kind |-> "NGON_n",
               conn |-> <<<<1, 2>>, <<2, 3, 4>>, <<4, 1>>, <<3>>>>]>>,
   subs |-> bcs \o others]

Locs == {"Vertex", "FaceCenter"}
Kinds == {"pl", "pr1", "pr2"}

MCZones ==
  {Zone(<<Bc(1, l1, k1, <<>>), Bc(2, l2, k2, <<>>), Bc(3, l3, k3, <<>>)>>, <<CellSol>>) :
     l1, l2, l3 \in Locs, k1, k2, k3 \in Kinds}
  \cup
  {Zone(<<Bc(1, "Vertex", "pl", c), Bc(2, "Vertex", "pr1", <<>>)>>, <<s>> \o z) :
     c \in {<<>>, <<NoPlDataSet>>, <<PlDataSet>>},
     s \in {CellSol, PlSol},
     z \in {<<>>, <<OwnZsr>>, <<LinkedZsr>>}}

MCInputs ==
  {[entity |-> e, ln_to_gn |-> l] : e \in {"Vertex", "Elements"}, l \in {<<3, 1>>, <<3>>}}
=============================================================================
