---------------------------- MODULE MCExtractPart ----------------------------
(***************************************************************************)
(* Three ranks of one or two parts each.  The ZoneSubRegion is present on  *)
(* some parts only; the container is a FlowSolution without PointList at  *)
(* Vertex or CellCenter, or a ZoneSubRegion with a PointList, with fields *)
(* 1 and 2 (or none), which each rank may iterate in either order.        *)
(***************************************************************************)
EXTENDS ExtractPart

FS(loc, f) == [label |-> "FlowSolution_t", loc |-> loc, fields |-> f, pl |-> FALSE]
ZSR(loc) == [label |-> "ZoneSubRegion_t", loc |-> loc, fields |-> {1, 2}, pl |-> TRUE]

\* the iteration orders of a set of field names
Orders(f) == {q \in [1 .. Cardinality(f) -> f] : ToSet(q) = f}

\* the parts of a rank, all with container c; the ZSR on some of them
PartsOf(c) == {<<[zsr |-> z, cont |-> c]>> : z \in BOOLEAN}
              \cup {<<[zsr |-> z1, cont |-> c], [zsr |-> z2, cont |-> c]>> : z1, z2 \in BOOLEAN}

InputsOf(locs, conts, PartSets(_)) ==
  UNION {{[zsr_loc |-> l, parts |-> p, order |-> o, exchange |-> e] :
            l \in locs, e \in BOOLEAN, o \in [Ranks -> Orders(c.fields)],
            p \in {pp \in [Ranks -> PartSets(c)] :
                     \E r \in Ranks : \E i \in DOMAIN pp[r] : pp[r][i].zsr}} : c \in conts}

\* volume extraction with any container; surface and vertex extraction
\* with a vertex FlowSolution
MCInputs ==
  InputsOf({"CellCenter"}, {FS("Vertex", {1, 2}), FS("CellCenter", {1, 2}), FS("CellCenter", {}), ZSR("CellCenter")}, PartsOf)
  \cup InputsOf({"FaceCenter", "Vertex"}, {FS("Vertex", {1, 2})}, PartsOf)

\* a surface extraction transferring a vertex ZoneSubRegion
MCSurfaceZsrInputs == InputsOf({"FaceCenter"}, {ZSR("Vertex")}, PartsOf)

\* rank 0 holds no part
NoPart(c) == PartsOf(c) \cup {<<>>}
MCRankWithoutPartInputs ==
  {i \in InputsOf({"CellCenter"}, {FS("CellCenter", {1, 2})}, NoPart) : i.parts[0] = <<>> /\ i.exchange}
=============================================================================
