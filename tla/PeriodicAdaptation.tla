------------------------- MODULE PeriodicAdaptation -------------------------
(***************************************************************************)
(* The periodic adaptation cycle of src/maia/algo/dist/adaptation_utils.py *)
(* on one zone: convert_vtx_gcs_as_face_bcs, then deplace_periodic_patch   *)
(* (one pass of steps 1/ to 5/ per pairing), the external remesher, then   *)
(* retrieve_initial_domain (steps 1/ to 4-5/ per pairing in reverse order) *)
(* ending with rm_feflo_added_elt.  Each action is one numbered block of   *)
(* the code, run on the zone as the code runs it.                          *)
(***************************************************************************)
EXTENDS MeshZone

CONSTANTS
  Scenarios,      \* initial states: [zone |-> a zone, jn |-> the pairings]
  RemeshChoices   \* what the external remesher may do to the unrolled zone

\* A pairing of jn_pairs_and_values: gcs = the two GC names (gc_paths
\* [0]/[1]), values = periodic_values[0]/[1] as transforms [jn, dir].

VARIABLES
  zone,             \* the zone of the tree
  pc,               \* the block of the cycle about to run
  i_per,            \* the pairing being processed (1-based)
  jn,               \* jn_pairs_and_values, in key order
  origin,           \* ghost: the zone given to the cycle
  gc_vtx,           \* <<gc_vtx_pl, gc_vtx_pld>> of the current pairing
  cell_pl, face_pl, vtx_pl,
  new_vtx_num,      \* returned by duplicate_elts in the current pass
  new_vtx_nums,     \* the vertex correspondences recorded per pairing
  matching_bcs,     \* matching_bcs[i]['BAR_2']
  to_constrain_bcs

vars == <<zone, pc, i_per, jn, origin, gc_vtx, cell_pl, face_pl, vtx_pl,
          new_vtx_num, new_vtx_nums, matching_bcs, to_constrain_bcs>>

\* f'{prefix}{i_per}' with the code's 0-based i_per
PerName(prefix, i) == prefix \o ToString(i - 1)

GcNames == FlattenSeq([i \in DOMAIN jn |-> jn[i].gcs])

\* The external remesher (feflo, not under src/): it gives back the zone
\* with a vtx_tag field holding, for each vertex, its number before the
\* remeshing; it may renumber vertices, and it may add scratch BCs named
\* feflo_* on cells or on faces it adds.
FefloName == {"feflo_cells", "feflo_faces"}

Remesh(Z, r) ==
  LET tagged == [Z EXCEPT !.fs = [v \in DOMAIN @ |-> [@[v] EXCEPT !.tag = v]]]
      n      == Z.nVtx
      rev    == [v \in 1..n |-> n + 1 - v]
      tri    == Z.elts["TRI_3"][Len(Z.elts["TRI_3"])]
  IN  CASE r = "identity" -> tagged
        [] r = "renumber" ->
             update_vtx_bnds(
               renumber_all([tagged EXCEPT !.coord = [v \in 1..n |-> Z.coord[rev[v]]],
                                           !.fs = [v \in 1..n |-> [tagged.fs[rev[v]]
                                                                   EXCEPT !.tag = rev[v]]]],
                            rev), rev)
        [] r = "feflo_cells" ->
             [tagged EXCEPT !.bcs = Append(@, [name |-> "feflo_cells", loc |-> "CellCenter",
                                              fam |-> "none",
                                              pl |-> Sorted(ElementIds(Z, "TETRA_4"))])]
        [] r = "feflo_faces" ->
             LET Z1 == [tagged EXCEPT
                          !.elts["TRI_3"] = Append(@, [tri EXCEPT !.id = Z.nextId]),
                          !.er["TRI_3"][2] = @ + 1, !.edistri["TRI_3"] = @ + 1,
                          !.nextId = @ + 1]
                 Z2 == update_infdim_elts(Z1, 2, 1)
             IN  [Z2 EXCEPT !.bcs = Append(@, [name |-> "feflo_faces", loc |-> "FaceCenter",
                                              fam |-> "none",
                                              pl |-> <<Z2.er["TRI_3"][2]>>])]

-----------------------------------------------------------------------------
Init ==
  /\ \E s \in Scenarios : zone = s.zone /\ origin = s.zone /\ jn = s.jn
  /\ pc = "convert"
  /\ i_per = 1
  /\ gc_vtx = <<<<>>, <<>>>>
  /\ cell_pl = <<>> /\ face_pl = <<>> /\ vtx_pl = <<>>
  /\ new_vtx_num = <<<<>>, <<>>>>
  /\ new_vtx_nums = <<>>
  /\ matching_bcs = <<>>
  /\ to_constrain_bcs = <<>>

\* convert_vtx_gcs_as_face_bcs, run by the caller before the unrolling
Convert ==
  /\ pc = "convert"
  /\ zone' = convert_vtx_gcs_as_face_bcs(zone, GcNames)
  /\ pc' = "carve"
  /\ UNCHANGED <<i_per, jn, origin, gc_vtx, cell_pl, face_pl, vtx_pl, new_vtx_num,
                 new_vtx_nums, matching_bcs, to_constrain_bcs>>

\* deplace_periodic_patch 1/: the cells touching the donor side, the
\* faces bounding them, and the two BCs tagging them
Carve ==
  /\ pc = "carve"
  /\ LET gc    == Gc(zone, jn[i_per].gcs[1])
         cells == tag_elmt_owning_vtx(zone, gc.pld, "TETRA_4", FALSE)
         res   == add_undefined_faces(zone, cells, gc.pld)
     IN  /\ gc_vtx' = <<gc.pl, gc.pld>>
         /\ cell_pl' = cells
         /\ face_pl' = res[2]
         /\ vtx_pl' = elmt_pl_to_vtx_pl(res[1], cells, "TETRA_4")
         /\ zone' = [res[1] EXCEPT !.bcs = @ \o
              <<[name |-> PerName("tetra_4_periodic_", i_per), loc |-> "CellCenter",
                 fam |-> "PERIODIC", pl |-> cells],
                [name |-> PerName("tri_3_constraint_", i_per), loc |-> "FaceCenter",
                 fam |-> "PERIODIC", pl |-> res[2]]>>]
  /\ to_constrain_bcs' = Append(to_constrain_bcs, PerName("tri_3_constraint_", i_per))
  /\ pc' = "prune"
  /\ UNCHANGED <<i_per, jn, origin, new_vtx_num, new_vtx_nums, matching_bcs>>

\* deplace_periodic_patch 2/: twin edge BCs recorded, donor-side bars removed
Prune ==
  /\ pc = "prune"
  /\ LET bar_to_rm_pl == tag_elmt_owning_vtx(zone, gc_vtx[2], "BAR_2", TRUE)
         bar_twins_pl == tag_elmt_owning_vtx(zone, gc_vtx[1], "BAR_2", TRUE)
     IN  /\ matching_bcs' = Append(matching_bcs,
              find_matching_bcs(zone, bar_to_rm_pl, bar_twins_pl,
                                <<gc_vtx[2], gc_vtx[1]>>, "BAR_2"))
         /\ zone' = remove_elts_from_pl(zone, bar_to_rm_pl, "BAR_2")
  /\ pc' = "duplicate"
  /\ UNCHANGED <<i_per, jn, origin, gc_vtx, cell_pl, face_pl, vtx_pl, new_vtx_num,
                 new_vtx_nums, to_constrain_bcs>>

\* the elts_to_update dict of both passes
EltsToUpdate(Z, cells, vtx) ==
  "TETRA_4" :> cells
  @@ "TRI_3" :> is_elt_included(Z, tag_elmt_owning_vtx(Z, vtx, "TRI_3", TRUE),
                                "TRI_3", cells, "TETRA_4")
  @@ "BAR_2" :> tag_elmt_owning_vtx(Z, vtx, "BAR_2", TRUE)

\* deplace_periodic_patch 3/: the constraint surface duplicated
Duplicate ==
  /\ pc = "duplicate"
  /\ zone' = duplicate_elts(zone, face_pl, "TRI_3", PerName("tri_3_periodic_", i_per),
                            EltsToUpdate(zone, cell_pl, vtx_pl), <<>>)
  /\ new_vtx_num' = dup_vtx_num(zone, face_pl, "TRI_3")
  /\ to_constrain_bcs' = Append(to_constrain_bcs, PerName("tri_3_periodic_", i_per))
  /\ pc' = "transform"
  /\ UNCHANGED <<i_per, jn, origin, gc_vtx, cell_pl, face_pl, vtx_pl, new_vtx_nums,
                 matching_bcs>>

\* deplace_periodic_patch 4/ and retrieve_initial_domain 3/: the cells of
\* the patch moved by periodic transform t, coordinates and flow solution
MovePatch(Z, cells, t) ==
  LET vtx == elmt_pl_to_vtx_pl(Z, cells, "TETRA_4")
  IN  apply_periodicity_to_flowsol(apply_periodicity_to_vtx(Z, vtx, t), vtx, t)

Transform4 ==
  /\ pc = "transform"
  /\ vtx_pl' = elmt_pl_to_vtx_pl(zone, cell_pl, "TETRA_4")
  /\ zone' = MovePatch(zone, cell_pl, jn[i_per].values[2])
  /\ pc' = "merge"
  /\ UNCHANGED <<i_per, jn, origin, gc_vtx, cell_pl, face_pl, new_vtx_num, new_vtx_nums,
                 matching_bcs, to_constrain_bcs>>
\* deplace_periodic_patch 5/: the two GC face BCs merged (keep_original),
\* every recorded correspondence sent through the contraction, and the two
\* Vertex BCs recording this pairing's correspondence
Merge ==
  /\ pc = "merge"
  /\ LET names   == <<jn[i_per].gcs[1], jn[i_per].gcs[2]>>
         vtx_tag == [v \in 1..zone.nVtx |-> v]
         o2n     == merge_map(zone, names, vtx_tag, gc_vtx)
         take(s) == Renum(o2n, s)
         num     == <<take(new_vtx_num[1]), take(new_vtx_num[2])>>
         Z1      == merge_periodic_bc(zone, names, vtx_tag, gc_vtx, TRUE)
     IN  /\ new_vtx_nums' = [j \in DOMAIN new_vtx_nums |->
                               <<take(new_vtx_nums[j][1]), take(new_vtx_nums[j][2])>>]
                            \o <<num>>
         /\ zone' = [Z1 EXCEPT !.bcs = @ \o
              <<[name |-> PerName("vtx_constraint_", i_per), loc |-> "Vertex",
                 fam |-> "PERIODIC", pl |-> num[1]],
                [name |-> PerName("vtx_periodic_", i_per), loc |-> "Vertex",
                 fam |-> "PERIODIC", pl |-> num[2]]>>]
  /\ i_per' = i_per + 1
  /\ pc' = IF i_per < Len(jn) THEN "carve" ELSE "remesh"
  /\ UNCHANGED <<jn, origin, gc_vtx, cell_pl, face_pl, vtx_pl, new_vtx_num,
                 matching_bcs, to_constrain_bcs>>

\* the unrolled zone goes through the external remesher
Remeshing ==
  /\ pc = "remesh"
  /\ \E r \in RemeshChoices : zone' = Remesh(zone, r)
  /\ i_per' = Len(jn)
  /\ pc' = "r_duplicate"
  /\ UNCHANGED <<jn, origin, gc_vtx, cell_pl, face_pl, vtx_pl, new_vtx_num,
                 new_vtx_nums, matching_bcs, to_constrain_bcs>>

\* retrieve_initial_domain 1/ and 2/: the GC face BC still present is
\* duplicated as the GC face BC removed by the merge, with the twin edge
\* BCs recorded by Prune
RDuplicate ==
  /\ pc = "r_duplicate"
  /\ LET cells == Bc(zone, PerName("tetra_4_periodic_", i_per)).pl
         vtx   == elmt_pl_to_vtx_pl(zone, cells, "TETRA_4")
     IN  zone' = duplicate_elts(zone, Bc(zone, jn[i_per].gcs[1]).pl, "TRI_3",
                                jn[i_per].gcs[2], EltsToUpdate(zone, cells, vtx),
                                matching_bcs[i_per])
  /\ pc' = "r_transform"
  /\ UNCHANGED <<i_per, jn, origin, gc_vtx, cell_pl, face_pl, vtx_pl, new_vtx_num,
                 new_vtx_nums, matching_bcs, to_constrain_bcs>>

\* retrieve_initial_domain 3/: the patch moved back by periodic_values[0]
RTransform ==
  /\ pc = "r_transform"
  /\ zone' = MovePatch(zone, Bc(zone, PerName("tetra_4_periodic_", i_per)).pl,
                       jn[i_per].values[1])
  /\ pc' = "r_merge"
  /\ UNCHANGED <<i_per, jn, origin, gc_vtx, cell_pl, face_pl, vtx_pl, new_vtx_num,
                 new_vtx_nums, matching_bcs, to_constrain_bcs>>

\* retrieve_initial_domain 4-5/: the constraint surface and its periodic
\* copy merged, both removed, through the vtx_tag field and the recorded
\* correspondence
RMerge ==
  /\ pc = "r_merge"
  /\ zone' = merge_periodic_bc(zone, <<PerName("tri_3_constraint_", i_per),
                                       PerName("tri_3_periodic_", i_per)>>,
                               [v \in 1..zone.nVtx |-> zone.fs[v].tag],
                               new_vtx_nums[i_per], FALSE)
  /\ i_per' = i_per - 1
  /\ pc' = IF i_per > 1 THEN "r_duplicate" ELSE "rm_feflo"
  /\ UNCHANGED <<jn, origin, gc_vtx, cell_pl, face_pl, vtx_pl, new_vtx_num,
                 new_vtx_nums, matching_bcs, to_constrain_bcs>>

\* retrieve_initial_domain, last call: rm_feflo_added_elt
RmFeflo ==
  /\ pc = "rm_feflo"
  /\ zone' = rm_feflo_added_elt(zone, FefloName)
  /\ pc' = "done"
  /\ UNCHANGED <<i_per, jn, origin, gc_vtx, cell_pl, face_pl, vtx_pl, new_vtx_num,
                 new_vtx_nums, matching_bcs, to_constrain_bcs>>

\* the cycle is over: the program returns
Terminated == pc = "done" /\ UNCHANGED vars

Next ==
  \/ Convert \/ Carve \/ Prune \/ Duplicate \/ Transform4 \/ Merge
  \/ Remeshing \/ RDuplicate \/ RTransform \/ RMerge \/ RmFeflo
  \/ Terminated

Spec == Init /\ [][Next]_vars
-----------------------------------------------------------------------------
(* Properties.                                                             *)

Locs == {"Vertex", "EdgeCenter", "FaceCenter", "CellCenter"}
Pcs  == {"convert", "carve", "prune", "duplicate", "transform", "merge", "remesh",
         "r_duplicate", "r_transform", "r_merge", "rm_feflo", "done"}

TypeOK ==
  /\ pc \in Pcs
  /\ i_per \in 0..Len(jn) + 1
  /\ zone.nVtx \in Nat /\ zone.vdistri \in Nat /\ zone.nextId \in Nat
  /\ \A k \in KINDS : /\ zone.er[k] \in Int \X Int /\ zone.edistri[k] \in Nat
                      /\ \A i \in DOMAIN zone.elts[k] :
                           zone.elts[k][i].vtx \in [1..NVtx[k] -> Int]
  /\ \A i \in DOMAIN zone.bcs : zone.bcs[i].loc \in Locs /\ zone.bcs[i].pl \in Seq(Int)
  /\ \A i \in DOMAIN zone.gcs : zone.gcs[i].pl \in Seq(Int) /\ zone.gcs[i].pld \in Seq(Int)
  /\ \A j \in DOMAIN new_vtx_nums : Len(new_vtx_nums[j][1]) = Len(new_vtx_nums[j][2])

\* The invariants the data model states for any sequence of element
\* duplications and removals (update_infdim_elts, remove_elts_from_pl,
\* duplicate_elts, merge_periodic_bc): element blocks contiguous from 1 in
\* decreasing dimension with ElementRange, connectivity size and
\* distribution agreeing; vertex count, coordinates, flow solution and
\* distribution agreeing; every id of a BC or GC inside the range it
\* refers to, with no repeated id and no repeated BC name.
ZoneConsistent ==
  LET Z == zone IN
  /\ Z.er["TETRA_4"][1] = 1
  /\ Z.er["TRI_3"][1] = Z.er["TETRA_4"][2] + 1
  /\ Z.er["BAR_2"][1] = Z.er["TRI_3"][2] + 1
  /\ \A k \in KINDS : /\ Len(Z.elts[k]) = Z.er[k][2] - Z.er[k][1] + 1
                      /\ Z.edistri[k] = Len(Z.elts[k])
                      /\ \A i \in DOMAIN Z.elts[k] : ToSet(Z.elts[k][i].vtx) \subseteq 1..Z.nVtx
  /\ Len(Z.coord) = Z.nVtx /\ Len(Z.fs) = Z.nVtx /\ Z.vdistri = Z.nVtx
  /\ \A i \in DOMAIN Z.bcs :
       LET bc == Z.bcs[i]
       IN  /\ ToSet(bc.pl) \subseteq (IF bc.loc = "Vertex" THEN 1..Z.nVtx
                                      ELSE ElementIds(Z, LOC_TO_CGNS[bc.loc]))
           /\ Cardinality(ToSet(bc.pl)) = Len(bc.pl)
           /\ \A j \in DOMAIN Z.bcs : j # i => Z.bcs[j].name # bc.name
  /\ \A i \in DOMAIN Z.gcs : ToSet(Z.gcs[i].pl) \cup ToSet(Z.gcs[i].pld) \subseteq 1..Z.nVtx

\* The mesh stays conforming through every renumbering: each TRI_3 is a
\* face of a TETRA_4, each BAR_2 an edge of a TRI_3, each vertex a vertex
\* of a TETRA_4 (a connectivity renumbered in one kind and not in another,
\* or a vertex left behind by a merge, breaks it).
MeshConforming ==
  LET Z     == zone
      cells == {Z.elts["TETRA_4"][i].vtx : i \in DOMAIN Z.elts["TETRA_4"]}
      faces == {ToSet(f) : f \in UNION {ToSet(TetraFaces(t)) : t \in cells}}
      edges == UNION {{{f[1], f[2]}, {f[2], f[3]}, {f[1], f[3]}} :
                        f \in {Z.elts["TRI_3"][i].vtx : i \in DOMAIN Z.elts["TRI_3"]}}
  IN  /\ \A i \in DOMAIN Z.elts["TRI_3"] : ToSet(Z.elts["TRI_3"][i].vtx) \in faces
      /\ \A i \in DOMAIN Z.elts["BAR_2"] : ToSet(Z.elts["BAR_2"][i].vtx) \in edges
      /\ \A v \in 1..Z.nVtx : \E t \in cells : v \in ToSet(t)

\* the points of each element, by its ghost identity
Shape(Z, k) == [d \in {Z.elts[k][i].id : i \in DOMAIN Z.elts[k]} |->
                  LET e == CHOOSE i \in DOMAIN Z.elts[k] : Z.elts[k][i].id = d
                  IN  [j \in 1..NVtx[k] |-> Z.coord[Z.elts[k][e].vtx[j]]]]

\* No step moves the geometry of an element that exists before and after
\* it, except the two transform steps, which move an element as a whole by
\* the pairing's transform (a wrong contraction in merge_periodic_bc, or a
\* renumbering of the wrong element subset in duplicate_elts, attaches an
\* element to a vertex somewhere else).
GeometryPreserved ==
  [][\A k \in KINDS :
       LET before == Shape(zone, k)
           after  == Shape(zone', k)
           t      == IF pc = "transform" THEN jn[i_per].values[2] ELSE jn[i_per].values[1]
       IN  \A d \in DOMAIN before \cap DOMAIN after :
             \/ after[d] = before[d]
             \/ /\ pc \in {"transform", "r_transform"}
                /\ after[d] = [j \in DOMAIN before[d] |-> Transform(before[d][j], t)]]_vars

\* the elements of a kind, or of a BC, as sets of points
PointSets(Z, k, ids) == {{Z.coord[v] : v \in ToSet(Conn(Z, k, p))} : p \in ids}
BcShape(Z, name) == PointSets(Z, LOC_TO_CGNS[Bc(Z, name).loc], ToSet(Bc(Z, name).pl))
BcNames(Z) == {Z.bcs[i].name : i \in DOMAIN Z.bcs}

\* Round trip of the unroll/fold cycle: once retrieve_initial_domain has
\* returned, the zone has the vertex count and the element counts of the
\* zone given to the cycle, the same points, the same elements as sets of
\* points in each kind, and every original element BC with the same
\* elements (whatever the remesher renumbered or tagged as scratch).
RoundTrip ==
  pc = "done" =>
    /\ zone.nVtx = origin.nVtx
    /\ \A k \in KINDS : Len(zone.elts[k]) = Len(origin.elts[k])
    /\ ToSet(zone.coord) = ToSet(origin.coord)
    /\ \A k \in KINDS : PointSets(zone, k, ElementIds(zone, k))
                        = PointSets(origin, k, ElementIds(origin, k))
    /\ BcNames(origin) \subseteq BcNames(zone)
    /\ \A i \in DOMAIN origin.bcs :
         origin.bcs[i].loc # "Vertex" =>
           BcShape(zone, origin.bcs[i].name) = BcShape(origin, origin.bcs[i].name)
\* apply_periodicity_to_flowsol is documented to "apply periodicity to ids
\* of vector fields": a cartesian vector field stored at the vertices
\* (here one that starts equal to the position) is rotated together with
\* its vertex, so each row is rotated as often as its vertex was moved.
FieldFollowsVertex ==
  \A v \in 1..zone.nVtx : zone.fs[v].vel[2] = zone.coord[v][2]

\* Fold-back restores the periodic pairing: once retrieve_initial_domain
\* has returned, the PointList and PointListDonor of every Vertex GC point
\* at the same positions as in the zone given to the cycle.
GcPairingRestored ==
  pc = "done" =>
    \A i \in DOMAIN origin.gcs :
      LET g == Gc(zone, origin.gcs[i].name)
      IN  /\ [j \in DOMAIN g.pl |-> zone.coord[g.pl[j]]]
               = [j \in DOMAIN origin.gcs[i].pl |-> origin.coord[origin.gcs[i].pl[j]]]
          /\ [j \in DOMAIN g.pld |-> zone.coord[g.pld[j]]]
               = [j \in DOMAIN origin.gcs[i].pld |-> origin.coord[origin.gcs[i].pld[j]]]
=============================================================================
