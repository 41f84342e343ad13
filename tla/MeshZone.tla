------------------------------ MODULE MeshZone ------------------------------
(***************************************************************************)
(* The single unstructured zone manipulated by                             *)
(* src/maia/algo/dist/adaptation_utils.py, and every routine of that file *)
(* written as a pure operator from a zone to a zone.  The routines are run *)
(* by the code with MPI.COMM_SELF, so the distributed exchanges            *)
(* (block_to_part, PartToBlock, PartToPart) reduce to local gathers,       *)
(* deletions and masks, which is how they are written here.                *)
(*                                                                         *)
(* A zone Z is a record:                                                   *)
(*   nVtx     zone_dim[0][0], the vertex count                             *)
(*   coord    CoordinateX/Y/Z, one abstract point per vertex               *)
(*   fs       the Vertex FlowSolution, one row per vertex: a cartesian     *)
(*            vector field (vel) and the vtx_tag array (tag)               *)
(*   vdistri  total of the Vertex :CGNS#Distribution                       *)
(*   elts     ElementConnectivity per kind, one record per element: its    *)
(*            vertex tuple and a ghost identity (id) never read by the     *)
(*            code, used only by properties                                *)
(*   er       ElementRange per kind, <<first, last>>                       *)
(*   edistri  total of the Element :CGNS#Distribution per kind             *)
(*   bcs      the BC_t children of ZoneBC_t, in tree order                 *)
(*   gcs      the Vertex GridConnectivity nodes (PointList/PointListDonor) *)
(*   nextId   ghost: next fresh element identity                           *)
(*                                                                         *)
(* A point is <<base, k>>: base labels a vertex of the original mesh and   *)
(* k[i] counts the periodic transforms of pairing i applied to it, so two  *)
(* points coincide exactly when the geometry says they do.                 *)
(***************************************************************************)
EXTENDS Integers, Sequences, FiniteSets, SequencesExt, TLC

KINDS == {"TETRA_4", "TRI_3", "BAR_2"}

\* adaptation_utils.py CGNS_TO_LOC / LOC_TO_CGNS
CGNS_TO_LOC == "BAR_2" :> "EdgeCenter" @@ "TRI_3" :> "FaceCenter"
                 @@ "TETRA_4" :> "CellCenter"
LOC_TO_CGNS == "EdgeCenter" :> "BAR_2" @@ "FaceCenter" :> "TRI_3"
                 @@ "CellCenter" :> "TETRA_4"

\* PT.Element.Dimension and PT.Element.NVtx of the three kinds
Dimension == "TETRA_4" :> 3 @@ "TRI_3" :> 2 @@ "BAR_2" :> 1
NVtx == "TETRA_4" :> 4 @@ "TRI_3" :> 3 @@ "BAR_2" :> 2

-----------------------------------------------------------------------------
(* Array helpers standing for numpy idioms.                                *)

\* np.unique / sorted output of a set of ids
Sorted(S) == [i \in 1..Cardinality(S) |->
                CHOOSE x \in S : Cardinality({y \in S : y < x}) = i - 1]

\* s[mask] where mask is true exactly on the indices in I (order kept)
Masked(s, I) == LET idx == Sorted(I \cap DOMAIN s) IN [j \in DOMAIN idx |-> s[idx[j]]]

\* np.delete(s, I)
Deleted(s, I) == Masked(s, DOMAIN s \ I)

\* np.take(old_to_new, t-1) on one element's vertex tuple
Renum(map, t) == [j \in DOMAIN t |-> map[t[j]]]

\* np.searchsorted(s, x) (side 'left'), 0-based
SearchSorted(s, x) == Cardinality({i \in DOMAIN s : s[i] < x})

\* np.argsort(s)[pos], 1-based result, ties in index order (small arrays
\* are sorted by insertion sort, which is stable)
ArgSortAt(s, pos) ==
  CHOOSE j \in DOMAIN s :
    Cardinality({i \in DOMAIN s : s[i] < s[j] \/ (s[i] = s[j] /\ i < j)}) = pos

\* val, where the code raises unless cond holds
Checked(cond, msg, val) == IF Assert(cond, msg) THEN val ELSE val

\* the periodic transform of pairing per.jn, in direction per.dir
Transform(pt, per) == <<pt[1], [pt[2] EXCEPT ![per.jn] = @ + per.dir]>>

-----------------------------------------------------------------------------
(* Indexed element store.                                                  *)

ElementIds(Z, k) == Z.er[k][1] .. Z.er[k][2]

\* vertex tuple of the element of global id p in kind k
Conn(Z, k, p) == Z.elts[k][p - Z.er[k][1] + 1].vtx

BcIdx(Z, name) ==
  CHOOSE i \in DOMAIN Z.bcs :
    Z.bcs[i].name = name /\ \A j \in 1..(i-1) : Z.bcs[j].name # name
HasBc(Z, name) == \E i \in DOMAIN Z.bcs : Z.bcs[i].name = name
\* PT.get_child_from_name: the first BC of that name; the code fails on
\* the None it returns for a missing one
Bc(Z, name) == Checked(HasBc(Z, name), "no BC of that name", Z.bcs[BcIdx(Z, name)])

Gc(Z, name) == Z.gcs[CHOOSE i \in DOMAIN Z.gcs : Z.gcs[i].name = name]

\* elmt_pl_to_vtx_pl
elmt_pl_to_vtx_pl(Z, pl, k) ==
  Sorted(UNION {ToSet(Conn(Z, k, p)) : p \in ToSet(pl)})

\* tag_elmt_owning_vtx: vtx_ids_to_face_ids (not under src/) returns the
\* elements having all (elt_full) or any of their vertices in vtx_pl.
\* Every kind is present in the modelled zone, so the elt_n None branch is
\* never taken.
tag_elmt_owning_vtx(Z, vtx_pl, k, elt_full) ==
  Sorted({p \in ElementIds(Z, k) :
            IF elt_full THEN ToSet(Conn(Z, k, p)) \subseteq ToSet(vtx_pl)
                        ELSE ToSet(Conn(Z, k, p)) \cap ToSet(vtx_pl) # {}})

\* PDM.decompose_std_elmt_faces for TETRA_4 (external): the 4 faces
TetraFaces(t) == <<<<t[1], t[2], t[3]>>, <<t[1], t[2], t[4]>>,
                   <<t[1], t[3], t[4]>>, <<t[2], t[3], t[4]>>>>

\* cdist_algo.find_duplicate_elt (external): the indices of s whose element
\* has the vertex set of another element of s
Duplicated(s) ==
  {i \in DOMAIN s : \E j \in DOMAIN s : j # i /\ ToSet(s[j]) = ToSet(s[i])}

\* is_elt_included
is_elt_included(Z, src_pl, src_name, tgt_pl, tgt_name) ==
  LET src_ec == [i \in DOMAIN src_pl |-> Conn(Z, src_name, src_pl[i])]
      tgt_ec == FlattenSeq([i \in DOMAIN tgt_pl |-> TetraFaces(Conn(Z, tgt_name, tgt_pl[i]))])
  IN  Masked(src_pl, Duplicated(src_ec \o tgt_ec) \cap DOMAIN src_pl)

-----------------------------------------------------------------------------
(* Vertex and flow-solution primitives.                                    *)

\* duplicate_vtx: coordinates appended in vtx_pl order, zone_dim updated;
\* the Vertex distribution is left to the caller
duplicate_vtx(Z, vtx_pl) ==
  [Z EXCEPT !.coord = @ \o [i \in DOMAIN vtx_pl |-> @[vtx_pl[i]]],
            !.nVtx  = @ + Len(vtx_pl)]

\* remove_vtx: PartToBlock gives the sorted distinct ids; zone_dim is
\* decremented by vtx_pl.size
remove_vtx(Z, vtx_pl) ==
  [Z EXCEPT !.coord = Deleted(@, ToSet(vtx_pl)),
            !.nVtx  = @ - Len(vtx_pl)]

\* apply_periodicity_to_vtx: the mask is true on the referenced vertices
apply_periodicity_to_vtx(Z, vtx_pl, periodic) ==
  [Z EXCEPT !.coord = [v \in DOMAIN @ |->
                         IF v \in ToSet(vtx_pl) THEN Transform(@[v], periodic)
                                                ELSE @[v]]]

\* duplicate_flowsol_elts at 'Vertex' (ids = vtx_pl-1, gathered at ids+1);
\* get_subset_distribution gives the zone Vertex distribution since the
\* FlowSolution has no PointList
duplicate_flowsol_elts(Z, vtx_pl) ==
  [Z EXCEPT !.fs = @ \o [i \in DOMAIN vtx_pl |-> @[vtx_pl[i]]]]

\* remove_flowsol_elts at 'Vertex'
remove_flowsol_elts(Z, vtx_pl) == [Z EXCEPT !.fs = Deleted(@, ToSet(vtx_pl))]

\* apply_periodicity_to_flowsol: elt_mask starts all true and is set false
\* on the referenced ids, so the cartesian vectors (rotation only) of every
\* vertex NOT in vtx_pl are transformed
apply_periodicity_to_flowsol(Z, vtx_pl, periodic) ==
  [Z EXCEPT !.fs = [v \in DOMAIN @ |->
                      IF v \in ToSet(vtx_pl) THEN @[v]
                      ELSE [@[v] EXCEPT !.vel = Transform(@, periodic)]]]

-----------------------------------------------------------------------------
(* Connectivity editor.                                                    *)

\* mutant: the element position taken as the global id minus the offset,
\* without the +1
update_elt_vtx_numbering_shifted(Z, old_to_new_vtx, k, pl) ==
  [Z EXCEPT !.elts[k] =
     [i \in DOMAIN @ |->
        IF i + Z.er[k][1] \in pl
        THEN [@[i] EXCEPT !.vtx = Renum(old_to_new_vtx, @)]
        ELSE @[i]]]

\* update_elt_vtx_numbering: the elements of kind k whose global id is in
\* the set pl get their vertices renumbered through old_to_new_vtx
update_elt_vtx_numbering(Z, old_to_new_vtx, k, pl) ==
  [Z EXCEPT !.elts[k] =
     [i \in DOMAIN @ |->
        IF i + Z.er[k][1] - 1 \in pl
        THEN [@[i] EXCEPT !.vtx = Renum(old_to_new_vtx, @)]
        ELSE @[i]]]

\* update_elt_vtx_numbering without elt_pl, on all three kinds
renumber_all(Z, old_to_new_vtx) ==
  [Z EXCEPT !.elts = [k \in KINDS |->
     [i \in DOMAIN @[k] |-> [@[k][i] EXCEPT !.vtx = Renum(old_to_new_vtx, @)]]]]

\* mutant: the ElementRanges shifted, the BC PointLists forgotten
update_infdim_elts_ranges_only(Z, elt_dim, offset) ==
  [Z EXCEPT !.er = [k \in KINDS |-> IF Dimension[k] < elt_dim
                                    THEN <<Z.er[k][1] + offset, Z.er[k][2] + offset>>
                                    ELSE Z.er[k]]]

\* update_infdim_elts: every kind of lower dimension has its ElementRange,
\* and the PointList of every BC located on it, shifted by offset
update_infdim_elts(Z, elt_dim, offset) ==
  LET lower == {k \in KINDS : Dimension[k] < elt_dim}
      locs  == {CGNS_TO_LOC[k] : k \in lower}
  IN  [Z EXCEPT
        !.er  = [k \in KINDS |-> IF k \in lower
                                 THEN <<Z.er[k][1] + offset, Z.er[k][2] + offset>>
                                 ELSE Z.er[k]],
        !.bcs = [i \in DOMAIN Z.bcs |->
                   IF Z.bcs[i].loc \in locs
                   THEN [Z.bcs[i] EXCEPT !.pl = [j \in DOMAIN @ |-> @[j] + offset]]
                   ELSE Z.bcs[i]]]

\* remove_elts_from_pl: deletes the elements, shrinks ElementRange and the
\* distribution by elt_pl.size, compacts the PointList of every BC of the
\* same location (a BC left empty is removed), then shifts the lower kinds.
\* The filter on -1 of the code is a no-op once the removed ids are
\* dropped.  A repeated id makes np.arange too short for the mask: the
\* code raises there.
remove_elts_from_pl(Z, elt_pl, k) ==
  LET off    == Z.er[k][1]
      n_rm   == Len(elt_pl)
      rm     == {p - off + 1 : p \in ToSet(elt_pl)}
      kept   == DOMAIN Z.elts[k] \ rm
      old_to_new_elt(i) == Cardinality({j \in kept : j <= i})
      compact(bc) ==
        LET left == Masked(bc.pl, {j \in DOMAIN bc.pl : bc.pl[j] \notin ToSet(elt_pl)})
        IN  [bc EXCEPT !.pl = [j \in DOMAIN left |->
                                 old_to_new_elt(left[j] - off + 1) + off - 1]]
      bcs1   == [i \in DOMAIN Z.bcs |->
                   IF Z.bcs[i].loc = CGNS_TO_LOC[k] THEN compact(Z.bcs[i])
                                                    ELSE Z.bcs[i]]
      empty(bc) == bc.loc = CGNS_TO_LOC[k] /\ bc.pl = <<>>
      Z1     == [Z EXCEPT !.elts[k]    = Masked(@, kept),
                          !.er[k][2]   = @ - n_rm,
                          !.edistri[k] = @ - n_rm,
                          !.bcs        = SelectSeq(bcs1, LAMBDA bc : ~empty(bc))]
  IN  Checked(Cardinality(rm) = n_rm /\ rm \subseteq DOMAIN Z.elts[k],
              "remove_elts_from_pl: repeated or out-of-range id",
              update_infdim_elts(Z1, Dimension[k], -n_rm))

\* update_vtx_bnds: Vertex BCs, and PointList/PointListDonor of the Vertex
\* GCs, renumbered; the code asserts some entry is not -1
update_vtx_bnds(Z, old_to_new_vtx) ==
  LET take(pl) == Renum(old_to_new_vtx, pl)
      ok(pl)   == \E j \in DOMAIN pl : old_to_new_vtx[pl[j]] # -1
      ok_all == /\ \A i \in DOMAIN Z.bcs : Z.bcs[i].loc = "Vertex" => ok(Z.bcs[i].pl)
                /\ \A i \in DOMAIN Z.gcs : ok(Z.gcs[i].pl) /\ ok(Z.gcs[i].pld)
  IN  Checked(ok_all, "update_vtx_bnds: assert (pl!=-1).any()",
         [Z EXCEPT
           !.bcs = [i \in DOMAIN Z.bcs |->
                      IF Z.bcs[i].loc = "Vertex"
                      THEN [Z.bcs[i] EXCEPT !.pl = take(@)] ELSE Z.bcs[i]],
           !.gcs = [i \in DOMAIN Z.gcs |->
                      [Z.gcs[i] EXCEPT !.pl = take(@), !.pld = take(@)]]])

\* mutant: the vertices of the two BCs paired in sorted order, as if
\* both BCs listed matching vertices at the same rank
merge_map_by_rank(Z, bc_names, vtx_tag, old_to_new_vtx_num) ==
  LET pbc1_vtx_pl == elmt_pl_to_vtx_pl(Z, Bc(Z, bc_names[1]).pl,
                                       LOC_TO_CGNS[Bc(Z, bc_names[1]).loc])
      pbc2_vtx_pl == elmt_pl_to_vtx_pl(Z, Bc(Z, bc_names[2]).pl,
                                       LOC_TO_CGNS[Bc(Z, bc_names[2]).loc])
      src_set     == ToSet(pbc2_vtx_pl)
      compacted(v) == IF v \in src_set THEN -1
                      ELSE v - Cardinality({s \in src_set : s < v})
  IN  [v \in 1..Z.nVtx |->
         IF v \in src_set
         THEN compacted(pbc1_vtx_pl[CHOOSE i \in DOMAIN pbc2_vtx_pl : pbc2_vtx_pl[i] = v])
         ELSE compacted(v)]

\* merge_periodic_bc, first part: the vertex contraction old_to_new_vtx it
\* computes and returns.  Each vertex of the first BC is looked up by its
\* tag in old_vtx_num, its partner in new_vtx_num is looked up among the
\* tags of the second BC's vertices (two double searchsorted, with no check
\* that the value found is the one searched), giving sources (vertices of
\* the second BC) and targets (vertices of the first BC).  Sources are
\* numbered out and then sent to the new number of their target.
merge_map(Z, bc_names, vtx_tag, old_to_new_vtx_num) ==
  LET pbc1        == Bc(Z, bc_names[1])
      pbc1_vtx_pl == elmt_pl_to_vtx_pl(Z, pbc1.pl, LOC_TO_CGNS[pbc1.loc])
      pbc2        == Bc(Z, bc_names[2])
      pbc2_vtx_pl == elmt_pl_to_vtx_pl(Z, pbc2.pl, LOC_TO_CGNS[pbc2.loc])
      old_vtx_num == old_to_new_vtx_num[1]
      new_vtx_num == old_to_new_vtx_num[2]
      pl1_tag     == [i \in DOMAIN pbc1_vtx_pl |-> vtx_tag[pbc1_vtx_pl[i]]]
      pl2_tag     == [i \in DOMAIN pbc2_vtx_pl |-> vtx_tag[pbc2_vtx_pl[i]]]
      in_old(i)   == SearchSorted(old_vtx_num, pl1_tag[i])
      partner(i)  == new_vtx_num[ArgSortAt(old_vtx_num, in_old(i))]
      in_pl2(i)   == SearchSorted(pl2_tag, partner(i))
      bounds_ok   == \A i \in DOMAIN pbc1_vtx_pl :
                       in_old(i) < Len(old_vtx_num) /\ in_pl2(i) < Len(pl2_tag)
      sources     == [i \in DOMAIN pbc1_vtx_pl |->
                        pbc2_vtx_pl[ArgSortAt(pl2_tag, in_pl2(i))]]
      targets     == pbc1_vtx_pl
      src_set     == ToSet(sources)
      compacted(v) == IF v \in src_set THEN -1
                      ELSE v - Cardinality({s \in src_set : s < v})
      last_src(v) == CHOOSE i \in DOMAIN sources :
                       sources[i] = v /\ \A j \in DOMAIN sources : sources[j] = v => j <= i
  IN  Checked(bounds_ok, "merge_periodic_bc: searchsorted index out of bounds",
      Checked(Cardinality(src_set) = Len(sources),
              "merge_periodic_bc: np.arange size mismatch",
              [v \in 1..Z.nVtx |-> IF v \in src_set THEN compacted(targets[last_src(v)])
                                                     ELSE compacted(v)]))

\* mutant: keep_original ignored, the first BC always kept
merge_periodic_bc_keeping(Z, bc_names, vtx_tag, old_to_new_vtx_num, keep_original) ==
  LET pbc2        == Bc(Z, bc_names[2])
      k2          == LOC_TO_CGNS[pbc2.loc]
      pbc2_vtx_pl == elmt_pl_to_vtx_pl(Z, pbc2.pl, k2)
      old_to_new  == merge_map(Z, bc_names, vtx_tag, old_to_new_vtx_num)
      Z2 == remove_elts_from_pl(Z, pbc2.pl, k2)
      Z3 == remove_vtx(renumber_all(Z2, old_to_new), pbc2_vtx_pl)
      Z4 == remove_flowsol_elts(update_vtx_bnds(Z3, old_to_new), pbc2_vtx_pl)
  IN  [Z4 EXCEPT !.vdistri = @ - Len(pbc2_vtx_pl)]

\* merge_periodic_bc: removes the elements of the second BC (and of the
\* first unless keep_original), renumbers every kind through the
\* contraction, deletes the second BC's vertices, coordinates and
\* flow-solution rows, renumbers Vertex BCs and GCs, updates the Vertex
\* distribution.  The elements of the first BC are removed as the kind of
\* the second BC's location.
merge_periodic_bc(Z, bc_names, vtx_tag, old_to_new_vtx_num, keep_original) ==
  LET pbc1        == Bc(Z, bc_names[1])
      pbc2        == Bc(Z, bc_names[2])
      k2          == LOC_TO_CGNS[pbc2.loc]
      pbc2_vtx_pl == elmt_pl_to_vtx_pl(Z, pbc2.pl, k2)
      old_to_new  == merge_map(Z, bc_names, vtx_tag, old_to_new_vtx_num)
      Z1 == IF keep_original THEN Z ELSE remove_elts_from_pl(Z, pbc1.pl, k2)
      Z2 == remove_elts_from_pl(Z1, Bc(Z1, bc_names[2]).pl, k2)
      Z3 == remove_vtx(renumber_all(Z2, old_to_new), pbc2_vtx_pl)
      Z4 == remove_flowsol_elts(update_vtx_bnds(Z3, old_to_new), pbc2_vtx_pl)
  IN  [Z4 EXCEPT !.vdistri = @ - Len(pbc2_vtx_pl)]

\* mutant: np.arange one short for the new vertex numbers
dup_vtx_num_short(Z, elt_pl, elt_name) ==
  LET elt_vtx_pl == elmt_pl_to_vtx_pl(Z, elt_pl, elt_name)
  IN  <<elt_vtx_pl, [i \in 1..Len(elt_vtx_pl) - 1 |-> Z.nVtx + i]>>

\* duplicate_elts, the vertex numbering it returns: the vertices of the
\* duplicated elements and their copies
dup_vtx_num(Z, elt_pl, elt_name) ==
  LET elt_vtx_pl == elmt_pl_to_vtx_pl(Z, elt_pl, elt_name)
  IN  <<elt_vtx_pl, [i \in DOMAIN elt_vtx_pl |-> Z.nVtx + i]>>

\* duplicate_elts.  elt_duplicate_bcs is the list of [kept BC, new name]
\* pairs of its only key 'BAR_2'.  The caller always gives as_bc.
duplicate_elts(Z, elt_pl, elt_name, as_bc, elts_to_update, elt_duplicate_bcs) ==
  LET n_elt       == Len(Z.elts[elt_name])
      elt_offset  == Z.er[elt_name][1]
      n_vtx       == Z.nVtx
      new_vtx_num == dup_vtx_num(Z, elt_pl, elt_name)
      n_vtx_to_add == Len(new_vtx_num[1])
      old_to_new_vtx == [v \in 1..n_vtx |->
                           IF \E i \in DOMAIN new_vtx_num[1] : new_vtx_num[1][i] = v
                           THEN n_vtx + CHOOSE i \in DOMAIN new_vtx_num[1] : new_vtx_num[1][i] = v
                           ELSE v]
      n_elt_to_add == Len(elt_pl)
      copies == [i \in 1..n_elt_to_add |->
                   [vtx |-> Renum(old_to_new_vtx, Conn(Z, elt_name, elt_pl[i])),
                    id  |-> Z.nextId + i - 1]]
      \* > Add duplicated vertex and elements
      Z1 == duplicate_flowsol_elts(duplicate_vtx(Z, new_vtx_num[1]), new_vtx_num[1])
      Z2 == [Z1 EXCEPT !.vdistri           = @ + n_vtx_to_add,
                       !.elts[elt_name]    = @ \o copies,
                       !.er[elt_name][2]   = @ + n_elt_to_add,
                       !.edistri[elt_name] = @ + n_elt_to_add,
                       !.nextId            = @ + n_elt_to_add]
      Z3 == update_infdim_elts(Z2, Dimension[elt_name], n_elt_to_add)
      \* > Create associated BC
      Z4 == [Z3 EXCEPT !.bcs = Append(@,
              [name |-> as_bc, loc |-> CGNS_TO_LOC[elt_name], fam |-> "PERIODIC",
               pl |-> [i \in 1..n_elt_to_add |-> n_elt + i - 1 + elt_offset]])]
      \* > Duplicate twin BCs (BAR_2)
      twins    == [j \in DOMAIN elt_duplicate_bcs |-> Bc(Z4, elt_duplicate_bcs[j][1])]
      bar_n    == Len(Z4.elts["BAR_2"])
      bar_off  == Z4.er["BAR_2"][1]
      start(j) == bar_n + Len(FlattenSeq([i \in 1..(j-1) |-> twins[i].pl]))
      new_ec   == FlattenSeq([j \in DOMAIN twins |->
                    [i \in DOMAIN twins[j].pl |->
                       Renum(old_to_new_vtx, Conn(Z4, "BAR_2", twins[j].pl[i]))]])
      n_new_elt == Len(new_ec)
      new_bcs  == [j \in DOMAIN twins |->
                    [name |-> elt_duplicate_bcs[j][2], loc |-> twins[j].loc,
                     fam |-> twins[j].fam,
                     pl |-> [i \in DOMAIN twins[j].pl |-> start(j) + i - 1 + bar_off]]]
      Z5 == [Z4 EXCEPT !.elts["BAR_2"] = @ \o [i \in 1..n_new_elt |->
                                             [vtx |-> new_ec[i], id |-> Z4.nextId + i - 1]],
                       !.er["BAR_2"][2]   = @ + n_new_elt,
                       !.edistri["BAR_2"] = @ + n_new_elt,
                       !.bcs              = @ \o new_bcs,
                       !.nextId           = @ + n_new_elt]
      \* > Update vtx numbering of elements in patch, except the duplicated
      \*   surface and the kept twin BCs (line ids shifted by n_elt_to_add)
      bc_line_pl == UNION {ToSet(twins[j].pl) : j \in DOMAIN twins}
      face_pl == ToSet(elts_to_update["TRI_3"]) \ ToSet(elt_pl)
      line_pl == {p + n_elt_to_add : p \in ToSet(elts_to_update["BAR_2"])} \ bc_line_pl
      Z6 == update_elt_vtx_numbering(Z5, old_to_new_vtx, "TETRA_4",
                                     ToSet(elts_to_update["TETRA_4"]))
      Z7 == update_elt_vtx_numbering(Z6, old_to_new_vtx, "TRI_3", face_pl)
  IN  update_elt_vtx_numbering(Z7, old_to_new_vtx, "BAR_2", line_pl)

\* find_matching_bcs: the BCs located on kind k lying inside src_pl and
\* inside tgt_pl; a [tgt, src] pair is appended for every src BC whose
\* vertices, sent through src_tgt_vtx, are all vertices of the tgt BC
\* (np.isin on the flattened connectivities: vertex containment, not
\* element containment), every match kept
find_matching_bcs(Z, src_pl, tgt_pl, src_tgt_vtx, k) ==
  LET on_k(side) == SelectSeq(Z.bcs, LAMBDA bc : bc.loc = CGNS_TO_LOC[k]
                                              /\ ToSet(bc.pl) \subseteq ToSet(side))
      srcs == on_k(src_pl)
      tgts == on_k(tgt_pl)
      old_to_new_vtx(v) ==
        IF \E i \in DOMAIN src_tgt_vtx[1] : src_tgt_vtx[1][i] = v
        THEN src_tgt_vtx[2][CHOOSE i \in DOMAIN src_tgt_vtx[1] :
                              src_tgt_vtx[1][i] = v
                              /\ \A j \in DOMAIN src_tgt_vtx[1] : src_tgt_vtx[1][j] = v => j <= i]
        ELSE v
      vtx_of(bc) == UNION {ToSet(Conn(Z, k, p)) : p \in ToSet(bc.pl)}
      as_tgt(bc) == {old_to_new_vtx(v) : v \in vtx_of(bc)}
  IN  FlattenSeq([i \in DOMAIN srcs |->
        LET hits == SelectSeq(tgts, LAMBDA t : as_tgt(srcs[i]) \subseteq
                                               {old_to_new_vtx(v) : v \in vtx_of(t)})
        IN  [j \in DOMAIN hits |-> <<hits[j].name, srcs[i].name>>]])

\* add_undefined_faces, the faces it creates: for each cell of elt_pl with
\* exactly three vertices outside vtx_pl, the face of those three vertices
\* (the last two swapped when they are the local vertices 1,2,3 or 1,3,4).
\* The connectivity of the selected cells is read at index elt_pl-1, as if
\* TETRA_4 started at 1.  A face is kept unless it has the vertex set of
\* another candidate or of a face of a FaceCenter BC; np.concatenate of no
\* BC connectivity raises.
UndefinedFaces(Z, elt_pl, vtx_pl) ==
  LET cell(p)   == Z.elts["TETRA_4"][p].vtx
      outside(t) == SelectSeq(<<1, 2, 3, 4>>, LAMBDA j : t[j] \notin ToSet(vtx_pl))
      sel       == SelectSeq(elt_pl, LAMBDA p :
                     Len(outside(Conn(Z, "TETRA_4", p))) = 3)
      face(t)   == LET o == outside(t)
                       f == [j \in 1..3 |-> t[o[j]]]
                   IN  IF o \in {<<1, 2, 3>>, <<1, 3, 4>>} THEN <<f[1], f[3], f[2]>> ELSE f
      cand      == [i \in DOMAIN sel |-> face(cell(sel[i]))]
      face_bcs  == SelectSeq(Z.bcs, LAMBDA bc : bc.loc = "FaceCenter")
      bc_ec     == FlattenSeq([i \in DOMAIN face_bcs |->
                     [j \in DOMAIN face_bcs[i].pl |-> Conn(Z, "TRI_3", face_bcs[i].pl[j])]])
  IN  Checked(face_bcs # <<>>, "add_undefined_faces: np.concatenate of no BC",
              Masked(cand, DOMAIN cand \ Duplicated(cand \o bc_ec)))

\* add_undefined_faces: the faces appended to TRI_3 and the ids it returns,
\* arange(er[1], er[1]+n) + the TETRA_4 offset
add_undefined_faces(Z, elt_pl, vtx_pl) ==
  LET faces == UndefinedFaces(Z, elt_pl, vtx_pl)
      n     == Len(faces)
      Z1    == [Z EXCEPT !.elts["TRI_3"]    = @ \o [i \in 1..n |->
                                                [vtx |-> faces[i], id |-> Z.nextId + i - 1]],
                         !.er["TRI_3"][2]   = @ + n,
                         !.edistri["TRI_3"] = @ + n,
                         !.nextId           = @ + n]
  IN  <<update_infdim_elts(Z1, Dimension["TRI_3"], n),
        [i \in 1..n |-> Z.er["TRI_3"][2] + i - 1 + Z.er["TETRA_4"][1]]>>

\* convert_vtx_gcs_as_face_bcs: for each GC of each pairing, the TRI_3
\* faces with all vertices in its PointList, minus the faces already in a
\* FaceCenter BC (that list is taken once, before the loop), become a new
\* FaceCenter BC of family GCS named after the GC, when not empty
convert_vtx_gcs_as_face_bcs(Z, gc_names) ==
  LET face_bc_pls == UNION {ToSet(Z.bcs[i].pl) :
                             i \in {j \in DOMAIN Z.bcs : Z.bcs[j].loc = "FaceCenter"}}
      gc_bc(g)    == Sorted({p \in ElementIds(Z, "TRI_3") :
                                ToSet(Conn(Z, "TRI_3", p)) \subseteq ToSet(Gc(Z, g).pl)}
                            \ face_bc_pls)
      made        == SelectSeq([i \in DOMAIN gc_names |->
                        [name |-> gc_names[i], loc |-> "FaceCenter", fam |-> "GCS",
                         pl |-> gc_bc(gc_names[i])]], LAMBDA bc : bc.pl # <<>>)
  IN  Checked(face_bc_pls # {}, "convert_vtx_gcs_as_face_bcs: np.concatenate of no BC",
              [Z EXCEPT !.bcs = @ \o made])

\* rm_feflo_added_elt: the feflo BCs are listed first; a CellCenter one is
\* removed, any other has its elements removed, with the PointList its node
\* holds when the loop reaches it.  remove_elts_from_pl drops a BC emptied
\* by an earlier removal without updating its PointList, so such a node
\* still carries its old PointList.
RECURSIVE rm_feflo_loop(_, _)
rm_feflo_loop(Z, todo) ==
  IF todo = <<>> THEN Z
  ELSE LET bc      == Head(todo)
           Z1      == IF bc.loc = "CellCenter"
                      THEN [Z EXCEPT !.bcs = Deleted(@, {BcIdx(Z, bc.name)})]
                      ELSE remove_elts_from_pl(Z, bc.pl, LOC_TO_CGNS[bc.loc])
           held(b) == IF HasBc(Z1, b.name) THEN [b EXCEPT !.pl = Bc(Z1, b.name).pl] ELSE b
       IN  rm_feflo_loop(Z1, [i \in DOMAIN Tail(todo) |-> held(Tail(todo)[i])])

rm_feflo_added_elt(Z, feflo_names) ==
  rm_feflo_loop(Z, SelectSeq(Z.bcs, LAMBDA bc : bc.name \in feflo_names))

=============================================================================
