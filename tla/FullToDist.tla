----------------------------- MODULE FullToDist -----------------------------
(***************************************************************************)
(* distribute_tree (factory/full_to_dist.py) run on every rank: each rank  *)
(* copies the full zone and keeps its uniform slice of every array, with   *)
(* a :CGNS#Distribution node on the zone, the element sections and the    *)
(* subset nodes; add_distribution_info and clean_distribution_info        *)
(* (io/distribution_tree.py) compute and remove those distribution nodes  *)
(* on a tree read from a file.                                             *)
(*                                                                         *)
(* A full zone is [nVtx, nCell, elts, subs].  An element section is        *)
(* [name, kind, conn] with conn the connectivity of each element.  A      *)
(* subset node (BC, GC, FlowSolution or ZoneSubRegion) is [name, label,  *)
(* loc, kind, pts, data, child, link]: kind "pl" (a PointList pts), "pr1" *)
(* or "pr2" (a PointRange of the ids pts, of one or two dimensions), or   *)
(* "none"; data the positions 1..n of its DataArrays (<<>> if none);     *)
(* child at most one BCDataSet of the same shape; link the index of the  *)
(* BC a ZoneSubRegion refers to by BCRegionName (0 if none).  Array      *)
(* values are their positions, so a slice shows which entries it kept.   *)
(***************************************************************************)
EXTENDS Integers, Sequences, SequencesExt, TLC

CONSTANTS NRanks,   \* size of the communicator
          Zones     \* set of full zones

Ranks == 0 .. NRanks - 1
NONE == <<>>        \* a rank that has not built its dist zone yet
NoDistri == [x \in {} |-> 0]

VARIABLES zone,     \* the full zone, known to every rank
          dist,     \* [Ranks -> dist zone or NONE]
          loaded,   \* [Ranks -> distribution nodes add_distribution_info computes, or NONE]
          fpc       \* [Ranks -> {"start", "dist", "info", "clean"}]

fvars == <<zone, dist, loaded, fpc>>

\* par_utils.uniform_distribution(n, comm) on rank r, by its contract:
\* <<start, end, n>>, the first n % NRanks ranks holding one more
uniform_distribution(n, r) ==
  LET step == n \div NRanks
      rem  == n % NRanks
      inf  == IF r < rem THEN r * (step + 1) ELSE r * step + rem
  IN  <<inf, inf + step + (IF r < rem THEN 1 ELSE 0), n>>

\* numpy a[d[1]:d[2]]
Slice(s, d) == IF s = <<>> THEN <<>> ELSE SubSeq(s, d[1] + 1, d[2])

\* PT.Subset.n_elem: the size of the PointList, or the product of the
\* PointRange extents (a 2-d range is pts x 2)
NElem(n) == IF n.kind = "pr2" THEN 2 * Len(n.pts) ELSE Len(n.pts)

HasSubset(n) == n.kind # "none"

\* PT.Element.NVtx of the standard kinds
NVtx == [k \in {"BAR_2", "TRI_3"} |-> IF k = "BAR_2" THEN 2 ELSE 3]

\* ElementStartOffset of a section: eso[i] is the offset of element i
ESO(conn) == [i \in 1 .. Len(conn) + 1 |->
                FoldSeq(+, 0, [j \in 1 .. i - 1 |-> Len(conn[j])])]

\* distribute_pl_node: PointList and PointListDonor (IndexArray_t), the
\* DataArrays of the node and of its BCDataSets without PointList are
\* sliced by the uniform distribution of the node's size; a BCDataSet with
\* its own PointList is distributed by the same function; the Index
\* distribution is added.  A PointRange is kept whole.
\* [mutant] a BCDataSet with its own PointList is sliced like one without
distribute_pl_node_no_recursion(n, r) ==
  LET d == uniform_distribution(NElem(n), r) IN
  [n EXCEPT !.pts    = IF n.kind = "pl" THEN Slice(@, d) ELSE @,
            !.data   = Slice(@, d),
            !.child  = [i \in DOMAIN n.child |-> [n.child[i] EXCEPT !.data = Slice(@, d)]],
            !.distri = "Index" :> d]

RECURSIVE distribute_pl_node(_, _)
distribute_pl_node(n, r) ==
  LET d == uniform_distribution(NElem(n), r) IN
  [n EXCEPT !.pts    = IF n.kind = "pl" THEN Slice(@, d) ELSE @,
            !.data   = Slice(@, d),
            !.child  = [i \in DOMAIN n.child |->
                          IF HasSubset(n.child[i]) THEN distribute_pl_node(n.child[i], r)
                          ELSE [n.child[i] EXCEPT !.data = Slice(@, d)]],
            !.distri = "Index" :> d]

\* distribute_data_node: each DataArray sliced by its own size
distribute_data_node(n, r) ==
  [n EXCEPT !.data = Slice(@, uniform_distribution(Len(@), r)), !.distri = NoDistri]

\* [mutant] the ESO slice stops one offset early, eso[d0:d1]
ngon_eso_slice_short(eso, d) == SubSeq(eso, d[1] + 1, d[2])

\* eso[d0:d1+1]: the offsets of the rank's elements and the one closing them
ngon_eso_slice(eso, d) == SubSeq(eso, d[1] + 1, d[2] + 1)

\* distribute_element_node: an NGON section keeps ec[eso[d0]:eso[d1]] and
\* eso[d0:d1+1], with the ElementConnectivity distribution
\* eso[[d0, d1, -1]]; a standard section keeps ec[nv*d0:nv*d1]
distribute_element_node(e, r) ==
  LET n == Len(e.conn)
      d == uniform_distribution(n, r)
      ec == FlattenSeq(e.conn)
      eso == ESO(e.conn)
  IN  IF e.kind = "NGON_n"
      THEN LET dec == <<eso[d[1] + 1], eso[d[2] + 1], eso[n + 1]>> IN
           [name |-> e.name, kind |-> e.kind, ec |-> SubSeq(ec, dec[1] + 1, dec[2]),
            eso |-> ngon_eso_slice(eso, d),
            distri |-> ("Element" :> d) @@ ("ElementConnectivity" :> dec)]
      ELSE LET nv == NVtx[e.kind] IN
           [name |-> e.name, kind |-> e.kind, ec |-> SubSeq(ec, nv * d[1] + 1, nv * d[2]),
            eso |-> <<>>,
            distri |-> ("Element" :> d) @@ ("ElementConnectivity" :> <<nv * d[1], nv * d[2], nv * d[3]>>)]

\* [mutant] the subregion keeps the distribution computed for it
distribute_subregion_keep_distri(Z, z, r) ==
  IF z.link = 0 THEN distribute_pl_node(z, r)
  ELSE LET b  == distribute_pl_node(Z.subs[z.link], r)
           dz == distribute_pl_node([z EXCEPT !.kind = b.kind, !.pts = b.pts], r)
       IN  [dz EXCEPT !.kind = "none", !.pts = <<>>]

\* the ZoneSubRegion loop: a subregion that names a BC is given the BC's
\* PointList/PointRange as they are in the dist zone at that point (the
\* BCs are already distributed), distributed, and stripped of them and of
\* its distribution
distribute_subregion(Z, z, r) ==
  IF z.link = 0 THEN distribute_pl_node(z, r)
  ELSE LET b  == distribute_pl_node(Z.subs[z.link], r)
           dz == distribute_pl_node([z EXCEPT !.kind = b.kind, !.pts = b.pts], r)
       IN  [dz EXCEPT !.kind = "none", !.pts = <<>>, !.distri = NoDistri]

\* distribute_tree for one zone, on rank r
distribute_tree(Z, r) ==
  [nVtx   |-> Z.nVtx,
   nCell  |-> Z.nCell,
   distri |-> ("Vertex" :> uniform_distribution(Z.nVtx, r))
                @@ ("Cell" :> uniform_distribution(Z.nCell, r)),
   coords |-> Slice([i \in 1 .. Z.nVtx |-> i], uniform_distribution(Z.nVtx, r)),
   elts   |-> [i \in DOMAIN Z.elts |-> distribute_element_node(Z.elts[i], r)],
   subs   |-> [j \in DOMAIN Z.subs |->
                 LET s == Z.subs[j] IN
                 CASE s.label \in {"BC", "GC"} -> distribute_pl_node(s, r)
                   [] s.label = "FS" /\ s.kind # "pl" -> distribute_data_node(s, r)
                   [] s.label = "FS" -> distribute_pl_node(s, r)
                   [] s.label = "ZSR" -> distribute_subregion(Z, s, r)]]

\* compute_plist_or_prange_distribution: an Index distribution of the
\* PointRange size, or of PointList#Size (the global size), if any
plist_or_prange_distribution(n, r) ==
  IF HasSubset(n) THEN "Index" :> uniform_distribution(NElem(n), r) ELSE NoDistri

\* add_distribution_info (compute_zone_distribution) on the zone, then
\* compute_connectivity_distribution on the NGON sections once their ESO
\* slice is read: [eso[0], eso[-1], ElementConnectivity#Size]
add_distribution_info(Z, D, r) ==
  [zone |-> ("Vertex" :> uniform_distribution(Z.nVtx, r))
              @@ ("Cell" :> uniform_distribution(Z.nCell, r)),
   elts |-> [i \in DOMAIN Z.elts |->
               ("Element" :> uniform_distribution(Len(Z.elts[i].conn), r))
               @@ (IF Z.elts[i].kind = "NGON_n"
                   THEN "ElementConnectivity" :>
                          <<D.elts[i].eso[1], D.elts[i].eso[Len(D.elts[i].eso)],
                            Len(FlattenSeq(Z.elts[i].conn))>>
                   ELSE NoDistri)],
   subs |-> [j \in DOMAIN Z.subs |->
               [distri |-> plist_or_prange_distribution(Z.subs[j], r),
                child  |-> [i \in DOMAIN Z.subs[j].child |->
                              plist_or_prange_distribution(Z.subs[j].child[i], r)]]]]

\* [mutant] the BC loop removes the BC's own distribution only (depth=1)
clean_distribution_info_depth1(D) ==
  [D EXCEPT !.distri = NoDistri,
            !.elts = [i \in DOMAIN @ |-> [@[i] EXCEPT !.distri = NoDistri]],
            !.subs = [j \in DOMAIN @ |->
                        [@[j] EXCEPT !.distri = NoDistri,
                                     !.child = IF D.subs[j].label = "BC" THEN @
                                               ELSE [i \in DOMAIN @ |-> [@[i] EXCEPT !.distri = NoDistri]]]]]

\* clean_distribution_info: the zone's distribution, that of every
\* Elements, ZoneSubRegion and FlowSolution node, of every BC and its
\* children (depth=2) and of every GC are removed
clean_distribution_info(D) ==
  [D EXCEPT !.distri = NoDistri,
            !.elts = [i \in DOMAIN @ |-> [@[i] EXCEPT !.distri = NoDistri]],
            !.subs = [j \in DOMAIN @ |->
                        [@[j] EXCEPT !.distri = NoDistri,
                                     !.child = [i \in DOMAIN @ |-> [@[i] EXCEPT !.distri = NoDistri]]]]]

FInit ==
  /\ zone \in Zones
  /\ dist = [r \in Ranks |-> NONE]
  /\ loaded = [r \in Ranks |-> NONE]
  /\ fpc = [r \in Ranks |-> "start"]

\* distribute_tree on rank r
Distribute(r) ==
  /\ fpc[r] = "start"
  /\ dist' = [dist EXCEPT ![r] = distribute_tree(zone, r)]
  /\ fpc' = [fpc EXCEPT ![r] = "dist"]
  /\ UNCHANGED <<zone, loaded>>

\* a rank reading its dist zone back computes its distribution nodes
AddInfo(r) ==
  /\ fpc[r] = "dist"
  /\ loaded' = [loaded EXCEPT ![r] = add_distribution_info(zone, dist[r], r)]
  /\ fpc' = [fpc EXCEPT ![r] = "info"]
  /\ UNCHANGED <<zone, dist>>

\* clean_distribution_info on the rank's dist zone
Clean(r) ==
  /\ fpc[r] = "info"
  /\ dist' = [dist EXCEPT ![r] = clean_distribution_info(dist[r])]
  /\ fpc' = [fpc EXCEPT ![r] = "clean"]
  /\ UNCHANGED <<zone, loaded>>

FNext == \E r \in Ranks : Distribute(r) \/ AddInfo(r) \/ Clean(r)

-----------------------------------------------------------------------------
(* Properties                                                              *)

Built(r) == fpc[r] \in {"dist", "info"}

\* Every rank can read back the elements it holds: for an NGON section,
\* element k of the rank's slice is ec[eso[k] - dec[0] : eso[k+1] - dec[0]]
\* with dec the ElementConnectivity distribution, for a standard section
\* ec[nv*(k-1) : nv*k], and it is the element d0 + k of the full section;
\* once every rank is built, the ranks' EC slices put end to end are the
\* full connectivity.  Off-by-ones of the eso, ec and distribution slices
\* of distribute_element_node, on ranks holding one, several or no
\* elements, break it.
ElementsDistributed ==
  /\ \A r \in Ranks : Built(r) =>
       \A i \in DOMAIN zone.elts :
         LET e   == zone.elts[i]
             de  == dist[r].elts[i]
             d   == de.distri["Element"]
             dec == de.distri["ElementConnectivity"]
         IN  /\ d = uniform_distribution(Len(e.conn), r)
             /\ dec[3] = Len(FlattenSeq(e.conn))
             /\ Len(de.ec) = dec[2] - dec[1]
             /\ IF e.kind = "NGON_n"
                THEN /\ Len(de.eso) = d[2] - d[1] + 1
                     /\ \A k \in 1 .. d[2] - d[1] :
                          SubSeq(de.ec, de.eso[k] - dec[1] + 1, de.eso[k + 1] - dec[1])
                            = e.conn[d[1] + k]
                ELSE \A k \in 1 .. d[2] - d[1] :
                       SubSeq(de.ec, NVtx[e.kind] * (k - 1) + 1, NVtx[e.kind] * k)
                         = e.conn[d[1] + k]
  /\ (\A r \in Ranks : Built(r)) =>
       \A i \in DOMAIN zone.elts :
         FlattenSeq([q \in 1 .. NRanks |-> dist[q - 1].elts[i].ec]) = FlattenSeq(zone.elts[i].conn)

\* the positions of the rank's slice of a subset node of n points
Positions(d) == [k \in 1 .. d[2] - d[1] |-> d[1] + k]

\* the slice of a subset node on a rank holds the points of its Index
\* distribution and the DataArray values of the same positions
SliceAligned(s, ds) ==
  LET d == ds.distri["Index"] IN
  /\ "Index" \in DOMAIN ds.distri
  /\ s.kind = "pl" => ds.pts = [k \in 1 .. d[2] - d[1] |-> s.pts[d[1] + k]]
  /\ s.data # <<>> => ds.data = Positions(d)

\* the subset nodes distribute_pl_node handles with their own PointList
\* or PointRange
PlNode(s) == HasSubset(s) /\ s.link = 0 /\ ~(s.label = "FS" /\ s.kind # "pl")

\* Once a rank is built, every BC, GC, PointList FlowSolution and
\* ZoneSubRegion of its own holds, on the rank, its PointList slice and
\* the DataArray values of the same positions, and so does each
\* BCDataSet with a PointList of its own, while a BCDataSet without one
\* holds the positions of its BC's slice; once every rank is built, the
\* PointList slices end to end are the full PointList.  It fails if a
\* DataArray or a BCDataSet is sliced with another distribution than the
\* points it is aligned with.
SubsetsAligned ==
  /\ \A r \in Ranks : Built(r) =>
       \A j \in DOMAIN zone.subs :
         LET s == zone.subs[j]
             ds == dist[r].subs[j]
         IN  PlNode(s) =>
               /\ SliceAligned(s, ds)
               /\ \A i \in DOMAIN s.child :
                    IF HasSubset(s.child[i]) THEN SliceAligned(s.child[i], ds.child[i])
                    ELSE ds.child[i].data = Positions(ds.distri["Index"])
  /\ (\A r \in Ranks : Built(r)) =>
       \A j \in DOMAIN zone.subs :
         PlNode(zone.subs[j]) /\ zone.subs[j].kind = "pl" =>
           FlattenSeq([q \in 1 .. NRanks |-> dist[q - 1].subs[j].pts]) = zone.subs[j].pts

\* The distribution nodes a rank computes when it reads its dist zone back
\* (add_distribution_info from the global sizes, then
\* compute_connectivity_distribution from its ESO slice) are those
\* distribute_tree wrote: the same Vertex and Cell distributions, the same
\* Element and NGON ElementConnectivity distributions, an Index
\* distribution on exactly the subset nodes and BCDataSets with a
\* PointList or PointRange, with the same bounds.
DistributionsAgree ==
  \A r \in Ranks : fpc[r] = "info" =>
    LET D == dist[r]
        L == loaded[r]
    IN  /\ D.distri = L.zone
        /\ \A i \in DOMAIN D.elts :
             \A k \in DOMAIN L.elts[i] : k \in DOMAIN D.elts[i].distri /\ D.elts[i].distri[k] = L.elts[i][k]
        /\ \A j \in DOMAIN D.subs :
             /\ D.subs[j].distri = L.subs[j].distri
             /\ \A i \in DOMAIN D.subs[j].child : D.subs[j].child[i].distri = L.subs[j].child[i]

\* Once clean_distribution_info has run on a rank, no :CGNS#Distribution
\* node is left anywhere in its zone, BCDataSets included, so that the
\* tree written next carries none of them.
CleanRemovesAll ==
  \A r \in Ranks : fpc[r] = "clean" =>
    /\ dist[r].distri = NoDistri
    /\ \A i \in DOMAIN dist[r].elts : dist[r].elts[i].distri = NoDistri
    /\ \A j \in DOMAIN dist[r].subs :
         /\ dist[r].subs[j].distri = NoDistri
         /\ \A i \in DOMAIN dist[r].subs[j].child : dist[r].subs[j].child[i].distri = NoDistri
=============================================================================
