---------------------------- MODULE IndexExchange ----------------------------
(***************************************************************************)
(* dist_pl_to_part_pl (transfer/dist_to_part/index_exchange.py): the       *)
(* PointLists of the dist zone's subset nodes are collected in one loop    *)
(* (collect_distributed_pl), sent as numbered groups to the partitions    *)
(* (PDM.part_distgroup_to_partgroup), and written back onto the part zone *)
(* by a second loop (create_part_pointlists) that finds group i_pl again  *)
(* by walking the same nodes.                                             *)
(*                                                                         *)
(* The dist zone is the one distribute_tree (module FullToDist) builds on *)
(* every rank from a full zone: each rank holds its slice of a BC's       *)
(* PointList, or the whole 1-d PointRange with its Index distribution.    *)
(* The exchange runs once every rank holds its dist zone, and before the *)
(* distribution nodes are cleaned.  A part zone is its ln_to_gn, local   *)
(* id -> global id.                                                       *)
(***************************************************************************)
EXTENDS FullToDist

CONSTANTS Inputs    \* set of [entity, ln_to_gn]

VARIABLES entity, ln_to_gn, p_nodes, pc

vars == <<entity, ln_to_gn, p_nodes, pc, zone, dist, loaded, fpc>>

\* the GridLocations kept for an entity
filter_loc(e) ==
  IF e = "Elements" THEN {"EdgeCenter", "FaceCenter", "CellCenter"} ELSE {"Vertex"}

\* `pl_n or (pr_n and 1-d pr_n)`: the nodes that own a group
HasPl(n) == n.kind \in {"pl", "pr1"}

\* the nodes of the query ZoneBC_t/BC_t in a dist zone, in child order
nodes(D) == SelectSeq(D.subs, LAMBDA n : n.label = "BC")

\* py_utils.single_dim_pr_to_pl(pr, distrib): arange(pr[0]+start, pr[0]+end)
single_dim_pr_to_pl(n, d) == {n.pts[1] + i : i \in d[1] .. d[2] - 1}

\* collect_distributed_pl on a rank's dist zone: the nodes of the kept
\* locations that own a group, in iteration order
collect_distributed_pl(D) ==
  SelectSeq(nodes(D), LAMBDA n : n.loc \in filter_loc(entity) /\ HasPl(n))

\* what rank r appends to point_lists for group k: its PointList slice,
\* or the ids of its Index slice of the PointRange
RankPl(k, r) ==
  LET n == collect_distributed_pl(dist[r])[k] IN
  IF n.kind = "pl" THEN ToSet(n.pts) ELSE single_dim_pr_to_pl(n, n.distri["Index"])

\* part_distgroup_to_partgroup, by its contract: group k on the part is the
\* local ids whose global id lies in group k
p_groups ==
  [k \in DOMAIN collect_distributed_pl(dist[0]) |->
     {i \in DOMAIN ln_to_gn : \E r \in Ranks : ln_to_gn[i] \in RankPl(k, r)}]

\* [mutant] i_pl advances only when the part holds some of the group
RECURSIVE create_part_pointlists_nonempty(_, _, _)
create_part_pointlists_nonempty(ns, i_pl, acc) ==
  IF ns = <<>> THEN acc
  ELSE LET n == Head(ns) IN
       IF n.loc \in filter_loc(entity) /\ HasPl(n) /\ p_groups[i_pl] # {}
       THEN create_part_pointlists_nonempty(Tail(ns), i_pl + 1,
              acc \cup {[name |-> n.name, pl |-> p_groups[i_pl]]})
       ELSE create_part_pointlists_nonempty(Tail(ns), i_pl, acc)

\* create_part_pointlists: the walk over the same nodes; i_pl advances on
\* every node of a kept location that owns a group, and an empty group
\* creates no part node
RECURSIVE create_part_pointlists(_, _, _)
create_part_pointlists(ns, i_pl, acc) ==
  IF ns = <<>> THEN acc
  ELSE LET n == Head(ns) IN
       IF n.loc \in filter_loc(entity) /\ HasPl(n)
       THEN create_part_pointlists(Tail(ns), i_pl + 1,
              IF p_groups[i_pl] # {} THEN acc \cup {[name |-> n.name, pl |-> p_groups[i_pl]]}
                                     ELSE acc)
       ELSE create_part_pointlists(Tail(ns), i_pl, acc)

Init ==
  /\ FInit
  /\ \E in \in Inputs :
       /\ entity = in.entity
       /\ ln_to_gn = in.ln_to_gn
  /\ p_nodes = {}
  /\ pc = "start"

\* dist_pl_to_part_pl for one part zone, once every rank holds its dist
\* zone with its distributions; the walk is over the dist zone's nodes
dist_pl_to_part_pl ==
  /\ pc = "start"
  /\ \A r \in Ranks : Built(r)
  /\ p_nodes' = create_part_pointlists(nodes(dist[0]), 1, {})
  /\ pc' = "done"
  /\ UNCHANGED <<entity, ln_to_gn, zone, dist, loaded, fpc>>

\* the steps of FullToDist; the distribution nodes are cleaned once the
\* exchange has read them
DistStep ==
  /\ \E r \in Ranks : Distribute(r) \/ AddInfo(r) \/ (pc = "done" /\ Clean(r))
  /\ UNCHANGED <<entity, ln_to_gn, p_nodes, pc>>

Terminated == pc = "done" /\ (\A r \in Ranks : fpc[r] = "clean") /\ UNCHANGED vars

Next == DistStep \/ dist_pl_to_part_pl \/ Terminated

Spec == Init /\ [][Next]_vars

-----------------------------------------------------------------------------
(* Properties                                                              *)

\* The global ids a dist node's PointList or 1-d PointRange stands for.
Ids(n) == ToSet(n.pts)

\* Once the part PointLists are written, the part zone has one subset node
\* per dist node of the entity's locations that owns a PointList or a 1-d
\* PointRange and shares an element with the part, and its PointList is
\* exactly the local ids of that node's elements: the i_pl counter of
\* create_part_pointlists stays in step with the groups collected by
\* collect_distributed_pl, over PointRanges sliced across ranks and nodes
\* skipped by either loop.
PointListsAligned ==
  pc = "done" =>
    p_nodes = {[name |-> n.name, pl |-> {i \in DOMAIN ln_to_gn : ln_to_gn[i] \in Ids(n)}] :
                 n \in {n \in {zone.subs[j] : j \in DOMAIN zone.subs} :
                          /\ n.label = "BC"
                          /\ n.loc \in filter_loc(entity)
                          /\ n.kind \in {"pl", "pr1"}
                          /\ \E i \in DOMAIN ln_to_gn : ln_to_gn[i] \in Ids(n)}}
=============================================================================
