# TLA+ models of maia

This directory holds TLA+ models of parts of maia, checked with TLC. Two
kinds of code are modelled:

- the sequential periodic mesh adaptation of
  `src/maia/algo/dist/adaptation_utils.py` (first part of this document);
- the MPI exchanges between a distributed tree (each rank holds a block of
  every array) and a partitioned tree (each rank holds whole part zones),
  the distribution of a full tree, the partitioning driver and two part
  algorithms (second part, "Parallel exchanges").

## Periodic adaptation

The adaptation cycle has three stages:

- it unrolls a periodic zone;
- it hands the zone to a remesher (feflo);
- it folds the result back onto the original periodic domain.

### The system

The cycle acts on one unstructured zone. The zone holds:

- vertex coordinates and a FlowSolution with vector fields;
- element sections TETRA_4, TRI_3 and BAR_2, with contiguous id ranges in dimension order;
- face, edge and cell BCs that refer to elements by id;
- vertex GridConnectivities (GCs) that pair the vertices of the two periodic sides.

The code works in three layers.

1. **Primitives** (lines 15-463) edit the zone in place. They duplicate,
   remove or transform vertices and flow-solution rows. They renumber
   connectivities, remove elements and shift every later id range and BC
   point list (`remove_elts_from_pl`, `update_infdim_elts`). They also merge
   the two sides of a periodic BC pair (`merge_periodic_bc`, `update_vtx_bnds`).
2. **Composite steps** (lines 466-1030):
   - `duplicate_elts` copies a set of elements and their vertices and creates the twin BCs.
   - `find_matching_bcs` pairs donor edge BCs with their twins.
   - `add_undefined_faces` creates the missing faces of the carved cells.
   - `convert_vtx_gcs_as_face_bcs` turns the GCs into face BCs.
   - `rm_feflo_added_elt` removes what the remesher added.
3. **Orchestrators**:
   - `deplace_periodic_patch` runs blocks 0/ to 5/ for each pairing.
     For each one it carves the cells touching the donor side, duplicates
     them, moves the copy by the periodic transform and glues it onto the
     other side.
   - `retrieve_initial_domain` undoes the pairings in reverse order:
     it duplicates the constraint face, moves the patch back and merges.

### Modules

| module | models | state / actions |
|---|---|---|
| `MeshZone` | the primitives and composite steps | The zone is a record (`nVtx`, `coord`, `fs`, `vdistri`, `elts`, `er`, `edistri`, `bcs`, `gcs`, `nextId`). Each Python function is an operator from zone to zone, named after it. Where the code raises, `Checked` turns the failure into a TLC assertion failure. |
| `PeriodicAdaptation` | both orchestrators | `pc` follows the numbered blocks of the two functions. Each block is one action: `Convert`, `Carve`, `Prune`, `Duplicate`, `Transform4`, `Merge`, `Remeshing`, `RDuplicate`, `RTransform`, `RMerge`, `RmFeflo`. The local variables the blocks share are variables (`i_per`, `cell_pl`, `vtx_pl`, `new_vtx_num`, `new_vtx_nums`, `matching_bcs`, ...). |
| `MCPeriodicAdaptation` | the zones and pairings checked | Prism columns cut into tetrahedra. |

The model keeps the data abstract:

- Coordinates are `<<base, <<k>>>>`, meaning point `base` shifted by `k` periods.
- The periodic transform adds its direction to `k`.
  Geometry is therefore exact, and "the same point" can be decided.
- A vector field row has the same shape, so the model can tell whether a field was rotated.
- `Remesh` stands for the external remesher, which is not under `src/`.
  It is modelled from the spec with four behaviours:
  - leave the mesh alone;
  - renumber every vertex;
  - add a cell BC named `feflo_cells`;
  - add one face and a face BC named `feflo_faces`.

### Runs

| run | cfg | expect | what it shows |
|---|---|---|---|
| `unroll_fold` | `MCPeriodicAdaptation.cfg` | pass | The full cycle runs on 2- and 3-layer columns, with one wall BC or one per layer, both key orders of the pairing (patch carved at the bottom or at the top) and the four remesher behaviours. Results are listed below the table. |
| `flowsol_mask` | `MCFlowsolMask.cfg` | violation | `apply_periodicity_to_flowsol` rotates the vector fields of every vertex except the moved ones (code bug, line 154). |
| `gc_pairing` | `MCGcPairing.cfg` | violation | After the cycle, each GC has PointList = PointListDonor. The merge renumbers the donor side onto the other side, and nothing restores it. |

The `unroll_fold` run checks the following properties:

- `ZoneConsistent`:
  - ranges are contiguous and sizes agree with the distributions;
  - references are in range;
  - BC point lists are free of duplicates;
  - BC names are distinct.
- `MeshConforming`: every triangle is a face of a tetrahedron, every bar is an edge of a triangle, and no vertex is orphaned.
- `GeometryPreserved` (an action property): a surviving element never changes its points, except as a whole in a transform step.
- `RoundTrip`: at the end, the mesh is restored as sets of points per kind, and the original BCs are restored.

Each property of the passing run has a mutant in `PROJECT.json`. Each mutant is a plausible bug in the mapped code, and TLC finds it:

- the arange of the duplicated vertices one short;
- the ranges shifted without shifting the BC lists;
- the connectivity update testing a shifted id;
- `keep_original` ignored;
- the merge pairing vertices by rank instead of by tag.

### Bounds and fairness

Each column is periodic between its bottom and top triangles. The vertex
correspondence is twisted (top vertex 1 lies over bottom vertex 2). This
means:

- the GC point lists are not in matching order;
- a merge that pairs vertices by position is wrong.

Columns of 2 and 3 layers both make the carved patch a strict part of the
zone. The 3-layer column with one wall BC per layer has two kinds of BC:

- BCs that lose all their faces to the carve;
- BCs that lose only some of them.

The two key orders move the patch in opposite directions. They also exercise
both branches of the `pl`/`pld` choice of block 1/. Each run takes about a
second.

The cycle is sequential, with no concurrency and no retries. Every property
is a safety property, so no fairness is assumed. `done` stutters, and the
run checks for deadlock.

## Parallel exchanges

Every function below runs on all ranks of a communicator, and meets the
other ranks in collectives (`allgather`, `Allgather`, ParaDiGM's
`PartToBlock` / `BlockToPart`). Each rank is a process with a `pc`; a
collective is two steps: the rank enters it (publishes its contribution),
and the rank returns from it once every rank has entered. Ranks therefore
interleave freely between collectives, which is what MPI allows. Where
ParaDiGM moves data point to point (`RecoverJns`), messages are a set of
records delivered in any order.

| module | models | state / actions |
|---|---|---|
| `RecoverJns` | `recover_jns` (`tree_exchange/dist_to_part/recover_jn.py`) | A face of a partitioned join is a slot `[rank, part, gc, idx, pl]`. `join_to_ref`, `face_in_join_offset` and `shifted_lntogn` are the numbering shared by the two sides of a join. `jn_to_opp` is computed by `get_matching_joins` (old `partitioning/split_U/part_all_zones.py`) from the joins' `Ordinal` / `OrdinalOpp`. Actions: `Send` (a rank enters PartToBlock with its faces), `Deliver` (one face reaches the rank owning its number), `PartToBlock` (the rank leaves once all faces arrived), `BlockToPart` (the rank reads back the two faces of each number and writes its donor with `OppDonor`), then `ZgcOriginal` (`zgc_original_pdm_to_cgns` of the same file: the join faces of a part are split by opposite part and sorted by the PointList of the side of smaller ordinal; the partitioner's face order is chosen by `\E`). |
| `PartSolToDist` | `part_sol_to_dist_sol` and `discover_partitioned_fields` (`tree_exchange/part_to_dist/data_exchange.py`), `partial_to_full_distribution` (`utils.py`) | Solutions are records `[name, loc, fields]`; a Python dict is a sequence in insertion order (`DictPut`, `DictUpdate`). Actions: `Discover`, `Gathered` (merge, rank order, last wins), `SolStep` (fill `part_data`; a field missing from the dist solution is a `KeyError`), `Exchanged` (the collectives of `part_to_dist`). |
| `Discover` | `discover_nodes_from_matching` (`tree_exchange/part_to_dist/discover.py`), with the tree walker and parsers of `sids/Internal_ext.py` | `Collect` is the loop over the rank's part nodes as it runs: its first iteration looks up `IE.iterNodesWithParentsByMatching`, which `Internal_ext.py` does not define, so a rank holding a part node stops with `AttributeError` (`pc` = "raised"); a rank holding none enters `comm.allgather` with an empty collection. `Merge` is the allgather and the loop creating the missing paths (`merge_gathered`, `AddLeaf`); it returns only once every rank has entered. A dist node is the sequence of its leaves `[path, childs]` in creation order. The walker `getNodesWithParentsByMatching__` over `getNodesDispatch1` (a query naming a CGK label matches labels, any other matches names), and the parsers of `getChildrenFromPredicate` / `requestChildFromPredicate` (`LevelNodesParser_dfs`/`_bfs`, `LevelNodeParser_dfs`/`_bfs`, depth 0 standing for `None`), are pure operators applied to the part nodes of the state. |
| `FullToDist` | `distribute_tree` (`factory/full_to_dist.py`), `add_distribution_info` and `clean_distribution_info` (`io/distribution_tree.py`) | The full zone is `[nVtx, nCell, elts, subs]`; a subset node carries its kind (PointList, 1-d or 2-d PointRange, none), its DataArrays as positions, at most one BCDataSet and a `BCRegionName` link. Per rank: `Distribute` (the rank's uniform slice of every array, recursing into BCDataSets, NGON sections sliced through their ElementStartOffset), `AddInfo`, `Clean`. `uniform_distribution` is outside `src/` and is modelled from its formula. |
| `IndexExchange` | `dist_pl_to_part_pl` (`transfer/dist_to_part/index_exchange.py`), composed with `FullToDist` | `EXTENDS FullToDist`: the dist zones the exchange reads are the ones `distribute_tree` builds, so the exchange (`dist_pl_to_part_pl`) is enabled only once every rank has distributed. The PointLists are collected by one loop (`collect_distributed_pl`) and written back by a second (`create_part_pointlists`) that counts `i_pl` over the same nodes. ParaDiGM's group exchange is modelled by its contract (`p_groups`). |
| `PartitionWeights` | `npart_per_zone` (`factory/partitioning/load_balancing/setup_partition_weights.py`), then `part_U_zones` (`factory/partitioning/split_U/part_all_zones.py`) | Actions: `Allgather` of the requested part counts, `Repart` (cumsum with a leading 0, the rank's slice of the homogeneous split); then per rank `PartInit` (`n_part_per_zone`, `prepare_part_weight`, the `MultiPart`), `Setup` (`set_mpart_dmeshes`, `set_mpart_reordering`), `RunPpart` / `Collect` (the collective run and `collect_mpart_partitions`), `DelMultiPart`, `DelKeepAlive`, `Return`. Objects are `<<kind, i>>`: `locals` and `keep` are what part_U_zones' locals and `keep_alive` refer to, `held` the raw pointers ParaDiGM keeps; `Return` releases the remaining locals in CPython's slot order. `homogeneous_repart` is not in the repository and is modelled from its contract. |
| `PartitionWeightsSeq` | the docstring of `npart_per_zone` | The abstract specification: all partitions numbered one after the other, rank 0's first, and each rank's weights assigned in one step. `PartitionWeights` implements it under a refinement mapping that shows the weights only once every rank has computed them. |
| `Interpolate` | `interpolate_from_part_trees` (`algo/part/interpolate.py`) | Collectives are names appended to a rank's `ops`; a rank returns from its k-th collective once every rank has entered k. Actions follow the code: `Localize`, `Localized`, `Reduced` (allreduce of the unlocated count), `SubNumbered`, `ClosestFound`, `Transformed`, `StartFields` (the interpolator's registered parts and the field list), `Exchanged`. Geometry is abstracted to the number of unlocated points per target part. |
| `ExtractPart` | `extract_part_from_zsr` (`algo/part/extract_part.py`) | Same collective scheme. Actions: `CreateExtractor` (allreduce MAX of the ZSR location), `ExtractorInit`, `Extracted`, `Elected` (the master is the highest rank holding parts), `Broadcast` (its location and field names), `PointListExchanged`, `Numbered`, `FieldExchanged`. A rank's set of fields is iterated in an order of its own (`order`): Python's set order is not the same on every rank. |

### Runs

| run | cfg | expect | what it shows |
|---|---|---|---|
| `recover_jns` | `MCRecoverJns.cfg` | pass | `JoinBlocksPaired`: each block number holds exactly the two faces of one matched pair. `DonorCorrect`: whatever the delivery order, every donor written is the face the join matches. `SubJoinsMatch`: the two sides of a join, split by opposite part in `zgc_original_pdm_to_cgns`, list their faces in the same order with each other's PointList as PointListDonor, whatever order the partitioner gave them. Three scenarios: two joined zones on 2 ranks, with a pair of identical entries; and a zone periodic on itself plus joined, so that gnums are shifted by a previous join; and two joins whose faces the two sides list in crossing orders. |
| `part_sol_to_dist` | `MCPartSolToDist.cfg` | pass | `FieldsReported` when ranks agree on the fields of a new solution; `DistributionsMatch`: the full distribution built from the partial ones is where each rank's block starts. 3 ranks, one without parts. |
| `fields_disagree` | `MCFieldsDisagree.cfg` | violation | Two ranks create the same solution with different fields: the dict update keeps the last rank's list, an earlier rank's field is lost, and that rank then raises `KeyError` alone (code bug, `data_exchange.py:28`). |
| `index_exchange` | `MCIndexExchange.cfg` | pass | `PointListsAligned`: the counter of the second loop stays in step with the groups of the first, over PointLists, 1-d PointRanges sliced across ranks, multi-d PointRanges and nodes of other locations (skipped by both loops), and groups empty on the part. |
| `discover` | `MCDiscover.cfg` | pass | On the part zones of each state: `WalkerMatchesReference`: the walker yields exactly the chains of the nested one-level loops of its docstring, each once. `LevelSearchReference`: the parsers of `getChildrenFromPredicate` (dfs and bfs, depth None and 1 to 3) find, under every part zone, each node within the depth that a query matches, once, and dfs lists them in document order; the depth test is where an off-by-one would bite. `RequestIsFirst`: `requestChildFromPredicate` returns the first node the list parser of the same method and depth finds, and None exactly when it finds none. 3 ranks holding 0 to 2 part zones, name queries (`*/*`) and label queries (`ZoneGridConnectivity_t/GridConnectivity_t`), a `child_list` mixing labels and names. The `discover_nodes_from_matching` steps around them raise on every rank holding a part zone (see the defects below). |
| `index_exchange` (continued) | | | Over the same zones, composed with `distribute_tree`: `ElementsDistributed` (each rank reads back its local elements, and the connectivity slices of all ranks, NGON ones through their ElementStartOffset, concatenate to the full connectivity), `SubsetsAligned` (a subset's DataArrays and its BCDataSet's are sliced like its PointList), `DistributionsAgree` (`add_distribution_info` on the dist zone computes the nodes `distribute_tree` wrote), `CleanRemovesAll`. |
| `partition_weights` | `MCPartitionWeights.cfg` | pass | `ZonesShared`: each rank gets `n_part` weights per zone, a zone's parts cover exactly its cells and differ by at most one cell. `ImplementsSequential`: the MPI computation refines `PartitionWeightsSeq`. `PdmWeightsMatch`: `part_weight` holds each zone's weights at the offset ParaDiGM reads them from. `NoDanglingPdmPointer`: while a MultiPart lives, everything it points to is referenced by a local or by `keep_alive`, also while the frame's locals are released. Deadlock is checked. 3 ranks requesting 0 to 2 parts, zones of 1 and 5 cells, the three reordering kinds. |
| `interpolate` | `MCInterpolate.cfg` | pass | `CollectivesMatch`: all ranks issue the same sequence of collectives. `SlotsAligned`: the interpolator's registered parts line up with the data list. `AllRanksReturn`. 3 ranks, 1 or 2 source parts, 0 or 1 target part with 0 or 1 unlocated point, strategies `Location` and `LocationAndClosest`. |
| `interpolate_raises` | `MCInterpolateRaises.cfg` | violation | `NoRankRaises` fails in two ways. With `strategy='Closest'`, `all_located_inv` is unbound (code bug, `interpolate.py:182`). On a rank holding no source part, `fields_name` is unbound at `interpolate.py:204`, while the other ranks wait in the collective exchange. |
| `extract_part` | `MCExtractPart.cfg` | pass | `CollectivesMatch` (including when ranks iterate their fields in different orders, the master's order is used), `AllRanksReturn`. 3 ranks of 1 or 2 parts, the ZSR on some parts only, volume, surface and vertex extraction, 634,400 states in about a minute. The inputs that reach an error path (a rank without part, a vertex ZSR on a surface extraction) are left out; `NoRankRaises` fails on them (see the defects below). |

Each property of a passing run has a mutant in `PROJECT.json` (a wrong
gnum offset, the last rank's dict dropped, an inclusive partial end, `i_pl`
advanced only on non-empty groups, only the first part node searched, a
path recreated without checking, every rank taking the first slice, a
slice counted from the end, the offset of `prepare_part_weight` not
advanced, a dmesh not kept alive, a collective that returns only while
every rank is still inside it, an NGON slice one short, BCDataSets not
recursed into, a linked ZSR keeping its distribution, cleaning one level
deep, a reduction kept local, two parts registered in one slot, a rank
with no target skipping the fields, the master elected by its own tag, the
field loop stopping early).

### Bounds and fairness

Two or three ranks are enough for every case the code distinguishes:

- a rank without parts;
- two ranks contributing to the same name or number;
- a rank that is neither first nor last.

Scenarios are chosen so that the corner cases occur, rather than enumerated
blindly: equal entries on both sides of a join, a self-periodic zone,
requests of 0 parts, zones with fewer cells than parts. Every run finishes
in seconds, except `extract_part` (about a minute) and `discover` (about
half a minute).

`recover_jns`, `part_sol_to_dist`, `index_exchange` and
`partition_weights` check safety only and assume no fairness; they stop in
a `Terminated` stuttering step once every rank has returned, and deadlock
is checked, so a rank stuck forever in a collective shows up as a
deadlock. `discover` says `CHECK_DEADLOCK FALSE`: there the program really
stops, with the ranks holding a part node raised and the others waiting in
the allgather.

`interpolate` and `extract_part` state termination as
a liveness property (`AllRanksReturn`) under weak
fairness for each rank's step: every rank is a process of its own, so a
rank that can move keeps moving; nothing is assumed about the order of
ranks. Their cfgs say `CHECK_DEADLOCK FALSE` because a stuck collective is
reported by the liveness property, with its trace.

The part zone of `index_exchange` is given (its global ids); the dist
zones are computed by `distribute_tree` on 3 ranks, so that slices of 2
elements leave one rank empty. The full zones range over every location
and kind of three BCs, and over BCDataSets with and without their own
PointList, a PointList FlowSolution and a ZoneSubRegion of its own or
linked to a BC.

### Defects observed but not run

Checking is limited to 12 runs, so some disagreements found while modelling
have no run of their own. Each one was reproduced with TLC on the modules
of this directory:

- `find_matching_bcs` (`adaptation_utils.py:655`) appends every match that
  contains a curve, where the spec says the first match wins. If the top
  boundary curve is split differently from the bottom one, a curve is
  recorded against two twins, and the fold-back recreates it twice. The
  scenarios are still in `MCPeriodicAdaptation.tla` (`SplitScenarios`).
- `starting_elt` (`extract_part.py:18-25`) builds its dict eagerly, so it
  reads `NGonElements` and `NFaceElements/ElementRange` whatever the
  location. On the zone of a surface extraction, which has no
  `NFaceElements`, it fails even for a Vertex container (line 23), which
  prevents transferring a vertex ZoneSubRegion there. The scenarios are
  kept in `MCExtractPart.tla` (`MCSurfaceZsrInputs`).
- `exchange_fields` indexes the first part of every rank
  (`extract_part.py:144`), and raises `IndexError` on a rank without a
  part (`MCRankWithoutPartInputs`).
- `distribute_tree` (`full_to_dist.py:148-152`): a ZoneSubRegion linked to
  a BC by `BCRegionName` receives the BC's PointList after the BC has
  already been distributed, so its size is the local one. The ZSR's
  DataArrays are then sliced by a uniform distribution of the wrong size.

- `discover_nodes_from_matching` (`discover.py:25`) calls
  `IE.iterNodesWithParentsByMatching`, which `Internal_ext.py` does not
  define (`create_methods` only generates `getChildrenFrom*` and
  `getChildFrom*` names), so in this repository the call raises
  `AttributeError` on any rank holding a part node, while a rank holding
  none waits forever in `comm.allgather` (`discover.py:57`). `Discover`
  models exactly this; the collection and merge the docstring describes
  never run. The callers in `interpolate.py` also import the function from
  `maia.factory.dist_from_part`, which is not in the repository.

- The `bfs` parsers of `Internal_ext.py` (`NodesParser.bfs`,
  `LevelNodesParser.bfs`, and `NodeParser.bfs`, the default method of
  `requestChildFrom*`) do not visit the tree level by level: they take the
  matching children of a node, then search the whole subtree of each child
  in turn. A match two levels under the first child therefore comes before
  a match one level under the second, and `requestChildFromName(root, n)`
  may return a deeper node while a shallower one exists. Nothing in the
  modelled code relies on the order of a bfs search, so no property states
  it; `LevelNodesParser_bfs` and `LevelNodeParser_bfs` in `Discover.tla`
  reproduce the order.

### Assumptions

- The join scenarios give the `Ordinal` / `OrdinalOpp` values that
  `add_joins_ordinal` writes (it is not in the repository), so `jn_to_opp`
  is an involution without fixed points. With inconsistent ordinals,
  `join_to_ref` (`np.empty`, `recover_jn.py:13`) would be read where the
  first loop never wrote it; the model would stop with an evaluation error
  there rather than check a property.
- `I._addChild(zsr, None)`, for a linked ZoneSubRegion whose BC has no
  PointRange, is taken to add nothing.
- The inputs leave out BCs with neither PointList nor PointRange (on those,
  `Subset.n_elem` fails) and FlowSolutions with a PointRange.
- `PDM.MultiPart` keeps pointers to `n_part_per_zone` (the code's comment on
  `del(multi_part)` says so), to the dmeshes and to the cacheblocking
  options. This is why `keep_alive` exists.

## Not modelled

The following are listed in `PROJECT.json` with reasons:

- the structured parts of `io/distribution_tree.py` and `full_to_dist.py` (Face distributions of structured zones), and ParentElements;
- the other exchange functions of `transfer` and `tree_exchange`;
- the rest of partitioning: `balance_multizone_tree` needs `multi_zone_balancing`, which is not in the repository; the content of the parts (`pdm_part_to_cgns_zone`, the dmesh conversions) only copies arrays, and ParaDiGM is outside `src/`;
- the ParaDiGM wrappers;
- tree accessors and printing, apart from the walkers and parsers of `Internal_ext.py` that `Discover` models (value, path and callable predicates, `getChildFrom*`, `sids.py`, `print.py`, `parse_cgns_yaml.py` are pure reads or formatting of a tree);
- `nodes_walkers.py`, which imports `_node_parsers2` and `compare`, two modules that are not in the repository;
- `register_src_part` and `create_subset_numbering` in `interpolate.py`, which nothing calls;
- `generate_ngon_from_std_elements`, unfinished: it hands the volume sections to ParaDiGM and drops the result.

The adaptation model also leaves out several cases, each recorded as a hazard in `PROJECT.json`:

- several periodic pairings at once;
- an edge BC that lies only partly on the donor side;
- more than one remesher BC.
