-------------------------- MODULE PartitionWeights --------------------------
(***************************************************************************)
(* npart_per_zone (factory/partitioning/load_balancing/                   *)
(* setup_partition_weights.py) on every rank: each rank requests n_part   *)
(* partitions of every zone; the requests are allgathered into            *)
(* n_part_shift, their cumsum n_part_distri numbers all the partitions,   *)
(* and each rank keeps its own slice of the homogeneous split of a zone's *)
(* cells into n_part_tot parts, as weights k / n_cell.                    *)
(* A weight is kept as the pair <<k, n_cell>>.                            *)
(*                                                                         *)
(* The weights then drive part_U_zones (split_U/part_all_zones.py) on     *)
(* each rank: n_part_per_zone and the flat part_weight array are built    *)
(* from them, a ParaDiGM MultiPart is given raw pointers to these arrays, *)
(* to one dmesh per zone and to the cacheblocking options, the collective *)
(* multipart_run_ppart runs, and the objects are released.  An object is  *)
(* a pair <<kind, i>>; it lives while a local of part_U_zones or the      *)
(* keep_alive list refers to it (CPython reference counting).             *)
(***************************************************************************)
EXTENDS Integers, Sequences, FiniteSets, SequencesExt

CONSTANTS NRanks,   \* size of the communicator
          Inputs    \* set of [n_part, n_cell]: requests per rank, cells per zone

Ranks == 0 .. NRanks - 1

VARIABLES n_part,    \* [Ranks -> Nat]
          n_cell,    \* [Zones -> Nat]: nb_elmt_per_zone
          shift,     \* [Ranks -> Nat \cup {-1}]: what each rank gave the Allgather
          weights,   \* [Ranks -> [Zones -> Seq(<<k, n_cell>>)] or <<>>]
          renum,     \* part_options['reordering']['cell_renum_method'], same on all ranks
          ppc,       \* [Ranks -> step of part_U_zones]
          npz,       \* [Ranks -> Seq(Nat)]: n_part_per_zone
          part_weight, \* [Ranks -> Seq(<<k, n_cell>>)]
          locals,    \* [Ranks -> SUBSET Obj]: objects bound to part_U_zones' locals
          keep,      \* [Ranks -> SUBSET Obj]: the objects in keep_alive (or {} once deleted)
          held       \* [Ranks -> SUBSET Obj]: raw pointers held by the MultiPart

vars == <<n_part, n_cell, shift, weights, renum, ppc, npz, part_weight, locals, keep, held>>
pvars == <<renum, ppc, npz, part_weight, locals, keep, held>>

\* the zones of the tree, in the order part_U_zones receives them
u_zones == SetToSeq(DOMAIN n_cell)

NPZ == <<"n_part_per_zone", 0>>
PW == <<"part_weight", 0>>
MP == <<"multi_part", 0>>
CBP == <<"cacheblocking_props", 0>>
DMesh(i) == <<"dmesh", i>>

\* np.empty: a slot of part_weight nothing has written
Unset == <<-1, -1>>

\* single_zone_balancing.homogeneous_repart, by its contract in the
\* docstring: n_elt cut into n parts of sizes differing by at most one
homogeneous_repart(n_elt, n) ==
  [i \in 1 .. n |-> n_elt \div n + (IF i <= n_elt % n THEN 1 ELSE 0)]

\* n_part_distri = cumsum([0] + allgathered n_part)
n_part_distri ==
  LET RECURSIVE cumsum(_)
      cumsum(i) == IF i = 0 THEN 0 ELSE cumsum(i - 1) + shift[i - 1]
  IN  [i \in 0 .. NRanks |-> cumsum(i)]

\* [mutant] the ranks take their slices counting from the last partition
zone_to_weights_from_end(r) ==
  LET d == n_part_distri
      tot == d[NRanks]
  IN  [z \in DOMAIN n_cell |->
         LET rep == homogeneous_repart(n_cell[z], tot)
         IN  [i \in 1 .. d[r + 1] - d[r] |-> <<rep[tot - d[r + 1] + i], n_cell[z]>>]]

\* [mutant] every rank takes the first n_part parts, [:n_part], of the split
zone_to_weights_first_slice(r) ==
  LET tot == n_part_distri[NRanks]
  IN  [z \in DOMAIN n_cell |->
         LET rep == homogeneous_repart(n_cell[z], tot)
         IN  [i \in 1 .. n_part[r] |-> <<rep[i], n_cell[z]>>]]

\* homogeneous_repart(n_cell, n_part_tot)[start_idx:end_idx], over k / n_cell
zone_to_weights(r) ==
  LET d == n_part_distri
      tot == d[NRanks]
  IN  [z \in DOMAIN n_cell |->
         LET rep == homogeneous_repart(n_cell[z], tot)
         IN  [i \in 1 .. d[r + 1] - d[r] |-> <<rep[d[r] + i], n_cell[z]>>]]

Init ==
  \E in \in Inputs :
    /\ n_part = in.n_part
    /\ n_cell = in.n_cell
    /\ shift = [r \in Ranks |-> -1]
    /\ weights = [r \in Ranks |-> <<>>]
    /\ renum \in {"CACHEBLOCKING2", "HPC", "NONE"}
    /\ ppc = [r \in Ranks |-> "npart"]
    /\ npz = [r \in Ranks |-> <<>>]
    /\ part_weight = [r \in Ranks |-> <<>>]
    /\ locals = [r \in Ranks |-> {}]
    /\ keep = [r \in Ranks |-> {}]
    /\ held = [r \in Ranks |-> {}]

\* comm.Allgather(n_part_np, n_part_shift_view): the rank enters the collective
Allgather(r) ==
  /\ shift[r] = -1
  /\ shift' = [shift EXCEPT ![r] = n_part[r]]
  /\ UNCHANGED <<n_part, n_cell, weights>> /\ UNCHANGED pvars

\* the collective returns once every rank has entered it; the rank computes
\* its weights
Repart(r) ==
  /\ shift[r] # -1
  /\ weights[r] = <<>>
  /\ \A q \in Ranks : shift[q] # -1
  /\ weights' = [weights EXCEPT ![r] = zone_to_weights(r)]
  /\ UNCHANGED <<n_part, n_cell, shift>> /\ UNCHANGED pvars

-----------------------------------------------------------------------------
(* part_U_zones                                                            *)

\* [mutant] the loop never advances offset
prepare_part_weight_no_offset(n_part_per_zone, dz) ==
  LET RECURSIVE fill(_, _, _)
      fill(pw, i, offset) ==
        IF i > Len(u_zones) THEN pw
        ELSE fill([k \in DOMAIN pw |->
                     IF offset < k /\ k <= offset + n_part_per_zone[i]
                     THEN dz[u_zones[i]][k - offset] ELSE pw[k]],
                  i + 1, offset)
  IN  fill([k \in 1 .. FoldSeq(+, 0, n_part_per_zone) |-> Unset], 1, 0)

\* np.empty(sum(n_part_per_zone)), then each zone's weights written at the
\* running offset, zone after zone
prepare_part_weight(n_part_per_zone, dz) ==
  LET RECURSIVE fill(_, _, _)
      fill(pw, i, offset) ==
        IF i > Len(u_zones) THEN pw
        ELSE fill([k \in DOMAIN pw |->
                     IF offset < k /\ k <= offset + n_part_per_zone[i]
                     THEN dz[u_zones[i]][k - offset] ELSE pw[k]],
                  i + 1, offset + n_part_per_zone[i])
  IN  fill([k \in 1 .. FoldSeq(+, 0, n_part_per_zone) |-> Unset], 1, 0)

\* n_part_per_zone from the lengths of the weights, appended to keep_alive;
\* part_weight; PDM.MultiPart(..., n_part_per_zone, ..., part_weight, comm)
\* keeps a pointer to n_part_per_zone
PartInit(r) ==
  /\ ppc[r] = "npart"
  /\ weights[r] # <<>>
  /\ LET n_part_per_zone == [i \in DOMAIN u_zones |-> Len(weights[r][u_zones[i]])]
     IN  /\ npz' = [npz EXCEPT ![r] = n_part_per_zone]
         /\ part_weight' = [part_weight EXCEPT
                              ![r] = prepare_part_weight(n_part_per_zone, weights[r])]
  /\ locals' = [locals EXCEPT ![r] = {NPZ, PW, MP}]
  /\ keep' = [keep EXCEPT ![r] = {NPZ}]
  /\ held' = [held EXCEPT ![r] = {NPZ}]
  /\ ppc' = [ppc EXCEPT ![r] = "setup"]
  /\ UNCHANGED <<n_part, n_cell, shift, weights, renum>>

\* [mutant] the dmeshes are registered but not appended to keep_alive
set_mpart_dmeshes_unkept(r) ==
  [keep |-> keep[r], held |-> held[r] \cup {DMesh(i) : i \in DOMAIN u_zones}]

\* one dmesh (NGON zone) or dmesh_nodal (element zone) per zone, appended to
\* keep_alive and registered in the MultiPart; the helper's own local dies
\* when it returns
set_mpart_dmeshes(r) ==
  [keep |-> keep[r] \cup {DMesh(i) : i \in DOMAIN u_zones},
   held |-> held[r] \cup {DMesh(i) : i \in DOMAIN u_zones}]

\* cacheblocking_props is an array for the CACHEBLOCKING and HPC methods and
\* None otherwise; it is given to multipart_set_reordering and appended to
\* keep_alive
set_mpart_reordering(s) ==
  LET cbp == IF renum \in {"CACHEBLOCKING2", "HPC"} THEN {CBP} ELSE {}
  IN  [keep |-> s.keep \cup cbp, held |-> s.held \cup cbp]

\* set_mpart_dmeshes, then set_mpart_reordering
Setup(r) ==
  /\ ppc[r] = "setup"
  /\ LET s == set_mpart_reordering(set_mpart_dmeshes(r))
     IN  /\ keep' = [keep EXCEPT ![r] = s.keep]
         /\ held' = [held EXCEPT ![r] = s.held]
  /\ ppc' = [ppc EXCEPT ![r] = "run"]
  /\ UNCHANGED <<n_part, n_cell, shift, weights, renum, npz, part_weight, locals>>

\* multi_part.multipart_run_ppart(): the rank enters the collective
RunPpart(r) ==
  /\ ppc[r] = "run"
  /\ ppc' = [ppc EXCEPT ![r] = "running"]
  /\ UNCHANGED <<n_part, n_cell, shift, weights, renum, npz, part_weight, locals, keep, held>>

\* the collective returns once every rank has entered it; the rank reads
\* its parts back from the MultiPart (collect_mpart_partitions)
Collect(r) ==
  /\ ppc[r] = "running"
  /\ \A q \in Ranks : ppc[q] \in {"running", "del_mp", "del_keep", "return", "done"}
  /\ ppc' = [ppc EXCEPT ![r] = "del_mp"]
  /\ UNCHANGED <<n_part, n_cell, shift, weights, renum, npz, part_weight, locals, keep, held>>

\* [mutant] del(multi_part) left out
DelMultiPart_missing(r) ==
  /\ ppc[r] = "del_mp"
  /\ ppc' = [ppc EXCEPT ![r] = "del_keep"]
  /\ UNCHANGED <<n_part, n_cell, shift, weights, renum, npz, part_weight, locals, keep, held>>

\* del(multi_part): the MultiPart is freed, and with it its pointers
DelMultiPart(r) ==
  /\ ppc[r] = "del_mp"
  /\ locals' = [locals EXCEPT ![r] = @ \ {MP}]
  /\ held' = [held EXCEPT ![r] = {}]
  /\ ppc' = [ppc EXCEPT ![r] = "del_keep"]
  /\ UNCHANGED <<n_part, n_cell, shift, weights, renum, npz, part_weight, keep>>

\* del(keep_alive)
DelKeepAlive(r) ==
  /\ ppc[r] = "del_keep"
  /\ keep' = [keep EXCEPT ![r] = {}]
  /\ ppc' = [ppc EXCEPT ![r] = "return"]
  /\ UNCHANGED <<n_part, n_cell, shift, weights, renum, npz, part_weight, locals, held>>

\* the order of part_U_zones' local slots, in which CPython clears them
\* when the frame is left
FreeOrder == <<NPZ, PW, MP>>

\* return u_parts: the locals still bound are released one at a time, in
\* slot order; releasing the MultiPart runs its destructor
Return(r) ==
  /\ ppc[r] = "return"
  /\ IF locals[r] = {}
     THEN /\ ppc' = [ppc EXCEPT ![r] = "done"]
          /\ UNCHANGED <<locals, held>>
     ELSE LET x == SelectSeq(FreeOrder, LAMBDA o : o \in locals[r])[1]
          IN  /\ locals' = [locals EXCEPT ![r] = @ \ {x}]
              /\ held' = IF x = MP THEN [held EXCEPT ![r] = {}] ELSE held
              /\ UNCHANGED ppc
  /\ UNCHANGED <<n_part, n_cell, shift, weights, renum, npz, part_weight, keep>>

PartStep(r) ==
  \/ PartInit(r) \/ Setup(r) \/ RunPpart(r) \/ Collect(r)
  \/ DelMultiPart(r) \/ DelKeepAlive(r) \/ Return(r)

Terminated == (\A r \in Ranks : ppc[r] = "done") /\ UNCHANGED vars

Next == (\E r \in Ranks : Allgather(r) \/ Repart(r) \/ PartStep(r)) \/ Terminated

Spec == Init /\ [][Next]_vars

-----------------------------------------------------------------------------
(* Properties                                                              *)

\* the cells a rank's weights give it in zone z
CellsOf(r, z) ==
  LET w == weights[r][z]
      RECURSIVE sum(_)
      sum(i) == IF i = 0 THEN 0 ELSE sum(i - 1) + w[i][1]
  IN  sum(Len(w))

\* The docstring: each rank gets n_part partitions of each zone, and the
\* parts of a zone, over all ranks, share its cells with homogeneous
\* weights.  Once every rank has its weights: rank r holds n_part[r]
\* weights of every zone, the weights of a zone sum to 1 over all ranks,
\* and no two parts of a zone differ by more than one cell.
ZonesShared ==
  (\A r \in Ranks : weights[r] # <<>>) =>
    \A z \in DOMAIN n_cell :
      /\ \A r \in Ranks : Len(weights[r][z]) = n_part[r]
      /\ LET RECURSIVE total(_)
             total(q) == IF q = 0 THEN 0 ELSE total(q - 1) + CellsOf(q - 1, z)
         IN  total(NRanks) = n_cell[z]
      /\ \A r1, r2 \in Ranks :
           \A i \in DOMAIN weights[r1][z] : \A j \in DOMAIN weights[r2][z] :
             weights[r1][z][i][1] - weights[r2][z][j][1] \in {-1, 0, 1}

\* The ranks' weights, seen only once every rank has computed them: the
\* Allgather and the per-rank slicing of npart_per_zone must give each
\* rank the shares the sequential numbering of all partitions (rank 0's
\* first) gives it.  This fails if a rank slices the split at another
\* offset, even when the shares still sum up and stay homogeneous.
Sequential == INSTANCE PartitionWeightsSeq
         WITH weights <- IF \A r \in Ranks : weights[r] # <<>>
                         THEN weights ELSE [r \in Ranks |-> <<>>]

ImplementsSequential == Sequential!Spec

\* The weights ParaDiGM reads: the MultiPart takes n_part_per_zone and the
\* flat part_weight, and reads zone i's weights as the n_part_per_zone[i]
\* entries after those of zones 1 .. i-1.  Once prepare_part_weight has run
\* on a rank, every zone's block holds exactly the weights npart_per_zone
\* gave that rank for that zone, and no slot of np.empty is left unset.
PdmWeightsMatch ==
  \A r \in Ranks : ppc[r] # "npart" =>
    /\ Len(part_weight[r]) = FoldSeq(+, 0, npz[r])
    /\ \A i \in DOMAIN u_zones :
         LET off == FoldSeq(+, 0, SubSeq(npz[r], 1, i - 1))
         IN  SubSeq(part_weight[r], off + 1, off + npz[r][i]) = weights[r][u_zones[i]]

\* The objects a rank's part_U_zones keeps alive
Alive(r) == locals[r] \cup keep[r]

\* part_U_zones' "Careful ! Some object must be deleted at the very end":
\* as long as a rank's MultiPart is alive, every array or dmesh it holds a
\* raw pointer to (n_part_per_zone, the dmeshes, the cacheblocking options)
\* is still referenced by a local or by keep_alive, including while the
\* frame is left and its locals are released in slot order.
NoDanglingPdmPointer ==
  \A r \in Ranks : MP \in Alive(r) => held[r] \subseteq Alive(r)
=============================================================================
