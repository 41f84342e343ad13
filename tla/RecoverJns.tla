----------------------------- MODULE RecoverJns -----------------------------
(***************************************************************************)
(* recover_jns (tree_exchange/dist_to_part/recover_jn.py): every rank      *)
(* numbers the faces of the partitioned joins in a numbering shared by the *)
(* two sides of a join, sends them to the owner of their number            *)
(* (PartToBlock), reads back the two faces stored under each number        *)
(* (BlockToPart) and keeps the one that is not itself as its donor.        *)
(*                                                                         *)
(* A face of a partitioned join is a slot [rank, part, gc, idx, pl]: it    *)
(* lies in part `part` of rank `rank`, at local face `pl`, in the join of  *)
(* 0-based ordinal `gc`, and is face `idx` of that join's distributed      *)
(* PointList (its :CGNS#GlobalNumbering/Index).  Face idx of gc faces face *)
(* idx of jn_to_opp[gc].  The exchanges are collectives: a rank leaves     *)
(* PartToBlock once every rank has entered it and every face sent to it    *)
(* has arrived, in any order.                                              *)
(*                                                                         *)
(* Around it, part_U_zones of partitioning/split_U/part_all_zones.py       *)
(* builds jn_to_opp from the Ordinal / OrdinalOpp of the dist GCs          *)
(* (get_matching_joins), and after it splits every recovered join of a    *)
(* part into one join per opposite part, both sides sorted alike          *)
(* (zgc_original_pdm_to_cgns).                                             *)
(***************************************************************************)
EXTENDS Integers, Sequences, FiniteSets, FiniteSetsExt, SequencesExt

CONSTANTS NRanks,     \* size of the communicator
          Scenarios   \* set of [jns, n_face, slots]; jns the [ordinal, opp] of
                      \* the dist GCs, in the order of the tree

Ranks == 0 .. NRanks - 1

VARIABLES jn_to_opp,  \* [0..n_jn-1 -> 0..n_jn-1], the opposite join of each join
          n_face,     \* [0..n_jn-1 -> Nat], size of the distributed PointList
          slots,      \* the partitioned join faces of every rank
          pc,         \* [Ranks -> {"start", "ptb", "btp", "jns", "done"}]
          msgs,       \* faces sent by PartToBlock and not yet received; `from`
                      \* tells apart two faces with equal entries
          dData,      \* block data: gnum -> faces received, in arrival order
          donor,      \* slot -> [rank, part, pl] written by the post treatment
          sub_jns     \* the joins zgc_original_pdm_to_cgns creates:
                      \* [rank, part, gc, opp, pl, pld, lngn]

vars == <<jn_to_opp, n_face, slots, pc, msgs, dData, donor, sub_jns>>

NoDonor == [rank |-> -1, part |-> -1, pl |-> -1]

\* get_matching_joins: join_to_opp[Ordinal - 1] = OrdinalOpp - 1 for every
\* dist GC, a later GC overwriting an earlier one; -1 stands for the value
\* np.empty leaves where nothing is written
get_matching_joins(jns) ==
  [i \in 0 .. Len(jns) - 1 |->
     LET w == {k \in DOMAIN jns : jns[k].ordinal - 1 = i}
     IN  IF w = {} THEN -1 ELSE jns[Max(w)].opp - 1]

-----------------------------------------------------------------------------
(* Numbering of the join faces                                             *)

n_jn == Cardinality(DOMAIN jn_to_opp)
n_unique_jn == n_jn \div 2

\* The first loop: both joins of a pair get the id of the pair, pairs
\* numbered in the order of their smaller ordinal; -1 is np.empty's value,
\* left wherever the loop writes nothing.
\* [mutant] the pair counter never advances
RECURSIVE join_to_ref_loop_same_gid(_, _, _)
join_to_ref_loop_same_gid(i, ref, gid) ==
  IF i = n_jn THEN ref
  ELSE LET iopp == jn_to_opp[i] IN
       IF i < iopp
       THEN join_to_ref_loop_same_gid(i + 1, [ref EXCEPT ![i] = gid, ![iopp] = gid], gid)
       ELSE join_to_ref_loop_same_gid(i + 1, ref, gid)

RECURSIVE join_to_ref_loop(_, _, _)
join_to_ref_loop(i, ref, gid) ==
  IF i = n_jn THEN ref
  ELSE LET iopp == jn_to_opp[i] IN
       IF i < iopp
       THEN join_to_ref_loop(i + 1, [ref EXCEPT ![i] = gid, ![iopp] = gid], gid + 1)
       ELSE join_to_ref_loop(i + 1, ref, gid)

join_to_ref == join_to_ref_loop(0, [i \in DOMAIN jn_to_opp |-> -1], 0)

\* the size of each pair, read on the join of smaller ordinal
nb_face_in_joins ==
  [k \in 0 .. n_unique_jn - 1 |->
     LET gcs == {g \in DOMAIN jn_to_opp : g < jn_to_opp[g] /\ join_to_ref[g] = k}
     IN  IF gcs = {} THEN 0 ELSE n_face[CHOOSE g \in gcs : TRUE]]

\* py_utils.nb_to_offset: [0, nb[0], nb[0]+nb[1], ...]
RECURSIVE PrefixSum(_, _)
PrefixSum(nb, k) == IF k = 0 THEN 0 ELSE PrefixSum(nb, k - 1) + nb[k - 1]

face_in_join_offset == [k \in 0 .. n_unique_jn |-> PrefixSum(nb_face_in_joins, k)]

\* the gnum a face is sent under
shifted_lntogn(s) == s.idx + face_in_join_offset[join_to_ref[s.gc]]

\* PartToBlock without a user distribution (t_distrib=0) spans the gnums
\* 1..n_gnum up to the largest one sent by any rank, cut into NRanks
\* ranges of nearly equal size
n_gnum == Max({shifted_lntogn(s) : s \in slots})

Owner(g) == CHOOSE r \in Ranks : (r * n_gnum) \div NRanks < g
                                 /\ g <= ((r + 1) * n_gnum) \div NRanks

SlotsOf(r) == {s \in slots : s.rank = r}

\* what part_data holds for a face: pl, irank, ipart
Entry(s) == [pl |-> s.pl, irank |-> s.rank, ipart |-> s.part]

\* [mutant] two faces of one rank and part: the first entry is taken
OppDonor_first(s, e1, e2) ==
  LET pick(e) == [rank |-> e.irank, part |-> e.ipart, pl |-> e.pl] IN
  CASE e1.irank # s.rank -> pick(e1)
    [] e2.irank # s.rank -> pick(e2)
    [] e1.ipart # s.part -> pick(e1)
    [] e2.ipart # s.part -> pick(e2)
    [] OTHER             -> pick(e1)

\* The post treatment of one face: a block entry of another rank, else of
\* another part, else of another pl; e1 and e2 are the two faces stored
\* under its gnum, in the order the block received them.
OppDonor(s, e1, e2) ==
  LET pick(e) == [rank |-> e.irank, part |-> e.ipart, pl |-> e.pl] IN
  CASE e1.irank # s.rank -> pick(e1)
    [] e2.irank # s.rank -> pick(e2)
    [] e1.ipart # s.part -> pick(e1)
    [] e2.ipart # s.part -> pick(e2)
    [] e1.pl # s.pl      -> pick(e1)
    [] OTHER             -> pick(e2)

-----------------------------------------------------------------------------
(* Actions                                                                 *)

Init ==
  \E sc \in Scenarios :
    /\ jn_to_opp = get_matching_joins(sc.jns)
    /\ n_face = sc.n_face
    /\ slots = sc.slots
    /\ pc = [r \in Ranks |-> "start"]
    /\ msgs = {}
    /\ dData = [g \in 1 .. n_gnum |-> <<>>]
    /\ donor = [s \in slots |-> NoDonor]
    /\ sub_jns = {}

\* Rank r numbers its join faces, collects part_data and enters the
\* PartToBlock exchange, sending each face to the owner of its gnum.
Send(r) ==
  /\ pc[r] = "start"
  /\ msgs' = msgs \cup {[to |-> Owner(shifted_lntogn(s)), g |-> shifted_lntogn(s),
                         e |-> Entry(s), from |-> s] : s \in SlotsOf(r)}
  /\ pc' = [pc EXCEPT ![r] = "ptb"]
  /\ UNCHANGED <<jn_to_opp, n_face, slots, dData, donor, sub_jns>>

\* A face reaches the block of its gnum, after those that came before it.
Deliver(m) ==
  /\ msgs' = msgs \ {m}
  /\ dData' = [dData EXCEPT ![m.g] = Append(@, m.e)]
  /\ UNCHANGED <<jn_to_opp, n_face, slots, pc, donor, sub_jns>>

\* PartToBlock_Exchange returns on rank r once every rank has sent and
\* every face bound for r has arrived.
PartToBlock(r) ==
  /\ pc[r] = "ptb"
  /\ \A q \in Ranks : pc[q] # "start"
  /\ \A m \in msgs : m.to # r
  /\ pc' = [pc EXCEPT ![r] = "btp"]
  /\ UNCHANGED <<jn_to_opp, n_face, slots, msgs, dData, donor, sub_jns>>

\* BlockToPart_Exchange2 (stride 2) brings back the two faces of each gnum
\* of rank r from their owners, and the post treatment writes
\* PointListDonor and Donor for every face of r.
BlockToPart(r) ==
  /\ pc[r] = "btp"
  /\ \A s \in SlotsOf(r) : pc[Owner(shifted_lntogn(s))] \in {"btp", "done"}
  /\ donor' = [s \in slots |->
                 IF s.rank = r
                 THEN LET b == dData[shifted_lntogn(s)] IN OppDonor(s, b[1], b[2])
                 ELSE donor[s]]
  /\ pc' = [pc EXCEPT ![r] = "jns"]
  /\ UNCHANGED <<jn_to_opp, n_face, slots, msgs, dData, sub_jns>>

\* the recovered GCs of rank r's parts, and the faces of each
GcsOf(r) == {[part |-> s.part, gc |-> s.gc] : s \in SlotsOf(r)}
FacesOf(r, g) == {s \in SlotsOf(r) : s.part = g.part /\ s.gc = g.gc}

\* [mutant] every side sorts its faces by its own PointList
sub_joins_sort_own(r, g, f) ==
  LET donor_of(i) == <<donor[f[i]].rank, donor[f[i]].part>>
  IN  {LET idx == SelectSeq([i \in DOMAIN f |-> i], LAMBDA i : donor_of(i) = opp)
           sub_pl == [k \in DOMAIN idx |-> f[idx[k]].pl]
           sub_pl_d == [k \in DOMAIN idx |-> donor[f[idx[k]]].pl]
           sub_lngn == [k \in DOMAIN idx |-> f[idx[k]].idx]
           sort_idx == SortSeq([k \in DOMAIN idx |-> k], LAMBDA a, b : sub_pl[a] < sub_pl[b])
       IN  [rank |-> r, part |-> g.part, gc |-> g.gc, opp |-> opp,
            pl |-> [k \in DOMAIN idx |-> sub_pl[sort_idx[k]]],
            pld |-> [k \in DOMAIN idx |-> sub_pl_d[sort_idx[k]]],
            lngn |-> [k \in DOMAIN idx |-> sub_lngn[sort_idx[k]]]]
      : opp \in {donor_of(i) : i \in DOMAIN f}}

\* zgc_original_pdm_to_cgns for one GC whose PointList lists the faces f:
\* one join per (rank, part) of np.unique(donor), holding the faces facing
\* it, sorted by the PointList of the side of smaller ordinal (its own pl
\* if Ordinal < OrdinalOpp, else its PointListDonor)
sub_joins(r, g, f) ==
  LET donor_of(i) == <<donor[f[i]].rank, donor[f[i]].part>>
      ordinal_cur == g.gc + 1
      ordinal_opp == jn_to_opp[g.gc] + 1
  IN  {LET idx == SelectSeq([i \in DOMAIN f |-> i], LAMBDA i : donor_of(i) = opp)
           sub_pl == [k \in DOMAIN idx |-> f[idx[k]].pl]
           sub_pl_d == [k \in DOMAIN idx |-> donor[f[idx[k]]].pl]
           sub_lngn == [k \in DOMAIN idx |-> f[idx[k]].idx]
           ref_pl == IF ordinal_cur < ordinal_opp THEN sub_pl ELSE sub_pl_d
           sort_idx == SortSeq([k \in DOMAIN idx |-> k], LAMBDA a, b : ref_pl[a] < ref_pl[b])
       IN  [rank |-> r, part |-> g.part, gc |-> g.gc, opp |-> opp,
            pl |-> [k \in DOMAIN idx |-> sub_pl[sort_idx[k]]],
            pld |-> [k \in DOMAIN idx |-> sub_pl_d[sort_idx[k]]],
            lngn |-> [k \in DOMAIN idx |-> sub_lngn[sort_idx[k]]]]
      : opp \in {donor_of(i) : i \in DOMAIN f}}

\* After recover_jns, part_U_zones runs zgc_original_pdm_to_cgns on every
\* part of rank r; the order of the faces in a part's PointList is the
\* partitioner's, any order.
ZgcOriginal(r) ==
  /\ pc[r] = "jns"
  /\ \E order \in [GcsOf(r) -> UNION {SetToSeqs(FacesOf(r, g)) : g \in GcsOf(r)}] :
       /\ \A g \in GcsOf(r) : ToSet(order[g]) = FacesOf(r, g)
       /\ sub_jns' = sub_jns \cup UNION {sub_joins(r, g, order[g]) : g \in GcsOf(r)}
  /\ pc' = [pc EXCEPT ![r] = "done"]
  /\ UNCHANGED <<jn_to_opp, n_face, slots, msgs, dData, donor>>

\* every rank has returned from recover_jns
Terminated ==
  /\ \A r \in Ranks : pc[r] = "done"
  /\ UNCHANGED vars

Next ==
  \/ \E r \in Ranks : Send(r) \/ PartToBlock(r) \/ BlockToPart(r) \/ ZgcOriginal(r)
  \/ \E m \in msgs : Deliver(m)
  \/ Terminated

Spec == Init /\ [][Next]_vars

-----------------------------------------------------------------------------
(* Properties                                                              *)

\* the face the join matching pairs s with: same index in the opposite join
Opposite(s) == {t \in slots : t.gc = jn_to_opp[s.gc] /\ t.idx = s.idx}

\* Once the owner of a gnum has left PartToBlock, its block holds exactly
\* the two faces of one matched pair, one from each side of a join: the
\* numbering of join_to_ref and face_in_join_offset sends the two sides of
\* a face to the same gnum and no other face there.
JoinBlocksPaired ==
  \A g \in DOMAIN dData :
    pc[Owner(g)] \in {"btp", "done"} =>
      \E s \in slots :
        /\ shifted_lntogn(s) = g
        /\ \E t \in Opposite(s) :
             /\ t # s
             /\ Len(dData[g]) = 2
             /\ {dData[g][1], dData[g][2]} = {Entry(s), Entry(t)}

\* Whatever order the faces reached their blocks, the PointListDonor and
\* Donor written by the post treatment of a returned rank name the face the
\* join matching pairs each face with.
DonorCorrect ==
  \A s \in slots :
    pc[s.rank] \in {"jns", "done"} =>
      \E t \in Opposite(s) : donor[s] = [rank |-> t.rank, part |-> t.part, pl |-> t.pl]

\* zgc_original_pdm_to_cgns sorts "both pl and pld according to min joinId
\* to ensure that order is the same": once both ranks are done, every join
\* it creates toward a part has its counterpart in that part, on the
\* opposite GC and facing back, listing the same faces in the same order
\* (its PointList is the other's PointListDonor, and the global numbers
\* agree), whatever order the partitioner gave the faces.
SubJoinsMatch ==
  \A j \in sub_jns : pc[j.opp[1]] = "done" =>
    \E k \in sub_jns :
      /\ k.rank = j.opp[1] /\ k.part = j.opp[2] /\ k.gc = jn_to_opp[j.gc]
      /\ k.opp = <<j.rank, j.part>>
      /\ k.pl = j.pld /\ k.pld = j.pl /\ k.lngn = j.lngn
=============================================================================
