----------------------------- MODULE Interpolate -----------------------------
(***************************************************************************)
(* interpolate_from_part_trees (algo/part/interpolate.py) on every rank of *)
(* a communicator, for one source and one target domain and one container:*)
(* create_interpolator localises the target points in the source cells     *)
(* and/or finds their closest source cells, registers the results of each *)
(* source part in the interpolator, and interpolate_fields exchanges every *)
(* field of the container.                                                 *)
(*                                                                         *)
(* The collectives (_localize_points, allreduce, create_sub_numbering,    *)
(* _closest_points, transform_to_parent_gnum, interpolator.exch) are      *)
(* entered by appending their name to the rank's ops, and a rank returns  *)
(* from its k-th collective once every rank has entered k collectives.    *)
(* Geometry is left out: a target part is the number of its points that   *)
(* the location leaves unlocated; a source part is the GridLocation and   *)
(* the field names of its container.                                      *)
(***************************************************************************)
EXTENDS Integers, Sequences, SequencesExt

CONSTANTS NRanks,   \* size of the communicator
          Inputs    \* set of [strategy, src, tgt]: per rank, the source parts
                    \* ([loc, fields]) and the unlocated count of each target part

Ranks == 0 .. NRanks - 1
NONE == -1

VARIABLES strategy,   \* the strategy option, the same on every rank
          src,        \* [Ranks -> Seq([loc, fields])]: src_parts_per_dom[0]
          tgt,        \* [Ranks -> Seq(Nat)]: unlocated points of tgt_parts_per_dom[0]
          pc,         \* [Ranks -> step of the rank]
          ops,        \* [Ranks -> Seq(collective)]: the collectives entered
          n_tot,      \* [Ranks -> Nat \cup {NONE}]: n_tot_unlocated
          one_or_two, \* [Ranks -> 0..2]
          n_mesh,     \* [Ranks -> Nat]: mesh_global_data_set size
          slots,      \* [Ranks -> Seq([slot, part, kind])]: points_in_elt_set calls
          flds,       \* [Ranks -> Seq(field)]: fields_per_part[0]
          i_fld,      \* [Ranks -> Nat]: the field being exchanged
          data,       \* [Ranks -> Seq(part)]: list_part_data_in of the last exch
          out         \* [Ranks -> Seq(set of fields)]: fields of each target container

vars == <<strategy, src, tgt, pc, ops, n_tot, one_or_two, n_mesh, slots, flds, i_fld, data, out>>

-----------------------------------------------------------------------------
(* Collectives                                                             *)

Enter(r, op) == ops' = [ops EXCEPT ![r] = Append(@, op)]

\* every rank has entered as many collectives as r
Returned(r) == \A q \in Ranks : Len(ops[q]) >= Len(ops[r])

-----------------------------------------------------------------------------
(* The code                                                                *)

\* n_unlocated = sum([t.size for t in all_unlocated])
n_unlocated(q) == FoldSeq(+, 0, tgt[q])

\* [mutant] the closest results registered at one_or_two*i as well
registered_same_slot(r, oot, closest) ==
  [i \in 1 .. Len(src[r]) |-> [slot |-> oot * (i - 1), part |-> i, kind |-> "located"]]
  \o (IF closest
      THEN [i \in 1 .. Len(src[r]) |-> [slot |-> oot * (i - 1), part |-> i, kind |-> "closest"]]
      ELSE <<>>)

\* the points_in_elt_set calls of create_interpolator: the located results
\* of source part i at one_or_two*i, the closest ones at
\* one_or_two*i + (one_or_two-1)
registered(r, oot, closest) ==
  [i \in 1 .. Len(src[r]) |-> [slot |-> oot * (i - 1), part |-> i, kind |-> "located"]]
  \o (IF closest
      THEN [i \in 1 .. Len(src[r]) |->
              [slot |-> oot * (i - 1) + (oot - 1), part |-> i, kind |-> "closest"]]
      ELSE <<>>)

\* list_part_data_in: the data of each source part, n_field_per_part times
list_part_data_in(r) ==
  [j \in 1 .. Len(src[r]) * one_or_two[r] |-> (j - 1) \div one_or_two[r] + 1]

\* the source parts of r that have field f in their container
HasField(r, f) == \A i \in DOMAIN src[r] : f \in src[r][i].fields

\* the interpolator set up at the end of create_interpolator; with strategy
\* 'Closest', all_located_inv is unbound at line 182
Setup(r, oot, closest) ==
  IF strategy = "Closest"
  THEN /\ pc' = [pc EXCEPT ![r] = "error"]
       /\ UNCHANGED <<n_mesh, slots>>
  ELSE /\ n_mesh' = [n_mesh EXCEPT ![r] = oot * Len(src[r])]
       /\ slots' = [slots EXCEPT ![r] = registered(r, oot, closest)]
       /\ pc' = [pc EXCEPT ![r] = "fields"]

-----------------------------------------------------------------------------
(* Actions                                                                 *)

Init ==
  \E in \in Inputs :
    /\ strategy = in.strategy
    /\ src = in.src
    /\ tgt = in.tgt
    /\ pc = [r \in Ranks |-> "start"]
    /\ ops = [r \in Ranks |-> <<>>]
    /\ n_tot = [r \in Ranks |-> NONE]
    /\ one_or_two = [r \in Ranks |-> 0]
    /\ n_mesh = [r \in Ranks |-> 0]
    /\ slots = [r \in Ranks |-> <<>>]
    /\ flds = [r \in Ranks |-> <<>>]
    /\ i_fld = [r \in Ranks |-> 0]
    /\ data = [r \in Ranks |-> <<>>]
    /\ out = [r \in Ranks |-> [i \in DOMAIN tgt[r] |-> {}]]

\* Phase 1: the rank enters _localize_points, or, with 'Closest', goes
\* straight to _closest_points on all its target points
Localize(r) ==
  /\ pc[r] = "start"
  /\ one_or_two' = [one_or_two EXCEPT ![r] = 1]
  /\ IF strategy # "Closest"
     THEN Enter(r, "localize") /\ pc' = [pc EXCEPT ![r] = "localize"]
     ELSE Enter(r, "closest") /\ pc' = [pc EXCEPT ![r] = "closest"]
  /\ UNCHANGED <<strategy, src, tgt, n_tot, n_mesh, slots, flds, i_fld, data, out>>

\* _localize_points returns; the rank enters comm.allreduce(n_unlocated)
Localized(r) ==
  /\ pc[r] = "localize"
  /\ Returned(r)
  /\ Enter(r, "allreduce")
  /\ pc' = [pc EXCEPT ![r] = "allreduce"]
  /\ UNCHANGED <<strategy, src, tgt, n_tot, one_or_two, n_mesh, slots, flds, i_fld, data, out>>

\* [mutant] the closest point phase decided on the rank's own n_unlocated
Reduced_local(r) ==
  /\ pc[r] = "allreduce"
  /\ Returned(r)
  /\ n_tot' = [n_tot EXCEPT ![r] = n_unlocated(r)]
  /\ IF strategy = "LocationAndClosest" /\ n_unlocated(r) > 0
     THEN /\ one_or_two' = [one_or_two EXCEPT ![r] = 2]
          /\ Enter(r, "sub_numbering")
          /\ pc' = [pc EXCEPT ![r] = "sub_numbering"]
          /\ UNCHANGED <<n_mesh, slots>>
     ELSE /\ Setup(r, one_or_two[r], FALSE)
          /\ UNCHANGED <<ops, one_or_two>>
  /\ UNCHANGED <<strategy, src, tgt, flds, i_fld, data, out>>

\* the allreduce returns; with 'LocationAndClosest' and unlocated points
\* anywhere, the unlocated points get a sub numbering (collective), else
\* the interpolator is set up
Reduced(r) ==
  /\ pc[r] = "allreduce"
  /\ Returned(r)
  /\ LET tot == FoldFunction(+, 0, [q \in Ranks |-> n_unlocated(q)]) IN
       /\ n_tot' = [n_tot EXCEPT ![r] = tot]
       /\ IF strategy = "LocationAndClosest" /\ tot > 0
          THEN /\ one_or_two' = [one_or_two EXCEPT ![r] = 2]
               /\ Enter(r, "sub_numbering")
               /\ pc' = [pc EXCEPT ![r] = "sub_numbering"]
               /\ UNCHANGED <<n_mesh, slots>>
          ELSE /\ Setup(r, one_or_two[r], FALSE)
               /\ UNCHANGED <<ops, one_or_two>>
  /\ UNCHANGED <<strategy, src, tgt, flds, i_fld, data, out>>

\* create_sub_numbering returns; the rank enters _closest_points
SubNumbered(r) ==
  /\ pc[r] = "sub_numbering"
  /\ Returned(r)
  /\ Enter(r, "closest")
  /\ pc' = [pc EXCEPT ![r] = "closest"]
  /\ UNCHANGED <<strategy, src, tgt, n_tot, one_or_two, n_mesh, slots, flds, i_fld, data, out>>

\* _closest_points returns; after a location the results go back to the
\* parent numbering (collective), else the interpolator is set up
ClosestFound(r) ==
  /\ pc[r] = "closest"
  /\ Returned(r)
  /\ IF strategy # "Closest"
     THEN /\ Enter(r, "transform")
          /\ pc' = [pc EXCEPT ![r] = "transform"]
          /\ UNCHANGED <<n_mesh, slots>>
     ELSE Setup(r, one_or_two[r], TRUE) /\ UNCHANGED ops
  /\ UNCHANGED <<strategy, src, tgt, n_tot, one_or_two, flds, i_fld, data, out>>

\* transform_to_parent_gnum returns; the interpolator is set up
Transformed(r) ==
  /\ pc[r] = "transform"
  /\ Returned(r)
  /\ Setup(r, one_or_two[r], TRUE)
  /\ UNCHANGED <<strategy, src, tgt, ops, n_tot, one_or_two, flds, i_fld, data, out>>

\* [mutant] a rank without target part returns before the field loop
StartFields_no_target(r) ==
  /\ pc[r] = "fields"
  /\ out' = [out EXCEPT ![r] = [i \in DOMAIN tgt[r] |-> {}]]
  /\ IF \/ src[r] = <<>>
        \/ \E i \in DOMAIN src[r] : src[r][i].loc # "CellCenter"
     THEN pc' = [pc EXCEPT ![r] = "error"] /\ UNCHANGED <<ops, flds, i_fld, data>>
     ELSE LET fs == SetToSortSeq(src[r][Len(src[r])].fields, <) IN
          /\ flds' = [flds EXCEPT ![r] = fs]
          /\ i_fld' = [i_fld EXCEPT ![r] = 1]
          /\ IF fs = <<>> \/ tgt[r] = <<>>
             THEN pc' = [pc EXCEPT ![r] = "done"] /\ UNCHANGED <<ops, data>>
             ELSE /\ data' = [data EXCEPT ![r] = list_part_data_in(r)]
                  /\ Enter(r, "exch")
                  /\ pc' = [pc EXCEPT ![r] = "exch"]
  /\ UNCHANGED <<strategy, src, tgt, n_tot, one_or_two, n_mesh, slots>>

\* interpolate_fields: the check of the source containers, then the target
\* containers are recreated empty and the first field is exchanged.  The
\* loop over src_parts appends fields_name once, after the loop: the
\* fields of the last source part, unbound on a rank without source part.
StartFields(r) ==
  /\ pc[r] = "fields"
  /\ out' = [out EXCEPT ![r] = [i \in DOMAIN tgt[r] |-> {}]]
  /\ IF \/ src[r] = <<>>
        \/ \E i \in DOMAIN src[r] : src[r][i].loc # "CellCenter"
     THEN pc' = [pc EXCEPT ![r] = "error"] /\ UNCHANGED <<ops, flds, i_fld, data>>
     ELSE LET fs == SetToSortSeq(src[r][Len(src[r])].fields, <) IN
          /\ flds' = [flds EXCEPT ![r] = fs]
          /\ i_fld' = [i_fld EXCEPT ![r] = 1]
          /\ IF fs = <<>>
             THEN pc' = [pc EXCEPT ![r] = "done"] /\ UNCHANGED <<ops, data>>
             ELSE IF HasField(r, fs[1])
             THEN /\ data' = [data EXCEPT ![r] = list_part_data_in(r)]
                  /\ Enter(r, "exch")
                  /\ pc' = [pc EXCEPT ![r] = "exch"]
             ELSE pc' = [pc EXCEPT ![r] = "error"] /\ UNCHANGED <<ops, data>>
  /\ UNCHANGED <<strategy, src, tgt, n_tot, one_or_two, n_mesh, slots>>

\* interpolator.exch returns: the field is created in every target
\* container, and the next field, if any, is exchanged
Exchanged(r) ==
  /\ pc[r] = "exch"
  /\ Returned(r)
  /\ out' = [out EXCEPT ![r] = [i \in DOMAIN tgt[r] |-> @[i] \cup {flds[r][i_fld[r]]}]]
  /\ i_fld' = [i_fld EXCEPT ![r] = @ + 1]
  /\ IF i_fld[r] = Len(flds[r])
     THEN pc' = [pc EXCEPT ![r] = "done"] /\ UNCHANGED <<ops, data>>
     ELSE IF HasField(r, flds[r][i_fld[r] + 1])
     THEN /\ data' = [data EXCEPT ![r] = list_part_data_in(r)]
          /\ Enter(r, "exch")
          /\ UNCHANGED pc
     ELSE pc' = [pc EXCEPT ![r] = "error"] /\ UNCHANGED <<ops, data>>
  /\ UNCHANGED <<strategy, src, tgt, n_tot, one_or_two, n_mesh, slots, flds>>

Step(r) ==
  \/ Localize(r) \/ Localized(r) \/ Reduced(r) \/ SubNumbered(r)
  \/ ClosestFound(r) \/ Transformed(r) \/ StartFields(r) \/ Exchanged(r)

Next == \E r \in Ranks : Step(r)

\* an MPI process that is not blocked in a collective keeps running
Spec == Init /\ [][Next]_vars /\ \A r \in Ranks : WF_vars(Step(r))

-----------------------------------------------------------------------------
(* Properties                                                              *)

\* The docstrings of create_interpolator and interpolate_from_parts_per_dom:
\* every strategy of the list is accepted, and a rank that knows no
\* partition of a domain is given an empty entry.  No rank raises.
NoRankRaises == \A r \in Ranks : pc[r] # "error"

\* Every rank calls the same collectives in the same order: the choice of
\* the closest point phase is taken on the global n_tot_unlocated, and the
\* fields are exchanged in the same (sorted) order everywhere.
CollectivesMatch ==
  \A r, q \in Ranks : IsPrefix(ops[r], ops[q]) \/ IsPrefix(ops[q], ops[r])

\* The interpolator sees each of its one_or_two*n_part_src mesh parts
\* registered once by points_in_elt_set, and the data list given to
\* interpolator.exch puts at each mesh part the field of the source part
\* whose location (or closest point) results were registered there.
SlotsAligned ==
  \A r \in Ranks : pc[r] \in {"fields", "exch", "done"} =>
    LET s == slots[r] IN
      /\ Len(s) = n_mesh[r]
      /\ {s[k].slot : k \in DOMAIN s} = 0 .. n_mesh[r] - 1
      /\ data[r] # <<>> =>
           /\ Len(data[r]) = n_mesh[r]
           /\ \A k \in DOMAIN s : data[r][s[k].slot + 1] = s[k].part

\* interpolate_from_parts_per_dom returns on every rank, and then every
\* target container holds every field of the source container.
AllRanksReturn ==
  <>(\A r \in Ranks : pc[r] = "done" /\ \A i \in DOMAIN out[r] : out[r][i] = ToSet(flds[r]))
=============================================================================
