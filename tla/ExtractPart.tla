----------------------------- MODULE ExtractPart -----------------------------
(***************************************************************************)
(* extract_part_from_zsr (algo/part/extract_part.py) on every rank of a    *)
(* communicator, for a partitioned tree of one domain and one container:   *)
(*   - create_extractor_from_zsr reads the ZoneSubRegion of each part and  *)
(*     agrees on its GridLocation (allreduce MAX);                         *)
(*   - Extractor.__init__ shifts the PointLists by starting_elt and builds *)
(*     the extracted zone with ParaDiGM's ExtractPart (collective);       *)
(*   - exchange_fields elects the highest rank holding parts as master,   *)
(*     broadcasts its location and field names, exchanges the PointList   *)
(*     of a partial container, then every field.                           *)
(*                                                                         *)
(* Collectives are entered by appending [op, arg] to the rank's ops; a     *)
(* rank returns from its k-th collective once every rank has entered k.    *)
(* Meshes and values are left out: a part is whether it holds the         *)
(* ZoneSubRegion, and its container [label, loc, fields, pl] where pl      *)
(* tells whether the container has a PointList.                            *)
(***************************************************************************)
EXTENDS Integers, Sequences, SequencesExt

CONSTANTS NRanks,   \* size of the communicator
          Inputs    \* set of [zsr_loc, parts, order, exchange]

Ranks == 0 .. NRanks - 1
NONE == -1

\* Python's order on the location strings, '' first
LocOrder == [l \in {"", "CellCenter", "EdgeCenter", "FaceCenter", "Vertex"} |->
               CASE l = ""           -> 0
                 [] l = "CellCenter" -> 1
                 [] l = "EdgeCenter" -> 2
                 [] l = "FaceCenter" -> 3
                 [] l = "Vertex"     -> 4]

VARIABLES zsr_loc,   \* GridLocation of the ZoneSubRegion (the same on every part)
          parts,     \* [Ranks -> Seq([zsr, cont])]: the rank's part zones
          order,     \* [Ranks -> Seq(field)]: the rank's iteration order of the
                     \* field name set (string hashing differs between processes)
          exchange,  \* containers_name is given
          pc,        \* [Ranks -> step of the rank]
          ops,       \* [Ranks -> Seq([op, arg])]: the collectives entered
          location,  \* [Ranks -> location]: local, then the allreduced one
          dim,       \* [Ranks -> Int]: dimension of the extraction
          master,    \* [Ranks -> Int]: rank whose container description is used
          partial,   \* [Ranks -> BOOLEAN]: partial_field
          i_fld,     \* [Ranks -> Nat]: field being exchanged
          ep_cont    \* [Ranks -> [label, loc, pl, fields]]: the extracted container

vars == <<zsr_loc, parts, order, exchange, pc, ops, location, dim, master, partial, i_fld, ep_cont>>

-----------------------------------------------------------------------------
(* Collectives                                                             *)

Enter(r, op, arg) == ops' = [ops EXCEPT ![r] = Append(@, [op |-> op, arg |-> arg])]

Returned(r) == \A q \in Ranks : Len(ops[q]) >= Len(ops[r])

-----------------------------------------------------------------------------
(* The code                                                                *)

\* Element nodes of a part zone, or of the extracted zone of dimension d
\* (NGon from dim 2, NFace in dim 3)
PartKinds == {"NGon", "NFace"}

ep_kinds(d) == (IF d >= 2 THEN {"NGon"} ELSE {}) \cup (IF d = 3 THEN {"NFace"} ELSE {})

\* starting_elt builds its whole switcher: it reads the ElementRange of
\* NGonElements and NFaceElements whatever the location, and raises on a
\* zone without one of them; EdgeCenter gives None
starting_elt_defined(kinds, loc) == PartKinds \subseteq kinds /\ loc # "EdgeCenter"

select_dim == [l \in {"Vertex", "EdgeCenter", "FaceCenter", "CellCenter"} |->
                 CASE l = "Vertex"     -> 0
                   [] l = "EdgeCenter" -> 1
                   [] l = "FaceCenter" -> 2
                   [] l = "CellCenter" -> 3]

\* the part_to_part objects of extract_part_one_domain (equilibrate = 1)
ptp_locs(d) == {"Vertex"} \cup (IF d >= 2 THEN {"FaceCenter"} ELSE {})
                          \cup (IF d = 3 THEN {"CellCenter"} ELSE {})

\* create_extractor_from_zsr: the location of the last part holding the ZSR
zsr_location(r) ==
  IF \E i \in DOMAIN parts[r] : parts[r][i].zsr THEN zsr_loc ELSE ""

\* the parts of a rank agree on the label, location and field names of the
\* container (append_unique of each, then the assert of line 135)
ContsAgree(r) ==
  \A i, j \in DOMAIN parts[r] :
    LET a == parts[r][i].cont
        b == parts[r][j].cont
    IN  a.label = b.label /\ a.loc = b.loc /\ a.fields = b.fields

\* comm.allreduce(tag, op=MPI.MAX)
MaxTag == LET tags == {IF parts[q] # <<>> THEN q ELSE -1 : q \in Ranks}
          IN  CHOOSE t \in tags : \A u \in tags : u <= t

\* loc_and_fields of the master, as broadcast: list(fld_names) in the
\* master's iteration order
MasterCont(m) == [parts[m][1].cont EXCEPT !.fields = order[m]]

-----------------------------------------------------------------------------
(* Actions                                                                 *)

Init ==
  \E in \in Inputs :
    /\ zsr_loc = in.zsr_loc
    /\ parts = in.parts
    /\ order = in.order
    /\ exchange = in.exchange
    /\ pc = [r \in Ranks |-> "start"]
    /\ ops = [r \in Ranks |-> <<>>]
    /\ location = [r \in Ranks |-> ""]
    /\ dim = [r \in Ranks |-> NONE]
    /\ master = [r \in Ranks |-> NONE]
    /\ partial = [r \in Ranks |-> FALSE]
    /\ i_fld = [r \in Ranks |-> 0]
    /\ ep_cont = [r \in Ranks |-> [label |-> "", loc |-> "", pl |-> FALSE, fields |-> {}]]

\* create_extractor_from_zsr: the point lists and location of the ZSR on
\* each part, then comm.allreduce(location, op=MPI.MAX)
CreateExtractor(r) ==
  /\ pc[r] = "start"
  /\ location' = [location EXCEPT ![r] = zsr_location(r)]
  /\ Enter(r, "allreduce", "location")
  /\ pc' = [pc EXCEPT ![r] = "location"]
  /\ UNCHANGED <<zsr_loc, parts, order, exchange, dim, master, partial, i_fld, ep_cont>>

\* Extractor.__init__: the agreed location gives the dimension (an
\* unknown location or EdgeCenter fails the asserts); the point lists are
\* shifted by starting_elt of each part zone, which has both NGon and
\* NFace, and the rank enters ExtractPart's computation
ExtractorInit(r) ==
  /\ pc[r] = "location"
  /\ Returned(r)
  /\ LET loc == CHOOSE l \in {location[q] : q \in Ranks} :
                  \A q \in Ranks : LocOrder[location[q]] <= LocOrder[l]
     IN /\ location' = [location EXCEPT ![r] = loc]
        /\ IF loc \in {"Vertex", "FaceCenter", "CellCenter"}
           THEN /\ dim' = [dim EXCEPT ![r] = select_dim[loc]]
                /\ Enter(r, "extract_part", select_dim[loc])
                /\ pc' = [pc EXCEPT ![r] = "extract"]
           ELSE pc' = [pc EXCEPT ![r] = "error"] /\ UNCHANGED <<ops, dim>>
  /\ UNCHANGED <<zsr_loc, parts, order, exchange, master, partial, i_fld, ep_cont>>

\* ExtractPart.compute returns and the extracted zone is built; with
\* containers to transfer, exchange_fields scans the rank's containers and
\* enters the election of the master
Extracted(r) ==
  /\ pc[r] = "extract"
  /\ Returned(r)
  /\ IF ~ exchange
     THEN pc' = [pc EXCEPT ![r] = "done"] /\ UNCHANGED ops
     ELSE IF ~ ContsAgree(r)
     THEN pc' = [pc EXCEPT ![r] = "error"] /\ UNCHANGED ops
     ELSE /\ Enter(r, "allreduce", "tag")
          /\ pc' = [pc EXCEPT ![r] = "master"]
  /\ UNCHANGED <<zsr_loc, parts, order, exchange, location, dim, master, partial, i_fld, ep_cont>>

\* [mutant] each rank takes its own tag as the root of the bcast
Elected_own_tag(r) ==
  /\ pc[r] = "master"
  /\ Returned(r)
  /\ LET tag == IF parts[r] # <<>> THEN r ELSE -1 IN
       /\ master' = [master EXCEPT ![r] = tag]
       /\ Enter(r, "bcast", tag)
  /\ pc' = [pc EXCEPT ![r] = "bcast"]
  /\ UNCHANGED <<zsr_loc, parts, order, exchange, location, dim, partial, i_fld, ep_cont>>

\* the allreduce returns the master; the rank enters comm.bcast from it
Elected(r) ==
  /\ pc[r] = "master"
  /\ Returned(r)
  /\ master' = [master EXCEPT ![r] = MaxTag]
  /\ Enter(r, "bcast", MaxTag)
  /\ pc' = [pc EXCEPT ![r] = "bcast"]
  /\ UNCHANGED <<zsr_loc, parts, order, exchange, location, dim, partial, i_fld, ep_cont>>

\* the broadcast returns the location and fields of the master; the rank
\* checks them against its own labels, takes the part_to_part of the
\* location, creates the extracted container, and exchanges the gnums of a
\* partial container if the last of its parts has a PointList
Broadcast(r) ==
  /\ pc[r] = "bcast"
  /\ Returned(r)
  /\ LET mc == MasterCont(master[r]) IN
     IF \/ mc.loc \notin {"Vertex", "CellCenter"}
        \/ parts[r] = <<>>
        \/ mc.loc \notin ptp_locs(dim[r])
     THEN pc' = [pc EXCEPT ![r] = "error"] /\ UNCHANGED <<ops, partial, ep_cont>>
     ELSE LET own == parts[r][Len(parts[r])].cont IN
          /\ partial' = [partial EXCEPT ![r] = \E i \in DOMAIN parts[r] : parts[r][i].cont.pl]
          /\ ep_cont' = [ep_cont EXCEPT ![r] =
                          [label |-> own.label, loc |-> mc.loc, pl |-> FALSE, fields |-> {}]]
          /\ IF own.pl
             THEN Enter(r, "reverse_iexch", "gnum") /\ pc' = [pc EXCEPT ![r] = "pl"]
             ELSE IF mc.fields = <<>>
             THEN pc' = [pc EXCEPT ![r] = "done"] /\ UNCHANGED ops
             ELSE /\ Enter(r, "reverse_iexch", <<mc.fields[1], partial'[r]>>)
                  /\ pc' = [pc EXCEPT ![r] = "field"]
  /\ i_fld' = [i_fld EXCEPT ![r] = 1]
  /\ UNCHANGED <<zsr_loc, parts, order, exchange, location, dim, master>>

\* the gnums come back: the PointList of the extracted container is
\* shifted by starting_elt of the extracted zone, and the rank enters
\* compute_gnum_from_parent_gnum
PointListExchanged(r) ==
  /\ pc[r] = "pl"
  /\ Returned(r)
  /\ IF starting_elt_defined(ep_kinds(dim[r]), ep_cont[r].loc)
     THEN /\ ep_cont' = [ep_cont EXCEPT ![r].pl = TRUE]
          /\ Enter(r, "gnum_from_parent", NONE)
          /\ pc' = [pc EXCEPT ![r] = "gnum"]
     ELSE pc' = [pc EXCEPT ![r] = "error"] /\ UNCHANGED <<ops, ep_cont>>
  /\ UNCHANGED <<zsr_loc, parts, order, exchange, location, dim, master, partial, i_fld>>

\* the sub numbering is computed; the field loop starts
Numbered(r) ==
  /\ pc[r] = "gnum"
  /\ Returned(r)
  /\ LET fs == MasterCont(master[r]).fields IN
     IF fs = <<>>
     THEN pc' = [pc EXCEPT ![r] = "done"] /\ UNCHANGED ops
     ELSE Enter(r, "reverse_iexch", <<fs[1], partial[r]>>) /\ pc' = [pc EXCEPT ![r] = "field"]
  /\ UNCHANGED <<zsr_loc, parts, order, exchange, location, dim, master, partial, i_fld, ep_cont>>

\* [mutant] the loop stops one field early
FieldExchanged_stop_early(r) ==
  /\ pc[r] = "field"
  /\ Returned(r)
  /\ LET fs == MasterCont(master[r]).fields IN
       /\ ep_cont' = [ep_cont EXCEPT ![r].fields = @ \cup {fs[i_fld[r]]}]
       /\ i_fld' = [i_fld EXCEPT ![r] = @ + 1]
       /\ IF i_fld[r] >= Len(fs) - 1
          THEN pc' = [pc EXCEPT ![r] = "done"] /\ UNCHANGED ops
          ELSE Enter(r, "reverse_iexch", <<fs[i_fld[r] + 1], partial[r]>>) /\ UNCHANGED pc
  /\ UNCHANGED <<zsr_loc, parts, order, exchange, location, dim, master, partial>>

\* reverse_wait returns the field, placed in the extracted container; the
\* next field of the broadcast list is exchanged
FieldExchanged(r) ==
  /\ pc[r] = "field"
  /\ Returned(r)
  /\ LET fs == MasterCont(master[r]).fields IN
       /\ ep_cont' = [ep_cont EXCEPT ![r].fields = @ \cup {fs[i_fld[r]]}]
       /\ i_fld' = [i_fld EXCEPT ![r] = @ + 1]
       /\ IF i_fld[r] = Len(fs)
          THEN pc' = [pc EXCEPT ![r] = "done"] /\ UNCHANGED ops
          ELSE Enter(r, "reverse_iexch", <<fs[i_fld[r] + 1], partial[r]>>) /\ UNCHANGED pc
  /\ UNCHANGED <<zsr_loc, parts, order, exchange, location, dim, master, partial>>

Step(r) ==
  \/ CreateExtractor(r) \/ ExtractorInit(r) \/ Extracted(r) \/ Elected(r)
  \/ Broadcast(r) \/ PointListExchanged(r) \/ Numbered(r) \/ FieldExchanged(r)

Next == \E r \in Ranks : Step(r)

\* an MPI process that is not blocked in a collective keeps running
Spec == Init /\ [][Next]_vars /\ \A r \in Ranks : WF_vars(Step(r))

-----------------------------------------------------------------------------
(* Properties                                                              *)

\* The docstring of extract_part_from_zsr: the submesh is extracted and
\* the containers of containers_name are transferred to it; the code of
\* exchange_field_one_domain sets tag -1 for a rank without part.  No rank
\* raises.  The extract_part run leaves out the inputs that reach an error
\* path; on MCRankWithoutPartInputs (IndexError at :144) and
\* MCSurfaceZsrInputs (starting_elt at :23) this property is violated.
NoRankRaises == \A r \in Ranks : pc[r] # "error"

\* Every rank calls the same collectives, with the same root, field and
\* exchange kind, in the same order: the master and the field list are
\* agreed through allreduce and bcast, and the per-rank choices (the
\* PointList exchange, partial or not) agree.
CollectivesMatch ==
  \A r, q \in Ranks : IsPrefix(ops[r], ops[q]) \/ IsPrefix(ops[q], ops[r])

\* Every rank returns; then the extracted container of each rank has every
\* field of the container, and a PointList exactly when the source
\* container has one.
AllRanksReturn ==
  <>(\A r \in Ranks :
       /\ pc[r] = "done"
       /\ exchange =>
            LET c == MasterCont(master[r]) IN
              /\ ep_cont[r].fields = ToSet(c.fields)
              /\ ep_cont[r].pl = c.pl)
=============================================================================
