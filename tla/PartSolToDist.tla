---------------------------- MODULE PartSolToDist ----------------------------
(***************************************************************************)
(* part_sol_to_dist_sol (tree_exchange/part_to_dist/data_exchange.py) run *)
(* on every rank of a communicator:                                        *)
(*   - discover_partitioned_fields collects the FlowSolutions of the      *)
(*     rank's part zones absent from the dist zone, allgathers them and   *)
(*     adds the merged result to the rank's dist zone;                    *)
(*   - then, for each FlowSolution of the dist zone in child order, the   *)
(*     rank gathers the part fields under the dist field names and calls  *)
(*     part_to_dist, whose partial_to_full_distribution (Allgather) and   *)
(*     PartToBlock exchange are collectives.                              *)
(* A FlowSolution is a record [name, loc, fields]; a dict of the code is a *)
(* sequence of such records with distinct names, in insertion order.      *)
(* Field values are not modelled: only which fields exist where.          *)
(***************************************************************************)
EXTENDS Integers, Sequences, FiniteSets

CONSTANTS NRanks,    \* size of the communicator
          Scenarios  \* set of [dist_sols, parts, distri]

Ranks == 0 .. NRanks - 1
NONE == <<>>         \* a rank that has not yet entered the allgather

VARIABLES parts,     \* [Ranks -> Seq(Seq(sol))]: FlowSolutions of each part zone
          distri,    \* [Ranks -> [loc -> <<start, end, total>>]]: partial distributions
          pc,        \* [Ranks -> {"start", "gather", "sols", "exchange", "done", "error"}]
          contrib,   \* [Ranks -> <<new_sols>>]: what each rank gave the allgather
          dist,      \* [Ranks -> Seq(sol)]: the FlowSolutions of each rank's dist zone
          i_sol,     \* [Ranks -> Nat]: the dist FlowSolution the loop is at
          full       \* [Ranks -> Seq(Nat)]: last result of partial_to_full_distribution

vars == <<parts, distri, pc, contrib, dist, i_sol, full>>

-----------------------------------------------------------------------------
(* Helpers                                                                 *)

Names(d) == {d[i].name : i \in DOMAIN d}

\* d[name] = (type, loc, fields) on a dict in insertion order
DictPut(d, s) ==
  IF s.name \in Names(d)
  THEN [i \in DOMAIN d |-> IF d[i].name = s.name THEN s ELSE d[i]]
  ELSE Append(d, s)

RECURSIVE DictUpdate(_, _)
DictUpdate(d, e) == IF e = <<>> THEN d ELSE DictUpdate(DictPut(d, Head(e)), Tail(e))

\* every FlowSolution of the part zones of r, part after part
RECURSIVE PartSols(_)
PartSols(ps) == IF ps = <<>> THEN <<>> ELSE Head(ps) \o PartSols(Tail(ps))

-----------------------------------------------------------------------------
(* The code                                                                *)

\* discover_partitioned_fields, local part: the solutions of the part zones
\* not found in the dist zone, the last one of a name kept
new_sols(r) ==
  LET RECURSIVE collect(_, _)
      collect(d, ss) ==
        IF ss = <<>> THEN d
        ELSE collect(IF Head(ss).name \in Names(dist[r]) THEN d ELSE DictPut(d, Head(ss)),
                     Tail(ss))
  IN collect(<<>>, PartSols(parts[r]))

\* [mutant] the dict of the last rank is left out
RECURSIVE discovered_sols_but_last(_, _)
discovered_sols_but_last(d, q) ==
  IF q = NRanks - 1 THEN d
  ELSE discovered_sols_but_last(DictUpdate(d, contrib[q][1]), q + 1)

\* discovered_sols: the allgathered dicts applied with update, rank 0 first
RECURSIVE discovered_sols(_, _)
discovered_sols(d, q) == IF q = NRanks THEN d
                         ELSE discovered_sols(DictUpdate(d, contrib[q][1]), q + 1)

\* [mutant] the partial end taken as inclusive
partial_to_full_distribution_inclusive(loc) ==
  LET dn(q) == distri[q][loc][2] - distri[q][loc][1] + 1
      RECURSIVE cumsum(_)
      cumsum(i) == IF i = 0 THEN 0 ELSE cumsum(i - 1) + dn(i - 1)
  IN  [i \in 1 .. NRanks + 1 |-> cumsum(i - 1)]

\* partial_to_full_distribution: Allgather of every rank's dn, cumsum, 0 first
partial_to_full_distribution(loc) ==
  LET dn(q) == distri[q][loc][2] - distri[q][loc][1]
      RECURSIVE cumsum(_)
      cumsum(i) == IF i = 0 THEN 0 ELSE cumsum(i - 1) + dn(i - 1)
  IN  [i \in 1 .. NRanks + 1 |-> cumsum(i - 1)]

\* part_data has one key per field of the dist solution; a part field
\* under another name is a KeyError
KeyErrorOn(r, s) ==
  \E p \in DOMAIN parts[r] :
    \E ps \in {ps \in DOMAIN parts[r][p] : parts[r][p][ps].name = s.name} :
      ~ (parts[r][p][ps].fields \subseteq s.fields)

-----------------------------------------------------------------------------
(* Actions                                                                 *)

Init ==
  \E sc \in Scenarios :
    /\ parts = sc.parts
    /\ distri = sc.distri
    /\ pc = [r \in Ranks |-> "start"]
    /\ contrib = [r \in Ranks |-> NONE]
    /\ dist = [r \in Ranks |-> sc.dist_sols]
    /\ i_sol = [r \in Ranks |-> 0]
    /\ full = [r \in Ranks |-> <<>>]

\* discover_partitioned_fields: the rank enters comm.allgather(new_sols)
Discover(r) ==
  /\ pc[r] = "start"
  /\ contrib' = [contrib EXCEPT ![r] = <<new_sols(r)>>]
  /\ pc' = [pc EXCEPT ![r] = "gather"]
  /\ UNCHANGED <<parts, distri, dist, i_sol, full>>

\* the allgather returns once every rank has entered it; the discovered
\* solutions become children of the dist zone, and the loop of
\* part_sol_to_dist_sol starts on the first dist solution
Gathered(r) ==
  /\ pc[r] = "gather"
  /\ \A q \in Ranks : contrib[q] # NONE
  /\ LET d == dist[r] \o discovered_sols(<<>>, 0) IN
       /\ dist' = [dist EXCEPT ![r] = d]
       /\ i_sol' = [i_sol EXCEPT ![r] = 1]
       /\ pc' = [pc EXCEPT ![r] = IF d = <<>> THEN "done" ELSE "sols"]
  /\ UNCHANGED <<parts, distri, contrib, full>>

\* one turn of the loop: part_data is filled from the part zones, then
\* part_to_dist enters its collectives
SolStep(r) ==
  /\ pc[r] = "sols"
  /\ pc' = [pc EXCEPT ![r] = IF KeyErrorOn(r, dist[r][i_sol[r]]) THEN "error" ELSE "exchange"]
  /\ UNCHANGED <<parts, distri, contrib, dist, i_sol, full>>

\* part_to_dist returns once every rank has reached the same turn
Exchanged(r) ==
  /\ pc[r] = "exchange"
  /\ \A q \in Ranks : \/ i_sol[q] > i_sol[r]
                      \/ i_sol[q] = i_sol[r] /\ pc[q] = "exchange"
  /\ full' = [full EXCEPT ![r] = partial_to_full_distribution(dist[r][i_sol[r]].loc)]
  /\ i_sol' = [i_sol EXCEPT ![r] = @ + 1]
  /\ pc' = [pc EXCEPT ![r] = IF i_sol[r] = Len(dist[r]) THEN "done" ELSE "sols"]
  /\ UNCHANGED <<parts, distri, contrib, dist>>

\* every rank has returned
Terminated ==
  /\ \A r \in Ranks : pc[r] = "done"
  /\ UNCHANGED vars

Next ==
  \/ \E r \in Ranks : Discover(r) \/ Gathered(r) \/ SolStep(r) \/ Exchanged(r)
  \/ Terminated

Spec == Init /\ [][Next]_vars

-----------------------------------------------------------------------------
(* Properties                                                              *)

\* The docstring of part_sol_to_dist_sol: data created on one or more
\* partitions and absent from the dist tree is reported to the dist zone.
\* Once a rank has merged the allgathered solutions, every field of every
\* solution created on any partition of any rank is a field of the
\* solution of that name in its dist zone.
FieldsReported ==
  \A r \in Ranks : pc[r] \notin {"start", "gather"} =>
    \A q \in Ranks : \A p \in DOMAIN parts[q] : \A ps \in DOMAIN parts[q][p] :
      LET s == parts[q][p][ps] IN
        \E i \in DOMAIN dist[r] : dist[r][i].name = s.name /\ s.fields \subseteq dist[r][i].fields

\* The full distribution a rank hands to PartToBlock agrees with the
\* partial distribution of every rank: entry q is where rank q's block
\* starts, the last entry is the total size.
DistributionsMatch ==
  \A r \in Ranks : full[r] # <<>> =>
    LET loc == dist[r][i_sol[r] - 1].loc IN
      /\ \A q \in Ranks : full[r][q + 1] = distri[q][loc][1]
      /\ full[r][NRanks + 1] = distri[0][loc][3]
=============================================================================
