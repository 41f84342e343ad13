----------------------------- MODULE MCDiscover -----------------------------
(***************************************************************************)
(* Three ranks calling discover on part zones holding joins (jn.0, jn.1,  *)
(* with different children) and boundary conditions; each rank holds     *)
(* none, one or two part zones.  The queries match by name ("*") or by     *)
(* label; child_list mixes label and name queries.  The dist node starts *)
(* empty, as in interpolate_from_part_trees, or with one of the BCs.      *)
(***************************************************************************)
EXTENDS Discover

MCLabels == {"Zone_t", "ZoneBC_t", "BC_t", "ZoneGridConnectivity_t",
             "GridConnectivity_t", "GridConnectivityProperty_t",
             "FamilyName_t", "Periodic_t"}

MCSearchDepths == 0 .. 3

Node(n, l, cs) == [name |-> n, label |-> l, children |-> cs]

FamName == Node("FamilyName", "FamilyName_t", <<>>)
GCP == Node("GridConnectivityProperty", "GridConnectivityProperty_t", <<>>)
Per == Node("Periodic", "Periodic_t", <<>>)
J0 == Node("jn.0", "GridConnectivity_t", <<GCP>>)
J1 == Node("jn.1", "GridConnectivity_t", <<GCP, Per>>)
Wall == Node("wall", "BC_t", <<FamName>>)
Inlet == Node("inlet", "BC_t", <<>>)

Zone(bcs, gcs) ==
  Node("zone", "Zone_t", <<Node("ZBC", "ZoneBC_t", bcs),
                           Node("ZGC", "ZoneGridConnectivity_t", gcs)>>)

PartOptions == {<<>>, <<Zone(<<>>, <<J0>>)>>, <<Zone(<<Wall>>, <<J1>>)>>,
                <<Zone(<<>>, <<J0>>), Zone(<<Inlet, Wall>>, <<>>)>>}

MCInputs ==
  {[dist |-> d,
    parts |-> ps, queries |-> q,
    child_list |-> <<"FamilyName_t", "GridConnectivityProperty", "Periodic_t">>] :
     d \in {<<>>, <<[path |-> <<"ZBC", "inlet">>, childs |-> <<"FamilyName">>]>>},
     ps \in [Ranks -> PartOptions],
     q \in {<<"*", "*">>, <<"ZoneGridConnectivity_t", "GridConnectivity_t">>}}
=============================================================================
