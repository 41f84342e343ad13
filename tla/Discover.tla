------------------------------ MODULE Discover ------------------------------
(***************************************************************************)
(* discover_nodes_from_matching (tree_exchange/part_to_dist/discover.py), *)
(* called on every rank, and the walker of maia/sids/Internal_ext that it  *)
(* means to call.                                                          *)
(*                                                                         *)
(* The loop over the rank's part nodes (:24-25) calls                      *)
(* IE.iterNodesWithParentsByMatching, which Internal_ext does not define:  *)
(* on a rank holding a part node the attribute lookup raises              *)
(* AttributeError before anything is collected.  A rank holding none       *)
(* skips the loop, enters comm.allgather (:57) with an empty dict, and     *)
(* returns only if every rank entered it too.                              *)
(*                                                                         *)
(* The walker Internal_ext does define, getNodesWithParentsByMatching, and *)
(* the parsers of its getChildrenFrom* / requestChildFrom* accessors are   *)
(* pure operators below, checked against reference definitions on the     *)
(* part nodes of the state.  A tree node is [name, label, children];       *)
(* values are left out.  A dist node is the sequence of [path, childs] of  *)
(* its leaves, in the order they were created.                             *)
(***************************************************************************)
EXTENDS Integers, Sequences, FiniteSets, SequencesExt

CONSTANTS NRanks,        \* size of the communicator
          Inputs,        \* set of [dist, parts, queries, child_list]: the dist
                         \* leaves, each rank's part nodes (trees), the call's
                         \* queries and child_list
          Labels,        \* the members of CGK.Label
          SearchDepths   \* the depth arguments tried on the parsers (0: None)

Ranks == 0 .. NRanks - 1
NONE == <<>>             \* a rank that has not entered the allgather

VARIABLES parts,    \* [Ranks -> Seq(tree)]: each rank's part nodes
          queries,  \* the queries, a sequence of names and labels
          child_list, \* the names and labels of the leaf children to copy
          dist,     \* [Ranks -> Seq([path, childs])]: each rank's dist node
          gathered, \* [Ranks -> <<collected_part_nodes>>]
          pc        \* [Ranks -> {"collect", "gather", "raised", "done"}]

vars == <<parts, queries, child_list, dist, gathered, pc>>

Paths(d) == {d[i].path : i \in DOMAIN d}
(* Internal_ext: a string query is a label when it names a CGK.Label,    *)
(* a name otherwise; names are matched by fnmatch, here on names without  *)
(* wildcards and the pattern "*".                                         *)
is_valid_label(label) == label \in Labels

match_name(n, name) == name = "*" \/ n.name = name

match_label(n, label) == n.label = label

\* the predicate a string query stands for in getNodesDispatch1
QueryPredicate(predicate, c) ==
  IF is_valid_label(predicate) THEN match_label(c, predicate) ELSE match_name(c, predicate)

(* The parsers behind getChildrenFrom* (all matches) and                 *)
(* requestChildFrom* (the first match, None as <<>>), for the predicate  *)
(* of a string query q.  depth 0 stands for depth=None, which selects     *)
(* the parsers without a depth limit.                                     *)
Deeper(level, depth) == depth = 0 \/ level < depth

\* [mutant] the depth test lets the search go one level too deep
LevelNodesParser_dfs_off_by_one(parent, q, level, depth) ==
  LET RECURSIVE walk(_, _)
      walk(n, l) == FlattenSeq([i \in DOMAIN n.children |->
                      (IF QueryPredicate(q, n.children[i]) THEN <<n.children[i]>> ELSE <<>>)
                      \o (IF depth = 0 \/ l <= depth THEN walk(n.children[i], l + 1) ELSE <<>>)])
  IN walk(parent, level)

\* NodesParser.dfs / LevelNodesParser.dfs: each matching child, followed by
\* the matches below it while the level is under the depth
LevelNodesParser_dfs(parent, q, level, depth) ==
  LET RECURSIVE walk(_, _)
      walk(n, l) == FlattenSeq([i \in DOMAIN n.children |->
                      (IF QueryPredicate(q, n.children[i]) THEN <<n.children[i]>> ELSE <<>>)
                      \o (IF Deeper(l, depth) THEN walk(n.children[i], l + 1) ELSE <<>>)])
  IN walk(parent, level)

\* NodesParser.bfs / LevelNodesParser.bfs: the matching children, then the
\* search below each child in turn
LevelNodesParser_bfs(parent, q, level, depth) ==
  LET RECURSIVE walk(_, _)
      walk(n, l) == SelectSeq(n.children, LAMBDA c : QueryPredicate(q, c))
                    \o (IF Deeper(l, depth)
                        THEN FlattenSeq([i \in DOMAIN n.children |-> walk(n.children[i], l + 1)])
                        ELSE <<>>)
  IN walk(parent, level)

getChildrenFromPredicate(parent, q, method, depth) ==
  IF method = "dfs" THEN LevelNodesParser_dfs(parent, q, 1, depth)
                    ELSE LevelNodesParser_bfs(parent, q, 1, depth)

\* [mutant] the depth test lets the search go one level too deep
LevelNodeParser_dfs_off_by_one(parent, q, level, depth) ==
  LET RECURSIVE walk(_, _)
      walk(n, l) ==
        LET RECURSIVE loop(_)
            loop(i) ==
              IF i > Len(n.children) THEN <<>>
              ELSE IF QueryPredicate(q, n.children[i]) THEN <<n.children[i]>>
              ELSE LET r == IF depth = 0 \/ l <= depth THEN walk(n.children[i], l + 1) ELSE <<>>
                   IN  IF r # <<>> THEN r ELSE loop(i + 1)
        IN loop(1)
  IN walk(parent, level)

\* NodeParser.dfs / LevelNodeParser.dfs: the first child that matches or
\* has a match below it, in child order
LevelNodeParser_dfs(parent, q, level, depth) ==
  LET RECURSIVE walk(_, _)
      walk(n, l) ==
        LET RECURSIVE loop(_)
            loop(i) ==
              IF i > Len(n.children) THEN <<>>
              ELSE IF QueryPredicate(q, n.children[i]) THEN <<n.children[i]>>
              ELSE LET r == IF Deeper(l, depth) THEN walk(n.children[i], l + 1) ELSE <<>>
                   IN  IF r # <<>> THEN r ELSE loop(i + 1)
        IN loop(1)
  IN walk(parent, level)

\* NodeParser.bfs / LevelNodeParser.bfs: the first matching child, else the
\* first result of the search below each child in turn
LevelNodeParser_bfs(parent, q, level, depth) ==
  LET RECURSIVE walk(_, _)
      walk(n, l) ==
        LET here == SelectSeq(n.children, LAMBDA c : QueryPredicate(q, c))
            RECURSIVE below(_)
            below(i) ==
              IF i > Len(n.children) THEN <<>>
              ELSE LET r == walk(n.children[i], l + 1)
                   IN  IF r # <<>> THEN r ELSE below(i + 1)
        IN  IF here # <<>> THEN <<here[1]>>
            ELSE IF Deeper(l, depth) THEN below(1) ELSE <<>>
  IN walk(parent, level)

requestChildFromPredicate(parent, q, method, depth) ==
  IF method = "dfs" THEN LevelNodeParser_dfs(parent, q, 1, depth)
                    ELSE LevelNodeParser_bfs(parent, q, 1, depth)

\* [mutant] every query is taken for a name
getNodesDispatch1_by_name(node, predicate) ==
  SelectSeq(node.children, LAMBDA c : match_name(c, predicate))

\* getChildrenFromLabel1 / getChildrenFromName1, the partials of
\* create_methods with method='dfs' and depth=1
getNodesDispatch1(node, predicate) ==
  getChildrenFromPredicate(node, predicate, "dfs", 1)

\* the chains (node, *subnode) yielded, depth first, one level per predicate
RECURSIVE getNodesWithParentsByMatching__(_, _)
getNodesWithParentsByMatching__(root, predicate_list) ==
  LET next_roots == getNodesDispatch1(root, Head(predicate_list))
  IN  IF Len(predicate_list) > 1
      THEN FlattenSeq([i \in DOMAIN next_roots |->
             LET sub == getNodesWithParentsByMatching__(next_roots[i], Tail(predicate_list))
             IN  [k \in DOMAIN sub |-> <<next_roots[i]>> \o sub[k]]])
      ELSE IF Len(predicate_list) = 1
      THEN [i \in DOMAIN next_roots |-> <<next_roots[i]>>]
      ELSE <<>>

\* the leaf of path p after createUniqueChild along p and _addChild of cs:
\* an existing leaf keeps its children and gets cs appended
AddLeaf(d, p, cs) ==
  IF p \in Paths(d)
  THEN [i \in DOMAIN d |-> IF d[i].path = p THEN [path |-> p, childs |-> d[i].childs \o cs]
                                         ELSE d[i]]
  ELSE Append(d, [path |-> p, childs |-> cs])

\* The loop over comm.allgather(collected_part_nodes), the collections in
\* rank order: a path the dist node lacks is created with the collected
\* children, a path it has is skipped.
RECURSIVE merge_gathered(_, _)
merge_gathered(d, q) ==
  IF q = NRanks THEN d
  ELSE LET RECURSIVE add(_, _)
           add(dd, c) ==
             IF c = <<>> THEN dd
             ELSE add(IF Head(c).path \in Paths(dd) THEN dd
                      ELSE AddLeaf(dd, Head(c).path, Head(c).childs), Tail(c))
       IN merge_gathered(add(d, gathered[q][1]), q + 1)

Init ==
  \E in \in Inputs :
    /\ parts = in.parts
    /\ queries = in.queries
    /\ child_list = in.child_list
    /\ dist = [r \in Ranks |-> in.dist]
    /\ gathered = [r \in Ranks |-> NONE]
    /\ pc = [r \in Ranks |-> "collect"]

\* The loop over part_nodes: the first iteration looks up
\* IE.iterNodesWithParentsByMatching and raises AttributeError; without a
\* part node the loop is skipped and the rank enters comm.allgather with
\* the empty collected_part_nodes.
Collect(r) ==
  /\ pc[r] = "collect"
  /\ \/ /\ parts[r] # <<>>
        /\ pc' = [pc EXCEPT ![r] = "raised"]
        /\ UNCHANGED gathered
     \/ /\ parts[r] = <<>>
        /\ gathered' = [gathered EXCEPT ![r] = <<<<>>>>]
        /\ pc' = [pc EXCEPT ![r] = "gather"]
  /\ UNCHANGED <<parts, queries, child_list, dist>>

\* the allgather returns once every rank has entered it
Merge(r) ==
  /\ pc[r] = "gather"
  /\ \A q \in Ranks : gathered[q] # NONE
  /\ dist' = [dist EXCEPT ![r] = merge_gathered(dist[r], 0)]
  /\ pc' = [pc EXCEPT ![r] = "done"]
  /\ UNCHANGED <<parts, queries, child_list, gathered>>

\* A rank that raised stops, and the ranks in comm.allgather then wait
\* forever: the specification may stop in such a state.
Next == \E r \in Ranks : Collect(r) \/ Merge(r)

Spec == Init /\ [][Next]_vars

-----------------------------------------------------------------------------
(* Properties                                                              *)

(* Reference for the walker: the chains of nodes c1, ..., cn with c1 a     *)
(* child of the root, each next one a child of the last, and ck matching  *)
(* the k-th query, label or name, as the docstring's nested loops do.     *)
RECURSIVE Descents(_, _)
Descents(root, n) ==
  IF n = 0 THEN {<<>>}
  ELSE UNION {{<<root.children[i]>> \o t : t \in Descents(root.children[i], n - 1)}
              : i \in DOMAIN root.children}

MatchingChains(root, ql) ==
  {c \in Descents(root, Len(ql)) :
     \A k \in DOMAIN ql : IF ql[k] \in Labels THEN c[k].label = ql[k]
                                              ELSE ql[k] \in {"*", c[k].name}}

\* getNodesWithParentsByMatching yields, under every part node, each chain
\* of the nested getNodesFromLabel1/getNodesFromName1 loops of its
\* docstring, and each once: no chain is missed, duplicated or invented.
WalkerMatchesReference ==
  \A r \in Ranks : \A i \in DOMAIN parts[r] :
    LET w == getNodesWithParentsByMatching__(parts[r][i], queries) IN
    /\ ToSet(w) = MatchingChains(parts[r][i], queries)
    /\ Len(w) = Cardinality(ToSet(w))

(* Reference for the parsers: a node below the root is reached by its     *)
(* position, the sequence of child indices from the root; depth d keeps   *)
(* the positions of length at most d (d = 0: all of them).                *)
RECURSIVE Positions(_, _)
Positions(n, d) ==
  UNION {{<<i>>} \cup IF d = 1 THEN {}
                      ELSE {<<i>> \o p : p \in Positions(n.children[i], IF d = 0 THEN 0 ELSE d - 1)}
         : i \in DOMAIN n.children}

RECURSIVE At(_, _)
At(n, p) == IF p = <<>> THEN n ELSE At(n.children[Head(p)], Tail(p))

\* document order: a position comes before those below it, and before the
\* positions of its later siblings
RECURSIVE Before(_, _)
Before(a, b) ==
  \/ a = <<>> /\ b # <<>>
  \/ a # <<>> /\ b # <<>> /\ (Head(a) < Head(b) \/ (Head(a) = Head(b) /\ Before(Tail(a), Tail(b))))

\* every string query the call uses, in queries or in child_list
UsedQueries == ToSet(queries) \cup ToSet(child_list)

\* getChildrenFrom<Name|Label><depth> and their depth=None forms find,
\* under every part node, each node within the depth that the query
\* matches, and no other, each once; the dfs parser lists them in
\* document order.
LevelSearchReference ==
  \A r \in Ranks : \A i \in DOMAIN parts[r] : \A q \in UsedQueries : \A d \in SearchDepths :
    LET root == parts[r][i]
        want == {p \in Positions(root, d) : QueryPredicate(q, At(root, p))}
        order == SetToSortSeq(want, Before)
    IN  /\ \A m \in {"dfs", "bfs"} :
             LET got == getChildrenFromPredicate(root, q, m, d)
             IN  ToSet(got) = {At(root, p) : p \in want} /\ Len(got) = Cardinality(want)
        /\ getChildrenFromPredicate(root, q, "dfs", d)
             = [k \in DOMAIN order |-> At(root, order[k])]

\* requestChildFrom<Name|Label><depth>, which returns one node, returns the
\* first node the getChildrenFrom parser of the same method and depth
\* lists, and None exactly when that list is empty.
RequestIsFirst ==
  \A r \in Ranks : \A i \in DOMAIN parts[r] : \A q \in UsedQueries : \A d \in SearchDepths :
    \A m \in {"dfs", "bfs"} :
      LET root == parts[r][i]
          all == getChildrenFromPredicate(root, q, m, d)
      IN  requestChildFromPredicate(root, q, m, d)
            = IF all = <<>> THEN <<>> ELSE <<all[1]>>
=============================================================================
