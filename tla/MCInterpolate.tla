---------------------------- MODULE MCInterpolate ----------------------------
(***************************************************************************)
(* Three ranks; each holds one or two source parts with the fields 1 and 2 *)
(* at CellCenter, and zero or one target part whose points are all located *)
(* or leave one point unlocated.                                           *)
(***************************************************************************)
EXTENDS Interpolate

Part == [loc |-> "CellCenter", fields |-> {1, 2}]

MCSrc == {<<Part>>, <<Part, Part>>}
MCTgt == {<<>>, <<0>>, <<1>>}

Inputs4(strategies, srcs) ==
  {[strategy |-> st, src |-> s, tgt |-> t] :
     st \in strategies, s \in [Ranks -> srcs], t \in [Ranks -> MCTgt]}

\* the strategies that reach the field exchange
MCInputs == Inputs4({"Location", "LocationAndClosest"}, MCSrc)

\* the 'Closest' strategy of the docstring
MCClosestInputs == Inputs4({"Closest"}, {<<Part>>})

\* rank 0 holds no partition of the source domain
MCEmptySrcInputs ==
  {i \in Inputs4({"LocationAndClosest"}, {<<>>, <<Part>>}) : i.src[0] = <<>> /\ i.src[1] # <<>>}

\* either of the two: the inputs on which the code raises
MCRaisingInputs == MCClosestInputs \cup MCEmptySrcInputs
=============================================================================
