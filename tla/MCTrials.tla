-------------------------------- MODULE MCTrials -------------------------------
(* FindTour on problems of five nodes.                                         *)
EXTENDS Trials

\* Costs of pairs of nodes.  Ties has many tours of equal cost.  With one candidate
\* for each node, a search in Merging may end in a tour that merging with the
\* ordinal one improves.  Chains and Loose have candidates enough for chains of
\* moves that do not improve, up to two of them, some of which fail.
Ties == <<<<0,2,4,4,2>>, <<2,0,2,4,3>>, <<4,2,0,2,4>>, <<4,4,2,0,2>>, <<2,3,4,2,0>>>>
Mixed == <<<<0,7,2,9,4>>, <<7,0,5,1,8>>, <<2,5,0,6,3>>, <<9,1,6,0,2>>, <<4,8,3,2,0>>>>
Merging == <<<<0,4,5,7,2>>, <<4,0,4,2,7>>, <<5,4,0,5,5>>, <<7,2,5,0,4>>, <<2,7,5,4,0>>>>
Chains == <<<<0,2,4,1,2>>, <<2,0,3,4,3>>, <<4,3,0,1,1>>, <<1,4,1,0,3>>, <<2,3,1,3,0>>>>
Loose == <<<<0,1,1,2,3>>, <<1,0,2,1,4>>, <<1,2,0,4,2>>, <<2,1,4,0,2>>, <<3,4,2,2,0>>>>

\* The k nearest of a node.
Nearest(c, k) ==
    [x \in 1..N |-> {y \in 1..N \ {x} : Cardinality({z \in 1..N \ {x, y} : c[x][z] < c[x][y]}) < k}]

MCInstances ==
    {[c |-> Mixed, cand |-> Nearest(Mixed, 2), opt |-> 3, restricted |-> FALSE,
      tree |-> {{1,3}, {2,4}, {4,5}, {3,5}, {2,3}}, runs |-> 2, trials |-> 2],
     [c |-> Ties, cand |-> Nearest(Ties, 2), opt |-> 2, restricted |-> TRUE,
      tree |-> {{1,2}, {2,3}, {3,4}, {4,5}, {1,5}}, runs |-> 2, trials |-> 2],
     [c |-> Merging, cand |-> Nearest(Merging, 1), opt |-> 2, restricted |-> FALSE,
      tree |-> {{1,5}, {1,2}, {2,4}, {2,3}, {1,3}}, runs |-> 2, trials |-> 1],
     [c |-> Chains, cand |-> Nearest(Chains, 3), opt |-> 3, restricted |-> FALSE,
      tree |-> {{1,4}, {3,4}, {3,5}, {1,2}, {2,3}}, runs |-> 1, trials |-> 1],
     [c |-> Loose, cand |-> Nearest(Loose, 3), opt |-> 2, restricted |-> FALSE,
      tree |-> {{1,2}, {1,3}, {2,4}, {3,5}, {1,4}}, runs |-> 1, trials |-> 2]}

MCMoveTypes == {2, 3}

=============================================================================
