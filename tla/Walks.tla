-------------------------------- MODULE Walks --------------------------------
(***************************************************************************)
(* Walks over a weighted graph: non-empty sequences of nodes, each hop an  *)
(* edge. The graph is a parameter (nodes V, edges E, weights w), so that   *)
(* what is proved of walks holds of the detector's graph in every state.   *)
(***************************************************************************)
EXTENDS Integers, Sequences

\* The consecutive pairs of tokens of a cycle, as _evaluate_cycle pairs them.
Hops(p) == {<<p[i], p[i + 1]>> : i \in 1..(Len(p) - 1)}

\* The walks of k nodes.
WalksOver(V, E, k) == {p \in [1..k -> V] : Hops(p) \subseteq E}

\* The sum of the weights along a walk, hop by hop.
WalkWeight(p, w) ==
  LET sum[i \in 1..Len(p)] ==
        IF i = 1 THEN 0 ELSE sum[i - 1] + w[<<p[i - 1], p[i]>>]
  IN sum[Len(p)]
=============================================================================
