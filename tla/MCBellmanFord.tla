---------------------------- MODULE MCBellmanFord ----------------------------
(***************************************************************************)
(* BellmanFord over every graph of three tokens with at most MaxEdges      *)
(* edges, in every order of the edges.                                     *)
(***************************************************************************)
EXTENDS BellmanFord

\* Two- and three-token cycles of negative and positive weight, and the
\* three-token cycle of weight zero.
MCWeights == {-2, 1}

\* A rate good enough that one bad hop and one good hop still pay the fee.
MCSteepWeights == {-3, 1}
=============================================================================
