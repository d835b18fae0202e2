----------------------------- MODULE BellmanFord -----------------------------
(***************************************************************************)
(* The negative-cycle detector of nexus_arb/algorithms/bellman_ford.py,    *)
(* one action per iteration of its loops: V-1 relaxation passes with early *)
(* termination, the V-th pass that flags nodes, and the walk along the     *)
(* predecessors that rebuilds a cycle from each flagged node.              *)
(*                                                                         *)
(* Weights are integers standing for -log(rate); an edge of infinite       *)
(* weight (a pool without a price) never relaxes: it is left out, and so   *)
(* are the tokens only such edges reach, which would add idle passes.      *)
(***************************************************************************)
EXTENDS Walks, FiniteSets

CONSTANTS
  Tokens,   \* indices of the sorted token list, from 1
  Weights,  \* the edge weights considered
  MaxEdges, \* bound of the model: edges of the graph
  FlashFee  \* -log of 1 / (1 + flash_loan_fee)

ASSUME GraphAssumption ==
  /\ Tokens \subseteq Nat \ {0}
  /\ Weights \subseteq Int
  /\ MaxEdges \in Nat
  /\ FlashFee \in Nat

VARIABLES
  order,   \* the keys of the weight dict, in iteration order
  weight,  \* the weight dict
  dist, pred,
  phase,   \* relax, detect, pick, back, trace or done
  pass,    \* the relaxation pass, from 1
  pos,     \* position of the next edge in the pass
  updated, \* an edge was relaxed in this pass
  flagged, \* neg_cycle_nodes
  todo,    \* flagged nodes not yet traced
  cursor,  \* v of _reconstruct_cycle
  hops,    \* steps walked back from the flagged node
  trail,   \* the list `cycle` while it is being built
  cycles   \* the distinct cycles rebuilt

graphVars == <<order, weight>>
searchVars == <<dist, pred, pass, updated, flagged>>
traceVars == <<todo, cursor, hops, trail, cycles>>
vars == <<graphVars, searchVars, phase, pos, traceVars>>

\* pred is -1 in the code where it is NoPred here.
NoPred == 0

Pairs == {e \in Tokens \X Tokens : e[1] # e[2]}
EdgesOf(s) == {s[i] : i \in DOMAIN s}
Edges == EdgesOf(order)
EndPoints == {e[1] : e \in Edges} \cup {e[2] : e \in Edges}

\* n: tokens() only knows the end points of edges.
TokenCount == Cardinality(EndPoints)

\* Pools can be quoted first in any order, and in one direction only.
EdgeOrders ==
  {s \in UNION {[1..k -> Pairs] : k \in 0..MaxEdges} :
     \A i, j \in DOMAIN s : s[i] = s[j] => i = j}

Phases == {"relax", "detect", "pick", "back", "trace", "done"}

Init ==
  /\ order \in EdgeOrders
  /\ weight \in [Edges -> Weights]
  /\ dist = [t \in Tokens |-> 0]
  /\ pred = [t \in Tokens |-> NoPred]
  /\ phase = IF TokenCount < 2 THEN "done" ELSE "relax"
  /\ pass = 1
  /\ pos = 1
  /\ updated = FALSE
  /\ flagged = {}
  /\ todo = {}
  /\ cursor = NoPred
  /\ hops = 0
  /\ trail = <<>>
  /\ cycles = {}

-----------------------------------------------------------------------------
\* A faulty test that also relaxes on equal distances.
RelaxableOrEqual(e) == dist[e[1]] + weight[e] <= dist[e[2]]

Relaxable(e) == dist[e[1]] + weight[e] < dist[e[2]]

\* A faulty pass that only remembers whether its last edge was relaxed.
RelaxEdgeForgetting ==
  /\ phase = "relax"
  /\ pos <= Len(order)
  /\ LET e == order[pos]
     IN /\ updated' = Relaxable(e)
        /\ IF Relaxable(e)
             THEN /\ dist' = [dist EXCEPT ![e[2]] = dist[e[1]] + weight[e]]
                  /\ pred' = [pred EXCEPT ![e[2]] = e[1]]
             ELSE UNCHANGED <<dist, pred>>
  /\ pos' = pos + 1
  /\ UNCHANGED <<graphVars, phase, pass, flagged, traceVars>>

RelaxEdge ==
  /\ phase = "relax"
  /\ pos <= Len(order)
  /\ LET e == order[pos]
     IN IF Relaxable(e)
          THEN /\ dist' = [dist EXCEPT ![e[2]] = dist[e[1]] + weight[e]]
               /\ pred' = [pred EXCEPT ![e[2]] = e[1]]
               /\ updated' = TRUE
          ELSE UNCHANGED <<dist, pred, updated>>
  /\ pos' = pos + 1
  /\ UNCHANGED <<graphVars, phase, pass, flagged, traceVars>>

\* A faulty loop that runs one pass too few.
LastPassEarly == pass >= TokenCount - 2 \/ ~updated

\* The last of the n - 1 passes, or one that changed nothing.
LastPass == pass >= TokenCount - 1 \/ ~updated

EndPass ==
  /\ phase = "relax"
  /\ pos > Len(order)
  /\ IF LastPass
       THEN phase' = "detect" /\ UNCHANGED <<pass, updated>>
       ELSE pass' = pass + 1 /\ updated' = FALSE /\ UNCHANGED phase
  /\ pos' = 1
  /\ UNCHANGED <<graphVars, dist, pred, flagged, traceVars>>

\* The V-th pass changes neither dist nor pred.
DetectEdge ==
  /\ phase = "detect"
  /\ pos <= Len(order)
  /\ flagged' = IF Relaxable(order[pos]) THEN flagged \cup {order[pos][2]}
                                         ELSE flagged
  /\ pos' = pos + 1
  /\ UNCHANGED <<graphVars, dist, pred, pass, updated, phase, traceVars>>

EndDetect ==
  /\ phase = "detect"
  /\ pos > Len(order)
  /\ phase' = "pick"
  /\ todo' = flagged
  /\ UNCHANGED <<graphVars, searchVars, pos, cursor, hops, trail, cycles>>

-----------------------------------------------------------------------------
\* A faulty loop that comes back to a node already traced.
PickNodeAgain ==
  /\ phase = "pick"
  /\ \E v \in todo : cursor' = v
  /\ phase' = "back"
  /\ hops' = 0
  /\ UNCHANGED <<graphVars, searchVars, pos, todo, trail, cycles>>

PickNode ==
  /\ phase = "pick"
  /\ \E v \in todo : cursor' = v /\ todo' = todo \ {v}
  /\ phase' = "back"
  /\ hops' = 0
  /\ UNCHANGED <<graphVars, searchVars, pos, trail, cycles>>

\* The walk met -1: no cycle from this node.
GiveUp ==
  /\ phase' = "pick"
  /\ UNCHANGED <<graphVars, searchVars, pos, todo, cursor, hops, trail, cycles>>

\* A faulty walk that takes -1 for a node.
StepBackUnchecked ==
  /\ phase = "back"
  /\ hops < TokenCount
  /\ cursor' = pred[cursor]
  /\ hops' = hops + 1
  /\ UNCHANGED <<graphVars, searchVars, phase, pos, todo, trail, cycles>>

\* One of the n steps that lead into the cycle.
StepBack ==
  /\ phase = "back"
  /\ hops < TokenCount
  /\ IF pred[cursor] = NoPred
       THEN GiveUp
       ELSE /\ cursor' = pred[cursor]
            /\ hops' = hops + 1
            /\ UNCHANGED <<graphVars, searchVars, phase, pos, todo, trail, cycles>>

StartTrail ==
  /\ phase = "back"
  /\ hops = TokenCount
  /\ phase' = "trace"
  /\ trail' = <<cursor>>
  /\ UNCHANGED <<graphVars, searchVars, pos, todo, cursor, hops, cycles>>

\* A faulty closing that forgets to reverse: it leaves the pools backwards.
CloseCycleBackwards(s, k) ==
  [i \in 1..(Len(s) - k + 2) |-> IF i <= Len(s) - k + 1 THEN s[k + i - 1] ELSE s[k]]

\* s from its k-th element on, closed with that element, in trading order.
CloseCycle(s, k) ==
  [i \in 1..(Len(s) - k + 2) |-> IF i = 1 THEN s[k] ELSE s[Len(s) - i + 2]]

\* Another node of the trail, or the end of it: trim to the cycle, close it,
\* and keep it unless its set of tokens was seen.
TraceBack ==
  /\ phase = "trace"
  /\ LET u == pred[trail[Len(trail)]]
     IN \/ /\ u = NoPred
           /\ GiveUp
        \/ /\ u # NoPred
           /\ \A k \in DOMAIN trail : trail[k] # u
           /\ trail' = Append(trail, u)
           /\ UNCHANGED <<graphVars, searchVars, phase, pos, todo, cursor, hops,
                          cycles>>
        \/ \E k \in DOMAIN trail :
             /\ trail[k] = u
             /\ LET c == CloseCycle(trail, k)
                IN cycles' = IF \E d \in cycles : EdgesOf(d) = EdgesOf(c)
                               THEN cycles ELSE cycles \cup {c}
             /\ phase' = "pick"
             /\ UNCHANGED <<graphVars, searchVars, pos, todo, cursor, hops, trail>>

Finish ==
  /\ phase = "pick"
  /\ todo = {}
  /\ phase' = "done"
  /\ UNCHANGED <<graphVars, searchVars, pos, traceVars>>

Next ==
  \/ RelaxEdge \/ EndPass \/ DetectEdge \/ EndDetect
  \/ PickNode \/ StepBack \/ StartTrail \/ TraceBack \/ Finish

Spec == Init /\ [][Next]_vars

\* The detector is one synchronous function.
FairSpec == Spec /\ WF_vars(Next)

-----------------------------------------------------------------------------
\* The sum of the weights along a simple cycle.
CycleWeight(c) == WalkWeight(c, weight)

\* _evaluate_cycle: a profit must remain after the flash loan's fee.
Profitable(c) == CycleWeight(c) + FlashFee < 0

\* What detect returns, unsorted.
Opportunities == {c \in cycles : Profitable(c)}

\* Every simple closed walk of the graph, for reference.
ClosedWalks ==
  {c \in UNION {[1..k -> EndPoints] : k \in 3..(TokenCount + 1)} :
     /\ c[1] = c[Len(c)]
     /\ \A i, j \in 1..(Len(c) - 1) : c[i] = c[j] => i = j
     /\ Hops(c) \subseteq Edges}

NegativeCycleExists == \E c \in ClosedWalks : CycleWeight(c) < 0

-----------------------------------------------------------------------------
TypeOK ==
  /\ order \in EdgeOrders
  /\ weight \in [Edges -> Weights]
  /\ dist \in [Tokens -> Int]
  /\ pred \in [Tokens -> Tokens \cup {NoPred}]
  /\ phase \in Phases
  /\ pass \in Nat \ {0} /\ pos \in Nat \ {0} /\ hops \in Nat
  /\ updated \in BOOLEAN
  /\ flagged \subseteq Tokens
  /\ todo \subseteq Tokens
  /\ cursor \in Tokens \cup {NoPred}
  /\ (phase \in {"back", "trace"} => cursor \in Tokens)
  /\ trail \in Seq(Tokens)
  /\ (phase = "trace" => trail # <<>>)

\* A predecessor pointer is an edge of the graph, and the distance it stands
\* for was reached: later relaxations can only have lowered its source.
PredIsEdge ==
  \A v \in Tokens :
    /\ pred[v] = NoPred => dist[v] = 0
    /\ pred[v] # NoPred => /\ <<pred[v], v>> \in Edges
                           /\ dist[v] >= dist[pred[v]] + weight[<<pred[v], v>>]

\* Each element of the trail is reached from the next along an edge.
TrailIsLinked ==
  \A i \in 1..(Len(trail) - 1) : pred[trail[i]] = trail[i + 1]

\* Every cycle handed to _evaluate_cycle is a closed walk over pools that
\* exist, each hop in the direction its pool trades: no trade is ever built
\* from tokens that are not connected.
CyclesAreTradable ==
  \A c \in cycles : /\ Len(c) >= 2
                    /\ c[1] = c[Len(c)]
                    /\ Hops(c) \subseteq Edges

\* Every rebuilt cycle gains, before fees: a cycle of predecessors is a
\* negative cycle although its members were relaxed in different passes.
CyclesAreNegative == \A c \in cycles : CycleWeight(c) < 0

\* The V-th pass flags a node if and only if the graph has a negative cycle:
\* n - 1 passes, cut short by a pass that changes nothing, are enough to tell.
FlagsAreExact ==
  phase = "pick" => (flagged # {} <=> NegativeCycleExists)

\* Flags are only set once the relaxation passes are over, and the trail is
\* only used once the predecessors have stopped changing.
NothingEarly ==
  /\ phase = "relax" => flagged = {}
  /\ phase \in {"relax", "detect"} => trail = <<>> /\ cycles = {}

\* A pass that relaxed nothing so far leaves no relaxable edge behind it, and
\* the search that ends in such a pass none at all.
QuietPass ==
  ~updated =>
    \A i \in DOMAIN order :
      (phase # "relax" \/ i < pos) => (phase = "done" \/ ~Relaxable(order[i]))

\* Early termination loses nothing: when a pass changed nothing, the V-th
\* pass has nothing to flag.
EarlyExitIsSafe == (phase # "relax" /\ ~updated) => flagged = {}

\* What the detector's data structures hold.
StructureInv ==
  /\ TypeOK
  /\ PredIsEdge
  /\ NothingEarly
  /\ TrailIsLinked
  /\ CyclesAreTradable
  /\ QuietPass
  /\ EarlyExitIsSafe

\* A closed walk along the predecessors has a negative weight from the moment
\* a relaxation closes it, whatever the passes that set its pointers.
PredCycles(k) ==
  {c \in [1..k -> Tokens] :
     c[1] = c[k] /\ \A i \in 1..(k - 1) : pred[c[i + 1]] = c[i]}

PredCyclesGain ==
  \A k \in 2..(TokenCount + 1) : \A c \in PredCycles(k) : CycleWeight(c) < 0

\* No walk of at most k nodes is lighter than the distance of its last node.
WalksBound(k) ==
  \A m \in 1..k : \A q \in WalksOver(EndPoints, Edges, m) :
    dist[q[m]] <= WalkWeight(q, weight)

\* Pass by pass, the distances account for the walks of one more hop: in pass
\* p those of p nodes, and those of p + 1 whose last hop the pass has seen.
PassesBound ==
  /\ phase = "relax" =>
       /\ WalksBound(pass)
       /\ \A q \in WalksOver(EndPoints, Edges, pass + 1), i \in DOMAIN order :
            (i < pos /\ order[i] = <<q[pass], q[pass + 1]>>) =>
              dist[q[pass + 1]] <= WalkWeight(q, weight)
  /\ (phase # "relax" /\ updated) => WalksBound(TokenCount)

\* The V-th pass flags the heads of the relaxable edges it has seen.
FlagsMark ==
  phase # "relax" =>
    flagged = {order[i][2] : i \in {j \in DOMAIN order :
                 (phase = "detect" => j < pos) /\ Relaxable(order[j])}}

\* The inductive invariant of the detector.
BellmanFordInv == StructureInv /\ PredCyclesGain /\ PassesBound /\ FlagsMark

\* Detection ends on every graph, negative cycles and all.
Terminates == <>(phase = "done")

\* bellman_ford.py, detect: "Find all profitable arbitrage cycles in the price
\* graph." A node flagged only by the V-th pass may still have no
\* predecessor: its walk meets -1 and no cycle at all is reported.
ProfitIsFound ==
  (phase = "done" /\ \E c \in ClosedWalks : Profitable(c)) => Opportunities # {}
=============================================================================
