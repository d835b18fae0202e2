-------------------------- MODULE BellmanFordProofs --------------------------
(***************************************************************************)
(* For every token set, every set of integer weights and every graph: the  *)
(* cycles rebuilt are closed walks over existing edges that gain, the      *)
(* flags of the V-th pass tell exactly whether a negative cycle exists,    *)
(* and early termination flags nothing. First the data structures          *)
(* (StructureInv), then what the distances say of walks (WalkInv).         *)
(***************************************************************************)
EXTENDS BellmanFord, WalkLemmas

USE GraphAssumption

\* The dict keys are pairs of distinct tokens.
LEMMA OrderIsEdges ==
  ASSUME TypeOK, NEW i \in DOMAIN order
  PROVE  /\ order[i] \in Edges
         /\ order[i] \in Pairs
         /\ order[i][1] \in Tokens /\ order[i][2] \in Tokens
         /\ order[i][1] # order[i][2]
         /\ order[i] = <<order[i][1], order[i][2]>>
         /\ weight[order[i]] \in Int
  <1>1. order \in EdgeOrders
    BY DEF TypeOK
  <1>2. PICK k \in 0..MaxEdges : order \in [1..k -> Pairs]
    BY <1>1 DEF EdgeOrders
  <1>3. order[i] \in Pairs
    BY <1>2
  <1>4. order[i] \in Edges
    BY DEF Edges, EdgesOf
  <1>5. weight[order[i]] \in Int
    BY <1>4 DEF TypeOK
  <1>6. QED
    BY <1>3, <1>4, <1>5 DEF Pairs

LEMMA PosInOrder ==
  ASSUME TypeOK, pos <= Len(order)
  PROVE  pos \in DOMAIN order
  <1>1. PICK k \in 0..MaxEdges : order \in [1..k -> Pairs]
    BY DEF TypeOK, EdgeOrders
  <1>2. order \in Seq(Pairs) /\ Len(order) = k /\ DOMAIN order = 1..k
    BY <1>1
  <1>3. QED
    BY <1>2 DEF TypeOK

LEMMA EdgesStay == UNCHANGED graphVars => Edges' = Edges
  BY DEF graphVars, Edges, EdgesOf

-----------------------------------------------------------------------------
LEMMA RelaxKeepsInv ==
  ASSUME StructureInv, RelaxEdge
  PROVE  StructureInv'
  <1> DEFINE e == order[pos]
  <1>0. /\ TypeOK /\ PredIsEdge /\ NothingEarly /\ TrailIsLinked
        /\ CyclesAreTradable /\ QuietPass /\ EarlyExitIsSafe
        /\ phase = "relax" /\ pos <= Len(order) /\ pos' = pos + 1
        /\ UNCHANGED <<graphVars, phase, pass, flagged, traceVars>>
    BY DEF StructureInv, RelaxEdge
  <1>1. /\ e \in Edges /\ e[1] \in Tokens /\ e[2] \in Tokens /\ e[1] # e[2]
        /\ e = <<e[1], e[2]>> /\ weight[e] \in Int /\ pos \in DOMAIN order
    BY <1>0, OrderIsEdges, PosInOrder
  <1>2. Edges' = Edges /\ order' = order /\ weight' = weight
    BY <1>0, EdgesStay DEF graphVars
  <1>3. \/ /\ Relaxable(e)
           /\ dist' = [dist EXCEPT ![e[2]] = dist[e[1]] + weight[e]]
           /\ pred' = [pred EXCEPT ![e[2]] = e[1]]
           /\ updated' = TRUE
        \/ ~Relaxable(e) /\ UNCHANGED <<dist, pred, updated>>
    BY DEF RelaxEdge
  <1>4. TypeOK'
    <2>1. /\ dist' \in [Tokens -> Int]
          /\ pred' \in [Tokens -> Tokens \cup {NoPred}]
          /\ updated' \in BOOLEAN
      <3>1. dist \in [Tokens -> Int] /\ pred \in [Tokens -> Tokens \cup {NoPred}]
            /\ updated \in BOOLEAN
        BY <1>0 DEF TypeOK
      <3>2. CASE ~Relaxable(e)
        BY <1>3, <3>1, <3>2
      <3>3. CASE Relaxable(e)
        <4>1. /\ dist' = [dist EXCEPT ![e[2]] = dist[e[1]] + weight[e]]
              /\ pred' = [pred EXCEPT ![e[2]] = e[1]]
              /\ updated' = TRUE
          BY <1>3, <3>3
        <4>8. dist[e[1]] \in Int
          BY <1>1, <3>1
        <4>7. dist[e[1]] + weight[e] \in Int
          BY <1>1, <4>8
        <4>2. PICK d \in Int : d = dist[e[1]] + weight[e]
          BY <4>7, Zenon
        <4>3. dist' = [dist EXCEPT ![e[2]] = d]
          BY <4>1, <4>2
        <4>6. dist' \in [Tokens -> Int]
          BY <3>1, <4>2, <4>3
        <4>4. pred' \in [Tokens -> Tokens \cup {NoPred}]
          BY <1>1, <3>1, <4>1
        <4>5. QED
          BY <4>1, <4>4, <4>6
      <3>4. QED
        BY <3>2, <3>3
    <2>2. order' \in EdgeOrders /\ weight' \in [Edges' -> Weights]
      BY <1>0, <1>2 DEF TypeOK
    <2>3. pos' \in Nat \ {0}
      BY <1>0 DEF TypeOK
    <2>4. QED
      BY <1>0, <2>1, <2>2, <2>3 DEF TypeOK, traceVars
  <1>5. PredIsEdge'
    <2> SUFFICES ASSUME NEW v \in Tokens
                 PROVE  /\ pred'[v] = NoPred => dist'[v] = 0
                        /\ pred'[v] # NoPred =>
                             /\ <<pred'[v], v>> \in Edges
                             /\ dist'[v] >= dist'[pred'[v]]
                                              + weight[<<pred'[v], v>>]
      BY <1>2 DEF PredIsEdge
    <2>0. dist \in [Tokens -> Int] /\ pred \in [Tokens -> Tokens \cup {NoPred}]
      BY <1>0 DEF TypeOK
    <2>1. CASE ~Relaxable(e)
      BY <1>0, <1>3, <2>1 DEF PredIsEdge
    <2>2. CASE Relaxable(e)
      <3>1. /\ dist' = [dist EXCEPT ![e[2]] = dist[e[1]] + weight[e]]
            /\ pred' = [pred EXCEPT ![e[2]] = e[1]]
            /\ dist[e[1]] + weight[e] < dist[e[2]]
        BY <1>3, <2>2 DEF Relaxable
      <3>2. CASE v = e[2]
        <4>1. pred'[v] = e[1] /\ dist'[v] = dist[e[1]] + weight[e]
          BY <2>0, <3>1, <3>2
        <4>2. dist'[e[1]] = dist[e[1]] /\ dist[e[1]] \in Int
          BY <1>1, <2>0, <3>1
        <4>3. <<pred'[v], v>> = e /\ e[1] # NoPred
          BY <1>1, <3>2, <4>1 DEF NoPred
        <4>4. QED
          BY <1>1, <4>1, <4>2, <4>3
      <3>4. ASSUME NEW t \in Tokens
            PROVE  dist'[t] <= dist[t] /\ dist'[t] \in Int
        <4>1. dist[e[1]] \in Int /\ dist[e[2]] \in Int /\ weight[e] \in Int
              /\ dist[t] \in Int
          BY <1>1, <2>0
        <4>2. CASE t = e[2]
          <5>1. dist'[t] = dist[e[1]] + weight[e]
            BY <2>0, <3>1, <4>2
          <5>2. dist[t] = dist[e[2]]
            BY <4>2
          <5>3. QED
            BY <3>1, <4>1, <5>1, <5>2
        <4>3. CASE t # e[2]
          BY <2>0, <3>1, <4>1, <4>3
        <4>4. QED
          BY <4>2, <4>3
      <3>3. CASE v # e[2]
        <4>1. pred'[v] = pred[v] /\ dist'[v] = dist[v]
          BY <2>0, <3>1, <3>3
        <4>2. CASE pred[v] = NoPred
          BY <1>0, <4>1, <4>2 DEF PredIsEdge
        <4>3. CASE pred[v] # NoPred
          <5>1. /\ pred[v] \in Tokens /\ <<pred[v], v>> \in Edges
                /\ dist[v] >= dist[pred[v]] + weight[<<pred[v], v>>]
                /\ weight[<<pred[v], v>>] \in Int
            BY <1>0, <2>0, <4>3 DEF PredIsEdge, TypeOK
          <5>2. dist'[pred[v]] <= dist[pred[v]] /\ dist'[pred[v]] \in Int
            BY <3>4, <5>1
          <5>3. dist[v] \in Int /\ dist[pred[v]] \in Int
            BY <2>0, <5>1
          <5>4. QED
            BY <4>1, <4>3, <5>1, <5>2, <5>3
        <4>4. QED
          BY <4>2, <4>3
      <3>5. QED
        BY <3>2, <3>3
    <2>3. QED
      BY <2>1, <2>2
  <1>6. trail' = <<>> /\ cycles' = {}
    BY <1>0 DEF NothingEarly, traceVars
  <1>7. NothingEarly' /\ TrailIsLinked' /\ CyclesAreTradable'
    BY <1>0, <1>6 DEF NothingEarly, TrailIsLinked, CyclesAreTradable
  <1>8. QuietPass'
    <2> SUFFICES ASSUME ~updated', NEW i \in DOMAIN order, i < pos + 1
                 PROVE  ~Relaxable(order[i])'
      BY <1>0, <1>2 DEF QuietPass
    <2>1. ~Relaxable(e) /\ ~updated /\ UNCHANGED dist
      BY <1>3
    <2>2. ~Relaxable(order[i])
      <3>1. CASE i < pos
        BY <1>0, <2>1, <3>1 DEF QuietPass
      <3>2. CASE i = pos
        BY <2>1, <3>2 DEF e
      <3>3. i \in Int /\ pos \in Int
        BY <1>0 DEF TypeOK, EdgeOrders
      <3>4. QED
        BY <3>1, <3>2, <3>3
    <2>3. QED
      BY <1>2, <2>1, <2>2 DEF Relaxable
  <1>9. EarlyExitIsSafe'
    BY <1>0 DEF EarlyExitIsSafe
  <1>10. QED
    BY <1>4, <1>5, <1>7, <1>8, <1>9 DEF StructureInv

-----------------------------------------------------------------------------
\* Steps that leave the predecessors alone keep what is said of them.
LEMMA SearchStays ==
  ASSUME PredIsEdge, UNCHANGED <<graphVars, dist, pred>>
  PROVE  PredIsEdge'
  BY EdgesStay DEF PredIsEdge, graphVars

\* Steps that leave the trail or the cycles alone keep what is said of them.
LEMMA TrailStays ==
  ASSUME TrailIsLinked, UNCHANGED <<pred, trail>>
  PROVE  TrailIsLinked'
  BY DEF TrailIsLinked

LEMMA CyclesStay ==
  ASSUME CyclesAreTradable, UNCHANGED <<graphVars, cycles>>
  PROVE  CyclesAreTradable'
  BY EdgesStay DEF CyclesAreTradable

LEMMA EndPassKeepsInv ==
  ASSUME StructureInv, EndPass
  PROVE  StructureInv'
  <1>0. /\ TypeOK /\ PredIsEdge /\ NothingEarly /\ TrailIsLinked
        /\ CyclesAreTradable /\ QuietPass /\ EarlyExitIsSafe
        /\ phase = "relax" /\ pos > Len(order) /\ pos' = 1
        /\ UNCHANGED <<graphVars, dist, pred, flagged, traceVars>>
    BY DEF StructureInv, EndPass
  <1>1. \/ phase' = "detect" /\ UNCHANGED <<pass, updated>>
        \/ pass' = pass + 1 /\ updated' = FALSE /\ phase' = "relax"
    BY <1>0 DEF EndPass
  <1>2. Edges' = Edges /\ order' = order /\ weight' = weight
    BY <1>0, EdgesStay DEF graphVars
  <1>3. TypeOK'
    <2>0. pass \in Nat \ {0} /\ updated \in BOOLEAN
      BY <1>0 DEF TypeOK
    <2>1. pass' \in Nat \ {0} /\ updated' \in BOOLEAN /\ phase' \in Phases
          /\ phase' \notin {"back", "trace"}
      <3>1. CASE phase' = "detect" /\ UNCHANGED <<pass, updated>>
        BY <2>0, <3>1 DEF Phases
      <3>2. CASE pass' = pass + 1 /\ updated' = FALSE /\ phase' = "relax"
        <4>1. pass' \in Nat \ {0}
          BY <2>0, <3>2
        <4>2. QED
          BY <3>2, <4>1 DEF Phases
      <3>3. QED
        BY <1>1, <3>1, <3>2
    <2>2. order' \in EdgeOrders /\ weight' \in [Edges' -> Weights]
      BY <1>0, <1>2 DEF TypeOK
    <2>3. QED
      BY <1>0, <2>1, <2>2 DEF TypeOK, traceVars
  <1>4. PredIsEdge' /\ TrailIsLinked' /\ CyclesAreTradable'
    BY <1>0, SearchStays, TrailStays, CyclesStay DEF traceVars
  <1>5. NothingEarly'
    BY <1>0 DEF NothingEarly, traceVars
  <1>6. QuietPass'
    <2> SUFFICES ASSUME ~updated', NEW i \in DOMAIN order,
                        phase' # "relax" \/ i < 1
                 PROVE  ~Relaxable(order[i])'
      BY <1>0, <1>2 DEF QuietPass
    <2>1. PICK k \in 0..MaxEdges : order \in [1..k -> Pairs]
      BY <1>0 DEF TypeOK, EdgeOrders
    <2>2. i \in 1..k /\ Len(order) = k /\ pos \in Nat
      BY <1>0, <2>1 DEF TypeOK
    <2>3. phase' = "detect" /\ ~updated
      BY <1>1, <2>2
    <2>4. ~Relaxable(order[i])
      BY <1>0, <2>2, <2>3 DEF QuietPass
    <2>5. QED
      BY <1>0, <1>2, <2>4 DEF Relaxable
  <1>7. EarlyExitIsSafe'
    BY <1>0 DEF EarlyExitIsSafe, NothingEarly
  <1>8. QED
    BY <1>3, <1>4, <1>5, <1>6, <1>7 DEF StructureInv

LEMMA DetectKeepsInv ==
  ASSUME StructureInv, DetectEdge
  PROVE  StructureInv'
  <1>0. /\ TypeOK /\ PredIsEdge /\ NothingEarly /\ TrailIsLinked
        /\ CyclesAreTradable /\ QuietPass /\ EarlyExitIsSafe
        /\ phase = "detect" /\ pos <= Len(order) /\ pos' = pos + 1
        /\ UNCHANGED <<graphVars, dist, pred, pass, updated, phase, traceVars>>
    BY DEF StructureInv, DetectEdge
  <1>1. /\ pos \in DOMAIN order /\ order[pos][2] \in Tokens
    BY <1>0, OrderIsEdges, PosInOrder
  <1>2. Edges' = Edges /\ order' = order /\ weight' = weight
    BY <1>0, EdgesStay DEF graphVars
  <1>3. \/ Relaxable(order[pos]) /\ flagged' = flagged \cup {order[pos][2]}
        \/ flagged' = flagged
    BY DEF DetectEdge
  <1>4. TypeOK'
    <2>1. flagged' \subseteq Tokens
      BY <1>0, <1>1, <1>3 DEF TypeOK
    <2>2. order' \in EdgeOrders /\ weight' \in [Edges' -> Weights]
      BY <1>0, <1>2 DEF TypeOK
    <2>3. pos' \in Nat \ {0}
      BY <1>0 DEF TypeOK
    <2>4. QED
      BY <1>0, <2>1, <2>2, <2>3 DEF TypeOK, traceVars
  <1>5. PredIsEdge' /\ TrailIsLinked' /\ CyclesAreTradable'
    BY <1>0, SearchStays, TrailStays, CyclesStay DEF traceVars
  <1>6. NothingEarly'
    BY <1>0 DEF NothingEarly, traceVars
  <1>7. QuietPass'
    BY <1>0, <1>2 DEF QuietPass, Relaxable
  <1>8. EarlyExitIsSafe'
    BY <1>0, <1>1, <1>3 DEF EarlyExitIsSafe, QuietPass
  <1>9. QED
    BY <1>4, <1>5, <1>6, <1>7, <1>8 DEF StructureInv

-----------------------------------------------------------------------------
\* From the end of the V-th pass on, the search itself stands still.
LEMMA TracingKeepsSearch ==
  ASSUME StructureInv, UNCHANGED <<graphVars, searchVars, pos>>,
         phase \notin {"relax", "done"}, phase' \in Phases \ {"relax", "detect"}
  PROVE  /\ PredIsEdge' /\ NothingEarly' /\ QuietPass' /\ EarlyExitIsSafe'
         /\ order' \in EdgeOrders /\ weight' \in [Edges' -> Weights]
         /\ dist' \in [Tokens -> Int]
         /\ pred' \in [Tokens -> Tokens \cup {NoPred}]
         /\ pass' \in Nat \ {0} /\ pos' \in Nat \ {0} /\ updated' \in BOOLEAN
         /\ flagged' \subseteq Tokens
  <1>0. /\ TypeOK /\ PredIsEdge /\ NothingEarly /\ QuietPass /\ EarlyExitIsSafe
    BY DEF StructureInv
  <1>1. /\ order' = order /\ weight' = weight /\ Edges' = Edges
        /\ dist' = dist /\ pred' = pred /\ pass' = pass /\ updated' = updated
        /\ flagged' = flagged /\ pos' = pos
    BY EdgesStay DEF graphVars, searchVars
  <1>2. PredIsEdge' /\ NothingEarly'
    BY <1>0, <1>1 DEF PredIsEdge, NothingEarly
  <1>3. QuietPass'
    BY <1>0, <1>1 DEF QuietPass, Relaxable
  <1>4. EarlyExitIsSafe'
    BY <1>0, <1>1 DEF EarlyExitIsSafe
  <1>5. QED
    BY <1>0, <1>1, <1>2, <1>3, <1>4 DEF TypeOK

\* The steps of the reconstruction that neither lengthen the trail nor close
\* a cycle: EndDetect, PickNode, StepBack, GiveUp and Finish.
LEMMA WalkKeepsInv ==
  ASSUME StructureInv, EndDetect \/ PickNode \/ StepBack \/ Finish
  PROVE  StructureInv'
  <1>0. TypeOK /\ TrailIsLinked /\ CyclesAreTradable
    BY DEF StructureInv
  <1>1. UNCHANGED <<graphVars, searchVars, pos, trail, cycles>>
    BY DEF EndDetect, PickNode, StepBack, GiveUp, Finish, traceVars
  <1>2. /\ phase \notin {"relax", "done"}
        /\ phase' \in Phases \ {"relax", "detect", "trace"}
    BY DEF EndDetect, PickNode, StepBack, GiveUp, Finish, Phases
  <1>3. /\ todo' \subseteq Tokens /\ cursor' \in Tokens \cup {NoPred}
        /\ hops' \in Nat /\ (phase' = "back" => cursor' \in Tokens)
    <2>0. /\ todo \subseteq Tokens /\ flagged \subseteq Tokens
          /\ cursor \in Tokens \cup {NoPred} /\ hops \in Nat
          /\ pred \in [Tokens -> Tokens \cup {NoPred}]
          /\ (phase = "back" => cursor \in Tokens)
      BY <1>0 DEF TypeOK
    <2>1. CASE EndDetect
      BY <2>0, <2>1 DEF EndDetect
    <2>2. CASE PickNode
      BY <2>0, <2>2 DEF PickNode
    <2>3. CASE StepBack
      <3>1. CASE pred[cursor] = NoPred
        <4>1. GiveUp /\ phase = "back"
          BY <2>3, <3>1 DEF StepBack
        <4>2. /\ todo' = todo /\ cursor' = cursor /\ hops' = hops
              /\ phase' # "back"
          BY <4>1 DEF GiveUp
        <4>3. QED
          BY <2>0, <4>2
      <3>2. CASE pred[cursor] # NoPred
        <4>1. /\ phase = "back" /\ cursor' = pred[cursor] /\ hops' = hops + 1
              /\ todo' = todo
          BY <2>3, <3>2 DEF StepBack
        <4>2. hops' \in Nat
          BY <2>0, <4>1
        <4>3. cursor' \in Tokens
          BY <2>0, <3>2, <4>1
        <4>4. QED
          BY <2>0, <4>1, <4>2, <4>3
      <3>3. QED
        BY <3>1, <3>2
    <2>4. CASE Finish
      BY <2>0, <2>4 DEF Finish, traceVars
    <2>5. QED
      BY <2>1, <2>2, <2>3, <2>4
  <1>4. TrailIsLinked' /\ CyclesAreTradable'
    BY <1>0, <1>1, TrailStays, CyclesStay DEF searchVars
  <1>5. trail' \in Seq(Tokens)
    BY <1>0, <1>1 DEF TypeOK
  <1>6. QED
    BY <1>1, <1>2, <1>3, <1>4, <1>5, TracingKeepsSearch DEF StructureInv, TypeOK

LEMMA StartTrailKeepsInv ==
  ASSUME StructureInv, StartTrail
  PROVE  StructureInv'
  <1>0. TypeOK /\ CyclesAreTradable
    BY DEF StructureInv
  <1>1. /\ UNCHANGED <<graphVars, searchVars, pos, todo, cursor, hops, cycles>>
        /\ phase = "back" /\ phase' = "trace" /\ trail' = <<cursor>>
    BY DEF StartTrail
  <1>2. cursor \in Tokens
    BY <1>0, <1>1 DEF TypeOK
  <1>3. trail' \in Seq(Tokens) /\ trail' # <<>> /\ TrailIsLinked'
    BY <1>1, <1>2 DEF TrailIsLinked
  <1>4. CyclesAreTradable'
    BY <1>0, <1>1, CyclesStay
  <1>5. /\ phase \notin {"relax", "done"}
        /\ phase' \in Phases \ {"relax", "detect"}
    BY <1>1 DEF Phases
  <1>6. TypeOK'
    BY <1>0, <1>1, <1>2, <1>3, <1>5, TracingKeepsSearch DEF TypeOK
  <1>7. QED
    BY <1>1, <1>3, <1>4, <1>5, <1>6, TracingKeepsSearch DEF StructureInv

-----------------------------------------------------------------------------
\* What TraceBack closes is a closed walk along the predecessors in trading
\* order: each element of the trail is the predecessor of the one before it,
\* and the list is reversed, with the repeated node at both ends.
LEMMA ClosingIsPredCycle ==
  ASSUME TypeOK, TrailIsLinked, phase = "trace",
         NEW k \in DOMAIN trail, pred[trail[Len(trail)]] = trail[k]
  PROVE  \E m \in Nat : m >= 2 /\ CloseCycle(trail, k) \in PredCycles(m)
  <1> DEFINE n == Len(trail)
             m == n - k + 2
             c == CloseCycle(trail, k)
  <1>1. /\ trail \in Seq(Tokens) /\ n \in Nat /\ k \in 1..n
        /\ \A j \in 1..n : trail[j] \in Tokens
    BY DEF TypeOK
  <1>2. m \in Nat /\ m >= 2 /\ n >= 1
    BY <1>1
  <1>3. c = [i \in 1..m |-> IF i = 1 THEN trail[k] ELSE trail[n - i + 2]]
    BY DEF CloseCycle
  <1>4. \A i \in 2..m : n - i + 2 \in 1..n
    BY <1>1
  <1>5. c \in [1..m -> Tokens]
    BY <1>1, <1>3, <1>4
  <1> HIDE DEF m, c
  <1>6. c[1] = trail[k] /\ \A i \in 2..m : c[i] = trail[n - i + 2]
    BY <1>2, <1>3
  <1>7. c[m] = trail[k]
    <2>1. n - m + 2 = k
      BY <1>1 DEF m
    <2>2. m \in 2..m
      BY <1>2
    <2>3. QED
      BY <1>6, <2>1, <2>2
  <1>8. ASSUME NEW i \in 1..(m - 1)
        PROVE  pred[c[i + 1]] = c[i]
    <2>1. c[i + 1] = trail[n - i + 1]
      <3>1. i + 1 \in 2..m /\ n - (i + 1) + 2 = n - i + 1
        BY <1>1, <1>2
      <3>2. QED
        BY <1>6, <3>1
    <2>2. CASE i = 1
      <3>1. c[i] = trail[k] /\ c[i + 1] = trail[n]
        BY <1>1, <1>6, <2>1, <2>2
      <3>2. QED
        BY <3>1
    <2>3. CASE i # 1
      <3>1. i \in 2..m /\ n - i + 1 \in 1..(n - 1)
        BY <1>1, <1>2, <2>3 DEF m
      <3>2. c[i] = trail[n - i + 2]
        BY <1>6, <3>1
      <3>3. pred[trail[n - i + 1]] = trail[n - i + 2]
        <4>1. (n - i + 1) + 1 = n - i + 2
          BY <1>1
        <4>2. QED
          BY <3>1, <4>1 DEF TrailIsLinked
      <3>4. QED
        BY <2>1, <3>2, <3>3
    <2>4. QED
      BY <2>2, <2>3
  <1>9. c \in PredCycles(m)
    BY <1>5, <1>6, <1>7, <1>8 DEF PredCycles
  <1>10. QED
    BY <1>2, <1>9 DEF c

\* A closed walk along the predecessors runs over edges.
LEMMA PredCycleIsWalk ==
  ASSUME TypeOK, PredIsEdge, NEW m \in Nat, NEW c \in PredCycles(m)
  PROVE  c \in WalksOver(Tokens, Edges, m)
  <1>1. c \in [1..m -> Tokens]
    BY DEF PredCycles
  <1>2. ASSUME NEW i \in 1..(m - 1) PROVE <<c[i], c[i + 1]>> \in Edges
    <2>1. c[i] \in Tokens /\ c[i + 1] \in Tokens /\ pred[c[i + 1]] = c[i]
      BY <1>1 DEF PredCycles
    <2>2. c[i] # NoPred
      BY <2>1, GraphAssumption DEF NoPred
    <2>3. QED
      BY <2>1, <2>2 DEF PredIsEdge
  <1>3. QED
    BY <1>1, <1>2, WalkByHops

\* What TraceBack closes can be traded hop by hop.
LEMMA ClosingIsTradable ==
  ASSUME TypeOK, PredIsEdge, TrailIsLinked, phase = "trace",
         NEW k \in DOMAIN trail, pred[trail[Len(trail)]] = trail[k]
  PROVE  LET c == CloseCycle(trail, k)
         IN Len(c) >= 2 /\ c[1] = c[Len(c)] /\ Hops(c) \subseteq Edges
  <1> DEFINE c == CloseCycle(trail, k)
  <1>1. PICK m \in Nat : m >= 2 /\ c \in PredCycles(m)
    BY ClosingIsPredCycle
  <1> HIDE DEF c
  <1>2. c \in WalksOver(Tokens, Edges, m) /\ c[1] = c[m]
    BY <1>1, PredCycleIsWalk DEF PredCycles
  <1>3. Len(c) = m /\ Hops(c) \subseteq Edges
    BY <1>2 DEF WalksOver
  <1>4. QED
    BY <1>1, <1>2, <1>3 DEF c

LEMMA TraceBackKeepsInv ==
  ASSUME StructureInv, TraceBack
  PROVE  StructureInv'
  <1> DEFINE u == pred[trail[Len(trail)]]
  <1>0. /\ TypeOK /\ PredIsEdge /\ TrailIsLinked /\ CyclesAreTradable
        /\ phase = "trace"
    BY DEF StructureInv, TraceBack
  <1>1. /\ trail \in Seq(Tokens) /\ Len(trail) \in Nat \ {0}
        /\ trail[Len(trail)] \in Tokens /\ u \in Tokens \cup {NoPred}
    <2>1. /\ trail \in Seq(Tokens) /\ trail # <<>>
          /\ pred \in [Tokens -> Tokens \cup {NoPred}]
      BY <1>0 DEF TypeOK
    <2>2. Len(trail) \in Nat \ {0}
      BY <2>1
    <2>3. trail[Len(trail)] \in Tokens
      BY <2>1, <2>2
    <2>4. QED
      BY <2>1, <2>2, <2>3
  <1>2. CASE u = NoPred /\ GiveUp
    <2>1. /\ UNCHANGED <<graphVars, searchVars, pos, todo, cursor, hops, trail,
                         cycles>>
          /\ phase \notin {"relax", "done"}
          /\ phase' = "pick" /\ phase' \in Phases \ {"relax", "detect"}
      BY <1>0, <1>2 DEF GiveUp, Phases
    <2>2. TrailIsLinked' /\ CyclesAreTradable'
      BY <1>0, <2>1, TrailStays, CyclesStay DEF searchVars
    <2>3. TypeOK'
      BY <1>0, <2>1, TracingKeepsSearch DEF TypeOK
    <2>4. QED
      BY <2>1, <2>2, <2>3, TracingKeepsSearch DEF StructureInv
  <1>3. CASE /\ u # NoPred /\ trail' = Append(trail, u)
             /\ UNCHANGED <<graphVars, searchVars, phase, pos, todo, cursor,
                            hops, cycles>>
    <2>1. /\ phase \notin {"relax", "done"}
          /\ phase' = "trace" /\ phase' \in Phases \ {"relax", "detect"}
      BY <1>0, <1>3 DEF Phases
    <2>2. trail' \in Seq(Tokens) /\ trail' # <<>> /\ Len(trail') = Len(trail) + 1
      BY <1>1, <1>3
    <2>3. TrailIsLinked'
      <3> SUFFICES ASSUME NEW i \in 1..Len(trail)
                   PROVE  pred[trail'[i]] = trail'[i + 1]
        BY <1>1, <1>3, <2>2 DEF TrailIsLinked, searchVars
      <3>1. CASE i = Len(trail)
        BY <1>1, <1>3, <3>1
      <3>2. CASE i # Len(trail)
        <4>1. i \in 1..(Len(trail) - 1) /\ i + 1 \in 1..Len(trail)
          BY <1>1, <3>2
        <4>2. trail'[i] = trail[i] /\ trail'[i + 1] = trail[i + 1]
          BY <1>1, <1>3, <4>1
        <4>3. QED
          BY <1>0, <4>1, <4>2 DEF TrailIsLinked
      <3>3. QED
        BY <3>1, <3>2
    <2>4. CyclesAreTradable'
      BY <1>0, <1>3, CyclesStay
    <2>5. TypeOK'
      BY <1>0, <1>3, <2>1, <2>2, TracingKeepsSearch DEF TypeOK
    <2>6. QED
      BY <1>3, <2>1, <2>3, <2>4, <2>5, TracingKeepsSearch DEF StructureInv
  <1>4. ASSUME NEW k \in DOMAIN trail, trail[k] = u,
               cycles' = cycles \/ cycles' = cycles \cup {CloseCycle(trail, k)},
               phase' = "pick",
               UNCHANGED <<graphVars, searchVars, pos, todo, cursor, hops, trail>>
        PROVE  StructureInv'
    <2>1. /\ phase \notin {"relax", "done"}
          /\ phase' \in Phases \ {"relax", "detect"}
      BY <1>0, <1>4 DEF Phases
    <2>2. Edges' = Edges
      BY <1>4, EdgesStay
    <2>3. CyclesAreTradable'
      BY <1>0, <1>4, <2>2, ClosingIsTradable DEF CyclesAreTradable
    <2>4. TrailIsLinked'
      BY <1>0, <1>4, TrailStays DEF searchVars
    <2>5. TypeOK'
      BY <1>0, <1>4, <2>1, TracingKeepsSearch DEF TypeOK
    <2>6. QED
      BY <1>4, <2>1, <2>3, <2>4, <2>5, TracingKeepsSearch DEF StructureInv
  <1>5. QED
    BY <1>2, <1>3, <1>4 DEF TraceBack

-----------------------------------------------------------------------------
LEMMA InitHolds == Init => StructureInv
  <1> SUFFICES ASSUME Init PROVE StructureInv
    OBVIOUS
  <1>1. TypeOK
    <2>1. order \in EdgeOrders /\ weight \in [Edges -> Weights]
      BY DEF Init
    <2>2. /\ dist \in [Tokens -> Int] /\ pred \in [Tokens -> Tokens \cup {NoPred}]
          /\ pass \in Nat \ {0} /\ pos \in Nat \ {0} /\ hops \in Nat
      BY DEF Init
    <2>3. phase \in Phases /\ phase \notin {"back", "trace"}
      BY DEF Init, Phases
    <2>4. /\ updated \in BOOLEAN /\ flagged \subseteq Tokens /\ todo \subseteq Tokens
          /\ cursor \in Tokens \cup {NoPred} /\ trail \in Seq(Tokens)
      <3>1. trail = <<>> /\ updated = FALSE /\ flagged = {} /\ todo = {} /\ cursor = NoPred
        BY DEF Init
      <3>2. trail \in Seq(Tokens)
        BY <3>1
      <3>3. QED
        BY <3>1, <3>2
    <2>5. QED
      BY <2>1, <2>2, <2>3, <2>4 DEF TypeOK
  <1>2. PredIsEdge /\ NothingEarly /\ TrailIsLinked /\ CyclesAreTradable
    BY DEF Init, PredIsEdge, NothingEarly, TrailIsLinked, CyclesAreTradable
  <1>3. QuietPass
    <2>1. PICK k \in 0..MaxEdges : order \in [1..k -> Pairs]
      BY DEF Init, EdgeOrders
    <2>2. QED
      BY <2>1 DEF Init, QuietPass
  <1>4. EarlyExitIsSafe
    BY DEF Init, EarlyExitIsSafe
  <1>5. QED
    BY <1>1, <1>2, <1>3, <1>4 DEF StructureInv

LEMMA StepKeepsStructure ==
  ASSUME StructureInv, [Next]_vars
  PROVE  StructureInv'
  <1>1. CASE RelaxEdge
    BY <1>1, RelaxKeepsInv
  <1>2. CASE EndPass
    BY <1>2, EndPassKeepsInv
  <1>3. CASE DetectEdge
    BY <1>3, DetectKeepsInv
  <1>4. CASE EndDetect \/ PickNode \/ StepBack \/ Finish
    BY <1>4, WalkKeepsInv
  <1>5. CASE StartTrail
    BY <1>5, StartTrailKeepsInv
  <1>6. CASE TraceBack
    BY <1>6, TraceBackKeepsInv
  <1>7. CASE UNCHANGED vars
    BY <1>7, EdgesStay
    DEF vars, graphVars, searchVars, traceVars, StructureInv, TypeOK,
        PredIsEdge, NothingEarly, TrailIsLinked, CyclesAreTradable, QuietPass,
        Relaxable, EarlyExitIsSafe
  <1>8. QED
    BY <1>1, <1>2, <1>3, <1>4, <1>5, <1>6, <1>7 DEF Next

LEMMA StructureInvariant == Spec => []StructureInv
  <1>1. StructureInv /\ [Next]_vars => StructureInv'
    BY StepKeepsStructure
  <1>2. QED
    BY <1>1, InitHolds, PTL DEF Spec

-----------------------------------------------------------------------------
\* The end points of edges are finitely many tokens, no edge is a loop, and
\* every edge has an integer weight.
LEMMA GraphIsFinite ==
  ASSUME TypeOK
  PROVE  /\ EndPoints \subseteq Tokens
         /\ IsFiniteSet(EndPoints) /\ TokenCount \in Nat
         /\ \A v \in Tokens : <<v, v>> \notin Edges
         /\ weight \in [Edges -> Int]
         /\ \A e \in Edges : /\ e[1] \in EndPoints /\ e[2] \in EndPoints
                             /\ e = <<e[1], e[2]>> /\ weight[e] \in Int
  <1>1. PICK k \in 0..MaxEdges : order \in [1..k -> Pairs]
    BY DEF TypeOK, EdgeOrders
  <1>2. ASSUME NEW e \in Edges
        PROVE  /\ e[1] \in Tokens /\ e[2] \in Tokens /\ e[1] # e[2]
               /\ e = <<e[1], e[2]>> /\ weight[e] \in Int
    BY OrderIsEdges DEF Edges, EdgesOf
  <1>3. weight \in [Edges -> Int]
    BY <1>2 DEF TypeOK
  <1>4. EndPoints \subseteq Tokens
    BY <1>2 DEF EndPoints
  <1>5. IsFiniteSet(EndPoints)
    <2> DEFINE ends == [i \in 1..(2 * k) |->
                          IF i <= k THEN order[i][1] ELSE order[i - k][2]]
    <2>1. k \in Nat /\ 2 * k \in Nat /\ IsFiniteSet(1..(2 * k))
      BY FS_Interval
    <2>2. ASSUME NEW i \in 1..(2 * k) PROVE ends[i] \in EndPoints
      <3>1. CASE i <= k
        <4>1. i \in DOMAIN order /\ order[i] \in Edges
          BY <1>1, <3>1 DEF Edges, EdgesOf
        <4>2. QED
          BY <3>1, <4>1 DEF EndPoints
      <3>2. CASE ~(i <= k)
        <4>1. i - k \in 1..k
          BY <2>1, <3>2
        <4>2. i - k \in DOMAIN order /\ order[i - k] \in Edges
          BY <1>1, <4>1 DEF Edges, EdgesOf
        <4>3. QED
          BY <3>2, <4>2 DEF EndPoints
      <3>3. QED
        BY <3>1, <3>2
    <2>3. ASSUME NEW v \in EndPoints PROVE \E i \in 1..(2 * k) : ends[i] = v
      <3>1. PICK e \in Edges : v = e[1] \/ v = e[2]
        BY DEF EndPoints
      <3>2. PICK i \in 1..k : order[i] = e
        BY <1>1 DEF Edges, EdgesOf
      <3>3. CASE v = e[1]
        <4>1. i \in 1..(2 * k) /\ ends[i] = v
          BY <2>1, <3>2, <3>3
        <4>2. QED
          BY <4>1
      <3>4. CASE v = e[2]
        <4>1. i + k \in 1..(2 * k) /\ ~(i + k <= k) /\ (i + k) - k = i
          BY <2>1
        <4>2. ends[i + k] = v
          BY <3>2, <3>4, <4>1
        <4>3. QED
          BY <4>1, <4>2
      <3>5. QED
        BY <3>1, <3>3, <3>4
    <2>4. ends \in Surjection(1..(2 * k), EndPoints)
      BY <2>2, <2>3 DEF Surjection
    <2>5. QED
      BY <2>1, <2>4, FS_Surjection
  <1>6. TokenCount \in Nat
    BY <1>5, FS_CardinalityType DEF TokenCount
  <1>7. QED
    BY <1>2, <1>3, <1>4, <1>5, <1>6 DEF EndPoints

\* PredCyclesGain without its bound on the length.
AllPredCyclesGain ==
  \A m \in Nat : m >= 2 => \A c \in PredCycles(m) : CycleWeight(c) < 0

\* A relaxation that closes a cycle of predecessors closes a negative one:
\* before it, the distances rise by the weight of each hop at least, and by
\* more at the hop just relaxed.
LEMMA RelaxKeepsGain ==
  ASSUME StructureInv, AllPredCyclesGain, RelaxEdge
  PROVE  AllPredCyclesGain'
  <1> DEFINE e == order[pos]
  <1>0. TypeOK /\ PredIsEdge /\ pos <= Len(order) /\ UNCHANGED graphVars
    BY DEF StructureInv, RelaxEdge
  <1>1. /\ e \in Edges /\ e[1] \in Tokens /\ e[2] \in Tokens
        /\ e = <<e[1], e[2]>> /\ weight[e] \in Int
    BY <1>0, OrderIsEdges, PosInOrder
  <1>2. weight' = weight /\ weight \in [Edges -> Int]
    BY <1>0, GraphIsFinite DEF graphVars
  <1>3. /\ dist \in [Tokens -> Int] /\ pred \in [Tokens -> Tokens \cup {NoPred}]
    BY <1>0 DEF TypeOK
  <1>4. CASE ~Relaxable(e)
    <2>1. pred' = pred
      BY <1>4 DEF RelaxEdge
    <2>2. QED
      BY <1>2, <2>1 DEF AllPredCyclesGain, PredCycles, CycleWeight
  <1>5. CASE Relaxable(e)
    <2> SUFFICES ASSUME NEW m \in Nat, m >= 2, NEW c \in PredCycles(m)'
                 PROVE  WalkWeight(c, weight) < 0
      BY <1>2 DEF AllPredCyclesGain, CycleWeight
    <2>1. pred' = [pred EXCEPT ![e[2]] = e[1]]
      BY <1>5 DEF RelaxEdge
    <2>2. /\ c \in [1..m -> Tokens] /\ c[1] = c[m]
          /\ \A i \in 1..(m - 1) : pred'[c[i + 1]] = c[i]
      BY DEF PredCycles
    <2>3. dist[e[1]] + weight[e] < dist[e[2]]
      BY <1>5 DEF Relaxable
    <2>4. ASSUME NEW i \in 1..(m - 1)
          PROVE  /\ c[i] \in Tokens /\ c[i + 1] \in Tokens
                 /\ IF c[i + 1] = e[2]
                      THEN <<c[i], c[i + 1]>> = e
                      ELSE /\ pred[c[i + 1]] = c[i]
                           /\ <<c[i], c[i + 1]>> \in Edges
                           /\ dist[c[i]] + weight[<<c[i], c[i + 1]>>]
                                <= dist[c[i + 1]]
      <3>1. /\ c[i] \in Tokens /\ c[i + 1] \in Tokens /\ c[i] # NoPred
            /\ pred'[c[i + 1]] = c[i]
        BY <2>2, GraphAssumption DEF NoPred
      <3>2. CASE c[i + 1] = e[2]
        <4>1. c[i] = e[1]
          BY <1>3, <2>1, <3>1, <3>2
        <4>2. QED
          BY <1>1, <3>1, <3>2, <4>1
      <3>3. CASE c[i + 1] # e[2]
        <4>1. pred[c[i + 1]] = c[i]
          BY <1>3, <2>1, <3>1, <3>3
        <4>2. /\ <<c[i], c[i + 1]>> \in Edges
              /\ dist[c[i + 1]] >= dist[c[i]] + weight[<<c[i], c[i + 1]>>]
          BY <1>0, <3>1, <4>1 DEF PredIsEdge
        <4>3. dist[c[i + 1]] \in Int /\ dist[c[i]] \in Int
              /\ weight[<<c[i], c[i + 1]>>] \in Int
          BY <1>2, <1>3, <3>1, <4>2
        <4>4. QED
          BY <3>1, <3>3, <4>1, <4>2, <4>3
      <3>4. QED
        BY <3>2, <3>3
    <2>5. CASE \E j \in 1..(m - 1) : c[j + 1] = e[2]
      <3>1. PICK j \in 1..(m - 1) : c[j + 1] = e[2]
        BY <2>5
      <3>2. m \in Nat \ {0} /\ j \in 0..(m - 1) /\ j > 0
        OBVIOUS
      <3>3. \A i \in 1..(m - 1) : <<c[i], c[i + 1]>> \in Edges
        BY <1>1, <2>4
      <3>4. c \in WalksOver(Tokens, Edges, m)
        BY <2>2, <3>3, WalkByHops
      <3>5. /\ <<c[j], c[j + 1]>> = e /\ c[j] = e[1]
            /\ dist[c[j]] + weight[<<c[j], c[j + 1]>>] < dist[c[j + 1]]
        <4>1. <<c[j], c[j + 1]>> = e
          BY <2>4, <3>1
        <4>2. c[j] = e[1]
          BY <4>1
        <4>3. QED
          BY <2>3, <3>1, <4>1, <4>2
      <3>6. ASSUME NEW i \in 1..(m - 1)
            PROVE  dist[c[i]] + weight[<<c[i], c[i + 1]>>] <= dist[c[i + 1]]
        <4>1. CASE c[i + 1] = e[2]
          <5>0. <<c[i], c[i + 1]>> = e
            BY <2>4, <4>1
          <5>1. <<c[i], c[i + 1]>> = e /\ c[i] = e[1]
            BY <5>0
          <5>2. dist[e[1]] \in Int /\ dist[e[2]] \in Int
            BY <1>1, <1>3
          <5>3. dist[e[1]] + weight[e] <= dist[e[2]]
            BY <1>1, <2>3, <5>2
          <5>4. QED
            BY <4>1, <5>1, <5>3
        <4>2. CASE c[i + 1] # e[2]
          BY <2>4, <4>2
        <4>3. QED
          BY <4>1, <4>2
      <3>7. WalkWeight(c, weight) < dist[c[m]] - dist[c[1]]
        <4> HIDE DEF e
        <4>1. QED
          BY <1>2, <1>3, <3>2, <3>4, <3>5, <3>6, PotentialAbove
      <3>8. dist[c[m]] = dist[c[1]] /\ dist[c[1]] \in Int
        <4>1. 1 \in 1..m /\ c[m] = c[1]
          BY <2>2
        <4>2. c[1] \in Tokens
          BY <2>2, <4>1
        <4>3. QED
          BY <1>3, <4>1, <4>2
      <3>9. WalkWeight(c, weight) \in Int
        BY <1>2, <3>2, <3>4, WeightIsInteger
      <3>10. QED
        BY <3>7, <3>8, <3>9
    <2>6. CASE \A j \in 1..(m - 1) : c[j + 1] # e[2]
      <3>1. c \in PredCycles(m)
        BY <2>2, <2>4, <2>6 DEF PredCycles
      <3>2. QED
        BY <3>1 DEF AllPredCyclesGain, CycleWeight
    <2>7. QED
      BY <2>5, <2>6
  <1>6. QED
    BY <1>4, <1>5

-----------------------------------------------------------------------------
\* What a relaxation does to the distances.
LEMMA RelaxLowers ==
  ASSUME TypeOK, RelaxEdge
  PROVE  LET e == order[pos]
         IN /\ \A t \in Tokens :
                 /\ dist'[t] \in Int /\ dist[t] \in Int /\ dist'[t] <= dist[t]
                 /\ dist'[t] = dist[t]
                      \/ (t = e[2] /\ dist'[t] = dist[e[1]] + weight[e])
            /\ dist'[e[2]] <= dist[e[1]] + weight[e]
  <1> DEFINE e == order[pos]
             d == dist[e[1]] + weight[e]
  <1>1. /\ e[1] \in Tokens /\ e[2] \in Tokens /\ weight[e] \in Int
        /\ dist \in [Tokens -> Int]
    BY OrderIsEdges, PosInOrder DEF RelaxEdge, TypeOK
  <1>2. d \in Int /\ dist[e[2]] \in Int
    <2>1. dist[e[1]] \in Int /\ dist[e[2]] \in Int
      BY <1>1
    <2>2. QED
      BY <1>1, <2>1
  <1>3. CASE ~(d < dist[e[2]])
    <2>1. dist' = dist
      BY <1>3 DEF RelaxEdge, Relaxable
    <2>2. dist[e[2]] <= d
      <3> HIDE DEF d
      <3>1. QED
        BY <1>2, <1>3
    <2>3. ASSUME NEW t \in Tokens
          PROVE  dist'[t] \in Int /\ dist[t] \in Int /\ dist'[t] <= dist[t]
                 /\ dist'[t] = dist[t]
      BY <1>1, <2>1
    <2>4. QED
      BY <2>1, <2>2, <2>3
  <1>4. CASE d < dist[e[2]]
    <2>1. dist' = [dist EXCEPT ![e[2]] = d]
      BY <1>4 DEF RelaxEdge, Relaxable
    <2> HIDE DEF d
    <2>2. ASSUME NEW t \in Tokens
          PROVE  /\ dist'[t] \in Int /\ dist[t] \in Int /\ dist'[t] <= dist[t]
                 /\ dist'[t] = dist[t] \/ (t = e[2] /\ dist'[t] = d)
      <3>1. CASE t = e[2]
        BY <1>1, <1>2, <1>4, <2>1, <3>1
      <3>2. CASE t # e[2]
        BY <1>1, <2>1, <3>2
      <3>3. QED
        BY <3>1, <3>2
    <2>3. dist'[e[2]] <= d
      BY <1>1, <1>2, <2>1
    <2>4. QED
      BY <2>2, <2>3 DEF d
  <1>5. QED
    BY <1>3, <1>4

\* A walk that ends in the edge just seen is one hop longer than a walk that
\* the pass before accounts for.
LEMMA RelaxKeepsBounds ==
  ASSUME StructureInv, PassesBound, RelaxEdge
  PROVE  PassesBound'
  <1> DEFINE e == order[pos]
             V == EndPoints
  <1>0. /\ TypeOK /\ phase = "relax" /\ phase' = "relax" /\ pass' = pass
        /\ pos' = pos + 1 /\ pos <= Len(order) /\ UNCHANGED graphVars
    BY DEF StructureInv, RelaxEdge
  <1>1. /\ order' = order /\ weight' = weight /\ Edges' = Edges /\ EndPoints' = V
    BY <1>0, EdgesStay DEF graphVars, EndPoints
  <1>2. /\ V \subseteq Tokens /\ weight \in [Edges -> Int] /\ pass \in Nat \ {0}
        /\ e \in Edges /\ e[1] \in V /\ e[2] \in V /\ weight[e] \in Int
        /\ pos \in DOMAIN order
    BY <1>0, GraphIsFinite, OrderIsEdges, PosInOrder DEF TypeOK
  <1>3. /\ \A t \in V : /\ dist'[t] \in Int /\ dist[t] \in Int
                        /\ dist'[t] <= dist[t]
        /\ dist'[e[2]] <= dist[e[1]] + weight[e]
    BY <1>0, <1>2, RelaxLowers
  <1>4. ASSUME NEW m \in Nat \ {0}, NEW q \in WalksOver(V, Edges, m),
               dist[q[m]] <= WalkWeight(q, weight)
        PROVE  dist'[q[m]] <= WalkWeight(q, weight)
    <2>1. q[m] \in V
      BY DEF WalksOver
    <2>2. WalkWeight(q, weight) \in Int
      BY <1>2, WeightIsInteger
    <2>3. QED
      BY <1>3, <1>4, <2>1, <2>2
  <1>5. WalksBound(pass)'
    <2> SUFFICES ASSUME NEW m \in 1..pass, NEW q \in WalksOver(V, Edges, m)
                 PROVE  dist'[q[m]] <= WalkWeight(q, weight)
      BY <1>0, <1>1 DEF WalksBound
    <2>1. dist[q[m]] <= WalkWeight(q, weight) /\ m \in Nat \ {0}
      BY <1>0 DEF PassesBound, WalksBound
    <2>2. QED
      BY <1>4, <2>1
  <1>6. ASSUME NEW q \in WalksOver(V, Edges, pass + 1), NEW i \in DOMAIN order,
               i < pos + 1, order[i] = <<q[pass], q[pass + 1]>>
        PROVE  dist'[q[pass + 1]] <= WalkWeight(q, weight)
    <2>1. CASE i < pos
      <3>1. dist[q[pass + 1]] <= WalkWeight(q, weight)
        BY <1>0, <1>6, <2>1 DEF PassesBound
      <3>2. pass + 1 \in Nat \ {0}
        BY <1>2
      <3>3. QED
        BY <1>4, <3>1, <3>2
    <2>2. CASE i = pos
      <3> DEFINE p == [j \in 1..pass |-> q[j]]
      <3>1. p \in WalksOver(V, Edges, pass)
        BY <1>2, FrontIsWalk
      <3>2. /\ \A j \in 1..pass : q[j] = p[j]
            /\ e[1] = p[pass] /\ e[2] = q[pass + 1] /\ e = <<p[pass], q[pass + 1]>>
        BY <1>2, <1>6, <2>2
      <3> HIDE DEF p, e
      <3>3. WalkWeight(q, weight) = WalkWeight(p, weight) + weight[e]
        <4>1. WalkWeight(q, weight)
                = WalkWeight(p, weight) + weight[<<p[pass], q[pass + 1]>>]
          BY <1>2, <3>1, <3>2, LastHopAdds
        <4>2. QED
          BY <3>2, <4>1
      <3>4. dist[e[1]] <= WalkWeight(p, weight)
        <4>1. pass \in 1..pass
          BY <1>2
        <4>2. dist[p[pass]] <= WalkWeight(p, weight)
          BY <1>0, <3>1, <4>1 DEF PassesBound, WalksBound
        <4>3. QED
          BY <3>2, <4>2
      <3>5. /\ WalkWeight(p, weight) \in Int /\ weight[e] \in Int
            /\ dist[e[1]] \in Int /\ dist'[e[2]] \in Int
        BY <1>2, <1>3, <3>1, WeightIsInteger
      <3>6. dist'[e[2]] <= WalkWeight(p, weight) + weight[e]
        BY <1>3, <3>4, <3>5
      <3>7. QED
        BY <3>2, <3>3, <3>6
    <2>3. i < pos \/ i = pos
      <3>1. PICK k \in 0..MaxEdges : order \in [1..k -> Pairs]
        BY <1>0 DEF TypeOK, EdgeOrders
      <3>2. i \in Int /\ pos \in Int
        BY <1>0, <3>1 DEF TypeOK
      <3>3. QED
        BY <1>6, <3>2
    <2>4. QED
      BY <2>1, <2>2, <2>3
  <1>7. QED
    BY <1>0, <1>1, <1>5, <1>6 DEF PassesBound

\* A pass over every edge accounts for every walk of one more hop.
LEMMA EndPassKeepsBounds ==
  ASSUME StructureInv, PassesBound, EndPass
  PROVE  PassesBound'
  <1>0. /\ TypeOK /\ phase = "relax" /\ pos > Len(order) /\ pos' = 1
        /\ UNCHANGED <<graphVars, dist>>
    BY DEF StructureInv, EndPass
  <1>1. /\ order' = order /\ weight' = weight /\ Edges' = Edges /\ dist' = dist
        /\ EndPoints' = EndPoints /\ TokenCount' = TokenCount
    BY <1>0, EdgesStay DEF graphVars, EndPoints, TokenCount
  <1>2. pass \in Nat \ {0} /\ TokenCount \in Nat
    BY <1>0, GraphIsFinite DEF TypeOK
  <1>3. PICK k \in 0..MaxEdges : order \in [1..k -> Pairs]
    BY <1>0 DEF TypeOK, EdgeOrders
  <1>4. Len(order) = k /\ DOMAIN order = 1..k /\ pos \in Nat
    BY <1>0, <1>3 DEF TypeOK
  <1>5. ASSUME NEW m \in 1..(pass + 1), NEW q \in WalksOver(EndPoints, Edges, m)
        PROVE  dist[q[m]] <= WalkWeight(q, weight)
    <2>1. CASE m \in 1..pass
      BY <1>0, <2>1 DEF PassesBound, WalksBound
    <2>2. CASE m = pass + 1
      <3>1. <<q[pass], q[pass + 1]>> \in Edges
        <4>1. pass \in 1..(m - 1) /\ m \in Nat \ {0}
          BY <1>2, <2>2
        <4>2. q \in [1..m -> EndPoints]
          BY DEF WalksOver
        <4>3. QED
          BY <4>1, <4>2, WalkByHops
      <3>2. PICK i \in DOMAIN order : order[i] = <<q[pass], q[pass + 1]>>
        BY <3>1 DEF Edges, EdgesOf
      <3>3. i < pos
        BY <1>0, <1>4
      <3>4. QED
        BY <1>0, <2>2, <3>2, <3>3 DEF PassesBound
    <2>3. QED
      BY <1>2, <2>1, <2>2
  <1>6. CASE phase' = "detect" /\ UNCHANGED <<pass, updated>>
    <2>1. ASSUME updated PROVE WalksBound(TokenCount)
      <3>1. LastPass
        BY <1>0, <1>6 DEF EndPass
      <3>2. TokenCount <= pass + 1
        BY <1>2, <2>1, <3>1 DEF LastPass
      <3>3. \A m \in 1..TokenCount : m \in 1..(pass + 1)
        BY <1>2, <3>2
      <3>4. QED
        BY <1>5, <3>3 DEF WalksBound
    <2>2. QED
      BY <1>1, <1>6, <2>1 DEF PassesBound, WalksBound
  <1>7. CASE pass' = pass + 1 /\ updated' = FALSE /\ phase' = "relax"
    <2>1. WalksBound(pass + 1)
      BY <1>5 DEF WalksBound
    <2>2. WalksBound(pass)'
      BY <1>1, <1>7, <2>1 DEF WalksBound
    <2>3. \A i \in DOMAIN order : ~(i < 1)
      BY <1>4
    <2>4. QED
      BY <1>0, <1>1, <1>7, <2>2, <2>3 DEF PassesBound
  <1>8. QED
    BY <1>6, <1>7 DEF EndPass

-----------------------------------------------------------------------------
\* Every distance is the weight of some walk to its node.
DistancesReached ==
  \A v \in EndPoints : \E n \in Nat \ {0} : \E q \in WalksOver(EndPoints, Edges, n) :
    q[n] = v /\ WalkWeight(q, weight) = dist[v]

\* The walk that a relaxation stands for: one to the tail of the edge, and
\* the edge.
LEMMA WalkAlongEdge ==
  ASSUME TypeOK, DistancesReached, NEW e \in Edges
  PROVE  \E n \in Nat \ {0} : \E q \in WalksOver(EndPoints, Edges, n) :
           q[n] = e[2] /\ WalkWeight(q, weight) = dist[e[1]] + weight[e]
  <1>1. /\ e[1] \in EndPoints /\ e[2] \in EndPoints /\ e = <<e[1], e[2]>>
        /\ weight \in [Edges -> Int]
    BY GraphIsFinite
  <1>2. PICK n \in Nat \ {0} : \E q \in WalksOver(EndPoints, Edges, n) :
               q[n] = e[1] /\ WalkWeight(q, weight) = dist[e[1]]
    BY <1>1 DEF DistancesReached
  <1>3. PICK q \in WalksOver(EndPoints, Edges, n) :
               q[n] = e[1] /\ WalkWeight(q, weight) = dist[e[1]]
    BY <1>2
  <1> DEFINE r == [i \in 1..(n + 1) |-> IF i \in 1..n THEN q[i] ELSE e[2]]
  <1>4. r \in WalksOver(EndPoints, Edges, n + 1)
    BY <1>1, <1>3, ExtendedIsWalk
  <1>5. \A i \in 1..n : r[i] = q[i]
    OBVIOUS
  <1>6. r[n + 1] = e[2]
    OBVIOUS
  <1> HIDE DEF r
  <1>7. WalkWeight(r, weight)
          = WalkWeight(q, weight) + weight[<<q[n], r[n + 1]>>]
    BY <1>1, <1>4, <1>5, LastHopAdds
  <1>8. weight[<<q[n], r[n + 1]>>] = weight[e]
    BY <1>1, <1>3, <1>6
  <1>9. n + 1 \in Nat \ {0}
    OBVIOUS
  <1>10. QED
    BY <1>3, <1>4, <1>6, <1>7, <1>8, <1>9

LEMMA RelaxKeepsReached ==
  ASSUME StructureInv, DistancesReached, RelaxEdge
  PROVE  DistancesReached'
  <1> DEFINE e == order[pos]
  <1>0. TypeOK /\ UNCHANGED graphVars /\ pos <= Len(order)
    BY DEF StructureInv, RelaxEdge
  <1>1. weight' = weight /\ Edges' = Edges /\ EndPoints' = EndPoints
    BY <1>0, EdgesStay DEF graphVars, EndPoints
  <1>2. EndPoints \subseteq Tokens /\ e \in Edges
    BY <1>0, GraphIsFinite, OrderIsEdges, PosInOrder
  <1>3. \A t \in EndPoints :
          dist'[t] = dist[t] \/ (t = e[2] /\ dist'[t] = dist[e[1]] + weight[e])
    BY <1>0, <1>2, RelaxLowers
  <1> HIDE DEF e
  <1>4. SUFFICES ASSUME NEW v \in EndPoints
                 PROVE  \E n \in Nat \ {0} : \E q \in WalksOver(EndPoints, Edges, n) :
                          q[n] = v /\ WalkWeight(q, weight) = dist'[v]
    BY <1>1 DEF DistancesReached
  <1>5. CASE dist'[v] = dist[v]
    BY <1>5 DEF DistancesReached
  <1>6. CASE v = e[2] /\ dist'[v] = dist[e[1]] + weight[e]
    BY <1>0, <1>2, <1>6, WalkAlongEdge
  <1>7. QED
    BY <1>3, <1>5, <1>6

-----------------------------------------------------------------------------
\* The flags follow the V-th pass edge by edge.
LEMMA DetectKeepsFlags ==
  ASSUME StructureInv, FlagsMark, DetectEdge
  PROVE  FlagsMark'
  <1> DEFINE Seen(k) == {order[i][2] : i \in {j \in DOMAIN order :
                                                j < k /\ Relaxable(order[j])}}
  <1>0. /\ TypeOK /\ phase = "detect" /\ phase' = "detect" /\ pos' = pos + 1
        /\ pos <= Len(order) /\ UNCHANGED <<graphVars, dist>>
    BY DEF StructureInv, DetectEdge
  <1>1. order' = order /\ weight' = weight /\ dist' = dist
    BY <1>0 DEF graphVars
  <1>2. flagged = Seen(pos)
    BY <1>0 DEF FlagsMark
  <1>3. flagged' = IF Relaxable(order[pos]) THEN flagged \cup {order[pos][2]}
                                            ELSE flagged
    BY DEF DetectEdge
  <1>4. pos \in DOMAIN order /\ \A j \in DOMAIN order : j < pos + 1 <=> j < pos \/ j = pos
    <2>1. PICK k \in 0..MaxEdges : order \in [1..k -> Pairs]
      BY <1>0 DEF TypeOK, EdgeOrders
    <2>2. pos \in Nat /\ DOMAIN order \subseteq Nat
      BY <1>0, <2>1 DEF TypeOK
    <2>3. QED
      BY <1>0, <2>2, PosInOrder
  <1>5. Seen(pos + 1) = IF Relaxable(order[pos]) THEN Seen(pos) \cup {order[pos][2]}
                                                 ELSE Seen(pos)
    <2>1. CASE Relaxable(order[pos])
      BY <1>4, <2>1
    <2>2. CASE ~Relaxable(order[pos])
      BY <1>4, <2>2
    <2>3. QED
      BY <2>1, <2>2
  <1>6. flagged' = Seen(pos + 1)
    BY <1>2, <1>3, <1>5
  <1>7. \A j \in DOMAIN order : Relaxable(order[j])' <=> Relaxable(order[j])
    BY <1>1 DEF Relaxable
  <1>8. QED
    BY <1>0, <1>1, <1>6, <1>7 DEF FlagsMark

\* The other steps of the detector leave them as they are.
LEMMA OthersKeepFlags ==
  ASSUME StructureInv, FlagsMark,
         RelaxEdge \/ EndPass \/ EndDetect \/ PickNode \/ StepBack \/ StartTrail
           \/ TraceBack \/ Finish
  PROVE  FlagsMark'
  <1>0. TypeOK /\ NothingEarly
    BY DEF StructureInv
  <1>1. PICK k \in 0..MaxEdges : order \in [1..k -> Pairs]
    BY <1>0 DEF TypeOK, EdgeOrders
  <1>2. Len(order) = k /\ DOMAIN order = 1..k
    BY <1>1
  <1>3. CASE RelaxEdge
    BY <1>3 DEF RelaxEdge, FlagsMark
  <1>4. CASE EndPass
    <2>1. CASE phase' = "relax"
      BY <2>1 DEF FlagsMark
    <2>2. CASE phase' # "relax"
      <3>1. /\ phase' = "detect" /\ pos' = 1 /\ flagged' = {} /\ order' = order
        BY <1>0, <1>4, <2>2 DEF EndPass, NothingEarly, graphVars
      <3>2. \A j \in DOMAIN order : ~(j < 1)
        BY <1>2
      <3>3. QED
        BY <3>1, <3>2 DEF FlagsMark
    <2>3. QED
      BY <2>1, <2>2
  <1>5. CASE EndDetect
    <2>1. /\ phase = "detect" /\ phase' = "pick" /\ pos > Len(order)
          /\ order' = order /\ weight' = weight /\ dist' = dist
          /\ flagged' = flagged
      BY <1>5 DEF EndDetect, graphVars, searchVars
    <2>2. \A j \in DOMAIN order : j < pos
      BY <1>0, <1>2, <2>1 DEF TypeOK
    <2>3. {j \in DOMAIN order : (phase = "detect" => j < pos) /\ Relaxable(order[j])}
            = {j \in DOMAIN order : (phase' = "detect" => j < pos)
                                    /\ Relaxable(order[j])}
      BY <2>1, <2>2
    <2>4. \A j \in DOMAIN order : Relaxable(order[j])' <=> Relaxable(order[j])
      BY <2>1 DEF Relaxable
    <2>5. QED
      BY <2>1, <2>3, <2>4 DEF FlagsMark
  <1>6. CASE PickNode \/ StepBack \/ StartTrail \/ TraceBack \/ Finish
    <2>1. /\ phase \notin {"relax", "detect"} /\ phase' \notin {"relax", "detect"}
          /\ order' = order /\ weight' = weight /\ dist' = dist
          /\ flagged' = flagged
      BY <1>6 DEF PickNode, StepBack, StartTrail, TraceBack, Finish, GiveUp,
                  graphVars, searchVars
    <2>2. \A j \in DOMAIN order : Relaxable(order[j])' <=> Relaxable(order[j])
      BY <2>1 DEF Relaxable
    <2>3. QED
      BY <2>1, <2>2 DEF FlagsMark
  <1>7. QED
    BY <1>3, <1>4, <1>5, <1>6

-----------------------------------------------------------------------------
\* What the search knows of walks: the inductive part that makes the flags
\* and the cycles right.
WalkInv ==
  /\ AllPredCyclesGain
  /\ CyclesAreNegative
  /\ PassesBound
  /\ DistancesReached
  /\ FlagsMark

\* The steps that change neither the distances nor the predecessors.
LEMMA OthersKeepWalks ==
  ASSUME StructureInv, AllPredCyclesGain, DistancesReached,
         UNCHANGED <<graphVars, dist, pred>>
  PROVE  AllPredCyclesGain' /\ DistancesReached'
  <1>1. weight' = weight /\ Edges' = Edges /\ EndPoints' = EndPoints
    BY EdgesStay DEF graphVars, EndPoints
  <1>2. AllPredCyclesGain'
    BY <1>1 DEF AllPredCyclesGain, PredCycles, CycleWeight
  <1>3. DistancesReached'
    BY <1>1 DEF DistancesReached
  <1>4. QED
    BY <1>2, <1>3

\* Once the passes are over, nothing moves the bound on the walks.
LEMMA OthersKeepBounds ==
  ASSUME PassesBound, UNCHANGED <<graphVars, dist, updated>>,
         phase # "relax", phase' # "relax"
  PROVE  PassesBound'
  <1>1. /\ weight' = weight /\ Edges' = Edges /\ EndPoints' = EndPoints
        /\ TokenCount' = TokenCount
    BY EdgesStay DEF graphVars, EndPoints, TokenCount
  <1>2. QED
    BY <1>1 DEF PassesBound, WalksBound

\* A rebuilt cycle is a cycle of predecessors, and those gain.
LEMMA StepKeepsNegative ==
  ASSUME StructureInv, AllPredCyclesGain, CyclesAreNegative, Next
  PROVE  CyclesAreNegative'
  <1>0. TypeOK /\ TrailIsLinked /\ weight' = weight
    BY DEF StructureInv, Next, RelaxEdge, EndPass, DetectEdge, EndDetect, PickNode,
           StepBack, StartTrail, TraceBack, Finish, GiveUp, graphVars
  <1>1. CASE cycles' = cycles
    BY <1>0, <1>1 DEF CyclesAreNegative, CycleWeight
  <1>2. CASE cycles' # cycles
    <2>1. TraceBack
      BY <1>2 DEF Next, RelaxEdge, EndPass, DetectEdge, EndDetect, PickNode,
                  StepBack, StartTrail, Finish, GiveUp, traceVars
    <2>2. PICK k \in DOMAIN trail :
            /\ trail[k] = pred[trail[Len(trail)]]
            /\ cycles' = cycles \cup {CloseCycle(trail, k)}
      BY <1>2, <2>1 DEF TraceBack, GiveUp
    <2>3. phase = "trace"
      BY <2>1 DEF TraceBack
    <2>4. PICK m \in Nat : m >= 2 /\ CloseCycle(trail, k) \in PredCycles(m)
      BY <1>0, <2>2, <2>3, ClosingIsPredCycle
    <2>5. CycleWeight(CloseCycle(trail, k)) < 0
      BY <2>4 DEF AllPredCyclesGain
    <2>6. QED
      BY <1>0, <2>2, <2>5 DEF CyclesAreNegative, CycleWeight
  <1>3. QED
    BY <1>1, <1>2

LEMMA StepKeepsWalks ==
  ASSUME StructureInv, WalkInv, [Next]_vars
  PROVE  WalkInv'
  <1>0. /\ AllPredCyclesGain /\ CyclesAreNegative /\ PassesBound
        /\ DistancesReached /\ FlagsMark
    BY DEF WalkInv
  <1>1. CASE RelaxEdge
    <2>1. CyclesAreNegative'
      BY <1>0, <1>1, StepKeepsNegative DEF Next
    <2>2. QED
      BY <1>0, <1>1, <2>1, RelaxKeepsGain, RelaxKeepsBounds, RelaxKeepsReached,
         OthersKeepFlags DEF WalkInv
  <1>2. CASE EndPass
    <2>1. CyclesAreNegative'
      BY <1>0, <1>2, StepKeepsNegative DEF Next
    <2>2. UNCHANGED <<graphVars, dist, pred>>
      BY <1>2 DEF EndPass
    <2>3. QED
      BY <1>0, <1>2, <2>1, <2>2, OthersKeepWalks, EndPassKeepsBounds,
         OthersKeepFlags DEF WalkInv
  <1>3. CASE DetectEdge
    <2>1. CyclesAreNegative'
      BY <1>0, <1>3, StepKeepsNegative DEF Next
    <2>2. /\ UNCHANGED <<graphVars, dist, pred, updated>>
          /\ phase # "relax" /\ phase' # "relax"
      BY <1>3 DEF DetectEdge
    <2>3. QED
      BY <1>0, <1>3, <2>1, <2>2, OthersKeepWalks, OthersKeepBounds,
         DetectKeepsFlags DEF WalkInv
  <1>4. CASE EndDetect \/ PickNode \/ StepBack \/ StartTrail \/ TraceBack \/ Finish
    <2>1. CyclesAreNegative'
      BY <1>0, <1>4, StepKeepsNegative DEF Next
    <2>2. /\ UNCHANGED <<graphVars, dist, pred, updated>>
          /\ phase # "relax" /\ phase' # "relax"
      BY <1>4 DEF EndDetect, PickNode, StepBack, StartTrail, TraceBack, Finish,
                  GiveUp, searchVars
    <2>3. QED
      BY <1>0, <1>4, <2>1, <2>2, OthersKeepWalks, OthersKeepBounds,
         OthersKeepFlags DEF WalkInv
  <1>5. CASE UNCHANGED vars
    <2>1. /\ order' = order /\ weight' = weight /\ dist' = dist /\ pred' = pred
          /\ phase' = phase /\ pass' = pass /\ pos' = pos /\ updated' = updated
          /\ flagged' = flagged /\ cycles' = cycles
      BY <1>5 DEF vars, graphVars, searchVars, traceVars
    <2>2. /\ Edges' = Edges /\ EndPoints' = EndPoints /\ TokenCount' = TokenCount
      BY <2>1, EdgesStay DEF graphVars, EndPoints, TokenCount
    <2>3. AllPredCyclesGain' /\ DistancesReached'
      BY <1>0, <2>1, OthersKeepWalks DEF graphVars
    <2>4. PassesBound'
      BY <1>0, <2>1, <2>2 DEF PassesBound, WalksBound
    <2>5. CyclesAreNegative'
      BY <1>0, <2>1 DEF CyclesAreNegative, CycleWeight
    <2>6. FlagsMark'
      BY <1>0, <2>1 DEF FlagsMark, Relaxable
    <2>7. QED
      BY <2>3, <2>4, <2>5, <2>6 DEF WalkInv
  <1>6. QED
    BY <1>1, <1>2, <1>3, <1>4, <1>5 DEF Next

\* A graph of fewer than two tokens has no edge.
LEMMA FewTokensNoEdge ==
  ASSUME TypeOK, TokenCount < 2
  PROVE  Edges = {}
  <1> SUFFICES ASSUME NEW e \in Edges PROVE FALSE
    OBVIOUS
  <1>1. /\ e[1] \in EndPoints /\ e[2] \in EndPoints /\ e[1] # e[2]
        /\ IsFiniteSet(EndPoints)
    BY GraphIsFinite DEF EndPoints
  <1>2. IsFiniteSet({e[1]}) /\ Cardinality({e[1]}) = 1
    BY FS_Singleton
  <1>3. Cardinality({e[1]} \cup {e[2]}) = 2
    <2> DEFINE S == {e[1]}
               x == e[2]
    <2>1. IsFiniteSet(S) /\ Cardinality(S) = 1 /\ x \notin S
      BY <1>1, <1>2
    <2> HIDE DEF S, x
    <2>2. Cardinality(S \cup {x}) = 2
      BY <2>1, FS_AddElement
    <2>3. QED
      BY <2>2 DEF S, x
  <1>4. Cardinality({e[1]} \cup {e[2]}) <= TokenCount
    BY <1>1, FS_Subset DEF TokenCount
  <1>5. QED
    BY <1>3, <1>4, GraphIsFinite

LEMMA InitHoldsOfWalks == Init => WalkInv
  <1> SUFFICES ASSUME Init PROVE WalkInv
    OBVIOUS
  <1>0. /\ TypeOK /\ EndPoints \subseteq Tokens /\ weight \in [Edges -> Int]
    BY InitHolds, GraphIsFinite DEF StructureInv
  <1>1. /\ dist = [t \in Tokens |-> 0] /\ pred = [t \in Tokens |-> NoPred]
        /\ pass = 1 /\ pos = 1 /\ updated = FALSE /\ flagged = {} /\ cycles = {}
    BY DEF Init
  <1>2. AllPredCyclesGain
    <2> SUFFICES ASSUME NEW m \in Nat, m >= 2, NEW c \in PredCycles(m) PROVE FALSE
      BY DEF AllPredCyclesGain
    <2>1. /\ c \in [1..m -> Tokens] /\ 1 \in 1..(m - 1) /\ 1 \in 1..m /\ 2 \in 1..m
      BY DEF PredCycles
    <2>2. pred[c[2]] = c[1]
      BY <2>1 DEF PredCycles
    <2>3. QED
      BY <1>1, <2>1, <2>2, GraphAssumption DEF NoPred
  <1>3. ASSUME NEW q \in WalksOver(EndPoints, Edges, 1)
        PROVE  dist[q[1]] = 0 /\ WalkWeight(q, weight) = 0
    <2>1. q[1] \in EndPoints
      BY DEF WalksOver
    <2>2. WalkWeight(q, weight) = 0
      BY <1>0, NodeWeighsNothing
    <2>3. QED
      BY <1>0, <1>1, <2>1, <2>2
  <1>4. PassesBound
    <2>1. WalksBound(1)
      BY <1>3 DEF WalksBound
    <2>2. \A i \in DOMAIN order : ~(i < 1)
      <3>1. PICK k \in 0..MaxEdges : order \in [1..k -> Pairs]
        BY <1>0 DEF TypeOK, EdgeOrders
      <3>2. QED
        BY <3>1
    <2>3. QED
      BY <1>1, <2>1, <2>2 DEF PassesBound
  <1>5. DistancesReached
    <2> SUFFICES ASSUME NEW v \in EndPoints
                 PROVE  \E q \in WalksOver(EndPoints, Edges, 1) :
                          q[1] = v /\ WalkWeight(q, weight) = dist[v]
      BY DEF DistancesReached
    <2> DEFINE q == [i \in 1..1 |-> v]
    <2>1. q \in [1..1 -> EndPoints] /\ q[1] = v
      OBVIOUS
    <2> HIDE DEF q
    <2>2. q \in WalksOver(EndPoints, Edges, 1)
      <3>1. \A i \in 1..(1 - 1) : <<q[i], q[i + 1]>> \in Edges
        OBVIOUS
      <3>2. QED
        BY <2>1, <3>1, WalkByHops
    <2>3. QED
      BY <1>3, <2>1, <2>2
  <1>6. FlagsMark
    <2>1. CASE TokenCount < 2
      <3>1. DOMAIN order = {}
        BY <1>0, <2>1, FewTokensNoEdge DEF Edges, EdgesOf
      <3>2. QED
        BY <1>1, <3>1 DEF FlagsMark
    <2>2. CASE ~(TokenCount < 2)
      BY <2>2 DEF Init, FlagsMark
    <2>3. QED
      BY <2>1, <2>2
  <1>7. QED
    BY <1>1, <1>2, <1>4, <1>5, <1>6 DEF WalkInv, CyclesAreNegative

LEMMA WalkInvariant == Spec => [](StructureInv /\ WalkInv)
  <1>1. Init => StructureInv /\ WalkInv
    BY InitHolds, InitHoldsOfWalks
  <1>2. StructureInv /\ WalkInv /\ [Next]_vars => (StructureInv /\ WalkInv)'
    BY StepKeepsStructure, StepKeepsWalks
  <1>3. QED
    BY <1>1, <1>2, PTL DEF Spec

\* The inductive invariant holds of every detection, for every token set,
\* every integer weights and every graph.
THEOREM BellmanFordInvariant == Spec => []BellmanFordInv
  <1>1. TypeOK /\ AllPredCyclesGain => PredCyclesGain
    <2> SUFFICES ASSUME TypeOK, AllPredCyclesGain, NEW k \in 2..(TokenCount + 1)
                 PROVE  \A c \in PredCycles(k) : CycleWeight(c) < 0
      BY DEF PredCyclesGain
    <2>1. k \in Nat /\ k >= 2
      OBVIOUS
    <2>2. QED
      BY <2>1 DEF AllPredCyclesGain
  <1>2. StructureInv /\ WalkInv => BellmanFordInv
    BY <1>1 DEF StructureInv, WalkInv, BellmanFordInv
  <1>3. QED
    BY <1>2, WalkInvariant, PTL

\* Every cycle that detect hands to _evaluate_cycle gains before fees, on
\* every graph: a cycle among predecessors is negative, in whichever passes
\* its pointers were set.
THEOREM RebuiltCyclesGain == Spec => []CyclesAreNegative
  <1>1. StructureInv /\ WalkInv => CyclesAreNegative
    BY DEF WalkInv
  <1>2. QED
    BY <1>1, WalkInvariant, PTL

-----------------------------------------------------------------------------
\* A simple closed walk is one of ClosedWalks, and the other way round.
LEMMA ClosedWalksAreSimple ==
  ASSUME NEW k \in 3..(TokenCount + 1), NEW c \in [1..k -> EndPoints]
  PROVE  c \in SimpleClosed(EndPoints, Edges, k) <=> c \in ClosedWalks
  <1>1. k \in Nat /\ Len(c) = k /\ c \in UNION {[1..n -> EndPoints] : n \in 3..(TokenCount + 1)}
    OBVIOUS
  <1>2. QED
    BY <1>1 DEF SimpleClosed, WalksOver, ClosedWalks

\* The V-th pass flags a node exactly when the graph has a negative cycle.
LEMMA FlagsTell ==
  ASSUME StructureInv, WalkInv, phase = "pick"
  PROVE  flagged # {} <=> NegativeCycleExists
  <1> DEFINE V == EndPoints
  <1>0. /\ TypeOK /\ EarlyExitIsSafe /\ PassesBound /\ DistancesReached
    BY DEF StructureInv, WalkInv
  <1>1. /\ V \subseteq Tokens /\ IsFiniteSet(V) /\ TokenCount \in Nat
        /\ TokenCount = Cardinality(V)
        /\ \A v \in V : <<v, v>> \notin Edges
        /\ weight \in [Edges -> Int]
        /\ \A e \in Edges : /\ e[1] \in V /\ e[2] \in V
                            /\ e = <<e[1], e[2]>> /\ weight[e] \in Int
    BY <1>0, GraphIsFinite DEF TokenCount
  <1>2. \A v \in V : dist[v] \in Int
    BY <1>0, <1>1 DEF TypeOK
  <1>3. flagged = {e[2] : e \in {f \in Edges : Relaxable(f)}}
    BY DEF WalkInv, FlagsMark, Edges, EdgesOf
  <1>4. ASSUME flagged # {}, ~NegativeCycleExists
        PROVE  FALSE
    <2>1. PICK e \in Edges : Relaxable(e)
      BY <1>3, <1>4
    <2>2. WalksBound(TokenCount)
      BY <1>0, <1>4 DEF EarlyExitIsSafe, PassesBound
    <2>3. \A k \in 3..(Cardinality(V) + 1) : \A c \in SimpleClosed(V, Edges, k) :
            WalkWeight(c, weight) >= 0
      <3> SUFFICES ASSUME NEW k \in 3..(TokenCount + 1),
                          NEW c \in SimpleClosed(V, Edges, k)
                   PROVE  WalkWeight(c, weight) >= 0
        BY <1>1
      <3>1. c \in WalksOver(V, Edges, k) /\ c \in [1..k -> V] /\ k \in Nat \ {0}
        BY DEF SimpleClosed, WalksOver
      <3>2. c \in ClosedWalks
        BY <3>1, ClosedWalksAreSimple
      <3>3. ~(WalkWeight(c, weight) < 0)
        BY <1>4, <3>2 DEF NegativeCycleExists, CycleWeight
      <3>4. WalkWeight(c, weight) \in Int
        BY <1>1, <3>1, WeightIsInteger
      <3>5. QED
        BY <3>3, <3>4
    <2>4. PICK n \in Nat \ {0} : \E p \in WalksOver(V, Edges, n) :
            p[n] = e[2] /\ WalkWeight(p, weight) = dist[e[1]] + weight[e]
      BY <1>0, WalkAlongEdge
    <2>5. PICK p \in WalksOver(V, Edges, n) :
            p[n] = e[2] /\ WalkWeight(p, weight) = dist[e[1]] + weight[e]
      BY <2>4
    <2>6. PICK m \in 1..Cardinality(V) : \E q \in WalksOver(V, Edges, m) :
            q[m] = p[n] /\ WalkWeight(q, weight) <= WalkWeight(p, weight)
      BY <1>1, <2>3, ShortWalksAreLightest
    <2>7. PICK q \in WalksOver(V, Edges, m) :
            q[m] = p[n] /\ WalkWeight(q, weight) <= WalkWeight(p, weight)
      BY <2>6
    <2>8. dist[e[2]] <= WalkWeight(q, weight)
      BY <1>1, <2>2, <2>5, <2>7 DEF WalksBound
    <2>9. /\ dist[e[1]] + weight[e] < dist[e[2]]
          /\ WalkWeight(q, weight) <= dist[e[1]] + weight[e]
      BY <2>1, <2>5, <2>7 DEF Relaxable
    <2>10. /\ dist[e[1]] \in Int /\ dist[e[2]] \in Int /\ weight[e] \in Int
           /\ WalkWeight(q, weight) \in Int
      <3>1. m \in Nat \ {0}
        BY <1>1
      <3>2. QED
        BY <1>1, <1>2, <3>1, WeightIsInteger
    <2>11. QED
      BY <2>8, <2>9, <2>10
  <1>5. ASSUME flagged = {}, NegativeCycleExists
        PROVE  FALSE
    <2>1. \A e \in Edges : ~Relaxable(e)
      BY <1>3, <1>5
    <2>2. PICK c \in ClosedWalks : WalkWeight(c, weight) < 0
      BY <1>5 DEF NegativeCycleExists, CycleWeight
    <2>3. PICK k \in 3..(TokenCount + 1) : c \in [1..k -> V]
      BY DEF ClosedWalks
    <2>4. c \in WalksOver(V, Edges, k) /\ c[1] = c[k] /\ k \in Nat \ {0}
      BY <2>3, ClosedWalksAreSimple DEF SimpleClosed
    <2> DEFINE d == [v \in V |-> dist[v]]
    <2>5. d \in [V -> Int] /\ \A v \in V : d[v] = dist[v]
      BY <1>2
    <2>6. ASSUME NEW i \in 1..(k - 1)
          PROVE  d[c[i + 1]] <= d[c[i]] + weight[<<c[i], c[i + 1]>>]
      <3>1. /\ <<c[i], c[i + 1]>> \in Edges /\ c[i] \in V /\ c[i + 1] \in V
            /\ weight[<<c[i], c[i + 1]>>] \in Int
        BY <1>1, <2>4, HopWeights
      <3>2. ~(dist[c[i]] + weight[<<c[i], c[i + 1]>>] < dist[c[i + 1]])
        BY <2>1, <3>1 DEF Relaxable
      <3>3. dist[c[i]] \in Int /\ dist[c[i + 1]] \in Int
        BY <1>2, <3>1
      <3>4. dist[c[i + 1]] <= dist[c[i]] + weight[<<c[i], c[i + 1]>>]
        BY <3>1, <3>2, <3>3
      <3>5. QED
        BY <2>5, <3>1, <3>4
    <2> HIDE DEF d
    <2>7. d[c[k]] - d[c[1]] <= WalkWeight(c, weight)
      BY <1>1, <2>4, <2>5, <2>6, PotentialBelow
    <2>8. d[c[k]] = d[c[1]] /\ d[c[1]] \in Int /\ WalkWeight(c, weight) \in Int
      <3>1. 1 \in 1..k /\ c[1] \in V
        BY <2>3, <2>4
      <3>2. QED
        BY <1>1, <2>4, <2>5, <3>1, WeightIsInteger
    <2>9. QED
      BY <2>2, <2>7, <2>8
  <1>6. QED
    BY <1>4, <1>5

\* n - 1 passes, cut short by a pass that changes nothing, are enough to tell,
\* whatever the graph and whatever the order in which its pools are read:
\* the V-th pass flags a node if and only if there is a negative cycle.
THEOREM FlagsTellNegativeCycles == Spec => []FlagsAreExact
  <1>1. StructureInv /\ WalkInv => FlagsAreExact
    BY FlagsTell DEF FlagsAreExact
  <1>2. QED
    BY <1>1, WalkInvariant, PTL

-----------------------------------------------------------------------------
\* Every cycle handed to _evaluate_cycle is a closed walk over edges of the
\* price graph, in trading direction, on every graph.
THEOREM RebuiltCyclesAreTradable == Spec => []CyclesAreTradable
  <1>1. StructureInv => CyclesAreTradable
    BY DEF StructureInv
  <1>2. QED
    BY <1>1, StructureInvariant, PTL

\* On every graph, a detection cut short by a quiet pass has nothing to flag.
THEOREM EarlyTerminationIsSafe == Spec => []EarlyExitIsSafe
  <1>1. StructureInv => EarlyExitIsSafe
    BY DEF StructureInv
  <1>2. QED
    BY <1>1, StructureInvariant, PTL
=============================================================================
