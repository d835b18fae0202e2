--------------------------- MODULE MarketDataProofs ---------------------------
(***************************************************************************)
(* Proofs about MarketData for any number of endpoints, pools and quotes:  *)
(* the inductive invariant of a scan, and that no straggling query touches *)
(* the graph after detection.                                              *)
(***************************************************************************)
EXTENDS MarketData, TLAPS

\* The reads that replace a set of quotes keep the graph well-typed.
LEMMA AddType ==
  ASSUME DOMAIN quotes \subseteq Edges, quotes \in [DOMAIN quotes -> 0..AgeCap],
         NEW S, S \subseteq Edges, quotes' = Add(S)
  PROVE  /\ DOMAIN quotes' \subseteq Edges
         /\ quotes' \in [DOMAIN quotes' -> 0..AgeCap]
<1>1. DOMAIN quotes' = DOMAIN quotes \cup S
  BY DEF Add
<1>2. ASSUME NEW e \in DOMAIN quotes' PROVE quotes'[e] \in 0..AgeCap
  BY <1>1, FeedAssumption DEF Add
<1> QED
  BY <1>1, <1>2 DEF Add

\* Whatever a refresh reads are edges of the graph.
LEMMA ReadEdges ==
  /\ \A S \in SUBSET UniV3Pools : BothDirections(S) \subseteq Edges
  /\ \A S \in SUBSET CurveEdges : S \subseteq Edges
  /\ \A i \in DOMAIN BalancerEdges : {BalancerEdges[i]} \subseteq Edges
BY DEF Edges, UniV3Edges, BalancerQuotes, BothDirections

LEMMA QueryCount == Len(BalancerEdges) \in Nat
                    /\ DOMAIN BalancerEdges = 1..Len(BalancerEdges)
BY EdgeAssumption

-----------------------------------------------------------------------------
LEMMA InitInv == Init => MarketInv
<1> SUFFICES ASSUME Init PROVE MarketInv
  OBVIOUS
<1>1. Web3TypeOK /\ ConnectedIsMeasured
  BY DEF Init, Web3Init, Web3TypeOK, ConnectedIsMeasured, CheckPoints
<1>2. DOMAIN quotes = {} /\ quotes \in [DOMAIN quotes -> 0..AgeCap]
  BY DEF Init
<1>3. balancerNext \in 1..NoQuery
  BY QueryCount DEF Init, NoQuery
<1>4. MarketTypeOK
  BY <1>1, <1>2, <1>3 DEF Init, MarketTypeOK, Phases
<1> QED
  BY <1>1, <1>4 DEF Init, MarketInv, Gathered

\* The health loop and the network keep the endpoint pool well-typed and do
\* not touch the scan.
LEMMA Web3Step ==
  ASSUME MarketInv, HealthLoop \/ ConditionChanges, UNCHANGED feedVars
  PROVE  MarketInv'
<1>1. Web3TypeOK' /\ ConnectedIsMeasured'
  <2> USE DEF MarketInv, MarketTypeOK, Web3TypeOK, ConnectedIsMeasured,
              CheckPoints, Conditions
  <2>1. CASE CheckAll
    BY <2>1 DEF CheckAll
  <2>2. CASE CheckedAll
    BY <2>2 DEF CheckedAll
  <2>3. ASSUME NEW e \in Endpoints, Reconnect(e)
        PROVE  Web3TypeOK' /\ ConnectedIsMeasured'
    BY <2>3 DEF Reconnect
  <2>4. ASSUME NEW e \in Endpoints, Measure(e)
        PROVE  Web3TypeOK' /\ ConnectedIsMeasured'
    BY <2>4 DEF Measure
  <2>5. CASE ConditionChanges
    BY <2>5 DEF ConditionChanges
  <2> QED
    BY <2>1, <2>2, <2>3, <2>4, <2>5 DEF HealthLoop
<1> QED
  BY <1>1 DEF MarketInv, MarketTypeOK, Gathered, feedVars

\* A step of the scan that leaves the graph alone need only keep the control
\* state in order.
LEMMA ScanControl ==
  ASSUME MarketInv, UNCHANGED web3Vars, UNCHANGED quotes,
         phase' \in Phases, curvePending' \in BOOLEAN, balancerNext' \in 1..NoQuery,
         opportunity' \subseteq Edges, phase' # "quotes" => Gathered'
  PROVE  MarketInv'
BY DEF MarketInv, MarketTypeOK, Web3TypeOK, ConnectedIsMeasured, web3Vars

\* So must one that replaces the quotes of edges.
LEMMA ScanRead ==
  ASSUME MarketInv, UNCHANGED web3Vars, UNCHANGED opportunity,
         NEW S, S \subseteq Edges, quotes' = Add(S),
         phase' = "quotes", curvePending' \in BOOLEAN, balancerNext' \in 1..NoQuery
  PROVE  MarketInv'
<1>1. DOMAIN quotes' \subseteq Edges /\ quotes' \in [DOMAIN quotes' -> 0..AgeCap]
  BY AddType DEF MarketInv, MarketTypeOK
<1> QED
  BY <1>1 DEF MarketInv, MarketTypeOK, Web3TypeOK, ConnectedIsMeasured, web3Vars, Phases

LEMMA ScanStep ==
  ASSUME MarketInv, Scan
  PROVE  MarketInv'
<1> USE DEF Scan
<1>0. /\ phase \in Phases /\ curvePending \in BOOLEAN
      /\ balancerNext \in 1..NoQuery /\ opportunity \subseteq Edges
      /\ phase # "quotes" => Gathered
  BY DEF MarketInv, MarketTypeOK
<1>1. CASE GasPrice
  BY <1>0, <1>1, ScanControl DEF GasPrice, Gathered, Phases
<1>2. CASE UniV3Prices
  <2>1. PICK S \in SUBSET UniV3Pools : quotes' = Add(BothDirections(S))
    BY <1>2 DEF UniV3Prices
  <2>2. BothDirections(S) \subseteq Edges
    BY ReadEdges
  <2>3. balancerNext' \in 1..NoQuery
    BY <1>2, QueryCount DEF UniV3Prices, NoQuery
  <2>4. curvePending' \in BOOLEAN /\ phase' = "quotes" /\ UNCHANGED opportunity
    BY <1>2 DEF UniV3Prices
  <2> QED
    BY <2>1, <2>2, <2>3, <2>4, ScanRead
<1>3. CASE CurveQuotes
  <2>1. PICK S \in SUBSET CurveEdges : quotes' = Add(S)
    BY <1>3 DEF CurveQuotes
  <2>2. S \subseteq Edges
    BY ReadEdges
  <2>3. phase' = "quotes" /\ curvePending' = FALSE /\ UNCHANGED <<balancerNext, opportunity>>
    BY <1>0, <1>3 DEF CurveQuotes, Gathered
  <2> QED
    BY <2>1, <2>2, <2>3, <1>0, ScanRead
<1>4. CASE BalancerQuote
  <2>1. phase' = "quotes" /\ UNCHANGED <<curvePending, opportunity>>
    BY <1>0, <1>4, QueryCount DEF BalancerQuote, Gathered, NoQuery
  <2>2. balancerNext' \in 1..NoQuery
    BY <1>4, QueryCount DEF BalancerQuote, NoQuery
  <2>3. CASE quotes' = quotes
    BY <2>1, <2>2, <2>3, <1>0, ScanControl DEF Phases
  <2>4. CASE quotes' = Add({BalancerEdges[balancerNext]})
    <3>1. {BalancerEdges[balancerNext]} \subseteq Edges
      BY <1>4, ReadEdges DEF BalancerQuote
    <3> QED
      BY <3>1, <2>1, <2>2, <2>4, <1>0, ScanRead
  <2> QED
    BY <2>3, <2>4, <1>4 DEF BalancerQuote
<1>5. CASE RefreshLiquidity
  BY <1>0, <1>5, ScanControl DEF RefreshLiquidity, Gathered, Phases
<1>6. CASE Detect
  <2>1. opportunity' \subseteq Edges
    BY <1>6 DEF Detect, MarketInv, MarketTypeOK
  <2>2. Gathered
    BY <1>0, <1>6 DEF Detect, Refreshed
  <2> QED
    BY <1>0, <1>6, <2>1, <2>2, ScanControl DEF Detect, Gathered, Phases
<1>7. CASE DetectNothing
  <2>1. Gathered
    BY <1>0, <1>7 DEF DetectNothing, Refreshed
  <2> QED
    BY <1>0, <1>7, <2>1, ScanControl DEF DetectNothing, Gathered, Phases
<1>8. CASE BalanceRead
  BY <1>0, <1>8, ScanControl DEF BalanceRead, Gathered, Phases
<1>9. CASE Executed
  BY <1>0, <1>9, ScanControl DEF Executed, Gathered, Phases
<1>10. CASE Raise({"gas", "prices", "balance"})
  BY <1>0, <1>10, ScanControl DEF Raise, Gathered, Phases
<1> QED
  BY <1>1, <1>2, <1>3, <1>4, <1>5, <1>6, <1>7, <1>8, <1>9, <1>10

LEMMA BlockStep ==
  ASSUME MarketInv, NewBlock, UNCHANGED web3Vars
  PROVE  MarketInv'
BY ScanControl DEF NewBlock, MarketInv, MarketTypeOK, Gathered, Phases

\* The quotes age within their bound.
LEMMA TickStep ==
  ASSUME MarketInv, Tick, UNCHANGED web3Vars
  PROVE  MarketInv'
<1>1. DOMAIN quotes' = DOMAIN quotes
  BY DEF Tick
<1>2. quotes' \in [DOMAIN quotes' -> 0..AgeCap]
  BY <1>1, FeedAssumption DEF Tick, MarketInv, MarketTypeOK
<1> QED
  BY <1>1, <1>2 DEF Tick, MarketInv, MarketTypeOK, Web3TypeOK,
     ConnectedIsMeasured, web3Vars, Gathered

LEMMA StutterStep == MarketInv /\ UNCHANGED vars => MarketInv'
BY DEF MarketInv, MarketTypeOK, Web3TypeOK, ConnectedIsMeasured,
       Gathered, vars, feedVars, web3Vars

LEMMA InvStep == MarketInv /\ [Next]_vars => MarketInv'
BY Web3Step, ScanStep, BlockStep, TickStep, StutterStep DEF Next

\* Whatever reads fail and whatever the health loop does meanwhile, the scan,
\* the endpoint pool and the graph stay consistent: nothing is awaited on
\* behalf of a refresh that is over.
THEOREM MarketInvariant == Spec => []MarketInv
BY InitInv, InvStep, PTL DEF Spec

-----------------------------------------------------------------------------
\* The actions that replace quotes are not enabled once detection is over.
LEMMA SettledStep == MarketInv /\ [Next]_vars => QuotesAreSettled
<1> SUFFICES ASSUME MarketInv, [Next]_vars, phase \in {"balance", "execute"},
                    NEW e \in DOMAIN quotes
             PROVE  quotes'[e] >= quotes[e]
  BY DEF QuotesAreSettled
<1>1. quotes[e] \in Int /\ quotes[e] <= AgeCap
  BY FeedAssumption DEF MarketInv, MarketTypeOK
<1>2. Gathered
  BY DEF MarketInv
<1>3. CASE Scan
  <2>1. quotes' = quotes
    BY <1>2, <1>3, QueryCount DEF Scan, GasPrice, UniV3Prices, CurveQuotes,
       BalancerQuote, RefreshLiquidity, Detect, DetectNothing, BalanceRead,
       Executed, Raise, Gathered, NoQuery
  <2> QED
    BY <1>1, <2>1
<1>4. CASE NewBlock
  BY <1>1, <1>4 DEF NewBlock
<1>5. CASE Tick
  BY <1>1, <1>5, FeedAssumption DEF Tick
<1>6. CASE UNCHANGED feedVars
  BY <1>1, <1>6 DEF feedVars
<1>7. CASE UNCHANGED vars
  BY <1>1, <1>7 DEF vars, feedVars
<1> QED
  BY <1>3, <1>4, <1>5, <1>6, <1>7 DEF Next

\* From detection to the end of the trade no quote of the graph is replaced.
THEOREM QuotesSettle == Spec => NoStragglers
BY MarketInvariant, SettledStep, PTL DEF Spec, NoStragglers
=============================================================================
