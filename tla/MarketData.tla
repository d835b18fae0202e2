------------------------------ MODULE MarketData ------------------------------
(***************************************************************************)
(* A scan: the awaits of _scan_and_execute in nexus_arb/orchestrator.py,   *)
(* with MarketData.refresh and PriceGraph of nexus_arb/market_data.py and  *)
(* the endpoints of Web3Manager. A quote is a PoolPrice in the graph; only *)
(* its age is kept, in ticks. What follows the balance read is Trading's;  *)
(* here it is one point, execute.                                          *)
(***************************************************************************)
EXTENDS Web3Manager, Sequences

CONSTANTS
  UniV3Pools,     \* each quoted in both directions
  CurveEdges,     \* directed quotes asked in one multicall
  BalancerEdges,  \* the sequence of directed quotes asked one by one
  Reverse,        \* each Uniswap pool's id with the suffix _rev
  Cycles,         \* the edge sets of the cycles detect may find
  OpportunityTtl, \* opportunity_ttl_ms, in ticks
  AgeCap          \* bound of the model: older quotes are not told apart

ASSUME FeedAssumption ==
  /\ OpportunityTtl \in Nat /\ AgeCap \in Nat /\ OpportunityTtl < AgeCap

UniV3Edges == UniV3Pools \cup {Reverse[p] : p \in UniV3Pools}
BalancerQuotes == {BalancerEdges[i] : i \in DOMAIN BalancerEdges}
Edges == UniV3Edges \cup CurveEdges \cup BalancerQuotes

ASSUME EdgeAssumption == BalancerEdges \in Seq(BalancerQuotes)

VARIABLES
  quotes,       \* the age of each quote in the graph
  phase,        \* what the scan awaits
  curvePending, \* _refresh_curve awaits its multicall
  balancerNext, \* the query _refresh_balancer awaits; past the end: returned
  opportunity   \* the edges of the best cycle

feedVars == <<quotes, phase, curvePending, balancerNext, opportunity>>
vars == <<web3Vars, feedVars>>

Phases == {"idle", "gas", "prices", "quotes", "liquidity", "balance", "execute"}

NoQuery == Len(BalancerEdges) + 1

Init ==
  /\ Web3Init
  /\ quotes = [e \in {} |-> 0]
  /\ phase = "idle"
  /\ curvePending = FALSE
  /\ balancerNext = NoQuery
  /\ opportunity = {}

-----------------------------------------------------------------------------
\* PriceGraph.add for each edge read: the quote of that pool is replaced, the
\* others stay, however old.
Add(edges) == [e \in DOMAIN quotes \cup edges |-> IF e \in edges THEN 0
                                                              ELSE quotes[e]]

BestHttp == Usable # {}

\* best_http raises, or the call does: the scan is logged and given up.
Raise(from) ==
  /\ phase \in from
  /\ phase' = "idle"
  /\ UNCHANGED <<quotes, curvePending, balancerNext, opportunity>>

NewBlock ==
  /\ phase = "idle"
  /\ BestHttp
  /\ phase' = "gas"
  /\ opportunity' = {}
  /\ UNCHANGED <<quotes, curvePending, balancerNext>>

GasPrice ==
  /\ phase = "gas"
  /\ BestHttp
  /\ phase' = "prices"
  /\ UNCHANGED <<quotes, curvePending, balancerNext, opportunity>>

BothDirections(answered) == answered \cup {Reverse[p] : p \in answered}

\* The Multicall3 batch returns; a pool whose slot0 failed keeps its quote.
\* Curve and Balancer follow together; without an endpoint both fail silently.
UniV3Prices ==
  /\ phase = "prices"
  /\ \E answered \in SUBSET UniV3Pools : quotes' = Add(BothDirections(answered))
  /\ phase' = "quotes"
  /\ curvePending' = (BestHttp /\ CurveEdges # {})
  /\ balancerNext' = IF BestHttp THEN 1 ELSE NoQuery
  /\ UNCHANGED opportunity

\* The multicall returns, some of its calls failed; all of them if it raised.
CurveQuotes ==
  /\ curvePending
  /\ \E answered \in SUBSET CurveEdges : quotes' = Add(answered)
  /\ curvePending' = FALSE
  /\ UNCHANGED <<phase, balancerNext, opportunity>>

\* A faulty loop that starts over when a query failed.
BalancerQuoteRestarting ==
  /\ balancerNext \in DOMAIN BalancerEdges
  /\ \/ /\ quotes' = Add({BalancerEdges[balancerNext]})
        /\ balancerNext' = balancerNext + 1
     \/ UNCHANGED quotes /\ balancerNext' = 1
  /\ UNCHANGED <<phase, curvePending, opportunity>>

\* One queryBatchSwap: quoted, without an output, or failed.
BalancerQuote ==
  /\ balancerNext \in DOMAIN BalancerEdges
  /\ quotes' \in {quotes, Add({BalancerEdges[balancerNext]})}
  /\ balancerNext' = balancerNext + 1
  /\ UNCHANGED <<phase, curvePending, opportunity>>

\* A faulty gather that does not wait for the Balancer queries.
GatheredCurveOnly == ~curvePending

Gathered == ~curvePending /\ balancerNext = NoQuery

\* The liquidity refresh is due every five seconds. It catches every error
\* and touches no quote.
RefreshLiquidity ==
  /\ phase = "quotes"
  /\ Gathered
  /\ phase' = "liquidity"
  /\ UNCHANGED <<quotes, curvePending, balancerNext, opportunity>>

\* A faulty scan that starts the queries and does not wait for them.
RefreshedUnawaited == phase \in {"quotes", "liquidity"}

Refreshed == phase = "liquidity" \/ (phase = "quotes" /\ Gathered)

\* detect, up to the balance read of the best opportunity. Prices are not
\* modelled: any cycle all of whose edges are quoted may be the best.
Detect ==
  /\ Refreshed
  /\ BestHttp
  /\ \E c \in Cycles : c \subseteq DOMAIN quotes /\ opportunity' = c
  /\ phase' = "balance"
  /\ UNCHANGED <<quotes, curvePending, balancerNext>>

\* No opportunity, or no endpoint for the balance read.
DetectNothing ==
  /\ Refreshed
  /\ phase' = "idle"
  /\ UNCHANGED <<quotes, curvePending, balancerNext, opportunity>>

BalanceRead ==
  /\ phase = "balance"
  /\ phase' = "execute"
  /\ UNCHANGED <<quotes, curvePending, balancerNext, opportunity>>

\* The trade is over, whatever became of it.
Executed ==
  /\ phase = "execute"
  /\ phase' = "idle"
  /\ UNCHANGED <<quotes, curvePending, balancerNext, opportunity>>

Tick ==
  /\ \E e \in DOMAIN quotes : quotes[e] < AgeCap
  /\ quotes' = [e \in DOMAIN quotes |-> IF quotes[e] < AgeCap THEN quotes[e] + 1
                                                              ELSE AgeCap]
  /\ UNCHANGED <<phase, curvePending, balancerNext, opportunity>>

-----------------------------------------------------------------------------
\* What the event loop and the RPC timeouts bring about once a scan started.
Scan ==
  /\ \/ GasPrice \/ UniV3Prices \/ CurveQuotes \/ BalancerQuote
     \/ RefreshLiquidity \/ Detect \/ DetectNothing \/ BalanceRead \/ Executed
     \/ Raise({"gas", "prices", "balance"})
  /\ UNCHANGED web3Vars

Next ==
  \/ Scan
  \/ (NewBlock \/ Tick) /\ UNCHANGED web3Vars
  \/ (HealthLoop \/ ConditionChanges) /\ UNCHANGED feedVars

Spec == Init /\ [][Next]_vars

\* Every await of the scan and of each check returns or times out.
FairSpec ==
  /\ Spec
  /\ WF_vars(Scan)
  /\ WF_vars((CheckAll \/ CheckedAll) /\ UNCHANGED feedVars)
  /\ \A e \in Endpoints :
       WF_vars((Reconnect(e) \/ Measure(e)) /\ UNCHANGED feedVars)

-----------------------------------------------------------------------------
MarketTypeOK ==
  /\ Web3TypeOK
  /\ DOMAIN quotes \subseteq Edges /\ quotes \in [DOMAIN quotes -> 0..AgeCap]
  /\ phase \in Phases
  /\ curvePending \in BOOLEAN
  /\ balancerNext \in 1..NoQuery
  /\ opportunity \subseteq Edges

\* From detection to the end of the trade no quote is replaced: no query of
\* the refresh outlives it, so route, size and minimum outputs are computed
\* from the prices the cycle was found with.
QuotesAreSettled ==
  (phase \in {"balance", "execute"}) =>
    \A e \in DOMAIN quotes : quotes'[e] >= quotes[e]

NoStragglers == [][QuotesAreSettled]_vars

\* The inductive invariant of a scan: outside the refresh nothing is awaited
\* on its behalf.
MarketInv ==
  /\ MarketTypeOK
  /\ ConnectedIsMeasured
  /\ phase # "quotes" => Gathered

\* Whatever fails, a scan ends and the next block finds the coroutine ready.
ScanEnds == phase # "idle" ~> phase = "idle"

-----------------------------------------------------------------------------
\* config.yaml, opportunity_ttl_ms: "Opportunity expires after 500ms". Nothing
\* reads the TTL, and a pool whose call fails keeps its quote in the graph
\* with no limit of age.
OpportunityIsFresh ==
  phase = "execute" => \A e \in opportunity : quotes[e] <= OpportunityTtl
=============================================================================
