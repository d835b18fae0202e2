----------------------------- MODULE Web3Manager -----------------------------
(***************************************************************************)
(* The RPC endpoint pool of nexus_arb/web3_manager.py and the health loop  *)
(* that keeps it, whose checks of all endpoints run concurrently with each *)
(* other and with every reader of best_http. Latencies are abstracted to   *)
(* what the endpoint is now: fast, slower than max_latency_ms, or down.    *)
(* Scores are left out: best_http returns some usable endpoint.            *)
(***************************************************************************)
EXTENDS Integers

CONSTANT Endpoints  \* http_urls

VARIABLES
  net,      \* external: the condition each endpoint is in
  pool,     \* the keys of _w3_pool
  healthy,  \* the endpoints whose stats say is_healthy
  check     \* what _check_endpoint awaits for each endpoint

web3Vars == <<net, pool, healthy, check>>

Conditions == {"fast", "slow", "down"}

\* asleep: the health loop sleeps; connecting, measuring: the two awaits of
\* _check_endpoint; checked: it has returned and gather waits for the others.
CheckPoints == {"asleep", "connecting", "measuring", "checked"}

\* _init_connections has tried every endpoint once.
Web3Init ==
  /\ net \in [Endpoints -> Conditions]
  /\ pool \in SUBSET Endpoints
  /\ healthy = pool
  /\ check = [e \in Endpoints |-> "asleep"]

\* What best_http chooses from; it raises when there is nothing.
Usable == healthy \cap pool

-----------------------------------------------------------------------------
CheckAll ==
  /\ \A e \in Endpoints : check[e] = "asleep"
  /\ check' = [e \in Endpoints |-> IF e \in pool THEN "measuring"
                                                 ELSE "connecting"]
  /\ UNCHANGED <<net, pool, healthy>>

\* An endpoint that was never connected is given one attempt.
Reconnect(e) ==
  /\ check[e] = "connecting"
  /\ IF net[e] # "down"
       THEN /\ pool' = pool \cup {e}
            /\ healthy' = healthy \cup {e}
            /\ check' = [check EXCEPT ![e] = "measuring"]
       ELSE /\ check' = [check EXCEPT ![e] = "checked"]
            /\ UNCHANGED <<pool, healthy>>
  /\ UNCHANGED net

\* A faulty measurement that never forgives.
MeasureUnforgiving(e) ==
  /\ check[e] = "measuring"
  /\ healthy' = IF net[e] = "fast" THEN healthy ELSE healthy \ {e}
  /\ check' = [check EXCEPT ![e] = "checked"]
  /\ UNCHANGED <<net, pool>>

\* A faulty measurement whose errors change nothing.
MeasureIgnoringErrors(e) ==
  /\ check[e] = "measuring"
  /\ healthy' = CASE net[e] = "fast" -> healthy \cup {e}
                  [] net[e] = "slow" -> healthy \ {e}
                  [] net[e] = "down" -> healthy
  /\ check' = [check EXCEPT ![e] = "checked"]
  /\ UNCHANGED <<net, pool>>

\* The answer, too slow an answer, or an error.
Measure(e) ==
  /\ check[e] = "measuring"
  /\ healthy' = IF net[e] = "fast" THEN healthy \cup {e} ELSE healthy \ {e}
  /\ check' = [check EXCEPT ![e] = "checked"]
  /\ UNCHANGED <<net, pool>>

\* gather returns once every check has.
CheckedAll ==
  /\ \A e \in Endpoints : check[e] = "checked"
  /\ check' = [e \in Endpoints |-> "asleep"]
  /\ UNCHANGED <<net, pool, healthy>>

HealthLoop ==
  CheckAll \/ CheckedAll \/ \E e \in Endpoints : Reconnect(e) \/ Measure(e)

ConditionChanges ==
  /\ \E e \in Endpoints : \E c \in Conditions \ {net[e]} :
       net' = [net EXCEPT ![e] = c]
  /\ UNCHANGED <<pool, healthy, check>>

-----------------------------------------------------------------------------
Web3TypeOK ==
  /\ net \in [Endpoints -> Conditions]
  /\ healthy \subseteq pool /\ pool \subseteq Endpoints
  /\ check \in [Endpoints -> CheckPoints]

\* Only a connection is measured, which is why a healthy endpoint always has
\* one: best_http never picks a client that was not made.
ConnectedIsMeasured ==
  \A e \in Endpoints : check[e] = "measuring" => e \in pool

\* An endpoint that stays fast is in the end usable for good: neither the
\* failure of its first connection nor a check already under way when it
\* recovered keeps it out.
EndpointRecovers ==
  \A e \in Endpoints : (<>[](net[e] = "fast")) => <>[](e \in Usable)

\* An endpoint that stays slow or down is in the end never chosen again. A read
\* that fails on it does not mark it (the except branch of multicall), so only
\* the health loop can move the scans to another endpoint; and the connection
\* of a check under way may still make a slow one usable for a while.
UnfitEndpointLeaves ==
  \A e \in Endpoints : (<>[](net[e] # "fast")) => <>[](e \notin Usable)
=============================================================================
