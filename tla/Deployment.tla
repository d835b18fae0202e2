------------------------------ MODULE Deployment ------------------------------
(***************************************************************************)
(* scripts/deploy.py and scripts/validate_mainnet.py, with the account and *)
(* the .env file they share with the bot: a control point at each await    *)
(* after which the state of the chain or of the file matters. The operator *)
(* starts a run when none is in progress, and may kill it at any point.    *)
(*                                                                         *)
(* The chain is external: it includes one transaction of the account per   *)
(* nonce, and the address of a contract is that nonce.                     *)
(***************************************************************************)
EXTENDS Integers

CONSTANTS
  NoContract, \* an empty NEXUS_RECEIVER_ADDRESS, or the one of .env.example
  MaxRuns,    \* bound of the model: deployments that are sent
  MaxNonce    \* bound of the model: transactions of the account

ASSUME DeploymentAssumption ==
  /\ MaxRuns \in Nat /\ MaxNonce \in Nat
  /\ NoContract \notin Nat

VARIABLES
  script,   \* where deploy() is: idle, signed, waiting or confirmed
  runs,     \* deployments sent so far; the last is the one waited for
  start,    \* the nonce of the account when the run in progress read it
  pool,     \* deployments in the mempool
  mined,    \* deployments included
  nonce,    \* the account's next nonce on the chain
  envFile,  \* .env exists
  address,  \* NEXUS_RECEIVER_ADDRESS in .env
  check,    \* where Validator.run() is: idle, rpc, contract or verdict
  probed,   \* it found an endpoint to check with
  checked,  \* the address it read
  errors,   \* a check failed
  ready     \* the last validation passed

scriptVars == <<script, runs, start>>
chainVars == <<pool, mined, nonce>>
envVars == <<envFile, address>>
validatorVars == <<check, probed, checked, errors, ready>>
deploymentVars == <<scriptVars, chainVars, envVars, validatorVars>>

Deployments == [run : 1..MaxRuns, nonce : 0..MaxNonce, start : 0..MaxNonce]

\* A constructor that ran leaves a contract of which the account is the owner.
Contracts == {d.nonce : d \in {e \in mined : e.ok}}

DeploymentInit ==
  /\ script = "idle" /\ runs = 0 /\ start = 0
  /\ pool = {} /\ mined = {} /\ nonce = 0
  /\ envFile \in BOOLEAN /\ address = NoContract
  /\ check = "idle" /\ probed = FALSE /\ checked = NoContract
  /\ errors = FALSE /\ ready = FALSE

-----------------------------------------------------------------------------
\* The account, the network and its balance are fine, the contract compiled:
\* the latest nonce is read and the transaction signed.
Prepare ==
  /\ script = "idle"
  /\ script' = "signed"
  /\ start' = nonce
  /\ UNCHANGED <<runs, chainVars, envVars, validatorVars>>

\* A faulty script that counts the transactions still pending.
NextNoncePending ==
  IF \E d \in pool : d.nonce = start THEN start + 1 ELSE start

NextNonce == start

\* The node takes the transaction, beside or in place of a pending one of that
\* nonce; the answer may be an error all the same.
Send ==
  /\ script = "signed"
  /\ runs < MaxRuns /\ nonce <= NextNonce /\ NextNonce < MaxNonce
  /\ runs' = runs + 1
  /\ pool' = pool \cup {[run |-> runs', nonce |-> NextNonce, start |-> start]}
  /\ script' \in {"waiting", "idle"}
  /\ UNCHANGED <<start, mined, nonce, envVars, validatorVars>>

\* A faulty script that takes any receipt for a deployed contract.
AcceptsAnyStatus(d) == TRUE

Accepts(d) == d.ok

\* wait_for_transaction_receipt returns.
Receipt ==
  /\ script = "waiting"
  /\ \E d \in mined :
       /\ d.run = runs
       /\ script' = IF Accepts(d) THEN "confirmed" ELSE "idle"
  /\ UNCHANGED <<runs, start, chainVars, envVars, validatorVars>>

\* A faulty script that waits for the transaction count instead of its receipt.
SaveAddressOfNonce ==
  /\ script \in {"waiting", "confirmed"} /\ nonce > start
  /\ script' = "idle"
  /\ address' = IF envFile THEN start ELSE address
  /\ UNCHANGED <<runs, start, chainVars, envFile, validatorVars>>

\* set_key, when there is a file to write to.
SaveAddress ==
  /\ script = "confirmed"
  /\ script' = "idle"
  /\ IF envFile
       THEN \E d \in mined : d.run = runs /\ address' = d.nonce
       ELSE UNCHANGED address
  /\ UNCHANGED <<runs, start, chainVars, envFile, validatorVars>>

\* A rejected transaction, a receipt that does not come within the timeout, or
\* a crash.
EndDeploy ==
  /\ script # "idle"
  /\ script' = "idle"
  /\ UNCHANGED <<runs, start, chainVars, envVars, validatorVars>>

-----------------------------------------------------------------------------
\* The next nonce of the account is used up: whatever else is pending with it
\* can never be included.
UseNonce ==
  /\ nonce < MaxNonce
  /\ nonce' = nonce + 1
  /\ pool' = {d \in pool : d.nonce # nonce}

Include(d) ==
  /\ d \in pool /\ d.nonce = nonce
  /\ UseNonce
  /\ \E ok \in BOOLEAN :
       mined' = mined \cup
         {[run |-> d.run, nonce |-> d.nonce, start |-> d.start, ok |-> ok]}
  /\ UNCHANGED <<scriptVars, envVars, validatorVars>>

Forget(d) ==
  /\ d \in pool
  /\ pool' = pool \ {d}
  /\ UNCHANGED <<scriptVars, mined, nonce, envVars, validatorVars>>

-----------------------------------------------------------------------------
\* validate_env: an empty variable is an error, a placeholder is not.
ValidateEnv == errors' \in BOOLEAN

\* load_dotenv and validate_env, then the search for an endpoint that answers.
StartValidation ==
  /\ check = "idle"
  /\ check' = "rpc"
  /\ checked' = address
  /\ ValidateEnv
  /\ probed' \in BOOLEAN
  /\ ready' = FALSE
  /\ UNCHANGED <<scriptVars, chainVars, envVars>>

\* validate_rpc asks every endpoint again, the probed ones included. Without
\* an endpoint from the probe nothing else is checked.
ValidateRpc ==
  /\ check = "rpc"
  /\ \E allAnswer \in BOOLEAN : errors' = (errors \/ ~allAnswer)
  /\ check' = IF probed THEN "contract" ELSE "verdict"
  /\ UNCHANGED <<scriptVars, chainVars, envVars, probed, checked, ready>>

\* A faulty check that is content with an address.
HasCodeAnywhere(a) == TRUE

HasCode(a) == a \in Contracts

\* validate_wallet, validate_contract, validate_dex and validate_price_scan.
ValidateContract ==
  /\ check = "contract"
  /\ \E othersPass \in BOOLEAN :
       errors' = (errors \/ ~HasCode(checked) \/ ~othersPass)
  /\ check' = "verdict"
  /\ UNCHANGED <<scriptVars, chainVars, envVars, probed, checked, ready>>

Conclude ==
  /\ check = "verdict"
  /\ ready' = ~errors
  /\ check' = "idle"
  /\ UNCHANGED <<scriptVars, chainVars, envVars, probed, checked, errors>>

DeploymentNext ==
  \/ Prepare \/ Send \/ Receipt \/ SaveAddress \/ EndDeploy
  \/ \E d \in pool : Include(d) \/ Forget(d)
  \/ StartValidation \/ ValidateRpc \/ ValidateContract \/ Conclude

-----------------------------------------------------------------------------
DeploymentTypeOK ==
  /\ script \in {"idle", "signed", "waiting", "confirmed"}
  /\ runs \in 0..MaxRuns /\ start \in 0..MaxNonce /\ nonce \in 0..MaxNonce
  /\ pool \subseteq Deployments
  /\ \A e \in mined : /\ e.run \in 1..MaxRuns /\ e.nonce \in 0..MaxNonce
                      /\ e.start \in 0..MaxNonce /\ e.ok \in BOOLEAN
  /\ envFile \in BOOLEAN
  /\ check \in {"idle", "rpc", "contract", "verdict"}
  /\ probed \in BOOLEAN /\ errors \in BOOLEAN /\ ready \in BOOLEAN

\* Of two runs that both deploy, the contract of the first was on the chain
\* when the second started: a rerun after a timeout or a crash replaces a
\* deployment that is still pending, it never adds a contract to it.
RerunReplaces ==
  \A d, e \in mined : (d.ok /\ e.ok /\ d.run < e.run) => d.nonce < e.start

\* A validation that found an endpoint passes only if there is a contract of
\* the account at the address it read, and that is still so whatever happens
\* to the file and the account later.
ReadyIsServed == (ready /\ probed) => checked \in Contracts
=============================================================================
