------------------------------ MODULE Operations ------------------------------
(***************************************************************************)
(* The life of the bot beside its deployment: a process that reads the     *)
(* receiver's address and the checkpoint when it starts, trades with the   *)
(* account of its vault, learns, and is stopped or dies and is restarted   *)
(* by its container, while the operator deploys and validates.             *)
(***************************************************************************)
EXTENDS Deployment, Learning

VARIABLES
  up,       \* the process is alive
  receiver, \* NEXUS_RECEIVER_ADDRESS in the environment of the container
  wallet    \* whose key the vault gives the bot: the deployer's or another

botVars == <<up, receiver, wallet>>
vars == <<deploymentVars, learningVars, botVars>>

\* USE_KMS and VAULT_ADDR select another store than PRIVATE_KEY.
Init ==
  /\ DeploymentInit /\ LearningInit
  /\ up = FALSE /\ receiver = NoContract
  /\ wallet \in {"deployer", "other"}

\* Only the executor and the owner of a receiver may start a loan.
Authorized == receiver \in Contracts /\ wallet = "deployer"

-----------------------------------------------------------------------------
\* A new container takes the variables of .env, a restarted one has its own:
\* load_dotenv does not override them.
StartBot ==
  /\ ~up /\ up' = TRUE
  /\ receiver' \in {address, receiver}
  /\ StartLearning
  /\ UNCHANGED <<deploymentVars, wallet>>

StopBot ==
  /\ up /\ up' = FALSE
  /\ UNCHANGED <<deploymentVars, learningVars, receiver, wallet>>

Decide == /\ up /\ SelectAction
          /\ UNCHANGED <<deploymentVars, botVars>>

Pass == /\ up /\ (StoreOnly \/ StoreNothing)
        /\ UNCHANGED <<deploymentVars, botVars>>

\* A receipt: only an authorized bot can have a profit, up to twice what the
\* route expected, and the transaction took a nonce of its account, which may
\* be the one that deploys.
Trade ==
  /\ up /\ receiver # NoContract
  /\ LearnOutcome(IF Authorized THEN 0..(2 * Whole) ELSE {0})
  /\ IF wallet = "deployer" THEN UseNonce ELSE UNCHANGED <<nonce, pool>>
  /\ UNCHANGED <<scriptVars, mined, envVars, validatorVars, botVars>>

\* No receipt within the timeout.
TradeTimesOut ==
  /\ up /\ receiver # NoContract
  /\ LearnOutcome({0})
  /\ UNCHANGED <<deploymentVars, botVars>>

\* The transaction of a trade the bot gave up is included.
LateTrade ==
  /\ wallet = "deployer"
  /\ UseNonce
  /\ UNCHANGED <<scriptVars, mined, envVars, validatorVars, learningVars, botVars>>

\* Without a receiver execute raises; so it does on any error of an endpoint.
Raise == /\ up /\ LearnNothing
         /\ UNCHANGED <<deploymentVars, botVars>>

Bot ==
  \/ StartBot \/ StopBot \/ Decide \/ Pass
  \/ Trade \/ TradeTimesOut \/ LateTrade \/ Raise

Operator == DeploymentNext /\ UNCHANGED <<learningVars, botVars>>

Next == Bot \/ Operator

Spec == Init /\ [][Next]_vars

-----------------------------------------------------------------------------
OperationsTypeOK ==
  /\ DeploymentTypeOK /\ LearningTypeOK
  /\ up \in BOOLEAN /\ wallet \in {"deployer", "other"}

\* What .env and the bot take for the receiver is a contract that the
\* deployer's transaction created, or nothing: although a deployment may fail,
\* be replaced or lose its nonce to a trade, the script may be cut at any
\* point and a restarted container keeps the address of an earlier one.
ReceiverIsOurs == {address, receiver} \subseteq Contracts \cup {NoContract}

\* Every deployment that was sent, pending or included.
Sent == pool \cup mined

\* A run sends one transaction, with the account's nonce at its start; what is
\* pending is ahead of the account, what is included is behind it.
NoncesInOrder ==
  /\ start <= nonce
  /\ \A d \in Sent : d.run <= runs /\ d.nonce = d.start /\ d.start <= start
  /\ \A d \in pool : d.nonce >= nonce
  /\ \A d \in mined : d.nonce < nonce
  /\ \A d, e \in Sent : d.run < e.run => d.start <= e.start
  /\ \A d, e \in mined : d.run = e.run => d = e
  /\ \A d \in pool, e \in mined : d.run # e.run

\* The receipt the script has seen is of a contract.
ReceiptIsOurs == script = "confirmed" => \E d \in mined : d.run = runs /\ d.ok

\* A validation in progress has not passed yet, and one about to has seen a
\* contract.
VerdictIsSound ==
  /\ (check = "verdict" /\ probed /\ ~errors) => checked \in Contracts
  /\ check # "idle" => ~ready

SavesAreAligned ==
  checkpoint.state = "whole" => checkpoint.updates % SaveEvery = 0

\* The inductive invariant of the deployment, the process and what it learns.
OperationsInv ==
  /\ OperationsTypeOK
  /\ NoncesInOrder /\ RerunReplaces
  /\ ReceiptIsOurs /\ ReceiverIsOurs
  /\ ReadyIsServed /\ VerdictIsSound
  /\ OnPolicy
  /\ SavesAreAligned /\ RestartLosesLittle
  /\ PosteriorForgets
=============================================================================
