--------------------------- MODULE OperationsProofs ---------------------------
(***************************************************************************)
(* For any number of runs, transactions and updates, any batch, buffer and *)
(* decay: the inductive invariant of Operations and what follows from it.  *)
(***************************************************************************)
EXTENDS Operations, TLAPS

-----------------------------------------------------------------------------
\* The four ways a step touches the script's run and the chain.
Starts == /\ start' = nonce
          /\ UNCHANGED <<runs, pool, mined, nonce>>

Submits ==
  /\ runs < MaxRuns /\ start = nonce /\ start < MaxNonce
  /\ runs' = runs + 1
  /\ pool' = pool \cup {[run |-> runs + 1, nonce |-> start, start |-> start]}
  /\ UNCHANGED <<start, mined, nonce>>

Includes ==
  /\ nonce < MaxNonce
  /\ \E d \in pool, ok \in BOOLEAN :
       /\ d.nonce = nonce
       /\ mined' = mined \cup
            {[run |-> d.run, nonce |-> d.nonce, start |-> d.start, ok |-> ok]}
  /\ nonce' = nonce + 1
  /\ pool' = {d \in pool : d.nonce # nonce}
  /\ UNCHANGED <<runs, start>>

Recedes ==
  /\ pool' \subseteq pool
  /\ \/ nonce' = nonce
     \/ /\ nonce < MaxNonce /\ nonce' = nonce + 1
        /\ \A d \in pool' : d.nonce # nonce
  /\ UNCHANGED <<mined, runs, start>>

LEMMA ChainMoves ==
  ASSUME OperationsInv, [Next]_vars
  PROVE  Starts \/ Submits \/ Includes \/ Recedes
  <1>1. CASE DeploymentNext
    <2>1. CASE Prepare
      BY <2>1 DEF Prepare, Starts, chainVars
    <2>2. CASE Send
      <3>1. start <= nonce /\ start \in Nat /\ nonce \in Nat
        BY DEF OperationsInv, NoncesInOrder, OperationsTypeOK, DeploymentTypeOK
      <3>2. start = nonce
        BY <2>2, <3>1 DEF Send, NextNonce
      <3>3. QED
        BY <2>2, <3>2 DEF Send, NextNonce, Submits
    <2>3. CASE \E d \in pool : Include(d)
      BY <2>3 DEF Include, UseNonce, Includes, scriptVars
    <2>4. CASE \E d \in pool : Forget(d)
      BY <2>4 DEF Forget, Recedes, scriptVars
    <2>5. CASE Receipt \/ SaveAddress \/ EndDeploy
      BY <2>5 DEF Receipt, SaveAddress, EndDeploy, Recedes, chainVars
    <2>6. CASE StartValidation \/ ValidateRpc \/ ValidateContract \/ Conclude
      BY <2>6 DEF StartValidation, ValidateRpc, ValidateContract, Conclude,
                  Recedes, scriptVars, chainVars
    <2>7. QED
      BY <1>1, <2>1, <2>2, <2>3, <2>4, <2>5, <2>6 DEF DeploymentNext
  <1>2. CASE Bot
    <2>1. CASE Trade \/ LateTrade
      BY <2>1 DEF Trade, LateTrade, UseNonce, Recedes, scriptVars
    <2>2. CASE UNCHANGED deploymentVars
      BY <2>2 DEF deploymentVars, scriptVars, chainVars, Recedes
    <2>3. QED
      BY <1>2, <2>1, <2>2 DEF Bot, StartBot, StopBot, Decide, Pass, TradeTimesOut,
                              Raise
  <1>3. CASE UNCHANGED vars
    BY <1>3 DEF vars, deploymentVars, scriptVars, chainVars, Recedes
  <1>4. QED
    BY <1>1, <1>2, <1>3 DEF Next, Operator

\* Nothing included is ever undone.
LEMMA ContractsGrow ==
  ASSUME OperationsInv, [Next]_vars
  PROVE  mined \subseteq mined' /\ Contracts \subseteq Contracts'
  <1>1. mined \subseteq mined'
    BY ChainMoves DEF Starts, Submits, Includes, Recedes
  <1>2. QED
    BY <1>1 DEF Contracts

LEMMA ChainTypes ==
  ASSUME OperationsTypeOK
  PROVE  /\ runs \in Nat /\ start \in Nat /\ nonce \in Nat
         /\ start <= MaxNonce /\ nonce <= MaxNonce
         /\ \A d \in Sent : d.run \in Nat /\ d.nonce \in Nat /\ d.start \in Nat
  <1>1. \A d \in pool : d.run \in 1..MaxRuns /\ d.nonce \in 0..MaxNonce
                        /\ d.start \in 0..MaxNonce
    BY DEF OperationsTypeOK, DeploymentTypeOK, Deployments
  <1>2. QED
    BY <1>1, DeploymentAssumption
       DEF OperationsTypeOK, DeploymentTypeOK, Sent

LEMMA StartKeepsNonces ==
  ASSUME OperationsTypeOK, NoncesInOrder, RerunReplaces, Starts
  PROVE  NoncesInOrder' /\ RerunReplaces'
  <1>1. start' = nonce /\ start <= nonce /\ Sent' = Sent
    BY DEF Starts, NoncesInOrder, Sent
  <1>2. \A d \in Sent : d.start <= start'
    BY <1>1, ChainTypes DEF NoncesInOrder
  <1>3. QED
    BY <1>1, <1>2, ChainTypes DEF Starts, NoncesInOrder, RerunReplaces

LEMMA SubmitKeepsNonces ==
  ASSUME OperationsTypeOK, NoncesInOrder, RerunReplaces, Submits
  PROVE  NoncesInOrder' /\ RerunReplaces'
  <1> DEFINE new == [run |-> runs + 1, nonce |-> start, start |-> start]
  <1>0. /\ new.run = runs + 1 /\ new.nonce = start /\ new.start = start
        /\ start = nonce /\ runs' = runs + 1 /\ pool' = pool \cup {new}
        /\ mined' = mined /\ nonce' = nonce /\ start' = start
    BY DEF Submits
  <1> HIDE DEF new
  <1>1. \A d \in Sent : d.run <= runs /\ d.run < runs + 1 /\ d.run # runs + 1
                        /\ d.nonce = d.start /\ d.start <= start
    BY ChainTypes DEF NoncesInOrder
  <1>2. Sent' = Sent \cup {new}
    BY <1>0 DEF Sent
  <1>3. \A d \in Sent' : d.run <= runs' /\ d.nonce = d.start /\ d.start <= start
    <2>1. ASSUME NEW d \in Sent
          PROVE  d.run <= runs + 1 /\ d.nonce = d.start /\ d.start <= start
      BY <1>1, <2>1, ChainTypes
    <2>2. new.run <= runs + 1 /\ new.nonce = new.start /\ new.start <= start
      BY <1>0, ChainTypes
    <2>3. QED
      BY <1>0, <1>2, <2>1, <2>2
  <1>4. \A d \in pool' : d.nonce >= nonce
    BY <1>0, ChainTypes DEF NoncesInOrder
  <1>5. ASSUME NEW d \in Sent', NEW e \in Sent', d.run < e.run
        PROVE  d.start <= e.start
    <2>1. CASE d = new
      BY <1>0, <1>1, <1>2, <1>5, <2>1, ChainTypes
    <2>2. CASE d \in Sent /\ e = new
      BY <1>0, <1>1, <2>2
    <2>3. CASE d \in Sent /\ e \in Sent
      BY <1>5, <2>3 DEF NoncesInOrder
    <2>4. QED
      BY <1>2, <2>1, <2>2, <2>3
  <1>6. \A d \in pool', e \in mined : d.run # e.run
    <2>1. \A e \in mined : e.run # new.run
      BY <1>0, <1>1 DEF Sent
    <2>2. QED
      BY <1>0, <2>1 DEF NoncesInOrder
  <1>7. start' <= nonce' /\ \A d \in mined' : d.nonce < nonce'
    BY <1>0 DEF NoncesInOrder
  <1>8. \A d, e \in mined' : d.run = e.run => d = e
    BY <1>0 DEF NoncesInOrder
  <1>9. NoncesInOrder'
    BY <1>0, <1>3, <1>4, <1>5, <1>6, <1>7, <1>8 DEF NoncesInOrder
  <1>10. QED
    BY <1>0, <1>9 DEF RerunReplaces

LEMMA IncludeKeepsNonces ==
  ASSUME OperationsTypeOK, NoncesInOrder, RerunReplaces, Includes
  PROVE  NoncesInOrder' /\ RerunReplaces'
  <1>1. PICK t \in pool, ok \in BOOLEAN :
          /\ t.nonce = nonce
          /\ mined' = mined \cup
               {[run |-> t.run, nonce |-> t.nonce, start |-> t.start, ok |-> ok]}
    BY DEF Includes
  <1> DEFINE new == [run |-> t.run, nonce |-> t.nonce, start |-> t.start, ok |-> ok]
  <1>0. /\ new.run = t.run /\ new.nonce = nonce /\ new.start = t.start
        /\ mined' = mined \cup {new} /\ nonce' = nonce + 1
        /\ pool' = {d \in pool : d.nonce # nonce}
        /\ runs' = runs /\ start' = start
    BY <1>1 DEF Includes
  <1> HIDE DEF new
  <1>2. t \in Sent /\ t.start = nonce /\ t.run <= runs /\ nonce <= start
        /\ start = nonce
    BY <1>1, ChainTypes DEF NoncesInOrder, Sent
  <1>3. \A d \in mined : d.run # t.run /\ d \in Sent
    BY <1>1 DEF NoncesInOrder, Sent
  <1>4. \A d \in pool' : d \in pool /\ d.nonce >= nonce + 1 /\ d \in Sent
    BY <1>0, ChainTypes DEF NoncesInOrder, Sent
  <1>5. \A d \in mined' : d = new \/ d \in mined
    BY <1>0
  <1>6. \A d \in Sent' : d.run <= runs' /\ d.nonce = d.start /\ d.start <= start'
    <2>1. \A d \in Sent' : d = new \/ d \in Sent
      BY <1>3, <1>4, <1>5 DEF Sent
    <2>2. QED
      BY <1>0, <1>2, <2>1, ChainTypes DEF NoncesInOrder
  \* Nothing later than the deployment included is pending or included.
  <1>7. \A d \in Sent : d.run < t.run => d.start <= nonce
    BY <1>2 DEF NoncesInOrder
  <1>8. ASSUME NEW d \in Sent', NEW e \in Sent', d.run < e.run
        PROVE  d.start <= e.start
    <2>1. \A c \in Sent' : c = new \/ c \in Sent
      BY <1>3, <1>4, <1>5 DEF Sent
    <2>2. CASE d \in Sent /\ e \in Sent
      BY <1>8, <2>2 DEF NoncesInOrder
    <2>3. CASE d = new /\ e \in Sent
      BY <1>0, <1>2, <1>8, <2>3 DEF NoncesInOrder
    <2>4. CASE d \in Sent /\ e = new
      BY <1>0, <1>2, <1>7, <1>8, <2>4
    <2>5. CASE d = new /\ e = new
      BY <1>0, <1>2, <1>8, <2>5, ChainTypes
    <2>6. QED
      BY <2>1, <2>2, <2>3, <2>4, <2>5
  <1>9. \A d \in mined' : d.nonce < nonce'
    BY <1>0, <1>3, <1>5, ChainTypes DEF NoncesInOrder
  <1>10. \A d, e \in mined' : d.run = e.run => d = e
    BY <1>0, <1>3, <1>5 DEF NoncesInOrder
  <1>11. \A d \in pool', e \in mined' : d.run # e.run
    <2>1. ASSUME NEW d \in pool' PROVE d.run # t.run
      <3>1. d \in Sent /\ d.nonce >= nonce + 1 /\ d.start = d.nonce /\ d.start <= start
        BY <1>4, <2>1 DEF NoncesInOrder
      <3>2. QED
        BY <1>2, <3>1, ChainTypes
    <2>2. QED
      BY <1>0, <1>4, <1>5, <2>1 DEF NoncesInOrder
  <1>12. start' <= nonce'
    BY <1>0, ChainTypes DEF NoncesInOrder
  <1>13. NoncesInOrder'
    BY <1>0, <1>4, <1>6, <1>8, <1>9, <1>10, <1>11, <1>12 DEF NoncesInOrder
  <1>14. RerunReplaces'
    <2> SUFFICES ASSUME NEW d \in mined', NEW e \in mined', d.ok, e.ok, d.run < e.run
                 PROVE  d.nonce < e.start
      BY DEF RerunReplaces
    <2>1. CASE d \in mined /\ e \in mined
      BY <2>1 DEF RerunReplaces
    <2>2. CASE d \in mined /\ e = new
      BY <1>0, <1>2, <2>2 DEF NoncesInOrder
    <2>3. CASE d = new /\ e \in mined
      <3>1. e.start = e.nonce /\ e.nonce < nonce /\ nonce <= e.start /\ e \in Sent
        BY <1>0, <1>2, <1>3, <2>3 DEF NoncesInOrder
      <3>2. QED
        BY <3>1, ChainTypes
    <2>4. CASE d = new /\ e = new
      BY <1>0, <1>2, <2>4, ChainTypes
    <2>5. QED
      BY <1>5, <2>1, <2>2, <2>3, <2>4
  <1>15. QED
    BY <1>13, <1>14

LEMMA RecedeKeepsNonces ==
  ASSUME OperationsTypeOK, NoncesInOrder, RerunReplaces, Recedes
  PROVE  NoncesInOrder' /\ RerunReplaces'
  <1>1. /\ pool' \subseteq pool /\ mined' = mined /\ runs' = runs /\ start' = start
        /\ Sent' \subseteq Sent /\ nonce' \in {nonce, nonce + 1}
    BY DEF Recedes, Sent
  <1>2. \A d \in pool' : d.nonce >= nonce'
    <2>1. \A d \in pool' : d \in Sent /\ d.nonce >= nonce
      BY <1>1 DEF NoncesInOrder, Sent
    <2>2. QED
      BY <2>1, ChainTypes DEF Recedes
  <1>3. start' <= nonce' /\ \A d \in mined' : d \in Sent /\ d.nonce < nonce'
    BY <1>1, ChainTypes DEF NoncesInOrder, Sent
  <1>4. NoncesInOrder'
    BY <1>1, <1>2, <1>3 DEF NoncesInOrder
  <1>5. QED
    BY <1>1, <1>4 DEF RerunReplaces

\* Whatever the script, the chain and the bot do to the account.
LEMMA NoncesKept ==
  ASSUME OperationsInv, [Next]_vars
  PROVE  NoncesInOrder' /\ RerunReplaces'
  BY ChainMoves, StartKeepsNonces, SubmitKeepsNonces, IncludeKeepsNonces,
     RecedeKeepsNonces DEF OperationsInv

-----------------------------------------------------------------------------
LEMMA DeploymentTypeKept ==
  ASSUME OperationsInv, [Next]_vars
  PROVE  DeploymentTypeOK'
  <1>0. OperationsTypeOK /\ DeploymentTypeOK /\ NoncesInOrder
    BY DEF OperationsInv, OperationsTypeOK
  <1>1. /\ pool \subseteq Deployments
        /\ \A e \in mined : /\ e.run \in 1..MaxRuns /\ e.nonce \in 0..MaxNonce
                            /\ e.start \in 0..MaxNonce /\ e.ok \in BOOLEAN
        /\ runs \in 0..MaxRuns /\ start \in 0..MaxNonce /\ nonce \in 0..MaxNonce
    BY <1>0 DEF DeploymentTypeOK
  <1>2. /\ pool' \subseteq Deployments
        /\ \A e \in mined' : /\ e.run \in 1..MaxRuns /\ e.nonce \in 0..MaxNonce
                             /\ e.start \in 0..MaxNonce /\ e.ok \in BOOLEAN
        /\ runs' \in 0..MaxRuns /\ start' \in 0..MaxNonce /\ nonce' \in 0..MaxNonce
    <2>1. CASE Starts
      BY <1>1, <2>1 DEF Starts
    <2>2. CASE Submits
      <3>1. runs + 1 \in 1..MaxRuns
        BY <1>1, <2>2, DeploymentAssumption DEF Submits
      <3>2. [run |-> runs + 1, nonce |-> start, start |-> start] \in Deployments
        BY <1>1, <3>1 DEF Deployments
      <3>3. QED
        BY <1>1, <2>2, <3>1, <3>2, DeploymentAssumption DEF Submits
    <2>3. CASE Includes
      <3>1. PICK d \in pool, ok \in BOOLEAN :
              mined' = mined \cup
                {[run |-> d.run, nonce |-> d.nonce, start |-> d.start, ok |-> ok]}
        BY <2>3 DEF Includes
      <3>2. d.run \in 1..MaxRuns /\ d.nonce \in 0..MaxNonce /\ d.start \in 0..MaxNonce
        BY <1>1 DEF Deployments
      <3>3. \A e \in mined' : /\ e.run \in 1..MaxRuns /\ e.nonce \in 0..MaxNonce
                              /\ e.start \in 0..MaxNonce /\ e.ok \in BOOLEAN
        BY <1>1, <3>1, <3>2
      <3>4. nonce' \in 0..MaxNonce /\ pool' \subseteq pool
        BY <1>1, <2>3, DeploymentAssumption DEF Includes
      <3>5. QED
        BY <1>1, <2>3, <3>3, <3>4 DEF Includes
    <2>4. CASE Recedes
      BY <1>1, <2>4, DeploymentAssumption DEF Recedes
    <2>5. QED
      BY <2>1, <2>2, <2>3, <2>4, ChainMoves
  <1>3. /\ script' \in {"idle", "signed", "waiting", "confirmed"}
        /\ envFile' \in BOOLEAN
        /\ check' \in {"idle", "rpc", "contract", "verdict"}
        /\ probed' \in BOOLEAN /\ errors' \in BOOLEAN /\ ready' \in BOOLEAN
    <2>1. CASE DeploymentNext
      BY <1>0, <2>1 DEF DeploymentTypeOK, DeploymentNext, Prepare, Send, Receipt,
         SaveAddress, EndDeploy, Include, Forget, StartValidation, ValidateEnv,
         ValidateRpc, ValidateContract, Conclude, scriptVars, chainVars, envVars,
         validatorVars
    <2>2. CASE Bot
      BY <1>0, <2>2 DEF DeploymentTypeOK, Bot, StartBot, StopBot, Decide, Pass,
         Trade, TradeTimesOut, LateTrade, Raise, deploymentVars, scriptVars,
         envVars, validatorVars
    <2>3. CASE UNCHANGED vars
      BY <1>0, <2>3 DEF DeploymentTypeOK, vars, deploymentVars, scriptVars, envVars,
         validatorVars
    <2>4. QED
      BY <2>1, <2>2, <2>3 DEF Next, Operator
  <1>4. QED
    BY <1>2, <1>3 DEF DeploymentTypeOK

\* The script takes one receipt, of the one transaction of its run.
LEMMA AddressKept ==
  ASSUME OperationsInv, [Next]_vars
  PROVE  ReceiptIsOurs' /\ ReceiverIsOurs'
  <1>0. /\ ReceiptIsOurs /\ ReceiverIsOurs /\ NoncesInOrder
        /\ mined \subseteq mined' /\ Contracts \subseteq Contracts'
    BY ContractsGrow DEF OperationsInv
  <1>1. ReceiptIsOurs'
    <2>1. CASE Receipt
      BY <2>1 DEF Receipt, Accepts, ReceiptIsOurs, chainVars
    <2>2. CASE Prepare \/ Send \/ SaveAddress \/ EndDeploy
      BY <2>2 DEF Prepare, Send, SaveAddress, EndDeploy, ReceiptIsOurs
    <2>3. CASE UNCHANGED <<script, runs>>
      BY <1>0, <2>3 DEF ReceiptIsOurs
    <2>4. QED
      BY <2>1, <2>2, <2>3 DEF Next, Operator, DeploymentNext, Include, Forget,
         StartValidation, ValidateRpc, ValidateContract, Conclude, Bot, StartBot,
         StopBot, Decide, Pass, Trade, TradeTimesOut, LateTrade, Raise, vars,
         deploymentVars, scriptVars
  <1>2. address' \in Contracts' \cup {NoContract}
    <2>1. CASE SaveAddress /\ envFile
      <3>1. PICK d \in mined : d.run = runs /\ d.ok
        BY <1>0, <2>1 DEF ReceiptIsOurs, SaveAddress
      <3>2. PICK e \in mined : e.run = runs /\ address' = e.nonce
        BY <2>1 DEF SaveAddress
      <3>3. d = e
        BY <1>0, <3>1, <3>2 DEF NoncesInOrder
      <3>4. QED
        BY <1>0, <3>1, <3>2, <3>3 DEF Contracts
    <2>2. CASE address' = address
      BY <1>0, <2>2 DEF ReceiverIsOurs
    <2>3. SaveAddress => envFile \/ address' = address
      BY DEF SaveAddress
    <2>4. QED
      BY <2>1, <2>2, <2>3 DEF Next, Operator, DeploymentNext, Prepare, Send, Receipt,
         EndDeploy, Include, Forget, StartValidation, ValidateRpc, ValidateContract,
         Conclude, Bot, StartBot, StopBot, Decide, Pass, Trade, TradeTimesOut,
         LateTrade, Raise, vars, deploymentVars, envVars
  <1>3. receiver' \in Contracts' \cup {NoContract}
    <2>1. receiver' \in {address, receiver}
      BY DEF Next, Operator, Bot, StartBot, StopBot, Decide, Pass, Trade,
         TradeTimesOut, LateTrade, Raise, vars, botVars
    <2>2. QED
      BY <1>0, <2>1 DEF ReceiverIsOurs
  <1>4. QED
    BY <1>1, <1>2, <1>3 DEF ReceiverIsOurs

\* A contract seen by a validation is there for good.
LEMMA VerdictKept ==
  ASSUME OperationsInv, [Next]_vars
  PROVE  ReadyIsServed' /\ VerdictIsSound'
  <1>0. /\ ReadyIsServed /\ VerdictIsSound /\ Contracts \subseteq Contracts'
        /\ ready \in BOOLEAN /\ errors \in BOOLEAN
    BY ContractsGrow DEF OperationsInv, OperationsTypeOK, DeploymentTypeOK
  <1>1. CASE StartValidation
    BY <1>1 DEF StartValidation, ReadyIsServed, VerdictIsSound
  <1>2. CASE ValidateRpc
    BY <1>0, <1>2 DEF ValidateRpc, ReadyIsServed, VerdictIsSound
  <1>3. CASE ValidateContract
    BY <1>0, <1>3 DEF ValidateContract, HasCode, ReadyIsServed, VerdictIsSound
  <1>4. CASE Conclude
    BY <1>0, <1>4 DEF Conclude, ReadyIsServed, VerdictIsSound
  <1>5. CASE UNCHANGED validatorVars
    BY <1>0, <1>5 DEF validatorVars, ReadyIsServed, VerdictIsSound
  <1>6. QED
    BY <1>1, <1>2, <1>3, <1>4, <1>5 DEF Next, Operator, DeploymentNext, Prepare,
       Send, Receipt, SaveAddress, EndDeploy, Include, Forget, Bot, StartBot,
       StopBot, Decide, Pass, Trade, TradeTimesOut, LateTrade, Raise, vars,
       deploymentVars

-----------------------------------------------------------------------------
\* A multiple of S leaves no remainder, and the next one is S further.
LEMMA MultipleMod ==
  ASSUME NEW k \in Nat, NEW S \in Nat \ {0}
  PROVE  (S * k) % S = 0
  <1>1. PICK q \in Int, r \in Int : S * k = S * q + r /\ 0 <= r /\ r < S
                                    /\ r = (S * k) % S
    <2>1. S * k \in Nat
      BY SMT
    <2>2. QED
      BY <2>1, SMT
  <1>2. S * (k - q) = r
    BY <1>1, SMT
  <1>3. CASE k - q >= 1
    BY <1>1, <1>2, <1>3, SMT
  <1>4. CASE k - q <= -1
    BY <1>1, <1>2, <1>4, SMT
  <1>5. CASE k = q
    BY <1>1, <1>2, <1>5, SMT
  <1>6. QED
    BY <1>3, <1>4, <1>5

LEMMA NextMultiple ==
  ASSUME NEW d \in Nat, NEW S \in Nat \ {0}, d % S = 0
  PROVE  (d + S) % S = 0
  <1>1. PICK q \in Nat : q = d \div S
    OBVIOUS
  <1>2. d = S * q
    BY <1>1, SMT
  <1>3. d + S = S * (q + 1)
    BY <1>2, SMT
  <1>4. (S * (q + 1)) % S = 0
    <2>1. q + 1 \in Nat
      BY <1>1
    <2>2. QED
      BY <2>1, MultipleMod
  <1>5. QED
    BY <1>3, <1>4

\* Rounding only takes evidence away.
LEMMA DecayTakes ==
  ASSUME NEW x \in Nat
  PROVE  Decayed(x) \in Nat /\ Decayed(x) * DecayDen <= x * DecayNum
  BY LearningAssumption, SMT DEF Decayed

\* One outcome adds a whole reward to what is left, and no more stays than
\* what the decay takes away in one step.
LEMMA PullBounded ==
  ASSUME NEW x \in Nat, NEW y \in Nat, NEW r \in Nat, r <= Whole,
         (x + y) * (DecayDen - DecayNum) <= Whole * DecayDen
  PROVE  (Decayed(x) + Decayed(y) + r) * (DecayDen - DecayNum) <= Whole * DecayDen
  <1> DEFINE left == Decayed(x) + Decayed(y)
             gap == DecayDen - DecayNum
  <1>1. /\ gap \in Nat \ {0} /\ Whole \in Nat /\ DecayNum \in Nat
        /\ DecayDen \in Nat \ {0} /\ DecayDen = DecayNum + gap
    BY LearningAssumption
  <1>2. left \in Nat /\ left * DecayDen <= (x + y) * DecayNum
    BY <1>1, DecayTakes
  <1> HIDE DEF left, gap
  <1>3. (left * DecayDen) * gap <= ((x + y) * DecayNum) * gap
    BY <1>1, <1>2, SMT
  <1>4. ((x + y) * gap) * DecayNum <= (Whole * DecayDen) * DecayNum
    BY <1>1, SMT DEF gap
  <1>5. (left * gap) * DecayDen <= (Whole * DecayNum) * DecayDen
    BY <1>1, <1>2, <1>3, <1>4, SMT
  <1>6. left * gap <= Whole * DecayNum
    BY <1>1, <1>2, <1>5, SMT
  <1>7. r * gap <= Whole * gap
    BY <1>1, SMT
  <1>8. (left + r) * gap <= Whole * DecayDen
    BY <1>1, <1>2, <1>6, <1>7, SMT
  <1>9. QED
    BY <1>8 DEF left, gap

\* The five ways a step touches what the bot has learned.
Chooses == decision' = updates /\ UNCHANGED <<buffer, updates, checkpoint, armVars>>

Stores == /\ decision = updates /\ decision' = Undecided /\ buffer' = Stored
          /\ UNCHANGED <<updates, checkpoint, armVars>>

Pulls == \/ UNCHANGED armVars
         \/ \E p \in Nat : PullArm(p)

Updates == /\ decision = updates /\ decision' = Undecided
           /\ Update(Stored) \/ Update(buffer)
           /\ Pulls

Rests == decision' \in {decision, Undecided}
         /\ UNCHANGED <<buffer, updates, checkpoint, armVars>>

LEMMA LearningMoves ==
  ASSUME OperationsInv, [Next]_vars
  PROVE  Chooses \/ Stores \/ Updates \/ Rests \/ StartLearning
  <1>0. decision \in {updates, Undecided} /\ 0..(2 * Whole) \subseteq Nat /\ 0 \in Nat
    BY LearningAssumption DEF OperationsInv, OnPolicy
  <1>1. CASE StartBot
    BY <1>1 DEF StartBot
  <1>2. CASE Decide
    BY <1>2 DEF Decide, SelectAction, Chooses
  <1>3. CASE Pass
    BY <1>0, <1>3 DEF Pass, StoreOnly, StoreNothing, Stores, Rests
  <1>4. CASE Trade
    BY <1>0, <1>4 DEF Trade, LearnOutcome, Updates, Pulls
  <1>5. CASE TradeTimesOut
    BY <1>0, <1>5 DEF TradeTimesOut, LearnOutcome, Updates, Pulls
  <1>6. CASE Raise
    BY <1>0, <1>6 DEF Raise, LearnNothing, Updates, Pulls
  <1>7. CASE UNCHANGED learningVars
    BY <1>7 DEF learningVars, memoryVars, Rests
  <1>8. QED
    BY <1>1, <1>2, <1>3, <1>4, <1>5, <1>6, <1>7
       DEF Next, Operator, Bot, StopBot, LateTrade, vars

LEMMA LearningTypes ==
  ASSUME OperationsInv
  PROVE  /\ LearningTypeOK /\ OnPolicy
         /\ buffer \in Seq(0..MaxUpdates) /\ Len(buffer) \in Nat
         /\ Len(buffer) <= MaxLen /\ updates \in 0..MaxUpdates /\ updates \in Nat
         /\ MaxUpdates \in Nat /\ MaxLen \in Nat \ {0} /\ BatchSize \in Nat \ {0}
         /\ Undecided \notin Nat /\ decision \in {updates, Undecided}
  BY LearningAssumption DEF OperationsInv, OperationsTypeOK, LearningTypeOK, OnPolicy

\* What is stored is of the network as it is, and fits the buffer.
LEMMA StoredOnPolicy ==
  ASSUME OperationsInv, decision = updates
  PROVE  /\ Stored \in Seq(0..MaxUpdates) /\ Len(Stored) \in Nat
         /\ Len(Stored) <= MaxLen
         /\ \A i \in DOMAIN Stored : Stored[i] = updates
  <1> DEFINE kept == IF Len(buffer) < MaxLen THEN buffer ELSE Tail(buffer)
  <1>1. \A i \in DOMAIN buffer : buffer[i] = updates
    BY LearningTypes DEF OnPolicy
  <1>2. /\ kept \in Seq(0..MaxUpdates) /\ Len(kept) \in Nat /\ Len(kept) < MaxLen
        /\ \A i \in DOMAIN kept : kept[i] = updates
    <2>1. CASE Len(buffer) < MaxLen
      BY <1>1, <2>1, LearningTypes
    <2>2. CASE ~(Len(buffer) < MaxLen)
      <3>1. Len(buffer) = MaxLen /\ buffer # <<>>
        BY <2>2, LearningTypes
      <3>2. /\ Tail(buffer) \in Seq(0..MaxUpdates)
            /\ Len(Tail(buffer)) = Len(buffer) - 1
            /\ \A i \in 1..(Len(buffer) - 1) :
                 Tail(buffer)[i] = buffer[i + 1] /\ i + 1 \in DOMAIN buffer
        BY <3>1, LearningTypes
      <3>3. QED
        BY <1>1, <2>2, <3>1, <3>2, LearningTypes
    <2>3. QED
      BY <2>1, <2>2
  <1>3. Stored = Append(kept, updates)
    BY DEF Stored
  <1> HIDE DEF kept
  <1>4. /\ Append(kept, updates) \in Seq(0..MaxUpdates)
        /\ Len(Append(kept, updates)) = Len(kept) + 1
        /\ \A i \in 1..Len(kept) : Append(kept, updates)[i] = kept[i]
        /\ Append(kept, updates)[Len(kept) + 1] = updates
    BY <1>2, LearningTypes
  <1>5. \A i \in DOMAIN Stored : Stored[i] = updates
    <2> SUFFICES ASSUME NEW i \in 1..(Len(kept) + 1)
                 PROVE  Append(kept, updates)[i] = updates
      BY <1>2, <1>3, <1>4
    <2>1. CASE i = Len(kept) + 1
      BY <1>4, <2>1
    <2>2. CASE i \in 1..Len(kept)
      BY <1>2, <1>4, <2>2
    <2>3. QED
      BY <1>2, <2>1, <2>2
  <1>6. QED
    BY <1>2, <1>3, <1>4, <1>5, LearningTypes

\* An update trains on everything and keeps nothing of it, or does nothing.
LEMMA UpdateKeeps ==
  ASSUME OperationsInv, NEW rollout, Update(rollout),
         rollout \in Seq(0..MaxUpdates), Len(rollout) <= MaxLen,
         \A i \in DOMAIN rollout : rollout[i] = updates
  PROVE  /\ buffer' \in Seq(0..MaxUpdates) /\ Len(buffer') <= MaxLen
         /\ updates' \in 0..MaxUpdates
         /\ \A i \in DOMAIN buffer' : buffer'[i] = updates'
  <1>1. CASE Len(rollout) < BatchSize
    BY <1>1, LearningTypes DEF Update
  <1>2. CASE ~(Len(rollout) < BatchSize)
    <2>1. updates < MaxUpdates /\ updates' = updates + 1 /\ buffer' = <<>>
      BY <1>2 DEF Update, Cleared
    <2>2. QED
      BY <2>1, LearningTypes
  <1>3. QED
    BY <1>1, <1>2

LEMMA BufferKept ==
  ASSUME OperationsInv, [Next]_vars
  PROVE  /\ decision' \in (0..MaxUpdates) \cup {Undecided}
         /\ buffer' \in Seq(0..MaxUpdates) /\ Len(buffer') <= MaxLen
         /\ updates' \in 0..MaxUpdates
         /\ OnPolicy'
  <1>0. \A i \in DOMAIN buffer : buffer[i] = updates
    BY LearningTypes DEF OnPolicy
  <1>1. CASE Chooses \/ Rests
    BY <1>0, <1>1, LearningTypes DEF Chooses, Rests, OnPolicy
  <1>2. CASE Stores
    BY <1>2, StoredOnPolicy, LearningTypes DEF Stores, OnPolicy
  <1>3. CASE Updates
    BY <1>0, <1>3, StoredOnPolicy, UpdateKeeps, LearningTypes DEF Updates, OnPolicy
  <1>4. CASE StartLearning
    <2>1. updates' \in 0..MaxUpdates
      BY <1>4, LearningTypes DEF StartLearning, LoadedUpdates, LearningTypeOK
    <2>2. decision' = Undecided /\ buffer' = <<>> /\ DOMAIN buffer' = {}
      BY <1>4 DEF StartLearning
    <2>3. QED
      BY <2>1, <2>2, LearningTypes DEF OnPolicy
  <1>5. QED
    BY <1>1, <1>2, <1>3, <1>4, LearningMoves

LEMMA PosteriorKept ==
  ASSUME OperationsInv, [Next]_vars
  PROVE  alpha' \in Nat /\ beta' \in Nat /\ PosteriorForgets'
  <1>0. alpha \in Nat /\ beta \in Nat /\ PosteriorForgets /\ Whole \in Nat
    BY LearningTypes, LearningAssumption DEF LearningTypeOK, OperationsInv
  <1>1. CASE UNCHANGED armVars
    BY <1>0, <1>1 DEF armVars, PosteriorForgets
  <1>2. CASE \E p \in Nat : PullArm(p)
    <2>1. PICK p \in Nat : PullArm(p)
      BY <1>2
    <2>2. Decayed(alpha) \in Nat /\ Decayed(beta) \in Nat
      BY <1>0, DecayTakes
    <2>3. PICK gain \in 0..Whole :
            /\ alpha' + beta' = Decayed(alpha) + Decayed(beta) + gain
            /\ alpha' \in Nat /\ beta' \in Nat
      <3>1. CASE p > 0
        <4>1. alpha' = Decayed(alpha) + Reward(p) /\ beta' = Decayed(beta) + 0
          BY <1>0, <2>1, <3>1 DEF PullArm
        <4>2. Reward(p) \in 0..Whole
          BY <1>0 DEF Reward
        <4>3. QED
          BY <1>0, <2>2, <4>1, <4>2
      <3>2. CASE ~(p > 0)
        <4>1. alpha' = Decayed(alpha) /\ beta' = Decayed(beta) + Whole
          BY <1>0, <2>1, <2>2, <3>2 DEF PullArm, Reward
        <4>2. alpha' + beta' = Decayed(alpha) + Decayed(beta) + Whole
          BY <1>0, <2>2, <4>1
        <4>3. QED
          BY <1>0, <2>2, <4>1, <4>2
      <3>3. QED
        BY <3>1, <3>2
    <2>4. (Decayed(alpha) + Decayed(beta) + gain) * (DecayDen - DecayNum)
            <= Whole * DecayDen
      BY <1>0, PullBounded DEF PosteriorForgets
    <2>5. QED
      BY <2>3, <2>4 DEF PosteriorForgets
  <1>3. CASE alpha' = Whole /\ beta' = Whole
    <2>1. (Whole + Whole) * (DecayDen - DecayNum) = Whole * (2 * (DecayDen - DecayNum))
      BY LearningAssumption, SMT
    <2>2. 2 * (DecayDen - DecayNum) <= DecayDen /\ 2 * (DecayDen - DecayNum) \in Nat
      BY LearningAssumption
    <2>3. Whole * (2 * (DecayDen - DecayNum)) <= Whole * DecayDen
      BY <2>2, LearningAssumption, SMT
    <2>4. QED
      BY <1>0, <1>3, <2>1, <2>3 DEF PosteriorForgets
  <1>4. QED
    BY <1>1, <1>2, <1>3, LearningMoves
       DEF Chooses, Stores, Updates, Pulls, Rests, StartLearning

LEMMA SavesKept ==
  ASSUME OperationsInv, [Next]_vars
  PROVE  /\ checkpoint' \in [state : {"none", "whole", "torn"}, updates : 0..MaxUpdates]
         /\ SavesAreAligned' /\ RestartLosesLittle'
  <1>0. /\ checkpoint \in [state : {"none", "whole", "torn"}, updates : 0..MaxUpdates]
        /\ SavesAreAligned /\ RestartLosesLittle
        /\ SaveEvery \in Nat \ {0} /\ updates \in Nat /\ MaxUpdates \in Nat
        /\ checkpoint.updates \in Nat
    BY LearningTypes, LearningAssumption DEF LearningTypeOK, OperationsInv
  <1>1. CASE UNCHANGED <<updates, checkpoint>>
    BY <1>0, <1>1 DEF SavesAreAligned, RestartLosesLittle, Unsaved
  <1>2. CASE updates < MaxUpdates /\ updates' = updates + 1 /\ SaveDue /\ SaveCheckpoint
    <2>1. CASE checkpoint' = [state |-> "whole", updates |-> updates + 1]
      BY <1>0, <1>2, <2>1 DEF SaveDue, SavesAreAligned, RestartLosesLittle, Unsaved
    <2>2. CASE checkpoint' = [state |-> "torn", updates |-> 0]
      BY <1>0, <1>2, <2>2 DEF SavesAreAligned, RestartLosesLittle, Unsaved
    <2>3. QED
      BY <1>2, <2>1, <2>2 DEF SaveCheckpoint
  <1>3. CASE updates' = updates + 1 /\ ~SaveDue /\ checkpoint' = checkpoint
    <2> DEFINE disk == IF checkpoint.state = "whole" THEN checkpoint.updates ELSE 0
    <2>1. disk \in Nat /\ disk % SaveEvery = 0
      <3>1. 0 % SaveEvery = 0
        BY <1>0
      <3>2. QED
        BY <1>0, <3>1 DEF SavesAreAligned
    <2>2. ASSUME checkpoint.state # "torn"
          PROVE  updates + 1 - disk \in 0..(SaveEvery - 1)
      <3>1. updates - disk \in 0..(SaveEvery - 1)
        BY <1>0, <2>2 DEF RestartLosesLittle, Unsaved
      <3>2. updates + 1 # disk + SaveEvery
        BY <1>0, <1>3, <2>1, NextMultiple DEF SaveDue
      <3> HIDE DEF disk
      <3>3. QED
        BY <1>0, <2>1, <3>1, <3>2
    <2>3. QED
      BY <1>0, <1>3, <2>2 DEF SavesAreAligned, RestartLosesLittle, Unsaved
  <1>4. CASE StartLearning
    <2>1. 0 \in 0..(SaveEvery - 1)
      BY <1>0
    <2>2. updates' - LoadedUpdates = 0 /\ checkpoint' = checkpoint
      BY <1>0, <1>4 DEF StartLearning, LoadedUpdates
    <2>3. QED
      BY <1>0, <1>4, <2>1, <2>2
         DEF SavesAreAligned, RestartLosesLittle, Unsaved, LoadedUpdates
  <1>5. QED
    BY <1>1, <1>2, <1>3, <1>4, LearningMoves
       DEF Chooses, Stores, Updates, Update, Rests

-----------------------------------------------------------------------------
LEMMA InitHolds == Init => OperationsInv
  <1> SUFFICES ASSUME Init PROVE OperationsInv
    OBVIOUS
  <1>1. DeploymentInit /\ LearningInit /\ up = FALSE /\ receiver = NoContract
        /\ wallet \in {"deployer", "other"}
    BY DEF Init
  <1>2. /\ pool = {} /\ mined = {} /\ Sent = {} /\ start = 0 /\ nonce = 0
        /\ address = NoContract /\ script = "idle" /\ check = "idle" /\ ready = FALSE
    BY <1>1 DEF DeploymentInit, Sent
  <1>3. /\ NoncesInOrder /\ RerunReplaces /\ ReceiptIsOurs /\ ReceiverIsOurs
        /\ ReadyIsServed /\ VerdictIsSound
    BY <1>1, <1>2 DEF NoncesInOrder, RerunReplaces, ReceiptIsOurs, ReceiverIsOurs,
       ReadyIsServed, VerdictIsSound
  <1>4. DeploymentTypeOK
    <2>1. envFile \in BOOLEAN /\ probed \in BOOLEAN /\ errors \in BOOLEAN
          /\ ready \in BOOLEAN
      BY <1>1, Zenon DEF DeploymentInit
    <2>2. runs \in 0..MaxRuns /\ start \in 0..MaxNonce /\ nonce \in 0..MaxNonce
      BY <1>1, DeploymentAssumption DEF DeploymentInit
    <2>3. QED
      BY <1>1, <1>2, <2>1, <2>2 DEF DeploymentInit, DeploymentTypeOK
  <1>5. /\ decision = Undecided /\ buffer = <<>> /\ updates = 0
        /\ checkpoint = [state |-> "none", updates |-> 0]
        /\ alpha = Whole /\ beta = Whole
    BY <1>1 DEF LearningInit
  <1>6. LearningTypeOK /\ OnPolicy
    BY <1>5, LearningAssumption DEF LearningTypeOK, OnPolicy
  <1>7. SavesAreAligned /\ RestartLosesLittle
    BY <1>5, LearningAssumption DEF SavesAreAligned, RestartLosesLittle, Unsaved
  <1>8. PosteriorForgets
    <2>1. (Whole + Whole) * (DecayDen - DecayNum) = Whole * (2 * (DecayDen - DecayNum))
      BY LearningAssumption, SMT
    <2>2. 2 * (DecayDen - DecayNum) <= DecayDen /\ 2 * (DecayDen - DecayNum) \in Nat
      BY LearningAssumption
    <2>3. Whole * (2 * (DecayDen - DecayNum)) <= Whole * DecayDen
      BY <2>2, LearningAssumption, SMT
    <2>4. QED
      BY <1>5, <2>1, <2>3 DEF PosteriorForgets
  <1>9. OperationsTypeOK
    BY <1>1, <1>4, <1>6 DEF OperationsTypeOK
  <1>10. QED
    BY <1>3, <1>6, <1>7, <1>8, <1>9 DEF OperationsInv

LEMMA StepHolds == OperationsInv /\ [Next]_vars => OperationsInv'
  <1> SUFFICES ASSUME OperationsInv, [Next]_vars
               PROVE  OperationsInv'
    OBVIOUS
  <1>1. LearningTypeOK'
    BY BufferKept, PosteriorKept, SavesKept DEF LearningTypeOK
  <1>2. up' \in BOOLEAN /\ wallet' \in {"deployer", "other"}
    BY DEF OperationsInv, OperationsTypeOK, Next, Operator, Bot, StartBot, StopBot,
       Decide, Pass, Trade, TradeTimesOut, LateTrade, Raise, vars, botVars
  <1>3. OperationsTypeOK'
    BY <1>1, <1>2, DeploymentTypeKept DEF OperationsTypeOK
  <1>4. QED
    BY <1>3, NoncesKept, AddressKept, VerdictKept, BufferKept, SavesKept,
       PosteriorKept DEF OperationsInv

\* The inductive invariant, for every bound of the model and of the code.
THEOREM OperationsInvariant == Spec => []OperationsInv
  BY InitHolds, StepHolds, PTL DEF Spec

\* A bot never trades on an address without a contract of its deployer, however
\* the script was cut, the nonces raced and the containers restarted.
THEOREM ReceiverIsDeployed == Spec => []ReceiverIsOurs
  <1>1. OperationsInv => ReceiverIsOurs
    BY DEF OperationsInv
  <1>2. QED
    BY <1>1, OperationsInvariant, PTL

\* A rerun beside a pending deployment yields one contract.
THEOREM RerunIsSafe == Spec => []RerunReplaces
  <1>1. OperationsInv => RerunReplaces
    BY DEF OperationsInv
  <1>2. QED
    BY <1>1, OperationsInvariant, PTL

\* A validation that could ask passes for a deployed contract only.
THEOREM ValidationIsSound == Spec => []ReadyIsServed
  <1>1. OperationsInv => ReadyIsServed
    BY DEF OperationsInv
  <1>2. QED
    BY <1>1, OperationsInvariant, PTL

\* Every transition the agent trains on is of the network it trains.
THEOREM TrainsOnPolicy == Spec => []OnPolicy
  <1>1. OperationsInv => OnPolicy
    BY DEF OperationsInv
  <1>2. QED
    BY <1>1, OperationsInvariant, PTL

\* The checkpoint is less than SaveEvery updates behind, or torn.
THEOREM CheckpointIsRecent == Spec => []RestartLosesLittle
  <1>1. OperationsInv => RestartLosesLittle
    BY DEF OperationsInv
  <1>2. QED
    BY <1>1, OperationsInvariant, PTL

\* The evidence of an arm is bounded for every decay from one half up.
THEOREM PosteriorIsBounded == Spec => []PosteriorForgets
  <1>1. OperationsInv => PosteriorForgets
    BY DEF OperationsInv
  <1>2. QED
    BY <1>1, OperationsInvariant, PTL
=============================================================================
