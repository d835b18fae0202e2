------------------------------- MODULE Learning -------------------------------
(***************************************************************************)
(* What the bot learns from its trades: PPOAgent of algorithms/ppo.py with *)
(* its rollout buffer and checkpoint, and one arm of the Thompson bandit   *)
(* of algorithms/thompson_sampling.py, at the points where orchestrator.py *)
(* calls them. The network is known by the number of its updates, a        *)
(* transition by the network that chose it. Gradients, advantages and the  *)
(* draws from the posterior are left out.                                  *)
(***************************************************************************)
EXTENDS Integers, Sequences

CONSTANTS
  BatchSize,   \* transitions an update needs
  MaxLen,      \* the length of the rollout buffer
  SaveEvery,   \* updates between two checkpoints
  MaxUpdates,  \* bound of the model
  Whole,       \* a reward of 1
  DecayNum, DecayDen, \* decay_rate
  Undecided    \* no action was selected

ASSUME LearningAssumption ==
  /\ BatchSize \in Nat \ {0} /\ MaxLen \in Nat \ {0} /\ SaveEvery \in Nat \ {0}
  /\ MaxUpdates \in Nat /\ Whole \in Nat
  /\ DecayNum \in Nat /\ DecayDen \in Nat /\ DecayNum < DecayDen
  /\ DecayDen <= 2 * DecayNum
  /\ Undecided \notin Nat

VARIABLES
  decision,   \* the network that selected the action of the block in progress
  buffer,     \* for each transition, the network that selected its action
  updates,    \* _updates
  checkpoint, \* the file: none, whole or torn, and its number of updates
  alpha, beta \* the posterior of an arm

memoryVars == <<decision, buffer, updates>>
armVars == <<alpha, beta>>
learningVars == <<memoryVars, checkpoint, armVars>>

LearningInit ==
  /\ decision = Undecided /\ buffer = <<>> /\ updates = 0
  /\ checkpoint = [state |-> "none", updates |-> 0]
  /\ alpha = Whole /\ beta = Whole

-----------------------------------------------------------------------------
SelectAction ==
  /\ decision = Undecided
  /\ decision' = updates
  /\ UNCHANGED <<buffer, updates, checkpoint, armVars>>

\* The deque drops its oldest transition when it is full.
Stored ==
  Append(IF Len(buffer) < MaxLen THEN buffer ELSE Tail(buffer), decision)

\* SKIP, WAIT, a refusal of the risk check and a dry run: no update follows.
StoreOnly ==
  /\ decision # Undecided
  /\ buffer' = Stored
  /\ decision' = Undecided
  /\ UNCHANGED <<updates, checkpoint, armVars>>

\* No route could be built.
StoreNothing ==
  /\ decision # Undecided
  /\ decision' = Undecided
  /\ UNCHANGED <<buffer, updates, checkpoint, armVars>>

\* A faulty update that keeps the transitions it learned from.
ClearedNever(rollout) == rollout

Cleared(rollout) == <<>>

SaveDue == (updates + 1) % SaveEvery = 0

\* The file is overwritten in place: a full disk or a kill leaves half of it.
\* (A save that cannot even open its file is left out.)
SaveCheckpoint ==
  checkpoint' \in {[state |-> "whole", updates |-> updates + 1],
                   [state |-> "torn", updates |-> 0]}

\* PPOAgent.update on the transitions of the rollout.
Update(rollout) ==
  IF Len(rollout) < BatchSize
    THEN buffer' = rollout /\ UNCHANGED <<updates, checkpoint>>
    ELSE /\ updates < MaxUpdates
         /\ updates' = updates + 1
         /\ buffer' = Cleared(rollout)
         /\ IF SaveDue THEN SaveCheckpoint ELSE UNCHANGED checkpoint

\* A faulty bandit that never forgets.
DecayedNever(x) == x

Decayed(x) == (x * DecayNum) \div DecayDen

\* record_outcome: a profit counts in units of the expected one, and at most
\* for one such unit.
Reward(profit) == IF profit <= Whole THEN profit ELSE Whole

\* ArmStats.update; a failure is a profit of nil.
PullArm(profit) ==
  /\ alpha' = Decayed(alpha) + Reward(profit)
  /\ beta' = Decayed(beta) + IF profit > 0 THEN 0 ELSE Whole

\* A trade with a receipt or a timeout; the arm may be of no hop of the route.
LearnOutcome(profits) ==
  /\ decision # Undecided
  /\ Update(Stored)
  /\ decision' = Undecided
  /\ \/ \E p \in profits : PullArm(p)
     \/ UNCHANGED armVars

\* An attempt that raised stores nothing, but an update follows.
LearnNothing ==
  /\ decision # Undecided
  /\ Update(buffer)
  /\ decision' = Undecided
  /\ UNCHANGED armVars

\* A faulty load that takes the weights and forgets their number.
LoadedUpdatesNone == 0

\* _load_checkpoint: a file that cannot be read is a network from scratch.
LoadedUpdates == IF checkpoint.state = "whole" THEN checkpoint.updates ELSE 0

\* The updates a new process would have lost.
Unsaved ==
  updates - IF checkpoint.state = "whole" THEN checkpoint.updates ELSE 0

\* A new process: the buffer and the posteriors are gone.
StartLearning ==
  /\ decision' = Undecided /\ buffer' = <<>>
  /\ updates' = LoadedUpdates
  /\ alpha' = Whole /\ beta' = Whole
  /\ UNCHANGED checkpoint

-----------------------------------------------------------------------------
LearningTypeOK ==
  /\ decision \in (0..MaxUpdates) \cup {Undecided}
  /\ buffer \in Seq(0..MaxUpdates) /\ Len(buffer) <= MaxLen
  /\ updates \in 0..MaxUpdates
  /\ checkpoint \in [state : {"none", "whole", "torn"}, updates : 0..MaxUpdates]
  /\ alpha \in Nat /\ beta \in Nat

\* PPO learns on-policy: every transition in the buffer, and the one to come,
\* was chosen by the network as it is, although blocks that end without an
\* update, failed attempts and restarts come between.
OnPolicy ==
  /\ decision \in {updates, Undecided}
  /\ \A i \in DOMAIN buffer : buffer[i] = updates

\* A restart loses fewer than SaveEvery updates, unless a save was torn.
RestartLosesLittle ==
  checkpoint.state # "torn" => Unsaved \in 0..(SaveEvery - 1)

\* Old outcomes lose their weight: the evidence of an arm stays below what the
\* decay allows, so that no run of successes makes it immune to failures.
PosteriorForgets ==
  (alpha + beta) * (DecayDen - DecayNum) <= Whole * DecayDen
=============================================================================
