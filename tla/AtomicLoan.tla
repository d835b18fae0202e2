------------------------------ MODULE AtomicLoan ------------------------------
(***************************************************************************)
(* What the receiver contract promises to everybody who looks at it from   *)
(* outside: a flash loan either happened as a whole or did not happen. No  *)
(* borrowed token, no half of a route and no right to pull its tokens is   *)
(* ever visible.                                                           *)
(***************************************************************************)
EXTENDS SwapRoutes

CONSTANTS
  Accounts, \* the accounts that may hold a role
  Routes,   \* the routes a trade can follow
  NoRights, \* nobody may pull anything
  NoCall    \* no trade is being executed

VARIABLES
  owner, executor, paused,
  held,   \* the contract's balance of each token
  rights, \* what others may pull from the contract
  call    \* the borrowed token and the route of the trade being executed

roleVars == <<owner, executor, paused>>
atomicVars == <<roleVars, held, rights, call>>

AtomicInit ==
  /\ owner \in Accounts /\ executor = owner /\ paused = FALSE
  /\ held = [t \in Tokens |-> 0]
  /\ rights = NoRights
  /\ call = NoCall

Begin ==
  /\ ~paused /\ call = NoCall
  /\ call' \in Tokens \X Routes
  /\ UNCHANGED <<roleVars, held, rights>>

\* Nothing of the borrowed token is left, a cycle empties every token on its
\* way, and no token off the route is touched.
Commit ==
  /\ call # NoCall
  /\ call' = NoCall
  /\ held' \in [Tokens -> Nat]
  /\ LET asset == call[1]
         route == call[2]
     IN /\ held'[asset] = 0
        /\ IsCycleOf(route, asset) => \A t \in TokensOf(route) : held'[t] = 0
        /\ \A t \in Tokens \ (TokensOf(route) \cup {asset}) : held'[t] = held[t]
  /\ UNCHANGED <<roleVars, rights>>

Abort ==
  /\ call # NoCall
  /\ call' = NoCall
  /\ UNCHANGED <<roleVars, held, rights>>

\* The owner gives a role away, or pauses the contract.
ChangeRoles ==
  /\ call = NoCall
  /\ owner' \in Accounts /\ executor' \in Accounts /\ paused' \in BOOLEAN
  /\ UNCHANGED <<held, rights, call>>

\* The owner takes a token out, or somebody sends one.
Transfer ==
  /\ call = NoCall
  /\ held' \in [Tokens -> Nat]
  /\ \E t \in Tokens : \A u \in Tokens \ {t} : held'[u] = held[u]
  /\ UNCHANGED <<roleVars, rights, call>>

AtomicNext == Begin \/ Commit \/ Abort \/ ChangeRoles \/ Transfer

AtomicSpec == AtomicInit /\ [][AtomicNext]_atomicVars
=============================================================================
