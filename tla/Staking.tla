------------------------------ MODULE Staking -------------------------------
(***************************************************************************)
(* The solprobe-staking program: a worker locks lamports in a vault of its *)
(* own, the admin may slash them, and the worker takes what is left back   *)
(* after a cooldown. As in Escrow an instruction is one action, a failed   *)
(* one is a stuttering step, and wallets are left out.                     *)
(*                                                                         *)
(* The account of a stake exists from stake to unstake, which closes it; a *)
(* stake slashed to nothing is not active and keeps its account for good.  *)
(***************************************************************************)
EXTENDS Integers

CONSTANTS
  Stakers,      \* the workers
  Amounts,      \* BOUND: the lamports of a stake, a slash, or the least stake
  Cooldowns,    \* BOUND: cooldown_seconds
  MaxSlashes,   \* the largest slash_count: 2^32 - 1, far less in the runs
  MaxSent,      \* BOUND: the lamports sent to a vault directly
  MaxNow        \* BOUND: the clock

ASSUME StakingAssumption ==
  /\ Amounts \subseteq Nat /\ Cooldowns \subseteq Nat
  /\ {MaxSlashes, MaxSent, MaxNow} \subseteq Nat

VARIABLES
  now,     \* unix_timestamp
  config,  \* StakeConfig
  stake,   \* per worker, its account: StakeAccount, or NoStake
  pot,     \* per worker, the lamports in its vault
  sent     \* history: per worker, those sent to the vault directly

skVars == <<now, config, stake, pot, sent>>

NoStake == [open |-> FALSE, active |-> FALSE, staked |-> 0, locked |-> 0, slashes |-> 0]

SkTypeOK ==
  /\ now \in Nat
  /\ config.min \in Nat /\ config.cooldown \in Nat
  /\ \A w \in Stakers :
       /\ {stake[w].open, stake[w].active} \subseteq BOOLEAN
       /\ {stake[w].staked, stake[w].locked, stake[w].slashes} \subseteq Nat
  /\ {pot, sent} \subseteq [Stakers -> Nat]

UpdateConfig(min, cooldown) ==
  /\ config' = [min |-> min, cooldown |-> cooldown]
  /\ UNCHANGED <<now, stake, pot, sent>>

\* The cooldown starts anew with each stake and each slash.
Stake(w, amount) ==
  /\ ~stake[w].open
  /\ amount >= config.min
  /\ pot' = [pot EXCEPT ![w] = @ + amount]
  /\ stake' = [stake EXCEPT ![w] =
       [open |-> TRUE, active |-> TRUE, staked |-> amount,
        locked |-> now + config.cooldown, slashes |-> 0]]
  /\ UNCHANGED <<now, config, sent>>

\* MUTANT: more than the stake may be asked for.
TakenUncapped(w, amount) == amount

\* cmp::min: at most what is staked.
Taken(w, amount) == IF amount < stake[w].staked THEN amount ELSE stake[w].staked

\* saturating_sub.
Rest(w, amount) ==
  IF Taken(w, amount) < stake[w].staked THEN stake[w].staked - Taken(w, amount) ELSE 0

Slash(w, amount) ==
  /\ stake[w].active
  /\ pot[w] >= Taken(w, amount)
  /\ stake[w].slashes < MaxSlashes
  /\ pot' = [pot EXCEPT ![w] = @ - Taken(w, amount)]
  /\ stake' = [stake EXCEPT ![w] =
       [open |-> TRUE, active |-> Rest(w, amount) > 0, staked |-> Rest(w, amount),
        locked |-> now + config.cooldown, slashes |-> @.slashes + 1]]
  /\ UNCHANGED <<now, config, sent>>

Unlocked(w) == now >= stake[w].locked

\* The account is closed.
Unstake(w) ==
  /\ stake[w].active
  /\ Unlocked(w)
  /\ pot[w] >= stake[w].staked
  /\ pot' = [pot EXCEPT ![w] = @ - stake[w].staked]
  /\ stake' = [stake EXCEPT ![w] = NoStake]
  /\ UNCHANGED <<now, config, sent>>

Send(w) ==
  /\ sent[w] < MaxSent
  /\ pot' = [pot EXCEPT ![w] = @ + 1] /\ sent' = [sent EXCEPT ![w] = @ + 1]
  /\ UNCHANGED <<now, config, stake>>

SkTick ==
  /\ now < MaxNow
  /\ now' = now + 1
  /\ UNCHANGED <<config, stake, pot, sent>>

SkInit ==
  /\ now = 0
  /\ config \in [min : Amounts, cooldown : Cooldowns]
  /\ stake = [w \in Stakers |-> NoStake]
  /\ pot = [w \in Stakers |-> 0]
  /\ sent = [w \in Stakers |-> 0]

SkNext ==
  \/ \E min \in Amounts, cooldown \in Cooldowns : UpdateConfig(min, cooldown)
  \/ \E w \in Stakers :
       \/ \E amount \in Amounts : Stake(w, amount) \/ Slash(w, amount)
       \/ Unstake(w)
       \/ Send(w)
  \/ SkTick

StakingSpec == SkInit /\ [][SkNext]_skVars

-----------------------------------------------------------------------------
(* Properties. *)

\* A vault holds exactly the stake of its worker, beside rent and what was sent to it directly:
\* whatever is slashed, withdrawn and staked again, an active stake can be paid back in full,
\* and an account that is not active, which nobody can empty any more, holds none (lib.rs,
\* slash and unstake).
StakesBacked ==
  \A w \in Stakers :
    /\ pot[w] = stake[w].staked + sent[w]
    /\ ~stake[w].active => stake[w].staked = 0
=============================================================================
