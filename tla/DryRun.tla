------------------------------- MODULE DryRun -------------------------------
(***************************************************************************)
(* The bundle simulator (simulator/src/lib.rs) inside the auction task:    *)
(* what Auction takes for one step, an outcome being set, is here the      *)
(* calls to the RPC node that lead to it, between which bundles arrive and *)
(* time passes. Steps of this module are steps of Auction, or invisible to *)
(* it.                                                                     *)
(***************************************************************************)
EXTENDS Auction

CONSTANTS
  TxUnits,     \* compute units the node may report for a transaction, 0 if none
  ResultCounts \* how many results a reply to simulateBundle may list

ASSUME DryRunAssumption ==
  TxUnits \subseteq 0 .. MaxU64 /\ SimUnits = 0 .. MaxU64 /\ ResultCounts \subseteq Nat

VARIABLES
  atomic,      \* --sim-atomic
  call,        \* the simulation in progress, a set of at most one
  late         \* history: bundles pushed since the tick took its snapshot

simVars == <<atomic, call>>
dryVars == <<auctionVars, simVars, late>>

DryInit == AuctionInit /\ atomic \in BOOLEAN /\ call = {} /\ late = {}

-----------------------------------------------------------------------------
(* simulate_bundle *)

\* The first bundle of the snapshot that is left.
SimulateBundle(i) ==
  /\ pc = "sim" /\ call = {} /\ buffer[i].uuid \in toSim
  /\ \A j \in 1 .. i - 1 : buffer[j].uuid \notin toSim
  /\ call' = {[uuid |-> buffer[i].uuid, left |-> bundles[buffer[i].uuid].txs, total |-> 0,
               summary |-> "none"]}
  /\ UNCHANGED <<auctionVars, atomic, late>>

Returns(c, status, units) ==
  /\ \E i \in DOMAIN buffer :
       buffer[i].uuid = c.uuid /\ SetSimulation(i, [status |-> status, units |-> units])
  /\ call' = {} /\ UNCHANGED <<atomic, late>>

\* One transaction less to go.
OneDone(c, total) ==
  [uuid |-> c.uuid, left |-> c.left - 1, total |-> total, summary |-> c.summary]

\* Faulty: goes on after a transaction that fails.
PerTxCarriesOn(c) ==
  /\ ~atomic /\ c.left > 0
  /\ call' = {OneDone(c, c.total)} /\ UNCHANGED <<auctionVars, atomic, late>>

\* A transaction does not decode, fails, or the RPC call does.
PerTxFails(c) == ~atomic /\ c.left > 0 /\ Returns(c, "failed", c.total)

PerTxRuns(c, units) ==
  /\ ~atomic /\ c.left > 0
  /\ call' = {OneDone(c, Saturate(c.total + units))}
  /\ UNCHANGED <<auctionVars, atomic, late>>

PerTxDone(c) == ~atomic /\ c.left = 0 /\ Returns(c, "ok", c.total)

\* simulateBundle without packets, or the call fails, or an error comes back.
AtomicFails(c) == atomic /\ c.summary = "none" /\ Returns(c, "failed", 0)

\* parse_simulate_bundle reads the summary of the reply, whose list of results
\* need not match the bundle ...
AtomicAnswers(c, status, n) ==
  /\ atomic /\ c.left > 0 /\ c.summary = "none"
  /\ call' = {[c EXCEPT !.summary = status, !.left = n]}
  /\ UNCHANGED <<auctionVars, atomic, late>>

\* ... and adds up the units, as a release build does.
AtomicAdds(c, units) ==
  /\ c.summary # "none" /\ c.left > 0
  /\ call' = {OneDone(c, (c.total + units) % (MaxU64 + 1))}
  /\ UNCHANGED <<auctionVars, atomic, late>>

AtomicDone(c) == c.summary # "none" /\ c.left = 0 /\ Returns(c, c.summary, c.total)

Simulator ==
  \/ \E i \in DOMAIN buffer : SimulateBundle(i)
  \/ \E c \in call :
       \/ PerTxFails(c) \/ PerTxDone(c) \/ AtomicFails(c) \/ AtomicDone(c)
       \/ \E units \in TxUnits : PerTxRuns(c, units) \/ AtomicAdds(c, units)
       \/ \E status \in {"ok", "failed"}, n \in ResultCounts : AtomicAnswers(c, status, n)

-----------------------------------------------------------------------------
Push(u) ==
  /\ SubmitPush(u) /\ late' = IF pc = "sim" THEN late \cup {u} ELSE late
  /\ UNCHANGED simVars

\* The rest of the auction task.
Tick == AuctionTick /\ late' = {} /\ UNCHANGED simVars

Rest ==
  /\ \/ RunAuctionEmpty \/ RankBundles \/ Win \/ Lose \/ FinishAuction
     \/ BeginHandOff \/ SendWinner \/ SendFails \/ RoundDone
  /\ UNCHANGED <<simVars, late>>

Others ==
  /\ \/ \E u \in Uuids : SubmitScore(u)
     \/ AuctionElapse \/ ForwarderRecv \/ ForwarderExit
  /\ UNCHANGED <<simVars, late>>

DryNext ==
  \/ \E u \in Uuids : Push(u)
  \/ Tick \/ Simulator \/ Rest \/ Others

DrySpec == DryInit /\ [][DryNext]_dryVars

-----------------------------------------------------------------------------
\* A bundle goes into a round without a dry run only if it was pushed after the
\* round's snapshot was taken, although pushing goes on during the simulations.
UnsimulatedOnlyIfLate ==
  Simulated => \A b \in InRound : b.sim.status = "none" => b.uuid \in late

\* A bundle that passes its dry run transaction by transaction has had every one
\* of them simulated: it is charged for each at least the least and at most the
\* most that the node reports for one, up to the limit of u64.
ChargedForEveryTx ==
  \A b \in Elements(buffer) \cup InRound : \A lo, hi \in TxUnits :
    /\ ~atomic /\ b.sim.status = "ok" /\ \A x \in TxUnits : lo <= x /\ x <= hi
    => b.sim.units \in Saturate(bundles[b.uuid].txs * lo) .. Saturate(bundles[b.uuid].txs * hi)
=============================================================================
