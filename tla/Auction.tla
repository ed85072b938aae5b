------------------------------ MODULE Auction ------------------------------
(***************************************************************************)
(* The bundle auction (auction/src/lib.rs) together with the task that     *)
(* drives it (block_engine/src/main.rs, "Auction tick") and the bundle     *)
(* channel into the validator forwarder.                                   *)
(*                                                                         *)
(* The buffer mutex is held for the whole of run_auction, so the loop over *)
(* the drained buffer (pc = "drain") excludes submit; it is broken into    *)
(* one step per bundle because every iteration publishes a result, which   *)
(* other tasks can observe.                                                *)
(*                                                                         *)
(* Time: an Instant is only ever compared with now, so an entry carries    *)
(* its age, saturated at the largest value the code can tell apart.        *)
(***************************************************************************)
EXTENDS BundleIds, Integers, Sequences, FiniteSets

CONSTANTS
  Tips,         \* tips (lamports) a bundle may carry
  TxCounts,     \* numbers of packets a bundle may have
  EstCuPerTx,   \* EST_CU_PER_TX
  SimUnits,     \* compute units the simulator may report
  Simulated,    \* TRUE iff --sim-rpc-url is set
  CuBudget,     \* --block-cu-limit
  BundleTtl,    \* --bundle-ttl-ms, in clock ticks
  ChanCap,      \* capacity of the bundle channel
  MaxU64,       \* the largest u64
  Quotient(_, _),  \* n as f64 / d as f64, as a multiple of some small fraction
  Accuracy      \* quotients further apart than one part in this never tie

ASSUME AuctionAssumption ==
  /\ Tips \subseteq 0 .. MaxU64 /\ TxCounts \subseteq Nat /\ SimUnits \subseteq 0 .. MaxU64
  /\ EstCuPerTx \in Nat /\ BundleTtl \in Nat /\ ChanCap \in Nat \ {0}
  /\ Simulated \in BOOLEAN
  /\ MaxU64 \in Nat /\ CuBudget \in Nat /\ CuBudget < MaxU64

\* Conversion and division each round to 53 bits, so that the quotients of u64s
\* order them up to one part in 2^50.
ASSUME QuotientAssumption ==
  /\ Accuracy \in Nat
  /\ \A n, m \in 0 .. MaxU64, c, d \in 1 .. MaxU64 :
       /\ Quotient(n, c) \in Nat
       /\ n * d * Accuracy > m * c * (Accuracy + 1) => Quotient(n, c) > Quotient(m, d)

VARIABLES
  bundles,   \* what each uuid's request carries: its tip and packet count
  handler,   \* per request: how far auction.submit has got
  buffer,    \* Auction::buffer, in submission order
  pc,        \* control point of the auction task
  toSim,     \* uuids of the pending_for_simulation() snapshot still to do
  ranked,    \* drain(..): retained entries in rank order, still to decide
  entered,   \* run_auction's local of the same name
  used,      \* run_auction's used_cu
  winners,   \* winning entries of this round, in the order they won
  lost,      \* entries of this round that did not fit
  handed,    \* how many of the winners the task has passed on
  metrics,   \* bundles received / won / dropped counters
  chan,      \* every uuid ever sent on the bundle channel, in order
  taken,     \* how many of them the forwarder has received
  fwdOpen    \* the forwarder still holds the receiver

roundVars == <<ranked, entered, used, winners, lost, handed>>
chanVars == <<chan, taken, fwdOpen>>
auctionVars == <<bundles, handler, buffer, pc, toSim, roundVars, metrics, chanVars>>

NotSimulated == [status |-> "none", units |-> 0]
SimOutcome == [status : {"ok", "failed"}, units : SimUnits]
PendingBundle ==
  [uuid : Uuids, tip : 0 .. MaxU64, est : 0 .. MaxU64, age : 0 .. BundleTtl,
   sim : SimOutcome \cup {NotSimulated}]

-----------------------------------------------------------------------------
(* Scores *)

Saturate(n) == IF n > MaxU64 THEN MaxU64 ELSE n

EstCu(u) == Saturate(bundles[u].txs * EstCuPerTx)
Cu(b) == IF b.sim.status = "none" THEN b.est ELSE b.sim.units
FailedSimulation(b) == b.sim.status = "failed"
AtLeastOne(n) == IF n = 0 THEN 1 ELSE n

\* Faulty: forgets max(1), so a bundle of zero CU is denser than any other.
DenserUnguarded(a, b) == a.tip * Cu(b) > b.tip * Cu(a)

Density(b) == Quotient(b.tip, AtLeastOne(Cu(b)))

\* The sort's comparison: no NaN arises, as the divisor is at least 1.
Denser(a, b) == Density(a) > Density(b)

\* Faulty: keeps bundles whose dry run failed.
RetainedUnfiltered(b) == b.age < BundleTtl

\* Faulty: off by one at the TTL.
RetainedAtTtl(b) == b.age <= BundleTtl /\ ~FailedSimulation(b)

Retained(b) == b.age < BundleTtl /\ ~FailedSimulation(b)

\* Faulty: tests the budget before adding the bundle's own compute units.
FitsBefore(b) == used <= CuBudget

Fits(b) == Saturate(used + Cu(b)) <= CuBudget

\* p lists the buffer indices in keep by density, ties in buffer order (the
\* sort is stable).
IsRanking(p, keep) ==
  /\ {p[i] : i \in DOMAIN p} = keep
  /\ \A i, j \in DOMAIN p : i < j =>
       /\ p[i] # p[j]
       /\ ~Denser(buffer[p[j]], buffer[p[i]])
       /\ p[j] < p[i] => Denser(buffer[p[i]], buffer[p[j]])

-----------------------------------------------------------------------------
AuctionInit ==
  /\ bundles \in [Uuids -> [tip : Tips, txs : TxCounts]]
  /\ handler = [u \in Uuids |-> "idle"]
  /\ buffer = <<>> /\ pc = "idle" /\ toSim = {}
  /\ ranked = <<>> /\ entered = 0 /\ used = 0
  /\ winners = <<>> /\ lost = {} /\ handed = 0
  /\ metrics = [received |-> 0, won |-> 0, dropped |-> 0]
  /\ chan = <<>> /\ taken = 0 /\ fwdOpen = TRUE

\* submit, first half: the bundle is scored and counted.
SubmitScore(u) ==
  /\ handler[u] = "idle"
  /\ handler' = [handler EXCEPT ![u] = "scored"]
  /\ metrics' = [metrics EXCEPT !.received = @ + 1]
  /\ UNCHANGED <<bundles, buffer, pc, toSim, roundVars, chanVars>>

\* submit, second half: pushed once the buffer lock is free.
SubmitPush(u) ==
  /\ handler[u] = "scored" /\ pc # "drain"
  /\ handler' = [handler EXCEPT ![u] = "submitted"]
  /\ buffer' = Append(buffer,
       [uuid |-> u, tip |-> bundles[u].tip, est |-> EstCu(u), age |-> 0,
        sim |-> NotSimulated])
  /\ UNCHANGED <<bundles, pc, toSim, roundVars, metrics, chanVars>>

\* One tick of the clock.
AgeBuffer ==
  buffer' = [i \in DOMAIN buffer |->
    [buffer[i] EXCEPT !.age = IF @ < BundleTtl THEN @ + 1 ELSE @]]

AuctionElapse ==
  /\ AgeBuffer
  /\ UNCHANGED <<bundles, handler, pc, toSim, roundVars, metrics, chanVars>>

\* Faulty: the snapshot holds the oldest bundle only.
TickOldest ==
  /\ pc = "idle" /\ pc' = "sim"
  /\ toSim' = IF Simulated /\ buffer # <<>> /\ buffer[1].sim.status = "none"
              THEN {buffer[1].uuid} ELSE {}
  /\ UNCHANGED <<bundles, handler, buffer, roundVars, metrics, chanVars>>

\* interval.tick() fires: snapshot the bundles that still need simulating.
AuctionTick ==
  /\ pc = "idle" /\ pc' = "sim"
  /\ toSim' = IF Simulated
              THEN {buffer[i].uuid : i \in {j \in DOMAIN buffer :
                                              buffer[j].sim.status = "none"}}
              ELSE {}
  /\ UNCHANGED <<bundles, handler, buffer, roundVars, metrics, chanVars>>

\* simulate_bundle has answered for entry i, the first of the snapshot that
\* is left; set_simulation records the outcome.
SetSimulation(i, outcome) ==
  /\ pc = "sim" /\ i \in DOMAIN buffer /\ buffer[i].uuid \in toSim
  /\ \A j \in 1 .. i - 1 : buffer[j].uuid \notin toSim
  /\ buffer' = [buffer EXCEPT ![i].sim = outcome]
  /\ toSim' = toSim \ {buffer[i].uuid}
  /\ UNCHANGED <<bundles, handler, pc, roundVars, metrics, chanVars>>

\* run_auction on an empty buffer returns at once.
RunAuctionEmpty ==
  /\ pc = "sim" /\ toSim = {} /\ buffer = <<>>
  /\ pc' = "idle"
  /\ UNCHANGED <<bundles, handler, buffer, toSim, roundVars, metrics, chanVars>>

\* retain and sort; from here to FinishAuction the buffer lock is held.
RankInto(newBuffer) ==
  /\ pc = "sim" /\ toSim = {} /\ buffer # <<>>
  /\ LET keep == {i \in DOMAIN buffer : Retained(buffer[i])} IN
       \E p \in [1 .. Cardinality(keep) -> keep] :
         /\ IsRanking(p, keep)
         /\ ranked' = [i \in 1 .. Cardinality(keep) |-> buffer[p[i]]]
  /\ pc' = "drain" /\ entered' = Len(buffer) /\ buffer' = newBuffer
  /\ UNCHANGED <<bundles, handler, toSim, used, winners, lost, handed, metrics,
                 chanVars>>

\* Faulty: iterates over the buffer without draining it.
RankWithoutDrain == RankInto(buffer)

RankBundles == RankInto(<<>>)

\* One iteration of the loop: the bundle fits, Accepted is published.
Win ==
  /\ pc = "drain" /\ ranked # <<>> /\ Fits(Head(ranked))
  /\ used' = used + Cu(Head(ranked))
  /\ winners' = Append(winners, Head(ranked))
  /\ ranked' = Tail(ranked)
  /\ UNCHANGED <<bundles, handler, buffer, pc, toSim, entered, lost, handed,
                 metrics, chanVars>>

\* Faulty: breaks out of the loop at the first bundle that does not fit.
LoseAndBreak ==
  /\ pc = "drain" /\ ranked # <<>> /\ ~Fits(Head(ranked))
  /\ lost' = lost \cup {ranked[i] : i \in DOMAIN ranked}
  /\ ranked' = <<>>
  /\ UNCHANGED <<bundles, handler, buffer, pc, toSim, entered, used, winners,
                 handed, metrics, chanVars>>

\* One iteration of the loop: it does not fit, the lost auction is published.
Lose ==
  /\ pc = "drain" /\ ranked # <<>> /\ ~Fits(Head(ranked))
  /\ lost' = lost \cup {Head(ranked)}
  /\ ranked' = Tail(ranked)
  /\ UNCHANGED <<bundles, handler, buffer, pc, toSim, entered, used, winners,
                 handed, metrics, chanVars>>

\* Faulty: counts as dropped only the bundles that lost, not the expired ones.
FinishCountingLosers ==
  /\ pc = "drain" /\ ranked = <<>>
  /\ pc' = "hand"
  /\ metrics' = [metrics EXCEPT !.won = @ + Len(winners),
                                !.dropped = @ + Cardinality(lost)]
  /\ UNCHANGED <<bundles, handler, buffer, toSim, roundVars, chanVars>>

\* End of run_auction: counters, lock released, winners returned.
FinishAuction ==
  /\ pc = "drain" /\ ranked = <<>>
  /\ pc' = "hand"
  /\ metrics' = [metrics EXCEPT !.won = @ + Len(winners),
                                !.dropped = @ + (entered - Len(winners))]
  /\ UNCHANGED <<bundles, handler, buffer, toSim, roundVars, chanVars>>

\* The next winner: tracker.track(&winner) comes before the hand-off.
BeginHandOff ==
  /\ pc = "hand" /\ handed < Len(winners)
  /\ pc' = "send"
  /\ UNCHANGED <<bundles, handler, buffer, toSim, roundVars, metrics, chanVars>>

SendInto(room) ==
  /\ pc = "send" /\ fwdOpen /\ room
  /\ chan' = Append(chan, winners[handed + 1].uuid)
  /\ handed' = handed + 1 /\ pc' = "hand"
  /\ UNCHANGED <<bundles, handler, buffer, toSim, ranked, entered, used,
                 winners, lost, metrics, taken, fwdOpen>>

\* Faulty: try_send, so that a full channel loses the winner.
TrySendWinner ==
  /\ pc = "send" /\ fwdOpen
  /\ chan' = IF Len(chan) - taken < ChanCap
             THEN Append(chan, winners[handed + 1].uuid) ELSE chan
  /\ handed' = handed + 1 /\ pc' = "hand"
  /\ UNCHANGED <<bundles, handler, buffer, toSim, ranked, entered, used,
                 winners, lost, metrics, taken, fwdOpen>>

\* bundle_sender.send(winner).await completes once there is room.
SendWinner == SendInto(Len(chan) - taken < ChanCap)

\* The receiver is gone: the auction task returns for good.
SendFails ==
  /\ pc = "send" /\ ~fwdOpen
  /\ pc' = "stopped"
  /\ UNCHANGED <<bundles, handler, buffer, toSim, roundVars, metrics, chanVars>>

\* All winners passed on; run_auction's locals are gone.
RoundDone ==
  /\ pc = "hand" /\ handed = Len(winners)
  /\ pc' = "idle" /\ entered' = 0 /\ used' = 0 /\ handed' = 0
  /\ winners' = <<>> /\ lost' = {}
  /\ UNCHANGED <<bundles, handler, buffer, toSim, ranked, metrics, chanVars>>

\* The forwarder thread receives the next bundle.
ForwarderRecv ==
  /\ fwdOpen /\ taken < Len(chan)
  /\ taken' = taken + 1
  /\ UNCHANGED <<bundles, handler, buffer, pc, toSim, roundVars, metrics, chan,
                 fwdOpen>>

\* The forwarder loop ends (its other channel was closed).
ForwarderExit ==
  /\ fwdOpen /\ fwdOpen' = FALSE
  /\ UNCHANGED <<bundles, handler, buffer, pc, toSim, roundVars, metrics, chan,
                 taken>>

AuctionTask ==
  \/ AuctionTick
  \/ \E i \in DOMAIN buffer, o \in SimOutcome : SetSimulation(i, o)
  \/ RunAuctionEmpty \/ RankBundles \/ Win \/ Lose \/ FinishAuction
  \/ BeginHandOff \/ SendWinner \/ SendFails \/ RoundDone

AuctionNext ==
  \/ \E u \in Uuids : SubmitScore(u) \/ SubmitPush(u)
  \/ AuctionElapse
  \/ AuctionTask
  \/ ForwarderRecv
  \/ ForwarderExit

AuctionSpec == AuctionInit /\ [][AuctionNext]_auctionVars

-----------------------------------------------------------------------------
Elements(s) == {s[i] : i \in DOMAIN s}
InRound == Elements(ranked) \cup Elements(winners) \cup lost

\* Type correctness, with the bound on the channel of main.rs.
AuctionTypeOK ==
  /\ bundles \in [Uuids -> [tip : Tips, txs : TxCounts]]
  /\ handler \in [Uuids -> {"idle", "scored", "submitted"}]
  /\ buffer \in Seq(PendingBundle)
  /\ pc \in {"idle", "sim", "drain", "hand", "send", "stopped"}
  /\ toSim \in SUBSET Uuids
  /\ ranked \in Seq(PendingBundle) /\ winners \in Seq(PendingBundle)
  /\ lost \in SUBSET PendingBundle
  /\ entered \in Nat /\ used \in Nat /\ handed \in 0 .. Len(winners)
  /\ metrics \in [received : Nat, won : Nat, dropped : Int]
  /\ chan \in Seq(Uuids) /\ taken \in 0 .. Len(chan)
  /\ Len(chan) - taken <= ChanCap
  /\ fwdOpen \in BOOLEAN

\* The winning set fits the block: the compute units of all the winners of a
\* round, as charged by cu(), sum to at most cu_budget.
WinnersFit ==
  LET sum[n \in 0 .. Len(winners)] ==
        IF n = 0 THEN 0 ELSE sum[n - 1] + Cu(winners[n])
  IN  sum[Len(winners)] <= CuBudget

\* A bundle that failed its dry run, or that was older than bundle_ttl when
\* run_auction looked at it, neither wins nor takes part in the ranking.
OnlyLiveBundlesCompete ==
  \A b \in InRound : b.sim.status # "failed" /\ b.age < BundleTtl

\* Greedy and maximal: a bundle loses only if its compute units do not fit
\* beside those of the winners, also once the whole round is decided.
LosersDoNotFit == \A b \in lost : used + Cu(b) > CuBudget

\* Winners are handed on by decreasing tip per compute unit, as far as f64
\* quotients can tell: none comes before a bundle that is denser by more than one
\* part in Accuracy, also when a bundle was charged zero CU. (Closer ones may tie,
\* and then keep the order of their submission.)
WinnersRanked ==
  \A i, j \in DOMAIN winners : i < j =>
    winners[i].tip * AtLeastOne(Cu(winners[j])) * (Accuracy + 1)
      >= winners[j].tip * AtLeastOne(Cu(winners[i])) * Accuracy

\* Every bundle counted as received is counted as won or dropped exactly once,
\* or is on its way into the buffer, in it, or in the round being decided.
MetricsBalance ==
  metrics.received = metrics.won + metrics.dropped + Len(buffer)
    + Cardinality({u \in Uuids : handler[u] = "scored"})
    + (IF pc = "drain" THEN entered ELSE 0)

\* No bundle is sent to the validators twice, and none is sent that lost.
SentOnce ==
  /\ \A i, j \in DOMAIN chan : chan[i] = chan[j] => i = j
  /\ \A b \in lost : b.uuid \notin Elements(chan)

\* README, "Simulation": with a sim RPC, bundles are dry-run before they can
\* win. The code lets a bundle that arrives while others are being simulated
\* take part in the round unsimulated.
DryRunBeforeWin ==
  Simulated => \A i \in DOMAIN winners : winners[i].sim.status # "none"
=============================================================================
