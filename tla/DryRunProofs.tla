---------------------------- MODULE DryRunProofs ----------------------------
(***************************************************************************)
(* The auction task with the simulator's calls made explicit implements    *)
(* the auction, so the theorems of AuctionProofs hold of it; and what goes *)
(* unsimulated into a round came late.                                     *)
(***************************************************************************)
EXTENDS DryRun, AuctionProofs

\* Zenon unless a leaf names another prover: SMT for arithmetic, PTL for temporal logic.
USE Zenon

\* A simulation in progress counts in u64.
Calls == [uuid : Uuids, left : Nat, total : 0 .. MaxU64, summary : {"none", "ok", "failed"}]
CallOK == call \subseteq Calls

\* What an action of the simulator does to the auction.
LEMMA ReturnsAnOutcome ==
  ASSUME CallOK, NEW c \in call, NEW status \in {"ok", "failed"}, NEW units \in 0 .. MaxU64,
         Returns(c, status, units)
  PROVE  \E i \in DOMAIN buffer, o \in SimOutcome : SetSimulation(i, o)
<1>1. [status |-> status, units |-> units] \in SimOutcome
  BY DryRunAssumption DEF SimOutcome
<1> QED
  BY <1>1 DEF Returns

\* A step of the simulator sets one outcome or is internal to it.
LEMMA SimulatorSteps ==
  ASSUME CallOK, Simulator
  PROVE  \/ \E i \in DOMAIN buffer, o \in SimOutcome : SetSimulation(i, o)
         \/ UNCHANGED auctionVars
<1>0. 0 \in 0 .. MaxU64 /\ \A c \in call : c.total \in 0 .. MaxU64
  BY AuctionAssumption, SMTT(30) DEF CallOK, Calls
<1>1. ASSUME NEW c \in call, PerTxFails(c) \/ PerTxDone(c) \/ AtomicFails(c)
      PROVE  \E i \in DOMAIN buffer, o \in SimOutcome : SetSimulation(i, o)
  BY <1>0, <1>1, ReturnsAnOutcome DEF PerTxFails, PerTxDone, AtomicFails
<1>2. ASSUME NEW c \in call, AtomicDone(c)
      PROVE  \E i \in DOMAIN buffer, o \in SimOutcome : SetSimulation(i, o)
  <2>1. c.summary \in {"ok", "failed"}
    BY <1>2 DEF CallOK, Calls, AtomicDone
  <2> QED
    BY <1>0, <1>2, <2>1, ReturnsAnOutcome DEF AtomicDone
<1>3. ASSUME NEW c \in call, NEW units \in TxUnits, PerTxRuns(c, units) \/ AtomicAdds(c, units)
      PROVE  UNCHANGED auctionVars
  BY <1>3 DEF PerTxRuns, AtomicAdds
<1>4. ASSUME NEW c \in call, NEW status \in {"ok", "failed"}, NEW n \in ResultCounts,
             AtomicAnswers(c, status, n)
      PROVE  UNCHANGED auctionVars
  BY <1>4 DEF AtomicAnswers
<1>5. ASSUME NEW i \in DOMAIN buffer, SimulateBundle(i) PROVE UNCHANGED auctionVars
  BY <1>5 DEF SimulateBundle
<1> QED
  BY <1>1, <1>2, <1>3, <1>4, <1>5 DEF Simulator

\* Every step of DryRun is a step of Auction or leaves it alone.
LEMMA DryStepsAreAuctionSteps == CallOK /\ [DryNext]_dryVars => [AuctionNext]_auctionVars
<1> SUFFICES ASSUME CallOK, [DryNext]_dryVars PROVE [AuctionNext]_auctionVars
  OBVIOUS
<1>1. CASE \E u \in Uuids : Push(u)
  BY <1>1 DEF Push, AuctionNext
<1>2. CASE Tick
  BY <1>2 DEF Tick, AuctionNext, AuctionTask
<1>3. CASE Simulator
  BY <1>3, SimulatorSteps DEF AuctionNext, AuctionTask
<1>4. CASE Rest
  BY <1>4 DEF Rest, AuctionNext, AuctionTask
<1>5. CASE Others
  BY <1>5 DEF Others, AuctionNext
<1>6. CASE UNCHANGED dryVars
  BY <1>6 DEF dryVars
<1> QED
  BY <1>1, <1>2, <1>3, <1>4, <1>5, <1>6 DEF DryNext

\* Adding in u64, saturating or wrapping, stays in u64.
LEMMA AddsInU64 ==
  ASSUME NEW a \in 0 .. MaxU64, NEW x \in TxUnits
  PROVE  Saturate(a + x) \in 0 .. MaxU64 /\ (a + x) % (MaxU64 + 1) \in 0 .. MaxU64
<1>1. MaxU64 \in Nat /\ a \in Nat /\ x \in Nat
  BY AuctionAssumption, DryRunAssumption, SMTT(30)
<1>2. Saturate(a + x) \in 0 .. MaxU64
  BY <1>1, SMTT(30) DEF Saturate
<1>3. (a + x) % (MaxU64 + 1) \in 0 .. MaxU64
  BY <1>1, SMTT(30)
<1> QED
  BY <1>2, <1>3

\* Counting one more transaction keeps the call well formed.
LEMMA OneLess ==
  ASSUME NEW c \in Calls, c.left > 0, NEW v \in 0 .. MaxU64
  PROVE  OneDone(c, v) \in Calls
<1>1. c.left - 1 \in Nat
  BY SMTT(30) DEF Calls
<1>2. c.uuid \in Uuids /\ c.summary \in {"none", "ok", "failed"}
  BY DEF Calls
<1> QED
  BY <1>1, <1>2 DEF Calls, OneDone

\* Every step keeps the call in progress within u64.
LEMMA CallInductive == AuctionTypeOK /\ CallOK /\ [DryNext]_dryVars => CallOK'
<1> SUFFICES ASSUME AuctionTypeOK, CallOK, [DryNext]_dryVars PROVE CallOK'
  OBVIOUS
<1>1. ASSUME NEW i \in DOMAIN buffer, SimulateBundle(i) PROVE CallOK'
  <2>1. buffer[i].uuid \in Uuids
    BY BufferedType DEF PendingBundle
  <2>2. bundles[buffer[i].uuid].txs \in Nat
    BY <2>1, AuctionAssumption DEF AuctionTypeOK
  <2> QED
    BY <1>1, <2>1, <2>2, AuctionAssumption, SMTT(30) DEF SimulateBundle, CallOK, Calls
<1>2. ASSUME NEW c \in call, PerTxFails(c) \/ PerTxDone(c) \/ AtomicFails(c) \/ AtomicDone(c)
      PROVE  CallOK'
  BY <1>2 DEF PerTxFails, PerTxDone, AtomicFails, AtomicDone, Returns, CallOK, Calls
<1>3. ASSUME NEW c \in call, NEW units \in TxUnits, PerTxRuns(c, units) \/ AtomicAdds(c, units)
      PROVE  CallOK'
  <2>1. c.left \in Nat /\ c.left > 0
    BY <1>3 DEF PerTxRuns, AtomicAdds, CallOK, Calls
  <2>2. /\ Saturate(c.total + units) \in 0 .. MaxU64
        /\ (c.total + units) % (MaxU64 + 1) \in 0 .. MaxU64
    BY AddsInU64 DEF CallOK, Calls
  <2>3. CASE PerTxRuns(c, units)
    <3>1. call' = {OneDone(c, Saturate(c.total + units))}
      BY ONLY <2>3, Zenon DEF PerTxRuns
    <3> QED
      BY ONLY <2>1, <2>2, <3>1, CallOK, c \in call, OneLess, Zenon DEF CallOK
  <2>4. CASE AtomicAdds(c, units)
    <3>1. call' = {OneDone(c, (c.total + units) % (MaxU64 + 1))}
      BY ONLY <2>4, Zenon DEF AtomicAdds
    <3> QED
      BY ONLY <2>1, <2>2, <3>1, CallOK, c \in call, OneLess, Zenon DEF CallOK
  <2> QED
    BY <1>3, <2>3, <2>4
<1>4. ASSUME NEW c \in call, NEW status \in {"ok", "failed"}, NEW n \in ResultCounts,
             AtomicAnswers(c, status, n)
      PROVE  CallOK'
  BY <1>4, DryRunAssumption DEF AtomicAnswers, CallOK, Calls
<1>5. CASE call' = call
  BY <1>5 DEF CallOK, Calls
<1>6. CASE Simulator
  BY <1>1, <1>2, <1>3, <1>4, <1>6 DEF Simulator
<1>7. CASE ~Simulator
  <2>1. call' = call
    BY <1>7 DEF DryNext, Push, Tick, Rest, Others, simVars, dryVars
  <2> QED
    BY <1>5, <2>1
<1> QED
  BY <1>6, <1>7

\* The auction with its simulator is well typed, in every behaviour.
LEMMA DryInvariant == DrySpec => [](AuctionTypeOK /\ Control /\ CallOK)
<1>1. DryInit => AuctionTypeOK /\ Control /\ CallOK
  BY InitTypeOK DEF DryInit, CallOK, Calls
<1>2. AuctionTypeOK /\ Control /\ CallOK /\ [DryNext]_dryVars => (AuctionTypeOK /\ Control /\ CallOK)'
  BY DryStepsAreAuctionSteps, CallInductive, NextTypeOK
<1> QED
  BY <1>1, <1>2, PTL DEF DrySpec

\* The simulator's calls refine the auction's single step: every behaviour with
\* them is one of the auction's, so all that is proved of the auction holds.
THEOREM DryRunImplementsAuction == DrySpec => AuctionSpec
<1>1. DryInit => AuctionInit
  BY DEF DryInit
<1> QED
  BY <1>1, DryInvariant, DryStepsAreAuctionSteps, PTL DEF DrySpec, AuctionSpec

\* With the simulator's calls failing, refused or late in any way, the auction
\* still keeps its budget and its order, lets no failed or expired bundle
\* compete, sends none twice and counts every one.
THEOREM AuctionWithDryRuns ==
  DrySpec => [](/\ WinnersFit /\ LosersDoNotFit /\ OnlyLiveBundlesCompete /\ WinnersRanked
                /\ SentOnce /\ MetricsBalance)
BY DryRunImplementsAuction, WinnersAllFit, GreedyWithinBudget, OnlyLiveCompete, WinnersAreRanked,
   WinnersAreSentOnce, CountersBalance, PTL

-----------------------------------------------------------------------------
(* What goes unsimulated into a round *)

\* While the simulations go on, a bundle is simulated, due, or late.
Unsimulated ==
  Simulated =>
    /\ pc = "sim" => \A i \in DOMAIN buffer :
         buffer[i].sim.status = "none" => buffer[i].uuid \in toSim \cup late
    /\ \A b \in InRound : b.sim.status = "none" => b.uuid \in late

\* What has no outcome is still to be simulated or was pushed late, after
\* every step.
LEMMA UnsimulatedInductive ==
  AuctionTypeOK /\ Control /\ Places /\ CallOK /\ Unsimulated /\ [DryNext]_dryVars => Unsimulated'
<1> SUFFICES ASSUME AuctionTypeOK, Control, Places, CallOK, Unsimulated, [DryNext]_dryVars, Simulated
             PROVE  Unsimulated'
  BY DEF Unsimulated
<1> DEFINE Buffered ==
      \A i \in DOMAIN buffer : buffer[i].sim.status = "none" => buffer[i].uuid \in toSim \cup late
<1>0. /\ pc = "sim" => Buffered
      /\ \A b \in InRound : b.sim.status = "none" => b.uuid \in late
  BY DEF Unsimulated
<1>1. ASSUME NEW u \in Uuids, Push(u) PROVE Unsimulated'
  <2>1. buffer' = Append(buffer, [uuid |-> u, tip |-> bundles[u].tip, est |-> EstCu(u), age |-> 0,
                                  sim |-> NotSimulated])
    BY <1>1 DEF Push, SubmitPush
  <2>2. /\ Len(buffer) \in Nat /\ DOMAIN buffer = 1 .. Len(buffer)
        /\ DOMAIN buffer' = 1 .. Len(buffer) + 1 /\ buffer'[Len(buffer) + 1].uuid = u
        /\ \A i \in 1 .. Len(buffer) : buffer'[i] = buffer[i]
    BY <2>1, SMTT(30) DEF AuctionTypeOK
  <2>3. pc' = pc /\ toSim' = toSim /\ InRound' = InRound
    BY <1>1 DEF Push, SubmitPush, roundVars, InRound, Elements
  <2>4. late \subseteq late' /\ (pc = "sim" => u \in late')
    BY <1>1 DEF Push
  <2> QED
    BY <1>0, <2>2, <2>3, <2>4, SMTT(30) DEF Unsimulated
<1>2. CASE Tick
  <2>1. /\ buffer' = buffer /\ InRound' = InRound /\ pc = "idle"
        /\ toSim' = {buffer[i].uuid : i \in {j \in DOMAIN buffer : buffer[j].sim.status = "none"}}
    BY <1>2 DEF Tick, AuctionTick, roundVars, InRound, Elements
  <2>2. InRound = {}
    BY <2>1, SMTT(30) DEF Control, InRound, Elements
  <2> QED
    BY <2>1, <2>2 DEF Unsimulated
<1>3. ASSUME NEW i \in DOMAIN buffer, NEW o \in SimOutcome, SetSimulation(i, o), late' = late
      PROVE  Unsimulated'
  <2>1. /\ buffer' = [buffer EXCEPT ![i].sim = o] /\ toSim' = toSim \ {buffer[i].uuid}
        /\ pc = "sim" /\ pc' = pc /\ InRound' = InRound
    BY <1>3 DEF SetSimulation, roundVars, InRound, Elements
  <2>2. \A j \in DOMAIN buffer : buffer[j] \in PendingBundle
    BY BufferedType
  <2>3. DOMAIN buffer' = DOMAIN buffer /\ buffer'[i] = [buffer[i] EXCEPT !.sim = o]
        /\ \A j \in DOMAIN buffer \ {i} : buffer'[j] = buffer[j]
    BY <2>1 DEF AuctionTypeOK
  <2>4. buffer'[i].sim.status # "none"
    BY <2>2, <2>3 DEF PendingBundle, SimOutcome
  <2>5. \A j \in DOMAIN buffer \ {i} : buffer[j].uuid # buffer[i].uuid
    BY DEF Places, HeldOnce
  <2> QED
    BY <1>0, <1>3, <2>1, <2>3, <2>4, <2>5 DEF Unsimulated
<1>4. CASE Simulator
  <2>1. late' = late
    BY ONLY <1>4, Zenon DEF Simulator, SimulateBundle, PerTxFails, PerTxDone, PerTxRuns,
       AtomicFails, AtomicAnswers, AtomicAdds, AtomicDone, Returns
  <2>2. CASE \E i \in DOMAIN buffer, o \in SimOutcome : SetSimulation(i, o)
    BY <1>3, <2>1, <2>2
  <2>3. CASE UNCHANGED auctionVars
    <3>1. buffer' = buffer /\ pc' = pc /\ toSim' = toSim /\ InRound' = InRound
      BY <2>3 DEF auctionVars, roundVars, InRound, Elements
    <3> QED
      BY <1>0, <2>1, <3>1 DEF Unsimulated
  <2> QED
    BY <1>4, <2>2, <2>3, SimulatorSteps
<1>5. ASSUME pc' # "sim", late' = late, InRound' \subseteq InRound PROVE Unsimulated'
  BY <1>0, <1>5 DEF Unsimulated
<1>6. CASE RankBundles /\ late' = late
  <2>1. PICK p \in [DOMAIN ranked' -> DOMAIN buffer] : \A i \in DOMAIN ranked' : ranked'[i] = buffer[p[i]]
    BY <1>6, RankFacts
  <2>2. /\ pc = "sim" /\ toSim = {} /\ pc' = "drain" /\ winners' = winners /\ lost' = lost
    BY <1>6 DEF RankBundles, RankInto
  <2>3. InRound' = Elements(ranked')
    BY <2>2, SMTT(30) DEF Control, InRound, Elements
  <2> QED
    BY <1>0, <1>6, <2>1, <2>2, <2>3, SMTT(30) DEF Unsimulated, Elements
<1>7. CASE (Win \/ Lose) /\ late' = late
  <2>1. ranked \in Seq(PendingBundle) /\ ranked # <<>> /\ ranked' = Tail(ranked) /\ pc' = "drain"
    BY <1>7 DEF AuctionTypeOK, Win, Lose, Control
  <2>2. Head(ranked) \in Elements(ranked) /\ Elements(ranked') \subseteq Elements(ranked)
    BY <2>1, TakeHead, SMTT(30) DEF Elements
  <2>3. \/ winners' = Append(winners, Head(ranked)) /\ lost' = lost
        \/ winners' = winners /\ lost' = lost \cup {Head(ranked)}
    BY <1>7 DEF Win, Lose
  <2>4. winners \in Seq(PendingBundle)
    BY DEF AuctionTypeOK
  <2>5. Elements(winners') \subseteq Elements(winners) \cup {Head(ranked)}
    BY <2>3, <2>4, SMTT(30) DEF Elements
  <2> QED
    BY <1>5, <1>7, <2>1, <2>2, <2>3, <2>5 DEF InRound
<1>8. CASE (RunAuctionEmpty \/ FinishAuction \/ BeginHandOff \/ SendWinner \/ SendFails \/ RoundDone)
           /\ late' = late
  <2>1. pc' # "sim"
    BY <1>8
      DEF RunAuctionEmpty, FinishAuction, BeginHandOff, SendWinner, SendInto, SendFails, RoundDone
  <2>2. ranked' = ranked /\ winners' \in {winners, <<>>} /\ lost' \in {lost, {}}
    BY <1>8
      DEF RunAuctionEmpty, FinishAuction, BeginHandOff, SendWinner, SendInto, SendFails, RoundDone,
       roundVars
  <2>3. InRound' \subseteq InRound
    BY <2>2, SMTT(30) DEF InRound, Elements
  <2> QED
    BY <1>5, <1>8, <2>1, <2>3
<1>9. CASE Rest
  BY <1>6, <1>7, <1>8, <1>9 DEF Rest
<1>10. CASE AuctionElapse /\ late' = late
  <2>1. /\ DOMAIN buffer' = DOMAIN buffer
        /\ \A i \in DOMAIN buffer : buffer'[i].uuid = buffer[i].uuid
    BY <1>10, SameUuids
  <2>2. \A i \in DOMAIN buffer : buffer[i] \in PendingBundle
    BY BufferedType
  <2>3. \A i \in DOMAIN buffer : buffer'[i].sim = buffer[i].sim
    BY <1>10, <2>2 DEF AuctionElapse, AgeBuffer, PendingBundle
  <2>4. pc' = pc /\ toSim' = toSim /\ InRound' = InRound
    BY <1>10 DEF AuctionElapse, roundVars, InRound, Elements
  <2> QED
    BY <1>0, <1>10, <2>1, <2>3, <2>4 DEF Unsimulated
<1>11. CASE UNCHANGED <<buffer, pc, toSim, ranked, winners, lost, late>>
  <2>1. InRound' = InRound
    BY <1>11 DEF InRound, Elements
  <2> QED
    BY <1>0, <1>11, <2>1 DEF Unsimulated
<1>12. CASE Others
  BY <1>10, <1>11, <1>12 DEF Others, SubmitScore, ForwarderRecv, ForwarderExit, roundVars
<1>13. CASE UNCHANGED dryVars
  BY <1>11, <1>13 DEF dryVars, auctionVars, roundVars
<1> QED
  BY <1>1, <1>2, <1>4, <1>9, <1>12, <1>13 DEF DryNext

\* Only a bundle that was pushed after the snapshot of its round's tick goes
\* into the round without a dry run, for any bundles and any replies.
THEOREM OnlyLateGoUnsimulated == DrySpec => []UnsimulatedOnlyIfLate
<1>1. DryInit => Unsimulated
  BY SMTT(30) DEF DryInit, AuctionInit, Unsimulated, InRound, Elements
<1>2. Unsimulated => UnsimulatedOnlyIfLate
  BY DEF Unsimulated, UnsimulatedOnlyIfLate
<1> QED
  BY <1>1, <1>2, DryInvariant, DryRunImplementsAuction, AuctionInvariant, UnsimulatedInductive,
     PTL DEF DrySpec
-----------------------------------------------------------------------------
(* What a dry run charges *)

Least(lo) == lo \in TxUnits /\ \A x \in TxUnits : lo <= x
Most(hi) == hi \in TxUnits /\ \A x \in TxUnits : x <= hi

\* t is what n transactions may cost, in saturating u64.
CostOf(t, n) ==
  \A lo, hi \in TxUnits :
    Least(lo) /\ Most(hi) => t \in Saturate(n * lo) .. Saturate(n * hi)

\* A passed dry run of an entry has charged for all its transactions.
Charged(b) == ~atomic /\ b.sim.status = "ok" => CostOf(b.sim.units, bundles[b.uuid].txs)

\* A dry run in progress has charged for the transactions that are done.
CallCharged(c) ==
  ~atomic => /\ c.summary = "none" /\ c.left <= bundles[c.uuid].txs
             /\ CostOf(c.total, bundles[c.uuid].txs - c.left)

Entries == Elements(buffer) \cup InRound
Charges == (\A c \in call : CallCharged(c)) /\ \A b \in Entries : Charged(b)

\* The first transaction starts from nothing ...
LEMMA CostOfNone == CostOf(0, 0)
<1> SUFFICES ASSUME NEW lo \in TxUnits, NEW hi \in TxUnits
             PROVE  0 \in Saturate(0 * lo) .. Saturate(0 * hi)
  BY DEF CostOf
<1>1. lo \in Nat /\ hi \in Nat
  BY AuctionAssumption, DryRunAssumption, SMTT(30)
<1>2. 0 * lo = 0 /\ 0 * hi = 0
  BY <1>1, SMTT(30)
<1> QED
  BY <1>2, AuctionAssumption, SMTT(30) DEF Saturate

\* ... and every one adds its own units.
LEMMA CostOfOneMore ==
  ASSUME NEW n \in Nat, NEW t \in Nat, CostOf(t, n), NEW x \in TxUnits
  PROVE  CostOf(Saturate(t + x), n + 1)
<1> SUFFICES ASSUME NEW lo \in TxUnits, NEW hi \in TxUnits, Least(lo), Most(hi)
             PROVE  Saturate(t + x) \in Saturate((n + 1) * lo) .. Saturate((n + 1) * hi)
  BY DEF CostOf
<1>1. lo \in Nat /\ hi \in Nat /\ x \in Nat /\ MaxU64 \in Nat
  BY AuctionAssumption, DryRunAssumption, SMTT(30)
<1>2. lo <= x /\ x <= hi
  BY DEF Least, Most
<1>3. t \in Saturate(n * lo) .. Saturate(n * hi)
  BY DEF CostOf
<1> DEFINE a == n * lo
           b == n * hi
<1>4. a \in Nat /\ b \in Nat /\ (n + 1) * lo = a + lo /\ (n + 1) * hi = b + hi
  BY <1>1, SMTT(30)
<1>5. t \in Saturate(a) .. Saturate(b)
  BY <1>3
<1> HIDE DEF a, b
<1>6. Saturate(t + x) \in Saturate(a + lo) .. Saturate(b + hi)
  BY <1>1, <1>2, <1>4, <1>5, SMTT(30) DEF Saturate
<1> QED
  BY <1>4, <1>6

\* Apart from the outcomes that are set, an entry keeps what it is charged.
LEMMA EntriesKept ==
  ASSUME AuctionTypeOK, Control,
         (\E u \in Uuids : Push(u)) \/ Tick \/ Rest \/ Others \/ UNCHANGED auctionVars,
         NEW b \in Entries'
  PROVE  \/ b.sim.status = "none"
         \/ \E e \in Entries : e.uuid = b.uuid /\ e.sim = b.sim
<1> DEFINE Kept == \E e \in Entries : e.uuid = b.uuid /\ e.sim = b.sim
<1>0. ASSUME b \in Entries PROVE Kept
  BY <1>0
<1>1. ASSUME NEW u \in Uuids, SubmitPush(u) PROVE b.sim.status = "none" \/ Kept
  <2> DEFINE e == [uuid |-> u, tip |-> bundles[u].tip, est |-> EstCu(u), age |-> 0,
                   sim |-> NotSimulated]
  <2>1. buffer' = Append(buffer, e) /\ InRound' = InRound
    BY <1>1 DEF SubmitPush, roundVars, InRound, Elements
  <2>2. Elements(buffer') \subseteq Elements(buffer) \cup {e}
    BY <2>1, SMTT(30) DEF AuctionTypeOK, Elements
  <2>3. e.sim.status = "none"
    BY DEF NotSimulated
  <2> QED
    BY <1>0, <2>1, <2>2, <2>3 DEF Entries
<1>2. CASE AuctionElapse
  <2>1. InRound' = InRound
    BY <1>2 DEF AuctionElapse, roundVars, InRound, Elements
  <2>2. ASSUME NEW i \in DOMAIN buffer', b = buffer'[i] PROVE Kept
    <3>1. i \in DOMAIN buffer /\ buffer'[i].uuid = buffer[i].uuid
      BY <1>2, <2>2, SameUuids
    <3>2. buffer'[i].sim = buffer[i].sim
      BY <1>2, <3>1, BufferedType DEF AuctionElapse, AgeBuffer, PendingBundle
    <3> QED
      BY <2>2, <3>1, <3>2 DEF Entries, Elements
  <2> QED
    BY <1>0, <2>1, <2>2 DEF Entries, Elements
<1>3. CASE RankBundles
  <2>1. PICK p \in [DOMAIN ranked' -> DOMAIN buffer] :
          \A i \in DOMAIN ranked' : ranked'[i] = buffer[p[i]]
    BY <1>3, RankFacts
  <2>2. buffer' = <<>> /\ winners' = winners /\ lost' = lost
    BY <1>3 DEF RankBundles, RankInto
  <2>3. Elements(ranked') \subseteq Elements(buffer)
    BY <2>1, SMTT(30) DEF Elements
  <2> QED
    BY <1>0, <2>2, <2>3, SMTT(30) DEF Entries, InRound, Elements
<1>4. CASE Win \/ Lose
  <2>1. /\ ranked # <<>> /\ ranked' = Tail(ranked) /\ buffer' = buffer
        /\ \/ winners' = Append(winners, Head(ranked)) /\ lost' = lost
           \/ winners' = winners /\ lost' = lost \cup {Head(ranked)}
    BY <1>4 DEF Win, Lose
  <2>2. Head(ranked) \in Elements(ranked) /\ Elements(ranked') \subseteq Elements(ranked)
    BY <2>1, TakeHead, SMTT(30) DEF Elements
  <2>3. winners \in Seq(PendingBundle)
    BY DEF AuctionTypeOK
  <2>4. Elements(winners') \subseteq Elements(winners) \cup {Head(ranked)}
    BY <2>1, <2>3, SMTT(30) DEF Elements
  <2> QED
    BY <1>0, <2>1, <2>2, <2>4 DEF Entries, InRound
<1>5. CASE UNCHANGED buffer /\ ranked' = ranked /\ winners' \in {winners, <<>>} /\ lost' \in {lost, {}}
  BY <1>0, <1>5, SMTT(30) DEF Entries, InRound, Elements
<1> QED
  BY <1>1, <1>2, <1>3, <1>4, <1>5
    DEF Push, Tick, Rest, Others, SubmitScore, AuctionTick, RunAuctionEmpty, FinishAuction,
      BeginHandOff, SendWinner, SendInto, SendFails, RoundDone, ForwarderRecv, ForwarderExit,
      roundVars, auctionVars

\* The requests' contents are fixed.
LEMMA BundlesFixed == ASSUME [AuctionNext]_auctionVars PROVE bundles' = bundles
BY DEF AuctionNext, AuctionTask, SubmitScore, SubmitPush, AuctionElapse, AuctionTick,
  SetSimulation, RunAuctionEmpty, RankBundles, RankInto, Win, Lose, FinishAuction, BeginHandOff,
  SendWinner, SendInto, SendFails, RoundDone, ForwarderRecv, ForwarderExit, auctionVars

\* An outcome charges for every transaction of its bundle, after every step.
LEMMA ChargesInductive ==
  AuctionTypeOK /\ Control /\ Places /\ CallOK /\ Charges /\ [DryNext]_dryVars => Charges'
<1> SUFFICES ASSUME AuctionTypeOK, Control, Places, CallOK, Charges, [DryNext]_dryVars
             PROVE  Charges'
  OBVIOUS
<1>0. atomic' = atomic /\ bundles' = bundles
  <2>1. bundles' = bundles
    BY BundlesFixed, DryStepsAreAuctionSteps
  <2>2. atomic' = atomic
    BY DEF DryNext, Push, Tick, Rest, Others, Simulator, SimulateBundle, PerTxFails, PerTxDone,
      PerTxRuns, AtomicFails, AtomicAnswers, AtomicAdds, AtomicDone, Returns, simVars, dryVars
  <2> QED
    BY <2>1, <2>2
<1>c. /\ \A c : CallCharged(c)' <=> CallCharged(c)
      /\ \A b : Charged(b)' <=> Charged(b)
  BY <1>0, SMTT(30) DEF CallCharged, Charged, CostOf, Least, Most, Saturate
<1>1. ASSUME UNCHANGED auctionVars, \A c \in call' : CallCharged(c) PROVE Charges'
  <2>1. Entries' = Entries
    BY <1>1 DEF auctionVars, roundVars, Entries, InRound, Elements
  <2> QED
    BY <1>1, <1>c, <2>1 DEF Charges
<1>2. ASSUME NEW i \in DOMAIN buffer, SimulateBundle(i) PROVE Charges'
  <2> DEFINE u == buffer[i].uuid
             n == bundles[u].txs
             c == [uuid |-> u, left |-> n, total |-> 0, summary |-> "none"]
  <2>1. n \in Nat
    BY BufferedType, AuctionAssumption DEF AuctionTypeOK, PendingBundle
  <2>2. CallCharged(c)
    <3>1. n - n = 0 /\ n <= n
      BY <2>1, SMTT(30)
    <3> QED
      BY <3>1, CostOfNone DEF CallCharged
  <2>3. UNCHANGED auctionVars /\ call' = {c}
    BY <1>2 DEF SimulateBundle
  <2> QED
    BY <1>1, <2>2, <2>3
<1>3. ASSUME NEW c \in call, NEW units \in TxUnits, PerTxRuns(c, units) PROVE Charges'
  <2> DEFINE n == bundles[c.uuid].txs
             d == OneDone(c, Saturate(c.total + units))
  <2>1. UNCHANGED auctionVars /\ call' = {d} /\ ~atomic /\ c.left > 0
    BY <1>3 DEF PerTxRuns
  <2>2. /\ c.left \in Nat /\ c.total \in Nat /\ n \in Nat /\ c.left <= n /\ c.summary = "none"
        /\ CostOf(c.total, n - c.left)
    <3>1. c.uuid \in Uuids /\ c.left \in Nat /\ c.total \in Nat
      BY AuctionAssumption, SMTT(30) DEF CallOK, Calls
    <3>2. n \in Nat
      BY <3>1, AuctionAssumption DEF AuctionTypeOK
    <3>3. CallCharged(c)
      BY DEF Charges
    <3> QED
      BY <2>1, <3>1, <3>2, <3>3 DEF CallCharged
  <2>3. n - c.left \in Nat /\ n - (c.left - 1) = (n - c.left) + 1 /\ c.left - 1 <= n
    BY <2>2, SMTT(30)
  <2>4. CostOf(Saturate(c.total + units), (n - c.left) + 1)
    BY <2>2, <2>3, CostOfOneMore
  <2>5. d.uuid = c.uuid /\ d.left = c.left - 1 /\ d.summary = c.summary
        /\ d.total = Saturate(c.total + units)
    BY DEF OneDone
  <2>6. CallCharged(d)
    BY <2>2, <2>3, <2>4, <2>5 DEF CallCharged
  <2> QED
    BY <1>1, <2>1, <2>6
<1>4. ASSUME NEW c \in call, NEW units \in TxUnits, AtomicAdds(c, units) PROVE Charges'
  <2>1. atomic
    BY <1>4 DEF AtomicAdds, Charges, CallCharged
  <2> QED
    BY <1>1, <1>4, <2>1 DEF AtomicAdds, CallCharged
<1>5. ASSUME NEW c \in call, NEW status \in {"ok", "failed"}, NEW n \in ResultCounts,
             AtomicAnswers(c, status, n)
      PROVE  Charges'
  BY <1>1, <1>5 DEF AtomicAnswers, CallCharged
<1>6. ASSUME NEW c \in call, NEW status, NEW units, Returns(c, status, units),
             ~atomic /\ status = "ok" => CostOf(units, bundles[c.uuid].txs)
      PROVE  Charges'
  <2>1. PICK i \in DOMAIN buffer :
          buffer[i].uuid = c.uuid /\ SetSimulation(i, [status |-> status, units |-> units])
    BY <1>6 DEF Returns
  <2>2. /\ buffer' = [buffer EXCEPT ![i].sim = [status |-> status, units |-> units]]
        /\ InRound' = InRound
    BY <2>1 DEF SetSimulation, roundVars, InRound, Elements
  <2>3. \A j \in DOMAIN buffer : buffer[j] \in PendingBundle
    BY BufferedType
  <2>4. /\ DOMAIN buffer' = DOMAIN buffer /\ \A j \in DOMAIN buffer \ {i} : buffer'[j] = buffer[j]
        /\ buffer'[i] = [buffer[i] EXCEPT !.sim = [status |-> status, units |-> units]]
    BY <2>2 DEF AuctionTypeOK
  <2>5. /\ buffer'[i].sim = [status |-> status, units |-> units]
        /\ buffer'[i].uuid = c.uuid
    BY <2>1, <2>3, <2>4 DEF PendingBundle
  <2>6. Charged(buffer'[i])
    BY <1>6, <2>5, SMTT(30) DEF Charged
  <2>7. \A b \in Entries' : Charged(b)
    BY <2>2, <2>4, <2>6, SMTT(30) DEF Charges, Entries, Elements
  <2>8. call' = {}
    BY <1>6 DEF Returns
  <2> QED
    BY <1>c, <2>7, <2>8 DEF Charges
<1>7. ASSUME NEW c \in call, PerTxFails(c) \/ PerTxDone(c) \/ AtomicFails(c) \/ AtomicDone(c)
      PROVE  Charges'
  <2>1. CASE PerTxFails(c) \/ AtomicFails(c)
    BY <1>6, <2>1 DEF PerTxFails, AtomicFails
  <2>2. CASE AtomicDone(c)
    <3>1. atomic
      BY <2>2 DEF AtomicDone, Charges, CallCharged
    <3> QED
      BY <1>6, <2>2, <3>1 DEF AtomicDone
  <2>3. CASE PerTxDone(c)
    <3> DEFINE n == bundles[c.uuid].txs
    <3>1. ~atomic /\ c.left = 0 /\ Returns(c, "ok", c.total)
      BY <2>3 DEF PerTxDone
    <3>2. n \in Nat /\ CostOf(c.total, n - c.left)
      BY <3>1, AuctionAssumption DEF Charges, CallCharged, CallOK, Calls, AuctionTypeOK
    <3>3. n - c.left = n
      BY <3>1, <3>2, SMTT(30)
    <3> QED
      BY <1>6, <3>1, <3>2, <3>3
  <2> QED
    BY <1>7, <2>1, <2>2, <2>3
<1>8. CASE Simulator
  BY <1>2, <1>3, <1>4, <1>5, <1>7, <1>8 DEF Simulator
<1>9. ASSUME (\E u \in Uuids : Push(u)) \/ Tick \/ Rest \/ Others \/ UNCHANGED dryVars
      PROVE  Charges'
  <2>1. call' = call
    BY <1>9 DEF Push, Tick, Rest, Others, simVars, dryVars
  <2>2. UNCHANGED dryVars => UNCHANGED auctionVars
    BY DEF dryVars
  <2>3. ASSUME NEW b \in Entries' PROVE Charged(b)
    <3>1. CASE b.sim.status = "none"
      BY <3>1 DEF Charged
    <3>2. CASE \E e \in Entries : e.uuid = b.uuid /\ e.sim = b.sim
      BY <3>2 DEF Charges, Charged
    <3> QED
      BY <1>9, <2>2, <3>1, <3>2, EntriesKept
  <2> QED
    BY <1>c, <2>1, <2>3 DEF Charges
<1> QED
  BY <1>8, <1>9 DEF DryNext

\* A bundle that passes its dry run transaction by transaction is charged for
\* every one of them, whatever arrives or expires between the calls.
THEOREM EveryTxIsCharged == DrySpec => []ChargedForEveryTx
<1>1. DryInit => Charges
  BY SMTT(30) DEF DryInit, AuctionInit, Charges, Entries, InRound, Elements
<1>2. Charges => ChargedForEveryTx
  BY DEF Charges, Charged, CostOf, Least, Most, Entries, ChargedForEveryTx
<1> QED
  BY <1>1, <1>2, DryInvariant, DryRunImplementsAuction, AuctionInvariant, ChargesInductive,
     PTL DEF DrySpec
=============================================================================
