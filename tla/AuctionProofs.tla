--------------------------- MODULE AuctionProofs ---------------------------
(***************************************************************************)
(* The auction selects within its budget, by density, only bundles that    *)
(* are alive, and hands each winner on once: for any set of bundles, any   *)
(* tips, simulated or estimated compute units, TTL and channel capacity.   *)
(***************************************************************************)
EXTENDS Auction, FiniteSetTheorems, SequenceTheorems, WellFoundedInduction, TLAPS

\* Zenon unless a leaf names another prover: SMT for arithmetic, PTL for temporal logic.
USE Zenon

\* What the control point says about run_auction's locals.
Control ==
  /\ pc # "drain" => ranked = <<>>
  /\ pc = "drain" => buffer = <<>> /\ handed = 0
  /\ pc = "send" => handed < Len(winners)
  /\ pc \in {"idle", "sim"} =>
       winners = <<>> /\ lost = {} /\ used = 0 /\ handed = 0

-----------------------------------------------------------------------------
\* The estimate is a u64: the product saturates.
LEMMA EstCuType == ASSUME AuctionTypeOK, NEW u \in Uuids PROVE EstCu(u) \in 0 .. MaxU64
<1>1. bundles[u].txs \in Nat
  BY AuctionAssumption DEF AuctionTypeOK
<1> QED BY <1>1, AuctionAssumption, SMTT(30) DEF EstCu, Saturate

\* The compute units charged for a bundle are a u64.
LEMMA CuType ==
  ASSUME NEW b \in PendingBundle
  PROVE  Cu(b) \in Nat /\ Cu(b) <= MaxU64 /\ AtLeastOne(Cu(b)) \in 1 .. MaxU64
<1>1. b.est \in 0 .. MaxU64 /\ b.sim \in SimOutcome \cup {NotSimulated}
  BY DEF PendingBundle
<1>2. b.sim \in SimOutcome => b.sim.units \in 0 .. MaxU64
  BY AuctionAssumption DEF SimOutcome
<1>3. b.sim = NotSimulated => b.sim.status = "none"
  BY SMTT(30) DEF NotSimulated
<1>4. Cu(b) \in 0 .. MaxU64
  BY <1>1, <1>2, <1>3 DEF Cu
<1> QED BY <1>4, AuctionAssumption, SMTT(30) DEF AtLeastOne

\* What the buffer holds.
LEMMA BufferedType ==
  ASSUME AuctionTypeOK, NEW i \in DOMAIN buffer PROVE buffer[i] \in PendingBundle
BY ElementOfSeq, LenProperties, SMTT(30) DEF AuctionTypeOK

\* What retain and sort leave: buffer entries that are alive, each once, none
\* behind a sparser one.
LEMMA RankFacts ==
  ASSUME AuctionTypeOK, RankBundles
  PROVE  /\ ranked' \in Seq(PendingBundle)
         /\ \E p \in [DOMAIN ranked' -> DOMAIN buffer] :
              /\ \A i \in DOMAIN ranked' :
                   ranked'[i] = buffer[p[i]] /\ Retained(buffer[p[i]])
              /\ \A i, j \in DOMAIN ranked' : i < j =>
                   p[i] # p[j] /\ ~Denser(ranked'[j], ranked'[i])
<1> DEFINE keep == {i \in DOMAIN buffer : Retained(buffer[i])}
           n == Cardinality(keep)
<1>1. n \in Nat
  <2>1. DOMAIN buffer = 1 .. Len(buffer) /\ Len(buffer) \in Nat
    BY LenProperties DEF AuctionTypeOK
  <2>2. IsFiniteSet(1 .. Len(buffer))
    BY <2>1, FS_Interval, SMTT(30)
  <2>3. IsFiniteSet(keep)
    BY <2>1, <2>2, FS_Subset
  <2> QED BY <2>3, FS_CardinalityType
<1>2. PICK p \in [1 .. n -> keep] :
        IsRanking(p, keep) /\ ranked' = [i \in 1 .. n |-> buffer[p[i]]]
  BY DEF RankBundles, RankInto
<1>3. \A i \in 1 .. n : p[i] \in DOMAIN buffer /\ Retained(buffer[p[i]])
  BY <1>2
<1>4. \A i \in DOMAIN buffer : buffer[i] \in PendingBundle
  BY BufferedType
<1>5. ranked' \in [1 .. n -> PendingBundle]
  BY <1>2, <1>3, <1>4
<1>6. ranked' \in Seq(PendingBundle) /\ DOMAIN ranked' = 1 .. n
  BY <1>1, <1>5, SeqDef, ZenonT(30)
<1>7. p \in [DOMAIN ranked' -> DOMAIN buffer]
  BY <1>2, <1>6
<1>8. \A i, j \in 1 .. n : i < j =>
        p[i] # p[j] /\ ~Denser(ranked'[j], ranked'[i])
  BY <1>2 DEF IsRanking
<1>9. \A i \in DOMAIN ranked' : ranked'[i] = buffer[p[i]] /\ Retained(buffer[p[i]])
  BY <1>2, <1>3, <1>6
<1>10. \A i, j \in DOMAIN ranked' : i < j => p[i] # p[j] /\ ~Denser(ranked'[j], ranked'[i])
  BY <1>6, <1>8
<1> QED BY <1>6, <1>7, <1>9, <1>10

-----------------------------------------------------------------------------
\* Initially nothing is buffered or sent.
LEMMA InitTypeOK == AuctionInit => AuctionTypeOK /\ Control
BY AuctionAssumption, SMTT(30) DEF AuctionInit, AuctionTypeOK, Control

\* Every step preserves type correctness and the control invariant.
LEMMA NextTypeOK == AuctionTypeOK /\ Control /\ [AuctionNext]_auctionVars => AuctionTypeOK' /\ Control'
<1> SUFFICES ASSUME AuctionTypeOK, Control, [AuctionNext]_auctionVars PROVE AuctionTypeOK' /\ Control'
  OBVIOUS
<1> USE AuctionAssumption DEF roundVars, chanVars
<1>1. ASSUME NEW u \in Uuids, SubmitScore(u) PROVE AuctionTypeOK' /\ Control'
  <2>1. metrics' \in [received : Nat, won : Nat, dropped : Int]
    <3>1. metrics \in [received : Nat, won : Nat, dropped : Int]
      BY DEF AuctionTypeOK
    <3>2. metrics' = [metrics EXCEPT !.received = metrics.received + 1]
      BY <1>1 DEF SubmitScore
    <3>3. metrics.received + 1 \in Nat
      BY <3>1, SMTT(30)
    <3> QED BY ONLY <3>1, <3>2, <3>3, Zenon
  <2>2. handler' \in [Uuids -> {"idle", "scored", "submitted"}]
    BY <1>1 DEF AuctionTypeOK, SubmitScore
  <2> QED BY <1>1, <2>1, <2>2 DEF AuctionTypeOK, Control, SubmitScore
<1>2. ASSUME NEW u \in Uuids, SubmitPush(u) PROVE AuctionTypeOK' /\ Control'
  <2>1. [uuid |-> u, tip |-> bundles[u].tip, est |-> EstCu(u), age |-> 0,
         sim |-> NotSimulated] \in PendingBundle
    <3>1. bundles[u].tip \in 0 .. MaxU64 /\ EstCu(u) \in 0 .. MaxU64
      BY EstCuType DEF AuctionTypeOK
    <3>2. 0 \in 0 .. BundleTtl
      BY SMTT(30)
    <3> QED BY <3>1, <3>2 DEF PendingBundle
  <2>2. buffer' \in Seq(PendingBundle)
    BY <1>2, <2>1, AppendProperties, ZenonT(30) DEF AuctionTypeOK, SubmitPush
  <2> QED BY <1>2, <2>2 DEF AuctionTypeOK, Control, SubmitPush
<1>3. CASE AuctionElapse
  <2>1. \A i \in DOMAIN buffer : buffer[i] \in PendingBundle
    BY BufferedType
  <2>2. ASSUME NEW i \in DOMAIN buffer PROVE buffer'[i] \in PendingBundle
    <3>1. buffer'[i] = [buffer[i] EXCEPT !.age = IF @ < BundleTtl THEN @ + 1 ELSE @]
      BY <1>3 DEF AuctionElapse, AgeBuffer
    <3>2. (IF buffer[i].age < BundleTtl THEN buffer[i].age + 1 ELSE buffer[i].age)
            \in 0 .. BundleTtl
      BY <2>1, SMTT(30) DEF PendingBundle
    <3> QED BY <2>1, <3>1, <3>2 DEF PendingBundle
  <2>3. buffer' \in Seq(PendingBundle) /\ (buffer = <<>> => buffer' = <<>>)
    <3>1. DOMAIN buffer' = 1 .. Len(buffer) /\ Len(buffer) \in Nat
      BY <1>3, LenProperties DEF AuctionElapse, AgeBuffer, AuctionTypeOK
    <3>2. buffer' \in [1 .. Len(buffer) -> PendingBundle]
      BY <1>3, <2>2, LenProperties DEF AuctionElapse, AgeBuffer, AuctionTypeOK
    <3>3. buffer = <<>> => buffer' = <<>>
      BY <1>3, SMTT(30) DEF AuctionElapse, AgeBuffer
    <3> QED BY <3>1, <3>2, <3>3, SeqDef, SMTT(30)
  <2> QED BY <1>3, <2>3 DEF AuctionTypeOK, Control, AuctionElapse
<1>4. CASE AuctionTick
  <2>1. \A i \in DOMAIN buffer : buffer[i].uuid \in Uuids
    BY BufferedType DEF PendingBundle
  <2> QED BY <1>4, <2>1, SMTT(30) DEF AuctionTypeOK, Control, AuctionTick
<1>5. ASSUME NEW i \in DOMAIN buffer, NEW o \in SimOutcome, SetSimulation(i, o)
      PROVE  AuctionTypeOK' /\ Control'
  <2> DEFINE e == [buffer[i] EXCEPT !.sim = o]
  <2>1. e \in PendingBundle
    BY BufferedType DEF PendingBundle
  <2>2. buffer' = [buffer EXCEPT ![i] = e]
    BY ONLY <1>5, Zenon DEF SetSimulation
  <2>3. buffer' \in Seq(PendingBundle)
    <3>1. i \in 1 .. Len(buffer) /\ buffer \in Seq(PendingBundle)
      BY LenProperties DEF AuctionTypeOK
    <3> HIDE DEF e
    <3> QED BY <2>1, <2>2, <3>1, ExceptSeq
  <2> QED BY <1>5, <2>3 DEF AuctionTypeOK, Control, SetSimulation
<1>6. CASE RunAuctionEmpty
  BY <1>6 DEF AuctionTypeOK, Control, RunAuctionEmpty
<1>7. CASE RankBundles
  BY <1>7, RankFacts, LenProperties, EmptySeq
    DEF AuctionTypeOK, Control, RankBundles, RankInto
<1>8. CASE Win
  <2>1. Head(ranked) \in PendingBundle /\ Tail(ranked) \in Seq(PendingBundle)
    BY <1>8, HeadTailProperties DEF Win, AuctionTypeOK
  <2>2. winners' \in Seq(PendingBundle) /\ Len(winners') = Len(winners) + 1
    BY <1>8, <2>1, AppendProperties DEF Win, AuctionTypeOK
  <2>3. used' \in Nat
    <3>1. used' = used + Cu(Head(ranked))
      BY ONLY <1>8, Zenon DEF Win
    <3>2. used \in Nat /\ Cu(Head(ranked)) \in Nat
      BY <2>1, CuType DEF AuctionTypeOK
    <3> QED BY ONLY <3>1, <3>2, SMTT(30)
  <2> QED BY <1>8, <2>1, <2>2, <2>3, LenProperties, SMTT(30) DEF Win, AuctionTypeOK, Control
<1>9. CASE Lose
  <2>1. Head(ranked) \in PendingBundle /\ Tail(ranked) \in Seq(PendingBundle)
    BY <1>9, HeadTailProperties DEF Lose, AuctionTypeOK
  <2> QED BY <1>9, <2>1 DEF Lose, AuctionTypeOK, Control
<1>10. CASE FinishAuction
  <2>1. Len(winners) \in Nat
    BY LenProperties DEF AuctionTypeOK
  <2>2. metrics' \in [received : Nat, won : Nat, dropped : Int]
    <3>1. metrics \in [received : Nat, won : Nat, dropped : Int] /\ entered \in Nat
      BY DEF AuctionTypeOK
    <3>2. metrics' = [metrics EXCEPT
                        !.won = metrics.won + Len(winners),
                        !.dropped = metrics.dropped + (entered - Len(winners))]
      BY ONLY <1>10, Zenon DEF FinishAuction
    <3>3. /\ metrics.won + Len(winners) \in Nat
          /\ metrics.dropped + (entered - Len(winners)) \in Int
      BY <2>1, <3>1, SMTT(30)
    <3> QED BY ONLY <3>1, <3>2, <3>3, Zenon
  <2> QED BY <1>10, <2>2 DEF FinishAuction, AuctionTypeOK, Control
<1>11. CASE BeginHandOff
  BY <1>11 DEF BeginHandOff, AuctionTypeOK, Control
<1>12. CASE SendWinner
  <2>1. handed + 1 \in 1 .. Len(winners) /\ Len(winners) \in Nat
    <3>1. pc = "send"
      BY <1>12 DEF SendWinner, SendInto
    <3>2. handed \in 0 .. Len(winners) /\ handed < Len(winners) /\ Len(winners) \in Nat
      BY <3>1, LenProperties DEF AuctionTypeOK, Control
    <3> QED BY ONLY <3>2, SMTT(30)
  <2>2. winners[handed + 1].uuid \in Uuids
    <3>1. winners[handed + 1] \in PendingBundle
      BY <2>1, ElementOfSeq DEF AuctionTypeOK
    <3> QED BY <3>1 DEF PendingBundle
  <2>3. chan' \in Seq(Uuids) /\ Len(chan') = Len(chan) + 1 /\ Len(chan) \in Nat
    <3>1. chan' = Append(chan, winners[handed + 1].uuid) /\ chan \in Seq(Uuids)
      BY <1>12 DEF SendWinner, SendInto, AuctionTypeOK
    <3> QED BY ONLY <2>2, <3>1, AppendProperties, LenProperties, SMTT(30)
  <2>4. /\ handed' = handed + 1 /\ pc' = "hand" /\ ranked = <<>>
        /\ Len(chan) - taken < ChanCap /\ taken \in 0 .. Len(chan)
        /\ UNCHANGED <<bundles, handler, buffer, toSim, ranked, entered, used, winners, lost,
                       metrics, taken, fwdOpen>>
    BY <1>12 DEF SendWinner, SendInto, AuctionTypeOK, Control
  <2>5. /\ handed' \in 0 .. Len(winners')
        /\ taken' \in 0 .. Len(chan') /\ Len(chan') - taken' <= ChanCap
    BY ONLY <2>1, <2>3, <2>4, AuctionAssumption, SMTT(30)
  <2> QED BY <2>3, <2>4, <2>5 DEF AuctionTypeOK, Control
<1>13. CASE SendFails
  BY <1>13 DEF SendFails, AuctionTypeOK, Control
<1>14. CASE RoundDone
  BY <1>14, EmptySeq, SMTT(30) DEF RoundDone, AuctionTypeOK, Control
<1>15. CASE ForwarderRecv
  <2>1. Len(chan) \in Nat /\ taken \in 0 .. Len(chan) /\ taken < Len(chan) /\ taken' = taken + 1
    BY <1>15, LenProperties DEF ForwarderRecv, AuctionTypeOK
  <2>2. taken' \in 0 .. Len(chan) /\ Len(chan) - taken' <= Len(chan) - taken
    BY <2>1, SMTT(30)
  <2>3. Len(chan) - taken' <= ChanCap
    BY <2>1, <2>2, AuctionAssumption, SMTT(30) DEF AuctionTypeOK
  <2>4. UNCHANGED <<bundles, handler, buffer, pc, toSim, roundVars, metrics, chan, fwdOpen>>
    BY <1>15 DEF ForwarderRecv
  <2> QED BY <2>2, <2>3, <2>4 DEF AuctionTypeOK, Control, roundVars
<1>16. CASE ForwarderExit
  BY <1>16 DEF ForwarderExit, AuctionTypeOK, Control
<1>17. CASE UNCHANGED auctionVars
  BY <1>17 DEF auctionVars, AuctionTypeOK, Control
<1> QED
  BY <1>1, <1>2, <1>3, <1>4, <1>5, <1>6, <1>7, <1>8, <1>9, <1>10, <1>11, <1>12,
     <1>13, <1>14, <1>15, <1>16, <1>17 DEF AuctionNext, AuctionTask

\* The auction's state is always well typed, and the bundle channel never
\* holds more than its capacity.
THEOREM AuctionTypeCorrect == AuctionSpec => []AuctionTypeOK
BY InitTypeOK, NextTypeOK, PTL DEF AuctionSpec

-----------------------------------------------------------------------------
\* The order of the loop: what is still ranked is sorted, and nothing that is
\* still ranked is denser than what has won.
RankOrder ==
  /\ \A i, j \in DOMAIN ranked : i < j => ~Denser(ranked[j], ranked[i])
  /\ \A i, j \in DOMAIN winners : i < j => ~Denser(winners[j], winners[i])
  /\ \A i \in DOMAIN winners, j \in DOMAIN ranked : ~Denser(ranked[j], winners[i])

Selection ==
  used <= CuBudget /\ LosersDoNotFit /\ OnlyLiveBundlesCompete /\ RankOrder

\* The two facts about taking the head of the ranking.
LEMMA TakeHead ==
  ASSUME AuctionTypeOK, ranked # <<>>
  PROVE  /\ 1 \in DOMAIN ranked /\ Head(ranked) = ranked[1]
         /\ Head(ranked) \in PendingBundle
         /\ Tail(ranked) \in Seq(PendingBundle)
         /\ \A i \in DOMAIN Tail(ranked) :
              i + 1 \in DOMAIN ranked /\ Tail(ranked)[i] = ranked[i + 1] /\ i \in Nat \ {0}
BY HeadTailProperties, LenProperties, EmptySeq, SMTT(30) DEF AuctionTypeOK

\* An entry of the winners after a win was there before, or is the new one.
LEMMA WonEntry ==
  ASSUME AuctionTypeOK, Win, NEW i \in DOMAIN winners'
  PROVE  \/ i \in DOMAIN winners /\ winners'[i] = winners[i]
         \/ /\ i = Len(winners) + 1
            /\ \A j \in DOMAIN winners : j < i
            /\ winners'[i] = Head(ranked)
<1>1. winners' = Append(winners, Head(ranked)) /\ winners \in Seq(PendingBundle)
  BY DEF Win, AuctionTypeOK
<1>2. Head(ranked) \in PendingBundle
  BY TakeHead DEF Win
<1>3. /\ Len(winners') = Len(winners) + 1 /\ winners' \in Seq(PendingBundle)
      /\ \A j \in 1 .. Len(winners) : winners'[j] = winners[j]
      /\ winners'[Len(winners) + 1] = Head(ranked)
  BY ONLY <1>1, <1>2, AppendProperties, SMTT(30)
<1>4. /\ DOMAIN winners = 1 .. Len(winners) /\ Len(winners) \in Nat
      /\ DOMAIN winners' = 1 .. Len(winners')
  BY <1>1, <1>3, LenProperties
<1> QED BY ONLY <1>3, <1>4, i \in DOMAIN winners', SMTT(30)

\* A bundle that fits, fits without saturation; one that does not, does not.
LEMMA FitsExactly ==
  ASSUME AuctionTypeOK, NEW b \in PendingBundle
  PROVE  Fits(b) <=> used + Cu(b) <= CuBudget
BY CuType, AuctionAssumption, SMTT(30) DEF Fits, Saturate, AuctionTypeOK

\* Every step preserves the selection invariant.
LEMMA NextSelection ==
  AuctionTypeOK /\ Control /\ Selection /\ [AuctionNext]_auctionVars => Selection'
<1> SUFFICES ASSUME AuctionTypeOK, Control, Selection, [AuctionNext]_auctionVars PROVE Selection'
  OBVIOUS
<1> USE AuctionAssumption DEF Selection, LosersDoNotFit, OnlyLiveBundlesCompete,
      RankOrder, InRound, Elements
<1>0. CASE UNCHANGED <<ranked, winners, lost, used>>
  BY <1>0
<1>1. CASE RankBundles
  <2>1. winners' = <<>> /\ lost' = {} /\ used' = 0
    BY <1>1 DEF RankBundles, RankInto, Control
  <2>2. \A i \in DOMAIN ranked' : Retained(ranked'[i])
    BY <1>1, RankFacts
  <2>3. \A i, j \in DOMAIN ranked' : i < j => ~Denser(ranked'[j], ranked'[i])
    BY <1>1, RankFacts
  <2> QED BY <2>1, <2>2, <2>3, SMTT(30) DEF Retained, FailedSimulation
<1>2. CASE Win
  <2>1. /\ ranked # <<>> /\ Fits(Head(ranked)) /\ ranked' = Tail(ranked)
        /\ used' = used + Cu(Head(ranked)) /\ lost' = lost
    BY ONLY <1>2, Zenon DEF Win
  <2>2. used' <= CuBudget
    BY <2>1, TakeHead, FitsExactly
  <2>3. LosersDoNotFit'
    <3> SUFFICES ASSUME NEW b \in lost PROVE used' + Cu(b) > CuBudget
      BY <2>1
    <3>1. Cu(Head(ranked)) \in Nat /\ Cu(b) \in Nat /\ used \in Nat
      BY <2>1, TakeHead, CuType DEF AuctionTypeOK
    <3>2. used + Cu(b) > CuBudget
      OBVIOUS
    <3> QED BY ONLY <2>1, <3>1, <3>2, AuctionAssumption, SMTT(30)
  <2>4. OnlyLiveBundlesCompete'
    BY <1>2, <2>1, TakeHead, WonEntry, SMTT(30)
  <2>5. \A i, j \in DOMAIN ranked' : i < j => ~Denser(ranked'[j], ranked'[i])
    BY <2>1, TakeHead, SMTT(30)
  <2>6. \A i, j \in DOMAIN winners' : i < j => ~Denser(winners'[j], winners'[i])
    <3> SUFFICES ASSUME NEW i \in DOMAIN winners', NEW j \in DOMAIN winners', i < j
                 PROVE  ~Denser(winners'[j], winners'[i])
      OBVIOUS
    <3>1. i \in Nat /\ j \in Nat
      <4>1. winners \in Seq(PendingBundle) /\ Head(ranked) \in PendingBundle
        BY <2>1, TakeHead DEF AuctionTypeOK
      <4>2. winners' = Append(winners, Head(ranked))
        BY ONLY <1>2, Zenon DEF Win
      <4> QED BY ONLY <4>1, <4>2, AppendProperties, LenProperties, SMTT(30)
    <3>2. i \in DOMAIN winners /\ winners'[i] = winners[i]
      BY <1>2, <3>1, WonEntry, SMTT(30)
    <3>3. CASE j \in DOMAIN winners /\ winners'[j] = winners[j]
      BY <3>2, <3>3
    <3>4. CASE winners'[j] = Head(ranked)
      BY <2>1, <3>2, <3>4, TakeHead
    <3> QED BY <1>2, <3>3, <3>4, WonEntry
  <2>7. \A i \in DOMAIN winners', j \in DOMAIN ranked' :
          ~Denser(ranked'[j], winners'[i])
    BY <1>2, <2>1, TakeHead, WonEntry, SMTT(30)
  <2> QED BY <2>2, <2>3, <2>4, <2>5, <2>6, <2>7
<1>3. CASE Lose
  <2>1. /\ ranked # <<>> /\ ~Fits(Head(ranked)) /\ ranked' = Tail(ranked)
        /\ used' = used /\ winners' = winners /\ lost' = lost \cup {Head(ranked)}
    BY ONLY <1>3, Zenon DEF Lose
  <2>2. LosersDoNotFit'
    <3> SUFFICES ASSUME NEW b \in lost \cup {Head(ranked)}
                 PROVE  used + Cu(b) > CuBudget
      BY <2>1
    <3>1. CASE b \in lost
      BY <3>1
    <3>2. CASE b = Head(ranked)
      <4>1. b \in PendingBundle /\ ~(used + Cu(b) <= CuBudget)
        BY <2>1, <3>2, TakeHead, FitsExactly
      <4>2. Cu(b) \in Nat /\ used \in Nat
        BY <4>1, CuType DEF AuctionTypeOK
      <4> QED BY ONLY <4>1, <4>2, AuctionAssumption, SMTT(30)
    <3> QED BY <3>1, <3>2
  <2>3. OnlyLiveBundlesCompete'
    BY <2>1, TakeHead, SMTT(30)
  <2>4. RankOrder'
    BY <2>1, TakeHead, SMTT(30)
  <2> QED BY <2>1, <2>2, <2>3, <2>4
<1>4. CASE RoundDone
  BY <1>4, SMTT(30) DEF RoundDone, Control
<1>5. CASE UNCHANGED auctionVars
  BY <1>0, <1>5 DEF auctionVars, roundVars
<1> QED
  BY <1>0, <1>1, <1>2, <1>3, <1>4, <1>5
    DEF AuctionNext, AuctionTask, SubmitScore, SubmitPush, AuctionElapse, AuctionTick,
      SetSimulation, RunAuctionEmpty, FinishAuction, BeginHandOff, SendWinner,
      SendInto, SendFails, ForwarderRecv, ForwarderExit, roundVars

-----------------------------------------------------------------------------
UuidsOf(s) == {s[i].uuid : i \in DOMAIN s}
UuidSet(S) == {b.uuid : b \in S}
Submitted == {u \in Uuids : handler[u] = "submitted"}

\* No uuid is held twice by one place ...
HeldOnce(s) == \A i, j \in DOMAIN s : s[i].uuid = s[j].uuid => i = j

\* ... and a bundle is in one place at a time: on its way into the auction,
\* buffered, being ranked, lost, or won - and then sent only once handed on.
Places ==
  /\ HeldOnce(buffer) /\ HeldOnce(ranked) /\ HeldOnce(winners)
  /\ \A i, j \in DOMAIN chan : chan[i] = chan[j] => i = j
  /\ UuidsOf(buffer) \cup UuidsOf(ranked) \cup UuidsOf(winners) \cup UuidSet(lost)
       \cup Elements(chan) \subseteq Submitted
  /\ \A u \in UuidsOf(buffer) :
       u \notin UuidsOf(ranked) \cup UuidsOf(winners) \cup UuidSet(lost) \cup Elements(chan)
  /\ \A u \in UuidsOf(ranked) :
       u \notin UuidsOf(winners) \cup UuidSet(lost) \cup Elements(chan)
  /\ \A u \in UuidSet(lost) : u \notin UuidsOf(winners) \cup Elements(chan)
  /\ \A i \in DOMAIN winners : handed < i => winners[i].uuid \notin Elements(chan)

\* Empty places hold nothing.
LEMMA NothingHeld ==
  HeldOnce(<<>>) /\ UuidsOf(<<>>) = {} /\ UuidSet({}) = {} /\ Elements(<<>>) = {}
<1>1. DOMAIN <<>> = {}
  BY SMTT(30)
<1> QED BY <1>1 DEF HeldOnce, UuidsOf, UuidSet, Elements

\* Initially no bundle is anywhere.
LEMMA InitPlaces == AuctionInit => Places
<1> SUFFICES ASSUME AuctionInit PROVE Places
  OBVIOUS
<1>1. buffer = <<>> /\ ranked = <<>> /\ winners = <<>> /\ lost = {} /\ chan = <<>>
  BY DEF AuctionInit
<1>2. DOMAIN chan = {} /\ DOMAIN winners = {}
  BY <1>1, SMTT(30)
<1> QED BY <1>1, <1>2, NothingHeld DEF Places

\* Recording an outcome or growing older does not change whose entry it is.
LEMMA SameUuids ==
  ASSUME AuctionTypeOK, AuctionElapse \/ \E k \in DOMAIN buffer, o \in SimOutcome : SetSimulation(k, o)
  PROVE  /\ DOMAIN buffer' = DOMAIN buffer
         /\ \A i \in DOMAIN buffer : buffer'[i].uuid = buffer[i].uuid
<1>1. CASE AuctionElapse
  <2>1. \A i \in DOMAIN buffer : buffer[i] \in PendingBundle
    BY BufferedType
  <2> QED BY <1>1, <2>1 DEF AuctionElapse, AgeBuffer, PendingBundle
<1>2. ASSUME NEW k \in DOMAIN buffer, NEW o \in SimOutcome, SetSimulation(k, o)
      PROVE  /\ DOMAIN buffer' = DOMAIN buffer
             /\ \A i \in DOMAIN buffer : buffer'[i].uuid = buffer[i].uuid
  <2>1. \A i \in DOMAIN buffer : buffer[i] \in PendingBundle
    BY BufferedType
  <2>2. buffer' = [buffer EXCEPT ![k].sim = o]
    BY <1>2 DEF SetSimulation
  <2> QED BY <2>1, <2>2, LenProperties DEF PendingBundle, AuctionTypeOK
<1> QED BY <1>1, <1>2

\* The bundle at the head of the ranking leaves it, and only that one.
LEMMA HeadLeaves ==
  ASSUME AuctionTypeOK, ranked # <<>>, HeldOnce(ranked), ranked' = Tail(ranked)
  PROVE  /\ HeldOnce(ranked') /\ UuidsOf(ranked') \subseteq UuidsOf(ranked)
         /\ Head(ranked).uuid \in UuidsOf(ranked) \ UuidsOf(ranked')
<1>1. /\ 1 \in DOMAIN ranked /\ Head(ranked) = ranked[1]
      /\ \A i \in DOMAIN ranked' :
           i + 1 \in DOMAIN ranked /\ ranked'[i] = ranked[i + 1] /\ i \in Nat \ {0}
  BY TakeHead
<1>2. \A i, j \in DOMAIN ranked : ranked[i].uuid = ranked[j].uuid => i = j
  BY DEF HeldOnce
<1> QED BY ONLY <1>1, <1>2, SMTT(30) DEF HeldOnce, UuidsOf

\* Every step keeps every bundle in one place.
LEMMA NextPlaces == AuctionTypeOK /\ Control /\ Places /\ [AuctionNext]_auctionVars => Places'
<1> SUFFICES ASSUME AuctionTypeOK, Control, Places, [AuctionNext]_auctionVars PROVE Places'
  OBVIOUS
<1> USE DEF Places
<1>0. ASSUME UNCHANGED <<buffer, ranked, winners, lost, handed, chan>>,
             Submitted \subseteq Submitted'
      PROVE  Places'
  BY <1>0
<1>e. HeldOnce(<<>>) /\ UuidsOf(<<>>) = {} /\ UuidSet({}) = {}
  BY NothingHeld
<1>1. ASSUME NEW u \in Uuids, SubmitScore(u) PROVE Places'
  <2>1. Submitted \subseteq Submitted'
    BY <1>1 DEF SubmitScore, AuctionTypeOK, Submitted
  <2> QED BY <1>0, <1>1, <2>1 DEF SubmitScore, roundVars, chanVars
<1>2. ASSUME NEW u \in Uuids, SubmitPush(u) PROVE Places'
  <2> DEFINE e == [uuid |-> u, tip |-> bundles[u].tip, est |-> EstCu(u),
                   age |-> 0, sim |-> NotSimulated]
  <2>1. u \notin Submitted /\ Submitted' = Submitted \cup {u}
    BY <1>2, SMTT(30) DEF SubmitPush, AuctionTypeOK, Submitted
  <2>2. buffer' = Append(buffer, e)
    BY ONLY <1>2, Zenon DEF SubmitPush
  <2>3. \A i \in DOMAIN buffer' :
          \/ i \in DOMAIN buffer /\ buffer'[i] = buffer[i]
          \/ i = Len(buffer) + 1 /\ buffer'[i].uuid = u
    BY <2>2, LenProperties, SMTT(30) DEF AuctionTypeOK
  <2>4. UNCHANGED <<ranked, winners, lost, handed, chan>>
    BY ONLY <1>2, Zenon DEF SubmitPush, roundVars, chanVars
  <2>5. HeldOnce(buffer') /\ UuidsOf(buffer') \subseteq UuidsOf(buffer) \cup {u}
    BY <2>1, <2>3, SMTT(30) DEF HeldOnce, UuidsOf
  <2> QED BY <2>1, <2>4, <2>5, ZenonT(30)
<1>3. CASE AuctionElapse \/ \E k \in DOMAIN buffer, o \in SimOutcome : SetSimulation(k, o)
  <2>1. UNCHANGED <<handler, ranked, winners, lost, handed, chan>>
    BY ONLY <1>3, Zenon DEF AuctionElapse, SetSimulation, roundVars, chanVars
  <2>2. HeldOnce(buffer') /\ UuidsOf(buffer') = UuidsOf(buffer)
    BY <1>3, SameUuids, SMTT(30) DEF HeldOnce, UuidsOf
  <2> QED BY <2>1, <2>2, ZenonT(30) DEF Submitted
<1>4. CASE RankBundles
  <2>1. /\ buffer' = <<>> /\ winners' = <<>> /\ lost' = {}
        /\ chan' = chan /\ handler' = handler
    BY <1>4 DEF RankBundles, RankInto, Control, chanVars
  <2>2. PICK p \in [DOMAIN ranked' -> DOMAIN buffer] :
          /\ \A i \in DOMAIN ranked' : ranked'[i] = buffer[p[i]]
          /\ \A i, j \in DOMAIN ranked' : i < j => p[i] # p[j]
    BY <1>4, RankFacts, SMTT(30)
  <2>3. \A i \in DOMAIN ranked' : i \in Nat
    BY <1>4, RankFacts, LenProperties, SMTT(30)
  <2>4. HeldOnce(ranked') /\ UuidsOf(ranked') \subseteq UuidsOf(buffer)
    BY <2>2, <2>3, SMTT(30) DEF HeldOnce, UuidsOf
  <2> QED BY <1>e, <2>1, <2>4, EmptySeq, SMTT(30) DEF Submitted
<1>5. CASE Win
  <2>1. /\ ranked # <<>> /\ ranked' = Tail(ranked) /\ handed = 0
        /\ UNCHANGED <<handler, buffer, lost, handed, chan>>
    BY ONLY <1>5, Control, Zenon DEF Win, Control, chanVars
  <2>2. HeldOnce(ranked') /\ UuidsOf(ranked') \subseteq UuidsOf(ranked)
        /\ Head(ranked).uuid \in UuidsOf(ranked) \ UuidsOf(ranked')
    BY <2>1, HeadLeaves
  <2>3. /\ HeldOnce(winners')
        /\ UuidsOf(winners') \subseteq UuidsOf(winners) \cup {Head(ranked).uuid}
    <3>1. Head(ranked).uuid \notin UuidsOf(winners)
      BY <2>2
    <3>2. \A i \in DOMAIN winners' :
            \/ i \in DOMAIN winners /\ winners'[i] = winners[i]
            \/ i = Len(winners) + 1 /\ winners'[i] = Head(ranked)
      BY <1>5, WonEntry
    <3>3. HeldOnce(winners)
      OBVIOUS
    <3> QED BY ONLY <3>1, <3>2, <3>3, ZenonT(30) DEF HeldOnce, UuidsOf
  <2>4. \A i \in DOMAIN winners : handed < i
    <3>1. DOMAIN winners = 1 .. Len(winners) /\ Len(winners) \in Nat
      BY LenProperties DEF AuctionTypeOK
    <3> QED BY ONLY <2>1, <3>1, SMTT(30)
  <2>5. \A i \in DOMAIN winners' : winners'[i].uuid \notin Elements(chan)
    BY <1>5, <2>2, <2>4, WonEntry
  <2> QED BY <2>1, <2>2, <2>3, <2>5, SMTT(30) DEF Submitted
<1>6. CASE Lose
  <2>1. ranked # <<>> /\ ranked' = Tail(ranked) /\ lost' = lost \cup {Head(ranked)}
    BY ONLY <1>6, Zenon DEF Lose
  <2>u. UNCHANGED <<handler, buffer, winners, handed, chan>>
    BY ONLY <1>6, Zenon DEF Lose, chanVars
  <2>2. HeldOnce(ranked') /\ UuidsOf(ranked') \subseteq UuidsOf(ranked)
        /\ Head(ranked).uuid \in UuidsOf(ranked) \ UuidsOf(ranked')
    BY <2>1, HeadLeaves
  <2>3. UuidSet(lost') = UuidSet(lost) \cup {Head(ranked).uuid}
    BY ONLY <2>1, Zenon DEF UuidSet
  <2> QED BY <2>u, <2>2, <2>3, SMTT(30) DEF Submitted
<1>7. CASE SendWinner
  <2> DEFINE u == winners[handed + 1].uuid
  <2>1. /\ chan' = Append(chan, u) /\ handed' = handed + 1
        /\ UNCHANGED <<handler, buffer, ranked, winners, lost>>
    BY ONLY <1>7, Zenon DEF SendWinner, SendInto
  <2>2. handed \in Nat /\ handed + 1 \in DOMAIN winners /\ u \in Uuids
        /\ \A i \in DOMAIN winners : i \in Nat
    <3>1. handed + 1 \in 1 .. Len(winners) /\ handed \in Nat
      <4>1. pc = "send"
        BY <1>7 DEF SendWinner, SendInto
      <4>2. handed \in 0 .. Len(winners) /\ handed < Len(winners) /\ Len(winners) \in Nat
        BY <4>1, LenProperties DEF AuctionTypeOK, Control
      <4> QED BY ONLY <4>2, SMTT(30)
    <3>2. winners[handed + 1] \in PendingBundle
      BY <3>1, ElementOfSeq DEF AuctionTypeOK
    <3>3. DOMAIN winners = 1 .. Len(winners) /\ Len(winners) \in Nat
      BY LenProperties DEF AuctionTypeOK
    <3>4. winners[handed + 1].uuid \in Uuids
      BY <3>2 DEF PendingBundle
    <3>5. \A i \in DOMAIN winners : i \in Nat
      BY ONLY <3>3, SMTT(30)
    <3> QED BY <3>1, <3>3, <3>4, <3>5
  <2>3. \A i \in DOMAIN chan' :
          \/ i \in DOMAIN chan /\ chan'[i] = chan[i]
          \/ i = Len(chan) + 1 /\ chan'[i] = u
    <3>1. chan \in Seq(Uuids)
      BY DEF AuctionTypeOK
    <3> QED BY ONLY <2>1, <2>2, <3>1, LenProperties, SMTT(30)
  <2>4. u \notin Elements(chan) /\ u \in UuidsOf(winners)
    BY <2>2, SMTT(30) DEF UuidsOf
  <2>5. Elements(chan') \subseteq Elements(chan) \cup {u}
    BY <2>3 DEF Elements
  <2>6. \A i, j \in DOMAIN chan' : chan'[i] = chan'[j] => i = j
    BY <2>3, <2>4 DEF Elements
  <2>7. \A i \in DOMAIN winners : handed + 1 < i => winners[i].uuid # u
    BY <2>2, SMTT(30) DEF HeldOnce
  <2>8. \A i \in DOMAIN winners' : handed' < i => winners'[i].uuid \notin Elements(chan')
    <3>1. \A i \in DOMAIN winners : handed < i => winners[i].uuid \notin Elements(chan)
      OBVIOUS
    <3>2. \A i \in DOMAIN winners : handed + 1 < i => handed < i
      BY ONLY <2>2, SMTT(30)
    <3>3. \A i \in DOMAIN winners : handed + 1 < i => winners[i].uuid \notin Elements(chan')
      BY ONLY <2>5, <2>7, <3>1, <3>2, Zenon
    <3> QED BY ONLY <2>1, <3>3, Zenon
  <2> QED BY <2>1, <2>4, <2>5, <2>6, <2>8, SMTT(30) DEF Submitted
<1>8. CASE RoundDone
  <2>1. /\ winners' = <<>> /\ lost' = {}
        /\ UNCHANGED <<handler, buffer, ranked, chan>>
    BY ONLY <1>8, Zenon DEF RoundDone, chanVars
  <2>2. DOMAIN winners' = {}
    BY ONLY <2>1, SMTT(30)
  <2> QED BY <1>e, <2>1, <2>2, ZenonT(30) DEF Submitted
<1>9. CASE UNCHANGED <<handler, buffer, ranked, winners, lost, handed, chan>>
  <2>1. Submitted' = Submitted
    BY ONLY <1>9, Zenon DEF Submitted
  <2> QED BY <1>0, <1>9, <2>1
<1> QED
  BY <1>1, <1>2, <1>3, <1>4, <1>5, <1>6, <1>7, <1>8, <1>9
    DEF AuctionNext, AuctionTask, AuctionTick, RunAuctionEmpty, FinishAuction,
      BeginHandOff, SendFails, ForwarderRecv, ForwarderExit, roundVars, chanVars,
      auctionVars

-----------------------------------------------------------------------------
\* The inductive invariant behind the next four theorems.
LEMMA AuctionInvariant == AuctionSpec => [](AuctionTypeOK /\ Control /\ Selection /\ Places)
<1>1. AuctionInit => AuctionTypeOK /\ Control /\ Selection /\ Places
  <2>1. AuctionInit => Selection
    <3>1. AuctionInit => ranked = <<>> /\ winners = <<>> /\ lost = {} /\ used = 0
      BY DEF AuctionInit
    <3>2. AuctionInit => LosersDoNotFit /\ RankOrder
      BY <3>1, SMTT(30) DEF LosersDoNotFit, RankOrder
    <3>3. AuctionInit => OnlyLiveBundlesCompete
      BY <3>1, SMTT(30) DEF OnlyLiveBundlesCompete, InRound, Elements
    <3> QED BY <3>1, <3>2, <3>3, AuctionAssumption, SMTT(30) DEF Selection
  <2> QED BY <2>1, InitPlaces, InitTypeOK
<1>2. AuctionTypeOK /\ Control /\ Selection /\ Places /\ [AuctionNext]_auctionVars
        => (AuctionTypeOK /\ Control /\ Selection /\ Places)'
  BY NextTypeOK, NextSelection, NextPlaces
<1> QED BY <1>1, <1>2, PTL DEF AuctionSpec

\* run_auction never charges more than cu_budget, and a bundle loses only if
\* it does not fit beside the winners.
THEOREM GreedyWithinBudget == AuctionSpec => [](used <= CuBudget /\ LosersDoNotFit)
<1>1. Selection => used <= CuBudget /\ LosersDoNotFit
  BY DEF Selection
<1> QED BY <1>1, AuctionInvariant, PTL

\* No expired bundle and none that failed simulation is ranked or wins.
THEOREM OnlyLiveCompete == AuctionSpec => []OnlyLiveBundlesCompete
<1>1. Selection => OnlyLiveBundlesCompete
  BY DEF Selection
<1> QED BY <1>1, AuctionInvariant, PTL

\* What an entry is sorted by is a multiple of the smallest f64, and the sort never
\* takes an entry for the denser of two when it is the sparser by one part in
\* Accuracy.
LEMMA DensityType == ASSUME NEW b \in PendingBundle PROVE Density(b) \in Nat
BY CuType, QuotientAssumption DEF Density, PendingBundle

LEMMA DensityTells ==
  ASSUME NEW a \in PendingBundle, NEW b \in PendingBundle, ~Denser(b, a)
  PROVE  a.tip * AtLeastOne(Cu(b)) * (Accuracy + 1) >= b.tip * AtLeastOne(Cu(a)) * Accuracy
<1> DEFINE c(x) == AtLeastOne(Cu(x))
<1>1. /\ a.tip \in 0 .. MaxU64 /\ b.tip \in 0 .. MaxU64
      /\ c(a) \in 1 .. MaxU64 /\ c(b) \in 1 .. MaxU64
  BY CuType DEF PendingBundle
<1>2. ~(Quotient(b.tip, c(b)) > Quotient(a.tip, c(a)))
  BY DEF Denser, Density
<1> HIDE DEF c
<1>3. ~(b.tip * c(a) * Accuracy > a.tip * c(b) * (Accuracy + 1))
  BY <1>1, <1>2, QuotientAssumption
<1>4. a.tip \in Int /\ b.tip \in Int /\ c(a) \in Int /\ c(b) \in Int /\ Accuracy \in Int
  BY <1>1, QuotientAssumption, SMTT(30)
<1>5. a.tip * c(b) * (Accuracy + 1) >= b.tip * c(a) * Accuracy
  BY ONLY <1>3, <1>4, SMTT(30)
<1> QED BY <1>5 DEF c

\* The winners leave the auction by decreasing tip per compute unit, as far as
\* f64 quotients can tell two densities apart.
THEOREM WinnersAreRanked == AuctionSpec => []WinnersRanked
<1>1. AuctionTypeOK /\ Selection => WinnersRanked
  <2> SUFFICES ASSUME AuctionTypeOK, Selection,
                      NEW i \in DOMAIN winners, NEW j \in DOMAIN winners, i < j
               PROVE  winners[i].tip * AtLeastOne(Cu(winners[j])) * (Accuracy + 1)
                        >= winners[j].tip * AtLeastOne(Cu(winners[i])) * Accuracy
    BY DEF WinnersRanked
  <2>1. winners[i] \in PendingBundle /\ winners[j] \in PendingBundle
    BY ElementOfSeq, LenProperties, SMTT(30) DEF AuctionTypeOK
  <2>2. ~Denser(winners[j], winners[i])
    BY DEF Selection, RankOrder
  <2> QED BY <2>1, <2>2, DensityTells
<1> QED BY <1>1, AuctionInvariant, PTL

\* No bundle is sent to the validators twice, and none that lost is sent.
THEOREM WinnersAreSentOnce == AuctionSpec => []SentOnce
<1>1. Places => SentOnce
  BY DEF Places, SentOnce, UuidSet
<1> QED BY <1>1, AuctionInvariant, PTL
-----------------------------------------------------------------------------
(* What the winners cost *)

\* A set of numbers up to L that is not empty has a least element: the interval
\* below it is minimal among those that end in the set.
LEMMA LeastOf ==
  ASSUME NEW L \in Nat, NEW B \in SUBSET (0 .. L), B # {}
  PROVE  \E m \in B : \A n \in B : m <= n
<1> DEFINE T == {0 .. n : n \in B}
<1>1. IsFiniteSet(0 .. L)
  BY FS_Interval, SMTT(30)
<1>2. T \subseteq FiniteSubsetsOf(0 .. L)
  <2> SUFFICES ASSUME NEW n \in B PROVE 0 .. n \in FiniteSubsetsOf(0 .. L)
    OBVIOUS
  <2>1. 0 .. n \subseteq 0 .. L
    BY SMTT(30)
  <2> QED
    BY <1>1, <2>1, FS_Subset DEF FiniteSubsetsOf
<1>3. T # {}
  OBVIOUS
<1>4. PICK X \in T : \A Y \in T : <<Y, X>> \notin StrictSubsetOrdering(0 .. L)
  BY <1>2, <1>3, FS_StrictSubsetOrderingWellFounded, WFMin
<1>5. PICK m \in B : X = 0 .. m
  BY <1>4
<1>6. ASSUME NEW n \in B, n < m PROVE FALSE
  <2>1. 0 .. n \in SUBSET (0 .. L) /\ 0 .. m \in SUBSET (0 .. L)
    BY SMTT(30)
  <2>2. 0 .. n \subseteq 0 .. m /\ 0 .. n # 0 .. m
    BY <1>6, SMTT(30)
  <2>3. <<0 .. n, 0 .. m>> \in StrictSubsetOrdering(0 .. L)
    BY <2>1, <2>2 DEF StrictSubsetOrdering
  <2> QED
    BY <1>4, <1>5, <2>3
<1> QED
  BY <1>6, SMTT(30)

\* The terms of the sum, and what it means to be their running sum.
Costs(w) == [n \in DOMAIN w |-> Cu(w[n])]
RunningSum(f, w) ==
  f = [n \in 0 .. Len(w) |-> IF n = 0 THEN 0 ELSE f[n - 1] + Costs(w)[n]]

\* used_cu is the sum of the winners' compute units.
UsedIsSum == \E f : RunningSum(f, winners) /\ f[Len(winners)] = used

\* Two running sums of the same entries agree to the end.
LEMMA SumsAgree ==
  ASSUME NEW w \in Seq(PendingBundle), NEW f, NEW g, RunningSum(f, w), RunningSum(g, w)
  PROVE  f[Len(w)] = g[Len(w)]
<1> DEFINE L == Len(w)
           B == {n \in 0 .. L : f[n] # g[n]}
<1>0. L \in Nat
  BY LenProperties
<1>1. \A n \in 0 .. L : /\ f[n] = IF n = 0 THEN 0 ELSE f[n - 1] + Costs(w)[n]
                        /\ g[n] = IF n = 0 THEN 0 ELSE g[n - 1] + Costs(w)[n]
  BY DEF RunningSum
<1> HIDE DEF L
<1> SUFFICES ASSUME B # {} PROVE FALSE
  BY <1>0, SMTT(30) DEF L
<1>2. PICK m \in B : \A n \in B : m <= n
  BY <1>0, LeastOf
<1>3. m # 0 /\ m - 1 \in 0 .. L /\ f[m - 1] = g[m - 1]
  BY <1>0, <1>1, <1>2, SMTT(30)
<1> QED
  BY <1>1, <1>2, <1>3, ZenonT(30)

\* Adding a winner adds its compute units.
LEMMA SumGrows ==
  ASSUME NEW w \in Seq(PendingBundle), NEW b \in PendingBundle, NEW f, RunningSum(f, w)
  PROVE  \E g : RunningSum(g, Append(w, b)) /\ g[Len(w) + 1] = f[Len(w)] + Cu(b)
<1> DEFINE v == Append(w, b)
           g == [n \in 0 .. Len(w) + 1 |-> IF n = Len(w) + 1 THEN f[Len(w)] + Cu(b) ELSE f[n]]
<1>1. /\ Len(w) \in Nat /\ DOMAIN w = 1 .. Len(w)
      /\ Len(v) = Len(w) + 1 /\ DOMAIN v = 1 .. Len(w) + 1
      /\ v[Len(w) + 1] = b /\ \A n \in 1 .. Len(w) : v[n] = w[n]
  BY LenProperties, AppendProperties, SMTT(30)
<1> HIDE DEF v
<1>2. /\ Costs(v)[Len(w) + 1] = Cu(b)
      /\ \A n \in 1 .. Len(w) : Costs(v)[n] = Costs(w)[n]
  BY <1>1, SMTT(30) DEF Costs
<1>3. \A n \in 0 .. Len(w) : f[n] = IF n = 0 THEN 0 ELSE f[n - 1] + Costs(w)[n]
  BY <1>1 DEF RunningSum
<1>g. /\ DOMAIN g = 0 .. Len(w) + 1 /\ g[Len(w) + 1] = f[Len(w)] + Cu(b)
      /\ \A n \in 0 .. Len(w) : g[n] = f[n]
  BY <1>1, SMTT(30)
<1>f. g = [n \in 0 .. Len(w) + 1 |-> g[n]]
  OBVIOUS
<1> HIDE DEF g
<1>4. ASSUME NEW n \in 0 .. Len(w) + 1
      PROVE  g[n] = IF n = 0 THEN 0 ELSE g[n - 1] + Costs(v)[n]
  <2>1. CASE n = 0
    BY <1>1, <1>3, <1>g, <2>1, SMTT(30)
  <2>2. CASE n = Len(w) + 1
    <3>1. n - 1 = Len(w) /\ n # 0 /\ Len(w) \in 0 .. Len(w)
      BY <1>1, <2>2, SMTT(30)
    <3> QED
      BY <1>2, <1>g, <2>2, <3>1
  <2>3. CASE n \in 1 .. Len(w)
    BY <1>1, <1>2, <1>3, <1>g, <2>3, SMTT(30)
  <2> QED
    BY <1>1, <2>1, <2>2, <2>3, SMTT(30)
<1>5. RunningSum(g, v)
  BY <1>1, <1>4, <1>f DEF RunningSum
<1> QED
  BY <1>g, <1>5 DEF v

\* No winners, nothing used.
LEMMA EmptySum == \E f : RunningSum(f, <<>>) /\ f[Len(<<>>)] = 0
<1> DEFINE f == [n \in {0} |-> 0]
<1>1. Len(<<>>) = 0 /\ 0 .. 0 = {0}
  BY SMTT(30)
<1>2. f = [n \in 0 .. Len(<<>>) |-> IF n = 0 THEN 0 ELSE f[n - 1] + Costs(<<>>)[n]]
  BY <1>1
<1> QED
  BY <1>1, <1>2 DEF RunningSum

\* Each step of the auction keeps used_cu equal to the sum of the winners'
\* units.
LEMMA NextUsedIsSum ==
  AuctionTypeOK /\ Control /\ UsedIsSum /\ [AuctionNext]_auctionVars => UsedIsSum'
<1> SUFFICES ASSUME AuctionTypeOK, Control, UsedIsSum, [AuctionNext]_auctionVars
             PROVE  UsedIsSum'
  OBVIOUS
<1>1. CASE Win
  <2>1. /\ ranked # <<>> /\ used' = used + Cu(Head(ranked))
        /\ winners' = Append(winners, Head(ranked))
    BY ONLY <1>1, Zenon DEF Win
  <2>2. winners \in Seq(PendingBundle) /\ Head(ranked) \in PendingBundle
    BY <2>1, TakeHead DEF AuctionTypeOK
  <2>3. PICK f : RunningSum(f, winners) /\ f[Len(winners)] = used
    BY DEF UsedIsSum
  <2>4. PICK g : /\ RunningSum(g, winners')
                 /\ g[Len(winners) + 1] = f[Len(winners)] + Cu(Head(ranked))
    BY <2>1, <2>2, <2>3, SumGrows
  <2>5. Len(winners') = Len(winners) + 1
    BY <2>1, <2>2, AppendProperties
  <2> QED
    BY <2>1, <2>3, <2>4, <2>5 DEF UsedIsSum
<1>2. CASE RoundDone
  BY <1>2, EmptySum DEF RoundDone, UsedIsSum
<1>3. CASE UNCHANGED <<winners, used>>
  BY <1>3 DEF UsedIsSum
<1> QED
  BY <1>1, <1>2, <1>3
    DEF AuctionNext, AuctionTask, SubmitScore, SubmitPush, AuctionElapse, AuctionTick,
      SetSimulation, RunAuctionEmpty, RankBundles, RankInto, Lose, FinishAuction,
      BeginHandOff, SendWinner, SendInto, SendFails, ForwarderRecv, ForwarderExit,
      roundVars, auctionVars

\* The winners of a round fit the block: what cu() charges for them, summed up,
\* is used_cu and within cu_budget, for any number of winners.
THEOREM WinnersAllFit == AuctionSpec => []WinnersFit
<1>1. AuctionInit => UsedIsSum
  BY EmptySum DEF AuctionInit, UsedIsSum
<1>2. AuctionTypeOK /\ Selection /\ UsedIsSum => WinnersFit
  <2> SUFFICES ASSUME AuctionTypeOK, Selection, UsedIsSum PROVE WinnersFit
    OBVIOUS
  <2> DEFINE L == Len(winners)
             IsSum(s) == s = [n \in 0 .. L |-> IF n = 0 THEN 0 ELSE s[n - 1] + Cu(winners[n])]
             sum == CHOOSE s : IsSum(s)
  <2>1. L \in Nat /\ DOMAIN winners = 1 .. L
    BY LenProperties DEF AuctionTypeOK
  <2>2. ASSUME NEW s PROVE IsSum(s) <=> RunningSum(s, winners)
    <3>1. \A n \in 0 .. L : n # 0 => Costs(winners)[n] = Cu(winners[n])
      BY <2>1, SMTT(30) DEF Costs
    <3> QED
      BY <2>1, <3>1 DEF RunningSum
  <2>3. PICK f : RunningSum(f, winners) /\ f[L] = used
    BY DEF UsedIsSum
  <2>4. RunningSum(sum, winners)
    BY <2>2, <2>3
  <2>5. sum[L] = used
    <3> HIDE DEF sum
    <3> QED
      BY <2>3, <2>4, SumsAgree DEF AuctionTypeOK
  <2>6. sum[L] <= CuBudget
    BY <2>5 DEF Selection
  <2> QED
    BY <2>6 DEF WinnersFit
<1> QED
  BY <1>1, <1>2, NextUsedIsSum, AuctionInvariant, PTL DEF AuctionSpec
-----------------------------------------------------------------------------
(* The counters *)

\* The requests between the two halves of submit.
Scored == {u \in Uuids : handler[u] = "scored"}

\* Only finitely many requests are on their way at a time, however many uuids
\* there are, so they can be counted.
Counted == IsFiniteSet(Scored) /\ MetricsBalance

\* Each step keeps received = won + dropped + still held, counting the
\* requests on their way.
LEMMA NextCounted == AuctionTypeOK /\ Control /\ Counted /\ [AuctionNext]_auctionVars => Counted'
<1> SUFFICES ASSUME AuctionTypeOK, Control, Counted, [AuctionNext]_auctionVars PROVE Counted'
  OBVIOUS
<1> DEFINE inRound == IF pc = "drain" THEN entered ELSE 0
<1>n. /\ metrics.received \in Nat /\ metrics.won \in Nat /\ metrics.dropped \in Int
      /\ Len(buffer) \in Nat /\ Len(winners) \in Nat /\ inRound \in Nat /\ entered \in Nat
      /\ IsFiniteSet(Scored) /\ Cardinality(Scored) \in Nat
  BY LenProperties, FS_CardinalityType DEF AuctionTypeOK, Counted
<1>b. metrics.received =
        metrics.won + metrics.dropped + Len(buffer) + Cardinality(Scored) + inRound
  BY DEF Counted, MetricsBalance, Scored
<1>g. Counted' <=>
        /\ IsFiniteSet(Scored')
        /\ metrics'.received =
             metrics'.won + metrics'.dropped + Len(buffer') + Cardinality(Scored') + inRound'
  BY DEF Counted, MetricsBalance, Scored
<1> HIDE DEF inRound
<1>1. ASSUME NEW u \in Uuids, SubmitScore(u) PROVE Counted'
  <2>1. u \notin Scored /\ Scored' = Scored \cup {u}
    BY <1>1 DEF SubmitScore, AuctionTypeOK, Scored
  <2>2. IsFiniteSet(Scored') /\ Cardinality(Scored') = Cardinality(Scored) + 1
    BY <1>n, <2>1, FS_AddElement
  <2>3. /\ metrics'.received = metrics.received + 1 /\ metrics'.won = metrics.won
        /\ metrics'.dropped = metrics.dropped
    BY <1>1 DEF SubmitScore, AuctionTypeOK
  <2>4. Len(buffer') = Len(buffer) /\ inRound' = inRound
    BY <1>1 DEF SubmitScore, roundVars, inRound
  <2> QED
    BY <1>n, <1>b, <1>g, <2>2, <2>3, <2>4, SMTT(30)
<1>2. ASSUME NEW u \in Uuids, SubmitPush(u) PROVE Counted'
  <2>1. u \in Scored /\ Scored' = Scored \ {u}
    BY <1>2 DEF SubmitPush, AuctionTypeOK, Scored
  <2>2. IsFiniteSet(Scored') /\ Cardinality(Scored') = Cardinality(Scored) - 1
    BY <1>n, <2>1, FS_RemoveElement
  <2>3. metrics' = metrics /\ inRound' = inRound
    BY <1>2 DEF SubmitPush, roundVars, inRound
  <2>4. Len(buffer') = Len(buffer) + 1
    BY <1>2, SMTT(30) DEF SubmitPush, AuctionTypeOK
  <2> QED
    BY <1>n, <1>b, <1>g, <2>2, <2>3, <2>4, SMTT(30)
<1>3. CASE RankBundles
  <2>1. Scored' = Scored /\ metrics' = metrics
    BY <1>3 DEF RankBundles, RankInto, Scored
  <2>2. Len(buffer') = 0 /\ inRound = 0 /\ inRound' = Len(buffer)
    BY <1>3 DEF RankBundles, RankInto, inRound
  <2> QED
    BY <1>n, <1>b, <1>g, <2>1, <2>2, SMTT(30)
<1>4. CASE FinishAuction
  <2>1. Scored' = Scored /\ buffer' = buffer /\ inRound = entered /\ inRound' = 0
    BY <1>4 DEF FinishAuction, Scored, inRound
  <2>2. /\ metrics'.received = metrics.received /\ metrics'.won = metrics.won + Len(winners)
        /\ metrics'.dropped = metrics.dropped + (entered - Len(winners))
    BY <1>4 DEF FinishAuction, AuctionTypeOK
  <2> QED
    BY <1>n, <1>b, <1>g, <2>1, <2>2, SMTT(30)
<1>5. CASE AuctionElapse \/ \E k \in DOMAIN buffer, o \in SimOutcome : SetSimulation(k, o)
  <2>1. metrics' = metrics /\ handler' = handler /\ pc' = pc /\ entered' = entered
    BY <1>5 DEF AuctionElapse, SetSimulation, roundVars
  <2>2. buffer' \in Seq(PendingBundle) /\ DOMAIN buffer' = DOMAIN buffer
    BY <1>5, SameUuids, NextTypeOK DEF AuctionTypeOK
  <2>3. Len(buffer') = Len(buffer)
    BY <1>n, <2>2, LenProperties, SMTT(30) DEF AuctionTypeOK
  <2>4. Scored' = Scored /\ inRound' = inRound
    BY <2>1 DEF Scored, inRound
  <2> QED
    BY <1>b, <1>g, <1>n, <2>1, <2>3, <2>4
<1>6. ASSUME UNCHANGED <<metrics, handler, buffer>>, inRound' = inRound PROVE Counted'
  <2>1. Scored' = Scored
    BY <1>6 DEF Scored
  <2> QED
    BY <1>b, <1>g, <1>n, <1>6, <2>1
<1>7. CASE Win \/ Lose \/ ForwarderRecv \/ ForwarderExit \/ UNCHANGED auctionVars
  BY <1>6, <1>7 DEF Win, Lose, ForwarderRecv, ForwarderExit, auctionVars, roundVars, inRound
<1>8. CASE AuctionTick \/ RunAuctionEmpty \/ BeginHandOff \/ SendWinner \/ SendFails \/ RoundDone
  BY <1>6, <1>8 DEF AuctionTick, RunAuctionEmpty, BeginHandOff, SendWinner, SendInto, SendFails,
    RoundDone, inRound
<1> QED
  BY <1>1, <1>2, <1>3, <1>4, <1>5, <1>7, <1>8 DEF AuctionNext, AuctionTask

\* The counters balance: whatever was counted as received has won, was dropped,
\* or is still somewhere between submit and the end of run_auction.
THEOREM CountersBalance == AuctionSpec => []MetricsBalance
<1>1. AuctionInit => Counted
  <2> SUFFICES ASSUME AuctionInit PROVE Counted
    OBVIOUS
  <2>1. Scored = {} /\ Len(buffer) = 0 /\ pc # "drain"
    BY DEF AuctionInit, Scored
  <2>2. metrics.received = 0 /\ metrics.won = 0 /\ metrics.dropped = 0
    BY DEF AuctionInit
  <2>3. IsFiniteSet(Scored) /\ Cardinality(Scored) = 0
    BY <2>1, FS_EmptySet
  <2>4. MetricsBalance
    BY <2>1, <2>2, <2>3, SMTT(30) DEF MetricsBalance, Scored
  <2> QED
    BY <2>3, <2>4 DEF Counted
<1>2. Counted => MetricsBalance
  BY DEF Counted
<1> QED
  BY <1>1, <1>2, NextCounted, AuctionInvariant, PTL DEF AuctionSpec

-----------------------------------------------------------------------------
(* The ranking *)

\* The order of the stable sort on buffer indices: by density, ties by position.
Before(i, j) ==
  \/ Denser(buffer[i], buffer[j])
  \/ ~Denser(buffer[j], buffer[i]) /\ i < j

\* What the comparison of two entries compares.
LEMMA DensityOf ==
  ASSUME AuctionTypeOK, NEW i \in DOMAIN buffer
  PROVE  Density(buffer[i]) \in Nat /\ i \in Nat
<1>1. i \in Nat
  BY LenProperties, SMTT(30) DEF AuctionTypeOK
<1> QED BY <1>1, BufferedType, DensityType

\* Not being denser is a total, transitive comparison: an f64 quotient by one or
\* more is never a NaN.
LEMMA DenserOrders ==
  ASSUME AuctionTypeOK, NEW i \in DOMAIN buffer, NEW j \in DOMAIN buffer, NEW k \in DOMAIN buffer
  PROVE  /\ ~(Denser(buffer[i], buffer[j]) /\ Denser(buffer[j], buffer[i]))
         /\ ~Denser(buffer[j], buffer[i]) /\ ~Denser(buffer[k], buffer[j])
              => ~Denser(buffer[k], buffer[i])
<1>1. /\ Density(buffer[i]) \in Nat /\ Density(buffer[j]) \in Nat
      /\ Density(buffer[k]) \in Nat
  BY DensityOf
<1>2. \A a, b, c \in Nat : ~(a > b /\ b > a) /\ (~(b > a) /\ ~(c > b) => ~(c > a))
  BY SMTT(30)
<1> QED BY <1>1, <1>2 DEF Denser

\* It makes Before a strict total order.
LEMMA BeforeOrders ==
  ASSUME AuctionTypeOK, NEW i \in DOMAIN buffer, NEW j \in DOMAIN buffer, NEW k \in DOMAIN buffer
  PROVE  /\ i # j => Before(i, j) \/ Before(j, i)
         /\ ~(Before(i, j) /\ Before(j, i))
         /\ Before(i, j) /\ Before(j, k) => Before(i, k)
<1>0. i \in Nat /\ j \in Nat /\ k \in Nat
  BY DensityOf
<1>1. \A a, b, c \in Nat : /\ a # b => a < b \/ b < a
                           /\ ~(a < b /\ b < a)
                           /\ a < b /\ b < c => a < c
  BY SMTT(30)
<1> DEFINE D(x, y) == Denser(buffer[x], buffer[y])
<1>2. \A x, y \in DOMAIN buffer : ~(D(x, y) /\ D(y, x))
  BY DenserOrders
<1>3. \A x, y, z \in DOMAIN buffer : ~D(y, x) /\ ~D(z, y) => ~D(z, x)
  BY DenserOrders
<1>4. \A x, y : Before(x, y) <=> D(x, y) \/ (~D(y, x) /\ x < y)
  BY DEF Before
<1> HIDE DEF D
<1>5. i # j => Before(i, j) \/ Before(j, i)
  BY <1>0, <1>1, <1>4
<1>6. ~(Before(i, j) /\ Before(j, i))
  BY <1>0, <1>1, <1>2, <1>4
<1>7. ASSUME Before(i, j), Before(j, k) PROVE Before(i, k)
  <2>1. ~D(j, i) /\ ~D(k, j)
    BY <1>2, <1>4, <1>7
  <2>2. ~D(k, i)
    BY <1>3, <2>1
  <2>3. ASSUME ~D(i, k) PROVE i < k
    <3>1. ~D(i, j)
      BY <1>3, <2>1, <2>3
    <3>2. ~D(j, k)
      BY <1>3, <2>1, <2>3
    <3>3. i < j /\ j < k
      BY <1>4, <1>7, <3>1, <3>2
    <3> QED BY <1>0, <1>1, <3>3
  <2> QED BY <1>4, <2>2, <2>3
<1> QED BY <1>5, <1>6, <1>7

\* Among subsets of a finite set some is minimal.
LEMMA MinimalSubset ==
  ASSUME NEW S, IsFiniteSet(S), NEW B, B \subseteq SUBSET S, B # {}
  PROVE  \E X \in B : \A Y \in B : ~(Y \subseteq X /\ Y # X)
<1>1. B \subseteq FiniteSubsetsOf(S)
  BY FS_Subset DEF FiniteSubsetsOf
<1>2. PICK X \in B : \A Y \in B : <<Y, X>> \notin StrictSubsetOrdering(S)
  BY <1>1, FS_StrictSubsetOrderingWellFounded, WFMin
<1>3. ASSUME NEW Y \in B, Y \subseteq X, Y # X PROVE FALSE
  BY <1>2, <1>3 DEF StrictSubsetOrdering
<1> QED BY <1>3

\* Of any buffered bundles one comes first.
LEMMA FirstOf ==
  ASSUME AuctionTypeOK, NEW S, S \subseteq DOMAIN buffer, S # {}
  PROVE  \E m \in S : \A n \in S : n # m => Before(m, n)
<1> DEFINE Headed(T) == \E m \in T : \A n \in T : n # m => Before(m, n)
           B == {T \in SUBSET S : T # {} /\ ~Headed(T)}
<1>1. IsFiniteSet(S)
  <2>1. DOMAIN buffer = 1 .. Len(buffer) /\ Len(buffer) \in Int
    BY LenProperties, SMTT(30) DEF AuctionTypeOK
  <2>2. IsFiniteSet(DOMAIN buffer)
    BY <2>1, FS_Interval, SMTT(30)
  <2> QED BY <2>2, FS_Subset
<1>b. \A T : T \in B <=> T \subseteq S /\ T # {} /\ ~Headed(T)
  OBVIOUS
<1>2. ASSUME B # {} PROVE FALSE
  <2>0. B \subseteq SUBSET S
    OBVIOUS
  <2> HIDE DEF B
  <2>1. PICK X \in B : \A Y \in B : ~(Y \subseteq X /\ Y # X)
    BY <1>1, <1>2, <2>0, MinimalSubset, SMTT(30)
  <2>2. X \subseteq S /\ X # {} /\ ~Headed(X)
    BY <1>b, <2>1
  <2>3. PICK x \in X : TRUE
    BY <2>2
  <2> DEFINE Y == X \ {x}
  <2>4. Y # {}
    <3>1. ASSUME Y = {} PROVE Headed(X)
      BY <2>3, <3>1
    <3> QED BY <2>2, <3>1
  <2>5. Headed(Y)
    <3>1. Y \subseteq X /\ Y # X /\ Y \subseteq S
      BY <2>2, <2>3
    <3> HIDE DEF Y, Headed
    <3> QED BY <1>b, <2>1, <2>4, <3>1
  <2>6. PICK m \in Y : \A n \in Y : n # m => Before(m, n)
    BY <2>5
  <2>7. m \in DOMAIN buffer /\ x \in DOMAIN buffer /\ m # x
    BY <2>2, <2>3, <2>6
  <2>8. CASE Before(m, x)
    <3>1. Headed(X)
      BY <2>6, <2>8
    <3> QED BY <2>2, <3>1
  <2>9. CASE Before(x, m)
    <3>1. ASSUME NEW n \in X, n # x PROVE Before(x, n)
      <4>1. n \in DOMAIN buffer /\ (n = m \/ Before(m, n))
        BY <2>2, <2>6, <3>1
      <4> QED BY <2>7, <2>9, <4>1, BeforeOrders
    <3>2. Headed(X)
      BY <2>3, <3>1
    <3> QED BY <2>2, <3>2
  <2> QED BY <2>7, <2>8, <2>9, BeforeOrders
<1> QED BY <1>2

\* Being a ranking, in terms of the order.
LEMMA RankingByOrder ==
  ASSUME AuctionTypeOK, NEW keep, keep \subseteq DOMAIN buffer, NEW n \in Nat,
         NEW p \in [1 .. n -> keep]
  PROVE  IsRanking(p, keep) <=> /\ {p[i] : i \in 1 .. n} = keep
                                /\ \A i, j \in 1 .. n : i < j => Before(p[i], p[j])
<1>1. ASSUME NEW a \in DOMAIN buffer, NEW b \in DOMAIN buffer
      PROVE  Before(a, b) <=> /\ a # b /\ ~Denser(buffer[b], buffer[a])
                              /\ b < a => Denser(buffer[a], buffer[b])
  <2>1. a \in Nat /\ b \in Nat
    BY DensityOf
  <2>2. /\ a # b => a < b \/ b < a
        /\ ~(a < b /\ b < a) /\ ~(a < a)
    BY <2>1, SMTT(30)
  <2>3. ~(Denser(buffer[a], buffer[b]) /\ Denser(buffer[b], buffer[a]))
    BY DenserOrders
  <2> QED BY <2>2, <2>3 DEF Before
<1>2. \A i \in 1 .. n : p[i] \in DOMAIN buffer
  OBVIOUS
<1>3. DOMAIN p = 1 .. n
  OBVIOUS
<1> QED BY <1>1, <1>2, <1>3 DEF IsRanking

\* p lists the n indices of T in the order of the sort.
Lists(p, n, T) ==
  /\ p \in [1 .. n -> T] /\ {p[i] : i \in 1 .. n} = T
  /\ \A i, j \in 1 .. n : i < j => Before(p[i], p[j])

\* Puts m before the list q.
Prepended(m, q, n) == [i \in 1 .. n + 1 |-> IF i = 1 THEN m ELSE q[i - 1]]

\* The one that comes first, before a ranking of the others, ranks them all.
LEMMA PrependRanks ==
  ASSUME NEW n \in Nat, NEW Y, NEW m, NEW q, Lists(q, n, Y), \A y \in Y : Before(m, y)
  PROVE  Lists(Prepended(m, q, n), n + 1, Y \cup {m})
<1> DEFINE p == Prepended(m, q, n)
<1>0. /\ q \in [1 .. n -> Y] /\ {q[i] : i \in 1 .. n} = Y
      /\ \A i, j \in 1 .. n : i < j => Before(q[i], q[j])
  BY DEF Lists
<1>1. /\ \A i \in 1 .. n : i + 1 \in 1 .. n + 1 /\ i + 1 # 1 /\ (i + 1) - 1 = i
      /\ \A i \in 1 .. n + 1 : i # 1 => i - 1 \in 1 .. n
      /\ 1 \in 1 .. n + 1
      /\ \A i, j \in 1 .. n + 1 : i < j => j # 1 /\ (i # 1 => i - 1 < j - 1)
  BY SMTT(30)
<1>2. /\ p[1] = m
      /\ \A i \in 1 .. n + 1 : i # 1 => p[i] = q[i - 1] /\ q[i - 1] \in Y
  BY <1>0, <1>1 DEF Prepended
<1>3. p = [i \in 1 .. n + 1 |-> p[i]]
  BY DEF Prepended
<1> HIDE DEF p
<1>4. p \in [1 .. n + 1 -> Y \cup {m}]
  BY <1>2, <1>3
<1>5. ASSUME NEW y \in Y PROVE \E i \in 1 .. n + 1 : p[i] = y
  <2>1. PICK i \in 1 .. n : q[i] = y
    BY <1>0
  <2>2. p[i + 1] = y /\ i + 1 \in 1 .. n + 1
    BY <1>1, <1>2, <2>1
  <2> QED BY <2>2
<1>6. {p[i] : i \in 1 .. n + 1} = Y \cup {m}
  <2>1. \A i \in 1 .. n + 1 : p[i] \in Y \cup {m}
    BY <1>4
  <2>2. \E i \in 1 .. n + 1 : p[i] = m
    BY ONLY <1>1, <1>2, Zenon
  <2>3. \A y \in Y \cup {m} : \E i \in 1 .. n + 1 : p[i] = y
    BY ONLY <1>5, <2>2, Zenon
  <2> QED BY ONLY <2>1, <2>3, Zenon
<1>7. ASSUME NEW i \in 1 .. n + 1, NEW j \in 1 .. n + 1, i < j PROVE Before(p[i], p[j])
  <2>1. j # 1 /\ p[j] = q[j - 1] /\ q[j - 1] \in Y /\ j - 1 \in 1 .. n
    BY <1>1, <1>2, <1>7
  <2>2. CASE i = 1
    BY <1>2, <2>1, <2>2
  <2>3. CASE i # 1
    <3>1. p[i] = q[i - 1] /\ i - 1 \in 1 .. n /\ i - 1 < j - 1
      BY <1>1, <1>2, <1>7, <2>3
    <3> QED BY <1>0, <2>1, <3>1
  <2> QED BY <2>2, <2>3
<1>8. Lists(p, n + 1, Y \cup {m})
  BY <1>4, <1>6, <1>7 DEF Lists
<1> QED BY <1>8 DEF p

\* Any buffered bundles have a ranking.
LEMMA RankingExists ==
  ASSUME AuctionTypeOK, NEW keep, keep \subseteq DOMAIN buffer
  PROVE  \E p \in [1 .. Cardinality(keep) -> keep] : IsRanking(p, keep)
<1> DEFINE Rankable(T) == \E p : Lists(p, Cardinality(T), T)
           B == {T \in SUBSET keep : ~Rankable(T)}
<1>1. IsFiniteSet(keep)
  <2>1. DOMAIN buffer = 1 .. Len(buffer) /\ Len(buffer) \in Int
    BY LenProperties, SMTT(30) DEF AuctionTypeOK
  <2>2. IsFiniteSet(DOMAIN buffer)
    BY <2>1, FS_Interval, SMTT(30)
  <2> QED BY <2>2, FS_Subset
<1>b. \A T : T \in B <=> T \subseteq keep /\ ~Rankable(T)
  OBVIOUS
<1>2. ASSUME B # {} PROVE FALSE
  <2>0. B \subseteq SUBSET keep
    OBVIOUS
  <2> HIDE DEF B
  <2>1. PICK X \in B : \A Y \in B : ~(Y \subseteq X /\ Y # X)
    BY <1>1, <1>2, <2>0, MinimalSubset, SMTT(30)
  <2>2. X \subseteq keep /\ ~Rankable(X) /\ X \subseteq DOMAIN buffer
    BY <1>b, <2>1
  <2>3. IsFiniteSet(X) /\ Cardinality(X) \in Nat
    BY <1>1, <2>2, FS_Subset, FS_CardinalityType
  <2>4. X # {}
    <3>1. Cardinality({}) = 0 /\ 1 .. 0 = {}
      BY FS_EmptySet, SMTT(30)
    <3>2. [i \in {} |-> i] \in [{} -> {}] /\ {[i \in {} |-> i][j] : j \in {}} = {}
      OBVIOUS
    <3>3. Rankable({})
      BY <3>1, <3>2 DEF Lists
    <3> QED BY <2>2, <3>3
  <2>5. PICK m \in X : \A y \in X : y # m => Before(m, y)
    BY <2>2, <2>4, FirstOf
  <2> DEFINE Y == X \ {m}
             n == Cardinality(Y)
  <2>6. /\ Y \subseteq X /\ Y # X /\ Y \subseteq keep /\ X = Y \cup {m}
        /\ \A y \in Y : Before(m, y)
    BY <2>2, <2>5
  <2>7. n \in Nat /\ Cardinality(X) = n + 1
    <3>1. n = Cardinality(X) - 1 /\ IsFiniteSet(Y)
      BY <2>3, <2>5, FS_RemoveElement
    <3>2. n \in Nat
      BY <3>1, FS_CardinalityType
    <3> QED BY ONLY <2>3, <3>1, <3>2, SMTT(30)
  <2>8. Rankable(Y)
    <3> HIDE DEF Y, Rankable
    <3> QED BY <1>b, <2>1, <2>6
  <2>9. PICK q : Lists(q, n, Y)
    BY <2>8
  <2>10. Lists(Prepended(m, q, n), n + 1, X)
    <3> HIDE DEF Y, n
    <3> QED BY <2>6, <2>7, <2>9, PrependRanks
  <2>11. Rankable(X)
    BY <2>7, <2>10
  <2> QED BY <2>2, <2>11
<1>3. Rankable(keep)
  BY <1>2
<1>4. Cardinality(keep) \in Nat
  BY <1>1, FS_CardinalityType
<1>5. PICK p : Lists(p, Cardinality(keep), keep)
  BY <1>3
<1> QED BY <1>4, <1>5, RankingByOrder DEF Lists

\* ... and only one.
LEMMA RankingUnique ==
  ASSUME AuctionTypeOK, NEW keep, keep \subseteq DOMAIN buffer, NEW n \in Nat,
         NEW p \in [1 .. n -> keep], NEW q \in [1 .. n -> keep],
         IsRanking(p, keep), IsRanking(q, keep)
  PROVE  p = q
<1> DEFINE D == {i \in 1 .. n : p[i] # q[i]}
<1>1. /\ {p[i] : i \in 1 .. n} = keep /\ {q[i] : i \in 1 .. n} = keep
      /\ \A i, j \in 1 .. n : i < j => Before(p[i], p[j]) /\ Before(q[i], q[j])
  BY RankingByOrder
<1>2. ASSUME D # {} PROVE FALSE
  <2>1. D \in SUBSET (0 .. n)
    BY SMTT(30)
  <2>2. PICK d \in D : \A e \in D : d <= e
    BY <1>2, <2>1, LeastOf
  <2>3. /\ d \in 1 .. n /\ p[d] # q[d]
        /\ p[d] \in DOMAIN buffer /\ q[d] \in DOMAIN buffer
    OBVIOUS
  <2>4. \A i \in 1 .. n : i # d => d < i \/ (i < d /\ p[i] = q[i])
    <3>1. \A i \in 1 .. n : i # d => d < i \/ (i < d /\ ~(d <= i))
      BY <2>3, SMTT(30)
    <3> QED BY <2>2, <3>1
  <2>5. PICK e \in 1 .. n : p[e] = q[d]
    BY <1>1, <2>3
  <2>6. PICK f \in 1 .. n : q[f] = p[d]
    BY <1>1, <2>3
  <2>7. \A a, b \in DOMAIN buffer : ~(Before(a, b) /\ Before(b, a))
    BY BeforeOrders
  <2>8. Before(p[d], q[d])
    <3>1. e # d
      BY <2>3, <2>5
    <3>2. ~(e < d /\ p[e] = q[e])
      BY <1>1, <2>3, <2>5, <2>7
    <3> QED BY <1>1, <2>3, <2>4, <2>5, <3>1, <3>2
  <2>9. Before(q[d], p[d])
    <3>1. f # d
      BY <2>3, <2>6
    <3>2. ~(f < d /\ p[f] = q[f])
      BY <1>1, <2>3, <2>6, <2>7
    <3> QED BY <1>1, <2>3, <2>4, <2>6, <3>1, <3>2
  <2> QED BY <2>3, <2>7, <2>8, <2>9
<1>3. \A i \in 1 .. n : p[i] = q[i]
  BY <1>2
<1> QED BY ONLY <1>3, p \in [1 .. n -> keep], q \in [1 .. n -> keep], SMTT(30)

\* The bundles in the buffer have one ranking and only one, as retain and the
\* stable sort_by leave them.
RankingDetermined ==
  LET keep == {i \in DOMAIN buffer : Retained(buffer[i])}
  IN  \E p \in [1 .. Cardinality(keep) -> keep] :
        /\ IsRanking(p, keep)
        /\ \A q \in [1 .. Cardinality(keep) -> keep] : IsRanking(q, keep) => q = p

\* The comparison of f64 quotients is total and transitive, for bundles of zero
\* compute units and for quotients that round to a tie too, and a tie is broken by
\* submission: so the sort is well defined and its result is determined by the
\* buffer. run_auction always gets past it, with one outcome.
THEOREM RankingIsDetermined == AuctionSpec => []RankingDetermined
<1>1. AuctionTypeOK => RankingDetermined
  <2> SUFFICES ASSUME AuctionTypeOK PROVE RankingDetermined
    OBVIOUS
  <2> DEFINE keep == {i \in DOMAIN buffer : Retained(buffer[i])}
  <2>1. keep \subseteq DOMAIN buffer
    OBVIOUS
  <2>2. Cardinality(keep) \in Nat
    <3>1. DOMAIN buffer = 1 .. Len(buffer) /\ Len(buffer) \in Int
      BY LenProperties, SMTT(30) DEF AuctionTypeOK
    <3>2. IsFiniteSet(DOMAIN buffer)
      BY <3>1, FS_Interval, SMTT(30)
    <3> QED BY <2>1, <3>2, FS_Subset, FS_CardinalityType
  <2> HIDE DEF keep
  <2>3. PICK p \in [1 .. Cardinality(keep) -> keep] : IsRanking(p, keep)
    BY <2>1, RankingExists
  <2>4. \A q \in [1 .. Cardinality(keep) -> keep] : IsRanking(q, keep) => q = p
    BY <2>1, <2>2, <2>3, RankingUnique
  <2> QED BY <2>3, <2>4 DEF RankingDetermined, keep
<1> QED BY <1>1, AuctionTypeCorrect, PTL

-----------------------------------------------------------------------------
(* What makes every round come to its end *)

\* The snapshot is of buffered bundles, and there is one only while they are
\* simulated; the task has stopped only for a forwarder that is gone.
Snapshot ==
  /\ pc # "sim" => toSim = {}
  /\ toSim \subseteq UuidsOf(buffer) /\ IsFiniteSet(toSim)
  /\ pc = "stopped" => ~fwdOpen

\* The buffer loses nothing while a snapshot is being simulated.
LEMMA NextSnapshot ==
  ASSUME AuctionTypeOK, Snapshot, [AuctionNext]_auctionVars PROVE Snapshot'
<1>1. ASSUME NEW u \in Uuids, SubmitPush(u) PROVE Snapshot'
  <2>1. UuidsOf(buffer) \subseteq UuidsOf(buffer')
    <3>1. \A i \in DOMAIN buffer : i \in DOMAIN buffer' /\ buffer'[i] = buffer[i]
      BY <1>1, AppendProperties, LenProperties, SMTT(30) DEF SubmitPush, AuctionTypeOK
    <3> QED BY <3>1 DEF UuidsOf
  <2> QED BY <1>1, <2>1 DEF SubmitPush, Snapshot, chanVars
<1>2. CASE AuctionTick
  <2>1. toSim' \subseteq UuidsOf(buffer) /\ UuidsOf(buffer') = UuidsOf(buffer) /\ pc' = "sim"
    BY <1>2 DEF AuctionTick, UuidsOf
  <2>2. IsFiniteSet(UuidsOf(buffer))
    <3> DEFINE f == [i \in DOMAIN buffer |-> buffer[i].uuid]
    <3>1. f \in Surjection(DOMAIN buffer, UuidsOf(buffer))
      BY DEF UuidsOf, Surjection
    <3>2. DOMAIN buffer = 1 .. Len(buffer) /\ Len(buffer) \in Int
      BY LenProperties, SMTT(30) DEF AuctionTypeOK
    <3>3. IsFiniteSet(DOMAIN buffer)
      BY <3>2, FS_Interval, SMTT(30)
    <3> QED BY <3>1, <3>3, FS_Surjection
  <2>3. IsFiniteSet(toSim')
    BY <2>1, <2>2, FS_Subset
  <2> QED BY <1>2, <2>1, <2>3 DEF AuctionTick, Snapshot, chanVars
<1>3. ASSUME NEW k \in DOMAIN buffer, NEW o \in SimOutcome, SetSimulation(k, o) PROVE Snapshot'
  <2>1. UuidsOf(buffer') = UuidsOf(buffer)
    BY <1>3, SameUuids DEF UuidsOf
  <2>2. IsFiniteSet(toSim \ {buffer[k].uuid})
    BY FS_RemoveElement DEF Snapshot
  <2> QED BY <1>3, <2>1, <2>2 DEF SetSimulation, Snapshot, chanVars
<1>4. CASE AuctionElapse
  <2>1. UuidsOf(buffer') = UuidsOf(buffer)
    BY <1>4, SameUuids DEF UuidsOf
  <2> QED BY <1>4, <2>1 DEF AuctionElapse, Snapshot, chanVars
<1>5. CASE RankBundles
  BY <1>5, NothingHeld DEF RankBundles, RankInto, Snapshot, chanVars
<1>6. ASSUME NEW u \in Uuids, SubmitScore(u) PROVE Snapshot'
  BY <1>6 DEF SubmitScore, Snapshot, UuidsOf, chanVars
<1>7. CASE RunAuctionEmpty \/ Win \/ Lose \/ FinishAuction \/ BeginHandOff \/ RoundDone
  BY <1>7 DEF RunAuctionEmpty, Win, Lose, FinishAuction, BeginHandOff, RoundDone, Snapshot, UuidsOf,
              chanVars
<1>8. CASE SendWinner \/ SendFails
  <2>1. /\ UNCHANGED <<toSim, buffer, fwdOpen>>
        /\ pc = "send" /\ pc' \in {"hand", "stopped"}
        /\ pc' = "stopped" => ~fwdOpen
    BY <1>8 DEF SendWinner, SendInto, SendFails, chanVars
  <2> QED BY <2>1 DEF Snapshot, UuidsOf
<1>9. CASE ForwarderRecv \/ ForwarderExit \/ UNCHANGED auctionVars
  <2>1. UNCHANGED <<pc, toSim, buffer>> /\ (fwdOpen' => fwdOpen)
    BY <1>9, SMTT(30) DEF ForwarderRecv, ForwarderExit, auctionVars, chanVars, AuctionTypeOK
  <2> QED BY <2>1 DEF Snapshot, UuidsOf
<1> QED
  BY <1>1, <1>2, <1>3, <1>4, <1>5, <1>6, <1>7, <1>8, <1>9 DEF AuctionNext, AuctionTask

\* It holds throughout.
LEMMA SnapshotHolds == AuctionSpec => []Snapshot
<1>1. AuctionInit => Snapshot
  BY FS_EmptySet DEF AuctionInit, Snapshot
<1> QED BY <1>1, NextSnapshot, AuctionTypeCorrect, PTL DEF AuctionSpec

\* Whatever the auction task waits for can come: the next bundle of the snapshot
\* is there to be simulated, a ranking exists, a full channel holds a bundle for
\* the forwarder to take, and the task has ended only with the forwarder. So the
\* task can always go on, or the forwarder can, or both are gone.
NotStuck ==
  \/ pc \in {"idle", "drain", "hand"}
  \/ pc = "sim" /\ \E i \in DOMAIN buffer :
       buffer[i].uuid \in toSim /\ \A j \in 1 .. i - 1 : buffer[j].uuid \notin toSim
  \/ pc = "sim" /\ toSim = {} /\ RankingDetermined
  \/ pc = "send" /\ (fwdOpen => Len(chan) - taken < ChanCap \/ taken < Len(chan))
  \/ pc = "stopped" /\ ~fwdOpen

\* The auction never waits for something that cannot happen.
THEOREM AuctionNeverStuck == AuctionSpec => []NotStuck
<1>1. AuctionTypeOK /\ Snapshot /\ RankingDetermined => NotStuck
  <2> SUFFICES ASSUME AuctionTypeOK, Snapshot, RankingDetermined PROVE NotStuck
    OBVIOUS
  <2>1. CASE pc = "sim" /\ toSim # {}
    <3> DEFINE W == {i \in DOMAIN buffer : buffer[i].uuid \in toSim}
    <3>1. W # {}
      BY <2>1 DEF Snapshot, UuidsOf
    <3>2. DOMAIN buffer = 1 .. Len(buffer) /\ Len(buffer) \in Nat
      BY LenProperties, SMTT(30) DEF AuctionTypeOK
    <3>3. 1 .. Len(buffer) \subseteq 0 .. Len(buffer)
      BY <3>2, SMTT(30)
    <3>4. PICK i \in W : \A n \in W : i <= n
      BY <3>1, <3>2, <3>3, LeastOf
    <3>5. \A j \in 1 .. i - 1 : j \in DOMAIN buffer /\ ~(i <= j)
      BY <3>2, SMTT(30)
    <3> QED BY <2>1, <3>4, <3>5 DEF NotStuck
  <2>2. CASE pc = "send"
    <3>1. Len(chan) \in Nat /\ taken \in 0 .. Len(chan) /\ ChanCap \in Nat \ {0}
      BY AuctionAssumption, LenProperties DEF AuctionTypeOK
    <3>2. Len(chan) - taken < ChanCap \/ taken < Len(chan)
      BY ONLY <3>1, SMTT(30)
    <3> QED BY <2>2, <3>2 DEF NotStuck
  <2>3. CASE pc \notin {"sim", "send"}
    BY <2>3 DEF NotStuck, Snapshot, AuctionTypeOK
  <2>4. CASE pc = "sim" /\ toSim = {}
    BY <2>4 DEF NotStuck
  <2> QED BY <2>1, <2>2, <2>3, <2>4
<1> QED BY <1>1, AuctionTypeCorrect, SnapshotHolds, RankingIsDetermined, PTL

\* How far a round is from its end: the phase, and the work left in it.
Phase ==
  CASE pc = "sim" -> 3 [] pc = "drain" -> 2 [] pc \in {"hand", "send"} -> 1 [] OTHER -> 0

WorkLeft ==
  CASE pc = "sim" -> Cardinality(toSim)
    [] pc = "drain" -> Len(ranked)
    [] pc = "hand" -> 2 * (Len(winners) - handed)
    [] pc = "send" -> 2 * (Len(winners) - handed) - 1
    [] OTHER -> 0

\* Inside a round every step of the auction task ends a phase or does part of
\* its work, and no other step - a submission, the clock, the forwarder - adds
\* to the work.
RoundAdvances ==
  /\ pc # "idle" /\ AuctionTask =>
       Phase' < Phase \/ (Phase' = Phase /\ WorkLeft' < WorkLeft)
  /\ ~AuctionTask => Phase' = Phase /\ WorkLeft' = WorkLeft
  /\ Phase \in 0 .. 3 /\ WorkLeft \in Nat

\* Where each control point stands in a round.
LEMMA Standing ==
  /\ pc = "sim" => Phase = 3 /\ WorkLeft = Cardinality(toSim)
  /\ pc = "drain" => Phase = 2 /\ WorkLeft = Len(ranked)
  /\ pc = "hand" => Phase = 1 /\ WorkLeft = 2 * (Len(winners) - handed)
  /\ pc = "send" => Phase = 1 /\ WorkLeft = 2 * (Len(winners) - handed) - 1
  /\ pc \notin {"sim", "drain", "hand", "send"} => Phase = 0 /\ WorkLeft = 0
  BY SMTT(30) DEF Phase, WorkLeft

\* The same after a step.
LEMMA StandingNext ==
  /\ pc' = "sim" => Phase' = 3 /\ WorkLeft' = Cardinality(toSim')
  /\ pc' = "drain" => Phase' = 2 /\ WorkLeft' = Len(ranked')
  /\ pc' = "hand" => Phase' = 1 /\ WorkLeft' = 2 * (Len(winners') - handed')
  /\ pc' = "send" => Phase' = 1 /\ WorkLeft' = 2 * (Len(winners') - handed') - 1
  /\ pc' \notin {"sim", "drain", "hand", "send"} => Phase' = 0 /\ WorkLeft' = 0
  BY SMTT(30) DEF Phase, WorkLeft

\* The steps of AuctionNext one by one.
LEMMA StepsAdvance ==
  ASSUME AuctionTypeOK, Control, Snapshot, AuctionNext PROVE RoundAdvances
<1> DEFINE Advance == Phase' < Phase \/ (Phase' = Phase /\ WorkLeft' < WorkLeft)
<1>n. /\ Len(winners) \in Nat /\ Len(ranked) \in Nat /\ handed \in 0 .. Len(winners)
      /\ Cardinality(toSim) \in Nat
      /\ pc = "send" => handed < Len(winners)
  BY LenProperties, FS_CardinalityType DEF AuctionTypeOK, Control, Snapshot
<1>t. Phase \in 0 .. 3 /\ WorkLeft \in Nat
  <2>1. {0, 1, 2, 3} \subseteq 0 .. 3 /\ 0 \in Nat
    BY SMTT(30)
  <2>2. Phase \in {0, 1, 2, 3}
    BY Standing
  <2>3. /\ 2 * (Len(winners) - handed) \in Nat
        /\ handed < Len(winners) => 2 * (Len(winners) - handed) - 1 \in Nat
    BY ONLY <1>n, SMTT(30)
  <2>4. WorkLeft \in Nat
    BY <1>n, <2>1, <2>3, Standing
  <2> QED BY <2>1, <2>2, <2>4
<1>o. 0 < 1 /\ 0 < 2 /\ 0 < 3 /\ 1 < 2 /\ 2 < 3
  BY SMTT(30)
<1>1. ASSUME NEW i \in DOMAIN buffer, NEW o \in SimOutcome, SetSimulation(i, o) PROVE Advance
  <2>1. Cardinality(toSim') = Cardinality(toSim) - 1
    BY <1>1, FS_RemoveElement DEF SetSimulation, Snapshot
  <2>2. Cardinality(toSim') < Cardinality(toSim)
    BY ONLY <1>n, <2>1, SMTT(30)
  <2> QED BY <1>1, <2>2, Standing, StandingNext, SMTT(30) DEF SetSimulation
<1>2. ASSUME RunAuctionEmpty \/ RankBundles \/ FinishAuction PROVE Advance
  BY <1>2, <1>o, Standing, StandingNext, SMTT(30) DEF RunAuctionEmpty, RankBundles, RankInto, FinishAuction
<1>3. ASSUME Win \/ Lose PROVE Advance
  <2>1. ranked \in Seq(PendingBundle) /\ ranked # <<>> /\ ranked' = Tail(ranked)
    BY <1>3 DEF Win, Lose, AuctionTypeOK
  <2>2. Len(ranked') < Len(ranked)
    BY ONLY <2>1, HeadTailProperties, LenProperties, EmptySeq, SMTT(30)
  <2> QED BY <1>3, <2>2, Standing, StandingNext, SMTT(30) DEF Win, Lose
<1>4. ASSUME BeginHandOff PROVE Advance
  <2>1. 2 * (Len(winners) - handed) - 1 < 2 * (Len(winners) - handed)
    BY ONLY <1>n, SMTT(30)
  <2> QED BY <1>4, <2>1, Standing, StandingNext, SMTT(30) DEF BeginHandOff, roundVars
<1>5. ASSUME SendWinner PROVE Advance
  <2>1. 2 * (Len(winners) - (handed + 1)) < 2 * (Len(winners) - handed) - 1
    BY ONLY <1>n, SMTT(30)
  <2> QED BY <1>5, <2>1, Standing, StandingNext, SMTT(30) DEF SendWinner, SendInto
<1>6. ASSUME SendFails \/ RoundDone PROVE Advance
  BY <1>6, <1>o, Standing, StandingNext, SMTT(30) DEF SendFails, RoundDone
<1>7. ASSUME ~AuctionTask PROVE Phase' = Phase /\ WorkLeft' = WorkLeft
  <2>1. UNCHANGED <<pc, toSim, ranked, winners, handed>>
    BY <1>7 DEF AuctionNext, SubmitScore, SubmitPush, AuctionElapse, ForwarderRecv, ForwarderExit,
                roundVars
  <2> QED BY <2>1, Standing, StandingNext, SMTT(30)
<1>8. AuctionTick => pc = "idle"
  BY DEF AuctionTick
<1> HIDE DEF Advance
<1>9. pc # "idle" /\ AuctionTask => Advance
  BY <1>1, <1>2, <1>3, <1>4, <1>5, <1>6, <1>8 DEF AuctionTask
<1> QED BY <1>t, <1>7, <1>9 DEF RoundAdvances, Advance

\* A round of auction/src/lib.rs and main.rs comes nearer its end with every step
\* of its task, whatever is submitted meanwhile: only finitely many of its steps
\* can lie between two ticks, for any number of bundles.
THEOREM RoundsAdvance == AuctionSpec => [][RoundAdvances]_auctionVars
<1>1. AuctionTypeOK /\ Control /\ Snapshot /\ [AuctionNext]_auctionVars => [RoundAdvances]_auctionVars
  BY StepsAdvance
<1> QED BY <1>1, AuctionInvariant, SnapshotHolds, PTL DEF AuctionSpec
=============================================================================
