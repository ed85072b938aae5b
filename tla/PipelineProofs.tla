--------------------------- MODULE PipelineProofs ---------------------------
(***************************************************************************)
(* The composed engine. Every step of the pipeline is a step of the        *)
(* auction, of the results hub and of the tracker, or leaves them alone,   *)
(* so each keeps what is proved of it by itself. On top of that: what a    *)
(* searcher is told of one bundle comes in order and is true of where the  *)
(* bundle stands, and the engine implements the life of a bundle. For any  *)
(* number of bundles, searchers and streams, and any capacities.           *)
(***************************************************************************)
EXTENDS Pipeline, AuctionProofs, ReportingProofs

\* Zenon unless a leaf names another prover: SMT for arithmetic, PTL for temporal logic.
USE Zenon

\* The bundles the tracker has, or has had.
Followed ==
  {u \in Uuids : u \in pending \cup toProcess \cup toFinalize \cup toDrop \/ reports[u] # {}}

\* The bundles handed on: sent, or the one being sent.
Handed ==
  Elements(chan) \cup
    (IF pc \in {"send", "stopped"} THEN {winners[handed + 1].uuid} ELSE {})

\* Only bundles handed on are followed.
FollowedHanded == Followed \subseteq Handed

\* What the components promise by themselves.
Parts == AuctionTypeOK /\ Control /\ Places /\ HubTypeOK /\ Shape /\ FateOK

-----------------------------------------------------------------------------
(* Steps of the pipeline are steps of its parts *)

\* What the auction works on has a uuid.
LEMMA AuctionUuids ==
  ASSUME AuctionTypeOK
  PROVE  /\ \A i \in DOMAIN buffer : buffer[i].uuid \in Uuids
         /\ ranked # <<>> => Head(ranked).uuid \in Uuids
         /\ \A i \in DOMAIN winners : winners[i].uuid \in Uuids
<1>1. \A i \in DOMAIN buffer : buffer[i] \in PendingBundle
  BY BufferedType
<1>2. ranked # <<>> => Head(ranked) \in PendingBundle
  BY HeadTailProperties DEF AuctionTypeOK
<1>3. \A i \in DOMAIN winners : winners[i] \in PendingBundle
  BY ElementOfSeq, LenProperties, SMTT(30) DEF AuctionTypeOK
<1> QED BY <1>1, <1>2, <1>3 DEF PendingBundle

\* The pipeline runs the auction by the auction's own steps.
LEMMA AuctionStepOf == ASSUME [PipeNext]_pipeVars PROVE [AuctionNext]_auctionVars
<1>1. ASSUME AuctionRuns PROVE AuctionNext
  BY <1>1 DEF AuctionRuns, AuctionStep, Simulate, Decide, HandOff, AuctionNext, AuctionTask
<1>2. ASSUME TrackerRuns PROVE UNCHANGED auctionVars
  BY <1>2 DEF TrackerRuns, Poll, Emit
<1>3. ASSUME NEW u \in Uuids, Submit(u) PROVE AuctionNext
  BY <1>3 DEF Submit, AuctionNext
<1>4. ASSUME PipeElapse \/ Environment PROVE [AuctionNext]_auctionVars
  BY <1>4 DEF PipeElapse, Environment, AuctionNext
<1> QED
  BY <1>1, <1>2, <1>3, <1>4
    DEF PipeNext, RegisterBundle, Stream, DeliverResult, PruneOwners, pipeVars

\* What the auction and the tracker publish, the hub may be asked to publish.
LEMMA HubStepOf ==
  ASSUME AuctionTypeOK, [PipeNext]_pipeVars PROVE [HubNext]_hubVars
<1>0. "auction" \in Publishers /\ "tracker" \in Publishers
  BY PipelineAssumption
<1>k. \A k \in {"simfail", "accepted", "lost", "processed", "finalized", "dropped"} : k \in Kinds
  BY DEF Kinds
<1>1. ASSUME NEW i \in DOMAIN buffer, NEW o \in SimOutcome, Simulate(i, o)
      PROVE  [HubNext]_hubVars
  BY <1>0, <1>1, <1>k, AuctionUuids DEF Simulate, HubNext
<1>2. ASSUME Decide PROVE HubNext
  <2>1. Head(ranked).uuid \in Uuids
    BY <1>2, AuctionUuids DEF Decide, Win, Lose
  <2> QED BY <1>0, <1>2, <1>k, <2>1 DEF Decide, HubNext
<1>3. ASSUME HandOff \/ AuctionStep PROVE UNCHANGED hubVars
  BY <1>3 DEF HandOff, AuctionStep
<1>4. ASSUME Poll PROVE UNCHANGED hubVars
  BY <1>4 DEF Poll
<1>5. ASSUME NEW u \in Uuids, Emit(u) PROVE HubNext
  BY <1>0, <1>5, <1>k DEF Emit, HubNext
<1>6. ASSUME NEW u \in Uuids, NEW s \in Searchers, RegisterBundle(u, s) PROVE HubNext
  BY <1>6 DEF RegisterBundle, HubNext
<1>7. ASSUME NEW st \in Streams, Stream(st) PROVE HubNext
  BY <1>7 DEF Stream, HubNext
<1>8. ASSUME NEW p \in Publishers, DeliverResult(p) PROVE HubNext
  BY <1>8 DEF DeliverResult, HubNext
<1>9. ASSUME PruneOwners \/ PipeElapse PROVE HubNext
  BY <1>9 DEF PruneOwners, PipeElapse, HubNext
<1>10. ASSUME Environment \/ \E u \in Uuids : Submit(u) PROVE UNCHANGED hubVars
  BY <1>10 DEF Environment, Submit
<1> QED
  BY <1>1, <1>2, <1>3, <1>4, <1>5, <1>6, <1>7, <1>8, <1>9, <1>10
    DEF PipeNext, AuctionRuns, TrackerRuns, pipeVars

\* The bundle about to be handed on is new to the tracker: track is called
\* once for every winner.
LEMMA HandOffIsNew ==
  ASSUME AuctionTypeOK, Control, Places, FollowedHanded, HandOff
  PROVE  /\ handed + 1 \in DOMAIN winners /\ winners[handed + 1].uuid \in Uuids
         /\ winners[handed + 1].uuid \notin Followed
         /\ TrackNew(winners[handed + 1].uuid)
<1>1. pc = "hand" /\ handed < Len(winners) /\ Track(winners[handed + 1].uuid)
  BY DEF HandOff, BeginHandOff
<1>2. handed + 1 \in DOMAIN winners /\ handed < handed + 1
  BY <1>1, LenProperties, SMTT(30) DEF AuctionTypeOK
<1>3. winners[handed + 1].uuid \notin Elements(chan)
  BY <1>2 DEF Places
<1>4. Handed = Elements(chan)
  BY <1>1 DEF Handed
<1>5. winners[handed + 1].uuid \in Uuids
  BY <1>2, AuctionUuids
<1>6. winners[handed + 1].uuid \notin Followed
  BY <1>3, <1>4 DEF FollowedHanded
<1> QED BY <1>1, <1>2, <1>5, <1>6 DEF Followed, TrackNew

\* The pipeline runs the tracker by the tracker's own steps.
LEMMA TrackerStepOf ==
  ASSUME AuctionTypeOK, Control, Places, FollowedHanded, [PipeNext]_pipeVars
  PROVE  [TrackerNext]_trackerVars
<1>1. ASSUME HandOff PROVE TrackerNext
  BY <1>1, HandOffIsNew DEF TrackerNext
<1>2. ASSUME AuctionStep \/ Decide \/ \E i \in DOMAIN buffer, o \in SimOutcome : Simulate(i, o)
      PROVE  UNCHANGED trackerVars
  BY <1>2 DEF AuctionStep, Decide, Simulate
<1>3. ASSUME TrackerRuns PROVE TrackerNext
  BY <1>3 DEF TrackerRuns, Poll, Emit, TrackerNext, TrackerTask
<1>4. ASSUME PipeElapse \/ Environment PROVE [TrackerNext]_trackerVars
  BY <1>4 DEF PipeElapse, Environment, TrackerNext
<1> QED
  BY <1>1, <1>2, <1>3, <1>4
    DEF PipeNext, AuctionRuns, RegisterBundle, Submit, Stream, DeliverResult, PruneOwners, pipeVars

\* So each part keeps its own invariant in the composition.
LEMMA NextParts == Parts /\ FollowedHanded /\ [PipeNext]_pipeVars => Parts'
<1> SUFFICES ASSUME Parts, FollowedHanded, [PipeNext]_pipeVars PROVE Parts'
  OBVIOUS
<1>1. AuctionTypeOK /\ Control /\ Places /\ HubTypeOK /\ Shape /\ FateOK
  BY DEF Parts
<1>2. [AuctionNext]_auctionVars /\ [HubNext]_hubVars /\ [TrackerNext]_trackerVars
  BY <1>1, AuctionStepOf, HubStepOf, TrackerStepOf
<1>3. AuctionTypeOK' /\ Control' /\ Places'
  BY <1>1, <1>2, NextTypeOK, NextPlaces
<1>4. HubTypeOK' /\ Shape' /\ FateOK'
  BY <1>1, <1>2, HubNextTypeOK, ShapeInductive, FateInductive
<1> QED BY <1>3, <1>4 DEF Parts

-----------------------------------------------------------------------------
(* What an auction step does to the places of a bundle *)

\* The winners passed on have been sent, and the task stops over a winner.
Passed ==
  /\ pc = "stopped" => handed < Len(winners)
  /\ \A i \in 1 .. handed : winners[i].uuid \in Elements(chan)

\* A bundle still to be simulated has no outcome yet.
SimOpen ==
  /\ toSim \subseteq Submitted
  /\ \A i \in DOMAIN buffer : buffer[i].uuid \in toSim => ~FailedSimulation(buffer[i])

\* The bundle is out: it has not won, is not being ranked, and if it is still
\* buffered it is there as one that failed its dry run.
Rejected(u) ==
  /\ u \in Submitted /\ u \notin Won /\ u \notin UuidsOf(ranked)
  /\ \A i \in DOMAIN buffer : buffer[i].uuid = u => FailedSimulation(buffer[i])

\* Sending the next winner puts its uuid into the channel.
LEMMA SendAdds ==
  ASSUME AuctionTypeOK, Control, SendWinner
  PROVE  /\ Elements(chan') = Elements(chan) \cup {winners[handed + 1].uuid}
         /\ handed' = handed + 1 /\ handed \in Nat /\ handed + 1 \in DOMAIN winners
         /\ pc = "send" /\ pc' = "hand"
         /\ UNCHANGED <<handler, buffer, ranked, winners, toSim>>
<1> DEFINE u == winners[handed + 1].uuid
<1>1. /\ chan' = Append(chan, u) /\ handed' = handed + 1 /\ pc = "send" /\ pc' = "hand"
      /\ UNCHANGED <<handler, buffer, ranked, winners, toSim>>
  BY DEF SendWinner, SendInto
<1>2. handed \in Nat /\ handed + 1 \in DOMAIN winners
  BY <1>1, LenProperties, SMTT(30) DEF AuctionTypeOK, Control
<1>3. chan \in Seq(Uuids) /\ u \in Uuids
  BY <1>2, AuctionUuids DEF AuctionTypeOK
<1>4. /\ DOMAIN chan = 1 .. Len(chan) /\ DOMAIN chan' = 1 .. Len(chan) + 1
      /\ Len(chan) \in Nat
      /\ \A i \in 1 .. Len(chan) : chan'[i] = chan[i]
      /\ chan'[Len(chan) + 1] = u
  BY <1>1, <1>3, AppendProperties, LenProperties, SMTT(30)
<1> HIDE DEF u
<1>5. Elements(chan') = Elements(chan) \cup {u}
  <2>1. ASSUME NEW i \in DOMAIN chan' PROVE chan'[i] \in Elements(chan) \cup {u}
    BY <1>4, <2>1, SMTT(30) DEF Elements
  <2>2. ASSUME NEW i \in DOMAIN chan PROVE chan[i] \in Elements(chan')
    BY <1>4, <2>2, SMTT(30) DEF Elements
  <2>3. u \in Elements(chan')
    BY <1>4, SMTT(30) DEF Elements
  <2> QED BY <2>1, <2>2, <2>3 DEF Elements
<1> QED BY <1>1, <1>2, <1>5 DEF u

\* Winning puts a bundle among the winners and changes nothing of the rest.
LEMMA WinAdds ==
  ASSUME AuctionTypeOK, Win
  PROVE  UuidsOf(winners') = UuidsOf(winners) \cup {Head(ranked).uuid}
<1>1. /\ winners \in Seq(PendingBundle) /\ Head(ranked) \in PendingBundle
      /\ winners' = Append(winners, Head(ranked))
  BY HeadTailProperties DEF AuctionTypeOK, Win
<1>2. /\ DOMAIN winners = 1 .. Len(winners) /\ DOMAIN winners' = 1 .. Len(winners) + 1
      /\ Len(winners) \in Nat
      /\ \A i \in 1 .. Len(winners) : winners'[i] = winners[i]
      /\ winners'[Len(winners) + 1] = Head(ranked)
  BY <1>1, AppendProperties, LenProperties, SMTT(30)
<1>3. ASSUME NEW i \in DOMAIN winners' PROVE winners'[i].uuid \in UuidsOf(winners) \cup {Head(ranked).uuid}
  BY <1>2, <1>3, SMTT(30) DEF UuidsOf
<1>4. ASSUME NEW i \in DOMAIN winners PROVE winners[i].uuid \in UuidsOf(winners')
  BY <1>2, <1>4, SMTT(30) DEF UuidsOf
<1>5. Head(ranked).uuid \in UuidsOf(winners')
  BY <1>2, SMTT(30) DEF UuidsOf
<1> QED BY <1>3, <1>4, <1>5 DEF UuidsOf

\* The steps of the auction that leave the round, the channel and the control
\* point of the hand-off alone.
Elsewhere == UNCHANGED <<ranked, winners, handed, chan>>

\* Every other auction step is one of these.
LEMMA AuctionCases ==
  ASSUME [AuctionNext]_auctionVars
  PROVE  RankBundles \/ Win \/ Lose \/ SendWinner \/ RoundDone \/ Elsewhere
BY ZenonT(30)
  DEF AuctionNext, AuctionTask, SubmitScore, SubmitPush, AuctionElapse, AuctionTick, SetSimulation,
       RunAuctionEmpty, FinishAuction, BeginHandOff, SendFails, ForwarderRecv, ForwarderExit,
       Elsewhere, roundVars, chanVars, auctionVars

\* The control point after a step from the hand-off.
LEMMA HandOffPc ==
  ASSUME [AuctionNext]_auctionVars, Elsewhere
  PROVE  /\ pc = "stopped" => pc' = "stopped"
         /\ pc = "send" /\ AuctionTypeOK /\ Control => pc' \in {"send", "stopped"}
         /\ pc' = "stopped" => pc \in {"send", "stopped"}
<1>1. ASSUME SendWinner, AuctionTypeOK PROVE FALSE
  BY <1>1, SMTT(30) DEF SendWinner, SendInto, Elsewhere, AuctionTypeOK
<1>2. ASSUME SendWinner PROVE pc = "send" /\ pc' = "hand"
  BY <1>2 DEF SendWinner, SendInto
<1> QED
  BY <1>1, <1>2, ZenonT(30)
   
     DEF AuctionNext, AuctionTask, SubmitScore, SubmitPush, AuctionElapse, AuctionTick, SetSimulation,
       RunAuctionEmpty, RankBundles, RankInto, Win, Lose, FinishAuction, BeginHandOff, SendFails,
       RoundDone, ForwarderRecv, ForwarderExit, auctionVars

\* The winners passed on stay sent.
LEMMA NextPassed ==
  ASSUME AuctionTypeOK, Control, Passed, [AuctionNext]_auctionVars PROVE Passed'
<1>1. CASE RankBundles
  BY <1>1 DEF RankBundles, RankInto, Passed, chanVars
<1>2. CASE Win
  <2>1. pc' = "drain" /\ handed' = 0
    BY <1>2 DEF Win, Control
  <2> QED BY <2>1, SMTT(30) DEF Passed
<1>3. CASE Lose
  BY <1>3 DEF Lose, Passed, chanVars
<1>4. CASE SendWinner
  <2>1. ASSUME NEW i \in 1 .. handed' PROVE winners'[i].uuid \in Elements(chan')
    BY <1>4, <2>1, SendAdds, SMTT(30) DEF Passed
  <2> QED BY <1>4, <2>1, SendAdds DEF Passed
<1>5. CASE RoundDone
  BY <1>5, SMTT(30) DEF RoundDone, Passed
<1>6. CASE Elsewhere
  <2>1. pc' = "stopped" => handed < Len(winners)
    BY <1>6, HandOffPc DEF Passed, Control
  <2> QED BY <1>6, <2>1 DEF Passed, Elsewhere
<1> QED BY <1>1, <1>2, <1>3, <1>4, <1>5, <1>6, AuctionCases

\* Who has won changes only when a bundle wins: passing a winner on, and
\* forgetting the round once all are passed on, lose none.
LEMMA WonSteps ==
  ASSUME AuctionTypeOK, Control, Passed, [AuctionNext]_auctionVars
  PROVE  \/ Win /\ Won' = Won \cup {Head(ranked).uuid}
         \/ ~Win /\ Won' = Won
<1>0. Won = Elements(chan) \cup UuidsOf(winners) /\ Won' = Elements(chan') \cup UuidsOf(winners')
  BY DEF Won, UuidsOf
<1>1. CASE Win
  <2>1. chan' = chan
    BY <1>1 DEF Win, chanVars
  <2> QED BY <1>0, <1>1, <2>1, WinAdds
<1>2. CASE ~Win /\ SendWinner
  <2>1. winners[handed + 1].uuid \in UuidsOf(winners)
    BY <1>2, SendAdds DEF UuidsOf
  <2>2. winners' = winners
    BY <1>2, SendAdds
  <2> QED BY <1>0, <1>2, <2>1, <2>2, SendAdds
<1>3. CASE ~Win /\ RoundDone
  <2>1. handed = Len(winners) /\ winners' = <<>> /\ chan' = chan
    BY <1>3 DEF RoundDone, chanVars
  <2>2. UuidsOf(winners) \subseteq Elements(chan)
    BY <2>1, LenProperties, SMTT(30) DEF Passed, UuidsOf, AuctionTypeOK
  <2>3. UuidsOf(winners') = {}
    BY <2>1, SMTT(30) DEF UuidsOf
  <2> QED BY <1>0, <1>3, <2>1, <2>2, <2>3
<1>4. CASE ~Win /\ (RankBundles \/ Lose \/ Elsewhere)
  <2>1. winners' = winners /\ chan' = chan
    BY <1>4 DEF RankBundles, RankInto, Lose, Elsewhere, chanVars
  <2> QED BY <1>4, <2>1 DEF Won
<1> QED BY <1>1, <1>2, <1>3, <1>4, AuctionCases

\* A bundle handed on stays so.
LEMMA HandedGrows ==
  ASSUME AuctionTypeOK, Control, [AuctionNext]_auctionVars PROVE Handed \subseteq Handed'
<1>1. CASE RankBundles \/ Win \/ Lose \/ RoundDone
  <2>1. chan' = chan /\ pc \notin {"send", "stopped"}
    BY <1>1 DEF RankBundles, RankInto, Win, Lose, RoundDone, chanVars
  <2> QED BY <2>1 DEF Handed
<1>2. CASE SendWinner
  BY <1>2, SendAdds DEF Handed
<1>3. CASE Elsewhere
  <2>1. pc \in {"send", "stopped"} => pc' \in {"send", "stopped"}
    BY <1>3, HandOffPc
  <2> QED BY <1>3, <2>1 DEF Elsewhere, Handed
<1> QED BY <1>1, <1>2, <1>3, AuctionCases

\* Growing older leaves the outcome of an entry alone.
LEMMA AgeingKeepsOutcome ==
  ASSUME AuctionTypeOK, AuctionElapse
  PROVE  \A i \in DOMAIN buffer : FailedSimulation(buffer'[i]) <=> FailedSimulation(buffer[i])
<1>1. \A i \in DOMAIN buffer : buffer[i] \in PendingBundle
  BY BufferedType
<1>2. ASSUME NEW i \in DOMAIN buffer PROVE buffer'[i].sim = buffer[i].sim
  BY <1>1 DEF AuctionElapse, AgeBuffer, PendingBundle
<1> QED BY <1>2 DEF FailedSimulation

\* An entry of the buffer after a push was there before or is the new one.
LEMMA PushedEntry ==
  ASSUME AuctionTypeOK, NEW u \in Uuids, SubmitPush(u), NEW i \in DOMAIN buffer'
  PROVE  \/ i \in DOMAIN buffer /\ buffer'[i] = buffer[i]
         \/ buffer'[i].uuid = u /\ ~FailedSimulation(buffer'[i])
<1> DEFINE e == [uuid |-> u, tip |-> bundles[u].tip, est |-> EstCu(u),
                 age |-> 0, sim |-> NotSimulated]
<1>1. buffer' = Append(buffer, e) /\ buffer \in Seq(PendingBundle)
  BY DEF SubmitPush, AuctionTypeOK
<1>2. e.uuid = u /\ ~FailedSimulation(e)
  BY DEF FailedSimulation, NotSimulated
<1> HIDE DEF e
<1>3. (i \in DOMAIN buffer /\ buffer'[i] = buffer[i]) \/ buffer'[i] = e
  BY <1>1, LenProperties, SMTT(30)
<1> QED BY <1>2, <1>3

\* Recording an outcome touches one entry, whose bundle then leaves the snapshot.
LEMMA RecordedEntry ==
  ASSUME AuctionTypeOK, NEW k \in DOMAIN buffer, NEW o \in SimOutcome, SetSimulation(k, o)
  PROVE  /\ DOMAIN buffer' = DOMAIN buffer /\ buffer'[k].sim = o
         /\ \A i \in DOMAIN buffer : buffer'[i].uuid = buffer[i].uuid
         /\ \A i \in DOMAIN buffer : i # k => buffer'[i] = buffer[i]
         /\ toSim' = toSim \ {buffer[k].uuid}
<1>1. buffer' = [buffer EXCEPT ![k].sim = o] /\ toSim' = toSim \ {buffer[k].uuid}
  BY DEF SetSimulation
<1>2. buffer[k] \in PendingBundle /\ buffer \in Seq(PendingBundle)
  BY BufferedType DEF AuctionTypeOK
<1>3. buffer'[k].sim = o
  BY <1>1, <1>2 DEF PendingBundle
<1>4. \A i \in DOMAIN buffer : i # k => buffer'[i] = buffer[i]
  BY <1>1
<1> QED BY <1>1, <1>3, <1>4, SameUuids

\* The auction steps by what they do to the buffer.
LEMMA BufferCases ==
  ASSUME [AuctionNext]_auctionVars
  PROVE  \/ \E u \in Uuids : SubmitPush(u)
         \/ AuctionElapse \/ RankBundles \/ AuctionTick
         \/ \E k \in DOMAIN buffer, o \in SimOutcome : SetSimulation(k, o)
         \/ \E u \in Uuids : SubmitScore(u)
         \/ UNCHANGED <<handler, buffer, toSim>>
BY
  DEF AuctionNext, AuctionTask, RunAuctionEmpty, Win, Lose, FinishAuction, BeginHandOff, SendWinner,
       SendInto, SendFails, RoundDone, ForwarderRecv, ForwarderExit, auctionVars

\* A submitted bundle stays submitted.
LEMMA SubmittedStays ==
  ASSUME AuctionTypeOK, [AuctionNext]_auctionVars
  PROVE  Submitted \subseteq Submitted'
<1>1. ASSUME NEW u \in Uuids, SubmitPush(u) \/ SubmitScore(u) PROVE Submitted \subseteq Submitted'
  BY <1>1 DEF SubmitPush, SubmitScore, AuctionTypeOK, Submitted
<1>2. ASSUME UNCHANGED handler PROVE Submitted \subseteq Submitted'
  BY <1>2 DEF Submitted
<1> QED
  BY <1>1, <1>2, BufferCases
    DEF AuctionElapse, RankBundles, RankInto, AuctionTick, SetSimulation

\* The dry-run snapshot holds only bundles without an outcome.
LEMMA NextSimOpen ==
  ASSUME AuctionTypeOK, Control, Places, SimOpen, [AuctionNext]_auctionVars PROVE SimOpen'
<1>0. Submitted \subseteq Submitted'
  BY SubmittedStays
<1>1. ASSUME NEW u \in Uuids, SubmitPush(u) PROVE SimOpen'
  <2>1. toSim' = toSim
    BY <1>1 DEF SubmitPush
  <2> QED BY <1>0, <1>1, <2>1, PushedEntry DEF SimOpen
<1>2. CASE AuctionElapse
  <2>1. toSim' = toSim
    BY <1>2 DEF AuctionElapse
  <2> QED BY <1>0, <1>2, <2>1, SameUuids, AgeingKeepsOutcome DEF SimOpen
<1>3. CASE RankBundles
  <2>1. toSim' = toSim /\ buffer' = <<>>
    BY <1>3 DEF RankBundles, RankInto
  <2> QED BY <1>0, <2>1, SMTT(30) DEF SimOpen
<1>4. CASE AuctionTick
  <2>1. /\ buffer' = buffer
        /\ toSim' \subseteq {buffer[i].uuid : i \in {j \in DOMAIN buffer :
                                                  buffer[j].sim.status = "none"}}
    BY <1>4 DEF AuctionTick
  <2>2. toSim' \subseteq Submitted
    BY <2>1 DEF Places, UuidsOf
  <2>3. ASSUME NEW i \in DOMAIN buffer, buffer[i].uuid \in toSim'
        PROVE  ~FailedSimulation(buffer[i])
    <3>1. PICK j \in DOMAIN buffer : buffer[j].sim.status = "none" /\ buffer[i].uuid = buffer[j].uuid
      BY <2>1, <2>3
    <3>2. i = j
      BY <3>1 DEF Places, HeldOnce
    <3> QED BY <3>1, <3>2 DEF FailedSimulation
  <2> QED BY <1>0, <2>1, <2>2, <2>3 DEF SimOpen
<1>5. ASSUME NEW k \in DOMAIN buffer, NEW o \in SimOutcome, SetSimulation(k, o) PROVE SimOpen'
  BY <1>0, <1>5, RecordedEntry, ZenonT(30) DEF SimOpen
<1>6. ASSUME NEW u \in Uuids, SubmitScore(u) PROVE SimOpen'
  BY <1>0, <1>6 DEF SubmitScore, SimOpen
<1>7. CASE UNCHANGED <<handler, buffer, toSim>>
  BY <1>0, <1>7 DEF SimOpen
<1> QED BY <1>1, <1>2, <1>3, <1>4, <1>5, <1>6, <1>7, BufferCases

\* A ranking takes in only bundles that were buffered and did not fail.
LEMMA RankedWereLive ==
  ASSUME AuctionTypeOK, RankBundles, NEW u \in UuidsOf(ranked')
  PROVE  \E i \in DOMAIN buffer : buffer[i].uuid = u /\ ~FailedSimulation(buffer[i])
<1>1. PICK j \in DOMAIN ranked' : ranked'[j].uuid = u
  BY DEF UuidsOf
<1>2. PICK p \in [DOMAIN ranked' -> DOMAIN buffer] :
        \A i \in DOMAIN ranked' : ranked'[i] = buffer[p[i]] /\ Retained(buffer[p[i]])
  BY RankFacts
<1> QED BY <1>1, <1>2 DEF Retained

\* A bundle that is out stays out.
LEMMA RejectedStays ==
  ASSUME AuctionTypeOK, Control, Places, Passed, SimOpen, [AuctionNext]_auctionVars,
         NEW u \in Uuids, Rejected(u)
  PROVE  Rejected(u)'
<1>1. u \in Submitted'
  BY SubmittedStays DEF Rejected
<1>2. u \notin Won'
  <2>1. CASE Win
    <3>1. Head(ranked).uuid \in UuidsOf(ranked)
      BY <2>1, HeadLeaves DEF Win, Places
    <3> QED BY <2>1, <3>1, WonSteps DEF Rejected
  <2> QED BY <2>1, WonSteps DEF Rejected
<1>3. u \notin UuidsOf(ranked')
  <2>1. CASE RankBundles
    BY <2>1, RankedWereLive DEF Rejected
  <2>2. CASE Win \/ Lose
    <3>1. ranked # <<>> /\ ranked' = Tail(ranked)
      BY <2>2 DEF Win, Lose
    <3> QED BY <3>1, HeadLeaves DEF Places, Rejected
  <2>3. CASE SendWinner \/ RoundDone \/ Elsewhere
    <3>1. ranked' = ranked
      BY <2>3 DEF SendWinner, SendInto, RoundDone, Elsewhere
    <3> QED BY <3>1 DEF Rejected
  <2> QED BY <2>1, <2>2, <2>3, AuctionCases
<1>4. ASSUME NEW i \in DOMAIN buffer', buffer'[i].uuid = u PROVE FailedSimulation(buffer'[i])
  <2>0. \A j \in DOMAIN buffer : buffer[j].uuid = u => FailedSimulation(buffer[j])
    BY DEF Rejected
  <2>1. ASSUME NEW v \in Uuids, SubmitPush(v) PROVE FailedSimulation(buffer'[i])
    <3>1. v # u
      BY <2>1 DEF SubmitPush, Rejected, Submitted
    <3> QED BY <1>4, <2>0, <2>1, <3>1, PushedEntry
  <2>2. CASE AuctionElapse
    BY <1>4, <2>0, <2>2, SameUuids, AgeingKeepsOutcome
  <2>3. CASE RankBundles
    <3>1. DOMAIN buffer' = {}
      BY <2>3, SMTT(30) DEF RankBundles, RankInto
    <3> QED BY <3>1
  <2>4. ASSUME NEW k \in DOMAIN buffer, NEW o \in SimOutcome, SetSimulation(k, o)
        PROVE  FailedSimulation(buffer'[i])
    <3>1. ~FailedSimulation(buffer[k])
      BY <2>4 DEF SetSimulation, SimOpen
    <3>2. i \in DOMAIN buffer /\ buffer[i].uuid = u
      BY <1>4, <2>4, RecordedEntry
    <3>3. i # k
      BY <2>0, <3>1, <3>2
    <3> QED BY <2>0, <2>4, <3>2, <3>3, RecordedEntry, ZenonT(30)
  <2>5. CASE buffer' = buffer
    BY <1>4, <2>0, <2>5
  <2> QED BY <2>1, <2>2, <2>3, <2>4, <2>5, BufferCases DEF AuctionTick, SubmitScore
<1> QED BY <1>1, <1>2, <1>3, <1>4 DEF Rejected

-----------------------------------------------------------------------------
(* What a tracker step does to the bundles it follows *)

\* The tracker's steps, and the cluster's, other than a new bundle.
Following ==
  TrackerTask \/ TrackerElapse \/ (\E s \in Sigs : ChainStep(s)) \/ UNCHANGED trackerVars

\* Only the hand-off gives the tracker a bundle.
LEMMA FollowingCases == ASSUME [PipeNext]_pipeVars PROVE HandOff \/ Following
BY DEF PipeNext, AuctionRuns, AuctionStep, Simulate, Decide, TrackerRuns, Poll, Emit, PipeElapse,
       Environment, RegisterBundle, Submit, Stream, DeliverResult, PruneOwners, pipeVars, Following,
       TrackerTask

\* A poll moves a bundle from the pending list to a list of verdicts and from
\* there to the reports; it takes up none.
LEMMA FollowingKeeps == ASSUME Shape, Following PROVE Followed' \subseteq Followed
<1>1. ASSUME NEW u \in Uuids, EmitProcessed(u) \/ EmitFinalized(u) \/ EmitDropped(u)
      PROVE  Followed' \subseteq Followed
  <2>1. /\ u \in Followed /\ pending' = pending /\ toProcess' \subseteq toProcess
        /\ toFinalize' \subseteq toFinalize /\ toDrop' \subseteq toDrop
    BY <1>1 DEF EmitProcessed, EmitFinalized, EmitDropped, Report, Followed
  <2>2. \A v \in Uuids : v # u => reports'[v] = reports[v]
    BY <1>1 DEF EmitProcessed, EmitFinalized, EmitDropped, Report, Shape, TrackerTypeOK
  <2> QED BY <2>1, <2>2 DEF Followed
<1>2. CASE Resolve
  BY <1>2 DEF Resolve, ResolveTo, Unresolved, Judged, Followed
<1>3. ASSUME UNCHANGED <<pending, toProcess, toFinalize, toDrop, reports>>
      PROVE  Followed' \subseteq Followed
  BY <1>3 DEF Followed
<1>4. CASE PollCollect \/ RpcReply \/ RpcError \/ PollDone \/ TrackerElapse
  BY <1>3, <1>4 DEF PollCollect, RpcReply, RpcError, PollDone, EndPoll, TrackerElapse, pollVars
<1>5. CASE \E s \in Sigs : ChainStep(s)
  BY <1>3, <1>5 DEF ChainStep, pollVars
<1>6. CASE UNCHANGED trackerVars
  BY <1>3, <1>6 DEF trackerVars, pollVars
<1> QED BY <1>1, <1>2, <1>4, <1>5, <1>6 DEF Following, TrackerTask

\* A verdict once reported stays reported.
LEMMA ReportsGrow ==
  ASSUME Shape, [TrackerNext]_trackerVars, NEW u \in Uuids PROVE reports[u] \subseteq reports'[u]
<1>1. ASSUME NEW v \in Uuids, NEW k, Report(v, k) PROVE reports[u] \subseteq reports'[u]
  BY <1>1 DEF Report, Shape, TrackerTypeOK
<1>2. ASSUME reports' = reports PROVE reports[u] \subseteq reports'[u]
  BY <1>2
<1>3. ASSUME \E v \in Uuids : EmitProcessed(v) \/ EmitFinalized(v) \/ EmitDropped(v)
      PROVE  reports[u] \subseteq reports'[u]
  BY <1>1, <1>3 DEF EmitProcessed, EmitFinalized, EmitDropped
<1>4. ASSUME ~\E v \in Uuids : EmitProcessed(v) \/ EmitFinalized(v) \/ EmitDropped(v)
      PROVE  reports' = reports
  BY <1>4 DEF TrackerNext, TrackerTask, TrackNew, Track, PollCollect, RpcReply, RpcError, PollDone,
              EndPoll, Resolve, ResolveTo, TrackerElapse, ChainStep, trackerVars
<1> QED BY <1>2, <1>3, <1>4

\* A bundle handed on has won.
LEMMA HandedWon == ASSUME AuctionTypeOK, Control, Passed PROVE Handed \subseteq Won
<1>1. pc \in {"send", "stopped"} => handed + 1 \in DOMAIN winners
  BY LenProperties, SMTT(30) DEF AuctionTypeOK, Control, Passed
<1> QED BY <1>1 DEF Handed, Won

\* Tracking begins with the hand-off.
LEMMA NextFollowed ==
  ASSUME Parts, FollowedHanded, [PipeNext]_pipeVars PROVE FollowedHanded'
<1>0. AuctionTypeOK /\ Control /\ Places /\ Shape
  BY DEF Parts
<1>1. Handed \subseteq Handed'
  BY <1>0, AuctionStepOf, HandedGrows
<1>2. CASE HandOff
  <2>1. /\ pc' = "send" /\ UNCHANGED <<winners, handed>>
        /\ Track(winners[handed + 1].uuid)
    BY <1>2 DEF HandOff, BeginHandOff, roundVars
  <2>2. winners[handed + 1].uuid \in Handed'
    BY <2>1 DEF Handed
  <2>3. Followed' \subseteq Followed \cup {winners[handed + 1].uuid}
    BY <2>1 DEF Track, pollVars, Followed
  <2> QED BY <1>1, <2>2, <2>3 DEF FollowedHanded
<1>3. CASE Following
  BY <1>0, <1>1, <1>3, FollowingKeeps DEF FollowedHanded
<1> QED BY <1>2, <1>3, FollowingCases

-----------------------------------------------------------------------------
(* What a searcher is told *)

Out == {u \in Uuids : Rejected(u)}

\* The results that are true of where the bundle stands.
Truths ==
  {r \in BundleResult :
     /\ r.kind = "accepted" => r.uuid \in Won
     /\ r.kind \in {"lost", "simfail"} => r.uuid \in Out
     /\ r.kind \in Verdicts => r.kind \in reports[r.uuid]}

Result(m) == [uuid |-> m.uuid, kind |-> m.kind]

\* What the streams carry and what is on its way to them is true; the auction
\* speaks of bundles the tracker does not follow; and a result on its way is
\* further on than any the stream has of that bundle.
Told ==
  /\ \A st \in Streams : \A i \in DOMAIN sent[st] : sent[st][i] \in Truths
  /\ \A p \in Publishers : \A m \in inflight[p] : Result(m) \in Truths
  /\ \A m \in inflight["auction"] : m.kind \notin Verdicts /\ m.uuid \notin Followed
  /\ \A m \in inflight["tracker"] : m.kind \in Verdicts
  /\ \A p \in Publishers : \A m \in inflight[p] : \A st \in Streams : \A i \in DOMAIN sent[st] :
       sent[st][i].uuid = m.uuid => Stage(sent[st][i].kind) < Stage(m.kind)
  /\ ResultsProgress

\* The inductive invariant of the pipeline.
Engine == Parts /\ FollowedHanded /\ Passed /\ SimOpen /\ Told

\* The stages of the kinds.
LEMMA Stages ==
  /\ Stage("accepted") = 1 /\ Stage("processed") = 2 /\ Stage("finalized") = 3
  /\ Stage("dropped") = 3 /\ Stage("lost") = 3 /\ Stage("simfail") = 3
BY DEF Stage

\* What was true of a bundle stays true.
LEMMA TruthsGrow == ASSUME Engine, [PipeNext]_pipeVars PROVE Truths \subseteq Truths'
<1>0. /\ AuctionTypeOK /\ Control /\ Places /\ HubTypeOK /\ Shape /\ FateOK
      /\ FollowedHanded /\ Passed /\ SimOpen
  BY DEF Engine, Parts
<1>1. [AuctionNext]_auctionVars /\ [TrackerNext]_trackerVars
  BY <1>0, AuctionStepOf, TrackerStepOf
<1>2. Won \subseteq Won'
  BY <1>0, <1>1, WonSteps
<1>3. Out \subseteq Out'
  BY <1>0, <1>1, RejectedStays DEF Out
<1>4. \A u \in Uuids : reports[u] \subseteq reports'[u]
  BY <1>0, <1>1, ReportsGrow
<1> QED BY <1>2, <1>3, <1>4 DEF Truths, BundleResult

\* What publish does under the owners lock, seen from the messages.
LEMMA LookupSends ==
  ASSUME HubTypeOK, NEW p \in Publishers, NEW u \in Uuids, NEW k \in Kinds, PublishLookup(p, u, k)
  PROVE  /\ sent' = sent
         /\ \A q \in Publishers : q # p => inflight'[q] = inflight[q]
         /\ \A m \in inflight'[p] : m.uuid = u /\ m.kind = k
<1>1. /\ sent' = sent
      /\ inflight' = [inflight EXCEPT ![p] =
           IF Registered(u)
           THEN {[to |-> owners[u].pubkey, uuid |-> u, kind |-> k]} ELSE {}]
  BY DEF PublishLookup, Lookup, streamVars
<1> QED BY <1>1, SMTT(30) DEF HubTypeOK

\* A publication keeps what searchers are told in order, if the result is true
\* and is further on than what the streams have of the bundle.
LEMMA PublishTells ==
  ASSUME Engine, [PipeNext]_pipeVars, NEW p \in Publishers, NEW u \in Uuids, NEW k \in Kinds,
         PublishLookup(p, u, k), Followed' \subseteq Followed,
         [uuid |-> u, kind |-> k] \in Truths',
         p = "auction" => k \notin Verdicts /\ u \notin Followed,
         p = "tracker" => k \in Verdicts,
         \A st \in Streams : \A i \in DOMAIN sent[st] :
           sent[st][i].uuid = u => Stage(sent[st][i].kind) < Stage(k)
  PROVE  Told'
<1>0. HubTypeOK /\ Told
  BY DEF Engine, Parts
<1>1. Truths \subseteq Truths'
  BY TruthsGrow
<1>2. /\ sent' = sent
      /\ \A q \in Publishers : q # p => inflight'[q] = inflight[q]
      /\ \A m \in inflight'[p] : m.uuid = u /\ m.kind = k
  BY <1>0, LookupSends
<1>3. \A st \in Streams : \A i \in DOMAIN sent'[st] : sent'[st][i] \in Truths'
  BY <1>0, <1>1, <1>2 DEF Told
<1>4. ASSUME NEW q \in Publishers, NEW m \in inflight'[q] PROVE Result(m) \in Truths'
  <2>1. CASE q = p
    BY <1>2, <2>1 DEF Result
  <2>2. CASE q # p
    BY <1>0, <1>1, <1>2, <2>2 DEF Told
  <2> QED BY <2>1, <2>2
<1>5. ASSUME NEW m \in inflight'["auction"] PROVE m.kind \notin Verdicts /\ m.uuid \notin Followed'
  <2>1. CASE p = "auction"
    BY <1>2, <2>1
  <2>2. CASE p # "auction"
    BY <1>0, <1>2, <2>2, PipelineAssumption DEF Told
  <2> QED BY <2>1, <2>2
<1>6. ASSUME NEW m \in inflight'["tracker"] PROVE m.kind \in Verdicts
  <2>1. CASE p = "tracker"
    BY <1>2, <2>1
  <2>2. CASE p # "tracker"
    BY <1>0, <1>2, <2>2, PipelineAssumption DEF Told
  <2> QED BY <2>1, <2>2
<1>7. ASSUME NEW q \in Publishers, NEW m \in inflight'[q], NEW st \in Streams,
             NEW i \in DOMAIN sent'[st], sent'[st][i].uuid = m.uuid
      PROVE  Stage(sent'[st][i].kind) < Stage(m.kind)
  <2>1. CASE q = p
    BY <1>2, <1>7, <2>1
  <2>2. CASE q # p
    BY <1>0, <1>2, <1>7, <2>2 DEF Told
  <2> QED BY <2>1, <2>2
<1>8. ResultsProgress'
  BY <1>0, <1>2 DEF Told, ResultsProgress
<1> QED BY <1>3, <1>4, <1>5, <1>6, <1>7, <1>8 DEF Told, Result

\* A delivery appends the message in flight, which is further on than what the
\* stream has of the bundle; the other task's message is about another bundle.
LEMMA DeliveryTells ==
  ASSUME Engine, NEW p \in Publishers, DeliverResult(p) PROVE Told'
<1>0. HubTypeOK /\ Told
  BY DEF Engine, Parts
<1>1. PICK m \in inflight[p] : Delivered(p, m)
  BY SendDelivers DEF DeliverResult
<1>2. Truths' = Truths /\ Followed' = Followed
  BY DEF DeliverResult, auctionVars, roundVars, chanVars, trackerVars, pollVars, Truths, Won, Out,
         Rejected, Submitted, Followed
<1>3. /\ inflight'[p] = {}
      /\ \A q \in Publishers : q # p => inflight'[q] = inflight[q]
  BY <1>0, <1>1 DEF Delivered, HubTypeOK
<1>4. \A q \in Publishers : inflight'[q] \subseteq inflight[q]
  BY <1>3
<1>5. ASSUME NEW st \in Streams, NEW i \in DOMAIN sent'[st]
      PROVE  \/ i \in DOMAIN sent[st] /\ sent'[st][i] = sent[st][i]
             \/ i = Len(sent[st]) + 1 /\ sent'[st][i] = Result(m)
  BY <1>0, <1>1, DeliveredEntry DEF Result
<1>6. \A st \in Streams : \A i \in DOMAIN sent'[st] : sent'[st][i] \in Truths'
  <2> SUFFICES ASSUME NEW st \in Streams, NEW i \in DOMAIN sent'[st] PROVE sent'[st][i] \in Truths
    BY <1>2
  <2>1. CASE i \in DOMAIN sent[st] /\ sent'[st][i] = sent[st][i]
    <3>1. sent[st][i] \in Truths
      BY <1>0, <2>1 DEF Told
    <3> QED BY <2>1, <3>1
  <2>2. CASE sent'[st][i] = Result(m)
    <3>1. Result(m) \in Truths
      BY <1>0 DEF Told
    <3> QED BY <2>2, <3>1
  <2> QED BY <1>5, <2>1, <2>2
<1>7. \A q \in Publishers : \A n \in inflight'[q] : Result(n) \in Truths'
  BY <1>0, <1>2, <1>4 DEF Told
<1>8. /\ \A n \in inflight'["auction"] : n.kind \notin Verdicts /\ n.uuid \notin Followed'
      /\ \A n \in inflight'["tracker"] : n.kind \in Verdicts
  BY <1>0, <1>2, <1>4, PipelineAssumption DEF Told
<1>9. ASSUME NEW q \in Publishers, NEW n \in inflight'[q] PROVE n.uuid # m.uuid
  <2>1. q # p /\ n \in inflight[q]
    BY <1>3
  <2>2. \A x \in inflight["tracker"] : x.uuid \in Followed
    <3> SUFFICES ASSUME NEW x \in inflight["tracker"] PROVE x.uuid \in Followed
      OBVIOUS
    <3>1. Result(x) \in Truths /\ x.kind \in Verdicts
      BY <1>0, PipelineAssumption DEF Told
    <3>2. x.uuid \in Uuids /\ x.kind \in reports[x.uuid]
      BY <3>1 DEF Truths, Result, BundleResult
    <3> QED BY <3>2 DEF Followed
  <2>3. \A x \in inflight["auction"] : x.uuid \notin Followed
    BY <1>0 DEF Told
  <2> QED BY <2>1, <2>2, <2>3, PipelineAssumption, SMTT(30)
<1>10. ASSUME NEW q \in Publishers, NEW n \in inflight'[q], NEW st \in Streams,
              NEW i \in DOMAIN sent'[st], sent'[st][i].uuid = n.uuid
       PROVE  Stage(sent'[st][i].kind) < Stage(n.kind)
  <2>1. sent'[st][i] # Result(m)
    <3>1. n.uuid # m.uuid
      BY <1>9
    <3>2. Result(m).uuid = m.uuid
      BY DEF Result
    <3> QED BY <1>10, <3>1, <3>2
  <2> QED BY <1>0, <1>4, <1>5, <1>10, <2>1 DEF Told
<1>11. ASSUME NEW st \in Streams, NEW i \in DOMAIN sent'[st], NEW j \in DOMAIN sent'[st],
              i < j, sent'[st][i].uuid = sent'[st][j].uuid
       PROVE  Stage(sent'[st][i].kind) < Stage(sent'[st][j].kind)
  <2>1. DOMAIN sent[st] = 1 .. Len(sent[st]) /\ Len(sent[st]) \in Nat
    BY <1>0, LenProperties DEF HubTypeOK
  <2>2. i \in DOMAIN sent[st] /\ sent'[st][i] = sent[st][i]
    <3>1. CASE i = Len(sent[st]) + 1
      BY <1>5, <1>11, <2>1, <3>1, SMTT(30)
    <3> QED BY <1>5, <3>1
  <2>3. CASE j \in DOMAIN sent[st] /\ sent'[st][j] = sent[st][j]
    BY <1>0, <1>11, <2>2, <2>3 DEF Told, ResultsProgress
  <2>4. CASE sent'[st][j] = Result(m)
    BY <1>0, <1>11, <2>2, <2>4, SMTT(30) DEF Told, Result
  <2> QED BY <1>5, <2>3, <2>4
<1>12. ResultsProgress'
  BY <1>11 DEF ResultsProgress
<1> QED BY <1>6, <1>7, <1>8, <1>10, <1>12 DEF Told, Result

\* Nothing has been told of a bundle that has neither won nor been rejected.
LEMMA NothingTold ==
  ASSUME Engine, NEW u \in Uuids, u \notin Won, ~Rejected(u)
  PROVE  /\ u \notin Followed
         /\ \A st \in Streams : \A i \in DOMAIN sent[st] : sent[st][i].uuid # u
<1>1. u \notin Followed
  BY HandedWon DEF Engine, Parts, FollowedHanded
<1>2. ASSUME NEW st \in Streams, NEW i \in DOMAIN sent[st], sent[st][i].uuid = u PROVE FALSE
  <2>1. sent[st][i] \in Truths /\ sent[st][i] \in BundleResult
    BY DEF Engine, Told, Truths
  <2>2. sent[st][i].kind \in Kinds
    BY <2>1 DEF BundleResult
  <2>3. sent[st][i].kind \notin Verdicts
    BY <1>1, <1>2, <2>1 DEF Truths, Followed
  <2> QED BY <1>2, <2>1, <2>2, <2>3 DEF Truths, Out, Kinds, Verdicts
<1> QED BY <1>1, <1>2

\* A failed dry run is told once, of a bundle nothing was told of.
LEMMA SimulateTells ==
  ASSUME Engine, NEW i \in DOMAIN buffer, NEW o \in SimOutcome, Simulate(i, o),
         o.status = "failed", [PipeNext]_pipeVars, Parts'
  PROVE  Told'
<1> DEFINE u == buffer[i].uuid
<1>0. /\ AuctionTypeOK /\ Control /\ Places /\ HubTypeOK /\ Passed /\ SimOpen
      /\ [AuctionNext]_auctionVars /\ SetSimulation(i, o) /\ PublishLookup("auction", u, "simfail")
      /\ UNCHANGED trackerVars
  BY AuctionStepOf DEF Engine, Parts, Simulate
<1>1. u \in Uuids /\ u \in UuidsOf(buffer) /\ u \in Submitted
  BY <1>0, AuctionUuids DEF UuidsOf, Places
<1>2. u \notin Won /\ u \notin UuidsOf(ranked)
  <2>1. Won = Elements(chan) \cup UuidsOf(winners)
    BY DEF Won, UuidsOf
  <2> QED BY <1>0, <1>1, <2>1 DEF Places
<1>3. ~Rejected(u)
  BY <1>0 DEF SetSimulation, SimOpen, Rejected
<1>4. u \notin Followed /\ \A st \in Streams : \A j \in DOMAIN sent[st] : sent[st][j].uuid # u
  BY <1>1, <1>2, <1>3, NothingTold
<1>5. [uuid |-> u, kind |-> "simfail"] \in Truths'
  <2>1. UNCHANGED <<handler, ranked, winners, chan>>
    BY <1>0 DEF SetSimulation, roundVars, chanVars
  <2>2. \A j \in DOMAIN buffer' : buffer'[j].uuid = u => FailedSimulation(buffer'[j])
    <3> SUFFICES ASSUME NEW j \in DOMAIN buffer', buffer'[j].uuid = u
                 PROVE  FailedSimulation(buffer'[j])
      OBVIOUS
    <3>1. j \in DOMAIN buffer /\ buffer[j].uuid = u
      BY <1>0, RecordedEntry
    <3>2. j = i
      BY <1>0, <3>1 DEF Places, HeldOnce
    <3> QED BY <1>0, <3>2, RecordedEntry DEF FailedSimulation
  <2>3. PICK w \in Uuids : w = u
    BY <1>1
  <2>4. w \in Submitted' /\ w \notin Won' /\ w \notin UuidsOf(ranked')
    BY <1>1, <1>2, <2>1, <2>3 DEF Submitted, Won
  <2>5. Rejected(w)'
    BY <2>2, <2>3, <2>4 DEF Rejected
  <2>6. w \in Out'
    BY <2>5 DEF Out
  <2> QED BY <2>3, <2>6 DEF Truths, BundleResult, Kinds, Verdicts
<1>6. Followed' = Followed
  BY <1>0 DEF trackerVars, pollVars, Followed
<1>7. "auction" \in Publishers /\ "simfail" \in Kinds /\ "simfail" \notin Verdicts
  BY PipelineAssumption DEF Kinds, Verdicts
<1> HIDE DEF u
<1>8. \A st \in Streams : \A j \in DOMAIN sent[st] :
        sent[st][j].uuid = u => Stage(sent[st][j].kind) < Stage("simfail")
  BY <1>4
<1>9. u \in Uuids /\ u \notin Followed /\ PublishLookup("auction", u, "simfail")
  BY <1>0, <1>1, <1>4
<1> QED BY <1>5, <1>6, <1>7, <1>8, <1>9, PublishTells, ZenonT(30)

\* The outcome of the auction is told once, of a bundle nothing was told of.
LEMMA DecideTells ==
  ASSUME Engine, Decide, [PipeNext]_pipeVars, Parts' PROVE Told'
<1> DEFINE u == Head(ranked).uuid
<1>0. /\ AuctionTypeOK /\ Control /\ Places /\ HubTypeOK /\ Passed /\ SimOpen
      /\ [AuctionNext]_auctionVars /\ UNCHANGED trackerVars
  BY AuctionStepOf DEF Engine, Parts, Decide
<1>1. ranked # <<>> /\ ranked' = Tail(ranked) /\ pc = "drain" /\ UNCHANGED <<handler, buffer, chan>>
  BY DEF Decide, Win, Lose, chanVars
<1>2. u \in Uuids /\ u \in UuidsOf(ranked) /\ u \notin UuidsOf(ranked') /\ u \in Submitted
  BY <1>0, <1>1, AuctionUuids, HeadLeaves DEF Places
<1>3. u \notin Won /\ ~Rejected(u)
  <2>1. Won = Elements(chan) \cup UuidsOf(winners)
    BY DEF Won, UuidsOf
  <2> QED BY <1>0, <1>2, <2>1 DEF Places, Rejected
<1>4. u \notin Followed /\ \A st \in Streams : \A j \in DOMAIN sent[st] : sent[st][j].uuid # u
  BY <1>2, <1>3, NothingTold
<1>5. Followed' = Followed
  BY <1>0 DEF trackerVars, pollVars, Followed
<1>6. /\ "auction" \in Publishers /\ "accepted" \in Kinds /\ "accepted" \notin Verdicts
      /\ "lost" \in Kinds /\ "lost" \notin Verdicts
  BY PipelineAssumption DEF Kinds, Verdicts
<1>7. CASE Win /\ PublishLookup("auction", u, "accepted")
  <2>1. u \in Won'
    BY <1>0, <1>7, WonSteps
  <2>2. [uuid |-> u, kind |-> "accepted"] \in Truths'
    BY <1>2, <2>1, <1>6 DEF Truths, BundleResult
  <2> HIDE DEF u
  <2> QED BY <1>2, <1>4, <1>5, <1>6, <1>7, <2>2, PublishTells
<1>8. CASE Lose /\ PublishLookup("auction", u, "lost")
  <2>1. PICK w \in Uuids : w = u
    BY <1>2
  <2>2. w \notin Won' /\ w \in Submitted' /\ w \notin UuidsOf(ranked')
    <3>1. ~Win
      BY <1>8 DEF Win, Lose
    <3> QED BY <1>0, <1>1, <1>2, <1>3, <2>1, <3>1, WonSteps DEF Submitted
  <2>3. DOMAIN buffer' = {}
    BY <1>0, <1>1, SMTT(30) DEF Control
  <2>4. Rejected(w)'
    BY <2>2, <2>3 DEF Rejected
  <2>5. w \in Out'
    BY <2>4 DEF Out
  <2>6. [uuid |-> u, kind |-> "lost"] \in Truths'
    BY <2>1, <2>5, <1>6 DEF Truths, BundleResult
  <2> HIDE DEF u
  <2> QED BY <1>2, <1>4, <1>5, <1>6, <1>8, <2>6, PublishTells
<1> QED BY <1>7, <1>8 DEF Decide

\* The verdicts on a bundle come after Accepted, and a terminal one last.
LEMMA EmitTells ==
  ASSUME Engine, NEW u \in Uuids, Emit(u), [PipeNext]_pipeVars, Parts' PROVE Told'
<1>0. AuctionTypeOK /\ Control /\ Passed /\ HubTypeOK /\ Shape /\ FateOK /\ FollowedHanded
  BY DEF Engine, Parts
<1>1. u \in Followed /\ u \in Won
  <2>1. u \in toProcess \cup toFinalize \cup toDrop
    BY DEF Emit, EmitProcessed, EmitFinalized, EmitDropped
  <2>2. u \in Followed
    BY <2>1 DEF Followed
  <2> QED BY <1>0, <2>2, HandedWon DEF FollowedHanded
<1>2. Following
  BY DEF Emit, Following, TrackerTask
<1>3. Followed' \subseteq Followed
  BY <1>0, <1>2, FollowingKeeps
<1>4. ASSUME NEW st \in Streams, NEW i \in DOMAIN sent[st], sent[st][i].uuid = u
      PROVE  sent[st][i].kind = "accepted" \/ (sent[st][i].kind \in Verdicts /\ sent[st][i].kind \in reports[u])
  <2>1. sent[st][i] \in Truths /\ sent[st][i].kind \in Kinds
    BY DEF Engine, Told, Truths, BundleResult
  <2>2. u \notin Out
    BY <1>1 DEF Out, Rejected
  <2> QED BY <1>4, <2>1, <2>2 DEF Truths, Kinds, Verdicts
<1>5. reports \in [Uuids -> SUBSET Verdicts] /\ OneFate /\ ProcessedOnce
  BY <1>0 DEF Shape, TrackerTypeOK, FateOK
<1>6. /\ "tracker" \in Publishers
      /\ \A k \in Verdicts : k \in Kinds /\ k \notin {"accepted", "lost", "simfail"}
  BY PipelineAssumption DEF Kinds, Verdicts
<1>7. ASSUME NEW k \in Verdicts, Report(u, k) PROVE [uuid |-> u, kind |-> k] \in Truths'
  <2>1. k \in reports'[u]
    BY <1>5, <1>7 DEF Report
  <2> QED BY <1>6, <2>1 DEF Truths, BundleResult
<1>8. CASE EmitProcessed(u) /\ PublishLookup("tracker", u, "processed")
  <2>1. reports[u] = {} /\ "processed" \in Verdicts /\ Report(u, "processed")
    BY <1>5, <1>8 DEF EmitProcessed, OneFate, ProcessedOnce, Verdicts
  <2>2. \A st \in Streams : \A i \in DOMAIN sent[st] :
          sent[st][i].uuid = u => Stage(sent[st][i].kind) < Stage("processed")
    <3> SUFFICES ASSUME NEW st \in Streams, NEW i \in DOMAIN sent[st], sent[st][i].uuid = u
                 PROVE  Stage(sent[st][i].kind) < Stage("processed")
      OBVIOUS
    <3>1. sent[st][i].kind = "accepted" \/ sent[st][i].kind \in reports[u]
      BY <1>4
    <3>2. sent[st][i].kind = "accepted"
      BY <2>1, <3>1
    <3> QED BY <3>2, Stages, SMTT(30)
  <2>3. [uuid |-> u, kind |-> "processed"] \in Truths'
    BY <1>7, <2>1
  <2> QED BY <1>3, <1>6, <1>8, <2>1, <2>2, <2>3, PublishTells
<1>9. ASSUME NEW k \in {"finalized", "dropped"}, Report(u, k), PublishLookup("tracker", u, k),
             u \in toFinalize \cup toDrop
      PROVE  Told'
  <2>1. reports[u] \cap {"finalized", "dropped"} = {} /\ k \in Verdicts
    BY <1>5, <1>9 DEF OneFate, Verdicts
  <2>2. \A st \in Streams : \A i \in DOMAIN sent[st] :
          sent[st][i].uuid = u => sent[st][i].kind \in {"accepted", "processed"}
    BY <1>4, <2>1 DEF Verdicts
  <2>3. \A st \in Streams : \A i \in DOMAIN sent[st] :
          sent[st][i].uuid = u => Stage(sent[st][i].kind) < Stage(k)
    <3> SUFFICES ASSUME NEW st \in Streams, NEW i \in DOMAIN sent[st], sent[st][i].uuid = u
                 PROVE  Stage(sent[st][i].kind) < Stage(k)
      OBVIOUS
    <3>1. sent[st][i].kind = "accepted" \/ sent[st][i].kind = "processed"
      BY <2>2
    <3>2. Stage(k) = 3
      BY <1>9, Stages
    <3>3. Stage(sent[st][i].kind) = 1 \/ Stage(sent[st][i].kind) = 2
      BY <3>1, Stages
    <3> QED BY <3>2, <3>3, SMTT(30)
  <2>4. [uuid |-> u, kind |-> k] \in Truths'
    BY <1>7, <1>9, <2>1
  <2> QED BY <1>3, <1>6, <1>9, <2>1, <2>3, <2>4, PublishTells
<1>10. CASE EmitFinalized(u) /\ PublishLookup("tracker", u, "finalized")
  BY <1>9, <1>10 DEF EmitFinalized
<1>11. CASE EmitDropped(u) /\ PublishLookup("tracker", u, "dropped")
  BY <1>9, <1>11 DEF EmitDropped
<1> QED BY <1>8, <1>10, <1>11 DEF Emit

\* The steps that tell nothing leave the streams and the messages alone.
LEMMA SilentSteps ==
  ASSUME [PipeNext]_pipeVars
  PROVE  \/ UNCHANGED <<sent, inflight>>
         \/ \E i \in DOMAIN buffer, o \in SimOutcome : Simulate(i, o) /\ o.status = "failed"
         \/ Decide
         \/ \E u \in Uuids : Emit(u)
         \/ \E p \in Publishers : DeliverResult(p)
<1>1. ASSUME NEW i \in DOMAIN buffer, NEW o \in SimOutcome, Simulate(i, o), o.status # "failed"
      PROVE  UNCHANGED <<sent, inflight>>
  BY <1>1 DEF Simulate, hubVars, streamVars
<1>2. ASSUME AuctionStep \/ HandOff \/ Poll \/ Environment \/ \E u \in Uuids : Submit(u)
      PROVE  UNCHANGED <<sent, inflight>>
  BY <1>2 DEF AuctionStep, HandOff, Poll, Environment, Submit, hubVars, streamVars
<1>3. ASSUME PruneOwners \/ PipeElapse PROVE UNCHANGED <<sent, inflight>>
  BY <1>3 DEF PruneOwners, PipeElapse, Prune, HubElapse, streamVars
<1>4. ASSUME \/ \E u \in Uuids, s \in Searchers : RegisterBundle(u, s)
             \/ \E st \in Streams : Stream(st)
      PROVE  UNCHANGED <<sent, inflight>>
  BY <1>4 DEF RegisterBundle, Stream, Register, AddSubscriber, Receive, Disconnect, streamVars
<1>5. CASE UNCHANGED pipeVars
  BY <1>5 DEF pipeVars, hubVars, streamVars
<1> QED BY <1>1, <1>2, <1>3, <1>4, <1>5 DEF PipeNext, AuctionRuns, TrackerRuns

\* Every step of the pipeline keeps what searchers are told true and in order.
LEMMA NextTold ==
  ASSUME Engine, [PipeNext]_pipeVars, Parts' PROVE Told'
<1>1. CASE UNCHANGED <<sent, inflight>>
  <2>1. Truths \subseteq Truths'
    BY TruthsGrow
  <2>2. \A m \in inflight["auction"] : m.uuid \notin Followed'
    <3>1. CASE HandOff
      <4>1. inflight["auction"] = {}
        BY <3>1 DEF HandOff, Published
      <4> QED BY <4>1
    <3>2. CASE Following
      BY <3>2, FollowingKeeps DEF Engine, Parts, Told
    <3> QED BY <3>1, <3>2, FollowingCases
  <2> QED BY <1>1, <2>1, <2>2 DEF Engine, Told, ResultsProgress, Result
<1>2. CASE \E i \in DOMAIN buffer, o \in SimOutcome : Simulate(i, o) /\ o.status = "failed"
  BY <1>2, SimulateTells
<1>3. CASE Decide
  BY <1>3, DecideTells
<1>4. CASE \E u \in Uuids : Emit(u)
  BY <1>4, EmitTells
<1>5. CASE \E p \in Publishers : DeliverResult(p)
  BY <1>5, DeliveryTells
<1> QED BY <1>1, <1>2, <1>3, <1>4, <1>5, SilentSteps

\* The invariant of the engine is inductive.
LEMMA NextEngine == Engine /\ [PipeNext]_pipeVars => Engine'
<1> SUFFICES ASSUME Engine, [PipeNext]_pipeVars PROVE Engine'
  OBVIOUS
<1>0. Parts /\ FollowedHanded /\ Passed /\ SimOpen /\ AuctionTypeOK /\ Control /\ Places
  BY DEF Engine, Parts
<1>1. Parts'
  BY <1>0, NextParts
<1>2. FollowedHanded'
  BY <1>0, NextFollowed
<1>3. Passed' /\ SimOpen'
  BY <1>0, AuctionStepOf, NextPassed, NextSimOpen
<1>4. Told'
  BY <1>1, NextTold
<1> QED BY <1>1, <1>2, <1>3, <1>4 DEF Engine

\* Initially no bundle is anywhere and nobody has been told anything.
LEMMA InitEngine == PipeInit => Engine
<1> SUFFICES ASSUME PipeInit PROVE Engine
  OBVIOUS
<1>1. AuctionInit /\ HubInit /\ TrackerInit
  BY DEF PipeInit
<1>2. AuctionTypeOK /\ Control /\ HubTypeOK
  BY <1>1, InitTypeOK, HubInitTypeOK
<1>3. Places
  BY <1>1, InitPlaces
<1>4. Shape
  BY <1>1, TrackerAssumption, SMTT(30) DEF TrackerInit, Shape, TrackerTypeOK, ListsEmpty, Commitment
<1>5. FateOK
  BY <1>1 DEF TrackerInit, FateOK, Placed, Flagged, OneFate, ProcessedOnce
<1>6. FollowedHanded
  BY <1>1 DEF TrackerInit, FollowedHanded, Followed
<1>7. Passed /\ SimOpen
  BY <1>1, SMTT(30) DEF AuctionInit, Passed, SimOpen
<1>8. Told
  BY <1>1, PipelineAssumption, SMTT(30) DEF HubInit, Told, ResultsProgress
<1> QED BY <1>2, <1>3, <1>4, <1>5, <1>6, <1>7, <1>8 DEF Engine, Parts

\* So it holds throughout.
LEMMA EngineHolds == PipeSpec => []Engine
BY InitEngine, NextEngine, PTL DEF PipeSpec

\* Results progress: on every stream the results of one bundle come in the
\* order Accepted, Processed, terminal, none twice and nothing after the
\* terminal one, although two tasks publish, each in two critical sections.
THEOREM ResultsAreInOrder == PipeSpec => []ResultsProgress
<1>1. Engine => ResultsProgress
  BY DEF Engine, Told
<1> QED BY <1>1, EngineHolds, PTL

\* A searcher told that its bundle was rejected can rely on it: the bundle is
\* not, and will not be, tracked or sent to the validators.
THEOREM RejectedAreNotForwarded == PipeSpec => []RejectedNotForwarded
<1>1. Engine => RejectedNotForwarded
  <2> SUFFICES ASSUME Engine, NEW st \in Streams, NEW i \in DOMAIN sent[st],
                      sent[st][i].kind \in {"lost", "simfail"}
               PROVE  sent[st][i].uuid \notin Won \cup pending
    BY DEF RejectedNotForwarded
  <2>1. sent[st][i].uuid \in Out
    BY DEF Engine, Told, Truths
  <2>2. sent[st][i].uuid \in Uuids /\ sent[st][i].uuid \notin Won
    BY <2>1 DEF Out, Rejected
  <2>3. Followed \subseteq Won
    BY HandedWon DEF Engine, Parts, FollowedHanded
  <2> QED BY <2>2, <2>3 DEF Followed
<1> QED BY <1>1, EngineHolds, PTL

-----------------------------------------------------------------------------
(* The parts inside the whole *)

\* The pipeline implements the specification of each of its parts, which
\* therefore keep, composed, everything that is proved of them alone.
THEOREM PartsImplemented == PipeSpec => AuctionSpec /\ HubSpec /\ TrackerSpec
<1>1. PipeInit => AuctionInit /\ HubInit /\ TrackerInit
  BY DEF PipeInit
<1>2. Engine /\ [PipeNext]_pipeVars =>
        [AuctionNext]_auctionVars /\ [HubNext]_hubVars /\ [TrackerNext]_trackerVars
  BY AuctionStepOf, HubStepOf, TrackerStepOf DEF Engine, Parts
<1> QED BY <1>1, <1>2, EngineHolds, PTL DEF PipeSpec, AuctionSpec, HubSpec, TrackerSpec

\* So the composed engine keeps the budget and the order of every auction, sends
\* no bundle twice, routes each result to its owner with one terminal result at
\* most, and reports what is true of the cluster - with the four tasks
\* interleaved, where each part was proved to do so alone.
THEOREM EngineKeepsPromises ==
  PipeSpec => [](/\ WinnersFit /\ LosersDoNotFit /\ OnlyLiveBundlesCompete /\ WinnersRanked
                 /\ SentOnce /\ MetricsBalance
                 /\ RoutedToOwner /\ AtMostOneTerminal /\ OpenStreamsKept
                 /\ ReportsAreTrue /\ OneFate /\ ProcessedOnce /\ AskedNotDropped)
BY PartsImplemented, WinnersAllFit, GreedyWithinBudget, OnlyLiveCompete, WinnersAreRanked,
   WinnersAreSentOnce, CountersBalance, ResultsAreRouted, OneTerminalResult, OpenStreamsStay,
   ReportsTrue, OneFateEach, ProcessedIsOnce, AskedAreNotDropped, PTL

\* What a searcher reads on its stream is about its own bundle and holds when it
\* is read: the bundle has won if it is Accepted or followed, it has landed if
\* it is Processed or Finalized, and it is not also finalized if it is Dropped.
ResultsHold ==
  \A st \in Streams : \A i \in DOMAIN sent[st] :
    LET u == sent[st][i].uuid
        kind == sent[st][i].kind
    IN  /\ conn[st].who = submitter[u]
        /\ kind \in Verdicts \cup {"accepted"} => u \in Won
        /\ kind = "processed" => Landed(u, chain, {"confirmed", "finalized"})
        /\ kind = "finalized" => Landed(u, chain, {"finalized"})
        /\ kind = "dropped" => u \notin pending /\ "finalized" \notin reports[u]

\* A result stays true until the searcher reads it, and afterwards: although it
\* rests on an answer older than the report, and the report is older than its
\* delivery, which is a critical section of its own.
THEOREM ResultsStayTrue == PipeSpec => []ResultsHold
<1>1. Engine /\ RoutedToOwner /\ ReportsAreTrue => ResultsHold
  <2> SUFFICES ASSUME Engine, RoutedToOwner, ReportsAreTrue,
                      NEW st \in Streams, NEW i \in DOMAIN sent[st],
                      NEW u, u = sent[st][i].uuid, NEW kind, kind = sent[st][i].kind
               PROVE  /\ conn[st].who = submitter[u]
                      /\ kind \in Verdicts \cup {"accepted"} => u \in Won
                      /\ kind = "processed" => Landed(u, chain, {"confirmed", "finalized"})
                      /\ kind = "finalized" => Landed(u, chain, {"finalized"})
                      /\ kind = "dropped" => u \notin pending /\ "finalized" \notin reports[u]
    BY DEF ResultsHold
  <2>1. conn[st].who = submitter[u]
    BY DEF RoutedToOwner
  <2>2. /\ u \in Uuids
        /\ kind = "accepted" => u \in Won
        /\ kind \in Verdicts => kind \in reports[u]
    BY DEF Engine, Told, Truths, BundleResult
  <2>3. kind \in Verdicts => u \in Followed
    BY <2>2 DEF Followed
  <2>4. Followed \subseteq Won
    BY HandedWon DEF Engine, Parts, FollowedHanded
  <2>5. \A v \in Uuids : "dropped" \in reports[v] => v \notin pending /\ "finalized" \notin reports[v]
    BY DEF Engine, Parts, FateOK, OneFate
  <2>6. /\ kind = "processed" => Landed(u, chain, {"confirmed", "finalized"})
        /\ kind = "finalized" => Landed(u, chain, {"finalized"})
    BY <2>2 DEF ReportsAreTrue, Verdicts
  <2>7. kind = "dropped" => u \notin pending /\ "finalized" \notin reports[u]
    BY <2>2, <2>5 DEF Verdicts
  <2>8. kind \in Verdicts \cup {"accepted"} => u \in Won
    BY <2>2, <2>3, <2>4
  <2> QED BY <2>1, <2>6, <2>7, <2>8
<1> QED BY <1>1, EngineHolds, EngineKeepsPromises, PTL

\* Nothing that was decided of a bundle is ever undone: who has won has won, who
\* is out stays out, what has been reported stays reported.
DecisionsStand ==
  /\ Won \subseteq Won' /\ Out \subseteq Out'
  /\ \A u \in Uuids : reports[u] \subseteq reports'[u]

\* No step of any task takes back a decision, over any number of rounds and
\* polls: the round forgets its winners only after all of them are handed on.
THEOREM DecisionsAreFinal == PipeSpec => [][DecisionsStand]_pipeVars
<1>1. Engine /\ [PipeNext]_pipeVars => [DecisionsStand]_pipeVars
  <2> SUFFICES ASSUME Engine, [PipeNext]_pipeVars PROVE DecisionsStand
    OBVIOUS
  <2>1. /\ AuctionTypeOK /\ Control /\ Places /\ Passed /\ SimOpen /\ Shape
        /\ [AuctionNext]_auctionVars /\ [TrackerNext]_trackerVars
    BY AuctionStepOf, TrackerStepOf DEF Engine, Parts
  <2>2. Won \subseteq Won'
    BY <2>1, WonSteps
  <2>3. Out \subseteq Out'
    BY <2>1, RejectedStays DEF Out
  <2>4. \A u \in Uuids : reports[u] \subseteq reports'[u]
    BY <2>1, ReportsGrow
  <2> QED BY <2>2, <2>3, <2>4 DEF DecisionsStand
<1> QED BY <1>1, EngineHolds, PTL DEF PipeSpec

-----------------------------------------------------------------------------
(* The life of a bundle *)

InAuction == UuidsOf(buffer) \cup UuidsOf(ranked)

\* The bundles an auction has consumed without accepting them.
Gone == (Submitted \ InAuction) \ Won

\* The fate of u by what was reported of it, who won and who is gone.
FateBy(u, R, W, G) ==
  IF "finalized" \in R THEN "finalized"
  ELSE IF "dropped" \in R THEN "dropped"
  ELSE IF R = {"processed"} THEN "processed"
  ELSE IF R # {} THEN "received"
  ELSE IF u \in W THEN "accepted"
  ELSE IF u \in G THEN "discarded" ELSE "received"

\* The refinement mapping depends on these three only.
LEMMA FateIsBy == \A u \in Uuids : FateOf(u) = FateBy(u, reports[u], Won, Gone)
<1> SUFFICES ASSUME NEW u \in Uuids PROVE FateOf(u) = FateBy(u, reports[u], Won, Gone)
  OBVIOUS
<1> DEFINE free == \A b \in Elements(buffer) \cup Elements(ranked) : b.uuid # u
<1>1. free <=> u \notin InAuction
  BY DEF InAuction, UuidsOf, Elements
<1>2. handler[u] = "submitted" <=> u \in Submitted
  BY DEF Submitted
<1>3. (u \notin Won /\ handler[u] = "submitted" /\ free) <=> u \in Gone
  BY <1>1, <1>2 DEF Gone
<1>4. FateOf(u) =
        CASE "finalized" \in reports[u] -> "finalized"
          [] "dropped" \in reports[u] /\ "finalized" \notin reports[u] -> "dropped"
          [] reports[u] = {"processed"} -> "processed"
          [] reports[u] = {} /\ u \in Won -> "accepted"
          [] reports[u] = {} /\ u \notin Won /\ handler[u] = "submitted" /\ free -> "discarded"
          [] OTHER -> "received"
  BY DEF FateOf
<1> HIDE DEF free
<1>5. u \in Gone => u \notin Won
  BY DEF Gone
<1>6. CASE reports[u] = {}
  BY <1>3, <1>4, <1>5, <1>6 DEF FateBy
<1>7. CASE reports[u] # {}
  BY <1>4, <1>7, SMTT(30) DEF FateBy
<1> QED BY <1>6, <1>7

\* ... in the next state too.
LEMMA FateIsByNext == \A u \in Uuids : FateOf(u)' = FateBy(u, reports'[u], Won', Gone')
<1>1. (\A u \in Uuids : FateOf(u) = FateBy(u, reports[u], Won, Gone))'
  BY FateIsBy, PTL
<1> QED BY <1>1 DEF FateBy

\* Only a poll's publications add to the reports.
LEMMA ReportingSteps ==
  ASSUME [PipeNext]_pipeVars PROVE (\E u \in Uuids : Emit(u)) \/ reports' = reports
<1>1. ASSUME HandOff PROVE reports' = reports
  BY <1>1 DEF HandOff, Track
<1>2. ASSUME Poll PROVE reports' = reports
  BY <1>2 DEF Poll, PollCollect, RpcReply, RpcError, Resolve, ResolveTo, PollDone, EndPoll
<1>3. ASSUME PipeElapse \/ Environment PROVE reports' = reports
  BY <1>3 DEF PipeElapse, Environment, TrackerElapse, ChainStep, trackerVars
<1>4. ASSUME UNCHANGED trackerVars PROVE reports' = reports
  BY <1>4 DEF trackerVars
<1> QED
  BY <1>1, <1>2, <1>3, <1>4
    DEF PipeNext, AuctionRuns, AuctionStep, Simulate, Decide, TrackerRuns, RegisterBundle, Submit,
        Stream, DeliverResult, PruneOwners, pipeVars

\* A bundle the auction has consumed does not come back.
LEMMA AuctionTakesNew ==
  ASSUME AuctionTypeOK, Control, Places, [AuctionNext]_auctionVars, NEW u \in Submitted, u \notin InAuction
  PROVE  u \notin InAuction'
<1>1. u \notin UuidsOf(buffer')
  <2>1. ASSUME NEW v \in Uuids, SubmitPush(v) PROVE u \notin UuidsOf(buffer')
    <3>1. v # u
      BY <2>1 DEF SubmitPush, Submitted
    <3> QED BY <2>1, <3>1, PushedEntry, SMTT(30) DEF InAuction, UuidsOf
  <2>2. CASE AuctionElapse \/ \E k \in DOMAIN buffer, o \in SimOutcome : SetSimulation(k, o)
    BY <2>2, SameUuids DEF InAuction, UuidsOf
  <2>3. CASE RankBundles
    BY <2>3, SMTT(30) DEF RankBundles, RankInto, UuidsOf
  <2>4. CASE buffer' = buffer
    BY <2>4 DEF InAuction
  <2> QED BY <2>1, <2>2, <2>3, <2>4, BufferCases DEF AuctionTick, SubmitScore
<1>2. u \notin UuidsOf(ranked')
  <2>1. CASE RankBundles
    BY <2>1, RankedWereLive DEF InAuction, UuidsOf
  <2>2. CASE Win \/ Lose
    <3>1. ranked # <<>> /\ ranked' = Tail(ranked)
      BY <2>2 DEF Win, Lose
    <3> QED BY <3>1, HeadLeaves DEF Places, InAuction
  <2>3. CASE ranked' = ranked
    BY <2>3 DEF InAuction
  <2> QED BY <2>1, <2>2, <2>3, AuctionCases DEF SendWinner, SendInto, RoundDone, Elsewhere
<1> QED BY <1>1, <1>2 DEF InAuction

\* Winning takes one bundle out of the ranking, and it is not gone.
LEMMA WinnerNotGone ==
  ASSUME AuctionTypeOK, Control, Places, Passed, [AuctionNext]_auctionVars, Win
  PROVE  /\ Head(ranked).uuid \in Uuids /\ Head(ranked).uuid \notin Won \cup Gone
         /\ Gone' = Gone
<1> DEFINE h == Head(ranked).uuid
<1>1. ranked # <<>> /\ ranked' = Tail(ranked) /\ UNCHANGED <<handler, buffer>>
  BY DEF Win
<1>2. h \in Uuids /\ h \in UuidsOf(ranked) /\ UuidsOf(ranked') \subseteq UuidsOf(ranked)
  BY <1>1, AuctionUuids, HeadLeaves DEF Places
<1>3. UuidsOf(ranked) \subseteq UuidsOf(ranked') \cup {h}
  <2> SUFFICES ASSUME NEW i \in DOMAIN ranked PROVE ranked[i].uuid \in UuidsOf(ranked') \cup {h}
    BY DEF UuidsOf
  <2>1. /\ DOMAIN ranked = 1 .. Len(ranked) /\ DOMAIN ranked' = 1 .. Len(ranked) - 1
        /\ Len(ranked) \in Nat /\ Head(ranked) = ranked[1]
        /\ \A j \in 1 .. Len(ranked) - 1 : ranked'[j] = ranked[j + 1]
    BY <1>1, HeadTailProperties, LenProperties, SMTT(30) DEF AuctionTypeOK
  <2>2. CASE i = 1
    BY <2>1, <2>2
  <2>3. CASE i # 1
    <3>1. i - 1 \in DOMAIN ranked' /\ ranked'[i - 1] = ranked[i]
      BY <2>1, <2>3, SMTT(30)
    <3> QED BY <3>1 DEF UuidsOf
  <2> QED BY <2>2, <2>3
<1>4. Won = Elements(chan) \cup UuidsOf(winners)
  BY DEF Won, UuidsOf
<1>5. h \notin Won
  BY <1>2, <1>4 DEF Places
<1>6. Won' = Won \cup {h}
  BY WonSteps
<1>7. h \notin Gone
  BY <1>2 DEF Gone, InAuction
<1> HIDE DEF h
<1>8. Gone' = Gone
  BY <1>1, <1>2, <1>3, <1>6 DEF Gone, InAuction, Submitted
<1> QED BY <1>2, <1>5, <1>7, <1>8 DEF h

\* A step of the engine is a step in the life of its bundles: one is accepted,
\* processed, finalized or dropped, or an auction discards some.
LEMMA LifeSteps == Engine /\ [PipeNext]_pipeVars => Life!Next
<1> SUFFICES ASSUME Engine, [PipeNext]_pipeVars PROVE Life!Next
  OBVIOUS
<1> DEFINE F == [u \in Uuids |-> FateOf(u)]
<1>0. /\ AuctionTypeOK /\ Control /\ Places /\ Shape /\ FateOK /\ Passed /\ FollowedHanded
      /\ [AuctionNext]_auctionVars
  BY AuctionStepOf DEF Engine, Parts
<1>1. F = [u \in Uuids |-> FateBy(u, reports[u], Won, Gone)]
  BY FateIsBy
<1>2. F' = [u \in Uuids |-> FateBy(u, reports'[u], Won', Gone')]
  BY FateIsByNext
<1>3. Followed \subseteq Won
  BY <1>0, HandedWon DEF FollowedHanded
<1>4. \A u \in Uuids : u \notin Won => reports[u] = {}
  BY <1>3 DEF Followed
<1>5. ASSUME NEW u \in Uuids, NEW k \in Verdicts, Emit(u), Report(u, k),
             reports[u] \cap {"finalized", "dropped"} = {}, k = "processed" => reports[u] = {},
             u \in Followed
      PROVE  Life!Next
  <2>1. Won' = Won /\ Gone' = Gone
    BY <1>5 DEF Emit, auctionVars, roundVars, chanVars, Won, Gone, Submitted, InAuction
  <2>2. reports' = [reports EXCEPT ![u] = @ \cup {k}] /\ reports \in [Uuids -> SUBSET Verdicts]
    BY <1>0, <1>5 DEF Report, Shape, TrackerTypeOK
  <2>3. reports[u] = {} \/ reports[u] = {"processed"}
    BY <1>5, <2>2 DEF Verdicts
  <2>4. u \in Won
    BY <1>3, <1>5
  <2>5. F[u] = IF reports[u] = {} THEN "accepted" ELSE "processed"
    BY <1>1, <2>3, <2>4 DEF FateBy
  <2>6. F'[u] = k
    <3>1. reports'[u] = reports[u] \cup {k}
      BY <2>2
    <3>2. F'[u] = FateBy(u, reports'[u], Won', Gone')
      BY <1>2
    <3>3. CASE k = "processed"
      BY <1>5, <3>1, <3>2, <3>3 DEF FateBy
    <3>4. CASE k = "finalized"
      BY <3>1, <3>2, <3>4 DEF FateBy
    <3>5. CASE k = "dropped"
      BY <2>3, <3>1, <3>2, <3>5 DEF FateBy
    <3> QED BY <3>3, <3>4, <3>5 DEF Verdicts
  <2>7. \A v \in Uuids : v # u => F'[v] = F[v]
    BY <1>1, <1>2, <2>1, <2>2
  <2>8. F' = [v \in Uuids |-> IF v \in {u} THEN k ELSE F[v]]
    <3>1. F' = [v \in Uuids |-> F'[v]]
      BY <1>2
    <3> HIDE DEF F
    <3> QED BY <2>6, <2>7, <3>1
  <2> HIDE DEF F
  <2>9. \/ k = "processed" /\ F[u] \in {"accepted"}
        \/ k = "finalized" /\ F[u] \in {"accepted", "processed"}
        \/ k = "dropped" /\ F[u] \in {"accepted", "processed"}
    BY <1>5, <2>5 DEF Verdicts
  <2>10. Life!Process(u) \/ Life!Finalize(u) \/ Life!Drop(u)
    BY <2>8, <2>9 DEF F, Life!Process, Life!Finalize, Life!Drop, Life!Move
  <2> QED BY <2>10 DEF Life!Next
<1>6. ASSUME NEW u \in Uuids, Emit(u) PROVE Life!Next
  <2>1. PICK k \in Verdicts :
          /\ Report(u, k)
          /\ k = "processed" => u \in toProcess
          /\ u \in toProcess \cup toFinalize \cup toDrop
    BY <1>6 DEF Emit, EmitProcessed, EmitFinalized, EmitDropped, Verdicts
  <2>2. u \in Followed
    BY <2>1 DEF Followed
  <2>3. reports[u] \cap {"finalized", "dropped"} = {}
    BY <1>0, <2>1 DEF FateOK, OneFate
  <2>4. k = "processed" => reports[u] = {}
    BY <1>0, <2>1, <2>3 DEF FateOK, ProcessedOnce, Shape, TrackerTypeOK, Verdicts
  <2> QED BY <1>5, <1>6, <2>1, <2>2, <2>3, <2>4
<1>7. ASSUME reports' = reports, Win PROVE Life!Next
  <2> DEFINE h == Head(ranked).uuid
  <2>1. /\ h \in Uuids /\ h \notin Won /\ h \notin Gone /\ Gone' = Gone
        /\ Won' = Won \cup {h}
    BY <1>0, <1>7, WinnerNotGone, WonSteps
  <2> HIDE DEF h
  <2>2. reports[h] = {}
    BY <1>4, <2>1
  <2>3. F[h] = "received" /\ F'[h] = "accepted"
    BY <1>1, <1>2, <1>7, <2>1, <2>2 DEF FateBy
  <2>4. \A v \in Uuids : v # h => F'[v] = F[v]
    BY <1>1, <1>2, <1>7, <2>1 DEF FateBy
  <2>5. F' = [v \in Uuids |-> IF v \in {h} THEN "accepted" ELSE F[v]]
    <3>1. F' = [v \in Uuids |-> F'[v]]
      BY <1>2
    <3> HIDE DEF F
    <3> QED BY <2>3, <2>4, <3>1
  <2> HIDE DEF F
  <2>6. Life!Accept(h)
    BY <2>3, <2>5 DEF F, Life!Accept, Life!Move
  <2> QED BY <2>1, <2>6 DEF Life!Next
<1>8. ASSUME reports' = reports, ~Win PROVE Life!Next
  <2>1. Won' = Won
    BY <1>0, <1>8, WonSteps
  <2>2. Gone \subseteq Gone'
    BY <1>0, <2>1, SubmittedStays, AuctionTakesNew DEF Gone
  <2> DEFINE S == Gone' \ Gone
  <2>3. S \in SUBSET Uuids /\ S \cap Won = {}
    BY <2>1 DEF Gone, Submitted
  <2>4. \A u \in S : F[u] = "received" /\ F'[u] = "discarded"
    <3> SUFFICES ASSUME NEW u \in S PROVE F[u] = "received" /\ F'[u] = "discarded"
      OBVIOUS
    <3>1. u \in Uuids /\ u \notin Won /\ u \notin Gone /\ u \in Gone' /\ reports[u] = {}
      BY <1>4, <2>3
    <3> QED BY <1>1, <1>2, <1>8, <2>1, <3>1 DEF FateBy
  <2>5. \A u \in Uuids : u \notin S => F'[u] = F[u]
    <3> SUFFICES ASSUME NEW u \in Uuids, u \notin S PROVE F'[u] = F[u]
      OBVIOUS
    <3>1. u \in Gone <=> u \in Gone'
      BY <2>2
    <3> QED BY <1>1, <1>2, <1>8, <2>1, <3>1 DEF FateBy
  <2>6. PICK T \in SUBSET Uuids : T = S
    BY <2>3
  <2> HIDE DEF S
  <2>7. F' = [u \in Uuids |-> IF u \in T THEN "discarded" ELSE F[u]]
    <3>1. F' = [u \in Uuids |-> F'[u]]
      BY <1>2
    <3> HIDE DEF F
    <3> QED BY <2>4, <2>5, <2>6, <3>1
  <2>8. \A u \in T : F[u] \in {"received"}
    BY <2>4, <2>6
  <2> HIDE DEF F
  <2>9. Life!Discard(T)
    BY <2>7, <2>8 DEF F, Life!Discard, Life!Move
  <2> QED BY <2>9 DEF Life!Next
<1> QED BY <1>6, <1>7, <1>8, ReportingSteps

\* The composed tasks implement the life of a bundle: every bundle is accepted
\* or discarded, never both, only an accepted one is followed on chain, and it
\* meets at most one end.
THEOREM PipelineImplementsLife == PipeSpec => ImplementsBundleLife
<1>1. PipeInit => Life!Init
  <2> SUFFICES ASSUME PipeInit PROVE Life!Init
    OBVIOUS
  <2>1. Won = {} /\ Gone = {} /\ \A u \in Uuids : reports[u] = {}
    <3>1. chan = <<>> /\ winners = <<>> /\ Submitted = {}
      BY DEF PipeInit, AuctionInit, Submitted
    <3>2. \A u \in Uuids : reports[u] = {}
      BY DEF PipeInit, TrackerInit
    <3>3. Elements(chan) = {} /\ UuidsOf(winners) = {}
      BY <3>1, NothingHeld
    <3>4. Won = Elements(chan) \cup UuidsOf(winners)
      BY DEF Won, UuidsOf
    <3> QED BY <3>1, <3>2, <3>3, <3>4 DEF Gone
  <2>2. \A u \in Uuids : FateOf(u) = "received"
    BY <2>1, FateIsBy DEF FateBy
  <2> QED BY <2>2 DEF Life!Init
<1> QED BY <1>1, LifeSteps, EngineHolds, PTL DEF PipeSpec, ImplementsBundleLife, Life!Spec
=============================================================================
