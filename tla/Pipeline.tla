------------------------------ MODULE Pipeline ------------------------------
(***************************************************************************)
(* The life of a bundle through the engine: the searcher service, the      *)
(* auction task, the results hub and the on-chain tracker, composed as     *)
(* block_engine/src/main.rs wires them.                                    *)
(*                                                                         *)
(* A step of the auction or tracker task that publishes is conjoined with  *)
(* the first half of the hub's publish; the task goes on only when the     *)
(* second half is done. Everything else interleaves.                       *)
(***************************************************************************)
EXTENDS Auction, BundleResults, BundleTracker

ASSUME PipelineAssumption == Publishers = {"auction", "tracker"}

pipeVars == <<auctionVars, hubVars, trackerVars>>

PipeInit == AuctionInit /\ HubInit /\ TrackerInit

-----------------------------------------------------------------------------
(* Searcher service *)

\* send_bundle with a bundle: register first, then (observe_bundle touches
\* only the interest registry) submit.
RegisterBundle(u, s) == Register(u, s) /\ UNCHANGED <<auctionVars, trackerVars>>

Submit(u) ==
  /\ submitter[u] # NoOwner
  /\ SubmitScore(u) \/ SubmitPush(u)
  /\ UNCHANGED <<hubVars, trackerVars>>

Stream(st) ==
  /\ \/ \E s \in Searchers : AddSubscriber(s, st)
     \/ Receive(st)
     \/ Disconnect(st)
  /\ UNCHANGED <<auctionVars, trackerVars>>

-----------------------------------------------------------------------------
(* Auction task *)

Published(task) == inflight[task] = {}

Simulate(i, o) ==
  /\ Published("auction") /\ SetSimulation(i, o)
  /\ IF o.status = "failed"
     THEN PublishLookup("auction", buffer[i].uuid, "simfail")
     ELSE UNCHANGED hubVars
  /\ UNCHANGED trackerVars

\* Faulty: starts tracking every bundle the loop drains, losers included.
DecideAndTrack ==
  /\ Published("auction")
  /\ \/ Win /\ PublishLookup("auction", Head(ranked).uuid, "accepted")
     \/ Lose /\ PublishLookup("auction", Head(ranked).uuid, "lost")
  /\ Track(Head(ranked).uuid)

\* One iteration of run_auction's loop and the result it publishes.
Decide ==
  /\ Published("auction")
  /\ \/ Win /\ PublishLookup("auction", Head(ranked).uuid, "accepted")
     \/ Lose /\ PublishLookup("auction", Head(ranked).uuid, "lost")
  /\ UNCHANGED trackerVars

\* The next winner: tracking begins before the bundle is handed off.
HandOff ==
  /\ Published("auction") /\ BeginHandOff
  /\ Track(winners[handed + 1].uuid)
  /\ UNCHANGED hubVars

\* The steps that publish nothing.
AuctionStep ==
  /\ Published("auction")
  /\ \/ AuctionTick \/ RunAuctionEmpty \/ RankBundles
     \/ FinishAuction \/ SendWinner \/ SendFails \/ RoundDone
  /\ UNCHANGED <<hubVars, trackerVars>>

AuctionRuns ==
  \/ AuctionStep
  \/ \E i \in DOMAIN buffer, o \in SimOutcome : Simulate(i, o)
  \/ Decide
  \/ HandOff

-----------------------------------------------------------------------------
(* Tracker task *)

Poll ==
  /\ Published("tracker")
  /\ PollCollect \/ RpcReply \/ RpcError \/ Resolve \/ PollDone
  /\ UNCHANGED <<auctionVars, hubVars>>

Emit(u) ==
  /\ \/ EmitProcessed(u) /\ PublishLookup("tracker", u, "processed")
     \/ EmitFinalized(u) /\ PublishLookup("tracker", u, "finalized")
     \/ EmitDropped(u) /\ PublishLookup("tracker", u, "dropped")
  /\ UNCHANGED auctionVars

TrackerRuns == Poll \/ \E u \in Uuids : Emit(u)

-----------------------------------------------------------------------------
DeliverResult(p) == PublishSend(p) /\ UNCHANGED <<auctionVars, trackerVars>>

PruneOwners == Prune /\ UNCHANGED <<auctionVars, trackerVars>>

\* One tick of the clock, for every Instant the engine holds.
PipeElapse == AuctionElapse /\ HubElapse /\ TrackerElapse

Environment ==
  \/ (ForwarderRecv \/ ForwarderExit) /\ UNCHANGED <<hubVars, trackerVars>>
  \/ \E s \in Sigs : ChainStep(s) /\ UNCHANGED <<auctionVars, hubVars>>

PipeNext ==
  \/ \E u \in Uuids, s \in Searchers : RegisterBundle(u, s)
  \/ \E u \in Uuids : Submit(u)
  \/ \E st \in Streams : Stream(st)
  \/ AuctionRuns
  \/ TrackerRuns
  \/ \E p \in Publishers : DeliverResult(p)
  \/ PruneOwners
  \/ PipeElapse
  \/ Environment

PipeSpec == PipeInit /\ [][PipeNext]_pipeVars

\* Tasks are rescheduled whenever they can go on (the forwarder, too, reads its
\* channel for as long as it runs), timers fire, and an RPC node that is asked
\* again and again answers in the end; so does the simulator.
FairPipeSpec ==
  /\ PipeSpec
  /\ WF_pipeVars(AuctionRuns \/ DeliverResult("auction"))
  /\ WF_pipeVars(TrackerRuns \/ DeliverResult("tracker"))
  /\ SF_pipeVars(Poll /\ tpc' = "resolve")
  /\ WF_pipeVars(ForwarderRecv /\ UNCHANGED <<hubVars, trackerVars>>)
  /\ WF_pipeVars(PruneOwners) /\ WF_pipeVars(PipeElapse)

-----------------------------------------------------------------------------
Stage(kind) == CASE kind = "accepted" -> 1
                 [] kind = "processed" -> 2
                 [] OTHER -> 3

Won == Elements(chan) \cup {winners[i].uuid : i \in DOMAIN winners}

\* Results progress: on every stream the results of one bundle come in the
\* order Accepted, Processed, terminal, none twice and nothing after the
\* terminal one - although two tasks publish, each in two separate critical
\* sections.
ResultsProgress ==
  \A st \in Streams : \A i, j \in DOMAIN sent[st] :
    i < j /\ sent[st][i].uuid = sent[st][j].uuid
      => Stage(sent[st][i].kind) < Stage(sent[st][j].kind)

\* A searcher told that its bundle was rejected can rely on it: the bundle has
\* not been, and never will be, tracked or sent to the validators.
RejectedNotForwarded ==
  \A st \in Streams : \A i \in DOMAIN sent[st] :
    sent[st][i].kind \in {"lost", "simfail"} =>
      sent[st][i].uuid \notin Won \cup pending

\* Where a bundle stands: the verdicts of the tracker, else whether it won,
\* else whether an auction has consumed it.
FateOf(u) ==
  CASE "finalized" \in reports[u] -> "finalized"
    [] "dropped" \in reports[u] /\ "finalized" \notin reports[u] -> "dropped"
    [] reports[u] = {"processed"} -> "processed"
    [] reports[u] = {} /\ u \in Won -> "accepted"
    [] reports[u] = {} /\ u \notin Won /\ handler[u] = "submitted"
         /\ \A b \in Elements(buffer) \cup Elements(ranked) : b.uuid # u -> "discarded"
    [] OTHER -> "received"

Life == INSTANCE BundleLife WITH fate <- [u \in Uuids |-> FateOf(u)]

\* The composed tasks implement the life of a bundle.
ImplementsBundleLife == Life!Spec

\* Every submitted bundle comes to an end: an auction discards it, or the
\* tracker follows it to Finalized or Dropped. Only a bundle without a decodable
\* transaction stays accepted. An auction task that stops, because the forwarder
\* is gone, leaves behind only what it had not yet given to the tracker: the
\* winner whose send failed, and those before it, are still followed to the end.
EveryBundleSettles ==
  \A u \in Uuids : handler[u] = "submitted" ~>
    \/ FateOf(u) \in {"discarded", "finalized", "dropped"}
    \/ FateOf(u) = "accepted" /\ SigsOf[u] = {}
    \/ pc = "stopped" /\ FateOf(u) \in {"received", "accepted"} /\ u \notin pending

\* A winner waits for room in the channel, it is not lost for want of it: again
\* and again, all the bundles that were ever tracked or are still in the hands of
\* the auction task have reached the forwarder, unless the forwarder has gone.
WinnersReachForwarder ==
  []<>(\/ \A u \in Uuids :
            u \in Won \cup pending \/ reports[u] # {} => \E i \in 1 .. taken : chan[i] = u
       \/ ~fwdOpen)

\* The mapping of every bundle is released in the end, with or without a
\* terminal result: once no more bundles come, the owners table is empty.
MappingsReleased == <>[](\A u \in Uuids : ~Registered(u))
=============================================================================
