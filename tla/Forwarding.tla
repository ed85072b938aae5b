----------------------------- MODULE Forwarding -----------------------------
(***************************************************************************)
(* The way out of the engine: relayer packet streams and the upstream      *)
(* relays feed packet batches, the auction feeds bundles, and the          *)
(* validator service's forwarder thread fans both out to the validators'   *)
(* subscription streams (relayer/src/server.rs, validator/src/server.rs).  *)
(*                                                                         *)
(* forward_packets and forward_bundle hold the lock of their subscription  *)
(* map for the whole loop but ask the leader tracker once per subscriber,  *)
(* so the upcoming leaders may change inside the loop. The subscriptions   *)
(* found closed are removed afterwards, each under the lock taken anew.    *)
(***************************************************************************)
EXTENDS LeaderSet, Integers, Sequences, FiniteSets

CONSTANTS
  Batches, Bundles,   \* packet batches and winning bundles, each sent once
  Relayers,           \* expiring packet streams opened by relayers
  Upstreams,          \* tasks relaying packets from the upstream engine
  PacketSubs, BundleSubs,   \* subscription streams validators may open
  LeaderAware,        \* is a leader tracker configured?
  ChanCap,            \* capacity of the two channels into the forwarder
  SubCap,             \* capacity of a subscription's channel
  MaxWindow           \* largest expiry_ms, in clock ticks

Feeders == Relayers \cup Upstreams
Subs == PacketSubs \cup BundleSubs
Items == Batches \cup Bundles

ASSUME ForwardingAssumption ==
  /\ LeaderAware \in BOOLEAN
  /\ ChanCap \in Nat \ {0} /\ SubCap \in Nat \ {0} /\ MaxWindow \in Nat
  /\ Batches \cap Bundles = {} /\ PacketSubs \cap BundleSubs = {}

VARIABLES
  received,   \* history: the items that have entered the engine
  limit,      \* batch -> its expiry_ms, until it is taken; 0 is no expiry
  age,        \* batch -> time since it was received, saturated past limit
  held,       \* feeder -> the batch it is sending to the forwarder, if any
  ended,      \* feeders whose task is over
  senders,    \* the channels whose owning task is still there
  pchan, bchan,   \* the two channels
  fpc,        \* control point of the forwarder thread
  item,       \* what it is forwarding (a set of at most one)
  todo,       \* subscribers still to be offered the item
  failed,     \* failed_sends
  subs,       \* the two subscription maps
  identity,   \* subscription -> the validator that opened it
  conn,       \* subscription -> "new", "open" or "closed"
  sent, read, \* subscription -> items enqueued on it, how many were read
  stale,      \* history: batches whose window passed before their dispatch
  forwarded   \* history: the items dispatched, in order

feedVars == <<received, limit, held, ended, senders>>
subVars == <<subs, identity, conn, sent, read>>
fwdVars == <<fpc, item, todo, failed>>
vars == <<feedVars, age, pchan, bchan, fwdVars, subVars, upcoming, stale,
          forwarded>>

Open == fpc # "exited"
Expired(b) == limit[b] # 0 /\ age[b] > limit[b]
Dispatched == {forwarded[i] : i \in DOMAIN forwarded}

Init ==
  /\ received = {} /\ limit = [b \in Batches |-> 0] /\ age = [b \in Batches |-> 0]
  /\ held = [f \in Feeders |-> {}] /\ ended = {}
  /\ senders = {"packets", "bundles"} /\ pchan = <<>> /\ bchan = <<>>
  /\ fpc = "select" /\ item = {} /\ todo = {} /\ failed = {}
  /\ subs = {} /\ identity \in [Subs -> Validators]
  /\ conn = [s \in Subs |-> "new"]
  /\ sent = [s \in Subs |-> <<>>] /\ read = [s \in Subs |-> 0]
  /\ upcoming = {} /\ stale = {} /\ forwarded = <<>>

-----------------------------------------------------------------------------
(* Feeding *)

\* A batch arrives: on a relayer's stream with an expiry, from upstream
\* without one.
Receive(f, b, window) ==
  /\ f \notin ended /\ held[f] = {} /\ b \notin received
  /\ f \in Upstreams => window = 0
  /\ received' = received \cup {b}
  /\ limit' = [limit EXCEPT ![b] = window]
  /\ held' = [held EXCEPT ![f] = {b}]
  /\ UNCHANGED <<ended, senders, age, pchan, bchan, fwdVars, subVars, upcoming,
                 stale, forwarded>>

EnqueueAged(f, ages) ==
  /\ Open /\ Len(pchan) < ChanCap
  /\ \E b \in held[f] : pchan' = Append(pchan, b)
  /\ held' = [held EXCEPT ![f] = {}] /\ age' = ages
  /\ UNCHANGED <<received, limit, ended, senders, bchan, fwdVars, subVars,
                 upcoming, stale, forwarded>>

\* Faulty: the window starts when the batch enters the channel.
EnqueueRestarting(f) ==
  EnqueueAged(f, [b \in Batches |-> IF b \in held[f] THEN 0 ELSE age[b]])

\* send().await completes: it waits for room, the window running since receipt.
Enqueue(f) == EnqueueAged(f, age)

EndFeeder(f) ==
  /\ f \notin ended
  /\ ended' = ended \cup {f} /\ held' = [held EXCEPT ![f] = {}]
  /\ UNCHANGED <<received, limit, senders, age, pchan, bchan, fwdVars, subVars,
                 upcoming, stale, forwarded>>

\* Faulty: a send waiting for room does not notice that the forwarder is gone.
FeederEndsIdle(f) == held[f] = {} /\ EndFeeder(f)

\* send fails, or the stream closes or errs between batches: the task ends.
FeederEnds(f) == (held[f] = {} \/ ~Open) /\ EndFeeder(f)

\* The task that owns a channel's first sender goes away: the relayer server
\* stops or fails to start, the auction task is gone.
DropSender(c) ==
  /\ c \in senders /\ senders' = senders \ {c}
  /\ UNCHANGED <<received, limit, held, ended, age, pchan, bchan, fwdVars,
                 subVars, upcoming, stale, forwarded>>

\* The auction task hands over a winner.
HandBundle(u) ==
  /\ u \notin received /\ "bundles" \in senders /\ Open /\ Len(bchan) < ChanCap
  /\ received' = received \cup {u} /\ bchan' = Append(bchan, u)
  /\ UNCHANGED <<limit, held, ended, senders, age, pchan, fwdVars, subVars,
                 upcoming, stale, forwarded>>

-----------------------------------------------------------------------------
(* The forwarder thread *)

\* Take the subscriptions' lock and begin the loop over a snapshot of the map.
Dispatch(i, targets) ==
  /\ todo' = targets
  /\ item' = IF targets = {} THEN {} ELSE {i}
  /\ fpc' = IF targets = {} THEN "select" ELSE "loop"
  /\ forwarded' = Append(forwarded, i)

TakePacket(drop) ==
  /\ fpc = "select" /\ pchan # <<>> /\ pchan' = Tail(pchan)
  /\ IF drop THEN UNCHANGED <<fpc, item, todo, forwarded>>
     ELSE Dispatch(Head(pchan), subs \cap PacketSubs)
  /\ limit' = [limit EXCEPT ![Head(pchan)] = 0]
  /\ age' = [age EXCEPT ![Head(pchan)] = 0]
  /\ UNCHANGED <<received, held, ended, senders, bchan, failed, subVars, upcoming,
                 stale>>

\* The packet branch of select!: an expired batch is dropped. Nothing looks at
\* the deadline after that.
PickPacket == TakePacket(pchan # <<>> /\ Expired(Head(pchan)))

\* The bundle branch of select!.
PickBundle ==
  /\ fpc = "select" /\ bchan # <<>> /\ bchan' = Tail(bchan)
  /\ Dispatch(Head(bchan), subs \cap BundleSubs)
  /\ UNCHANGED <<feedVars, age, pchan, failed, subVars, upcoming, stale>>

should_forward(s) == LeaderAware => identity[s] \in upcoming

\* Faulty: an unbounded channel.
FullNever(s) == FALSE

Full(s) == conn[s] = "open" /\ Len(sent[s]) - read[s] >= SubCap

\* What follows a loop or a removal that leaves these sets.
NextPc(t, f) ==
  IF t # {} THEN "loop" ELSE IF f # {} THEN "remove" ELSE "select"

OfferTo(s, rest, fails) ==
  /\ fpc = "loop" /\ s \in todo /\ todo' = rest
  /\ failed' = IF should_forward(s) /\ fails THEN failed \cup {s} ELSE failed
  /\ sent' = [sent EXCEPT ![s] =
       IF should_forward(s) /\ conn[s] = "open" /\ ~Full(s)
       THEN @ \o <<CHOOSE i \in item : TRUE>> ELSE @]
  /\ fpc' = NextPc(rest, failed') /\ item' = IF rest = {} THEN {} ELSE item
  /\ UNCHANGED <<feedVars, age, pchan, bchan, subs, identity, conn, read,
                 upcoming, stale, forwarded>>

\* Faulty: a full subscription counts as failed.
OfferFailingFull(s) == OfferTo(s, todo \ {s}, conn[s] = "closed" \/ Full(s))

\* Faulty: the subscriber may be offered the item again.
OfferAgain(s) ==
  \E rest \in {todo, todo \ {s}} : OfferTo(s, rest, conn[s] = "closed")

\* One iteration of the loop: not a leader, sent, closed, or full.
Offer(s) == OfferTo(s, todo \ {s}, conn[s] = "closed")

\* Remove one closed subscription.
RemoveSub(s) ==
  /\ fpc = "remove" /\ s \in failed
  /\ failed' = failed \ {s} /\ subs' = subs \ {s}
  /\ fpc' = NextPc({}, failed')
  /\ UNCHANGED <<feedVars, age, pchan, bchan, item, todo, identity, conn, sent,
                 read, upcoming, stale, forwarded>>

PacketsClosed == "packets" \notin senders /\ Feeders \subseteq ended

\* A channel is closed and empty: the thread ends, and what the other channel
\* still holds goes with it.
ForwarderExit ==
  /\ fpc = "select" /\ fpc' = "exited"
  /\ \/ PacketsClosed /\ pchan = <<>>
     \/ "bundles" \notin senders /\ bchan = <<>>
  /\ pchan' = <<>> /\ bchan' = <<>>
  /\ UNCHANGED <<feedVars, age, item, todo, failed, subVars, upcoming, stale,
                 forwarded>>

-----------------------------------------------------------------------------
(* Validators, the leader tracker and the clock *)

\* The loop holds the lock of one map.
Locked(s) == fpc = "loop" /\ (item \subseteq Batches <=> s \in PacketSubs)

\* subscribe_packets, subscribe_bundles.
Subscribe(s) ==
  /\ conn[s] = "new" /\ ~Locked(s)
  /\ conn' = [conn EXCEPT ![s] = "open"] /\ subs' = subs \cup {s}
  /\ UNCHANGED <<feedVars, age, pchan, bchan, fwdVars, identity, sent, read,
                 upcoming, stale, forwarded>>

\* A validator goes away, and what its stream still held with it.
Disconnect(s) ==
  /\ conn[s] = "open" /\ conn' = [conn EXCEPT ![s] = "closed"]
  /\ read' = [read EXCEPT ![s] = Len(sent[s])]
  /\ UNCHANGED <<feedVars, age, pchan, bchan, fwdVars, subs, identity, sent,
                 upcoming, stale, forwarded>>

Read(s) ==
  /\ conn[s] = "open" /\ read[s] < Len(sent[s])
  /\ read' = [read EXCEPT ![s] = @ + 1]
  /\ UNCHANGED <<feedVars, age, pchan, bchan, fwdVars, subs, identity, conn,
                 sent, upcoming, stale, forwarded>>

\* The leader tracker publishes a new set (module LeaderTracker).
Retarget(S) ==
  /\ LeaderAware /\ upcoming' = S
  /\ UNCHANGED <<feedVars, age, pchan, bchan, fwdVars, subVars, stale,
                 forwarded>>

\* One tick of the clock.
Elapse ==
  /\ age' = [b \in Batches |-> IF b \in received /\ limit[b] # 0 /\ ~Expired(b)
                               THEN age[b] + 1 ELSE age[b]]
  /\ stale' = stale \cup {b \in received \cap Batches :
                limit[b] # 0 /\ age'[b] > limit[b] /\ b \notin Dispatched}
  /\ UNCHANGED <<feedVars, pchan, bchan, fwdVars, subVars, upcoming, forwarded>>

Feeding ==
  \/ \E f \in Feeders, b \in Batches, w \in 0 .. MaxWindow : Receive(f, b, w)
  \/ \E f \in Feeders : Enqueue(f) \/ FeederEnds(f)
  \/ \E c \in senders : DropSender(c)
  \/ \E u \in Bundles : HandBundle(u)

Forwarder ==
  \/ PickPacket \/ PickBundle \/ ForwarderExit
  \/ \E s \in Subs : Offer(s) \/ RemoveSub(s)

Next ==
  \/ Feeding
  \/ Forwarder
  \/ \E s \in Subs : Subscribe(s) \/ Disconnect(s) \/ Read(s)
  \/ \E S \in SUBSET Validators : Retarget(S)
  \/ Elapse

Spec == Init /\ [][Next]_vars

\* The forwarder thread is scheduled, select! chooses fairly between its
\* branches, and a sender waiting for room gets its turn (tokio's channel
\* serves waiting senders in order).
FairSpec ==
  /\ Spec
  /\ WF_vars(Forwarder) /\ SF_vars(PickPacket) /\ SF_vars(PickBundle)
  /\ \A f \in Feeders : SF_vars(Enqueue(f)) /\ WF_vars(held[f] # {} /\ FeederEnds(f))

-----------------------------------------------------------------------------
\* Type correctness, with the bounds of the channels.
TypeOK ==
  /\ received \subseteq Items
  /\ limit \in [Batches -> 0 .. MaxWindow] /\ age \in [Batches -> 0 .. MaxWindow + 1]
  /\ held \in [Feeders -> SUBSET Batches] /\ ended \subseteq Feeders
  /\ senders \subseteq {"packets", "bundles"}
  /\ pchan \in Seq(Batches) /\ Len(pchan) <= ChanCap
  /\ bchan \in Seq(Bundles) /\ Len(bchan) <= ChanCap
  /\ fpc \in {"select", "loop", "remove", "exited"}
  /\ item \subseteq Items /\ todo \subseteq Subs /\ failed \subseteq Subs
  /\ subs \subseteq Subs /\ identity \in [Subs -> Validators]
  /\ conn \in [Subs -> {"new", "open", "closed"}]
  /\ sent \in [Subs -> Seq(Items)] /\ read \in [Subs -> Nat]
  /\ \A s \in Subs : Len(sent[s]) - read[s] \in 0 .. SubCap
  /\ upcoming \subseteq Validators /\ stale \subseteq Batches
  /\ forwarded \in Seq(Items)

\* A batch whose window has passed before the forwarder takes it - also while
\* its relayer task waits for room in the channel - is never forwarded.
StaleNotForwarded == stale \cap Dispatched = {}

\* Every stream carries what the forwarder took, in the order it took it and
\* nothing twice, whatever joins, leaves or lags meanwhile.
StreamsInOrder ==
  \A s \in Subs : \A i, j \in DOMAIN sent[s] : i < j =>
    \E k, l \in DOMAIN forwarded :
      k < l /\ forwarded[k] = sent[s][i] /\ forwarded[l] = sent[s][j]

\* An open subscription is never removed, though the removal happens after the
\* lock under which the send failed has been released.
OpenSubsKept == \A s \in Subs : conn[s] = "open" => s \in subs

Waiting(b) == b \in {pchan[i] : i \in DOMAIN pchan} \cup UNION {held[f] : f \in Feeders}

\* Every batch leaves the engine's queues: forwarded, expired, or lost with the
\* forwarder. A full channel never blocks a relayer task for ever.
BatchesDrain == \A b \in Batches : Waiting(b) ~> ~Waiting(b)
=============================================================================
