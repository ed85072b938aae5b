-------------------------- MODULE ForwardingProofs --------------------------
(***************************************************************************)
(* Proofs about modules Forwarding and LeaderTracker, for every number of  *)
(* feeders, subscriptions, batches, bundles and slots.                     *)
(***************************************************************************)
EXTENDS Forwarding, LeaderTracker, SequenceTheorems, TLAPS

\* Zenon unless a leaf names another prover: SMT for arithmetic, PTL for temporal logic.
USE Zenon

\* The forwarder's control: it has somebody to offer an item to exactly while
\* it is in the loop, and the item is then the last one it took.
Loop ==
  /\ (todo # {}) <=> (fpc = "loop")
  /\ fpc = "loop" => forwarded # <<>> /\ item = {forwarded[Len(forwarded)]}

\* Typing needs the loop's item: it is what a stream is sent.
Typed == TypeOK /\ Loop

\* Initially everything is typed and the forwarder is outside the loop.
LEMMA InitTyped == Init => Typed
BY ForwardingAssumption, SMTT(30) DEF Init, Typed, TypeOK, Loop, Items, Subs, Feeders

\* Dispatching an item keeps the forwarder's variables typed, appends to the
\* history and enters the loop with that item when there is a subscriber.
LEMMA DispatchTyped ==
  ASSUME Typed, NEW i \in Items, NEW T \in SUBSET Subs, Dispatch(i, T)
  PROVE  /\ fpc' \in {"select", "loop"} /\ item' \subseteq Items
         /\ todo' \subseteq Subs /\ forwarded' \in Seq(Items)
         /\ Len(forwarded') = Len(forwarded) + 1
         /\ \A k \in 1 .. Len(forwarded) : forwarded'[k] = forwarded[k]
         /\ forwarded'[Len(forwarded')] = i
         /\ Loop'
<1>1. /\ forwarded \in Seq(Items) /\ forwarded' = Append(forwarded, i)
      /\ todo' = T /\ item' = (IF T = {} THEN {} ELSE {i})
      /\ fpc' = IF T = {} THEN "select" ELSE "loop"
  BY DEF Typed, TypeOK, Dispatch
<1>2. /\ forwarded' \in Seq(Items) /\ Len(forwarded') = Len(forwarded) + 1
      /\ \A k \in 1 .. Len(forwarded) : forwarded'[k] = forwarded[k]
      /\ forwarded'[Len(forwarded')] = i /\ forwarded' # <<>>
  BY <1>1, AppendProperties, SMTT(30)
<1>3. Loop'
  BY <1>1, <1>2 DEF Loop
<1> QED BY <1>1, <1>2, <1>3

\* Typing survives every step: no channel grows past its capacity, and the
\* loop always has its item.
LEMMA NextTyped == Typed /\ [Next]_vars => Typed'
<1> SUFFICES ASSUME Typed, [Next]_vars PROVE Typed'
  OBVIOUS
<1> USE ForwardingAssumption
<1>1. ASSUME NEW f \in Feeders, NEW b \in Batches, NEW w \in 0 .. MaxWindow,
             Receive(f, b, w)
      PROVE  Typed'
  BY <1>1 DEF Typed, TypeOK, Loop, Receive, Items, fwdVars, subVars
<1>2. ASSUME NEW f \in Feeders, Enqueue(f) PROVE Typed'
  <2>1. PICK b \in held[f] : pchan' = Append(pchan, b)
    BY <1>2 DEF Enqueue, EnqueueAged
  <2>2. pchan \in Seq(Batches) /\ b \in Batches /\ Len(pchan) < ChanCap
    BY <1>2, <2>1 DEF Typed, TypeOK, Enqueue, EnqueueAged
  <2>3. pchan' \in Seq(Batches) /\ Len(pchan') <= ChanCap
    BY <2>1, <2>2, AppendProperties, SMTT(30)
  <2> QED BY <1>2, <2>3 DEF Typed, TypeOK, Loop, Enqueue, EnqueueAged, fwdVars, subVars
<1>3. ASSUME NEW f \in Feeders, FeederEnds(f) PROVE Typed'
  BY <1>3 DEF Typed, TypeOK, Loop, FeederEnds, EndFeeder, fwdVars, subVars
<1>4. ASSUME NEW c \in senders, DropSender(c) PROVE Typed'
  BY <1>4 DEF Typed, TypeOK, Loop, DropSender, fwdVars, subVars
<1>5. ASSUME NEW u \in Bundles, HandBundle(u) PROVE Typed'
  <2>1. bchan \in Seq(Bundles) /\ Len(bchan) < ChanCap /\ bchan' = Append(bchan, u)
    BY <1>5 DEF Typed, TypeOK, HandBundle
  <2>2. bchan' \in Seq(Bundles) /\ Len(bchan') <= ChanCap
    BY <2>1, AppendProperties, SMTT(30)
  <2> QED BY <1>5, <2>2 DEF Typed, TypeOK, Loop, HandBundle, Items, fwdVars, subVars
<1>6. ASSUME PickPacket PROVE Typed'
  <2>1. /\ pchan \in Seq(Batches) /\ pchan # <<>> /\ pchan' = Tail(pchan)
        /\ Len(pchan) <= ChanCap
    BY <1>6 DEF Typed, TypeOK, PickPacket, TakePacket
  <2>2. Head(pchan) \in Batches /\ pchan' \in Seq(Batches) /\ Len(pchan') <= ChanCap
    BY <2>1, HeadTailProperties, SMTT(30)
  <2>3. /\ fpc' \in {"select", "loop"} /\ item' \subseteq Items /\ todo' \subseteq Subs
        /\ forwarded' \in Seq(Items) /\ Loop'
    <3>1. CASE Expired(Head(pchan))
      BY <1>6, <2>1, <3>1 DEF Typed, TypeOK, Loop, PickPacket, TakePacket
    <3>2. CASE ~Expired(Head(pchan))
      <4>1. Dispatch(Head(pchan), subs \cap PacketSubs)
        BY <1>6, <2>1, <3>2 DEF PickPacket, TakePacket
      <4>2. subs \cap PacketSubs \in SUBSET Subs /\ Head(pchan) \in Items
        BY <2>2 DEF Subs, Items
      <4> QED BY <4>1, <4>2, DispatchTyped
    <3> QED BY <3>1, <3>2
  <2>4. limit' \in [Batches -> 0 .. MaxWindow] /\ age' \in [Batches -> 0 .. MaxWindow + 1]
    <3>1. /\ limit' = [limit EXCEPT ![Head(pchan)] = 0] /\ age' = [age EXCEPT ![Head(pchan)] = 0]
          /\ limit \in [Batches -> 0 .. MaxWindow] /\ age \in [Batches -> 0 .. MaxWindow + 1]
      BY <1>6 DEF Typed, TypeOK, PickPacket, TakePacket
    <3>2. 0 \in 0 .. MaxWindow /\ 0 \in 0 .. MaxWindow + 1
      BY ForwardingAssumption, SMTT(30)
    <3> QED BY <3>1, <3>2
  <2>5. /\ UNCHANGED <<received, held, ended, senders, bchan, failed, subs, identity, conn, sent,
                      read, upcoming, stale>>
    BY <1>6 DEF PickPacket, TakePacket, subVars
  <2>6. TypeOK'
    BY <2>2, <2>3, <2>4, <2>5 DEF Typed, TypeOK
  <2> QED BY <2>3, <2>6 DEF Typed
<1>7. ASSUME PickBundle PROVE Typed'
  <2>1. /\ bchan \in Seq(Bundles) /\ bchan # <<>> /\ bchan' = Tail(bchan)
        /\ Len(bchan) <= ChanCap
    BY <1>7 DEF Typed, TypeOK, PickBundle
  <2>2. Head(bchan) \in Bundles /\ bchan' \in Seq(Bundles) /\ Len(bchan') <= ChanCap
    BY <2>1, HeadTailProperties, SMTT(30)
  <2>3. /\ fpc' \in {"select", "loop"} /\ item' \subseteq Items /\ todo' \subseteq Subs
        /\ forwarded' \in Seq(Items) /\ Loop'
    <3>1. Dispatch(Head(bchan), subs \cap BundleSubs)
      BY <1>7 DEF PickBundle
    <3>2. subs \cap BundleSubs \in SUBSET Subs /\ Head(bchan) \in Items
      BY <2>2 DEF Subs, Items
    <3> QED BY <3>1, <3>2, DispatchTyped
  <2> QED BY <1>7, <2>2, <2>3 DEF Typed, TypeOK, PickBundle, subVars, feedVars
<1>8. ASSUME ForwarderExit PROVE Typed'
  BY <1>8, SMTT(30) DEF Typed, TypeOK, Loop, ForwarderExit, subVars, feedVars
<1>9. ASSUME NEW s \in Subs, Offer(s) PROVE Typed'
  <2>1. PICK x \in Items : item = {x} /\ x = forwarded[Len(forwarded)]
    BY <1>9, LenProperties DEF Typed, TypeOK, Loop, Offer, OfferTo
  <2>2. (CHOOSE i \in item : TRUE) = x
    BY <2>1
  <2>3. /\ sent' \in [Subs -> Seq(Items)]
        /\ \A t \in Subs : Len(sent'[t]) - read[t] \in 0 .. SubCap
    <3>1. CASE sent' = sent
      BY <3>1 DEF Typed, TypeOK
    <3>2. CASE /\ sent' = [sent EXCEPT ![s] = @ \o <<x>>]
               /\ Len(sent[s]) - read[s] < SubCap
      <4>1. sent[s] \in Seq(Items) /\ sent \in [Subs -> Seq(Items)]
        BY DEF Typed, TypeOK
      <4>2. sent[s] \o <<x>> = Append(sent[s], x)
        BY <4>1, AppendIsConcat
      <4>3. Append(sent[s], x) \in Seq(Items) /\ Len(Append(sent[s], x)) = Len(sent[s]) + 1
        BY <4>1, AppendProperties, SMTT(30)
      <4>4. Len(sent[s]) \in Nat /\ read[s] \in Nat /\ Len(sent[s]) - read[s] \in 0 .. SubCap
        BY <4>1, LenProperties DEF Typed, TypeOK
      <4>5. sent' = [sent EXCEPT ![s] = Append(sent[s], x)]
        BY <3>2, <4>1, <4>2
      <4>6. sent' \in [Subs -> Seq(Items)]
        BY <4>1, <4>3, <4>5
      <4>7. Len(sent'[s]) - read[s] \in 0 .. SubCap
        BY <4>1, <4>3, <4>4, <4>5, <3>2, SMTT(30)
      <4>8. \A t \in Subs : t # s => sent'[t] = sent[t]
        BY <4>1, <4>5
      <4> QED BY <4>6, <4>7, <4>8 DEF Typed, TypeOK
    <3> QED
      <4>1. sent \in [Subs -> Seq(Items)] /\ read \in [Subs -> Nat]
        BY DEF Typed, TypeOK
      <4>2. Len(sent[s]) \in Nat /\ read[s] \in Nat
        BY <4>1, LenProperties
      <4>3. CASE should_forward(s) /\ conn[s] = "open" /\ ~Full(s)
        <5>1. Len(sent[s]) - read[s] < SubCap
          BY <4>2, <4>3, SMTT(30) DEF Full
        <5>2. sent' = [sent EXCEPT ![s] = @ \o <<CHOOSE i \in item : TRUE>>]
          BY <1>9, <4>3 DEF Offer, OfferTo
        <5>3. sent' = [sent EXCEPT ![s] = @ \o <<x>>]
          BY <5>2, <2>2
        <5> QED BY <5>1, <5>3, <3>2
      <4>4. CASE ~(should_forward(s) /\ conn[s] = "open" /\ ~Full(s))
        BY <1>9, <3>1, <4>1, <4>4 DEF Offer, OfferTo
      <4> QED BY <4>3, <4>4
  <2>4. Loop' /\ fpc' \in {"select", "loop", "remove"}
    BY <1>9 DEF Typed, Loop, Offer, OfferTo, NextPc
  <2>5. item' \subseteq Items /\ todo' \subseteq Subs /\ failed' \subseteq Subs
    BY <1>9 DEF Typed, TypeOK, Offer, OfferTo
  <2> QED BY <1>9, <2>3, <2>4, <2>5 DEF Typed, TypeOK, Offer, OfferTo, feedVars
<1>10. ASSUME NEW s \in Subs, RemoveSub(s) PROVE Typed'
  BY <1>10 DEF Typed, TypeOK, Loop, RemoveSub, NextPc, feedVars
<1>11. ASSUME NEW s \in Subs, Subscribe(s) PROVE Typed'
  BY <1>11 DEF Typed, TypeOK, Loop, Subscribe, fwdVars, feedVars
<1>12. ASSUME NEW s \in Subs, Disconnect(s) PROVE Typed'
  <2>1. sent \in [Subs -> Seq(Items)] /\ read \in [Subs -> Nat] /\ Len(sent[s]) \in Nat
    BY LenProperties DEF Typed, TypeOK
  <2>2. /\ read' \in [Subs -> Nat] /\ sent' = sent
        /\ \A t \in Subs : Len(sent'[t]) - read'[t] \in 0 .. SubCap
    BY <1>12, <2>1, SMTT(30) DEF Typed, TypeOK, Disconnect
  <2> QED BY <1>12, <2>2 DEF Typed, TypeOK, Loop, Disconnect, fwdVars, feedVars
<1>13. ASSUME NEW s \in Subs, Read(s) PROVE Typed'
  <2>1. sent \in [Subs -> Seq(Items)] /\ read \in [Subs -> Nat] /\ Len(sent[s]) \in Nat
    BY LenProperties DEF Typed, TypeOK
  <2>2. /\ read' \in [Subs -> Nat] /\ sent' = sent
        /\ \A t \in Subs : Len(sent'[t]) - read'[t] \in 0 .. SubCap
    BY <1>13, <2>1, SMTT(30) DEF Typed, TypeOK, Read
  <2> QED BY <1>13, <2>2 DEF Typed, TypeOK, Loop, Read, fwdVars, feedVars
<1>14. ASSUME NEW S \in SUBSET Validators, Retarget(S) PROVE Typed'
  BY <1>14 DEF Typed, TypeOK, Loop, Retarget, fwdVars, feedVars, subVars
<1>15. ASSUME Elapse PROVE Typed'
  <2>1. age' \in [Batches -> 0 .. MaxWindow + 1]
    BY <1>15, SMTT(30) DEF Typed, TypeOK, Elapse, Expired
  <2>2. stale' \subseteq Batches
    BY <1>15 DEF Typed, TypeOK, Elapse
  <2> QED BY <1>15, <2>1, <2>2 DEF Typed, TypeOK, Loop, Elapse, fwdVars, feedVars, subVars
<1>16. CASE UNCHANGED vars
  BY <1>16 DEF Typed, TypeOK, Loop, vars, fwdVars, feedVars, subVars
<1> QED BY <1>1, <1>2, <1>3, <1>4, <1>5, <1>6, <1>7, <1>8, <1>9, <1>10, <1>11, <1>12,
           <1>13, <1>14, <1>15, <1>16 DEF Next, Feeding, Forwarder

\* Type correctness of the way out of the engine, with the bounds of the
\* channels between the tasks and of every subscription's channel.
THEOREM ForwardingTypeCorrect == Spec => []TypeOK
<1>1. Spec => []Typed
  BY InitTyped, NextTyped, PTL DEF Spec
<1>2. Typed => TypeOK
  BY DEF Typed
<1> QED BY <1>1, <1>2, PTL

-----------------------------------------------------------------------------
(* Subscriptions *)

\* A subscription whose send failed has closed, and a closed stream is never
\* opened again.
FailedAreClosed == \A s \in failed : conn[s] = "closed"

\* No step removes an open subscription: the removals after the loop reach only
\* subscriptions that were closed under the lock.
LEMMA NextSubsKept ==
  Typed /\ FailedAreClosed /\ OpenSubsKept /\ [Next]_vars
    => FailedAreClosed' /\ OpenSubsKept'
<1> SUFFICES ASSUME Typed, FailedAreClosed, OpenSubsKept, [Next]_vars
             PROVE  FailedAreClosed' /\ OpenSubsKept'
  OBVIOUS
<1>1. ASSUME NEW s \in Subs, Offer(s) PROVE FailedAreClosed' /\ OpenSubsKept'
  BY <1>1 DEF Offer, OfferTo, FailedAreClosed, OpenSubsKept
<1>2. ASSUME NEW s \in Subs, RemoveSub(s) PROVE FailedAreClosed' /\ OpenSubsKept'
  BY <1>2 DEF RemoveSub, FailedAreClosed, OpenSubsKept
<1>3. ASSUME NEW s \in Subs, Subscribe(s) PROVE FailedAreClosed' /\ OpenSubsKept'
  BY <1>3 DEF Subscribe, FailedAreClosed, OpenSubsKept, Typed, TypeOK, fwdVars
<1>4. ASSUME NEW s \in Subs, Disconnect(s) PROVE FailedAreClosed' /\ OpenSubsKept'
  BY <1>4 DEF Disconnect, FailedAreClosed, OpenSubsKept, Typed, TypeOK, fwdVars
<1>5. ASSUME UNCHANGED <<failed, conn, subs>> PROVE FailedAreClosed' /\ OpenSubsKept'
  BY <1>5 DEF FailedAreClosed, OpenSubsKept
<1>6. ASSUME Feeding PROVE UNCHANGED <<failed, conn, subs>>
  BY <1>6 DEF Feeding, Receive, Enqueue, EnqueueAged, FeederEnds, EndFeeder, DropSender,
              HandBundle, fwdVars, subVars
<1>7. ASSUME PickPacket \/ PickBundle \/ ForwarderExit PROVE UNCHANGED <<failed, conn, subs>>
  BY <1>7 DEF PickPacket, TakePacket, PickBundle, ForwarderExit, subVars
<1>8. ASSUME (\E s \in Subs : Read(s)) \/ (\E S \in SUBSET Validators : Retarget(S)) \/ Elapse
      PROVE  UNCHANGED <<failed, conn, subs>>
  BY <1>8 DEF Read, Retarget, Elapse, fwdVars, subVars
<1>9. CASE UNCHANGED vars
  BY <1>5, <1>9 DEF vars, fwdVars, subVars
<1> QED BY <1>1, <1>2, <1>3, <1>4, <1>5, <1>6, <1>7, <1>8, <1>9 DEF Next, Forwarder

\* An open subscription is never removed from the forwarder's maps, though the
\* removal happens after the lock under which the send failed was released.
THEOREM OpenSubscriptionsStay == Spec => []OpenSubsKept
<1>1. Init => FailedAreClosed /\ OpenSubsKept
  BY DEF Init, FailedAreClosed, OpenSubsKept
<1> QED BY <1>1, InitTyped, NextTyped, NextSubsKept, PTL DEF Spec

-----------------------------------------------------------------------------
(* Expiry *)

\* A batch is in one place: with one feeder, or once in the channel.
OnePlace ==
  /\ \A f \in Feeders : held[f] \subseteq received
  /\ \A f, g \in Feeders : f # g => held[f] \cap held[g] = {}
  /\ \A i \in DOMAIN pchan : pchan[i] \in received
  /\ \A f \in Feeders, i \in DOMAIN pchan : pchan[i] \notin held[f]
  /\ \A i, j \in DOMAIN pchan : pchan[i] = pchan[j] => i = j

\* A batch known to be stale that has not left the queues still shows it.
StaleShows ==
  /\ stale \subseteq received
  /\ \A b \in stale : Waiting(b) => Expired(b)

\* Batches move from a feeder to the channel and out of it, and are received
\* once, so none is ever in two places.
LEMMA NextOnePlace == Typed /\ OnePlace /\ [Next]_vars => OnePlace'
<1> SUFFICES ASSUME Typed, OnePlace, [Next]_vars PROVE OnePlace'
  OBVIOUS
<1>1. ASSUME NEW f \in Feeders, NEW b \in Batches, NEW w \in 0 .. MaxWindow,
             Receive(f, b, w)
      PROVE  OnePlace'
  BY <1>1, SMTT(30) DEF Typed, TypeOK, OnePlace, Receive
<1>2. ASSUME NEW f \in Feeders, Enqueue(f) PROVE OnePlace'
  <2>1. PICK b \in held[f] : pchan' = Append(pchan, b)
    BY <1>2 DEF Enqueue, EnqueueAged
  <2>2. pchan \in Seq(Batches) /\ b \in Batches /\ held \in [Feeders -> SUBSET Batches]
    BY <2>1 DEF Typed, TypeOK
  <2>3. /\ DOMAIN pchan = 1 .. Len(pchan) /\ DOMAIN pchan' = 1 .. Len(pchan) + 1
        /\ Len(pchan) \in Nat
        /\ \A i \in 1 .. Len(pchan) : pchan'[i] = pchan[i]
        /\ pchan'[Len(pchan) + 1] = b
    BY <2>1, <2>2, AppendProperties, LenProperties, SMTT(30)
  <2>4. received' = received /\ held' = [held EXCEPT ![f] = {}]
    BY <1>2 DEF Enqueue, EnqueueAged
  <2> QED BY <2>1, <2>2, <2>3, <2>4, SMTT(30) DEF OnePlace
<1>3. ASSUME NEW f \in Feeders, FeederEnds(f) PROVE OnePlace'
  BY <1>3, SMTT(30) DEF Typed, TypeOK, OnePlace, FeederEnds, EndFeeder
<1>4. ASSUME received \subseteq received', UNCHANGED <<held, pchan>> PROVE OnePlace'
  BY <1>4 DEF OnePlace
<1>5. ASSUME PickPacket PROVE OnePlace'
  <2>1. /\ pchan \in Seq(Batches) /\ pchan # <<>> /\ pchan' = Tail(pchan)
        /\ UNCHANGED <<received, held>>
    BY <1>5 DEF Typed, TypeOK, PickPacket, TakePacket
  <2>2. /\ DOMAIN pchan = 1 .. Len(pchan) /\ DOMAIN pchan' = 1 .. Len(pchan) - 1
        /\ Len(pchan) \in Nat
        /\ \A i \in 1 .. Len(pchan) - 1 : pchan'[i] = pchan[i + 1]
    BY <2>1, HeadTailProperties, LenProperties
  <2>3. \A i \in DOMAIN pchan' : i + 1 \in DOMAIN pchan /\ pchan'[i] = pchan[i + 1]
    BY ONLY <2>2, SMTT(30)
  <2>4. \A i, j \in DOMAIN pchan' : i + 1 = j + 1 => i = j
    BY ONLY <2>2, SMTT(30)
  <2>5. \A i, j \in DOMAIN pchan' : pchan'[i] = pchan'[j] => i = j
    BY <2>3, <2>4 DEF OnePlace
  <2> QED BY <2>1, <2>3, <2>5 DEF OnePlace
<1>6. ASSUME ForwarderExit PROVE OnePlace'
  BY <1>6, SMTT(30) DEF OnePlace, ForwarderExit, feedVars
<1>7. ASSUME (\E c \in senders : DropSender(c)) \/ (\E u \in Bundles : HandBundle(u))
      PROVE  received \subseteq received' /\ UNCHANGED <<held, pchan>>
  BY <1>7 DEF DropSender, HandBundle
<1>8. ASSUME PickBundle \/ (\E s \in Subs : Offer(s) \/ RemoveSub(s))
      PROVE  received \subseteq received' /\ UNCHANGED <<held, pchan>>
  BY <1>8 DEF PickBundle, Offer, OfferTo, RemoveSub, feedVars
<1>9. ASSUME \/ \E s \in Subs : Subscribe(s) \/ Disconnect(s) \/ Read(s)
             \/ \E S \in SUBSET Validators : Retarget(S)
             \/ Elapse
      PROVE  received \subseteq received' /\ UNCHANGED <<held, pchan>>
  BY <1>9 DEF Subscribe, Disconnect, Read, Retarget, Elapse, feedVars
<1>10. CASE UNCHANGED vars
  BY <1>4, <1>10 DEF vars, feedVars
<1> QED BY <1>1, <1>2, <1>3, <1>4, <1>5, <1>6, <1>7, <1>8, <1>9, <1>10
        DEF Next, Feeding, Forwarder

\* A stale batch stays recognisable until it leaves the queues, and leaves them
\* undispatched.
LEMMA NextStale ==
  Typed /\ OnePlace /\ StaleShows /\ StaleNotForwarded /\ [Next]_vars
    => StaleShows' /\ StaleNotForwarded'
<1> SUFFICES ASSUME Typed, OnePlace, StaleShows, StaleNotForwarded, [Next]_vars
             PROVE  StaleShows' /\ StaleNotForwarded'
  OBVIOUS
<1>1. ASSUME NEW f \in Feeders, NEW b \in Batches, NEW w \in 0 .. MaxWindow,
             Receive(f, b, w)
      PROVE  StaleShows' /\ StaleNotForwarded'
  <2>1. /\ b \notin stale /\ stale \subseteq Batches
        /\ limit \in [Batches -> 0 .. MaxWindow] /\ held \in [Feeders -> SUBSET Batches]
    BY <1>1 DEF Receive, StaleShows, Typed, TypeOK
  <2>2. \A c \in stale : Waiting(c)' => Waiting(c)
    BY <1>1, <2>1, ZenonT(30) DEF Receive, Waiting
  <2>3. \A c \in stale : Expired(c) => Expired(c)'
    BY <1>1, <2>1 DEF Receive, Expired
  <2>4. stale' = stale /\ received \subseteq received' /\ forwarded' = forwarded
    BY <1>1 DEF Receive
  <2> QED BY <2>2, <2>3, <2>4 DEF StaleShows, StaleNotForwarded, Dispatched
<1>2. ASSUME UNCHANGED <<stale, forwarded, limit, age>>, received \subseteq received',
             \A b \in stale : Waiting(b)' => Waiting(b)
      PROVE  StaleShows' /\ StaleNotForwarded'
  BY <1>2 DEF StaleShows, StaleNotForwarded, Dispatched, Expired
<1>3. ASSUME NEW f \in Feeders, Enqueue(f) PROVE StaleShows' /\ StaleNotForwarded'
  <2>1. PICK b \in held[f] : pchan' = Append(pchan, b)
    BY <1>3 DEF Enqueue, EnqueueAged
  <2>2. pchan \in Seq(Batches) /\ b \in Batches /\ held \in [Feeders -> SUBSET Batches]
    BY <2>1 DEF Typed, TypeOK
  <2>3. \A i \in DOMAIN pchan' : pchan'[i] = b \/ \E j \in DOMAIN pchan : pchan'[i] = pchan[j]
    BY <2>1, <2>2, AppendProperties, LenProperties, SMTT(30)
  <2>4. \A c : Waiting(c)' => Waiting(c)
    BY <1>3, <2>1, <2>2, <2>3, SMTT(30) DEF Waiting, Enqueue, EnqueueAged
  <2> QED BY <1>2, <1>3, <2>4 DEF Enqueue, EnqueueAged
<1>4. ASSUME NEW f \in Feeders, FeederEnds(f) PROVE StaleShows' /\ StaleNotForwarded'
  <2>1. \A c : Waiting(c)' => Waiting(c)
    BY <1>4 DEF Typed, TypeOK, Waiting, FeederEnds, EndFeeder
  <2> QED BY <1>2, <1>4, <2>1 DEF FeederEnds, EndFeeder
<1>5. ASSUME UNCHANGED <<stale, forwarded, limit, age, pchan, held>>, received \subseteq received'
      PROVE  StaleShows' /\ StaleNotForwarded'
  BY <1>2, <1>5 DEF Waiting
<1>6. ASSUME PickPacket PROVE StaleShows' /\ StaleNotForwarded'
  <2> DEFINE h == Head(pchan)
  <2>1. /\ pchan \in Seq(Batches) /\ pchan # <<>> /\ pchan' = Tail(pchan)
        /\ UNCHANGED <<received, held, stale>>
        /\ limit \in [Batches -> 0 .. MaxWindow] /\ age \in [Batches -> 0 .. MaxWindow + 1]
        /\ limit' = [limit EXCEPT ![h] = 0] /\ age' = [age EXCEPT ![h] = 0]
        /\ stale \subseteq Batches
    BY <1>6 DEF Typed, TypeOK, PickPacket, TakePacket
  <2>2. /\ DOMAIN pchan = 1 .. Len(pchan) /\ DOMAIN pchan' = 1 .. Len(pchan) - 1
        /\ Len(pchan) \in Nat \ {0} /\ h \in Batches /\ h = pchan[1]
        /\ \A i \in 1 .. Len(pchan) - 1 : pchan'[i] = pchan[i + 1]
    BY <2>1, HeadTailProperties, LenProperties, SMTT(30)
  <2> HIDE DEF h
  <2>3. ASSUME NEW c \in Batches, Waiting(c)' PROVE Waiting(c) /\ c # h
    <3>1. CASE \E f \in Feeders : c \in held[f]
      <4>1. 1 \in DOMAIN pchan
        BY <2>2, SMTT(30)
      <4> QED BY <2>2, <3>1, <4>1, SMTT(30) DEF Waiting, OnePlace
    <3>2. CASE \E i \in DOMAIN pchan' : c = pchan'[i]
      <4>1. PICK i \in 1 .. Len(pchan) - 1 : c = pchan[i + 1]
        BY <2>2, <3>2
      <4>2. i + 1 \in DOMAIN pchan /\ 1 \in DOMAIN pchan /\ i + 1 # 1
        BY <2>2, SMTT(30)
      <4> QED BY <2>2, <4>1, <4>2 DEF Waiting, OnePlace
    <3> QED BY <2>1, <2>3, <3>1, <3>2 DEF Waiting
  <2>4. StaleShows'
    BY <2>1, <2>2, <2>3 DEF StaleShows, Expired
  <2>5. CASE Expired(h)
    BY <1>6, <2>1, <2>4, <2>5, SMTT(30) DEF h, PickPacket, TakePacket, StaleNotForwarded, Dispatched
  <2>6. CASE ~Expired(h)
    <3>1. Dispatch(h, subs \cap PacketSubs) /\ h \in Items /\ subs \cap PacketSubs \in SUBSET Subs
      BY <1>6, <2>1, <2>2, <2>6 DEF h, PickPacket, TakePacket, Items, Subs
    <3>2. /\ Len(forwarded') = Len(forwarded) + 1
          /\ forwarded \in Seq(Items) /\ forwarded' \in Seq(Items)
          /\ \A k \in 1 .. Len(forwarded) : forwarded'[k] = forwarded[k]
          /\ forwarded'[Len(forwarded')] = h
      BY <3>1, DispatchTyped DEF Typed, TypeOK
    <3>3. \A i \in DOMAIN forwarded' : forwarded'[i] = h \/ \E j \in DOMAIN forwarded : forwarded'[i] = forwarded[j]
      BY <3>2, LenProperties, SMTT(30)
    <3>4. Dispatched' \subseteq Dispatched \cup {h}
      BY <3>3 DEF Dispatched
    <3>5. h \notin stale
      <4>1. 1 \in DOMAIN pchan
        BY ONLY <2>2, SMTT(30)
      <4>2. Waiting(h)
        BY <2>2, <4>1 DEF Waiting
      <4> QED BY <2>6, <4>2 DEF StaleShows
    <3> QED BY <2>1, <2>4, <3>4, <3>5 DEF StaleNotForwarded
  <2> QED BY <2>5, <2>6
<1>7. ASSUME PickBundle PROVE StaleShows' /\ StaleNotForwarded'
  <2>1. /\ bchan \in Seq(Bundles) /\ bchan # <<>> /\ stale \subseteq Batches
        /\ Dispatch(Head(bchan), subs \cap BundleSubs)
        /\ UNCHANGED <<received, limit, held, age, pchan, stale>>
    BY <1>7 DEF Typed, TypeOK, PickBundle, feedVars
  <2>2. Head(bchan) \in Bundles /\ Head(bchan) \in Items /\ subs \cap BundleSubs \in SUBSET Subs
    BY <2>1, HeadTailProperties DEF Items, Subs
  <2>3. /\ Len(forwarded') = Len(forwarded) + 1
        /\ forwarded \in Seq(Items) /\ forwarded' \in Seq(Items)
        /\ \A k \in 1 .. Len(forwarded) : forwarded'[k] = forwarded[k]
        /\ forwarded'[Len(forwarded')] = Head(bchan)
    BY <2>1, <2>2, DispatchTyped DEF Typed, TypeOK
  <2>4. \A i \in DOMAIN forwarded' :
          forwarded'[i] = Head(bchan) \/ \E j \in DOMAIN forwarded : forwarded'[i] = forwarded[j]
    BY <2>3, LenProperties, SMTT(30)
  <2>5. Dispatched' \subseteq Dispatched \cup {Head(bchan)} /\ Head(bchan) \notin stale
    BY <2>1, <2>2, <2>4, ForwardingAssumption DEF Dispatched
  <2>6. StaleShows'
    BY <2>1 DEF StaleShows, Waiting, Expired
  <2> QED BY <2>1, <2>5, <2>6 DEF StaleNotForwarded
<1>8. ASSUME ForwarderExit PROVE StaleShows' /\ StaleNotForwarded'
  <2>1. \A c : Waiting(c)' => Waiting(c)
    BY <1>8, SMTT(30) DEF Waiting, ForwarderExit, feedVars
  <2> QED BY <1>2, <1>8, <2>1 DEF ForwarderExit, feedVars
<1>9. ASSUME Elapse PROVE StaleShows' /\ StaleNotForwarded'
  <2>1. /\ UNCHANGED <<received, limit, held, pchan, forwarded>>
        /\ age' = [b \in Batches |-> IF b \in received /\ limit[b] # 0 /\ ~Expired(b)
                                     THEN age[b] + 1 ELSE age[b]]
        /\ stale' = stale \cup {b \in received \cap Batches :
              limit[b] # 0 /\ age'[b] > limit[b] /\ b \notin Dispatched}
        /\ stale \subseteq Batches
    BY <1>9 DEF Elapse, feedVars, Typed, TypeOK
  <2>2. \A b \in stale' : b \in received' /\ b \notin Dispatched'
    BY <2>1 DEF StaleShows, StaleNotForwarded, Dispatched
  <2>3. ASSUME NEW b \in stale', Waiting(b)' PROVE Expired(b)'
    <3>1. CASE b \in stale
      BY <2>1, <2>3, <3>1 DEF StaleShows, Waiting, Expired
    <3>2. CASE b \notin stale
      BY <2>1, <2>3, <3>2 DEF Expired
    <3> QED BY <3>1, <3>2
  <2> QED BY <2>2, <2>3 DEF StaleShows, StaleNotForwarded
<1>10. ASSUME (\E c \in senders : DropSender(c)) \/ (\E u \in Bundles : HandBundle(u))
      PROVE  UNCHANGED <<stale, forwarded, limit, age, pchan, held>> /\ received \subseteq received'
  BY <1>10 DEF DropSender, HandBundle
<1>11. ASSUME \E s \in Subs : Offer(s) \/ RemoveSub(s)
      PROVE  UNCHANGED <<stale, forwarded, limit, age, pchan, held>> /\ received \subseteq received'
  BY <1>11 DEF Offer, OfferTo, RemoveSub, feedVars
<1>12. ASSUME \/ \E s \in Subs : Subscribe(s) \/ Disconnect(s) \/ Read(s)
              \/ \E S \in SUBSET Validators : Retarget(S)
      PROVE  UNCHANGED <<stale, forwarded, limit, age, pchan, held>> /\ received \subseteq received'
  BY <1>12 DEF Subscribe, Disconnect, Read, Retarget, feedVars
<1>13. CASE UNCHANGED vars
  BY <1>5, <1>13 DEF vars, feedVars
<1> QED BY <1>1, <1>3, <1>4, <1>5, <1>6, <1>7, <1>8, <1>9, <1>10, <1>11, <1>12, <1>13
        DEF Next, Feeding, Forwarder

\* A batch whose window has passed before the forwarder takes it - with its
\* relayer task, waiting for room, or in the channel - is never forwarded.
THEOREM StaleBatchesNotForwarded == Spec => []StaleNotForwarded
<1>1. Init => OnePlace /\ StaleShows /\ StaleNotForwarded
  BY SMTT(30) DEF Init, OnePlace, StaleShows, StaleNotForwarded
<1> QED BY <1>1, InitTyped, NextTyped, NextOnePlace, NextStale, PTL DEF Spec

-----------------------------------------------------------------------------
(* Order *)

\* h gives, for each entry of a stream, the position at which the forwarder
\* took it; a subscriber still to be offered the item does not have it yet.
Source(s, h) ==
  /\ h \in [DOMAIN sent[s] -> DOMAIN forwarded]
  /\ \A i \in DOMAIN sent[s] : forwarded[h[i]] = sent[s][i]
  /\ \A i, j \in DOMAIN sent[s] : i < j => h[i] < h[j]
  /\ s \in todo => \A i \in DOMAIN sent[s] : h[i] < Len(forwarded)

Ordered == \A s \in Subs : \E h : Source(s, h)

\* A stream that is sent nothing keeps its source.
LEMMA SourceStays ==
  ASSUME NEW s \in Subs, sent'[s] = sent[s], UNCHANGED forwarded, todo' \subseteq todo,
         \E h : Source(s, h)
  PROVE  \E h : Source(s, h)'
<1>1. PICK h : Source(s, h)
  OBVIOUS
<1>2. Source(s, h)'
  BY <1>1 DEF Source
<1> QED BY <1>2

\* Taking another item only lengthens the history: every stream keeps its
\* source, and no stream has the new item.
LEMMA SourceExtends ==
  ASSUME Typed, Typed', UNCHANGED sent, Len(forwarded') = Len(forwarded) + 1,
         \A k \in 1 .. Len(forwarded) : forwarded'[k] = forwarded[k],
         NEW s \in Subs, NEW h, Source(s, h)
  PROVE  Source(s, h)'
<1>1. /\ DOMAIN forwarded = 1 .. Len(forwarded) /\ Len(forwarded) \in Nat
      /\ DOMAIN forwarded' = 1 .. Len(forwarded)  + 1
  BY LenProperties DEF Typed, TypeOK
<1>2. \A i \in DOMAIN sent[s] : h[i] \in 1 .. Len(forwarded)
  BY <1>1 DEF Source
<1>3. h \in [DOMAIN sent'[s] -> DOMAIN forwarded']
  <2>1. h \in [DOMAIN sent[s] -> 1 .. Len(forwarded)]
    BY <1>1 DEF Source
  <2>2. 1 .. Len(forwarded) \subseteq 1 .. Len(forwarded) + 1
    BY <1>1, SMTT(30)
  <2> QED BY <1>1, <2>1, <2>2
<1>4. \A i \in DOMAIN sent'[s] : forwarded'[h[i]] = sent'[s][i]
  BY <1>2 DEF Source
<1>5. \A i, j \in DOMAIN sent'[s] : i < j => h[i] < h[j]
  BY DEF Source
<1>6. \A i \in DOMAIN sent'[s] : h[i] < Len(forwarded')
  BY <1>1, <1>2, SMTT(30)
<1> QED BY <1>3, <1>4, <1>5, <1>6 DEF Source

\* A subscriber that is sent the item gets one entry more, with the last
\* position as its source.
LEMMA SourceGrows ==
  ASSUME Typed, Typed', UNCHANGED forwarded, forwarded # <<>>,
         NEW s \in Subs, s \in todo, s \notin todo',
         sent'[s] = Append(sent[s], forwarded[Len(forwarded)]),
         NEW h, Source(s, h)
  PROVE  \E g : Source(s, g)'
<1> DEFINE n == Len(sent[s])
           G == [i \in 1 .. n + 1 |-> IF i = n + 1 THEN Len(forwarded) ELSE h[i]]
<1>1. /\ forwarded \in Seq(Items) /\ sent[s] \in Seq(Items)
  BY DEF Typed, TypeOK
<1>2. /\ DOMAIN forwarded = 1 .. Len(forwarded) /\ Len(forwarded) \in Nat \ {0}
      /\ n \in Nat /\ DOMAIN sent[s] = 1 .. n
      /\ forwarded[Len(forwarded)] \in Items
  <2>1. DOMAIN forwarded = 1 .. Len(forwarded) /\ Len(forwarded) \in Nat
    BY <1>1, LenProperties
  <2>2. n \in Nat /\ DOMAIN sent[s] = 1 .. n
    BY <1>1, LenProperties
  <2>3. Len(forwarded) # 0
    BY <1>1, EmptySeq
  <2>4. Len(forwarded) \in 1 .. Len(forwarded)
    BY <2>1, <2>3, SMTT(30)
  <2>5. forwarded[Len(forwarded)] \in Items
    BY <1>1, <2>4, ElementOfSeq
  <2> QED BY <2>1, <2>2, <2>3, <2>5
<1>3. /\ DOMAIN sent'[s] = 1 .. n + 1
      /\ \A i \in 1 .. n : sent'[s][i] = sent[s][i]
      /\ sent'[s][n + 1] = forwarded[Len(forwarded)]
  <2>1. sent'[s] = Append(sent[s], forwarded[Len(forwarded)])
    OBVIOUS
  <2>2. /\ Append(sent[s], forwarded[Len(forwarded)]) \in Seq(Items)
        /\ Len(Append(sent[s], forwarded[Len(forwarded)])) = n + 1
        /\ \A i \in 1 .. n : Append(sent[s], forwarded[Len(forwarded)])[i] = sent[s][i]
        /\ Append(sent[s], forwarded[Len(forwarded)])[n + 1] = forwarded[Len(forwarded)]
    BY ONLY <1>1, <1>2, AppendProperties, SMTT(30)
  <2> QED BY <2>1, <2>2, LenProperties
<1> HIDE DEF n
<1>4. \A i \in 1 .. n : h[i] \in 1 .. Len(forwarded) /\ h[i] < Len(forwarded)
  BY <1>2 DEF Source
<1>a. PICK g : g = G
  OBVIOUS
<1>5. /\ \A i \in 1 .. n : g[i] = h[i]
      /\ g[n + 1] = Len(forwarded)
      /\ DOMAIN g = 1 .. n + 1
  BY ONLY <1>2, <1>a, SMTT(30)
<1>6. g \in [1 .. n + 1 -> 1 .. Len(forwarded)]
  BY ONLY <1>2, <1>4, <1>a, SMTT(30)
<1> HIDE DEF G
<1>7. \A i \in 1 .. n + 1 : forwarded[g[i]] = sent'[s][i]
  <2>1. \A i \in 1 .. n : forwarded[h[i]] = sent[s][i]
    BY <1>2 DEF Source
  <2>2. \A i \in 1 .. n + 1 : i = n + 1 \/ i \in 1 .. n
    BY <1>2, SMTT(30)
  <2>3. ASSUME NEW i \in 1 .. n PROVE forwarded[g[i]] = sent'[s][i]
    BY <1>3, <1>5, <2>1
  <2> QED BY <1>3, <1>5, <2>2, <2>3
<1>8. \A i, j \in 1 .. n + 1 : i < j => g[i] < g[j]
  <2>1. \A i, j \in 1 .. n : i < j => h[i] < h[j]
    BY <1>2 DEF Source
  <2> SUFFICES ASSUME NEW i \in 1 .. n + 1, NEW j \in 1 .. n + 1, i < j
               PROVE  g[i] < g[j]
    OBVIOUS
  <2>2. i \in 1 .. n /\ (j = n + 1 \/ j \in 1 .. n)
    BY ONLY <1>2, i \in 1 .. n + 1, j \in 1 .. n + 1, i < j, SMTT(30)
  <2>3. CASE j = n + 1
    BY <1>4, <1>5, <2>2, <2>3
  <2>4. CASE j \in 1 .. n
    BY <1>5, <2>1, <2>2, <2>4
  <2> QED BY <2>2, <2>3, <2>4
<1>9. Source(s, g)'
  <2>1. g \in [DOMAIN sent'[s] -> DOMAIN forwarded'] /\ forwarded' = forwarded
    BY <1>2, <1>3, <1>6
  <2> QED BY <1>3, <1>7, <1>8, <2>1 DEF Source
<1> QED BY <1>9

\* Every step keeps every stream in the forwarder's order.
LEMMA NextOrdered == Typed /\ Ordered /\ [Next]_vars => Ordered'
<1> SUFFICES ASSUME Typed, Ordered, [Next]_vars PROVE Ordered'
  OBVIOUS
<1>0. Typed'
  BY NextTyped
<1>1. ASSUME UNCHANGED <<sent, forwarded, todo>> PROVE Ordered'
  BY <1>1, SMTT(30) DEF Ordered, Source
<1>2. ASSUME NEW i \in Items, NEW T \in SUBSET Subs, Dispatch(i, T), UNCHANGED sent
      PROVE  Ordered'
  <2>1. /\ Len(forwarded') = Len(forwarded) + 1
        /\ \A k \in 1 .. Len(forwarded) : forwarded'[k] = forwarded[k]
    BY <1>2, DispatchTyped
  <2>2. ASSUME NEW s \in Subs PROVE \E h : Source(s, h)'
    <3>1. PICK h : Source(s, h)
      BY DEF Ordered
    <3>2. Source(s, h)'
      BY <1>0, <1>2, <2>1, <3>1, SourceExtends
    <3> QED BY <3>2
  <2> QED BY <2>2 DEF Ordered
<1>3. ASSUME PickPacket PROVE Ordered'
  <2>1. pchan \in Seq(Batches) /\ pchan # <<>> /\ UNCHANGED sent
    BY <1>3 DEF Typed, TypeOK, PickPacket, TakePacket, subVars
  <2>2. Head(pchan) \in Items /\ subs \cap PacketSubs \in SUBSET Subs
    BY <2>1, HeadTailProperties DEF Items, Subs
  <2>3. CASE Expired(Head(pchan))
    BY <1>1, <1>3, <2>1, <2>3 DEF PickPacket, TakePacket
  <2>4. CASE ~Expired(Head(pchan))
    BY <1>2, <1>3, <2>1, <2>2, <2>4 DEF PickPacket, TakePacket
  <2> QED BY <2>3, <2>4
<1>4. ASSUME PickBundle PROVE Ordered'
  <2>1. bchan \in Seq(Bundles) /\ bchan # <<>> /\ UNCHANGED sent
    BY <1>4 DEF Typed, TypeOK, PickBundle, subVars
  <2>2. Head(bchan) \in Items /\ subs \cap BundleSubs \in SUBSET Subs
    BY <2>1, HeadTailProperties DEF Items, Subs
  <2> QED BY <1>2, <1>4, <2>1, <2>2 DEF PickBundle
<1>5. ASSUME NEW s \in Subs, Offer(s) PROVE Ordered'
  <2>1. /\ s \in todo /\ todo' = todo \ {s} /\ UNCHANGED forwarded
        /\ forwarded # <<>> /\ item = {forwarded[Len(forwarded)]}
        /\ sent \in [Subs -> Seq(Items)] /\ forwarded \in Seq(Items)
    BY <1>5 DEF Offer, OfferTo, Typed, TypeOK, Loop
  <2>2. forwarded[Len(forwarded)] \in Items
    BY <2>1, LenProperties, SMTT(30)
  <2>3. (CHOOSE i \in item : TRUE) = forwarded[Len(forwarded)]
    BY <2>1
  <2>4. \/ sent' = sent
        \/ sent' = [sent EXCEPT ![s] = @ \o <<CHOOSE i \in item : TRUE>>]
    <3>1. CASE should_forward(s) /\ conn[s] = "open" /\ ~Full(s)
      BY <1>5, <3>1 DEF Offer, OfferTo
    <3>2. CASE ~(should_forward(s) /\ conn[s] = "open" /\ ~Full(s))
      BY <1>5, <2>1, <3>2 DEF Offer, OfferTo
    <3> QED BY <3>1, <3>2
  <2>5. CASE sent' = sent
    BY <2>1, <2>5, SourceStays DEF Ordered
  <2>6. CASE sent' = [sent EXCEPT ![s] = @ \o <<CHOOSE i \in item : TRUE>>]
    <3>1. sent'[s] = Append(sent[s], forwarded[Len(forwarded)])
      BY <2>1, <2>2, <2>3, <2>6, AppendIsConcat, SMTT(30)
    <3>2. PICK h : Source(s, h)
      BY DEF Ordered
    <3>3. \E g : Source(s, g)'
      BY <1>0, <2>1, <3>1, <3>2, SourceGrows
    <3>4. ASSUME NEW t \in Subs, t # s PROVE \E g : Source(t, g)'
      <4>1. sent'[t] = sent[t]
        BY <2>1, <2>6, <3>4
      <4> QED BY <2>1, <3>4, <4>1, SourceStays DEF Ordered
    <3> QED BY <3>3, <3>4 DEF Ordered
  <2> QED BY <2>4, <2>5, <2>6
<1>6. ASSUME Feeding PROVE UNCHANGED <<sent, forwarded, todo>>
  BY <1>6 DEF Feeding, Receive, Enqueue, EnqueueAged, FeederEnds, EndFeeder, DropSender,
              HandBundle, fwdVars, subVars
<1>7. ASSUME ForwarderExit \/ \E s \in Subs : RemoveSub(s)
      PROVE  UNCHANGED <<sent, forwarded, todo>>
  BY <1>7 DEF ForwarderExit, RemoveSub, subVars
<1>8. ASSUME \/ \E s \in Subs : Subscribe(s) \/ Disconnect(s) \/ Read(s)
             \/ \E S \in SUBSET Validators : Retarget(S)
             \/ Elapse
      PROVE  UNCHANGED <<sent, forwarded, todo>>
  BY <1>8 DEF Subscribe, Disconnect, Read, Retarget, Elapse, fwdVars, subVars
<1>9. CASE UNCHANGED vars
  BY <1>1, <1>9 DEF vars, fwdVars, subVars
<1> QED BY <1>1, <1>3, <1>4, <1>5, <1>6, <1>7, <1>8, <1>9 DEF Next, Forwarder

\* Every stream carries what the forwarder took, in the order it took it and
\* nothing twice, whatever joins, leaves or lags meanwhile.
THEOREM StreamsKeepOrder == Spec => []StreamsInOrder
<1>1. Init => Ordered
  <2> SUFFICES ASSUME Init, NEW s \in Subs PROVE Source(s, <<>>)
    BY DEF Ordered
  <2>1. sent[s] = <<>> /\ todo = {} /\ DOMAIN sent[s] = {}
    BY SMTT(30) DEF Init
  <2> QED BY <2>1, SMTT(30) DEF Source
<1>2. Ordered => StreamsInOrder
  BY SMTT(30) DEF Ordered, Source, StreamsInOrder
<1> QED BY <1>1, <1>2, InitTyped, NextTyped, NextOrdered, PTL DEF Spec

-----------------------------------------------------------------------------
(* Nothing is lost or taken twice *)

InPackets(x) == \E i \in DOMAIN pchan : pchan[i] = x
InBundles(x) == \E i \in DOMAIN bchan : bchan[i] = x

\* What the forwarder has taken it took once, and what waits for it, it has not
\* taken yet.
Once ==
  /\ \A i, j \in DOMAIN forwarded : forwarded[i] = forwarded[j] => i = j
  /\ Dispatched \subseteq received
  /\ \A x : Waiting(x) \/ InBundles(x) => x \in received /\ x \notin Dispatched
  /\ \A i, j \in DOMAIN bchan : bchan[i] = bchan[j] => i = j
  /\ \A f \in Feeders : \A b, c \in held[f] : b = c

\* A batch's clock starts when it is received and stops when it is taken; one
\* that is past its window is known to be.
Windows ==
  \A b \in Batches :
    /\ b \notin received => age[b] = 0
    /\ b \in Dispatched => limit[b] = 0
    /\ Expired(b) => b \in stale

\* While the forwarder runs, an item that entered the engine is in a queue, was
\* dispatched, or is a batch whose window has passed.
NoneLost ==
  Open => \A x \in received : Waiting(x) \/ InBundles(x) \/ x \in Dispatched \cup stale

\* No validator gets an item twice.
StreamsCarryOnce ==
  \A s \in Subs : \A i, j \in DOMAIN sent[s] : sent[s][i] = sent[s][j] => i = j

\* Dispatching adds one item to those the forwarder has taken.
LEMMA DispatchAdds ==
  ASSUME Typed, NEW i \in Items, NEW T \in SUBSET Subs, Dispatch(i, T), i \notin Dispatched,
         \A k, l \in DOMAIN forwarded : forwarded[k] = forwarded[l] => k = l
  PROVE  /\ Dispatched' = Dispatched \cup {i}
         /\ \A k, l \in DOMAIN forwarded' : forwarded'[k] = forwarded'[l] => k = l
<1>1. /\ Len(forwarded') = Len(forwarded) + 1
      /\ forwarded \in Seq(Items) /\ forwarded' \in Seq(Items)
      /\ \A k \in 1 .. Len(forwarded) : forwarded'[k] = forwarded[k]
      /\ forwarded'[Len(forwarded')] = i
  BY DispatchTyped DEF Typed, TypeOK
<1>2. /\ DOMAIN forwarded = 1 .. Len(forwarded) /\ Len(forwarded) \in Nat
      /\ DOMAIN forwarded' = 1 .. Len(forwarded) + 1
  BY <1>1, LenProperties
<1>3. /\ \A k \in DOMAIN forwarded : k \in DOMAIN forwarded' /\ forwarded'[k] = forwarded[k]
      /\ Len(forwarded') \in DOMAIN forwarded'
      /\ \A k \in DOMAIN forwarded' : k \in DOMAIN forwarded \/ k = Len(forwarded')
  BY ONLY <1>1, <1>2, SMTT(30)
<1>4. Dispatched' = Dispatched \cup {i}
  BY <1>1, <1>3, SMTT(30) DEF Dispatched
<1>5. \A k \in DOMAIN forwarded : forwarded[k] # i
  BY DEF Dispatched
<1> QED BY <1>1, <1>3, <1>4, <1>5, SMTT(30)

\* What the steps that move items do to the queues.
LEMMA EnqueueMoves ==
  ASSUME Typed, Once, NEW f \in Feeders, Enqueue(f)
  PROVE  /\ \A x : Waiting(x)' <=> Waiting(x)
         /\ \A g \in Feeders : \A b, c \in held'[g] : b = c
<1>1. PICK b \in held[f] : pchan' = Append(pchan, b)
  BY DEF Enqueue, EnqueueAged
<1>2. /\ pchan \in Seq(Batches) /\ b \in Batches /\ held \in [Feeders -> SUBSET Batches]
      /\ held' = [held EXCEPT ![f] = {}] /\ \A c \in held[f] : c = b
  BY <1>1 DEF Typed, TypeOK, Enqueue, EnqueueAged, Once
<1>3. /\ DOMAIN pchan = 1 .. Len(pchan) /\ DOMAIN pchan' = 1 .. Len(pchan) + 1
      /\ Len(pchan) \in Nat /\ pchan'[Len(pchan) + 1] = b
      /\ \A i \in 1 .. Len(pchan) : pchan'[i] = pchan[i]
  BY <1>1, <1>2, AppendProperties, LenProperties, SMTT(30)
<1>4. \A x : (\E i \in DOMAIN pchan' : pchan'[i] = x) <=> (\E i \in DOMAIN pchan : pchan[i] = x) \/ x = b
  BY ONLY <1>3, SMTT(30)
<1>5. \A x : (\E g \in Feeders : x \in held[g]) <=> (\E g \in Feeders : x \in held'[g]) \/ x = b
  BY <1>1, <1>2, SMTT(30)
<1>6. \A g \in Feeders : held'[g] \subseteq held[g]
  BY <1>2
<1>7. \A x : Waiting(x)' <=> Waiting(x)
  BY <1>4, <1>5, SMTT(30) DEF Waiting
<1> QED BY <1>6, <1>7 DEF Once

LEMMA PickMoves ==
  ASSUME Typed, OnePlace, PickPacket
  PROVE  /\ Head(pchan) \in Batches /\ Waiting(Head(pchan))
         /\ \A x : Waiting(x)' <=> Waiting(x) /\ x # Head(pchan)
<1> DEFINE h == Head(pchan)
<1>1. pchan \in Seq(Batches) /\ pchan # <<>> /\ pchan' = Tail(pchan) /\ held' = held
  BY DEF Typed, TypeOK, PickPacket, TakePacket
<1>2. /\ DOMAIN pchan = 1 .. Len(pchan) /\ DOMAIN pchan' = 1 .. Len(pchan) - 1
      /\ Len(pchan) \in Nat \ {0} /\ h \in Batches /\ h = pchan[1]
      /\ \A i \in 1 .. Len(pchan) - 1 : pchan'[i] = pchan[i + 1]
  BY <1>1, HeadTailProperties, LenProperties, SMTT(30)
<1> HIDE DEF h
<1>3. 1 \in DOMAIN pchan
  BY ONLY <1>2, SMTT(30)
<1>4. \A i \in DOMAIN pchan' : i + 1 \in DOMAIN pchan /\ i + 1 # 1 /\ pchan'[i] = pchan[i + 1]
  BY ONLY <1>2, SMTT(30)
<1>5. \A i \in DOMAIN pchan : i = 1 \/ (i - 1 \in DOMAIN pchan' /\ pchan'[i - 1] = pchan[i])
  BY ONLY <1>2, SMTT(30)
<1>6. \A x : (\E i \in DOMAIN pchan' : pchan'[i] = x) <=> (\E i \in DOMAIN pchan : pchan[i] = x) /\ x # h
  <2>1. ASSUME NEW i \in DOMAIN pchan' PROVE pchan'[i] # h
    BY <1>2, <1>3, <1>4 DEF OnePlace
  <2>2. ASSUME NEW i \in DOMAIN pchan, pchan[i] # h PROVE \E j \in DOMAIN pchan' : pchan'[j] = pchan[i]
    BY <1>2, <1>5, <2>2
  <2> QED BY <1>4, <2>1, <2>2
<1>7. \A f \in Feeders : h \notin held[f]
  BY <1>2, <1>3 DEF OnePlace
<1>8. \A x : Waiting(x)' <=> Waiting(x) /\ x # h
  <2>1. \A x : Waiting(x) <=> InPackets(x) \/ \E f \in Feeders : x \in held[f]
    BY DEF Waiting, InPackets
  <2>2. \A x : Waiting(x)' <=> InPackets(x)' \/ \E f \in Feeders : x \in held[f]
    BY <1>1 DEF Waiting, InPackets
  <2>3. \A x : InPackets(x)' <=> InPackets(x) /\ x # h
    BY <1>6 DEF InPackets
  <2> QED BY <1>7, <2>1, <2>2, <2>3
<1>9. Waiting(h)
  BY <1>2, <1>3 DEF Waiting
<1> QED BY <1>2, <1>8, <1>9 DEF h

LEMMA TakeMoves ==
  ASSUME Typed, Once, PickBundle
  PROVE  /\ Head(bchan) \in Bundles /\ InBundles(Head(bchan))
         /\ \A x : InBundles(x)' <=> InBundles(x) /\ x # Head(bchan)
         /\ \A i, j \in DOMAIN bchan' : bchan'[i] = bchan'[j] => i = j
<1> DEFINE h == Head(bchan)
<1>1. bchan \in Seq(Bundles) /\ bchan # <<>> /\ bchan' = Tail(bchan)
  BY DEF Typed, TypeOK, PickBundle
<1>2. /\ DOMAIN bchan = 1 .. Len(bchan) /\ DOMAIN bchan' = 1 .. Len(bchan) - 1
      /\ Len(bchan) \in Nat \ {0} /\ h \in Bundles /\ h = bchan[1]
      /\ \A i \in 1 .. Len(bchan) - 1 : bchan'[i] = bchan[i + 1]
  BY <1>1, HeadTailProperties, LenProperties, SMTT(30)
<1> HIDE DEF h
<1>3. 1 \in DOMAIN bchan
  BY ONLY <1>2, SMTT(30)
<1>4. \A i \in DOMAIN bchan' : i + 1 \in DOMAIN bchan /\ i + 1 # 1 /\ bchan'[i] = bchan[i + 1]
  BY ONLY <1>2, SMTT(30)
<1>5. \A i \in DOMAIN bchan : i = 1 \/ (i - 1 \in DOMAIN bchan' /\ bchan'[i - 1] = bchan[i])
  BY ONLY <1>2, SMTT(30)
<1>6. \A i, j \in DOMAIN bchan' : i + 1 = j + 1 => i = j
  BY ONLY <1>2, SMTT(30)
<1>7. \A x : InBundles(x)' <=> InBundles(x) /\ x # h
  <2>1. ASSUME NEW i \in DOMAIN bchan' PROVE bchan'[i] # h
    BY <1>2, <1>3, <1>4 DEF Once
  <2>2. ASSUME NEW i \in DOMAIN bchan, bchan[i] # h PROVE \E j \in DOMAIN bchan' : bchan'[j] = bchan[i]
    BY <1>2, <1>5, <2>2
  <2> QED BY <1>4, <2>1, <2>2 DEF InBundles
<1>8. \A i, j \in DOMAIN bchan' : bchan'[i] = bchan'[j] => i = j
  BY <1>4, <1>6 DEF Once
<1>9. InBundles(h)
  BY <1>2, <1>3 DEF InBundles
<1> QED BY <1>2, <1>7, <1>8, <1>9 DEF h

\* The rules survive every step: an item is received once, moves from queue to
\* queue, and leaves them taken, or dropped past its window, or with the
\* forwarder.
LEMMA NextOnce ==
  ASSUME Typed, OnePlace, StaleShows, Once, Windows, NoneLost, [Next]_vars
  PROVE  Once' /\ Windows' /\ NoneLost'
<1> USE ForwardingAssumption
<1>1. ASSUME NEW f \in Feeders, NEW b \in Batches, NEW w \in 0 .. MaxWindow, Receive(f, b, w)
      PROVE  Once' /\ Windows' /\ NoneLost'
  <2>1. /\ b \notin received /\ received' = received \cup {b} /\ held[f] = {}
        /\ held' = [held EXCEPT ![f] = {b}] /\ held \in [Feeders -> SUBSET Batches]
        /\ limit' = [limit EXCEPT ![b] = w] /\ limit \in [Batches -> 0 .. MaxWindow]
        /\ UNCHANGED <<age, pchan, bchan, fpc, stale, forwarded>>
    BY <1>1 DEF Receive, fwdVars, Typed, TypeOK
  <2>2. \A x : Waiting(x)' <=> Waiting(x) \/ x = b
    <3>1. \A x : (\E g \in Feeders : x \in held'[g]) <=> (\E g \in Feeders : x \in held[g]) \/ x = b
      BY <2>1, SMTT(30)
    <3>2. \A x : Waiting(x) <=> InPackets(x) \/ \E g \in Feeders : x \in held[g]
      BY DEF Waiting, InPackets
    <3>3. \A x : Waiting(x)' <=> InPackets(x)' \/ \E g \in Feeders : x \in held'[g]
      BY DEF Waiting, InPackets
    <3>4. \A x : InPackets(x)' <=> InPackets(x)
      BY <2>1 DEF InPackets
    <3> QED BY <3>1, <3>2, <3>3, <3>4
  <2>3. \A g \in Feeders : \A c, d \in held'[g] : c = d
    BY <2>1, SMTT(30) DEF Once
  <2>4. Dispatched' = Dispatched /\ \A x : InBundles(x)' <=> InBundles(x)
    BY <2>1 DEF Dispatched, InBundles
  <2>5. Once'
    <3>1. b \notin Dispatched /\ Dispatched' \subseteq received'
      BY <2>1, <2>4 DEF Once
    <3>2. \A x : Waiting(x)' \/ InBundles(x)' => x \in received' /\ x \notin Dispatched'
      BY <2>1, <2>2, <2>4, <3>1 DEF Once
    <3>3. /\ \A i, j \in DOMAIN forwarded' : forwarded'[i] = forwarded'[j] => i = j
          /\ \A i, j \in DOMAIN bchan' : bchan'[i] = bchan'[j] => i = j
      BY <2>1 DEF Once
    <3> QED BY <2>3, <3>1, <3>2, <3>3 DEF Once
  <2>6. ~Expired(b)'
    <3>1. ~(0 > w)
      BY SMTT(30)
    <3> QED BY <2>1, <3>1 DEF Expired, Windows
  <2>7. \A c \in Batches : c # b => limit'[c] = limit[c] /\ (Expired(c)' <=> Expired(c))
    BY <2>1 DEF Expired
  <2>8. b \notin Dispatched
    BY <2>1 DEF Once
  <2>9. Windows'
    BY <2>1, <2>4, <2>6, <2>7, <2>8 DEF Windows
  <2>10. NoneLost'
    BY <2>1, <2>2, <2>4 DEF NoneLost, Open
  <2> QED BY <2>5, <2>9, <2>10
<1>2. ASSUME UNCHANGED <<received, limit, age, bchan, stale, forwarded>>, Open' => Open,
             \A x : Waiting(x)' => Waiting(x), Open => \A x : Waiting(x) => Waiting(x)',
             \A g \in Feeders : \A b, c \in held'[g] : b = c
      PROVE  Once' /\ Windows' /\ NoneLost'
  <2>1. Dispatched' = Dispatched /\ \A x : InBundles(x)' <=> InBundles(x)
    BY <1>2 DEF Dispatched, InBundles
  <2>2. Once'
    BY <1>2, <2>1 DEF Once
  <2>3. Windows'
    BY <1>2, <2>1 DEF Windows, Expired
  <2>4. NoneLost'
    BY <1>2, <2>1 DEF NoneLost
  <2> QED BY <2>2, <2>3, <2>4
<1>3. ASSUME NEW f \in Feeders, Enqueue(f) PROVE Once' /\ Windows' /\ NoneLost'
  <2>1. UNCHANGED <<received, limit, age, bchan, stale, forwarded>> /\ (Open' => Open)
    BY <1>3 DEF Enqueue, EnqueueAged, fwdVars, Open
  <2> QED BY <1>2, <1>3, <2>1, EnqueueMoves
<1>4. ASSUME NEW f \in Feeders, FeederEnds(f) PROVE Once' /\ Windows' /\ NoneLost'
  <2>1. /\ UNCHANGED <<received, limit, age, pchan, bchan, stale, forwarded, fpc>>
        /\ held' = [held EXCEPT ![f] = {}] /\ held \in [Feeders -> SUBSET Batches]
        /\ Open => held[f] = {}
    BY <1>4 DEF FeederEnds, EndFeeder, fwdVars, Typed, TypeOK
  <2>2. \A g \in Feeders : held'[g] \subseteq held[g] /\ (Open => held'[g] = held[g])
    BY <2>1
  <2>3. \A x : Waiting(x)' => Waiting(x)
    BY <2>1, <2>2 DEF Waiting
  <2>4. Open => \A x : Waiting(x) => Waiting(x)'
    BY <2>1, <2>2 DEF Waiting
  <2>5. \A g \in Feeders : \A b, c \in held'[g] : b = c
    BY <2>2 DEF Once
  <2>6. Open' => Open
    BY <2>1 DEF Open
  <2> QED BY <1>2, <2>1, <2>3, <2>4, <2>5, <2>6
<1>5. ASSUME UNCHANGED <<received, limit, age, held, pchan, bchan, stale, forwarded>>, Open' => Open
      PROVE  Once' /\ Windows' /\ NoneLost'
  <2>1. \A x : Waiting(x)' <=> Waiting(x)
    BY <1>5 DEF Waiting
  <2>2. \A g \in Feeders : \A b, c \in held'[g] : b = c
    BY <1>5 DEF Once
  <2> QED BY <1>2, <1>5, <2>1, <2>2
<1>6. ASSUME NEW u \in Bundles, HandBundle(u) PROVE Once' /\ Windows' /\ NoneLost'
  <2>1. /\ u \notin received /\ received' = received \cup {u} /\ bchan' = Append(bchan, u)
        /\ bchan \in Seq(Bundles) /\ u \notin Batches
        /\ UNCHANGED <<limit, age, held, pchan, stale, forwarded, fpc>>
    BY <1>6 DEF HandBundle, fwdVars, Typed, TypeOK
  <2>2. /\ DOMAIN bchan = 1 .. Len(bchan) /\ DOMAIN bchan' = 1 .. Len(bchan) + 1
        /\ Len(bchan) \in Nat /\ bchan'[Len(bchan) + 1] = u
        /\ \A i \in 1 .. Len(bchan) : bchan'[i] = bchan[i]
    BY <2>1, AppendProperties, LenProperties, SMTT(30)
  <2>3. \A x : (\E i \in DOMAIN bchan' : bchan'[i] = x) <=> (\E i \in DOMAIN bchan : bchan[i] = x) \/ x = u
    BY ONLY <2>2, SMTT(30)
  <2>4. \A x : InBundles(x)' <=> InBundles(x) \/ x = u
    BY <2>3 DEF InBundles
  <2>5. ~InBundles(u) /\ u \notin Dispatched
    BY <2>1 DEF Once
  <2>6. \A i, j \in DOMAIN bchan' : bchan'[i] = bchan'[j] => i = j
    <3>1. \A i, j \in 1 .. Len(bchan) : bchan[i] = bchan[j] => i = j
      BY <2>2 DEF Once
    <3>2. \A i \in 1 .. Len(bchan) : bchan[i] # u
      BY <2>2, <2>5 DEF InBundles
    <3> QED BY ONLY <2>2, <3>1, <3>2, SMTT(30)
  <2>7. Dispatched' = Dispatched /\ \A x : Waiting(x)' <=> Waiting(x)
    BY <2>1 DEF Dispatched, Waiting
  <2>8. Once'
    BY <2>1, <2>4, <2>5, <2>6, <2>7 DEF Once
  <2>9. Windows'
    BY <2>1, <2>7 DEF Windows, Expired
  <2>10. NoneLost'
    BY <2>1, <2>4, <2>7 DEF NoneLost, Open
  <2> QED BY <2>8, <2>9, <2>10
<1>7. ASSUME PickPacket PROVE Once' /\ Windows' /\ NoneLost'
  <2> DEFINE h == Head(pchan)
  <2>1. /\ UNCHANGED <<received, held, bchan, stale>>
        /\ limit' = [limit EXCEPT ![h] = 0] /\ age' = [age EXCEPT ![h] = 0]
        /\ limit \in [Batches -> 0 .. MaxWindow] /\ age \in [Batches -> 0 .. MaxWindow + 1]
        /\ fpc = "select"
    BY <1>7 DEF Typed, TypeOK, PickPacket, TakePacket
  <2>2. h \in Batches /\ Waiting(h) /\ \A x : Waiting(x)' <=> Waiting(x) /\ x # h
    BY <1>7, PickMoves
  <2>3. h \in received /\ h \notin Dispatched
    BY <2>2 DEF Once
  <2>4. /\ Expired(h) \/ Dispatched' = Dispatched \cup {h}
        /\ Expired(h) => Dispatched' = Dispatched
        /\ \A i, j \in DOMAIN forwarded' : forwarded'[i] = forwarded'[j] => i = j
    <3>1. CASE Expired(h)
      <4>1. forwarded' = forwarded
        BY <1>7, <3>1, SMTT(30) DEF PickPacket, TakePacket, Typed, TypeOK
      <4> QED BY <3>1, <4>1 DEF Dispatched, Once
    <3>2. CASE ~Expired(h)
      <4>1. Dispatch(h, subs \cap PacketSubs) /\ h \in Items /\ subs \cap PacketSubs \in SUBSET Subs
        BY <1>7, <2>2, <3>2 DEF PickPacket, TakePacket, Items, Subs
      <4> HIDE DEF h
      <4>2. \A i, j \in DOMAIN forwarded : forwarded[i] = forwarded[j] => i = j
        BY DEF Once
      <4> QED BY <2>3, <3>2, <4>1, <4>2, DispatchAdds
    <3> QED BY <3>1, <3>2
  <2> HIDE DEF h
  <2>5. Once'
    <3>1. Dispatched' \subseteq Dispatched \cup {h}
      BY <2>4
    <3>2. \A x : InBundles(x)' <=> InBundles(x)
      BY <2>1 DEF InBundles
    <3>3. ~InBundles(h)
      <4>1. ASSUME NEW i \in DOMAIN bchan PROVE bchan[i] \in Bundles
        BY LenProperties, SMTT(30) DEF Typed, TypeOK
      <4> QED BY <2>2, <4>1 DEF InBundles
    <3>4. /\ Dispatched' \subseteq received'
          /\ \A x : Waiting(x)' \/ InBundles(x)' => x \in received' /\ x \notin Dispatched'
      BY <2>1, <2>2, <2>3, <3>1, <3>2, <3>3 DEF Once
    <3> QED BY <2>1, <2>4, <3>4 DEF Once
  <2>6. Windows'
    <3>1. limit'[h] = 0
      BY <2>1, <2>2
    <3>2. \A c \in Batches : c = h => ~Expired(c)'
      BY <3>1 DEF Expired
    <3>3. \A c \in Batches : c # h => limit'[c] = limit[c] /\ age'[c] = age[c]
      BY <2>1
    <3>4. \A c \in Batches : c # h => (Expired(c)' <=> Expired(c))
      BY <3>3 DEF Expired
    <3>5. \A c \in Batches : c # h => (c \in Dispatched' <=> c \in Dispatched)
      BY <2>4
    <3> SUFFICES ASSUME NEW c \in Batches
                 PROVE  /\ c \notin received' => age'[c] = 0
                        /\ c \in Dispatched' => limit'[c] = 0
                        /\ Expired(c)' => c \in stale'
      BY DEF Windows
    <3>6. CASE c = h
      BY <2>1, <2>3, <3>1, <3>2, <3>6
    <3>7. CASE c # h
      BY <2>1, <3>3, <3>4, <3>5, <3>7 DEF Windows
    <3> QED BY <3>6, <3>7
  <2>7. NoneLost'
    <3>1. Open
      BY <2>1 DEF Open
    <3>2. \A x : InBundles(x)' <=> InBundles(x)
      BY <2>1 DEF InBundles
    <3>3. h \in Dispatched' \cup stale' /\ Dispatched \subseteq Dispatched'
      BY <2>1, <2>2, <2>4 DEF Windows
    <3> QED BY <2>1, <2>2, <3>1, <3>2, <3>3 DEF NoneLost
  <2> QED BY <2>5, <2>6, <2>7
<1>8. ASSUME PickBundle PROVE Once' /\ Windows' /\ NoneLost'
  <2> DEFINE h == Head(bchan)
  <2>1. UNCHANGED <<received, limit, held, age, pchan, stale>> /\ fpc = "select"
    BY <1>8 DEF PickBundle, feedVars
  <2>2. /\ h \in Bundles /\ InBundles(h) /\ \A x : InBundles(x)' <=> InBundles(x) /\ x # h
        /\ \A i, j \in DOMAIN bchan' : bchan'[i] = bchan'[j] => i = j
    BY <1>8, TakeMoves
  <2>3. h \in received /\ h \notin Dispatched
    BY <2>2 DEF Once
  <2>4. Dispatch(h, subs \cap BundleSubs) /\ h \in Items /\ subs \cap BundleSubs \in SUBSET Subs
    BY <1>8, <2>2 DEF PickBundle, Items, Subs
  <2> HIDE DEF h
  <2>5. /\ Dispatched' = Dispatched \cup {h}
        /\ \A i, j \in DOMAIN forwarded' : forwarded'[i] = forwarded'[j] => i = j
    <3>1. \A i, j \in DOMAIN forwarded : forwarded[i] = forwarded[j] => i = j
      BY DEF Once
    <3> QED BY <2>3, <2>4, <3>1, DispatchAdds
  <2>6. ~Waiting(h) /\ \A x : Waiting(x)' <=> Waiting(x)
    <3>1. ASSUME NEW i \in DOMAIN pchan PROVE pchan[i] \in Batches
      BY LenProperties, SMTT(30) DEF Typed, TypeOK
    <3>2. \A f \in Feeders : held[f] \subseteq Batches
      BY DEF Typed, TypeOK
    <3> QED BY <2>1, <2>2, <3>1, <3>2 DEF Waiting
  <2>7. Once'
    <3>1. /\ Dispatched' \subseteq received'
          /\ \A x : Waiting(x)' \/ InBundles(x)' => x \in received' /\ x \notin Dispatched'
      BY <2>1, <2>2, <2>3, <2>5, <2>6 DEF Once
    <3> QED BY <2>1, <2>2, <2>5, <3>1 DEF Once
  <2>8. Windows'
    BY <2>1, <2>2, <2>5 DEF Windows, Expired
  <2>9. NoneLost'
    BY <2>1, <2>2, <2>5, <2>6 DEF NoneLost, Open
  <2> QED BY <2>7, <2>8, <2>9
<1>9. ASSUME ForwarderExit PROVE Once' /\ Windows' /\ NoneLost'
  <2>1. /\ UNCHANGED <<received, limit, held, age, stale, forwarded>> /\ fpc' = "exited"
        /\ DOMAIN pchan' = {} /\ DOMAIN bchan' = {}
    BY <1>9, SMTT(30) DEF ForwarderExit, feedVars
  <2>2. \A x : (Waiting(x)' => Waiting(x)) /\ ~InBundles(x)'
    BY <2>1 DEF Waiting, InBundles
  <2>3. Once'
    <3>1. Dispatched' = Dispatched
      BY <2>1 DEF Dispatched
    <3>2. \A x : Waiting(x)' \/ InBundles(x)' => x \in received' /\ x \notin Dispatched'
      BY <2>1, <2>2, <3>1 DEF Once
    <3> QED BY <2>1, <3>1, <3>2 DEF Once
  <2>4. Windows'
    BY <2>1 DEF Windows, Expired, Dispatched
  <2>5. NoneLost'
    BY <2>1 DEF NoneLost, Open
  <2> QED BY <2>3, <2>4, <2>5
<1>10. ASSUME Elapse PROVE Once' /\ Windows' /\ NoneLost'
  <2>1. /\ UNCHANGED <<received, limit, held, pchan, bchan, forwarded, fpc>>
        /\ age' = [b \in Batches |-> IF b \in received /\ limit[b] # 0 /\ ~Expired(b)
                                     THEN age[b] + 1 ELSE age[b]]
        /\ stale' = stale \cup {b \in received \cap Batches :
              limit[b] # 0 /\ age'[b] > limit[b] /\ b \notin Dispatched}
    BY <1>10 DEF Elapse, feedVars, fwdVars
  <2>2. /\ Dispatched' = Dispatched
        /\ \A x : (Waiting(x)' <=> Waiting(x)) /\ (InBundles(x)' <=> InBundles(x))
    BY <2>1 DEF Dispatched, Waiting, InBundles
  <2>3. Once'
    BY <2>1, <2>2 DEF Once
  <2>4. ASSUME NEW b \in Batches, Expired(b)' PROVE b \in stale'
    <3>1. limit[b] # 0 /\ age'[b] > limit[b]
      BY <2>1, <2>4 DEF Expired
    <3>2. b \notin Dispatched
      BY <3>1 DEF Windows
    <3>3. CASE b \in received
      BY <2>1, <3>1, <3>2, <3>3
    <3>4. CASE b \notin received
      <4>1. age'[b] = age[b]
        BY <2>1, <3>4
      <4>2. Expired(b)
        BY <3>1, <4>1 DEF Expired
      <4> QED BY <2>1, <4>2 DEF Windows
    <3> QED BY <3>3, <3>4
  <2>5. \A b \in Batches : b \notin received => age'[b] = age[b]
    BY <2>1
  <2>6. Windows'
    BY <2>1, <2>2, <2>4, <2>5 DEF Windows
  <2>7. NoneLost'
    BY <2>1, <2>2 DEF NoneLost, Open
  <2> QED BY <2>3, <2>6, <2>7
<1>11. ASSUME \E c \in senders : DropSender(c)
      PROVE  UNCHANGED <<received, limit, age, held, pchan, bchan, stale, forwarded>> /\ (Open' => Open)
  BY <1>11 DEF DropSender, fwdVars, Open
<1>12. ASSUME \E s \in Subs : Offer(s) \/ RemoveSub(s)
      PROVE  UNCHANGED <<received, limit, age, held, pchan, bchan, stale, forwarded>> /\ (Open' => Open)
  BY <1>12 DEF Offer, OfferTo, RemoveSub, feedVars, Open
<1>13. ASSUME \/ \E s \in Subs : Subscribe(s) \/ Disconnect(s) \/ Read(s)
              \/ \E S \in SUBSET Validators : Retarget(S)
      PROVE  UNCHANGED <<received, limit, age, held, pchan, bchan, stale, forwarded>> /\ (Open' => Open)
  BY <1>13 DEF Subscribe, Disconnect, Read, Retarget, feedVars, fwdVars, Open
<1>14. CASE UNCHANGED vars
  BY <1>5, <1>14 DEF vars, feedVars, fwdVars, Open
<1> QED BY <1>1, <1>3, <1>4, <1>5, <1>6, <1>7, <1>8, <1>9, <1>10, <1>11, <1>12, <1>13, <1>14
        DEF Next, Feeding, Forwarder

\* Between the relayers and the auction on one side and the streams on the other
\* nothing is lost while the forwarder runs, except batches past their window,
\* and no validator gets an item twice: of the channels, relayer/src/server.rs
\* and validator/src/server.rs together.
THEOREM ItemsAccounted == Spec => [](NoneLost /\ StreamsCarryOnce)
<1>1. Init => OnePlace /\ StaleShows /\ StaleNotForwarded /\ Once /\ Windows /\ NoneLost
  <2> SUFFICES ASSUME Init
               PROVE  OnePlace /\ StaleShows /\ StaleNotForwarded /\ Once /\ Windows /\ NoneLost
    OBVIOUS
  <2>1. OnePlace /\ StaleShows /\ StaleNotForwarded
    BY SMTT(30) DEF Init, OnePlace, StaleShows, StaleNotForwarded
  <2>2. DOMAIN pchan = {} /\ DOMAIN bchan = {} /\ DOMAIN forwarded = {}
    BY SMTT(30) DEF Init
  <2>3. Dispatched = {} /\ \A x : ~Waiting(x) /\ ~InBundles(x)
    BY <2>2 DEF Init, Dispatched, Waiting, InBundles
  <2>4. Once /\ NoneLost
    BY <2>2, <2>3 DEF Init, Once, NoneLost
  <2>5. Windows
    BY <2>3 DEF Init, Windows, Expired
  <2> QED BY <2>1, <2>4, <2>5
<1>2. Typed /\ Once /\ StreamsInOrder => StreamsCarryOnce
  <2> SUFFICES ASSUME Typed, Once, StreamsInOrder, NEW s \in Subs,
                      NEW i \in DOMAIN sent[s], NEW j \in DOMAIN sent[s], sent[s][i] = sent[s][j]
               PROVE  i = j
    BY DEF StreamsCarryOnce
  <2>1. ASSUME NEW k \in DOMAIN sent[s], NEW l \in DOMAIN sent[s], sent[s][k] = sent[s][l]
        PROVE  ~(k < l)
    <3>1. SUFFICES ASSUME k < l PROVE FALSE
      OBVIOUS
    <3>2. PICK m, n \in DOMAIN forwarded :
            m < n /\ forwarded[m] = sent[s][k] /\ forwarded[n] = sent[s][l]
      BY <3>1 DEF StreamsInOrder
    <3>3. m = n
      BY <2>1, <3>2 DEF Once
    <3>4. m \in Nat
      BY LenProperties, SMTT(30) DEF Typed, TypeOK
    <3> QED BY ONLY <3>2, <3>3, <3>4, SMTT(30)
  <2>2. i \in Nat /\ j \in Nat
    BY LenProperties, SMTT(30) DEF Typed, TypeOK
  <2>3. ~(i < j) /\ ~(j < i)
    BY <2>1
  <2> QED BY ONLY <2>2, <2>3, SMTT(30)
<1>3. Typed /\ OnePlace /\ StaleShows /\ Once /\ Windows /\ NoneLost /\ [Next]_vars
        => Once' /\ Windows' /\ NoneLost'
  BY NextOnce
<1> QED BY <1>1, <1>2, <1>3, InitTyped, NextTyped, NextOnePlace, NextStale, StreamsKeepOrder, PTL
        DEF Spec

-----------------------------------------------------------------------------
(* The leader tracker *)

\* The cache is the cluster's schedule of the loaded epoch, and the window is
\* computed from the published slot.
Cached ==
  /\ lpc \in {"idle", "load", "window"}
  /\ slot \in Slots /\ info \in Slots /\ current_slot = info
  /\ loaded_epoch \in Int
  /\ schedule = [s \in EpochSlots(loaded_epoch) |-> Leader[s]]
  /\ upcoming \subseteq Validators

\* Shifting the answer of get_leader_schedule by the start of the epoch gives
\* back the absolute slots: nothing of it depends on which slot of the epoch
\* was asked for.
LEMMA AbsoluteIsSchedule ==
  ASSUME NEW s \in Slots
  PROVE  Absolute(s) = [t \in EpochSlots(Epoch(s)) |-> Leader[t]]
<1> DEFINE E == EpochSlots(Epoch(s))
           a == EpochStart(s)
           R == {t - a : t \in E}
           f == RelativeSchedule(s)
<1>1. a \in Int /\ E \subseteq Int
  BY LeaderAssumption, SMTT(30) DEF EpochStart, EpochSlots, Slots
<1>2. f = [r \in R |-> Leader[a + r]]
  BY DEF RelativeSchedule
<1>3. Absolute(s) = [t \in {a + r : r \in DOMAIN f} |-> f[t - a]]
  BY DEF Absolute
<1> HIDE DEF E, a, f
<1>4. DOMAIN f = R
  BY <1>2
<1>5. \A t \in E : t - a \in R /\ a + (t - a) = t
  BY <1>1, SMTT(30)
<1>6. {a + r : r \in R} = E
  <2>1. ASSUME NEW r \in R PROVE a + r \in E
    <3>1. PICK t \in E : r = t - a
      OBVIOUS
    <3>2. a + r = t
      BY <1>1, <3>1, SMTT(30)
    <3> QED BY <3>2
  <2> HIDE DEF R
  <2> QED BY <1>5, <2>1
<1>7. \A t \in E : f[t - a] = Leader[t]
  <2> SUFFICES ASSUME NEW t \in E PROVE f[t - a] = Leader[t]
    OBVIOUS
  <2>1. t - a \in R /\ a + (t - a) = t
    BY <1>5
  <2> HIDE DEF R
  <2> QED BY <1>2, <2>1
<1> HIDE DEF R
<1>8. Absolute(s) = [t \in E |-> Leader[t]]
  BY <1>3, <1>4, <1>6, <1>7
<1> QED BY <1>8 DEF E

\* The entries of the cache that lie in the window are the leaders of the
\* window's slots of the loaded epoch.
LEMMA WindowOfCache ==
  ASSUME Cached
  PROVE  {schedule[s] : s \in (info .. info + Lookahead) \cap DOMAIN schedule}
           = Leaders({s \in info .. info + Lookahead : Epoch(s) = loaded_epoch})
BY DEF Cached, Leaders, EpochSlots

\* Every step of the task keeps the cache consistent, and the published set is
\* exact again when a poll is over.
LEMMA NextCached ==
  Cached /\ WindowExact /\ [LeaderNext]_leaderVars => Cached' /\ WindowExact'
<1> SUFFICES ASSUME Cached, WindowExact, [LeaderNext]_leaderVars PROVE Cached' /\ WindowExact'
  OBVIOUS
<1> USE LeaderAssumption
<1>1. ASSUME NEW s \in Slots, GetEpochInfo(s) PROVE Cached' /\ WindowExact'
  BY <1>1 DEF GetEpochInfo, Cached, WindowExact
<1>2. ASSUME LoadSchedule PROVE Cached' /\ WindowExact'
  <2>1. schedule' = [s \in EpochSlots(Epoch(info)) |-> Leader[s]]
    BY <1>2, AbsoluteIsSchedule DEF LoadSchedule, Cached
  <2>2. Epoch(info) \in Int
    BY SMTT(30) DEF Epoch, Cached, Slots
  <2> QED BY <1>2, <2>1, <2>2 DEF LoadSchedule, Cached, WindowExact
<1>3. ASSUME LoadFails PROVE Cached' /\ WindowExact'
  BY <1>3 DEF LoadFails, Cached, WindowExact
<1>4. ASSUME Recompute PROVE Cached' /\ WindowExact'
  <2>1. upcoming' = Leaders({s \in info .. info + Lookahead : Epoch(s) = loaded_epoch})
    BY <1>4, WindowOfCache DEF Recompute
  <2>2. upcoming' \subseteq Validators
    BY <2>1 DEF Leaders
  <2> QED BY <1>4, <2>1, <2>2 DEF Recompute, Cached, WindowExact
<1>5. ASSUME SlotPasses PROVE Cached' /\ WindowExact'
  BY <1>5, SMTT(30) DEF SlotPasses, Cached, WindowExact, Slots
<1>6. CASE UNCHANGED leaderVars
  BY <1>6 DEF leaderVars, Cached, WindowExact
<1> QED BY <1>1, <1>2, <1>3, <1>4, <1>5, <1>6 DEF LeaderNext, Task, GetEpochInfoFails

\* Initially nothing is loaded and nothing published.
LEMMA InitCached == LeaderInit => Cached /\ WindowExact
<1> SUFFICES ASSUME LeaderInit PROVE Cached /\ WindowExact
  OBVIOUS
<1>1. EpochSlots(-1) = {}
  BY LeaderAssumption, SMTT(30) DEF EpochSlots, Epoch, Slots
<1>2. \A s \in 0 .. 0 + Lookahead : Epoch(s) # -1
  BY LeaderAssumption, SMTT(30) DEF Epoch
<1>3. 0 \in Slots
  BY LeaderAssumption, SMTT(30) DEF Slots
<1> QED BY <1>1, <1>2, <1>3, LeaderAssumption, SMTT(30) DEF LeaderInit, Cached, WindowExact, Leaders

\* Between polls the published set is exactly the leaders of the window that
\* starts at the published slot, as far as it lies in the loaded epoch,
\* whatever calls fail and however replicas lag.
THEOREM WindowIsExact == LeaderSpec => []WindowExact
BY InitCached, NextCached, PTL DEF LeaderSpec
=============================================================================
