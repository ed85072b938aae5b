-------------------------- MODULE ReportingProofs ---------------------------
(***************************************************************************)
(* Proofs about what searchers are told. The results hub routes every      *)
(* result to the searcher that submitted the bundle, delivers at most one  *)
(* terminal result per bundle and stream, and never forgets an open stream:*)
(* for any numbers of bundles, searchers, streams and publishing tasks, and*)
(* any capacities. The tracker's verdicts are true and final: for any number*)
(* of bundles and signatures, any sharing of signatures between bundles, and*)
(* any limit on a query.                                                   *)
(***************************************************************************)
EXTENDS BundleResults, BundleTracker, SequenceTheorems, TLAPS

\* Zenon unless a leaf names another prover: SMT for arithmetic, PTL for temporal logic.
USE Zenon

-----------------------------------------------------------------------------
(* The results hub *)

\* A mapping, while it exists, names the searcher that registered the bundle.
OwnerIsSubmitter ==
  \A u \in Uuids : Registered(u) => owners[u].pubkey = submitter[u]

\* A message between the two locks is addressed to the bundle's submitter.
InflightRouted ==
  \A p \in Publishers : \A m \in inflight[p] : submitter[m.uuid] = m.to

\* The hub files a stream under the searcher that opened it.
FiledUnderHolder ==
  \A s \in Searchers : \A st \in subscribers[s] : conn[st].who = s

OpenHasHolder == \A st \in Streams : conn[st].open => conn[st].who \in Searchers

SentIsKnown ==
  \A st \in Streams : \A i \in DOMAIN sent[st] :
    submitter[sent[st][i].uuid] \in Searchers

\* A terminal result, in flight or delivered, has consumed the mapping.
TerminalConsumed ==
  /\ \A p \in Publishers : \A m \in inflight[p] :
       Terminal(m.kind) => ~Registered(m.uuid)
  /\ \A st \in Streams : \A i \in DOMAIN sent[st] :
       Terminal(sent[st][i].kind) => ~Registered(sent[st][i].uuid)

\* A terminal result in flight is the only one: not in flight elsewhere, not
\* yet delivered.
TerminalUnique ==
  /\ \A p, q \in Publishers : \A m \in inflight[p], n \in inflight[q] :
       m.uuid = n.uuid /\ Terminal(m.kind) /\ Terminal(n.kind) => p = q
  /\ \A p \in Publishers : \A m \in inflight[p] :
       \A st \in Streams : \A i \in DOMAIN sent[st] :
         Terminal(m.kind) /\ Terminal(sent[st][i].kind)
           => sent[st][i].uuid # m.uuid

Routing ==
  /\ OwnerIsSubmitter /\ InflightRouted /\ FiledUnderHolder /\ OpenHasHolder
  /\ SentIsKnown /\ RoutedToOwner /\ OpenStreamsKept

Termination == TerminalConsumed /\ TerminalUnique /\ AtMostOneTerminal

-----------------------------------------------------------------------------
\* Initially the hub is empty, so everything holds.
LEMMA HubInitTypeOK == HubInit => HubTypeOK
BY ResultsAssumption, SMTT(30) DEF HubInit, HubTypeOK, Absent, BundleResult

\* An empty hub routes nothing wrongly,
LEMMA InitRouting == HubInit => Routing
BY ResultsAssumption, SMTT(30) DEF HubInit, Routing, OwnerIsSubmitter, InflightRouted,
  FiledUnderHolder, OpenHasHolder, SentIsKnown, RoutedToOwner, OpenStreamsKept,
  Registered, Absent

\* and has published nothing.
LEMMA InitTermination == HubInit => Termination
BY SMTT(30) DEF HubInit, Termination, TerminalConsumed, TerminalUnique, AtMostOneTerminal

\* What PublishSend does with the message m it delivers.
Delivered(p, m) ==
  /\ sent' = [st \in Streams |->
       IF st \in subscribers[m.to] /\ Roomy(st)
       THEN Append(sent[st], [uuid |-> m.uuid, kind |-> m.kind])
       ELSE sent[st]]
  /\ subscribers' =
       [subscribers EXCEPT ![m.to] = {st \in @ : [t \in Streams |-> conn[t].open][st]}]
  /\ inflight' = [inflight EXCEPT ![p] = {}]
  /\ UNCHANGED <<owners, submitter, conn, read>>

\* The second half of publish delivers a message that was in flight.
LEMMA SendDelivers ==
  ASSUME NEW p \in Publishers, PublishSend(p)
  PROVE  \E m \in inflight[p] : Delivered(p, m)
BY DEF PublishSend, Deliver, Delivered

\* Every step of the hub preserves type correctness.
LEMMA HubNextTypeOK == HubTypeOK /\ [HubNext]_hubVars => HubTypeOK'
<1> SUFFICES ASSUME HubTypeOK, [HubNext]_hubVars PROVE HubTypeOK'
  OBVIOUS
<1> USE ResultsAssumption
<1>1. ASSUME NEW u \in Uuids, NEW s \in Searchers, Register(u, s) PROVE HubTypeOK'
  BY <1>1, SMTT(30) DEF HubTypeOK, Register, streamVars
<1>2. ASSUME NEW s \in Searchers, NEW st \in Streams, AddSubscriber(s, st)
      PROVE HubTypeOK'
  BY <1>2 DEF HubTypeOK, AddSubscriber
<1>3. ASSUME NEW st \in Streams, Receive(st) PROVE HubTypeOK'
  <2>1. read[st] \in Nat /\ sent[st] \in Seq(BundleResult)
    BY DEF HubTypeOK
  <2>2. read[st] < Len(sent[st]) /\ read' = [read EXCEPT ![st] = @ + 1]
    BY <1>3 DEF Receive
  <2>3. \A t \in Streams : read'[t] \in Nat /\ Len(sent[t]) - read'[t] \in 0 .. StreamCap
    BY <2>1, <2>2, LenProperties, SMTT(30) DEF HubTypeOK
  <2>4. read' \in [Streams -> Nat]
    BY <2>2, <2>3 DEF HubTypeOK
  <2> QED
    BY <1>3, <2>3, <2>4 DEF HubTypeOK, Receive
<1>4. ASSUME NEW st \in Streams, Disconnect(st) PROVE HubTypeOK'
  BY <1>4, ZenonT(30) DEF HubTypeOK, Disconnect
<1>5. CASE Prune
  BY <1>5, SMTT(30) DEF HubTypeOK, Prune, Absent, streamVars
<1>6. CASE HubElapse
  <2>1. ASSUME NEW u \in Uuids
        PROVE  owners'[u] \in [pubkey : Searchers \cup {NoOwner}, age : 0 .. OwnerTtl]
    <3>1. owners[u] \in [pubkey : Searchers \cup {NoOwner}, age : 0 .. OwnerTtl]
      BY DEF HubTypeOK
    <3>2. \/ owners'[u] = owners[u]
          \/ /\ owners[u].age < OwnerTtl
             /\ owners'[u] = [owners[u] EXCEPT !.age = @ + 1]
      BY <1>6 DEF HubElapse, AgeOwners
    <3> QED BY <3>1, <3>2, SMTT(30)
  <2> QED
    BY <1>6, <2>1 DEF HubTypeOK, HubElapse, AgeOwners, streamVars
<1>7. ASSUME NEW p \in Publishers, NEW u \in Uuids, NEW k \in Kinds,
             PublishLookup(p, u, k)
      PROVE HubTypeOK'
  BY <1>7, SMTT(30) DEF HubTypeOK, PublishLookup, Lookup, Absent, Registered,
    Message, streamVars
<1>8. ASSUME NEW p \in Publishers, PublishSend(p) PROVE HubTypeOK'
  <2>1. PICK m \in inflight[p] : Delivered(p, m)
    BY <1>8, SendDelivers
  <2>2. m \in Message
    BY <2>1 DEF HubTypeOK
  <2>3. ASSUME NEW st \in Streams
        PROVE  /\ sent'[st] \in Seq(BundleResult)
               /\ Len(sent'[st]) - read[st] \in 0 .. StreamCap
    <3>1. CASE st \in subscribers[m.to] /\ Roomy(st)
      <4> DEFINE msg == [uuid |-> m.uuid, kind |-> m.kind]
      <4>1. msg \in BundleResult
        BY <2>2 DEF Message, BundleResult
      <4>2. sent[st] \in Seq(BundleResult) /\ read[st] \in Nat
        BY DEF HubTypeOK
      <4>3. sent'[st] = Append(sent[st], msg)
        BY <2>1, <3>1 DEF Delivered
      <4>4. Len(sent'[st]) = Len(sent[st]) + 1 /\ sent'[st] \in Seq(BundleResult)
        BY <4>1, <4>2, <4>3, AppendProperties, SMTT(30)
      <4>5. Len(sent[st]) - read[st] \in 0 .. StreamCap
            /\ Len(sent[st]) - read[st] < StreamCap /\ Len(sent[st]) \in Nat
        BY <3>1, <4>2, LenProperties DEF HubTypeOK, Roomy
      <4> QED BY <4>2, <4>4, <4>5, SMTT(30)
    <3>2. CASE ~(st \in subscribers[m.to] /\ Roomy(st))
      BY <2>1, <3>2 DEF Delivered, HubTypeOK
    <3> QED BY <3>1, <3>2
  <2> QED
    BY <2>1, <2>2, <2>3 DEF Delivered, HubTypeOK, Message
<1>9. CASE UNCHANGED hubVars
  BY <1>9 DEF HubTypeOK, hubVars, streamVars
<1> QED
  BY <1>1, <1>2, <1>3, <1>4, <1>5, <1>6, <1>7, <1>8, <1>9 DEF HubNext

\* An entry of a stream after a delivery was there before, or is the message.
LEMMA DeliveredEntry ==
  ASSUME HubTypeOK, NEW p \in Publishers, NEW m \in inflight[p], Delivered(p, m),
         NEW st \in Streams, NEW i \in DOMAIN sent'[st]
  PROVE  \/ i \in DOMAIN sent[st] /\ sent'[st][i] = sent[st][i]
         \/ /\ i = Len(sent[st]) + 1
            /\ sent'[st][i] = [uuid |-> m.uuid, kind |-> m.kind]
            /\ st \in subscribers[m.to]
<1>1. CASE st \in subscribers[m.to] /\ Roomy(st)
  <2> DEFINE msg == [uuid |-> m.uuid, kind |-> m.kind]
  <2>1. sent[st] \in Seq(BundleResult) /\ m \in Message
    BY DEF HubTypeOK
  <2>2. msg \in BundleResult
    BY <2>1 DEF Message, BundleResult
  <2>3. sent'[st] = Append(sent[st], msg)
    BY <1>1 DEF Delivered
  <2> QED
    BY <1>1, <2>1, <2>2, <2>3, AppendProperties, LenProperties, SMTT(30)
<1>2. CASE ~(st \in subscribers[m.to] /\ Roomy(st))
  BY <1>2 DEF Delivered
<1> QED BY <1>1, <1>2

\* What a stream carries are bundle results.
LEMMA EntriesTyped ==
  ASSUME HubTypeOK, NEW st \in Streams, NEW i \in DOMAIN sent[st]
  PROVE  sent[st][i] \in BundleResult
BY ElementOfSeq, SMTT(30) DEF HubTypeOK

\* What is in flight are messages.
LEMMA InflightTyped ==
  ASSUME HubTypeOK, NEW p \in Publishers, NEW m \in inflight[p]
  PROVE  m.to \in Searchers /\ m.uuid \in Uuids /\ m.kind \in Kinds
<1>1. m \in Message
  BY DEF HubTypeOK
<1> QED BY <1>1 DEF Message

\* A registration concerns a bundle of which nothing is in flight or delivered.
LEMMA RegisterIsFresh ==
  ASSUME HubTypeOK, InflightRouted, SentIsKnown, NEW u \in Uuids, NEW s \in Searchers, Register(u, s)
  PROVE  /\ \A v \in Uuids \ {u} : owners'[v] = owners[v] /\ submitter'[v] = submitter[v]
         /\ owners'[u] = [pubkey |-> s, age |-> 0] /\ submitter'[u] = s
         /\ \A p \in Publishers : \A m \in inflight[p] : m.uuid \in Uuids \ {u}
         /\ \A st \in Streams : \A i \in DOMAIN sent[st] : sent[st][i].uuid \in Uuids \ {u}
         /\ UNCHANGED <<subscribers, inflight, conn, sent>>
<1>1. submitter[u] \notin Searchers
  BY ResultsAssumption DEF Register
<1>2. \A v \in Uuids \ {u} : owners'[v] = owners[v] /\ submitter'[v] = submitter[v]
  BY DEF Register, HubTypeOK
<1>3. owners'[u] = [pubkey |-> s, age |-> 0] /\ submitter'[u] = s
  BY DEF Register, HubTypeOK
<1>4. \A p \in Publishers : \A m \in inflight[p] : m.uuid \in Uuids \ {u}
  BY <1>1, InflightTyped DEF InflightRouted
<1>5. \A st \in Streams : \A i \in DOMAIN sent[st] : sent[st][i].uuid \in Uuids
  BY EntriesTyped DEF BundleResult
<1>6. \A st \in Streams : \A i \in DOMAIN sent[st] : sent[st][i].uuid # u
  BY <1>1 DEF SentIsKnown
<1> QED BY <1>2, <1>3, <1>4, <1>5, <1>6 DEF Register, streamVars

\* Opening a stream gives it a holder and files it; it has carried nothing.
LEMMA AddIsFresh ==
  ASSUME HubTypeOK, SentIsKnown, RoutedToOwner, NEW s \in Searchers, NEW st \in Streams,
         AddSubscriber(s, st)
  PROVE  /\ DOMAIN sent[st] = {} /\ conn'[st] = [who |-> s, open |-> TRUE]
         /\ \A t \in Streams \ {st} : conn'[t] = conn[t]
         /\ \A r \in Searchers : subscribers'[r] =
              IF r = s THEN subscribers[s] \cup {st} ELSE subscribers[r]
         /\ UNCHANGED <<owners, submitter, inflight, sent>>
<1>1. conn[st].who \notin Searchers
  BY ResultsAssumption DEF AddSubscriber
<1>2. DOMAIN sent[st] = {}
  BY <1>1 DEF SentIsKnown, RoutedToOwner
<1>3. conn'[st] = [who |-> s, open |-> TRUE] /\ \A t \in Streams \ {st} : conn'[t] = conn[t]
  BY DEF AddSubscriber, HubTypeOK
<1>4. \A r \in Searchers : subscribers'[r] =
        IF r = s THEN subscribers[s] \cup {st} ELSE subscribers[r]
  BY DEF AddSubscriber, HubTypeOK
<1> QED BY <1>2, <1>3, <1>4 DEF AddSubscriber

\* Closing a stream changes nothing else.
LEMMA DisconnectCloses ==
  ASSUME HubTypeOK, NEW st \in Streams, Disconnect(st)
  PROVE  /\ \A t \in Streams : conn'[t].who = conn[t].who /\ (conn'[t].open => conn[t].open)
         /\ UNCHANGED <<owners, submitter, subscribers, inflight, sent>>
<1>1. conn[st] \in [who : Searchers \cup {NoOwner}, open : BOOLEAN]
  BY DEF HubTypeOK
<1>2. conn'[st] = [conn[st] EXCEPT !.open = FALSE] /\ \A t \in Streams \ {st} : conn'[t] = conn[t]
  BY DEF Disconnect, HubTypeOK
<1>3. conn'[st].who = conn[st].who /\ ~conn'[st].open
  BY <1>1, <1>2
<1> QED BY <1>2, <1>3 DEF Disconnect

\* Pruning and ageing leave a mapping's searcher alone, or remove the mapping.
LEMMA MappingsKeepOwner ==
  ASSUME HubTypeOK, Prune \/ HubElapse
  PROVE  /\ \A u \in Uuids : owners'[u].pubkey \in {owners[u].pubkey, NoOwner}
         /\ UNCHANGED <<submitter, subscribers, inflight, conn, sent>>
<1>1. CASE Prune
  BY <1>1 DEF Prune, Absent, streamVars
<1>2. CASE HubElapse
  <2>1. ASSUME NEW u \in Uuids PROVE owners'[u].pubkey = owners[u].pubkey
    <3>1. owners[u] \in [pubkey : Searchers \cup {NoOwner}, age : 0 .. OwnerTtl]
      BY DEF HubTypeOK
    <3>2. owners'[u] \in {owners[u], [owners[u] EXCEPT !.age = @ + 1]}
      BY <1>2 DEF HubElapse, AgeOwners
    <3>3. [owners[u] EXCEPT !.age = @ + 1].pubkey = owners[u].pubkey
      BY <3>1
    <3> QED BY <3>2, <3>3
  <2> QED BY <1>2, <2>1 DEF HubElapse, streamVars
<1> QED BY <1>1, <1>2

\* A lookup addresses its message to the mapping's searcher; a terminal result
\* removes the mapping.
LEMMA LookupEffect ==
  ASSUME HubTypeOK, NEW p \in Publishers, NEW u \in Uuids, NEW k \in Kinds, PublishLookup(p, u, k)
  PROVE  /\ \A q \in Publishers : \A m \in inflight'[q] :
              \/ /\ q = p /\ Registered(u)
                 /\ m = [to |-> owners[u].pubkey, uuid |-> u, kind |-> k]
              \/ q # p /\ m \in inflight[q]
         /\ \A v \in Uuids : owners'[v].pubkey \in {owners[v].pubkey, NoOwner}
         /\ Terminal(k) => owners'[u].pubkey = NoOwner
         /\ UNCHANGED <<submitter, subscribers, conn, sent>>
<1>1. inflight' = [inflight EXCEPT ![p] =
        IF Registered(u) THEN {[to |-> owners[u].pubkey, uuid |-> u, kind |-> k]} ELSE {}]
  BY DEF PublishLookup, Lookup
<1>2. \A q \in Publishers : \A m \in inflight'[q] :
        \/ /\ q = p /\ Registered(u)
           /\ m = [to |-> owners[u].pubkey, uuid |-> u, kind |-> k]
        \/ q # p /\ m \in inflight[q]
  BY <1>1 DEF HubTypeOK
<1>3. owners' = IF Terminal(k) THEN [owners EXCEPT ![u] = Absent] ELSE owners
  BY DEF PublishLookup, Lookup
<1>4. \A v \in Uuids : owners'[v].pubkey \in {owners[v].pubkey, NoOwner}
  BY <1>3 DEF HubTypeOK, Absent
<1>5. Terminal(k) => owners'[u].pubkey = NoOwner
  BY <1>3 DEF HubTypeOK, Absent
<1> QED BY <1>2, <1>4, <1>5 DEF PublishLookup, Lookup, streamVars

\* Every step of the hub preserves the routing invariant.
LEMMA NextRouting == HubTypeOK /\ Routing /\ [HubNext]_hubVars => Routing'
<1> SUFFICES ASSUME HubTypeOK, Routing, [HubNext]_hubVars PROVE Routing'
  OBVIOUS
<1>r. /\ OwnerIsSubmitter /\ InflightRouted /\ FiledUnderHolder /\ OpenHasHolder
      /\ SentIsKnown /\ RoutedToOwner /\ OpenStreamsKept
  BY DEF Routing
<1>u. \A q \in Publishers : \A m \in inflight[q] : m.uuid \in Uuids
  BY InflightTyped
<1>v. \A st \in Streams : \A i \in DOMAIN sent[st] : sent[st][i].uuid \in Uuids
  BY EntriesTyped DEF BundleResult
<1>1. ASSUME NEW u \in Uuids, NEW s \in Searchers, Register(u, s) PROVE Routing'
  <2>1. /\ \A v \in Uuids \ {u} : owners'[v] = owners[v] /\ submitter'[v] = submitter[v]
        /\ owners'[u] = [pubkey |-> s, age |-> 0] /\ submitter'[u] = s
        /\ \A p \in Publishers : \A m \in inflight[p] : m.uuid \in Uuids \ {u}
        /\ \A st \in Streams : \A i \in DOMAIN sent[st] : sent[st][i].uuid \in Uuids \ {u}
        /\ UNCHANGED <<subscribers, inflight, conn, sent>>
    BY <1>1, <1>r, RegisterIsFresh
  <2>2. OwnerIsSubmitter'
    BY <1>r, <2>1, SMTT(30) DEF OwnerIsSubmitter, Registered
  <2>3. InflightRouted'
    BY <1>r, <2>1 DEF InflightRouted
  <2>4. SentIsKnown' /\ RoutedToOwner'
    BY <1>r, <2>1 DEF SentIsKnown, RoutedToOwner
  <2>5. FiledUnderHolder' /\ OpenHasHolder' /\ OpenStreamsKept'
    BY <1>r, <2>1 DEF FiledUnderHolder, OpenHasHolder, OpenStreamsKept
  <2> QED BY <2>2, <2>3, <2>4, <2>5 DEF Routing
<1>2. ASSUME NEW s \in Searchers, NEW st \in Streams, AddSubscriber(s, st) PROVE Routing'
  <2>1. /\ DOMAIN sent[st] = {} /\ conn'[st] = [who |-> s, open |-> TRUE]
        /\ \A t \in Streams \ {st} : conn'[t] = conn[t]
        /\ \A r \in Searchers : subscribers'[r] =
             IF r = s THEN subscribers[s] \cup {st} ELSE subscribers[r]
        /\ UNCHANGED <<owners, submitter, inflight, sent>>
    BY <1>2, <1>r, AddIsFresh
  <2>2. conn[st].who \notin Searchers
    BY <1>2, ResultsAssumption DEF AddSubscriber
  <2>3. FiledUnderHolder'
    <3>1. \A r \in Searchers : \A t \in subscribers[r] : t \in Streams \ {st}
      BY <1>r, <2>2, SMTT(30) DEF FiledUnderHolder, HubTypeOK
    <3>2. conn'[st].who = s
      BY <2>1, SMTT(30)
    <3> QED BY <1>r, <2>1, <3>1, <3>2, SMTT(30) DEF FiledUnderHolder
  <2>4. OpenHasHolder'
    BY <1>r, <2>1, SMTT(30) DEF OpenHasHolder
  <2>5. OpenStreamsKept'
    <3>1. ASSUME NEW t \in Streams, t # st, conn'[t].open PROVE t \in subscribers'[conn'[t].who]
      <4>1. conn'[t] = conn[t]
        BY <2>1, <3>1
      <4>2. conn[t].who \in Searchers /\ t \in subscribers[conn[t].who]
        BY <1>r, <3>1, <4>1 DEF OpenHasHolder, OpenStreamsKept
      <4> QED BY ONLY <2>1, <4>1, <4>2, SMTT(30)
    <3>2. conn'[st].who = s /\ st \in subscribers'[s]
      BY <2>1, SMTT(30)
    <3> QED BY <3>1, <3>2 DEF OpenStreamsKept
  <2>6. SentIsKnown' /\ RoutedToOwner'
    BY <1>r, <2>1, SMTT(30) DEF SentIsKnown, RoutedToOwner
  <2>7. OwnerIsSubmitter' /\ InflightRouted'
    BY <1>r, <2>1 DEF OwnerIsSubmitter, InflightRouted, Registered
  <2> QED BY <2>3, <2>4, <2>5, <2>6, <2>7 DEF Routing
<1>3. ASSUME NEW st \in Streams, Disconnect(st) PROVE Routing'
  <2>1. /\ \A t \in Streams : conn'[t].who = conn[t].who /\ (conn'[t].open => conn[t].open)
        /\ UNCHANGED <<owners, submitter, subscribers, inflight, sent>>
    BY <1>3, DisconnectCloses
  <2>2. \A r \in Searchers : subscribers[r] \subseteq Streams
    BY DEF HubTypeOK
  <2>3. FiledUnderHolder' /\ OpenHasHolder' /\ OpenStreamsKept'
    BY <1>r, <2>1, <2>2 DEF FiledUnderHolder, OpenHasHolder, OpenStreamsKept
  <2>4. SentIsKnown' /\ RoutedToOwner'
    BY <1>r, <2>1 DEF SentIsKnown, RoutedToOwner
  <2>5. OwnerIsSubmitter' /\ InflightRouted'
    BY <1>r, <2>1 DEF OwnerIsSubmitter, InflightRouted, Registered
  <2> QED BY <2>3, <2>4, <2>5 DEF Routing
<1>4. CASE Prune \/ HubElapse
  <2>1. /\ \A u \in Uuids : owners'[u].pubkey \in {owners[u].pubkey, NoOwner}
        /\ UNCHANGED <<submitter, subscribers, inflight, conn, sent>>
    BY <1>4, MappingsKeepOwner
  <2>2. OwnerIsSubmitter'
    BY <1>r, <2>1 DEF OwnerIsSubmitter, Registered
  <2>3. InflightRouted' /\ FiledUnderHolder' /\ OpenHasHolder'
    BY <1>r, <2>1 DEF InflightRouted, FiledUnderHolder, OpenHasHolder
  <2>4. SentIsKnown' /\ RoutedToOwner' /\ OpenStreamsKept'
    BY <1>r, <2>1 DEF SentIsKnown, RoutedToOwner, OpenStreamsKept
  <2> QED BY <2>2, <2>3, <2>4 DEF Routing
<1>5. ASSUME NEW p \in Publishers, NEW u \in Uuids, NEW k \in Kinds, PublishLookup(p, u, k)
      PROVE Routing'
  <2>1. /\ \A q \in Publishers : \A m \in inflight'[q] :
             \/ /\ q = p /\ Registered(u)
                /\ m = [to |-> owners[u].pubkey, uuid |-> u, kind |-> k]
             \/ q # p /\ m \in inflight[q]
        /\ \A v \in Uuids : owners'[v].pubkey \in {owners[v].pubkey, NoOwner}
        /\ UNCHANGED <<submitter, subscribers, conn, sent>>
    BY <1>5, LookupEffect
  <2>2. OwnerIsSubmitter'
    BY <1>r, <2>1 DEF OwnerIsSubmitter, Registered
  <2>3. InflightRouted'
    <3>1. Registered(u) => submitter[u] = owners[u].pubkey
      BY <1>r DEF OwnerIsSubmitter
    <3> QED BY <1>r, <2>1, <3>1, SMTT(30) DEF InflightRouted
  <2>4. FiledUnderHolder' /\ OpenHasHolder' /\ OpenStreamsKept'
    BY <1>r, <2>1 DEF FiledUnderHolder, OpenHasHolder, OpenStreamsKept
  <2>5. SentIsKnown' /\ RoutedToOwner'
    BY <1>r, <2>1 DEF SentIsKnown, RoutedToOwner
  <2> QED BY <2>2, <2>3, <2>4, <2>5 DEF Routing
<1>6. ASSUME NEW p \in Publishers, PublishSend(p) PROVE Routing'
  <2>1. PICK m \in inflight[p] : Delivered(p, m)
    BY <1>6, SendDelivers
  <2>2. /\ m.to \in Searchers /\ m.uuid \in Uuids /\ submitter[m.uuid] = m.to
        /\ UNCHANGED <<owners, submitter, conn>>
    BY <1>r, <2>1, InflightTyped DEF InflightRouted, Delivered
  <2>3. ASSUME NEW st \in Streams, NEW i \in DOMAIN sent'[st]
        PROVE  /\ submitter[sent'[st][i].uuid] \in Searchers
               /\ conn[st].who = submitter[sent'[st][i].uuid]
    <3>1. CASE i \in DOMAIN sent[st] /\ sent'[st][i] = sent[st][i]
      BY <1>r, <3>1 DEF SentIsKnown, RoutedToOwner
    <3>2. CASE /\ sent'[st][i] = [uuid |-> m.uuid, kind |-> m.kind]
               /\ st \in subscribers[m.to]
      <4>1. sent'[st][i].uuid = m.uuid
        BY <3>2, SMTT(30)
      <4> QED BY <1>r, <2>2, <3>2, <4>1 DEF FiledUnderHolder
    <3> QED BY <2>1, <3>1, <3>2, DeliveredEntry, SMTT(30)
  <2>4. SentIsKnown' /\ RoutedToOwner'
    BY <2>2, <2>3 DEF SentIsKnown, RoutedToOwner
  <2>5. InflightRouted'
    <3>1. \A q \in Publishers : inflight'[q] \subseteq inflight[q]
      BY <2>1 DEF Delivered, HubTypeOK
    <3> QED BY <1>r, <2>2, <3>1 DEF InflightRouted
  <2>6. /\ \A s \in Searchers : subscribers'[s] \subseteq subscribers[s]
        /\ \A s \in Searchers : \A st \in subscribers[s] : conn[st].open => st \in subscribers'[s]
    <3>1. subscribers' = [subscribers EXCEPT ![m.to] =
            {st \in subscribers[m.to] : [t \in Streams |-> conn[t].open][st]}]
      BY <2>1 DEF Delivered
    <3>2. subscribers \in [Searchers -> SUBSET Streams]
      BY DEF HubTypeOK
    <3> QED BY <2>2, <3>1, <3>2
  <2>7. FiledUnderHolder'
    BY <1>r, <2>2, <2>6 DEF FiledUnderHolder
  <2>8. OpenHasHolder' /\ OpenStreamsKept'
    BY <1>r, <2>2, <2>6 DEF OpenHasHolder, OpenStreamsKept
  <2>9. OwnerIsSubmitter'
    BY <1>r, <2>2 DEF OwnerIsSubmitter, Registered
  <2> QED BY <2>4, <2>5, <2>7, <2>8, <2>9 DEF Routing
<1>7. CASE UNCHANGED <<owners, submitter, subscribers, inflight, conn, sent>>
  <2>1. OwnerIsSubmitter' /\ InflightRouted'
    BY <1>7, <1>r DEF OwnerIsSubmitter, InflightRouted, Registered
  <2>2. FiledUnderHolder' /\ OpenHasHolder' /\ OpenStreamsKept'
    BY <1>7, <1>r DEF FiledUnderHolder, OpenHasHolder, OpenStreamsKept
  <2>3. SentIsKnown' /\ RoutedToOwner'
    BY <1>7, <1>r DEF SentIsKnown, RoutedToOwner
  <2> QED BY <2>1, <2>2, <2>3 DEF Routing
<1>8. ASSUME NEW st \in Streams, Receive(st) PROVE Routing'
  BY <1>7, <1>8 DEF Receive
<1>9. CASE UNCHANGED hubVars
  BY <1>7, <1>9 DEF hubVars, streamVars
<1> QED
  BY <1>1, <1>2, <1>3, <1>4, <1>5, <1>6, <1>8, <1>9 DEF HubNext

\* A step that publishes and delivers nothing, and maps no bundle that is in
\* flight or delivered, preserves the uniqueness of terminal results.
LEMMA TerminationStays ==
  ASSUME Termination, UNCHANGED <<inflight, sent>>,
         \A p \in Publishers : \A m \in inflight[p] : Registered(m.uuid)' => Registered(m.uuid),
         \A st \in Streams : \A i \in DOMAIN sent[st] :
           Registered(sent[st][i].uuid)' => Registered(sent[st][i].uuid)
  PROVE  Termination'
<1>1. TerminalConsumed'
  BY DEF Termination, TerminalConsumed
<1>2. TerminalUnique'
  BY DEF Termination, TerminalUnique
<1>3. AtMostOneTerminal'
  BY DEF Termination, AtMostOneTerminal
<1> QED BY <1>1, <1>2, <1>3 DEF Termination

\* Every step of the hub preserves the uniqueness of terminal results.
LEMMA NextTermination ==
  HubTypeOK /\ Routing /\ Termination /\ [HubNext]_hubVars => Termination'
<1> SUFFICES ASSUME HubTypeOK, Routing, Termination, [HubNext]_hubVars PROVE Termination'
  OBVIOUS
<1>u. \A q \in Publishers : \A m \in inflight[q] : m.uuid \in Uuids
  BY InflightTyped
<1>v. \A st \in Streams : \A i \in DOMAIN sent[st] : sent[st][i].uuid \in Uuids
  BY EntriesTyped DEF BundleResult
<1>1. ASSUME NEW u \in Uuids, NEW s \in Searchers, Register(u, s) PROVE Termination'
  <2>1. /\ \A v \in Uuids \ {u} : owners'[v] = owners[v]
        /\ \A p \in Publishers : \A m \in inflight[p] : m.uuid \in Uuids \ {u}
        /\ \A st \in Streams : \A i \in DOMAIN sent[st] : sent[st][i].uuid \in Uuids \ {u}
        /\ UNCHANGED <<inflight, sent>>
    BY <1>1, RegisterIsFresh DEF Routing
  <2> QED BY <2>1, TerminationStays DEF Registered
<1>2. CASE UNCHANGED <<owners, inflight, sent>>
  BY <1>2, TerminationStays DEF Registered
<1>3. ASSUME NEW s \in Searchers, NEW st \in Streams, AddSubscriber(s, st) PROVE Termination'
  BY <1>2, <1>3 DEF AddSubscriber
<1>4. ASSUME NEW st \in Streams, Receive(st) \/ Disconnect(st) PROVE Termination'
  BY <1>2, <1>4 DEF Receive, Disconnect
<1>5. CASE Prune \/ HubElapse
  <2>1. /\ \A u \in Uuids : owners'[u].pubkey \in {owners[u].pubkey, NoOwner}
        /\ UNCHANGED <<inflight, sent>>
    BY <1>5, MappingsKeepOwner
  <2>2. \A u \in Uuids : Registered(u)' => Registered(u)
    BY <2>1 DEF Registered
  <2> QED BY <1>u, <1>v, <2>1, <2>2, TerminationStays
<1>6. ASSUME NEW p \in Publishers, NEW u \in Uuids, NEW k \in Kinds, PublishLookup(p, u, k)
      PROVE  Termination'
  <2> DEFINE msg == [to |-> owners[u].pubkey, uuid |-> u, kind |-> k]
  <2>1. /\ \A q \in Publishers : \A m \in inflight'[q] :
             \/ q = p /\ Registered(u) /\ m = msg
             \/ q # p /\ m \in inflight[q]
        /\ \A v \in Uuids : owners'[v].pubkey \in {owners[v].pubkey, NoOwner}
        /\ Terminal(k) => owners'[u].pubkey = NoOwner
        /\ UNCHANGED sent
    BY <1>6, LookupEffect
  <2>2. \A v \in Uuids : ~Registered(v) => ~Registered(v)'
    BY <2>1 DEF Registered
  <2>3. Terminal(k) => ~Registered(u)'
    BY <2>1 DEF Registered
  <2>4. msg.uuid = u /\ msg.kind = k
    OBVIOUS
  <2>5. \A q \in Publishers : \A m \in inflight'[q] : Terminal(m.kind) => ~Registered(m.uuid)'
    BY <1>u, <2>1, <2>2, <2>3, <2>4 DEF Termination, TerminalConsumed
  <2>6. \A st \in Streams : \A i \in DOMAIN sent[st] :
          Terminal(sent[st][i].kind) => owners'[sent[st][i].uuid].pubkey = NoOwner
    BY <1>v, <2>2 DEF Termination, TerminalConsumed, Registered
  <2>7. TerminalConsumed'
    BY <2>1, <2>5, <2>6 DEF TerminalConsumed, Registered
  <2>8. ASSUME NEW q \in Publishers, q # p, NEW n \in inflight[q], Terminal(n.kind), Registered(u)
        PROVE  n.uuid # u
    BY <2>8 DEF Termination, TerminalConsumed
  <2>9. \A q, r \in Publishers : \A m \in inflight'[q], n \in inflight'[r] :
          m.uuid = n.uuid /\ Terminal(m.kind) /\ Terminal(n.kind) => q = r
    <3> SUFFICES ASSUME NEW q \in Publishers, NEW r \in Publishers,
                        NEW m \in inflight'[q], NEW n \in inflight'[r],
                        m.uuid = n.uuid, Terminal(m.kind), Terminal(n.kind)
                 PROVE  q = r
      OBVIOUS
    <3>1. CASE q # p /\ r # p
      BY <2>1, <3>1 DEF Termination, TerminalUnique
    <3>2. CASE q = p /\ r # p
      BY <2>1, <2>4, <2>8, <3>2
    <3>3. CASE q # p /\ r = p
      BY <2>1, <2>4, <2>8, <3>3
    <3> QED BY <3>1, <3>2, <3>3
  <2>10. ASSUME NEW q \in Publishers, NEW m \in inflight'[q], NEW st \in Streams,
                NEW i \in DOMAIN sent[st], Terminal(m.kind), Terminal(sent[st][i].kind)
         PROVE  sent[st][i].uuid # m.uuid
    <3>1. CASE q = p /\ Registered(u) /\ m = msg
      BY <2>4, <2>10, <3>1 DEF Termination, TerminalConsumed
    <3>2. CASE q # p /\ m \in inflight[q]
      BY <2>10, <3>2 DEF Termination, TerminalUnique
    <3> QED BY <2>1, <3>1, <3>2
  <2>11. TerminalUnique'
    BY <2>1, <2>9, <2>10 DEF TerminalUnique
  <2>12. AtMostOneTerminal'
    BY <2>1 DEF Termination, AtMostOneTerminal
  <2> QED BY <2>7, <2>11, <2>12 DEF Termination
<1>7. ASSUME NEW p \in Publishers, PublishSend(p) PROVE Termination'
  <2>1. PICK m \in inflight[p] : Delivered(p, m)
    BY <1>7, SendDelivers
  <2> DEFINE msg == [uuid |-> m.uuid, kind |-> m.kind]
  <2>2. \A q \in Publishers : \A n \in inflight'[q] : q # p /\ n \in inflight[q]
    BY <2>1 DEF Delivered, HubTypeOK
  <2>3. \A v \in Uuids : Registered(v)' = Registered(v)
    BY ONLY <2>1, Zenon DEF Delivered, Registered
  <2>4. msg.uuid = m.uuid /\ msg.kind = m.kind
    OBVIOUS
  <2>5. \A st \in Streams : \A i \in DOMAIN sent'[st] :
          \/ i \in DOMAIN sent[st] /\ sent'[st][i] = sent[st][i]
          \/ i = Len(sent[st]) + 1 /\ sent'[st][i] = msg
    BY <2>1, DeliveredEntry
  <2>6. \A q \in Publishers : \A n \in inflight'[q] : Terminal(n.kind) => ~Registered(n.uuid)'
    BY <1>u, <2>2, <2>3 DEF Termination, TerminalConsumed
  <2>7. ASSUME NEW st \in Streams, NEW i \in DOMAIN sent'[st], Terminal(sent'[st][i].kind)
        PROVE  owners'[sent'[st][i].uuid].pubkey = NoOwner
    <3>1. CASE i \in DOMAIN sent[st] /\ sent'[st][i] = sent[st][i]
      BY <1>v, <2>3, <2>7, <3>1 DEF Termination, TerminalConsumed, Registered
    <3>2. CASE sent'[st][i] = msg
      <4>1. Terminal(m.kind) /\ m.uuid \in Uuids
        BY <1>u, <2>1, <2>4, <2>7, <3>2
      <4>2. ~Registered(m.uuid)
        BY <2>1, <4>1 DEF Termination, TerminalConsumed
      <4>3. owners'[m.uuid].pubkey = NoOwner
        BY <2>3, <4>1, <4>2 DEF Registered
      <4> QED BY <2>4, <3>2, <4>3
    <3> QED BY <2>5, <3>1, <3>2
  <2>8. TerminalConsumed'
    BY <2>6, <2>7 DEF TerminalConsumed, Registered
  <2>9. ASSUME NEW q \in Publishers, NEW n \in inflight'[q], NEW st \in Streams,
               NEW i \in DOMAIN sent'[st], Terminal(n.kind), Terminal(sent'[st][i].kind)
        PROVE  sent'[st][i].uuid # n.uuid
    <3>1. CASE i \in DOMAIN sent[st] /\ sent'[st][i] = sent[st][i]
      BY <2>2, <2>9, <3>1 DEF Termination, TerminalUnique
    <3>2. CASE sent'[st][i] = msg
      BY <2>2, <2>4, <2>9, <3>2 DEF Termination, TerminalUnique
    <3> QED BY <2>5, <3>1, <3>2
  <2>10. TerminalUnique'
    BY <2>2, <2>9 DEF Termination, TerminalUnique
  <2>11. AtMostOneTerminal'
    <3> SUFFICES ASSUME NEW st \in Streams,
                        NEW i \in DOMAIN sent'[st], NEW j \in DOMAIN sent'[st],
                        sent'[st][i].uuid = sent'[st][j].uuid,
                        Terminal(sent'[st][i].kind), Terminal(sent'[st][j].kind)
                 PROVE  i = j
      BY DEF AtMostOneTerminal
    <3>1. \A l \in DOMAIN sent[st] :
            Terminal(m.kind) /\ Terminal(sent[st][l].kind) => sent[st][l].uuid # m.uuid
      BY DEF Termination, TerminalUnique
    <3>2. CASE i \in DOMAIN sent[st] /\ sent'[st][i] = sent[st][i]
      <4>1. CASE j \in DOMAIN sent[st] /\ sent'[st][j] = sent[st][j]
        BY <3>2, <4>1 DEF Termination, AtMostOneTerminal
      <4>2. CASE sent'[st][j] = msg
        BY <2>4, <3>1, <3>2, <4>2
      <4> QED BY <2>5, <4>1, <4>2
    <3>3. CASE i = Len(sent[st]) + 1 /\ sent'[st][i] = msg
      <4>1. CASE j \in DOMAIN sent[st] /\ sent'[st][j] = sent[st][j]
        BY <2>4, <3>1, <3>3, <4>1
      <4>2. CASE j = Len(sent[st]) + 1
        BY <3>3, <4>2
      <4> QED BY <2>5, <4>1, <4>2
    <3> QED BY <2>5, <3>2, <3>3
  <2> QED BY <2>8, <2>10, <2>11 DEF Termination
<1>8. CASE UNCHANGED hubVars
  BY <1>2, <1>8 DEF hubVars, streamVars
<1> QED
  BY <1>1, <1>3, <1>4, <1>5, <1>6, <1>7, <1>8 DEF HubNext

-----------------------------------------------------------------------------
\* The hub's state is always well typed, and no stream's backlog exceeds its
\* channel's capacity.
THEOREM HubTypeCorrect == HubSpec => []HubTypeOK
BY HubInitTypeOK, HubNextTypeOK, PTL DEF HubSpec

\* The inductive invariant behind the next three theorems.
LEMMA HubInvariant == HubSpec => [](HubTypeOK /\ Routing /\ Termination)
<1>1. HubInit => HubTypeOK /\ Routing /\ Termination
  BY HubInitTypeOK, InitRouting, InitTermination
<1>2. HubTypeOK /\ Routing /\ Termination /\ [HubNext]_hubVars
        => (HubTypeOK /\ Routing /\ Termination)'
  BY HubNextTypeOK, NextRouting, NextTermination
<1> QED BY <1>1, <1>2, PTL DEF HubSpec

\* publish delivers each result only to streams of the submitting searcher.
THEOREM ResultsAreRouted == HubSpec => []RoutedToOwner
<1>1. Routing => RoutedToOwner
  BY DEF Routing
<1> QED BY <1>1, HubInvariant, PTL

\* No stream carries two terminal results of one bundle, whatever the tasks
\* that call publish do concurrently.
THEOREM OneTerminalResult == HubSpec => []AtMostOneTerminal
<1>1. Termination => AtMostOneTerminal
  BY DEF Termination
<1> QED BY <1>1, HubInvariant, PTL

\* A stream stays subscribed as long as its receiver is open.
THEOREM OpenStreamsStay == HubSpec => []OpenStreamsKept
<1>1. Routing => OpenStreamsKept
  BY DEF Routing
<1> QED BY <1>1, HubInvariant, PTL

-----------------------------------------------------------------------------
(* The tracker *)

\* Outside the publishing part of a poll its lists are empty.
ListsEmpty == tpc # "emit" => toProcess = {} /\ toFinalize = {} /\ toDrop = {}

\* An answer ages well: what it shows confirmed stays confirmed or finalized.
AnswerHolds ==
  \A s \in Sigs :
    /\ statuses[s] = "confirmed" => chain[s] \in {"confirmed", "finalized"}
    /\ statuses[s] = "finalized" => chain[s] = "finalized"

\* Where a bundle is: the list of a terminal verdict and the pending list
\* exclude each other, and a bundle to be reported processed stays flagged.
Placed ==
  /\ toFinalize \cap toDrop = {}
  /\ (toFinalize \cup toDrop) \cap pending = {}
  /\ toProcess \subseteq emitted

\* processed_emitted is not forgotten while the bundle is followed.
Flagged == \A u \in pending : "processed" \in reports[u] => u \in emitted

\* A list of drops never holds a bundle whose answer was complete and final.
DropsJustified ==
  \A u \in toDrop : SigsOf[u] \subseteq queried => ~Landed(u, statuses, {"finalized"})

Shape == TrackerTypeOK /\ ListsEmpty

-----------------------------------------------------------------------------
(* The shape of the state *)

\* Every step of the tracker keeps its state well typed, and its lists empty
\* where no poll is being resolved.
LEMMA ShapeInductive == Shape /\ [TrackerNext]_trackerVars => Shape'
<1> SUFFICES ASSUME Shape, [TrackerNext]_trackerVars PROVE Shape'
  OBVIOUS
<1> USE DEF Shape, TrackerTypeOK, ListsEmpty
<1>1. ASSUME NEW u \in Uuids, TrackNew(u) PROVE Shape'
  BY <1>1, TrackerAssumption, SMTT(30) DEF TrackNew, Track, pollVars
<1>2. CASE PollCollect
  BY <1>2, TrackerAssumption, SMTT(30) DEF PollCollect, Smallest
<1>3. CASE RpcReply
  BY <1>3 DEF RpcReply
<1>4. CASE RpcError \/ PollDone
  <2>1. statuses' = [s \in Sigs |-> "none"] /\ statuses' \in [Sigs -> Commitment]
    BY <1>4 DEF RpcError, PollDone, EndPoll, Commitment
  <2>2. toProcess' = {} /\ toFinalize' = {} /\ toDrop' = {}
    BY <1>4 DEF RpcError, PollDone, EndPoll
  <2> QED
    BY <1>4, <2>1, <2>2 DEF RpcError, PollDone, EndPoll
<1>5. CASE Resolve
  BY <1>5, TrackerAssumption, SMTT(30) DEF Resolve, ResolveTo, Unresolved, Judged
<1>6. ASSUME NEW u \in Uuids, EmitProcessed(u) \/ EmitFinalized(u) \/ EmitDropped(u)
      PROVE  Shape'
  <2>1. PICK k \in Verdicts : Report(u, k)
    BY <1>6 DEF EmitProcessed, EmitFinalized, EmitDropped, Verdicts
  <2>2. reports' \in [Uuids -> SUBSET Verdicts]
    BY <2>1 DEF Report
  <2>3. /\ toProcess' \subseteq toProcess /\ toFinalize' \subseteq toFinalize
        /\ toDrop' \subseteq toDrop
    BY <1>6 DEF EmitProcessed, EmitFinalized, EmitDropped
  <2> QED
    BY <2>1, <2>2, <2>3 DEF Report
<1>7. CASE TrackerElapse
  BY <1>7, TrackerAssumption, SMTT(30) DEF TrackerElapse, AgePending, pollVars
<1>8. ASSUME NEW s \in Sigs, ChainStep(s) PROVE Shape'
  <2>1. chain' \in [Sigs -> Commitment]
    BY <1>8 DEF ChainStep, Commitment
  <2> QED
    BY <1>8, <2>1 DEF ChainStep, pollVars
<1>9. CASE UNCHANGED trackerVars
  BY <1>9 DEF trackerVars, pollVars
<1> QED
  BY <1>1, <1>2, <1>3, <1>4, <1>5, <1>6, <1>7, <1>8, <1>9 DEF TrackerNext, TrackerTask

\* They are in every behaviour.
LEMMA ShapeHolds == TrackerSpec => []Shape
<1>1. TrackerInit => Shape
  BY TrackerAssumption, SMTT(30) DEF TrackerInit, Shape, TrackerTypeOK, ListsEmpty, Commitment
<1> QED
  BY <1>1, ShapeInductive, PTL DEF TrackerSpec

\* Every state of the tracker is well typed: no removal leaves the flag of a
\* bundle that is gone, and the clock of a bundle stays within its bound.
THEOREM TrackerTypeCorrect == TrackerSpec => []TrackerTypeOK
<1>1. Shape => TrackerTypeOK
  BY DEF Shape
<1> QED
  BY <1>1, ShapeHolds, PTL

-----------------------------------------------------------------------------
(* Reports are true *)

Truth == AnswerHolds /\ ReportsAreTrue

\* What a step may do to the lists and the reports, seen from one bundle: only
\* Resolve puts it on a list, and only then its report follows.
LEMMA ListsAndReports ==
  ASSUME Shape, [TrackerNext]_trackerVars, NEW u \in Uuids
  PROVE  /\ u \in toProcess' => u \in toProcess \/ (Resolve /\ Verdict(u) = "processed")
         /\ u \in toFinalize' => u \in toFinalize \/ (Resolve /\ Verdict(u) = "finalized")
         /\ "processed" \in reports'[u] => "processed" \in reports[u] \/ u \in toProcess
         /\ "finalized" \in reports'[u] => "finalized" \in reports[u] \/ u \in toFinalize
<1> DEFINE Kept == toProcess' \subseteq toProcess /\ toFinalize' \subseteq toFinalize
           Said == /\ "processed" \in reports'[u] => "processed" \in reports[u] \/ u \in toProcess
                   /\ "finalized" \in reports'[u] => "finalized" \in reports[u] \/ u \in toFinalize
<1>1. CASE Resolve
  <2>1. Said
    BY <1>1 DEF Resolve, ResolveTo
  <2>2. /\ toProcess' = Judged("processed")
        /\ toFinalize' = Judged("finalized")
    BY <1>1 DEF Resolve, ResolveTo
  <2> QED
    BY <1>1, <2>1, <2>2 DEF Judged
<1>2. ASSUME NEW v \in Uuids, NEW k \in Verdicts,
             reports' = [reports EXCEPT ![v] = @ \cup {k}],
             k = "processed" => v \in toProcess, k = "finalized" => v \in toFinalize
      PROVE  Said
  <2>1. reports \in [Uuids -> SUBSET Verdicts]
    BY DEF Shape, TrackerTypeOK
  <2> QED
    BY ONLY <1>2, <2>1, u \in Uuids, Zenon
<1>3. ASSUME NEW v \in Uuids, EmitProcessed(v) PROVE Kept /\ Said
  BY <1>2, <1>3 DEF EmitProcessed, Report, Verdicts
<1>4. ASSUME NEW v \in Uuids, EmitFinalized(v) PROVE Kept /\ Said
  BY <1>2, <1>4 DEF EmitFinalized, Report, Verdicts
<1>5. ASSUME NEW v \in Uuids, EmitDropped(v) PROVE Kept /\ Said
  BY <1>2, <1>5 DEF EmitDropped, Report, Verdicts
<1>6. ASSUME NEW v \in Uuids, TrackNew(v) PROVE Kept /\ Said
  BY <1>6 DEF TrackNew, Track, pollVars
<1>7. ASSUME PollCollect \/ RpcReply \/ RpcError \/ PollDone \/ TrackerElapse \/ UNCHANGED trackerVars
      PROVE  Kept /\ Said
  BY <1>7
    DEF PollCollect, RpcReply, RpcError, PollDone, EndPoll, TrackerElapse, pollVars, trackerVars
<1>8. ASSUME NEW s \in Sigs, ChainStep(s) PROVE Kept /\ Said
  BY <1>8 DEF ChainStep, pollVars
<1>9. Resolve \/ (Kept /\ Said)
  <2> HIDE DEF Kept, Said
  <2> QED
    BY <1>3, <1>4, <1>5, <1>6, <1>7, <1>8 DEF TrackerNext, TrackerTask
<1> QED
  BY <1>1, <1>9

\* The cluster never goes back on a confirmation.
LEMMA ChainMonotone ==
  ASSUME Shape, [TrackerNext]_trackerVars, NEW s \in Sigs
  PROVE  /\ chain[s] = "finalized" => chain'[s] = "finalized"
         /\ chain[s] \in {"confirmed", "finalized"} => chain'[s] \in {"confirmed", "finalized"}
<1>1. ASSUME NEW t \in Sigs, ChainStep(t)
      PROVE  \/ /\ chain[t] \in {"none", "processed"}
                /\ \E c \in Commitment : chain' = [chain EXCEPT ![t] = c]
             \/ chain[t] = "confirmed" /\ chain' = [chain EXCEPT ![t] = "finalized"]
  BY <1>1 DEF ChainStep, Commitment
<1>2. ASSUME ~\E t \in Sigs : ChainStep(t) PROVE chain' = chain
  BY <1>2 DEF TrackerNext, TrackerTask, TrackNew, Track, PollCollect, RpcReply, RpcError, PollDone,
              EndPoll, Resolve, ResolveTo, EmitProcessed, EmitFinalized, EmitDropped, Report,
              TrackerElapse, trackerVars
<1>3. chain \in [Sigs -> Commitment]
  BY DEF Shape, TrackerTypeOK
<1> QED
  BY <1>1, <1>2, <1>3

\* Each step keeps the answer, forgets it, or takes it anew.
LEMMA AnswerSteps ==
  ASSUME [TrackerNext]_trackerVars
  PROVE  \/ statuses' = statuses
         \/ statuses' = [s \in Sigs |-> "none"]
         \/ statuses' = chain /\ chain' = chain
BY
  DEF TrackerNext, TrackerTask, TrackNew, Track, PollCollect, RpcReply, RpcError, PollDone, EndPoll,
       Resolve, ResolveTo, EmitProcessed, EmitFinalized, EmitDropped, Report, TrackerElapse, ChainStep,
       pollVars, trackerVars

\* What the answer showed and the reports say stays true of the cluster.
LEMMA TruthInductive == Shape /\ Truth /\ [TrackerNext]_trackerVars => Truth'
<1> SUFFICES ASSUME Shape, Truth, [TrackerNext]_trackerVars PROVE Truth'
  OBVIOUS
<1>1. AnswerHolds'
  BY AnswerSteps, ChainMonotone DEF Truth, AnswerHolds
<1>2. ASSUME NEW u \in Uuids, Verdict(u) = "processed"
      PROVE  Landed(u, chain, {"confirmed", "finalized"})
  BY <1>2, TrackerAssumption DEF Verdict, AllConfirmed, Landed, Truth, AnswerHolds
<1>3. ASSUME NEW u \in Uuids, Verdict(u) = "finalized" PROVE Landed(u, chain, {"finalized"})
  BY <1>3, TrackerAssumption DEF Verdict, AllFinalized, Landed, Truth, AnswerHolds
<1>4. ASSUME NEW u \in Uuids, u \in toProcess' \/ "processed" \in reports'[u]
      PROVE  Landed(u, chain', {"confirmed", "finalized"})
  <2>1. Landed(u, chain, {"confirmed", "finalized"})
    BY <1>2, <1>4, ListsAndReports DEF Truth, ReportsAreTrue
  <2> QED
    BY <2>1, ChainMonotone, TrackerAssumption DEF Landed
<1>5. ASSUME NEW u \in Uuids, u \in toFinalize' \/ "finalized" \in reports'[u]
      PROVE  Landed(u, chain', {"finalized"})
  <2>1. Landed(u, chain, {"finalized"})
    BY <1>3, <1>5, ListsAndReports DEF Truth, ReportsAreTrue
  <2> QED
    BY <2>1, ChainMonotone, TrackerAssumption DEF Landed
<1> QED
  BY <1>1, <1>4, <1>5 DEF Truth, ReportsAreTrue

\* A Processed or Finalized report is true of the cluster when it is published,
\* although it rests on an answer given before.
THEOREM ReportsTrue == TrackerSpec => []ReportsAreTrue
<1>1. TrackerInit => Truth
  BY DEF TrackerInit, Truth, AnswerHolds, ReportsAreTrue
<1>2. Truth => ReportsAreTrue
  BY DEF Truth
<1> QED
  BY <1>1, <1>2, TruthInductive, ShapeHolds, PTL DEF TrackerSpec

-----------------------------------------------------------------------------
(* One fate *)

FateOK == Placed /\ Flagged /\ OneFate /\ ProcessedOnce

\* No step gives a bundle a second end or a second Processed.
LEMMA FateInductive == Shape /\ FateOK /\ [TrackerNext]_trackerVars => FateOK'
<1> SUFFICES ASSUME Shape, FateOK, [TrackerNext]_trackerVars PROVE FateOK'
  OBVIOUS
<1> USE DEF Shape, TrackerTypeOK, FateOK, Placed, Flagged, OneFate, ProcessedOnce
<1>1. ASSUME NEW u \in Uuids, TrackNew(u) PROVE FateOK'
  BY <1>1, SMTT(30) DEF TrackNew, Track, pollVars
<1>2. CASE PollCollect \/ RpcReply \/ RpcError \/ PollDone
  BY <1>2, SMTT(30) DEF PollCollect, RpcReply, RpcError, PollDone, EndPoll
<1>3. CASE Resolve
  <2>1. toProcess = {} /\ toFinalize = {} /\ toDrop = {}
    BY <1>3 DEF Resolve, ResolveTo, ListsEmpty
  <2>2. /\ toFinalize' = Judged("finalized") /\ toDrop' = Judged("dropped")
        /\ toProcess' = Judged("processed") /\ reports' = reports
        /\ pending' = pending \ (toFinalize' \cup toDrop')
        /\ emitted' = (emitted \cup toProcess') \cap pending'
    BY <1>3 DEF Resolve, ResolveTo, Unresolved
  <2>3. /\ toFinalize' \cap toDrop' = {} /\ toProcess' \cap (toFinalize' \cup toDrop') = {}
        /\ toFinalize' \subseteq pending /\ toDrop' \subseteq pending
        /\ toProcess' \subseteq pending \ emitted
    BY <2>2 DEF Judged, Verdict
  <2>4. Placed' /\ Flagged'
    BY <2>2, <2>3
  <2>5. OneFate'
    BY <2>2, <2>3
  <2>6. ProcessedOnce'
    BY <2>2, <2>3
  <2> QED
    BY <2>4, <2>5, <2>6
<1>4. ASSUME NEW u \in Uuids, EmitProcessed(u) PROVE FateOK'
  <2>1. /\ u \in toProcess /\ toProcess' = toProcess \ {u}
        /\ reports' = [reports EXCEPT ![u] = @ \cup {"processed"}]
        /\ UNCHANGED <<toFinalize, toDrop, pending, emitted>>
    BY <1>4 DEF EmitProcessed, Report
  <2> QED
    BY <2>1
<1>5. ASSUME NEW u \in Uuids, EmitFinalized(u) PROVE FateOK'
  <2>1. /\ toProcess = {} /\ u \in toFinalize /\ toFinalize' = toFinalize \ {u}
        /\ reports' = [reports EXCEPT ![u] = @ \cup {"finalized"}]
        /\ UNCHANGED <<toProcess, toDrop, pending, emitted>>
    BY <1>5 DEF EmitFinalized, Report
  <2> QED
    BY <2>1, SMTT(30)
<1>6. ASSUME NEW u \in Uuids, EmitDropped(u) PROVE FateOK'
  <2>1. /\ toProcess = {} /\ toFinalize = {} /\ u \in toDrop /\ toDrop' = toDrop \ {u}
        /\ reports' = [reports EXCEPT ![u] = @ \cup {"dropped"}]
        /\ UNCHANGED <<toProcess, toFinalize, pending, emitted>>
    BY <1>6 DEF EmitDropped, Report
  <2> QED
    BY <2>1, SMTT(30)
<1>7. CASE TrackerElapse \/ UNCHANGED trackerVars
  BY <1>7 DEF TrackerElapse, trackerVars, pollVars
<1>8. ASSUME NEW s \in Sigs, ChainStep(s) PROVE FateOK'
  BY <1>8 DEF ChainStep, pollVars
<1> QED
  BY <1>1, <1>2, <1>3, <1>4, <1>5, <1>6, <1>7, <1>8 DEF TrackerNext, TrackerTask

\* No bundle has one, in any behaviour.
LEMMA FateHolds == TrackerSpec => []FateOK
<1>1. TrackerInit => FateOK
  BY DEF TrackerInit, FateOK, Placed, Flagged, OneFate, ProcessedOnce
<1> QED
  BY <1>1, FateInductive, ShapeHolds, PTL DEF TrackerSpec

\* A bundle is never reported both Finalized and Dropped, and once it has come
\* to either the tracker is done with it.
THEOREM OneFateEach == TrackerSpec => []OneFate
<1>1. FateOK => OneFate
  BY DEF FateOK
<1> QED
  BY <1>1, FateHolds, PTL

\* However many polls a bundle stays pending, Processed is published once.
THEOREM ProcessedIsOnce == TrackerSpec => []ProcessedOnce
<1>1. FateOK => ProcessedOnce
  BY DEF FateOK
<1> QED
  BY <1>1, FateHolds, PTL

-----------------------------------------------------------------------------
(* Drops *)

\* A poll lists for dropping only what it could not ask about or saw
\* unfinished.
LEMMA DropsInductive == Shape /\ DropsJustified /\ [TrackerNext]_trackerVars => DropsJustified'
<1> SUFFICES ASSUME Shape, DropsJustified, [TrackerNext]_trackerVars PROVE DropsJustified'
  OBVIOUS
<1> USE DEF Shape, TrackerTypeOK, ListsEmpty, DropsJustified
<1>1. CASE PollCollect \/ RpcReply \/ RpcError \/ PollDone
  BY <1>1 DEF PollCollect, RpcReply, RpcError, PollDone, EndPoll
<1>2. CASE Resolve
  BY <1>2 DEF Resolve, ResolveTo, Judged, Verdict, AllFinalized, Landed
<1>3. CASE toDrop' \subseteq toDrop /\ UNCHANGED <<queried, statuses>>
  BY <1>3 DEF Landed
<1>4. ASSUME NEW u \in Uuids,
             TrackNew(u) \/ EmitProcessed(u) \/ EmitFinalized(u) \/ EmitDropped(u)
      PROVE  toDrop' \subseteq toDrop /\ UNCHANGED <<queried, statuses>>
  BY <1>4 DEF TrackNew, Track, EmitProcessed, EmitFinalized, EmitDropped, Report, pollVars
<1>5. ASSUME TrackerElapse \/ UNCHANGED trackerVars
      PROVE  toDrop' \subseteq toDrop /\ UNCHANGED <<queried, statuses>>
  BY <1>5 DEF TrackerElapse, trackerVars, pollVars
<1>6. ASSUME NEW s \in Sigs, ChainStep(s)
      PROVE  toDrop' \subseteq toDrop /\ UNCHANGED <<queried, statuses>>
  BY <1>6 DEF ChainStep, pollVars
<1> QED
  BY <1>1, <1>2, <1>3, <1>4, <1>5, <1>6 DEF TrackerNext, TrackerTask

\* A bundle whose signatures were all asked about and are all finalized in the
\* answer is not dropped, however far past the deadline the answer comes.
THEOREM AskedAreNotDropped == TrackerSpec => []AskedNotDropped
<1>1. TrackerInit => DropsJustified
  BY DEF TrackerInit, DropsJustified
<1>2. DropsJustified => AskedNotDropped
  BY DEF DropsJustified, AskedNotDropped
<1> QED
  BY <1>1, <1>2, DropsInductive, ShapeHolds, PTL DEF TrackerSpec
-----------------------------------------------------------------------------
(* What makes every tracked bundle come to its end *)

\* The bundles the tracker owes a terminal result or has given one.
Accounted ==
  {u \in Uuids : \/ u \in pending \cup toFinalize \cup toDrop
                 \/ reports[u] \cap {"finalized", "dropped"} # {}}

\* No step forgets a bundle: it leaves the pending list only for the list of its
\* terminal verdict, and that list only with the report.
NoneForgotten == Accounted \subseteq Accounted'

\* A pending bundle past the deadline stays past it, a processed_emitted flag
\* stays set, and an evaluation of the pending list that keeps a bundle past the
\* deadline sets its flag, which was not set.
OverdueOnce ==
  \A u \in pending \cap pending' :
    /\ u \in emitted => u \in emitted'
    /\ waited[u] > Deadline => waited'[u] > Deadline
    /\ Resolve /\ waited[u] > Deadline => u \notin emitted /\ u \in emitted'

\* Every step accounts for all bundles.
LEMMA StepsAccount ==
  ASSUME Shape, [TrackerNext]_trackerVars PROVE NoneForgotten
<1> USE DEF Shape, TrackerTypeOK
<1>1. ASSUME reports' = reports, toFinalize \subseteq toFinalize', toDrop \subseteq toDrop',
             pending \subseteq pending' \cup toFinalize' \cup toDrop'
      PROVE  NoneForgotten
  BY <1>1 DEF NoneForgotten, Accounted
<1>2. CASE Resolve
  <2>1. toFinalize = {} /\ toDrop = {} /\ reports' = reports
    BY <1>2 DEF Resolve, ResolveTo, ListsEmpty
  <2>2. pending \subseteq pending' \cup toFinalize' \cup toDrop'
    BY <1>2 DEF Resolve, ResolveTo, Unresolved
  <2> QED BY <1>1, <2>1, <2>2
<1>3. ASSUME NEW u \in Uuids, EmitProcessed(u) \/ EmitFinalized(u) \/ EmitDropped(u)
      PROVE  NoneForgotten
  <2>1. \A v \in Uuids : v # u => reports'[v] = reports[v]
    BY <1>3 DEF EmitProcessed, EmitFinalized, EmitDropped, Report
  <2>2. CASE EmitProcessed(u)
    <3>1. reports[u] \subseteq reports'[u] /\ UNCHANGED <<pending, toFinalize, toDrop>>
      BY <2>2 DEF EmitProcessed, Report
    <3> QED BY <2>1, <3>1 DEF NoneForgotten, Accounted
  <2>3. CASE EmitFinalized(u)
    <3>1. "finalized" \in reports'[u] /\ toFinalize' = toFinalize \ {u} /\ UNCHANGED <<pending, toDrop>>
      BY <2>3 DEF EmitFinalized, Report
    <3> QED BY <2>1, <3>1 DEF NoneForgotten, Accounted
  <2>4. CASE EmitDropped(u)
    <3>1. "dropped" \in reports'[u] /\ toDrop' = toDrop \ {u} /\ UNCHANGED <<pending, toFinalize>>
      BY <2>4 DEF EmitDropped, Report
    <3> QED BY <2>1, <3>1 DEF NoneForgotten, Accounted
  <2> QED BY <1>3, <2>2, <2>3, <2>4
<1>4. CASE PollCollect \/ RpcReply \/ RpcError \/ PollDone
  BY <1>1, <1>4 DEF PollCollect, RpcReply, RpcError, PollDone, EndPoll
<1>5. ASSUME NEW u \in Uuids, TrackNew(u) PROVE NoneForgotten
  BY <1>1, <1>5 DEF TrackNew, Track, pollVars
<1>6. CASE TrackerElapse \/ UNCHANGED trackerVars
  BY <1>1, <1>6 DEF TrackerElapse, trackerVars, pollVars
<1>7. ASSUME NEW s \in Sigs, ChainStep(s) PROVE NoneForgotten
  BY <1>1, <1>7 DEF ChainStep, pollVars
<1> QED
  BY <1>2, <1>3, <1>4, <1>5, <1>6, <1>7 DEF TrackerNext, TrackerTask

\* An evaluation keeps a bundle past the deadline only to report it processed.
LEMMA ResolveOverdue ==
  ASSUME Shape, Resolve, NEW u \in pending \cap pending'
  PROVE  /\ u \in emitted => u \in emitted'
         /\ waited'[u] = waited[u]
         /\ waited[u] > Deadline => u \notin emitted /\ u \in emitted'
<1>1. /\ pending' = Unresolved /\ u \in Uuids /\ u \in pending
      /\ emitted' = (emitted \cup Judged("processed")) \cap Unresolved
      /\ waited' = [v \in Uuids |-> IF v \in Unresolved THEN waited[v] ELSE 0]
  BY DEF Resolve, ResolveTo, Shape, TrackerTypeOK
<1>2. Verdict(u) # "finalized" /\ Verdict(u) # "dropped"
  BY <1>1 DEF Unresolved, Judged
<1>3. waited[u] > Deadline => Verdict(u) = "processed" /\ u \notin emitted
  BY <1>2 DEF Verdict
<1> QED BY <1>1, <1>3 DEF Judged

\* Every step keeps to that.
LEMMA StepsOverdue ==
  ASSUME Shape, [TrackerNext]_trackerVars PROVE OverdueOnce
<1> SUFFICES ASSUME NEW u \in pending \cap pending'
             PROVE  /\ u \in emitted => u \in emitted'
                    /\ waited[u] > Deadline => waited'[u] > Deadline
                    /\ Resolve /\ waited[u] > Deadline => u \notin emitted /\ u \in emitted'
  BY DEF OverdueOnce
<1>1. CASE Resolve
  BY <1>1, ResolveOverdue
<1>2. ASSUME NEW v \in Uuids, TrackNew(v)
      PROVE  emitted' = emitted /\ waited'[u] = waited[u]
  BY <1>2 DEF TrackNew, Track, Shape, TrackerTypeOK
<1>3. CASE TrackerElapse
  <2>1. emitted' = emitted /\ u \in Uuids /\ waited[u] \in Nat /\ Deadline \in Nat
    BY <1>3, TrackerAssumption, SMTT(30) DEF TrackerElapse, Shape, TrackerTypeOK
  <2>2. waited[u] > Deadline => ~(waited[u] <= Deadline)
    BY ONLY <2>1, SMTT(30)
  <2>3. waited[u] > Deadline => waited'[u] = waited[u]
    BY <1>3, <2>1, <2>2 DEF TrackerElapse, AgePending
  <2> QED BY <1>1, <2>1, <2>3
<1>4. ASSUME PollCollect \/ RpcReply \/ RpcError \/ PollDone \/ UNCHANGED trackerVars
      PROVE  UNCHANGED <<emitted, waited>>
  BY <1>4 DEF PollCollect, RpcReply, RpcError, PollDone, EndPoll, trackerVars
<1>5. ASSUME NEW v \in Uuids, EmitProcessed(v) \/ EmitFinalized(v) \/ EmitDropped(v)
      PROVE  UNCHANGED <<emitted, waited>>
  BY <1>5 DEF EmitProcessed, EmitFinalized, EmitDropped, Report
<1>6. ASSUME NEW s \in Sigs, ChainStep(s) PROVE UNCHANGED <<emitted, waited>>
  BY <1>6 DEF ChainStep
<1> QED
  BY <1>1, <1>2, <1>3, <1>4, <1>5, <1>6 DEF TrackerNext, TrackerTask

\* The tracker forgets no bundle, and one past the deadline survives at most one
\* more evaluation of the pending list: the one that reports it Processed. With
\* the fairness of the poll loop this is why every tracked bundle is resolved.
THEOREM OverdueAreResolved ==
  TrackerSpec => [][NoneForgotten /\ OverdueOnce]_trackerVars
<1>1. Shape /\ [TrackerNext]_trackerVars => [NoneForgotten /\ OverdueOnce]_trackerVars
  BY StepsAccount, StepsOverdue
<1> QED BY <1>1, ShapeHolds, PTL DEF TrackerSpec
=============================================================================
