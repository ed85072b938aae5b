--------------------------- MODULE BundleResults ---------------------------
(***************************************************************************)
(* The results hub (results/src/lib.rs): it remembers which searcher       *)
(* submitted a bundle and fans each published result out to that           *)
(* searcher's result streams (searcher/src/server.rs).                     *)
(*                                                                         *)
(* publish takes the owners lock, releases it, and only then takes the     *)
(* subscribers lock. Between the two the message is in flight, and any     *)
(* other task may register, prune, subscribe or publish.                   *)
(***************************************************************************)
EXTENDS BundleIds, Integers, Sequences, FiniteSets

CONSTANTS
  Searchers, Streams,
  NoOwner,      \* not a searcher
  Publishers,   \* the tasks that publish: auction and tracker
  StreamCap,    \* capacity of a result stream's channel
  OwnerTtl      \* prune's ttl, in clock ticks

ASSUME ResultsAssumption ==
  /\ NoOwner \notin Searchers
  /\ StreamCap \in Nat \ {0} /\ OwnerTtl \in Nat \ {0}

VARIABLES
  owners,       \* uuid -> owner and age of the mapping (NoOwner if absent)
  submitter,    \* history: who registered each uuid
  subscribers,  \* searcher -> its result streams known to the hub
  conn,         \* stream -> who opened it, and whether it is still open
  inflight,     \* publisher -> the message between the two locks, if any
  sent,         \* stream -> every message ever enqueued on it
  read          \* stream -> how many of them the searcher has received

streamVars == <<conn, sent, read>>
hubVars == <<owners, submitter, subscribers, inflight, streamVars>>

Kinds == {"accepted", "processed", "finalized", "dropped", "lost", "simfail"}
Terminal(kind) == kind \notin {"accepted", "processed"}
BundleResult == [uuid : Uuids, kind : Kinds]
Message == [to : Searchers, uuid : Uuids, kind : Kinds]
Absent == [pubkey |-> NoOwner, age |-> 0]
Registered(u) == owners[u].pubkey # NoOwner

HubInit ==
  /\ owners = [u \in Uuids |-> Absent]
  /\ submitter = [u \in Uuids |-> NoOwner]
  /\ subscribers = [s \in Searchers |-> {}]
  /\ conn = [st \in Streams |-> [who |-> NoOwner, open |-> FALSE]]
  /\ inflight = [p \in Publishers |-> {}]
  /\ sent = [st \in Streams |-> <<>>]
  /\ read = [st \in Streams |-> 0]

\* register: uuids are fresh (v4), so each is registered once.
Register(u, s) ==
  /\ submitter[u] = NoOwner
  /\ submitter' = [submitter EXCEPT ![u] = s]
  /\ owners' = [owners EXCEPT ![u] = [pubkey |-> s, age |-> 0]]
  /\ UNCHANGED <<subscribers, inflight, streamVars>>

\* subscribe_bundle_results: a new channel, its sender given to the hub.
AddSubscriber(s, st) ==
  /\ conn[st].who = NoOwner
  /\ conn' = [conn EXCEPT ![st] = [who |-> s, open |-> TRUE]]
  /\ subscribers' = [subscribers EXCEPT ![s] = @ \cup {st}]
  /\ UNCHANGED <<owners, submitter, inflight, sent, read>>

\* The searcher reads its stream.
Receive(st) ==
  /\ conn[st].open /\ read[st] < Len(sent[st])
  /\ read' = [read EXCEPT ![st] = @ + 1]
  /\ UNCHANGED <<owners, submitter, subscribers, inflight, conn, sent>>

\* The searcher drops its stream; the hub notices only when it next sends.
Disconnect(st) ==
  /\ conn[st].open
  /\ conn' = [conn EXCEPT ![st].open = FALSE]
  /\ UNCHANGED <<owners, submitter, subscribers, inflight, sent, read>>

\* Faulty: forgets to evict.
PruneNothing == UNCHANGED hubVars

\* prune: evict the mappings that have reached the ttl.
Prune ==
  /\ owners' = [u \in Uuids |->
                  IF owners[u].age < OwnerTtl THEN owners[u] ELSE Absent]
  /\ UNCHANGED <<submitter, subscribers, inflight, streamVars>>

\* One tick of the clock.
AgeOwners ==
  owners' = [u \in Uuids |->
    IF Registered(u) /\ owners[u].age < OwnerTtl
    THEN [owners[u] EXCEPT !.age = @ + 1] ELSE owners[u]]

HubElapse == AgeOwners /\ UNCHANGED <<submitter, subscribers, inflight, streamVars>>

Lookup(p, u, kind, consumed) ==
  /\ inflight[p] = {}
  /\ inflight' = [inflight EXCEPT ![p] =
       IF Registered(u)
       THEN {[to |-> owners[u].pubkey, uuid |-> u, kind |-> kind]} ELSE {}]
  /\ owners' = IF consumed THEN [owners EXCEPT ![u] = Absent] ELSE owners
  /\ UNCHANGED <<submitter, subscribers, streamVars>>

\* publish, under the owners lock: a terminal result consumes the mapping; a
\* result without an owner goes nowhere.
PublishLookup(p, u, kind) == Lookup(p, u, kind, Terminal(kind))

\* try_send succeeds.
Roomy(st) == conn[st].open /\ Len(sent[st]) - read[st] < StreamCap

Deliver(p, targets, kept) ==
  \E m \in inflight[p] :
    /\ sent' = [st \in Streams |->
         IF st \in targets[m.to] /\ Roomy(st)
         THEN Append(sent[st], [uuid |-> m.uuid, kind |-> m.kind])
         ELSE sent[st]]
    /\ subscribers' = [subscribers EXCEPT ![m.to] = {st \in @ : kept[st]}]
    /\ inflight' = [inflight EXCEPT ![p] = {}]
    /\ UNCHANGED <<owners, submitter, conn, read>>

\* Faulty: a full stream is dropped like a closed one.
PublishSendDroppingFull(p) ==
  Deliver(p, subscribers, [st \in Streams |-> Roomy(st)])

\* Faulty: sends to every stream, whoever owns the bundle.
PublishSendToAll(p) ==
  Deliver(p, [s \in Searchers |-> UNION {subscribers[t] : t \in Searchers}],
          [st \in Streams |-> conn[st].open])

\* publish, under the subscribers lock: try_send to each stream of the owner.
\* A full stream loses the message and stays; a closed one is forgotten.
PublishSend(p) ==
  Deliver(p, subscribers, [st \in Streams |-> conn[st].open])

\* Publishers may publish any result at any time.
HubNext ==
  \/ \E u \in Uuids, s \in Searchers : Register(u, s)
  \/ \E s \in Searchers, st \in Streams : AddSubscriber(s, st)
  \/ \E st \in Streams : Receive(st) \/ Disconnect(st)
  \/ Prune
  \/ HubElapse
  \/ \E p \in Publishers, u \in Uuids, k \in Kinds : PublishLookup(p, u, k)
  \/ \E p \in Publishers : PublishSend(p)

HubSpec == HubInit /\ [][HubNext]_hubVars

-----------------------------------------------------------------------------
\* Type correctness, with the bound on a stream's backlog (channel(256)).
HubTypeOK ==
  /\ owners \in [Uuids -> [pubkey : Searchers \cup {NoOwner}, age : 0 .. OwnerTtl]]
  /\ submitter \in [Uuids -> Searchers \cup {NoOwner}]
  /\ subscribers \in [Searchers -> SUBSET Streams]
  /\ conn \in [Streams -> [who : Searchers \cup {NoOwner}, open : BOOLEAN]]
  /\ inflight \in [Publishers -> SUBSET Message]
  /\ sent \in [Streams -> Seq(BundleResult)]
  /\ read \in [Streams -> Nat]
  /\ \A st \in Streams : Len(sent[st]) - read[st] \in 0 .. StreamCap

\* "the hub delivers each result only to its owning searcher": whatever a
\* stream carries concerns a bundle that the stream's searcher submitted.
RoutedToOwner ==
  \A st \in Streams : \A i \in DOMAIN sent[st] :
    conn[st].who = submitter[sent[st][i].uuid]

\* Even when two tasks publish terminal results for one bundle concurrently,
\* no stream ever carries two: the mapping is consumed under the owners lock.
AtMostOneTerminal ==
  \A st \in Streams : \A i, j \in DOMAIN sent[st] :
    (/\ sent[st][i].uuid = sent[st][j].uuid
     /\ Terminal(sent[st][i].kind) /\ Terminal(sent[st][j].kind)) => i = j

\* A live stream is never forgotten, however far its reader lags behind.
OpenStreamsKept ==
  \A st \in Streams : conn[st].open => st \in subscribers[conn[st].who]
=============================================================================
