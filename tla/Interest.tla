------------------------------ MODULE Interest ------------------------------
(***************************************************************************)
(* Accounts and programs of interest: the registry the searcher service    *)
(* fills from submitted bundles (interest/src/lib.rs), the sweep that      *)
(* prunes it, and the tasks of the relayer service that stream it to the   *)
(* relayers (relayer/src/server.rs).                                       *)
(*                                                                         *)
(* Every operation of the registry reads the clock before it takes a lock, *)
(* so what it writes or compares with may lag behind: lag is the time      *)
(* since a task's reading.                                                 *)
(***************************************************************************)
EXTENDS Integers, Sequences, FiniteSets

CONSTANTS
  Keys,        \* account keys
  Messages,    \* the messages of decodable transactions
  Bundles,     \* what may be submitted: sets of packets
  Submitters,  \* concurrent send_bundle requests
  AccountStreams, ProgramStreams,   \* streams relayers may open
  forward_all, Star,                \* --forward-all-packets, and "*"
  Ttl,         \* interest_ttl, in clock ticks
  Cap,         \* capacity of a stream's channel
  MaxLag       \* bound: longest wait between a clock reading and its use

Kinds == {"accounts", "programs"}
Streams == AccountStreams \cup ProgramStreams
Sweep == "sweep"
Tasks == Submitters \cup Streams \cup {Sweep}
Old == Ttl + MaxLag   \* ages are not told apart from here on

\* A message that decodes: the account keys it lists, the three counts of its
\* header (nothing makes them consistent), the writable accounts a v0 message
\* loads from lookup tables, and the indices of the programs its instructions
\* name.
Message == [keys : Seq(Keys), signed : Nat, ro_signed : Nat, ro_unsigned : Nat,
            loaded : Seq(Keys), invokes : SUBSET Nat]

ASSUME InterestAssumption ==
  /\ Ttl \in Nat \ {0} /\ Cap \in Nat \ {0} /\ MaxLag \in Nat
  /\ forward_all \in BOOLEAN /\ Star \notin Keys
  /\ Sweep \notin Submitters \cup Streams /\ Submitters \cap Streams = {}
  /\ AccountStreams \cap ProgramStreams = {}
  /\ Messages \subseteq Message

VARIABLES
  registry,   \* kind -> key -> age of its entry, for the keys recorded
  pc,         \* task -> control point
  lag,        \* task -> time since it read the clock
  bundle,     \* submitter -> the bundle it is observing
  update,     \* stream -> the update its task is sending
  queue,      \* stream -> updates in its channel
  last,       \* stream -> the update its relayer read last
  open,       \* the streams whose relayer is there
  seen        \* history: kind -> key -> age of the newest reference to it

taskVars == <<pc, lag>>
streamVars == <<update, queue, last, open>>
vars == <<registry, taskVars, bundle, streamVars, seen>>

Empty == [k \in {} |-> 0]
Updates == SUBSET (Keys \cup {Star})
Map == UNION {[K -> 0 .. Old] : K \in SUBSET Keys}

Init ==
  /\ registry = [kind \in Kinds |-> Empty]
  /\ pc = [t \in Tasks |-> IF t \in Streams THEN "new" ELSE "idle"]
  /\ lag = [t \in Tasks |-> 0]
  /\ bundle = [t \in Submitters |-> {}]
  /\ update = [st \in Streams |-> {}] /\ queue = [st \in Streams |-> <<>>]
  /\ last = [st \in Streams |-> {}] /\ open = {}
  /\ seen = [kind \in Kinds |-> Empty]

\* Task t goes on to p; a reading of the clock is kept only between two steps
\* of one operation.
Goto(t, p, l) == pc' = [pc EXCEPT ![t] = p] /\ lag' = [lag EXCEPT ![t] = l]

-----------------------------------------------------------------------------
(* What a message says *)

Monus(a, b) == IF a > b THEN a - b ELSE 0   \* saturating_sub

\* Is the key at this index (from 0) writable?
is_writable_static(index, n, signed, ro_signed, ro_unsigned) ==
  IF index < signed THEN index < Monus(signed, ro_signed)
  ELSE index < Monus(n, ro_unsigned)

WritableKeys(m) ==
  {m.keys[i] : i \in {j \in DOMAIN m.keys :
     is_writable_static(j - 1, Len(m.keys), m.signed, m.ro_signed, m.ro_unsigned)}}

\* An index past the listed keys names one of a lookup table: skipped.
InvokedPrograms(m) == {m.keys[i + 1] : i \in {j \in m.invokes : j < Len(m.keys)}}

\* Packets that do not decode are skipped.
Decoded(b) == b \cap Messages
ToRecord(kind, b) ==
  UNION {IF kind = "accounts" THEN WritableKeys(m) ELSE InvokedPrograms(m) :
           m \in Decoded(b)}

\* What a message refers to, as positions in the list of its accounts, where the
\* loaded ones follow those it lists. It writes to the signers but for the last
\* ro_signed of them, to the other listed accounts but for the last ro_unsigned,
\* and to the accounts loaded for writing.
Writes(m) ==
  LET n == Len(m.keys)
  IN  (1 .. (m.signed - m.ro_signed)) \cup ((m.signed + 1) .. (n - m.ro_unsigned))
        \cup ((n + 1) .. (n + Len(m.loaded)))
Invokes(m) == {i + 1 : i \in m.invokes}
Positions(kind, m) == IF kind = "accounts" THEN Writes(m) ELSE Invokes(m)

\* What a bundle refers to among the keys its messages list.
Named(kind, m) == {m.keys[i] : i \in Positions(kind, m) \cap DOMAIN m.keys}
References(kind, b) == UNION {Named(kind, m) : m \in Decoded(b)}

-----------------------------------------------------------------------------
(* The registry *)

Insert(map, K, age) ==
  [k \in DOMAIN map \cup K |-> IF k \in K THEN age ELSE map[k]]

\* The history keeps the newest reference, whichever is recorded last.
Newest(hist, K, age) ==
  [k \in DOMAIN hist \cup K |->
     IF k \in DOMAIN hist /\ (k \notin K \/ hist[k] < age) THEN hist[k] ELSE age]

\* observe_bundle: read the clock ...
ObserveBegin(t, b) ==
  /\ pc[t] = "idle" /\ Goto(t, "observe", 0)
  /\ bundle' = [bundle EXCEPT ![t] = b]
  /\ UNCHANGED <<registry, streamVars, seen>>

\* ... and record the whole bundle, both locks held.
ObserveRecord(t) ==
  /\ pc[t] = "observe" /\ Goto(t, "idle", 0)
  /\ registry' = [kind \in Kinds |->
       Insert(registry[kind], ToRecord(kind, bundle[t]), lag[t])]
  /\ seen' = [kind \in Kinds |->
       Newest(seen[kind], References(kind, bundle[t]), lag[t])]
  /\ bundle' = [bundle EXCEPT ![t] = {}]
  /\ UNCHANGED streamVars

\* Entries that are fresh by a clock reading taken l ago; an entry made after
\* the reading counts as new.
Fresh(map, l) == {k \in DOMAIN map : map[k] - l < Ttl}

Retain(map, K) == [k \in K |-> map[k]]

\* Faulty: sweeps the entries an advertisement would still include.
PruneTooEarly(kind) ==
  registry' = [registry EXCEPT ![kind] =
    Retain(@, {k \in DOMAIN @ : @[k] - lag[Sweep] + 1 < Ttl})]

\* Faulty: sweeps only one of the maps.
PruneAccountsOnly(kind) ==
  registry' = [registry EXCEPT !["accounts"] = Retain(@, Fresh(@, lag[Sweep]))]

PruneMap(kind) ==
  registry' = [registry EXCEPT ![kind] = Retain(@, Fresh(@, lag[Sweep]))]

\* prune: one clock reading, then each map under its own lock.
PruneBegin ==
  /\ pc[Sweep] = "idle" /\ Goto(Sweep, "accounts", 0)
  /\ UNCHANGED <<registry, bundle, streamVars, seen>>

PruneStep ==
  /\ \/ pc[Sweep] = "accounts" /\ PruneMap("accounts")
        /\ Goto(Sweep, "programs", lag[Sweep])
     \/ pc[Sweep] = "programs" /\ PruneMap("programs") /\ Goto(Sweep, "idle", 0)
  /\ UNCHANGED <<bundle, streamVars, seen>>

-----------------------------------------------------------------------------
(* The advertisement streams *)

KindOf(st) == IF st \in AccountStreams THEN "accounts" ELSE "programs"

\* subscribe_accounts_of_interest, subscribe_programs_of_interest.
Subscribe(st) ==
  /\ pc[st] = "new" /\ Goto(st, "tick", 0) /\ open' = open \cup {st}
  /\ UNCHANGED <<registry, bundle, update, queue, last, seen>>

\* interval.tick() fires; accounts_of_interest reads the clock ...
Tick(st) ==
  /\ pc[st] = "tick" /\ Goto(st, "collect", 0)
  /\ UNCHANGED <<registry, bundle, streamVars, seen>>

\* ... and the map.
Collect(st) ==
  /\ pc[st] = "collect" /\ Goto(st, "send", 0)
  /\ update' = [update EXCEPT ![st] =
       IF forward_all THEN {Star} ELSE Fresh(registry[KindOf(st)], lag[st])]
  /\ UNCHANGED <<registry, bundle, queue, last, open, seen>>

\* Faulty: gives up on a full channel instead of waiting for room.
SendOrStop(st) ==
  /\ pc[st] = "send" /\ st \in open
  /\ IF Len(queue[st]) < Cap
     THEN queue' = [queue EXCEPT ![st] = Append(@, update[st])] /\ Goto(st, "tick", 0)
     ELSE UNCHANGED queue /\ Goto(st, "done", 0)
  /\ update' = [update EXCEPT ![st] = {}]
  /\ UNCHANGED <<registry, bundle, last, open, seen>>

\* send().await waits for room ...
Send(st) ==
  /\ pc[st] = "send" /\ st \in open /\ Len(queue[st]) < Cap
  /\ queue' = [queue EXCEPT ![st] = Append(@, update[st])]
  /\ update' = [update EXCEPT ![st] = {}] /\ Goto(st, "tick", 0)
  /\ UNCHANGED <<registry, bundle, last, open, seen>>

\* ... and fails when the relayer is gone, which ends the task.
SendFails(st) ==
  /\ pc[st] = "send" /\ st \notin open
  /\ update' = [update EXCEPT ![st] = {}] /\ Goto(st, "done", 0)
  /\ UNCHANGED <<registry, bundle, queue, last, open, seen>>

Read(st) ==
  /\ st \in open /\ queue[st] # <<>>
  /\ last' = [last EXCEPT ![st] = Head(queue[st])]
  /\ queue' = [queue EXCEPT ![st] = Tail(@)]
  /\ UNCHANGED <<registry, taskVars, bundle, update, open, seen>>

Disconnect(st) ==
  /\ st \in open /\ open' = open \ {st}
  /\ queue' = [queue EXCEPT ![st] = <<>>] /\ last' = [last EXCEPT ![st] = {}]
  /\ UNCHANGED <<registry, taskVars, bundle, update, seen>>

-----------------------------------------------------------------------------
\* The tasks that hold a clock reading.
Holding == {t \in Tasks : pc[t] \in {"observe", "accounts", "programs", "collect"}}

Older(map) == [k \in DOMAIN map |-> IF map[k] < Old THEN map[k] + 1 ELSE map[k]]

\* One tick of the clock.
Elapse ==
  /\ \A t \in Holding : lag[t] < MaxLag
  /\ registry' = [kind \in Kinds |-> Older(registry[kind])]
  /\ seen' = [kind \in Kinds |-> Older(seen[kind])]
  /\ lag' = [t \in Tasks |-> IF t \in Holding THEN lag[t] + 1 ELSE lag[t]]
  /\ UNCHANGED <<pc, bundle, streamVars>>

Next ==
  \/ \E t \in Submitters : ObserveRecord(t) \/ \E b \in Bundles : ObserveBegin(t, b)
  \/ PruneBegin \/ PruneStep
  \/ \E st \in Streams :
       \/ Subscribe(st) \/ Tick(st) \/ Collect(st) \/ Send(st) \/ SendFails(st)
       \/ Read(st) \/ Disconnect(st)
  \/ Elapse

Spec == Init /\ [][Next]_vars

\* Handlers and tasks are scheduled, their timers fire, and a relayer that
\* stays connected reads its stream.
FairSpec ==
  /\ Spec
  /\ \A t \in Submitters : WF_vars(ObserveRecord(t))
  /\ WF_vars(PruneBegin) /\ WF_vars(PruneStep)
  /\ \A st \in Streams :
       WF_vars(Tick(st) \/ Collect(st) \/ Send(st) \/ SendFails(st)) /\ WF_vars(Read(st))

-----------------------------------------------------------------------------
\* Type correctness, with the bound of the streams' channels.
TypeOK ==
  /\ registry \in [Kinds -> Map]
  /\ pc \in [Tasks -> {"new", "idle", "observe", "accounts", "programs", "tick",
                       "collect", "send", "done"}]
  /\ lag \in [Tasks -> 0 .. MaxLag]
  /\ bundle \in [Submitters -> Bundles \cup {{}}]
  /\ update \in [Streams -> Updates] /\ last \in [Streams -> Updates]
  /\ queue \in [Streams -> Seq(Updates)]
  /\ \A st \in Streams : Len(queue[st]) <= Cap
  /\ open \subseteq Streams
  /\ seen \in [Kinds -> Map]

OfInterest(kind) == Fresh(registry[kind], 0)

\* Of interest is what the bundles refer to - accounts by the header's regions,
\* programs by instructions - from the newest reference to a key until the TTL
\* after it: however often the key is seen again, in whichever order requests
\* that read the clock earlier or later record it, and whatever the sweep removes
\* meanwhile by a reading of its own. The order can cost a key what a reading may
\* lag, no more. (Of the keys a message lists: those it loads from lookup tables
\* are never recorded.)
InterestExact ==
  \A kind \in Kinds :
    /\ {k \in DOMAIN seen[kind] : seen[kind][k] + MaxLag < Ttl} \subseteq OfInterest(kind)
    /\ OfInterest(kind) \subseteq Fresh(seen[kind], 0)

\* A relayer that stays connected and reads comes to know what is of interest:
\* once a key stays of interest (or stays out of it), it stays in (or out of)
\* the last update the relayer has read.
StreamsConverge ==
  \A st \in Streams, k \in Keys :
    /\ <>[](k \in OfInterest(KindOf(st)))
         => <>[](k \in last[st] \/ st \notin open)
    /\ <>[](k \notin OfInterest(KindOf(st)))
         => <>[](k \notin last[st] \/ st \notin open)

\* The sweep bounds the registry: an entry that is past its TTL is removed,
\* unless a bundle refers to its key again.
StaleEntriesGo ==
  \A kind \in Kinds, k \in Keys :
    k \in DOMAIN registry[kind] \ OfInterest(kind)
      ~> k \notin DOMAIN registry[kind] \ OfInterest(kind)
=============================================================================
