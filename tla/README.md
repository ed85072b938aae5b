# Formal model of the block engine

TLA+ modules for the engine in `src/`, model-checked with TLC. Every safety
property that a passing run checks is also proved with TLAPS, for all values of
the constants; liveness is model-checked. Paths below are relative to `src/src/`.

## The system

```
 searcher ──SendBundle──► searcher service ──submit──► auction buffer
     ▲                        │ register                   │ tick: simulate, rank, select
     │ result stream          ▼                            ▼
     └────────────────── results hub ◄──publish── auction task ──bundle channel(100)──┐
                              ▲                            │ track                    ▼
                              └──────publish──── on-chain tracker ◄─RPC─► cluster   forwarder ──► validators
 relayer ──packet stream──► relayer service ──────packet channel(100)────────────────▲   ▲
 upstream engine ──► upstream relay tasks ────────────────────────────────────────────┘   │ upcoming leaders
                                                                   leader tracker ◄─RPC─► cluster
```

| part | state | operations | where it is hard |
|---|---|---|---|
| auction (`auction`) | buffer under a mutex | `submit`, `pending_for_simulation`, `set_simulation`, `run_auction` | submissions race the simulation loop; TTL, budget and zero-CU edges; the sort compares rounded quotients |
| auction task (`block_engine`) | the tick's locals, the bundle channel | simulate, auction, track, send | blocks on a full channel; stops for good when the forwarder is gone |
| results hub (`results`) | `owners`, `subscribers`, two mutexes | `register`, `add_subscriber`, `prune`, `publish` | `publish` is two critical sections; two tasks publish; streams lag or close |
| tracker (`tracker`) | `pending` under a mutex | `track`, `poll` | the RPC is awaited between two uses of `pending`; truncated queries; deadline against finalization |
| searcher service (`searcher`) | none of its own | `send_bundle`, `subscribe_bundle_results` | registers before it submits |
| validator service (`validator`) | two subscription maps, the forwarder thread | `subscribe_*`, the `select!` loop | leader set read inside the loop, removal after the lock, either channel closing ends everything |
| relayer service (`relayer`) | one task per stream | `start_expiring_packet_stream` and two advertisement streams | deadlines run while a send waits |
| leader tracker (`leader_tracker`) | schedule of one epoch, `upcoming` | the polling task | epoch changes, failing calls, lagging replicas |
| simulator (`simulator`) | the call in progress | `simulate_bundle`, per transaction or atomic | bundles arrive during it; stops at the first failure; two ways of summing |
| interest registry (`interest`) | two maps with TTL | `observe_bundle`, `prune`, the two queries | clock read before the lock; sweep against advertisement |
| auth (`auth`) | challenge store | challenge, tokens, refresh, intercept, sweep | one challenge slot per key; consumed before the reply; secret redrawn on restart |
| upstream (`jito_upstream`) | token, session, backoff | session loop, refresh loop | refresh loops outlive their session and share its key |
| lifecycle (`block_engine`) | shutdown flag, five servers | bind, signal, drain, return of main | main awaits one server; who still holds the forwarder's channels |
| metrics (`metrics`) | counters | | |

## Modules

| module | models |
|---|---|
| `BundleIds`, `LeaderSet` | what several parts share: the uuids; the validators and the set of upcoming leaders |
| `Auction` | `auction/src/lib.rs`, the auction tick task and the bundle channel of `main.rs` |
| `F64` | division of integers in floating point, for TLC: `Auction` takes the quotient as a parameter |
| `BundleResults` | `results/src/lib.rs` and the searchers' result streams |
| `BundleTracker` | `tracker/src/lib.rs` and the cluster it asks |
| `BundleLife` | the abstract life of a bundle: what the engine promises |
| `Pipeline` | auction, hub, tracker and searcher service composed as `main.rs` wires them: it extends the three modules and joins their actions; refines `BundleLife` |
| `Forwarding` | the relayer packet stream, the upstream packet relay, the forwarder thread and the subscriptions of `validator/src/server.rs` |
| `LeaderTracker` | `leader_tracker/src/lib.rs` |
| `Interest` | `interest/src/lib.rs`, its sweep, and the advertisement streams of `relayer/src/server.rs` |
| `DryRun` | `simulator/src/lib.rs` inside the auction task; extends and refines `Auction` |
| `Auth` | `auth/src/`: challenge store, tokens, interceptor, and any number of clients |
| `Upstream` | `jito_upstream/src/`: session, backoff, token managers; extends and refines `Auth` |
| `Lifecycle` | start, shutdown and the senders of the forwarder's two channels in `block_engine/src/main.rs` |
| `AuctionProofs`, `DryRunProofs`, `ReportingProofs` (hub and tracker), `PipelineProofs`, `ForwardingProofs` (forwarding and leader tracker), `InterestProofs`, `AuthProofs` (auth and upstream), `LifecycleProofs` | the theorems |
| `MC*` | model values, symmetry sets, constant functions and bounds for TLC |

Operators marked "Faulty" are variants of the definition they precede with a
plausible mistake in it; no specification uses them. They serve to confirm that
each property notices the mistake.

How state and steps correspond to the code:

* **A step is what runs between two points where another task can interfere**: a
  lock being taken or released, an `.await`, a publication. `run_auction` holds
  the buffer lock throughout, but publishes per bundle, so its loop is one step
  per bundle (`Win`, `Lose`) during which `SubmitPush` is disabled. `publish` is
  `PublishLookup` (owners lock) and `PublishSend` (subscribers lock) with the
  message in `inflight` between them. A tracker poll is `PollCollect`,
  `RpcReply` or `RpcError`, `Resolve`, the publications, `PollDone`. The
  forwarder's loop is one step per subscriber (`Offer`), because each iteration
  reads the leader set; `Locked` keeps that map's subscribers out. A dry run
  is one step per transaction, or per result in the reply of `simulateBundle`,
  which need not be as many as the bundle has transactions (`ResultCounts`). A handshake is two calls, and each call one step
  at the server; a lost call is lost before that step (nothing happened there)
  or after it (`GenerateAuthChallenge` unreached, `GenerateAuthTokens` with no
  holder).
* **Time.** An `Instant` is only compared with now. Entries carry an age that
  `Elapse` advances, saturated where the code can no longer tell the difference.
  The interest registry reads the clock before it takes a lock; there a task
  also carries the `lag` of its reading. Tokens and challenges count down the
  time they have left. In `Upstream` a call takes at most one tick (`late` holds
  the tasks whose call has used it up), so that the refresh margin can be
  compared with the duration of calls.
* **Data.** Bundles are uuids with a tip and a packet count; signatures are
  numbers (`sort` orders them). The sort compares `Quotient(tip, cu)`, a
  parameter of `Auction` of which `QuotientAssumption` says what `f64` gives:
  densities further apart than one part in `Accuracy` are told apart, closer
  ones may tie. With 53 bits, where two conversions and a division round,
  `Accuracy` is about 2^50; the runs use `F64` with three bits and an `Accuracy`
  of 6, so that 7/3 and 5/2 tie. CU sums saturate at
  `MaxU64` as in the code, except in the atomic dry run, where they wrap as
  `sum` does in a release build. A challenge is named by the client that drew
  it; a token pair is a record with its key, role and whether the server's
  present secret signed it, and calls that take a token are given one of either
  kind. A message is its list of keys, the three counts of its header, which
  nothing makes consistent, the accounts it loads from lookup tables and the
  program indices of its instructions.
* **Environment.** In `Auction` the simulator may give any outcome; in `DryRun`
  the RPC node may answer each call in any way. The cluster moves each
  signature through the commitments and may lose it before confirmation. The
  RPC may fail at any time. Streams close and lag at will.
* **History variables** (`submitter`, `polled`, `reports`, `chan`'s prefix,
  `stale`, `forwarded`, `received`, `seen`, `late` of `DryRun`, `disturbed`,
  `redeemed`, `stumbled`, `made`, `cut`) record what properties refer to;
  no step of the code depends on them, except that fresh uuids are used once.

## Runs

| run | shows | instance |
|---|---|---|
| `AuctionSafety` | `WinnersFit`, `LosersDoNotFit`, `WinnersRanked`, `MetricsBalance`, `OnlyLiveBundlesCompete`, `SentOnce`, `UnsimulatedOnlyIfLate`, `ChargedForEveryTx` | 3 bundles, 2 tips, 0–2 packets of 3 or 4 simulated units in 3-bit arithmetic, both modes, replies of 0 or 2 results, TTL 1 |
| `TrackerPolls` | `ReportsAreTrue`, `OneFate`, `ProcessedOnce`, `AskedNotDropped`, `EventuallyResolved` | 2 bundles sharing a signature, 1 empty one; 2 signatures per call |
| `ForwardingStreams` | `StaleNotForwarded`, `StreamsInOrder`, `OpenSubsKept`, `BatchesDrain` | 2 batches, a bundle, relayer and upstream feeding a channel of 1, a packet and a bundle subscription, leader routing |
| `LeaderEpochs` | `WindowExact`, `ScheduleCatchesUp` | 15 slots, epochs of 6, lookahead 2, lag up to 2 |
| `InterestStreams` | `InterestExact`, `StreamsConverge`, `StaleEntriesGo` | 3 keys, 4 messages (empty regions, more read-only signers than signers, a lookup table, an index past the list), 2 requests, 1 account stream, TTL 3, lag up to 1 |
| `PipelineLife` | `ImplementsBundleLife`, `ResultsProgress`, `RejectedNotForwarded`, `RoutedToOwner`, `OpenStreamsKept` | 1 bundle, with simulation, 2 searchers, a stream of 1 |
| `PipelineSettles` | `EveryBundleSettles`, `MappingsReleased`, `WinnersReachForwarder` | 2 bundles that may both win, a bundle channel of 1, a forwarder that may exit |
| `UpstreamSessions` | `TokensEarned`, `SingleUse`, `LoneHandshakeSucceeds`, `TokenFresh`, `StaysConnected`, `TokensRecover` | the session and two refresh loops, another client of the same key with another role, one fault (lost call, ended stream or restart) |
| `Lifecycle` | `ForwarderNeeded`, `ShutdownEnds` | five servers, two calls, the auction task with and without an interval of zero |

Type correctness is proved (see Theorems); `ForwardingStreams` also checks its
`TypeOK`, with the capacity of the channels, by TLC.

Three runs state a sentence of the documentation that the code does not keep and
find the behaviour that breaks it:

* `AuctionDryRun`: a bundle submitted while the simulator is awaited wins
  without a dry run (README: "dry-run ... before they can win").
  `UnsimulatedOnlyIfLate` says exactly which bundles these are.
* `TrackerTruncated`: with more pending signatures than one call asks about, a
  finalized bundle is reported Dropped. `AskedNotDropped`, the same claim for
  the bundles whose signatures were asked about, holds.
* `LifecycleDrain`: main returns with the validator server, and the runtime it
  drops cuts the calls of servers that are still draining (README: "drains all
  servers ... for clean restarts"). The validator server's own calls are over by
  then: `serve_with_shutdown` returns no earlier.

More consequences of the code that are worth knowing and are no property here:

* A packet batch is compared with its deadline once, when the forwarder takes
  it, so a lagging validator may read it later than that.
* `Accepted` is published before the forwarder sees the bundle, which reaches no
  validator if none leads or all their channels are full; the tracker then
  reports it Dropped.
* A bundle reported Processed is reported Dropped when it is not finalized by the
  tracker's deadline.
* The 180 s sweep of the hub evicts by age alone, also the owner of a bundle the
  tracker still follows.
* The leader tracker holds one epoch's schedule: near its end the published set
  leaves out the leaders of the next epoch's slots, although the comments at
  `leader_tracker/src/lib.rs:29` and `:102`, and the README's description of
  `--leader-lookahead-slots`, speak of the whole lookahead window. `WindowExact`
  says of the window what holds: exact as far as it lies in the loaded epoch.
* `observe_bundle` looks at the keys a message lists. Accounts that a v0 message
  loads from a lookup table are never recorded, writable or not, although
  `interest/src/lib.rs:5` and the README (line 74) say that every writable account a bundle
  references is; a program index into a lookup table is skipped too.
  `InterestExact` therefore speaks of the listed keys.
* With the default periods (entries live 2 s, updates go out every 5 s) a key that
  is referred to once may never be advertised. `StreamsConverge` speaks of keys
  that stay of interest.
* The atomic mode's sum wraps, so a bundle whose results add up past a u64 is
  charged too little; `WinnersFit` is about what was charged.
* Without an upstream engine, an auction interval of 0 ms ends all deliveries:
  `tokio::time::interval` panics in the auction task, whose bundle sender was the
  only one, and the forwarder ends with its channel.
* Refresh loops of ended sessions are never stopped, so each reconnect adds one.
* A session that errs keeps its backoff, however long it was up.
* A closed subscription is noticed only when something is sent to it while its
  validator leads; until then it stays in the map.
* Densities are compared in `f64`: two that differ by less than the rounding may
  tie, and then keep the order of their submission.
* A subscribed validator holds up the shutdown for as long as it stays.

**Bounds.** Three bundles let one win, one lose and one fit behind the loser;
channels of one make every send meet both a full and an empty channel; ages of
one or two ticks separate before, at and after every threshold. `MaxSlot` gives
two full epochs and the start of a third. `MaxLag` bounds how long a
reading of the interest registry's clock may wait for its lock; `StaleEntriesGo`
needs it below the TTL, as otherwise a sweep could be late for ever. Two requests
let the one with the older reading record last; one stream is enough, since
streams meet nowhere. `PipelineLife` keeps one bundle and one stream, since its
properties speak of one bundle at a time, and two searchers, so that the stream
may belong to the wrong one; the two publishers are the engine's own, and that no
stream carries two terminal results whatever any publishers send is proved
(`OneTerminalResult`). `PipelineSettles` keeps two bundles, so that the second
winner meets a full channel, and leaves out what its properties do not depend on:
streams, and dry runs, which in `PipelineLife` are taken in full.
`ForwardingStreams` has one subscription to each map; that several stay, and each
keeps its order while the leader set changes between them, is proved. In
`UpstreamSessions` `MaxFaults` bounds the faults and `Loops` the sessions that
authenticate: one fault ends the first session, so that its loop competes with
the second one; the times make a challenge expire within a handshake and a
refresh token before its access token's second renewal. The proofs take any
number of loops, peers and faults. Two calls let one server have a call in
flight while another drains. Runs with `CHECK_DEADLOCK FALSE` are
those where the engine may really stop: when the forwarder has exited, the
auction task has returned; when main has.

**Fairness.** The auction, tracker and forwarder tasks are rescheduled by the
runtime whenever they can run (weak fairness; in `Pipeline` a task that has begun
to publish is one that can run, and the forwarder reads the bundle channel for as
long as it is there; nothing keeps it from exiting). `select!` chooses among ready
branches at random and tokio's bounded channel serves waiting senders in order
(strong fairness of `PickPacket`, `PickBundle`, `Enqueue`). Timers fire, and a relayer
that stays connected reads its advertisements (weak fairness of `Read`). RPC
nodes that are asked again and again answer in the end (strong fairness of
`RpcReply`, `LoadSchedule` and of a current answer to `getEpochInfo`); the
simulator is assumed to answer, which the atomic mode's client, having no
timeout, does not enforce. In `Upstream` the tasks are rescheduled (weak
fairness) and time passes; a handshake that is tried again and again gets
through in the end (strong fairness of `SessionTokens` and `LoopTokens`): rivals
for the slot pause for seconds to minutes between their handshakes, the two
calls of one follow each other at once. No client of a server is assumed ever to
leave: `ShutdownEnds` has it as a premise.

## Theorems

For every value of the constants satisfying the modules' assumptions:

* `AuctionProofs`. `AuctionTypeCorrect`; `GreedyWithinBudget` (`used` stays
  within the budget and no loser would have fitted); `OnlyLiveCompete`;
  `WinnersAreRanked`; `WinnersAreSentOnce`; `WinnersAllFit`; `CountersBalance`.
  The inductive invariant of the first five has four parts: `Control` (which locals are empty at which control point), `RankOrder`
  (what is still ranked is sorted and no denser than what has won), `Selection`
  (the budget and the losers) and `Places` (a uuid is in at most one of the
  request handlers, buffer, round and channel). `SentOnce` alone is not
  inductive: it needs to know that a bundle being handed over is nowhere else.
  `WinnersAllFit` is about a sum defined by recursion over the winners:
  `UsedIsSum` says that some running sum over them ends in `used`, and two
  running sums agree because the least place where they differ (`LeastOf`)
  cannot exist. `CountersBalance` needs `Counted`, that only finitely many
  requests are on their way. `WinnersAreRanked` takes from
  `QuotientAssumption` what a comparison of rounded quotients tells about the
  densities (`DensityTells`). `RankingIsDetermined`: a buffer has exactly one
  ranking, whatever the rounding. The comparison of quotients, ties broken by position, is a
  strict total order (`DenserOrders`, `BeforeOrders`); a smallest set without a
  ranking cannot exist, because its first bundle can be put before a ranking of
  the rest (`PrependRanks`), and the first place where two rankings differ cannot
  exist either. This is the safety half of what makes a round end, with
  `AuctionNeverStuck` (whatever the task waits for can come; it needs `Snapshot`,
  that what is still to be simulated is still buffered) and `RoundsAdvance` (each
  step of the task lowers the pair of phase and work left in it, and nothing else
  raises it).
* `DryRunProofs`. `DryRunImplementsAuction`: every step of `DryRun` is a step of
  `Auction` or leaves its variables alone, so the theorems above hold of the
  auction with the real simulator (`AuctionWithDryRuns` states them). It needs
  that the running sum stays a u64 (`CallOK`). `OnlyLateGoUnsimulated`: what is
  buffered without an outcome during the dry runs is still to be simulated or was
  pushed late. `EveryTxIsCharged`:
  the total of a call is what the transactions it is done with may cost
  (`Charges`), each between the least and the most the node reports for one.
* `ReportingProofs`. Of the hub: `HubTypeCorrect`; `ResultsAreRouted`;
  `OneTerminalResult`; `OpenStreamsStay`. Routing needs that the mapping, the
  message in flight and the stream's entries all name the submitter.
  Termination needs that while a terminal result of a bundle is in flight or on
  a stream, the mapping is gone and no second one is in flight.
  Of the tracker: `TrackerTypeCorrect`; `ReportsTrue`; `OneFateEach`;
  `ProcessedIsOnce`; `AskedAreNotDropped`. A report rests on an answer the
  cluster has moved on from: `AnswerHolds` says that what the answer shows
  confirmed or finalized still is. One fate needs that the lists of a poll and
  the pending list exclude each other (`Placed`), Processed once that the flag
  outlives no report (`Flagged`). `OverdueAreResolved` is about steps: a bundle
  leaves `pending` only with a verdict to be reported, and one past the deadline
  stays for one more evaluation at most, the one that reports it Processed.
* `PipelineProofs`. `PartsImplemented`: every step of the pipeline is a step of
  the auction, of the hub and of the tracker, or leaves them alone, so the
  theorems about each hold in the engine (`EngineKeepsPromises` states them
  together). That the tracker is asked to track a
  bundle once is not free: it needs `FollowedHanded`, that only bundles handed
  on are followed, and the auction's `Places`. `ResultsAreInOrder` and
  `RejectedAreNotForwarded` need more than order. The inductive invariant
  (`Engine`) says of every result on a stream or on its way there that it is
  true of where the bundle stands (`Truths`: an accepted bundle has won, a lost
  or failed one is out for good, a verdict is among the tracker's reports), that
  the auction speaks only of bundles the tracker does not follow yet, and that a
  result on its way is further on than any the stream has of that bundle. From
  the same invariant, `ResultsStayTrue`: whatever stands on a stream is about a
  bundle of that searcher and still true of the auction and of the cluster; and
  `DecisionsAreFinal`: no step undoes a win, a rejection or a report.
  `PipelineImplementsLife`: the refinement mapping depends on the reports, the
  winners and the bundles that are gone (`Gone`: consumed without winning). A
  report is Process, Finalize or Drop of a bundle that was accepted; a win is
  Accept of one that was received; any other step leaves the winners alone and
  discards what it adds to `Gone`, mostly nothing.
* `ForwardingProofs`. Of the forwarder: `ForwardingTypeCorrect`;
  `OpenSubscriptionsStay`, since what is to be removed is closed
  (`FailedAreClosed`) and a closed one does not open again;
  `StaleBatchesNotForwarded`, from `OnePlace` (a batch is with one feeder or once
  in the channel) and `StaleShows` (one whose window has passed still shows it);
  `StreamsKeepOrder`, where `Source` gives for each entry of a stream the
  position at which the forwarder took it, and says that a subscriber still to
  be offered the item does not have it. `ItemsAccounted`: while the forwarder
  runs, what entered is queued, dispatched or past its window, and no validator
  gets anything twice. It needs that an item is in one queue or taken, never both
  (`Once`), and that a batch the forwarder finds expired had its window pass
  before it was taken (`Windows`). Of the leader tracker: `WindowIsExact`,
  from `Cached`: the cache is the schedule of the loaded epoch, shifted to
  absolute slots.
* `AuthProofs`. `LoneHandshakesSucceed`; `TokensAreEarned`;
  `ChallengesAreSingleUse`; `AccessIsBounded`, for any clients, keys, roles and
  times: whichever kind of token is presented to whichever call, an access token
  outlives its refresh token by one access token's life at most. Earning the right role needs `SlotHonest`: the entry in a key's slot
  carries the key and role of the client that drew it. Of the upstream relay:
  `UpstreamImplementsAuth`, from which the handshake properties
  follow (`UpstreamHandshakes`); `UpstreamTypesHold`; `TokensStayFresh`. The inductive invariant of the
  last one (`AllTimely`) gives, for each control point of a refresh loop, the least time its
  access token still has: the margin, less one tick for each call that may have
  taken its time since.
* `LifecycleProofs`. `LifecycleTypeCorrect` (with it, that a server which is over
  has no call in flight); `ForwarderStays`, from the facts that a server past
  serving was told to stop or never started, and never comes back, and that the
  auction task returns only when the forwarder is gone already.
* `InterestProofs`. `InterestTypeCorrect`; `InterestIsExact`. `WritableExact`
  shows that the index test of `is_writable_static`, with its saturating
  subtractions, picks out exactly the positions a message writes to among the keys
  it lists, also where the counts of the header exceed them. The
  inductive invariant is `Agrees`: an entry of a map is at least as old as the
  newest reference to its key and older by `MaxLag` at most, and a key that was
  swept is past its TTL. A sweep by a reading that lags only errs on the side of
  keeping. Of the streams:
  `AdvertisedAreKnown` (a relayer hears only of keys a bundle referred to in the
  way its stream is about, however late it reads) and `AdvertisementsAreCurrent`
  (a collected update is complete, and nothing in it is older than the TTL plus
  the wait for the lock).

Leaves are proved by Zenon unless they name another prover: `SMTT` for
arithmetic, sequences and large case distinctions, `PTL` for temporal logic.

Assumptions: tips and units fit in a u64 (`AuctionAssumption`,
`DryRunAssumption`), quotients order densities up to one part in `Accuracy`
(`QuotientAssumption`), the
upstream tasks share one key and role and the margin is three calls long and
shorter than an access token lives (`UpstreamAssumption`; the code has 60 s and
30 min), signatures are finitely many (`TrackerAssumption`); the budget is below `u64::MAX` (`AuctionAssumption`), capacities and
the TTL of the hub are positive (`ResultsAssumption`), those of the interest
registry too (`InterestAssumption`; of a message nothing is assumed); capacities of the forwarder's channels are positive and
items and subscriptions of the two kinds distinct (`ForwardingAssumption`), an
epoch has a slot and every slot a leader (`LeaderAssumption`), and the auction
and the tracker are the two tasks that publish (`PipelineAssumption`).

Only model-checked: the liveness properties (`EventuallyResolved`,
`BatchesDrain`, `ScheduleCatchesUp`, `StreamsConverge`, `StaleEntriesGo`,
`EveryBundleSettles`, `MappingsReleased`, `WinnersReachForwarder`, `StaysConnected`, `TokensRecover`,
`ShutdownEnds`), which rest on fairness and are beyond the proof system used
here. `AuctionNeverStuck`, `RoundsAdvance` and `OverdueAreResolved` prove the parts
of `EveryBundleSettles` and `EventuallyResolved` that do not: that the step is
there to be taken and what it brings nearer. The step from there to "eventually"
is model-checked. Induction over data is not available as a rule either; where a
proof needs it (running sums, rankings) it takes a smallest counterexample, from
the well-foundedness of strict inclusion of finite sets. No module composes the
leader tracker with the forwarder: `Forwarding` lets the leader set become
anything at any time, and what the tracker publishes is `WindowIsExact`.

## Not modelled

* How a tip is found in a transaction (`tx_tip`): a bundle's tip is an input.
  It is decoding of bytes without state; the saturating sums are those of the
  compute units.
* The channels between an upstream session and the relay tasks of `main.rs`:
  a session blocked on a full one is, to the tokens, a session that stays up.
* TLS setup, argument parsing, the contents of fee info and endpoints.
* `err` of a transaction status: the tracker ignores it, a transaction that
  landed with an error counts as landed. The slot in `Processed`, and the
  accrued-tips counter.
* The relayer's heartbeats, the fee-info and endpoint RPCs, the metrics
  endpoint's contents: no state another part depends on.
* Generated protocol code; the client binaries beyond their handshake.

## Plan

1. A module composing the forwarder with the leader tracker and the auction's
   side of the bundle channel.
2. Tip scoring as an operator checked against a reference definition.
