--------------------------- MODULE BundleTracker ---------------------------
(***************************************************************************)
(* The on-chain tracker (tracker/src/lib.rs) and the cluster it polls.     *)
(*                                                                         *)
(* One poll is four steps of the tracker task: collect the signatures      *)
(* under the pending lock, await getSignatureStatuses, resolve under the   *)
(* lock again, then publish. Winners may be tracked, time may pass and the *)
(* chain may advance between any two of them.                              *)
(*                                                                         *)
(* Signatures are numbers: sort() orders them by bytes. Within one of the  *)
(* three lists of a poll the order of publication is left open.            *)
(***************************************************************************)
EXTENDS BundleIds, Integers, FiniteSets

CONSTANTS
  Sigs,       \* transaction signatures
  SigsOf,     \* uuid -> the primary signatures of its decodable packets
  MaxSigs,    \* MAX_SIGS_PER_CALL
  Deadline    \* --tracker-deadline-secs, in clock ticks

ASSUME TrackerAssumption ==
  /\ Sigs \subseteq Nat /\ IsFiniteSet(Sigs)
  /\ SigsOf \in [Uuids -> SUBSET Sigs]
  /\ MaxSigs \in Nat \ {0} /\ Deadline \in Nat

VARIABLES
  pending,     \* the uuids in the pending list
  waited,      \* uuid -> time since tracked_since, saturated past Deadline
  emitted,     \* the pending uuids with processed_emitted set
  tpc,         \* control point of the tracker task
  polled,      \* history: the bundles pending when this poll collected
  queried,     \* all_sigs of this poll
  statuses,    \* the cluster's answer, for every signature it knows
  toProcess, toFinalize, toDrop,   \* the poll's lists, still to publish
  reports,     \* history: uuid -> the verdicts published for it
  chain        \* signature -> its commitment on the cluster

pollVars == <<polled, queried, statuses, toProcess, toFinalize, toDrop>>
trackerVars == <<pending, waited, emitted, tpc, pollVars, reports, chain>>

Commitment == {"none", "processed", "confirmed", "finalized"}

TrackerInit ==
  /\ pending = {} /\ emitted = {} /\ waited = [u \in Uuids |-> 0]
  /\ tpc = "idle" /\ polled = {} /\ queried = {}
  /\ statuses = [s \in Sigs |-> "none"]
  /\ toProcess = {} /\ toFinalize = {} /\ toDrop = {}
  /\ reports = [u \in Uuids |-> {}]
  /\ chain = [s \in Sigs |-> "none"]

\* track: a bundle without a decodable transaction is not tracked.
Track(u) ==
  /\ pending' = IF SigsOf[u] = {} THEN pending ELSE pending \cup {u}
  /\ waited' = [waited EXCEPT ![u] = 0]
  /\ UNCHANGED <<emitted, tpc, pollVars, reports, chain>>

\* sort, dedup, truncate.
Smallest(n, S) == {s \in S : Cardinality({t \in S : t < s}) < n}

\* poll up to the request; with nothing pending it returns at once.
PollCollect ==
  /\ tpc = "idle" /\ pending # {}
  /\ queried' = Smallest(MaxSigs, UNION {SigsOf[u] : u \in pending})
  /\ polled' = pending /\ tpc' = "rpc"
  /\ UNCHANGED <<pending, waited, emitted, statuses, toProcess, toFinalize,
                 toDrop, reports, chain>>

\* getSignatureStatuses answers with the cluster's view at this moment.
RpcReply ==
  /\ tpc = "rpc" /\ tpc' = "resolve"
  /\ statuses' = chain
  /\ UNCHANGED <<pending, waited, emitted, polled, queried, toProcess, toFinalize,
                 toDrop, reports, chain>>

\* poll returns, its locals are gone.
EndPoll ==
  /\ tpc' = "idle" /\ polled' = {} /\ queried' = {}
  /\ statuses' = [s \in Sigs |-> "none"]
  /\ UNCHANGED <<pending, waited, emitted, toProcess, toFinalize, toDrop,
                 reports, chain>>

\* The request fails: this poll is over.
RpcError == tpc = "rpc" /\ EndPoll

AllFinalized(u) ==
  \A s \in SigsOf[u] : s \in queried /\ statuses[s] = "finalized"

\* Faulty: any one confirmed signature is enough.
AnyConfirmed(u) ==
  \E s \in SigsOf[u] : s \in queried /\ statuses[s] \in {"confirmed", "finalized"}

AllConfirmed(u) ==
  \A s \in SigsOf[u] : s \in queried /\ statuses[s] \in {"confirmed", "finalized"}

\* Faulty: the deadline is tested before the statuses.
VerdictDeadlineFirst(u) ==
  CASE waited[u] > Deadline -> "dropped"
    [] AllFinalized(u) /\ waited[u] <= Deadline -> "finalized"
    [] AllConfirmed(u) /\ ~AllFinalized(u) /\ u \notin emitted
         /\ waited[u] <= Deadline -> "processed"
    [] OTHER -> "wait"

\* Faulty: forgets that Processed was already published.
VerdictRepeating(u) ==
  IF AllFinalized(u) THEN "finalized"
  ELSE IF AllConfirmed(u) THEN "processed"
  ELSE IF waited[u] > Deadline THEN "dropped" ELSE "wait"

\* Faulty: a bundle reported processed is never dropped.
VerdictSparingProcessed(u) ==
  IF AllFinalized(u) THEN "finalized"
  ELSE IF AllConfirmed(u) /\ u \notin emitted THEN "processed"
  ELSE IF waited[u] > Deadline /\ u \notin emitted THEN "dropped" ELSE "wait"

Verdict(u) ==
  IF AllFinalized(u) THEN "finalized"
  ELSE IF AllConfirmed(u) /\ u \notin emitted THEN "processed"
  ELSE IF waited[u] > Deadline THEN "dropped" ELSE "wait"

Judged(v) == {u \in pending : Verdict(u) = v}

ResolveTo(kept, flagged) ==
  /\ tpc = "resolve" /\ tpc' = "emit"
  /\ toFinalize' = Judged("finalized")
  /\ toProcess' = Judged("processed")
  /\ toDrop' = Judged("dropped")
  /\ pending' = kept /\ emitted' = flagged
  /\ waited' = [u \in Uuids |-> IF u \in kept THEN waited[u] ELSE 0]
  /\ UNCHANGED <<polled, queried, statuses, reports, chain>>

Unresolved == pending \ (Judged("finalized") \cup Judged("dropped"))

\* Faulty: a dropped bundle stays on the pending list.
ResolveKeepingDropped ==
  LET kept == pending \ Judged("finalized")
  IN  ResolveTo(kept, (emitted \cup Judged("processed")) \cap kept)

\* The evaluation loop under the pending lock, with the removals at its end.
Resolve ==
  ResolveTo(Unresolved, (emitted \cup Judged("processed")) \cap Unresolved)

Report(u, kind) ==
  /\ tpc = "emit"
  /\ reports' = [reports EXCEPT ![u] = @ \cup {kind}]
  /\ UNCHANGED <<pending, waited, emitted, tpc, polled, queried, statuses, chain>>

\* The publications of a poll: processed, then finalized, then dropped.
EmitProcessed(u) ==
  /\ u \in toProcess /\ Report(u, "processed")
  /\ toProcess' = toProcess \ {u} /\ UNCHANGED <<toFinalize, toDrop>>

EmitFinalized(u) ==
  /\ toProcess = {} /\ u \in toFinalize /\ Report(u, "finalized")
  /\ toFinalize' = toFinalize \ {u} /\ UNCHANGED <<toProcess, toDrop>>

EmitDropped(u) ==
  /\ toProcess = {} /\ toFinalize = {} /\ u \in toDrop /\ Report(u, "dropped")
  /\ toDrop' = toDrop \ {u} /\ UNCHANGED <<toProcess, toFinalize>>

PollDone ==
  /\ tpc = "emit" /\ toProcess = {} /\ toFinalize = {} /\ toDrop = {}
  /\ EndPoll

\* One tick of the clock.
AgePending ==
  waited' = [u \in Uuids |-> IF u \in pending /\ waited[u] <= Deadline
                             THEN waited[u] + 1 ELSE waited[u]]
TrackerElapse ==
  AgePending /\ UNCHANGED <<pending, emitted, tpc, pollVars, reports, chain>>

\* The cluster: a transaction advances through the commitments, and may be
\* lost with a fork before it is confirmed.
ChainStep(s) ==
  /\ \/ chain[s] = "none" /\ chain' = [chain EXCEPT ![s] = "processed"]
     \/ chain[s] = "processed"
          /\ \E c \in {"confirmed", "none"} : chain' = [chain EXCEPT ![s] = c]
     \/ chain[s] = "confirmed" /\ chain' = [chain EXCEPT ![s] = "finalized"]
  /\ UNCHANGED <<pending, waited, emitted, tpc, pollVars, reports>>

\* A winner reaches the tracker once.
TrackNew(u) ==
  /\ u \notin pending /\ reports[u] = {}
  /\ u \notin toProcess \cup toFinalize \cup toDrop
  /\ Track(u)

TrackerTask ==
  \/ PollCollect \/ RpcReply \/ RpcError \/ Resolve \/ PollDone
  \/ \E u \in Uuids : EmitProcessed(u) \/ EmitFinalized(u) \/ EmitDropped(u)

TrackerNext ==
  \/ \E u \in Uuids : TrackNew(u)
  \/ TrackerTask
  \/ TrackerElapse
  \/ \E s \in Sigs : ChainStep(s)

TrackerSpec == TrackerInit /\ [][TrackerNext]_trackerVars

\* The tracker task is polled by its 2 s interval, time passes, and the RPC
\* node answers infinitely often if it is asked infinitely often.
FairTrackerSpec ==
  /\ TrackerSpec
  /\ WF_trackerVars(TrackerTask) /\ SF_trackerVars(RpcReply)
  /\ WF_trackerVars(TrackerElapse)

-----------------------------------------------------------------------------
Verdicts == {"processed", "finalized", "dropped"}

\* Type correctness; processed_emitted is a flag of a pending bundle.
TrackerTypeOK ==
  /\ pending \subseteq Uuids /\ emitted \subseteq pending
  /\ waited \in [Uuids -> 0 .. Deadline + 1]
  /\ tpc \in {"idle", "rpc", "resolve", "emit"}
  /\ polled \subseteq Uuids /\ queried \subseteq Sigs
  /\ statuses \in [Sigs -> Commitment] /\ chain \in [Sigs -> Commitment]
  /\ toProcess \subseteq Uuids /\ toFinalize \subseteq Uuids /\ toDrop \subseteq Uuids
  /\ reports \in [Uuids -> SUBSET Verdicts]

Landed(u, view, levels) == \A s \in SigsOf[u] : view[s] \in levels

\* Whatever is reported is true of the cluster: a bundle reported (or about to
\* be reported) Processed has all its transactions confirmed, one reported
\* Finalized has them all finalized - although the answer the verdict rests on
\* is older than the report.
ReportsAreTrue ==
  \A u \in Uuids :
    /\ u \in toProcess \/ "processed" \in reports[u]
         => Landed(u, chain, {"confirmed", "finalized"})
    /\ u \in toFinalize \/ "finalized" \in reports[u]
         => Landed(u, chain, {"finalized"})

\* A bundle gets one terminal verdict and then leaves the tracker.
OneFate ==
  \A u \in Uuids :
    /\ ~({"finalized", "dropped"} \subseteq reports[u])
    /\ reports[u] \cap {"finalized", "dropped"} # {} =>
         u \notin pending \cup toProcess \cup toFinalize \cup toDrop

\* Processed is published at most once for a bundle.
ProcessedOnce ==
  \A u \in toProcess : "processed" \notin reports[u]

\* A bundle that was pending when a poll began, whose signatures the poll could
\* all ask about and which the cluster's answer shows finalized, is not
\* reported dropped by that poll, however late the answer is.
AskedNotDropped ==
  \A u \in toDrop \cap polled :
    SigsOf[u] \subseteq queried => ~Landed(u, statuses, {"finalized"})

\* The tracker's header: Finalized "once they reach finalized commitment". When
\* more signatures are pending than one call may ask about, truncate leaves out
\* the largest ones, and a bundle they belong to is dropped unasked.
FinalizedNotDropped ==
  \A u \in toDrop \cap polled : ~Landed(u, statuses, {"finalized"})

\* Every tracked bundle gets its terminal verdict.
EventuallyResolved ==
  \A u \in Uuids :
    u \in pending ~> reports[u] \cap {"finalized", "dropped"} # {}
=============================================================================
