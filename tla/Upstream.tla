------------------------------ MODULE Upstream ------------------------------
(***************************************************************************)
(* The upstream consumer (jito_upstream/src): the session task with its    *)
(* backoff, and a token manager per session whose refresh loop outlives    *)
(* it. All of them sign with the identity keypair, so they meet in one     *)
(* challenge slot of the upstream engine, here an engine of this           *)
(* repository: its validator server offers the auth service on the same    *)
(* address. Peers are other clients of that service.                       *)
(*                                                                         *)
(* A call is answered, refused or lost within one clock tick; late are the *)
(* tasks whose call has taken its tick. Timers are punctual to the tick;   *)
(* the 5 s before a retry and the backoff may take any time.               *)
(***************************************************************************)
EXTENDS Auth, FiniteSets

CONSTANTS
  Session,     \* the session task, as a client of the auth service
  Loops,       \* bound: the sessions that authenticate; each leaves a loop
  Peers,
  Validator,   \* the role
  Margin,      \* REFRESH_MARGIN, in ticks
  Initial, Max,  \* INITIAL_BACKOFF and MAX_BACKOFF
  MaxFaults    \* bound: calls and streams lost, restarts

ASSUME UpstreamAssumption ==
  /\ Clients = {Session} \cup Loops \cup Peers
  /\ Session \notin Loops /\ Peers \cap ({Session} \cup Loops) = {}
  /\ \A c \in {Session} \cup Loops :
       c \in Signers /\ KeyOf[c] = KeyOf[Session] /\ RoleOf[c] = Validator
  /\ Margin \in Nat /\ Margin >= 3 /\ AccessTtl > Margin
  /\ Initial \in Nat \ {0} /\ Max \in Nat /\ Initial <= Max /\ MaxFaults \in Nat

VARIABLES
  spc,        \* control point of the session task
  backoff,
  manager,    \* the loop of the current session's token manager, or NoClient
  lpc,        \* loop -> its control point
  late,
  stumbled,   \* history: loops whose handshake failed since their last token
  faults

taskVars == <<spc, backoff, manager, lpc, stumbled>>
vars == <<authVars, taskVars, late, faults>>

Init ==
  /\ AuthInit
  /\ spc = "connect" /\ backoff = Initial /\ manager = NoClient
  /\ lpc = [l \in Loops |-> "off"]
  /\ late = {} /\ stumbled = {} /\ faults = 0

Fault == faults < MaxFaults /\ faults' = faults + 1
NoFault == UNCHANGED faults

-----------------------------------------------------------------------------
(* run and session *)

Calling(p, q) ==
  /\ spc = p /\ spc' = q /\ late' = late \ {Session}
  /\ UNCHANGED <<lpc, stumbled>>

\* session returns; its token manager's loop goes on.
SessionEnds(b) ==
  /\ spc' = "sleep" /\ backoff' = b /\ manager' = NoClient
  /\ late' = late \ {Session} /\ UNCHANGED <<lpc, stumbled>>

SessionErr == SessionEnds(backoff)
SessionOk == SessionEnds(Initial)

Doubled(b) == IF 2 * b > Max THEN Max ELSE 2 * b

\* Faulty: gives up at the longest backoff.
WakeBelowMax ==
  /\ spc = "sleep" /\ backoff < Max
  /\ spc' = "connect" /\ backoff' = Doubled(backoff)
  /\ UNCHANGED <<authVars, manager, lpc, stumbled, late, faults>>

Wake ==
  /\ spc = "sleep" /\ spc' = "connect" /\ backoff' = Doubled(backoff)
  /\ UNCHANGED <<authVars, manager, lpc, stumbled, late, faults>>

Connect ==
  /\ Calling("connect", "challenge")
  /\ UNCHANGED <<authVars, backoff, manager, faults>>

SessionChallenge ==
  /\ Calling("challenge", "answer")
  /\ GenerateAuthChallenge(Session, TRUE)
  /\ UNCHANGED <<backoff, manager, faults>>

\* TokenManager::start: a new loop l begins with these tokens.
SessionTokens(l) ==
  /\ spc = "answer" /\ lpc[l] = "off"
  /\ GenerateAuthTokens(Session, l, FALSE)
  /\ spc' = "info" /\ manager' = l /\ lpc' = [lpc EXCEPT ![l] = "sleep"]
  /\ late' = late \ {Session} /\ UNCHANGED <<backoff, stumbled, faults>>

SessionRefused ==
  /\ spc \in {"challenge", "answer"} /\ SessionErr /\ NoFault
  /\ IF spc = "challenge" THEN ChallengeRefused(Session) ELSE TokensRefused(Session)

\* Fee info and endpoints: stored if the call succeeds; the session goes on in
\* any case.
FetchInfo ==
  Calling("info", "bundles") /\ UNCHANGED <<authVars, backoff, manager, faults>>

Subscribe(p, q) ==
  /\ Calling(p, q) /\ Admits(manager, "access", Validator)
  /\ UNCHANGED <<authVars, backoff, manager, faults>>

SubscribeRefused ==
  /\ spc \in {"bundles", "packets"} /\ ~Admits(manager, "access", Validator)
  /\ SessionErr /\ NoFault /\ UNCHANGED authVars

\* A stream is over, or the receiving task is.
StreamEnds == spc = "stream" /\ SessionOk /\ Fault /\ UNCHANGED authVars

\* A stream errs with the connection a restart has broken.
StreamErrs == spc = "broken" /\ SessionErr /\ NoFault /\ UNCHANGED authVars

\* A call of the handshake is lost, before or after the server has seen it.
ChallengeLost(c) ==
  UNCHANGED authVars \/ GenerateAuthChallenge(c, FALSE)

AnswerLost(c) ==
  GiveUp(c, tokens[c]) \/ GenerateAuthTokens(c, NoClient, FALSE)

\* Connecting, the handshake, subscribing or a stream fails.
SessionCallLost ==
  /\ SessionErr /\ Fault
  /\ \/ spc \in {"connect", "bundles", "packets", "stream"} /\ UNCHANGED authVars
     \/ spc = "challenge" /\ ChallengeLost(Session)
     \/ spc = "answer" /\ AnswerLost(Session)

SessionStep ==
  \/ Wake \/ Connect \/ SessionChallenge \/ \E l \in Loops : SessionTokens(l)
  \/ SessionRefused \/ SubscribeRefused \/ StreamErrs
  \/ FetchInfo
  \/ Subscribe("bundles", "packets") \/ Subscribe("packets", "stream")

-----------------------------------------------------------------------------
(* refresh_loop *)

LoopGoes(l, p, q) ==
  /\ lpc[l] = p /\ lpc' = [lpc EXCEPT ![l] = q]
  /\ late' = late \ {l} /\ UNCHANGED <<spc, backoff, manager>>

\* Faulty: sleeps until the token expires.
DueAtExpiry(l) == \A t \in tokens[l] : t.access <= 0

\* The sleep is over.
Due(l) == \A t \in tokens[l] : t.access <= Margin

RefreshLives(l) == \E t \in tokens[l] : t.refresh > Margin

LoopWakes(l) ==
  /\ Due(l) /\ LoopGoes(l, "sleep", IF RefreshLives(l) THEN "refresh" ELSE "challenge")
  /\ UNCHANGED <<authVars, stumbled, faults>>

Refreshed(l) ==
  /\ LoopGoes(l, "refresh", "sleep") /\ RefreshAccessToken(l, "refresh")
  /\ stumbled' = stumbled \ {l} /\ UNCHANGED faults

\* The refresh is refused or lost: on to a handshake.
RefreshFails(l) ==
  /\ LoopGoes(l, "refresh", "challenge") /\ UNCHANGED <<authVars, stumbled>>
  /\ \/ (\A t \in tokens[l] : ~Valid(t, "refresh")) /\ NoFault
     \/ Fault

LoopChallenge(l) ==
  /\ LoopGoes(l, "challenge", "answer")
  /\ GenerateAuthChallenge(l, TRUE)
  /\ UNCHANGED <<stumbled, faults>>

LoopTokens(l) ==
  /\ LoopGoes(l, "answer", "sleep") /\ GenerateAuthTokens(l, l, FALSE)
  /\ stumbled' = stumbled \ {l} /\ UNCHANGED faults

LoopRefused(l) ==
  /\ lpc[l] \in {"challenge", "answer"} /\ LoopGoes(l, lpc[l], "retry")
  /\ IF lpc[l] = "challenge" THEN ChallengeRefused(l) ELSE TokensRefused(l)
  /\ stumbled' = stumbled \cup {l} /\ UNCHANGED faults

LoopCallLost(l) ==
  /\ Fault /\ stumbled' = stumbled \cup {l}
  /\ \/ LoopGoes(l, "challenge", "retry") /\ ChallengeLost(l)
     \/ LoopGoes(l, "answer", "retry") /\ AnswerLost(l)

\* Faulty: the loop is over after a failed handshake.
LoopStops(l) == FALSE

LoopRetries(l) ==
  LoopGoes(l, "retry", "challenge") /\ UNCHANGED <<authVars, stumbled, faults>>

LoopStep(l) ==
  \/ LoopWakes(l) \/ Refreshed(l) \/ (RefreshFails(l) /\ NoFault)
  \/ LoopChallenge(l) \/ LoopTokens(l) \/ LoopRefused(l) \/ LoopRetries(l)

-----------------------------------------------------------------------------
InCall ==
  {l \in Loops : lpc[l] \in {"refresh", "challenge", "answer"}}
    \cup (IF spc \in {"sleep", "stream", "broken"} THEN {} ELSE {Session})

\* Another client's handshake. What becomes of its tokens is not followed; it
\* may present its challenge again.
PeerStep(p) ==
  \/ p \notin asked /\ GenerateAuthChallenge(p, TRUE)
  \/ \E again \in BOOLEAN : GenerateAuthTokens(p, NoClient, again)
  \/ TokensRefused(p) \/ GiveUp(p, {})

\* One tick of the clock.
Elapse ==
  /\ late = {} /\ \A l \in Loops : lpc[l] = "sleep" => ~Due(l)
  /\ Age /\ late' = InCall /\ UNCHANGED <<taskVars, faults>>

ServerRestarts ==
  /\ Fault /\ \E redrawn \in BOOLEAN : Restart(redrawn)
  /\ spc' = IF spc \in {"packets", "stream"} THEN "broken" ELSE spc
  /\ UNCHANGED <<backoff, manager, lpc, stumbled, late>>

Environment ==
  \/ (Prune \/ \E p \in Peers : PeerStep(p)) /\ UNCHANGED <<taskVars, late, faults>>
  \/ ServerRestarts \/ StreamEnds \/ SessionCallLost
  \/ \E l \in Loops : LoopCallLost(l) \/ (RefreshFails(l) /\ Fault)

Next ==
  \/ SessionStep
  \/ \E l \in Loops : LoopStep(l)
  \/ Elapse
  \/ Environment

Spec == Init /\ [][Next]_vars

\* Tasks are rescheduled, time passes, and a handshake tried again and again is
\* not overtaken by a rival for ever.
FairSpec ==
  /\ Spec /\ WF_vars(SessionStep) /\ SF_vars(Elapse)
  /\ SF_vars(\E l \in Loops : SessionTokens(l))
  /\ \A l \in Loops : WF_vars(LoopStep(l)) /\ SF_vars(LoopTokens(l))

-----------------------------------------------------------------------------
\* Type correctness, with the limits of the backoff.
TypeOK ==
  /\ AuthTypeOK
  /\ spc \in {"connect", "challenge", "answer", "info", "bundles",
              "packets", "stream", "broken", "sleep"}
  /\ backoff \in Initial .. Max /\ manager \in Loops \cup {NoClient}
  /\ lpc \in [Loops -> {"off", "sleep", "refresh", "challenge", "answer", "retry"}]
  /\ late \subseteq Clients /\ stumbled \subseteq Loops /\ faults \in 0 .. MaxFaults

\* A manager's token goes stale only through a failed handshake: the margin
\* leaves time for a refresh that fails and the handshake after it, when each
\* call is answered within a third of it.
TokenFresh ==
  \A l \in Loops \ stumbled : \A t \in tokens[l] : t.access >= 0

\* "reconnects with backoff": once calls and streams are no longer lost, the
\* session is up for good - also while loops of earlier sessions, which hold
\* the same key, go on authenticating.
StaysConnected == <>[](spc = "stream")

\* No manager is left with tokens the server rejects, whether they expired or
\* were signed before it restarted.
TokensRecover ==
  \A l \in Loops : []<>(lpc[l] = "off" \/ Admits(l, "access", Validator))
=============================================================================
