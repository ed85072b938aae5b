-------------------------------- MODULE Auth --------------------------------
(***************************************************************************)
(* The auth service (auth/src): the challenge store, the tokens and the    *)
(* interceptor, with the clients that go through the handshake.            *)
(*                                                                         *)
(* The store has one slot per public key, whoever asks and for whichever   *)
(* role, so handshakes of one key disturb each other. A handshake is two   *)
(* calls; anything may happen between them.                                *)
(*                                                                         *)
(* Instants and expiries are times left, counted down by Age. A nonce is a *)
(* fresh uuid, named here by the client whose call drew it: a client only  *)
(* ever answers the last one it was sent, and drawing one overwrites the   *)
(* slot, so of two nonces of one client the older is nowhere to be found.  *)
(***************************************************************************)
EXTENDS Integers

CONSTANTS
  Clients,     \* the tasks and programs that authenticate
  Keys, KeyOf, \* public keys, and the one each client presents
  Signers,     \* the clients whose signatures verify under that key
  Allowed,     \* the keys that may authenticate
  Roles, RoleOf,  \* roles, and the one each client asks for
  ChallengeTtl, AccessTtl, RefreshTtl,   \* in clock ticks
  Leeway,      \* how long past its expiry the JWT library accepts a token
  NoClient

ASSUME AuthAssumption ==
  /\ KeyOf \in [Clients -> Keys] /\ RoleOf \in [Clients -> Roles]
  /\ Signers \subseteq Clients /\ Allowed \subseteq Keys /\ NoClient \notin Clients
  /\ ChallengeTtl \in Nat \ {0} /\ AccessTtl \in Nat /\ RefreshTtl \in Nat
  /\ Leeway \in Nat

VARIABLES
  challenges,  \* key -> its challenge, a set of at most one
  asked,       \* the clients that were sent a challenge and mean to answer it
  tokens,      \* client -> the token pair it holds, a set of at most one
  disturbed,   \* history: clients whose challenge was touched by another call
               \*   of their key, a restart or its expiry
  redeemed     \* history: clients whose challenge has been redeemed already

authVars == <<challenges, asked, tokens, disturbed, redeemed>>

Gone == -(Leeway + 1)
Challenge == [nonce : Clients, role : Roles, left : 0 .. ChallengeTtl]
Pair == [sub : Keys, role : Roles,
         signed : BOOLEAN,   \* with the secret the server has now
         access : Gone .. AccessTtl, refresh : Gone .. RefreshTtl]

AuthInit ==
  /\ challenges = [k \in Keys |-> {}] /\ asked = {}
  /\ tokens = [c \in Clients |-> {}]
  /\ disturbed = {} /\ redeemed = {}

is_allowed(k) == k \in Allowed

\* The clients other than c that wait for the slot of c's key.
Rivals(c) == {d \in asked \ {c} : KeyOf[d] = KeyOf[c]}

-----------------------------------------------------------------------------
(* The challenge store *)

create_challenge(c) ==
  challenges' = [challenges EXCEPT ![KeyOf[c]] =
    {[nonce |-> c, role |-> RoleOf[c], left |-> ChallengeTtl]}]

\* Faulty: the challenge stays in the store.
TakenKept(k) == challenges

\* take_challenge removes the entry of k, expired or not, ...
Taken(k) == [challenges EXCEPT ![k] = {}]

\* ... and returns it if it has not expired.
Live(k) == {e \in challenges[k] : e.left > 0}

\* Faulty: retains the expired ones.
PruneInverted == challenges' = [k \in Keys |-> challenges[k] \ Live(k)]

\* prune_challenges, run every minute.
prune_challenges == challenges' = [k \in Keys |-> Live(k)]

Prune ==
  prune_challenges /\ UNCHANGED <<asked, tokens, disturbed, redeemed>>

-----------------------------------------------------------------------------
(* The calls. reached says whether the client sees the reply. *)

\* generate_auth_challenge: the slot is overwritten.
GenerateAuthChallenge(c, reached) ==
  /\ is_allowed(KeyOf[c]) /\ create_challenge(c)
  /\ asked' = IF reached THEN asked \cup {c} ELSE asked \ {c}
  /\ disturbed' = (disturbed \ {c}) \cup Rivals(c)
  /\ redeemed' = redeemed \ {c} /\ UNCHANGED tokens

\* generate_auth_challenge refuses a key that may not authenticate.
ChallengeRefused(c) == ~is_allowed(KeyOf[c]) /\ UNCHANGED authVars

\* Faulty: does not compare the submitted challenge with the issued one.
RedeemsAny(c, e) == c \in Signers

\* The submitted string is the issued one and its signature verifies.
Redeems(c, e) == e.nonce = c /\ c \in Signers

\* issue, for a new pair.
IssuePair(c, e) ==
  [sub |-> KeyOf[c], role |-> e.role, signed |-> TRUE, access |-> AccessTtl,
   refresh |-> RefreshTtl]

\* generate_auth_tokens succeeds; holder keeps the pair, NoClient if the reply
\* is lost. A client may present its challenge again.
GenerateAuthTokens(c, holder, again) ==
  /\ c \in asked /\ is_allowed(KeyOf[c])
  /\ \E e \in Live(KeyOf[c]) :
       /\ Redeems(c, e)
       /\ tokens' = [d \in Clients |-> IF d = holder THEN {IssuePair(c, e)} ELSE tokens[d]]
  /\ challenges' = Taken(KeyOf[c])
  /\ asked' = IF again THEN asked ELSE asked \ {c}
  /\ redeemed' = IF again THEN redeemed \cup {c} ELSE redeemed \ {c}
  /\ disturbed' = (disturbed \ {c}) \cup Rivals(c) \cup (IF again THEN {c} ELSE {})

\* generate_auth_tokens fails: no live challenge, another one than was
\* submitted, or a bad signature. The slot is emptied all the same.
TokensRefused(c) ==
  /\ c \in asked /\ is_allowed(KeyOf[c])
  /\ \A e \in Live(KeyOf[c]) : ~Redeems(c, e)
  /\ challenges' = Taken(KeyOf[c])
  /\ asked' = asked \ {c}
  /\ disturbed' = (disturbed \ {c}) \cup Rivals(c)
  /\ redeemed' = redeemed \ {c} /\ UNCHANGED tokens

\* A token says which kind it is; a client may present either where the other
\* one belongs.
TokenKinds == {"access", "refresh"}

\* validate, for the token of this kind of the pair: signature and expiry.
Valid(t, kind) ==
  t.signed /\ (IF kind = "refresh" THEN t.refresh ELSE t.access) >= -Leeway

\* refresh_access_token, given a token that c holds: an access token is refused.
RefreshAccessToken(c, kind) ==
  /\ \E t \in tokens[c] :
       /\ Valid(t, kind) /\ kind = "refresh"
       /\ tokens' = [tokens EXCEPT ![c] = {[t EXCEPT !.access = AccessTtl]}]
  /\ UNCHANGED <<challenges, asked, disturbed, redeemed>>

\* The interceptor of a service for this role lets in c, which presents a token
\* that it holds: a refresh token is refused.
Admits(c, kind, role) ==
  \E t \in tokens[c] : Valid(t, kind) /\ kind = "access" /\ t.role = role

\* The server restarts: the challenges are gone, and without AUTH_JWT_SECRET it
\* draws a new secret.
Restart(redrawn) ==
  /\ challenges' = [k \in Keys |-> {}] /\ disturbed' = asked
  /\ tokens' = [c \in Clients |->
       {[t EXCEPT !.signed = @ /\ ~redrawn] : t \in tokens[c]}]
  /\ UNCHANGED <<asked, redeemed>>

\* The client gives up its handshake, and its tokens but for these.
GiveUp(c, kept) ==
  /\ asked' = asked \ {c} /\ tokens' = [tokens EXCEPT ![c] = kept]
  /\ disturbed' = disturbed \ {c} /\ redeemed' = redeemed \ {c}
  /\ UNCHANGED challenges

\* One tick of the clock.
Age ==
  LET less(n, floor) == IF n > floor THEN n - 1 ELSE n
      older(k) == {[e EXCEPT !.left = less(@, 0)] : e \in challenges[k]}
  IN  /\ challenges' = [k \in Keys |-> older(k)]
      /\ tokens' = [c \in Clients |->
           {[t EXCEPT !.access = less(@, Gone), !.refresh = less(@, Gone)] : t \in tokens[c]}]
      /\ disturbed' = disturbed \cup {c \in asked :
           \A e \in older(KeyOf[c]) : e.left = 0}
      /\ UNCHANGED <<asked, redeemed>>

\* The clients that may be handed what c is granted: programs of c's key and
\* role, or nobody if the reply is lost.
Heirs(c) ==
  {d \in Clients : KeyOf[d] = KeyOf[c] /\ RoleOf[d] = RoleOf[c] /\ d \in Signers}
    \cup {NoClient}

\* What any client of the protocol may do.
ClientStep(c) ==
  \/ \E reached \in BOOLEAN : GenerateAuthChallenge(c, reached)
  \/ \E h \in Heirs(c), again \in BOOLEAN : GenerateAuthTokens(c, h, again)
  \/ TokensRefused(c) \/ \E kind \in TokenKinds : RefreshAccessToken(c, kind)
  \/ \E kept \in {{}, tokens[c]} : GiveUp(c, kept)

AuthNext ==
  \/ \E c \in Clients : ClientStep(c)
  \/ Prune \/ Age \/ \E redrawn \in BOOLEAN : Restart(redrawn)

AuthSpec == AuthInit /\ [][AuthNext]_authVars

-----------------------------------------------------------------------------
\* Type correctness: at most one challenge per key, one pair per client.
AuthTypeOK ==
  /\ challenges \in [Keys -> SUBSET Challenge]
  /\ \A k \in Keys : \A e, f \in challenges[k] : e = f
  /\ asked \subseteq Clients /\ tokens \in [Clients -> SUBSET Pair]
  /\ \A c \in Clients : \A t, u \in tokens[c] : t = u
  /\ disturbed \subseteq Clients /\ redeemed \subseteq Clients

\* Tokens are earned: a pair names the key of the client that holds it, which
\* may authenticate and has signed, and carries the role that client asked for,
\* although clients of one key share a slot that remembers the last role only.
TokensEarned ==
  \A c \in Clients : \A t \in tokens[c] :
    /\ t.sub = KeyOf[c] /\ KeyOf[c] \in Allowed /\ c \in Signers
    /\ t.role = RoleOf[c]

\* A challenge is redeemed at most once: a client that presents it again, having
\* missed the reply, does not find it in the store.
SingleUse ==
  \A c \in redeemed, k \in Keys : \A e \in challenges[k] : e.nonce # c

\* Only another call of the same key, a restart or its expiry can spoil a
\* handshake: a client that none of these disturbed finds its challenge.
LoneHandshakeSucceeds ==
  \A c \in asked \ disturbed :
    \E e \in Live(KeyOf[c]) : e.nonce = c /\ e.role = RoleOf[c]

\* Access ends with the refresh token: whichever of its tokens a client presents,
\* and wherever, no service lets it in once its access token is past acceptance,
\* and refreshing never carries that further than one access token beyond the
\* refresh token's own acceptance.
AccessBounded ==
  \A c \in Clients : \A t \in tokens[c] :
    /\ t.access <= t.refresh + AccessTtl + Leeway
    /\ \A kind \in TokenKinds, role \in Roles : Admits(c, kind, role) => t.access >= -Leeway
=============================================================================
