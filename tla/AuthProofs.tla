----------------------------- MODULE AuthProofs -----------------------------
(***************************************************************************)
(* Proofs about the auth service: what holds of the challenge store and of *)
(* the tokens for any number of clients, keys, roles and any times to live.*)
(* The upstream consumer is a client of the service like any other, so what*)
(* is shown of the service holds of the two together; and its token        *)
(* managers refresh in time.                                               *)
(***************************************************************************)
EXTENDS Upstream, TLAPS

\* Zenon unless a leaf names another prover: SMT for arithmetic, PTL for temporal logic.
USE Zenon

\* What the store says of a challenge: it lies in the slot of its client's key
\* and carries the role that client asked for.
SlotHonest ==
  \A k \in Keys : \A e \in challenges[k] :
    KeyOf[e.nonce] = k /\ e.role = RoleOf[e.nonce]

-----------------------------------------------------------------------------
(* Type correctness *)

\* create_challenge leaves one well-formed entry in a key's slot.
LEMMA CreateTypes ==
  ASSUME AuthTypeOK, NEW c \in Clients, create_challenge(c)
  PROVE  /\ challenges' \in [Keys -> SUBSET Challenge]
         /\ \A k \in Keys : \A e, f \in challenges'[k] : e = f
<1>1. KeyOf[c] \in Keys /\ RoleOf[c] \in Roles /\ ChallengeTtl \in 0 .. ChallengeTtl
  BY AuthAssumption, SMTT(30)
<1>2. [nonce |-> c, role |-> RoleOf[c], left |-> ChallengeTtl] \in Challenge
  BY <1>1 DEF Challenge
<1> QED
  BY <1>1, <1>2, SMTT(30) DEF AuthTypeOK, create_challenge

\* So does taking the challenge out.
LEMMA TakenTypes ==
  ASSUME AuthTypeOK, NEW k \in Keys
  PROVE  /\ Taken(k) \in [Keys -> SUBSET Challenge]
         /\ \A j \in Keys : \A e, f \in Taken(k)[j] : e = f
  BY ZenonT(30) DEF AuthTypeOK, Taken

\* Each client has at most one well-formed pair.
TokensOK(T) ==
  /\ T \in [Clients -> SUBSET Pair]
  /\ \A c \in Clients : \A t, u \in T[c] : t = u

\* The pair a handshake earns is well formed.
LEMMA IssuedTypes ==
  ASSUME AuthTypeOK, NEW c \in Clients, NEW e \in Challenge
  PROVE  IssuePair(c, e) \in Pair
<1>1. KeyOf[c] \in Keys /\ e.role \in Roles
  BY AuthAssumption DEF Challenge
<1>2. AccessTtl \in Gone .. AccessTtl /\ RefreshTtl \in Gone .. RefreshTtl
  BY AuthAssumption, SMTT(30) DEF Gone
<1> QED
  BY <1>1, <1>2 DEF IssuePair, Pair

\* Asking for a challenge keeps the shape of the store and the tokens,
LEMMA ChallengeKeepsTypes ==
  ASSUME AuthTypeOK, NEW c \in Clients, NEW reached \in BOOLEAN,
         GenerateAuthChallenge(c, reached)
  PROVE  AuthTypeOK'
<1>1. create_challenge(c)
  BY DEF GenerateAuthChallenge
<1>2. asked' \subseteq Clients /\ disturbed' \subseteq Clients /\ redeemed' \subseteq Clients
  BY DEF GenerateAuthChallenge, AuthTypeOK, Rivals
<1> QED
  BY <1>1, <1>2, CreateTypes DEF GenerateAuthChallenge, AuthTypeOK

\* and so does answering one,
LEMMA TokensKeepsTypes ==
  ASSUME AuthTypeOK, NEW c \in Clients, NEW h, NEW again \in BOOLEAN,
         GenerateAuthTokens(c, h, again)
  PROVE  AuthTypeOK'
<1>1. PICK e \in Live(KeyOf[c]) :
        tokens' = [d \in Clients |-> IF d = h THEN {IssuePair(c, e)} ELSE tokens[d]]
  BY DEF GenerateAuthTokens
<1>2. e \in Challenge /\ KeyOf[c] \in Keys
  BY AuthAssumption DEF Live, AuthTypeOK
<1>3. TokensOK(tokens')
  BY <1>1, <1>2, IssuedTypes, SMTT(30) DEF TokensOK, AuthTypeOK
<1>4. challenges' = Taken(KeyOf[c])
  BY DEF GenerateAuthTokens
<1>5. asked' \subseteq Clients /\ disturbed' \subseteq Clients /\ redeemed' \subseteq Clients
  BY DEF GenerateAuthTokens, AuthTypeOK, Rivals
<1> QED
  BY <1>2, <1>3, <1>4, <1>5, TakenTypes DEF TokensOK, AuthTypeOK

\* an answer that is refused,
LEMMA RefusalKeepsTypes ==
  ASSUME AuthTypeOK, NEW c \in Clients, TokensRefused(c)
  PROVE  AuthTypeOK'
<1>1. KeyOf[c] \in Keys /\ challenges' = Taken(KeyOf[c])
  BY AuthAssumption DEF TokensRefused
<1>2. asked' \subseteq Clients /\ disturbed' \subseteq Clients /\ redeemed' \subseteq Clients
  BY DEF TokensRefused, AuthTypeOK, Rivals
<1> QED
  BY <1>1, <1>2, TakenTypes, SMTT(30) DEF TokensRefused, AuthTypeOK

\* a refresh,
LEMMA RefreshKeepsTypes ==
  ASSUME AuthTypeOK, NEW c \in Clients, NEW kind, RefreshAccessToken(c, kind)
  PROVE  AuthTypeOK'
<1>1. PICK t \in tokens[c] :
        tokens' = [tokens EXCEPT ![c] = {[t EXCEPT !.access = AccessTtl]}]
  BY DEF RefreshAccessToken
<1>2. t \in Pair /\ AccessTtl \in Gone .. AccessTtl
  BY AuthAssumption, SMTT(30) DEF AuthTypeOK, Gone
<1>3. [t EXCEPT !.access = AccessTtl] \in Pair
  BY <1>2 DEF Pair
<1>4. TokensOK(tokens')
  BY <1>1, <1>3, SMTT(30) DEF TokensOK, AuthTypeOK
<1> QED
  BY <1>4 DEF TokensOK, RefreshAccessToken, AuthTypeOK

\* a restart with the old secret or a new one,
LEMMA RestartKeepsTypes ==
  ASSUME AuthTypeOK, NEW redrawn \in BOOLEAN, Restart(redrawn)
  PROVE  AuthTypeOK'
<1>1. ASSUME NEW t \in Pair PROVE [t EXCEPT !.signed = @ /\ ~redrawn] \in Pair
  <2>1. (t.signed /\ ~redrawn) \in BOOLEAN
    OBVIOUS
  <2> QED
    BY <2>1 DEF Pair
<1>2. TokensOK(tokens')
  BY <1>1, SMTT(30) DEF Restart, TokensOK, AuthTypeOK
<1> QED
  BY <1>2 DEF TokensOK, Restart, AuthTypeOK

\* a client that gives up,
LEMMA GiveUpKeepsTypes ==
  ASSUME AuthTypeOK, NEW c \in Clients, NEW kept \in {{}, tokens[c]}, GiveUp(c, kept)
  PROVE  AuthTypeOK'
<1>1. TokensOK(tokens')
  BY ZenonT(30) DEF GiveUp, TokensOK, AuthTypeOK
<1> QED
  BY <1>1 DEF TokensOK, GiveUp, AuthTypeOK

\* and the sweep of expired challenges.
LEMMA PruneKeepsTypes == AuthTypeOK /\ Prune => AuthTypeOK'
  BY SMTT(30) DEF AuthTypeOK, Prune, prune_challenges, Live

\* What a tick leaves of a time.
Less(n, floor) == IF n > floor THEN n - 1 ELSE n
OlderChallenge(e) == [e EXCEPT !.left = Less(@, 0)]
OlderPair(t) == [t EXCEPT !.access = Less(@, Gone), !.refresh = Less(@, Gone)]

\* A tick takes one from the time every challenge and every token has left.
LEMMA AgeMeans ==
  ASSUME Age
  PROVE  /\ challenges' = [k \in Keys |-> {OlderChallenge(e) : e \in challenges[k]}]
         /\ tokens' = [c \in Clients |-> {OlderPair(t) : t \in tokens[c]}]
         /\ disturbed' = disturbed \cup {c \in asked :
              \A e \in {OlderChallenge(f) : f \in challenges[KeyOf[c]]} : e.left = 0}
         /\ asked' = asked /\ redeemed' = redeemed
  BY DEF Age, Less, OlderChallenge, OlderPair

\* Ageing changes nothing but the time that is left.
LEMMA OlderFields ==
  /\ \A e \in Challenge :
       /\ OlderChallenge(e) \in Challenge
       /\ OlderChallenge(e).nonce = e.nonce /\ OlderChallenge(e).role = e.role
       /\ OlderChallenge(e).left # 0 => e.left > 0
  /\ \A t \in Pair :
       /\ OlderPair(t) \in Pair
       /\ OlderPair(t).sub = t.sub /\ OlderPair(t).role = t.role
       /\ OlderPair(t).access = Less(t.access, Gone)
       /\ OlderPair(t).refresh = Less(t.refresh, Gone)
<1>1. ASSUME NEW e \in Challenge
      PROVE  /\ OlderChallenge(e) \in Challenge
             /\ OlderChallenge(e).nonce = e.nonce /\ OlderChallenge(e).role = e.role
             /\ OlderChallenge(e).left # 0 => e.left > 0
  BY AuthAssumption, SMTT(30) DEF OlderChallenge, Challenge, Less
<1>2. ASSUME NEW t \in Pair
      PROVE  /\ OlderPair(t) \in Pair
             /\ OlderPair(t).sub = t.sub /\ OlderPair(t).role = t.role
             /\ OlderPair(t).access = Less(t.access, Gone)
             /\ OlderPair(t).refresh = Less(t.refresh, Gone)
  <2>1. Less(t.access, Gone) \in Gone .. AccessTtl /\ Less(t.refresh, Gone) \in Gone .. RefreshTtl
    BY AuthAssumption, SMTT(30) DEF Pair, Less, Gone
  <2> QED
    BY <2>1 DEF OlderPair, Pair
<1> QED
  BY <1>1, <1>2

\* Time passing keeps the shape of the store and the tokens.
LEMMA AgeKeepsTypes == AuthTypeOK /\ Age => AuthTypeOK'
<1> SUFFICES ASSUME AuthTypeOK, Age PROVE AuthTypeOK'
  OBVIOUS
<1>1. /\ challenges' \in [Keys -> SUBSET Challenge]
      /\ \A k \in Keys : \A e, f \in challenges'[k] : e = f
  BY AgeMeans, OlderFields, SMTT(30) DEF AuthTypeOK
<1>2. TokensOK(tokens')
  BY AgeMeans, OlderFields, SMTT(30) DEF AuthTypeOK, TokensOK
<1>3. asked' \subseteq Clients /\ disturbed' \subseteq Clients /\ redeemed' \subseteq Clients
  BY AgeMeans DEF AuthTypeOK
<1> QED
  BY <1>1, <1>2, <1>3 DEF TokensOK, AuthTypeOK

\* Every step of the auth service does.
LEMMA AuthTypesInductive == AuthTypeOK /\ [AuthNext]_authVars => AuthTypeOK'
<1> SUFFICES ASSUME AuthTypeOK, [AuthNext]_authVars PROVE AuthTypeOK'
  OBVIOUS
<1>1. ASSUME NEW c \in Clients, ClientStep(c) PROVE AuthTypeOK'
  BY <1>1, ChallengeKeepsTypes, TokensKeepsTypes, RefusalKeepsTypes, RefreshKeepsTypes,
     GiveUpKeepsTypes DEF ClientStep
<1>2. ASSUME NEW redrawn \in BOOLEAN, Restart(redrawn) PROVE AuthTypeOK'
  BY <1>2, RestartKeepsTypes
<1>3. CASE Prune
  BY <1>3, PruneKeepsTypes
<1>4. CASE Age
  BY <1>4, AgeKeepsTypes
<1>5. CASE UNCHANGED authVars
  BY <1>5 DEF authVars, AuthTypeOK
<1> QED
  BY <1>1, <1>2, <1>3, <1>4, <1>5 DEF AuthNext

\* The service starts with an empty store and no tokens.
LEMMA AuthTypesInitially == AuthInit => AuthTypeOK
  BY DEF AuthInit, AuthTypeOK

\* The store and the tokens keep their shape in every behaviour of the service.
THEOREM AuthTypesHold == AuthSpec => []AuthTypeOK
  BY AuthTypesInitially, AuthTypesInductive, PTL DEF AuthSpec

-----------------------------------------------------------------------------
(* The store *)

\* The actions that leave a slot, empty it, age it or prune it, and fill none.
Shrinks ==
  \/ \E c \in Clients :
       \/ \E h \in Heirs(c), again \in BOOLEAN : GenerateAuthTokens(c, h, again)
       \/ TokensRefused(c)
  \/ Prune \/ Age \/ \E redrawn \in BOOLEAN : Restart(redrawn)

\* A step that only shrinks the store puts no new nonce or role into a slot.
LEMMA SlotsOnlyShrink ==
  ASSUME AuthTypeOK, Shrinks
  PROVE  \A k \in Keys : \A e \in challenges'[k] : \E f \in challenges[k] :
           e.nonce = f.nonce /\ e.role = f.role
<1>1. CASE \E c \in Clients : challenges' = Taken(KeyOf[c])
  BY <1>1, ZenonT(30) DEF Taken, AuthTypeOK
<1>2. CASE Prune
  BY <1>2 DEF Prune, prune_challenges, Live
<1>3. CASE Age
  BY <1>3, AgeMeans, OlderFields, SMTT(30) DEF AuthTypeOK
<1>4. CASE \E redrawn \in BOOLEAN : Restart(redrawn)
  BY <1>4 DEF Restart
<1> QED
  BY <1>1, <1>2, <1>3, <1>4 DEF Shrinks, GenerateAuthTokens, TokensRefused

\* The other actions: one fills a slot, the rest leave the store alone.
LEMMA SlotsOtherwise ==
  ASSUME [AuthNext]_authVars
  PROVE  \/ \E c \in Clients : \E reached \in BOOLEAN : GenerateAuthChallenge(c, reached)
         \/ Shrinks \/ challenges' = challenges
<1>1. CASE \E c \in Clients : \/ \E kind \in TokenKinds : RefreshAccessToken(c, kind)
                            \/ \E kept \in {{}, tokens[c]} : GiveUp(c, kept)
  BY <1>1 DEF RefreshAccessToken, GiveUp
<1>2. CASE UNCHANGED authVars
  BY <1>2 DEF authVars
<1> QED
  BY <1>1, <1>2 DEF AuthNext, ClientStep, Shrinks

\* A slot goes on naming the key and the role of the client that drew its
\* challenge.
LEMMA SlotHonestInductive == AuthTypeOK /\ SlotHonest /\ [AuthNext]_authVars => SlotHonest'
<1> SUFFICES ASSUME AuthTypeOK, SlotHonest, [AuthNext]_authVars PROVE SlotHonest'
  OBVIOUS
<1>1. ASSUME NEW c \in Clients, create_challenge(c) PROVE SlotHonest'
  BY <1>1, AuthAssumption, SMTT(30) DEF SlotHonest, create_challenge, AuthTypeOK
<1>2. ASSUME \A k \in Keys : \A e \in challenges'[k] : \E f \in challenges[k] :
               e.nonce = f.nonce /\ e.role = f.role
      PROVE  SlotHonest'
  BY <1>2, SMTT(30) DEF SlotHonest
<1>3. CASE challenges' = challenges
  BY <1>3 DEF SlotHonest
<1> QED
  BY <1>1, <1>2, <1>3, SlotsOnlyShrink, SlotsOtherwise DEF GenerateAuthChallenge

\* No step brings a redeemed challenge back into the store.
LEMMA SingleUseInductive ==
  AuthTypeOK /\ SlotHonest /\ SingleUse /\ [AuthNext]_authVars => SingleUse'
<1> SUFFICES ASSUME AuthTypeOK, SlotHonest, SingleUse, [AuthNext]_authVars PROVE SingleUse'
  OBVIOUS
<1>1. ASSUME NEW c \in Clients, NEW reached \in BOOLEAN, GenerateAuthChallenge(c, reached)
      PROVE  SingleUse'
  BY <1>1, SMTT(30) DEF SingleUse, GenerateAuthChallenge, create_challenge, AuthTypeOK
<1>2. ASSUME NEW c \in Clients, NEW h \in Heirs(c), NEW again \in BOOLEAN,
             GenerateAuthTokens(c, h, again)
      PROVE  SingleUse'
  <2>1. challenges' = Taken(KeyOf[c]) /\ redeemed' \subseteq redeemed \cup {c}
    BY <1>2 DEF GenerateAuthTokens
  <2>2. \A k \in Keys : \A e \in challenges'[k] : e \in challenges[k] /\ k # KeyOf[c]
    BY <2>1, SMTT(30) DEF Taken, AuthTypeOK
  <2> QED
    BY <2>1, <2>2, SMTT(30) DEF SingleUse, SlotHonest
<1>3. ASSUME redeemed' \subseteq redeemed,
             \A k \in Keys : \A e \in challenges'[k] : \E f \in challenges[k] :
               e.nonce = f.nonce /\ e.role = f.role
      PROVE  SingleUse'
  BY <1>3, SMTT(30) DEF SingleUse
<1>4. ASSUME NEW c \in Clients, TokensRefused(c) PROVE SingleUse'
  <2>1. redeemed' \subseteq redeemed
    BY <1>4 DEF TokensRefused
  <2>2. Shrinks
    BY ONLY <1>4, Zenon DEF Shrinks
  <2> QED
    BY <1>3, <2>1, <2>2, SlotsOnlyShrink
<1>5. CASE Prune \/ Age \/ \E redrawn \in BOOLEAN : Restart(redrawn)
  <2>1. redeemed' \subseteq redeemed
    BY <1>5, AgeMeans DEF Prune, Restart
  <2>2. Shrinks
    BY ONLY <1>5, Zenon DEF Shrinks
  <2> QED
    BY <1>3, <2>1, <2>2, SlotsOnlyShrink
<1>6. ASSUME challenges' = challenges, redeemed' \subseteq redeemed PROVE SingleUse'
  BY <1>6 DEF SingleUse
<1>7. ASSUME NEW c \in Clients, \/ \E kind \in TokenKinds : RefreshAccessToken(c, kind)
                                \/ \E kept \in {{}, tokens[c]} : GiveUp(c, kept)
      PROVE  SingleUse'
  BY <1>6, <1>7 DEF RefreshAccessToken, GiveUp
<1>8. CASE UNCHANGED authVars
  BY <1>6, <1>8 DEF authVars
<1> QED
  BY <1>1, <1>2, <1>4, <1>5, <1>7, <1>8 DEF AuthNext, ClientStep

\* A call that only touches the slot of c's key leaves the others' handshakes
\* alone, or notes them as disturbed.
LEMMA OthersUnharmed ==
  ASSUME AuthTypeOK, LoneHandshakeSucceeds, NEW c \in Clients,
         \A k \in Keys \ {KeyOf[c]} : challenges'[k] = challenges[k],
         Rivals(c) \cup (disturbed \ {c}) \subseteq disturbed',
         NEW d \in asked \ {c}, d \notin disturbed'
  PROVE  \E e \in Live(KeyOf[d])' : e.nonce = d /\ e.role = RoleOf[d]
<1>1. d \in Clients /\ KeyOf[d] \in Keys /\ d \notin disturbed /\ d \notin Rivals(c)
  BY AuthAssumption DEF AuthTypeOK
<1>2. KeyOf[d] # KeyOf[c]
  BY <1>1 DEF Rivals
<1> QED
  BY <1>1, <1>2 DEF LoneHandshakeSucceeds, Live

\* A handshake nobody disturbed keeps its challenge, whatever step is taken.
LEMMA LoneHandshakeInductive ==
  AuthTypeOK /\ LoneHandshakeSucceeds /\ [AuthNext]_authVars => LoneHandshakeSucceeds'
<1> SUFFICES ASSUME AuthTypeOK, LoneHandshakeSucceeds, [AuthNext]_authVars,
                    NEW d \in asked', d \notin disturbed'
             PROVE  \E e \in Live(KeyOf[d])' : e.nonce = d /\ e.role = RoleOf[d]
  BY DEF LoneHandshakeSucceeds
<1> DEFINE Found == \E e \in Live(KeyOf[d])' : e.nonce = d /\ e.role = RoleOf[d]
<1>1. ASSUME NEW c \in Clients, NEW reached \in BOOLEAN, GenerateAuthChallenge(c, reached)
      PROVE  Found
  <2>1. \A k \in Keys \ {KeyOf[c]} : challenges'[k] = challenges[k]
    BY <1>1 DEF GenerateAuthChallenge, create_challenge, AuthTypeOK
  <2>2. CASE d = c
    <3> DEFINE new == [nonce |-> c, role |-> RoleOf[c], left |-> ChallengeTtl]
    <3>1. new \in challenges'[KeyOf[c]]
      BY <1>1, AuthAssumption DEF GenerateAuthChallenge, create_challenge, AuthTypeOK
    <3>2. new.left > 0 /\ new.nonce = c /\ new.role = RoleOf[c]
      BY AuthAssumption, SMTT(30)
    <3> QED
      BY <2>2, <3>1, <3>2 DEF Live
  <2>3. CASE d # c
    BY <1>1, <2>1, <2>3, OthersUnharmed DEF GenerateAuthChallenge
  <2> QED
    BY <2>2, <2>3
<1>2. ASSUME NEW c \in Clients, NEW h \in Heirs(c), NEW again \in BOOLEAN,
             GenerateAuthTokens(c, h, again)
      PROVE  Found
  <2>1. \A k \in Keys \ {KeyOf[c]} : challenges'[k] = challenges[k]
    BY <1>2 DEF GenerateAuthTokens, Taken, AuthTypeOK
  <2>2. d # c
    BY <1>2 DEF GenerateAuthTokens
  <2> QED
    BY <1>2, <2>1, <2>2, OthersUnharmed DEF GenerateAuthTokens
<1>3. ASSUME NEW c \in Clients, TokensRefused(c) PROVE Found
  <2>1. \A k \in Keys \ {KeyOf[c]} : challenges'[k] = challenges[k]
    BY <1>3 DEF TokensRefused, Taken, AuthTypeOK
  <2>2. d # c
    BY <1>3 DEF TokensRefused
  <2> QED
    BY <1>3, <2>1, <2>2, OthersUnharmed DEF TokensRefused
<1>4. CASE Prune
  <2>1. d \in asked /\ d \notin disturbed /\ d \in Clients /\ KeyOf[d] \in Keys
    BY <1>4, AuthAssumption DEF Prune, AuthTypeOK
  <2> QED
    BY <1>4, <2>1 DEF Prune, prune_challenges, Live, LoneHandshakeSucceeds
<1>5. CASE Age
  <2>1. d \in asked /\ d \notin disturbed /\ d \in Clients /\ KeyOf[d] \in Keys
    BY <1>5, AgeMeans, AuthAssumption DEF AuthTypeOK
  <2>2. PICK f \in challenges[KeyOf[d]] : OlderChallenge(f).left # 0
    BY <1>5, <2>1, AgeMeans, SMTT(30)
  <2>3. f \in Challenge /\ f.left > 0
    BY <2>1, <2>2, OlderFields DEF AuthTypeOK
  <2>4. f.nonce = d /\ f.role = RoleOf[d]
    BY <2>1, <2>2, SMTT(30) DEF LoneHandshakeSucceeds, Live, AuthTypeOK
  <2>5. OlderChallenge(f) \in challenges'[KeyOf[d]] /\ OlderChallenge(f).left > 0
    BY <1>5, <2>1, <2>2, <2>3, AgeMeans, OlderFields, SMTT(30) DEF Challenge
  <2> QED
    BY <2>3, <2>4, <2>5, OlderFields, SMTT(30) DEF Live
<1>6. ASSUME NEW redrawn \in BOOLEAN, Restart(redrawn) PROVE Found
  BY <1>6 DEF Restart
<1>7. ASSUME NEW c \in Clients,
             \/ \E kind \in TokenKinds : RefreshAccessToken(c, kind)
             \/ \E kept \in {{}, tokens[c]} : GiveUp(c, kept)
      PROVE  Found
  <2>1. d \in asked /\ d \notin disturbed /\ challenges' = challenges
    BY <1>7 DEF RefreshAccessToken, GiveUp
  <2> QED
    BY <2>1 DEF LoneHandshakeSucceeds, Live
<1>8. CASE UNCHANGED authVars
  BY <1>8 DEF authVars, LoneHandshakeSucceeds, Live
<1> QED
  BY <1>1, <1>2, <1>3, <1>4, <1>5, <1>6, <1>7, <1>8 DEF AuthNext, ClientStep

-----------------------------------------------------------------------------
(* The tokens *)

\* Where a pair comes from: it is new, or it continues one the client held, with
\* times that were refreshed, aged or kept.
Continues(u, t) ==
  /\ u.sub = t.sub /\ u.role = t.role
  /\ \/ u.access = t.access /\ u.refresh = t.refresh
     \/ u.access = AccessTtl /\ u.refresh = t.refresh /\ t.refresh >= -Leeway
     \/ u.access = Less(t.access, Gone) /\ u.refresh = Less(t.refresh, Gone)

Issued(d, u) ==
  \E c \in Clients : \E e \in Live(KeyOf[c]) :
    /\ is_allowed(KeyOf[c]) /\ Redeems(c, e) /\ u = IssuePair(c, e) /\ d \in Heirs(c)

\* Replacing what one client holds leaves the others theirs.
LEMMA TokensOfClient ==
  ASSUME AuthTypeOK, NEW c \in Clients, NEW T, tokens' = [tokens EXCEPT ![c] = T]
  PROVE  tokens'[c] = T /\ \A d \in Clients : d # c => tokens'[d] = tokens[d]
<1>1. DOMAIN tokens = Clients
  BY DEF AuthTypeOK
<1> QED BY <1>1

\* A pair is issued by a handshake or continues one its client had.
LEMMA PairsComeFrom ==
  ASSUME AuthTypeOK, [AuthNext]_authVars, NEW d \in Clients, NEW u \in tokens'[d]
  PROVE  Issued(d, u) \/ \E t \in tokens[d] : Continues(u, t)
<1>1. ASSUME NEW c \in Clients, NEW h \in Heirs(c), NEW again \in BOOLEAN,
             GenerateAuthTokens(c, h, again)
      PROVE  Issued(d, u) \/ \E t \in tokens[d] : Continues(u, t)
  <2>1. PICK e \in Live(KeyOf[c]) :
          /\ Redeems(c, e)
          /\ tokens' = [b \in Clients |-> IF b = h THEN {IssuePair(c, e)} ELSE tokens[b]]
    BY <1>1 DEF GenerateAuthTokens
  <2>2. is_allowed(KeyOf[c])
    BY <1>1 DEF GenerateAuthTokens
  <2>3. CASE d = h
    <3>1. u = IssuePair(c, e)
      BY <2>1, <2>3
    <3> QED
      BY <2>1, <2>2, <2>3, <3>1 DEF Issued
  <2>4. CASE d # h
    BY <2>1, <2>4 DEF Continues
  <2> QED
    BY <2>3, <2>4
<1>2. ASSUME NEW c \in Clients, NEW kind, RefreshAccessToken(c, kind)
      PROVE  \E t \in tokens[d] : Continues(u, t)
  <2>1. PICK t \in tokens[c] :
          /\ Valid(t, "refresh")
          /\ tokens' = [tokens EXCEPT ![c] = {[t EXCEPT !.access = AccessTtl]}]
    BY <1>2 DEF RefreshAccessToken
  <2>2. t \in Pair
    BY DEF AuthTypeOK
  <2>3. CASE d = c
    <3>0. tokens'[c] = {[t EXCEPT !.access = AccessTtl]}
      BY <2>1, TokensOfClient
    <3>1. u = [t EXCEPT !.access = AccessTtl]
      BY <2>3, <3>0
    <3>2. u.sub = t.sub /\ u.role = t.role /\ u.access = AccessTtl /\ u.refresh = t.refresh
      BY <2>2, <3>1 DEF Pair
    <3> QED
      BY <2>1, <2>3, <3>2 DEF Continues, Valid
  <2>4. CASE d # c
    <3>1. tokens'[d] = tokens[d]
      BY <2>1, <2>4, TokensOfClient
    <3> QED BY <3>1 DEF Continues
  <2> QED
    BY <2>3, <2>4
<1>3. ASSUME NEW c \in Clients, NEW kept \in {{}, tokens[c]}, GiveUp(c, kept)
      PROVE  \E t \in tokens[d] : Continues(u, t)
  <2>1. u \in tokens[d]
    BY <1>3, SMTT(30) DEF GiveUp, AuthTypeOK
  <2> QED
    BY <2>1 DEF Continues
<1>4. ASSUME NEW redrawn \in BOOLEAN, Restart(redrawn)
      PROVE  \E t \in tokens[d] : Continues(u, t)
  <2>1. PICK t \in tokens[d] : u = [t EXCEPT !.signed = @ /\ ~redrawn]
    BY <1>4 DEF Restart
  <2>2. t \in Pair
    BY DEF AuthTypeOK
  <2>3. u.sub = t.sub /\ u.role = t.role /\ u.access = t.access /\ u.refresh = t.refresh
    BY <2>1, <2>2 DEF Pair
  <2> QED
    BY <2>3 DEF Continues
<1>5. CASE Age
  BY <1>5, AgeMeans, OlderFields, SMTT(30) DEF AuthTypeOK, Continues
<1>6. ASSUME tokens' = tokens PROVE \E t \in tokens[d] : Continues(u, t)
  BY <1>6 DEF Continues
<1>7. CASE \/ \E c \in Clients : \/ \E reached \in BOOLEAN : GenerateAuthChallenge(c, reached)
                                \/ TokensRefused(c)
           \/ Prune \/ UNCHANGED authVars
  BY <1>6, <1>7 DEF GenerateAuthChallenge, TokensRefused, Prune, authVars
<1> QED
  BY <1>1, <1>2, <1>3, <1>4, <1>5, <1>7 DEF AuthNext, ClientStep

\* A pair goes on carrying the key and role of the client that earned it.
LEMMA TokensEarnedInductive ==
  AuthTypeOK /\ SlotHonest /\ TokensEarned /\ [AuthNext]_authVars => TokensEarned'
<1> SUFFICES ASSUME AuthTypeOK, SlotHonest, TokensEarned, [AuthNext]_authVars,
                    NEW d \in Clients, NEW u \in tokens'[d]
             PROVE  /\ u.sub = KeyOf[d] /\ KeyOf[d] \in Allowed /\ d \in Signers
                    /\ u.role = RoleOf[d]
  BY DEF TokensEarned
<1>1. CASE Issued(d, u)
  <2>1. PICK c \in Clients : \E e \in Live(KeyOf[c]) :
          /\ is_allowed(KeyOf[c]) /\ Redeems(c, e) /\ u = IssuePair(c, e) /\ d \in Heirs(c)
    BY <1>1 DEF Issued
  <2>2. PICK e \in Live(KeyOf[c]) :
          /\ is_allowed(KeyOf[c]) /\ Redeems(c, e) /\ u = IssuePair(c, e) /\ d \in Heirs(c)
    BY <2>1
  <2>3. e.role = RoleOf[c]
    BY <2>2, AuthAssumption DEF SlotHonest, Live, Redeems
  <2>4. KeyOf[d] = KeyOf[c] /\ RoleOf[d] = RoleOf[c] /\ d \in Signers
    BY <2>2, AuthAssumption DEF Heirs
  <2> QED
    BY <2>2, <2>3, <2>4 DEF IssuePair, is_allowed
<1>2. CASE \E t \in tokens[d] : Continues(u, t)
  BY <1>2 DEF Continues, TokensEarned
<1> QED
  BY <1>1, <1>2, PairsComeFrom

\* The lives of a pair: its access token outlasts the refresh token by at most
\* one access token.
LivesBounded ==
  \A c \in Clients : \A t \in tokens[c] : t.access <= t.refresh + AccessTtl + Leeway

\* Only an access token that is accepted lets its client in, so a bound on the
\* pair's lives bounds access.
LEMMA LivesBoundAccess == AuthTypeOK /\ LivesBounded => AccessBounded
<1> SUFFICES ASSUME AuthTypeOK, LivesBounded, NEW c \in Clients, NEW t \in tokens[c],
                    NEW kind \in TokenKinds, NEW role \in Roles, Admits(c, kind, role)
             PROVE  t.access >= -Leeway
  BY DEF AccessBounded, LivesBounded
<1>1. PICK u \in tokens[c] : Valid(u, kind) /\ kind = "access"
  BY DEF Admits
<1>2. u = t
  BY DEF AuthTypeOK
<1> QED
  BY <1>1, <1>2 DEF Valid

\* No step extends access beyond the refresh token by more than one access
\* token.
LEMMA LivesBoundedInductive ==
  AuthTypeOK /\ LivesBounded /\ [AuthNext]_authVars => LivesBounded'
<1> SUFFICES ASSUME AuthTypeOK, LivesBounded, [AuthNext]_authVars,
                    NEW d \in Clients, NEW u \in tokens'[d]
             PROVE  u.access <= u.refresh + AccessTtl + Leeway
  BY DEF LivesBounded
<1>1. CASE Issued(d, u)
  <2>1. u.access = AccessTtl /\ u.refresh = RefreshTtl
    <3>1. PICK c \in Clients : \E e \in Live(KeyOf[c]) : u = IssuePair(c, e)
      BY <1>1 DEF Issued
    <3>2. \A e : IssuePair(c, e).access = AccessTtl /\ IssuePair(c, e).refresh = RefreshTtl
      BY DEF IssuePair
    <3> QED BY <3>1, <3>2
  <2> QED
    BY <2>1, AuthAssumption, SMTT(30)
<1>2. ASSUME NEW t \in tokens[d], Continues(u, t) PROVE u.access <= u.refresh + AccessTtl + Leeway
  <2>1. /\ t.access \in Int /\ t.refresh \in Int
        /\ Gone <= t.access /\ Gone <= t.refresh
    BY AuthAssumption, SMTT(30) DEF AuthTypeOK, Pair, Gone
  <2>2. t.access <= t.refresh + AccessTtl + Leeway
    BY DEF LivesBounded
  <2> QED
    BY <1>2, <2>1, <2>2, AuthAssumption, SMTT(30) DEF Continues, Less, Gone
<1> QED
  BY <1>1, <1>2, PairsComeFrom

-----------------------------------------------------------------------------
\* The empty store satisfies all the invariants.
LEMMA AuthInitially ==
  AuthInit => SlotHonest /\ SingleUse /\ LoneHandshakeSucceeds /\ TokensEarned /\ LivesBounded
  BY DEF AuthInit, SlotHonest, SingleUse, LoneHandshakeSucceeds, TokensEarned, LivesBounded

\* In every behaviour of the service the slots are honest.
LEMMA SlotsHonest == AuthSpec => []SlotHonest
  BY AuthInitially, AuthTypesHold, SlotHonestInductive, PTL DEF AuthSpec

\* A challenge is redeemed at most once, whatever is lost, repeated or
\* interleaved (take_challenge removes before it compares).
THEOREM ChallengesAreSingleUse == AuthSpec => []SingleUse
  BY AuthInitially, AuthTypesHold, SlotsHonest, SingleUseInductive, PTL DEF AuthSpec

\* A handshake that no other call of its key, restart or expiry came between
\* succeeds.
THEOREM LoneHandshakesSucceed == AuthSpec => []LoneHandshakeSucceeds
  BY AuthInitially, AuthTypesHold, LoneHandshakeInductive, PTL DEF AuthSpec

\* Whoever holds tokens has earned them, with the key and the role they carry.
THEOREM TokensAreEarned == AuthSpec => []TokensEarned
  BY AuthInitially, AuthTypesHold, SlotsHonest, TokensEarnedInductive, PTL DEF AuthSpec

\* Whichever token a client presents, and where: it is let in only by an access
\* token in date, and refreshing never carries that more than one access token's
\* life beyond the refresh token's.
THEOREM AccessIsBounded == AuthSpec => []AccessBounded
  BY AuthInitially, AuthTypesHold, LivesBoundedInductive, LivesBoundAccess, PTL DEF AuthSpec

-----------------------------------------------------------------------------
(* The composition implements the auth service *)

\* The session, its loops and the peers are clients of the auth service.
LEMMA TasksAreClients ==
  /\ Session \in Clients /\ Loops \subseteq Clients /\ Peers \subseteq Clients
  /\ \A c \in Clients : NoClient \in Heirs(c)
  /\ \A l \in Loops : l \in Heirs(Session) /\ l \in Heirs(l)
  BY UpstreamAssumption DEF Heirs

\* A lost call happened at the server or did not happen at all.
LEMMA LostCallsAreAuthSteps ==
  ASSUME NEW c \in Clients, ChallengeLost(c) \/ AnswerLost(c)
  PROVE  ClientStep(c) \/ UNCHANGED authVars
  BY TasksAreClients DEF ChallengeLost, AnswerLost, ClientStep

\* A step of the session is a call of its client or nothing to the server;
LEMMA SessionStepsAreAuthSteps ==
  ASSUME SessionStep \/ SessionCallLost \/ StreamEnds
  PROVE  ClientStep(Session) \/ UNCHANGED authVars
<1>1. CASE SessionChallenge
  BY <1>1 DEF SessionChallenge, ClientStep
<1>2. CASE \E l \in Loops : SessionTokens(l)
  BY <1>2, TasksAreClients DEF SessionTokens, ClientStep
<1>3. CASE SessionRefused
  BY <1>3 DEF SessionRefused, ChallengeRefused, ClientStep
<1>4. CASE SessionCallLost
  BY <1>4, TasksAreClients, LostCallsAreAuthSteps DEF SessionCallLost
<1>5. CASE \/ Wake \/ Connect \/ SubscribeRefused \/ StreamErrs \/ FetchInfo \/ StreamEnds
           \/ Subscribe("bundles", "packets") \/ Subscribe("packets", "stream")
  BY <1>5 DEF Wake, Connect, SubscribeRefused, StreamErrs, FetchInfo, StreamEnds, Subscribe
<1> QED
  BY <1>1, <1>2, <1>3, <1>4, <1>5 DEF SessionStep

\* so is a step of a refresh loop,
LEMMA LoopStepsAreAuthSteps ==
  ASSUME NEW l \in Loops, LoopStep(l) \/ LoopCallLost(l) \/ RefreshFails(l)
  PROVE  ClientStep(l) \/ UNCHANGED authVars
<1>1. CASE Refreshed(l)
  BY <1>1 DEF Refreshed, TokenKinds, ClientStep
<1>2. CASE LoopChallenge(l)
  BY <1>2 DEF LoopChallenge, ClientStep
<1>3. CASE LoopTokens(l)
  BY <1>3, TasksAreClients DEF LoopTokens, ClientStep
<1>4. CASE LoopRefused(l)
  BY <1>4 DEF LoopRefused, ChallengeRefused, ClientStep
<1>5. CASE LoopCallLost(l)
  BY <1>5, TasksAreClients, LostCallsAreAuthSteps DEF LoopCallLost
<1>6. CASE LoopWakes(l) \/ RefreshFails(l) \/ LoopRetries(l)
  BY <1>6 DEF LoopWakes, RefreshFails, LoopRetries
<1> QED
  BY <1>1, <1>2, <1>3, <1>4, <1>5, <1>6 DEF LoopStep

\* and a step of a peer is a call.
LEMMA PeerStepsAreAuthSteps ==
  ASSUME NEW p \in Peers, PeerStep(p)
  PROVE  ClientStep(p)
  BY TasksAreClients DEF PeerStep, ClientStep

\* Every step of Upstream is a step of the auth service or leaves it alone.
LEMMA StepsAreAuthSteps == [Next]_vars => [AuthNext]_authVars
<1> SUFFICES ASSUME [Next]_vars PROVE [AuthNext]_authVars
  OBVIOUS
<1>1. CASE SessionStep \/ SessionCallLost \/ StreamEnds
  BY <1>1, SessionStepsAreAuthSteps, TasksAreClients DEF AuthNext
<1>2. ASSUME NEW l \in Loops, LoopStep(l) \/ LoopCallLost(l) \/ RefreshFails(l)
      PROVE  [AuthNext]_authVars
  BY <1>2, LoopStepsAreAuthSteps, TasksAreClients DEF AuthNext
<1>3. CASE Prune \/ \E p \in Peers : PeerStep(p)
  BY <1>3, PeerStepsAreAuthSteps, TasksAreClients DEF AuthNext
<1>4. CASE Elapse \/ ServerRestarts
  BY <1>4 DEF Elapse, ServerRestarts, AuthNext
<1>5. CASE UNCHANGED vars
  BY <1>5 DEF vars
<1> QED
  BY <1>1, <1>2, <1>3, <1>4, <1>5 DEF Next, Environment

\* The session task, the refresh loops and their faults only ever do what the
\* auth service allows a client: every behaviour of the composition is one of
\* the auth service.
THEOREM UpstreamImplementsAuth == Spec => AuthSpec
<1>1. Init => AuthInit
  BY DEF Init
<1> QED
  BY <1>1, StepsAreAuthSteps, PTL DEF Spec, AuthSpec

\* So the upstream's own handshakes, although they meet in one slot, earn the
\* tokens they end with, never spend a challenge twice, and fail only when
\* disturbed.
THEOREM UpstreamHandshakes == Spec => [](TokensEarned /\ SingleUse /\ LoneHandshakeSucceeds)
  BY UpstreamImplementsAuth, TokensAreEarned, ChallengesAreSingleUse, LoneHandshakesSucceed, PTL

-----------------------------------------------------------------------------
(* Type correctness of the tasks *)

Points == {"connect", "challenge", "answer", "info", "bundles", "packets", "stream",
           "broken", "sleep"}
LoopPoints == {"off", "sleep", "refresh", "challenge", "answer", "retry"}

TasksOK ==
  /\ spc \in Points /\ backoff \in Initial .. Max /\ manager \in Loops \cup {NoClient}
  /\ lpc \in [Loops -> LoopPoints]
  /\ late \subseteq Clients /\ stumbled \subseteq Loops /\ faults \in 0 .. MaxFaults

\* Doubling the backoff stays within its limits.
LEMMA DoubledInRange == \A b \in Initial .. Max : Doubled(b) \in Initial .. Max
  BY UpstreamAssumption, SMTT(30) DEF Doubled

\* The faults are counted up to their bound.
LEMMA FaultInRange ==
  ASSUME TasksOK, Fault \/ NoFault
  PROVE  faults' \in 0 .. MaxFaults
  BY UpstreamAssumption, SMTT(30) DEF TasksOK, Fault, NoFault

\* The session's steps keep its control point, backoff and manager well typed;
LEMMA SessionKeepsTypes ==
  ASSUME TasksOK, SessionStep \/ SessionCallLost \/ StreamEnds
  PROVE  TasksOK'
<1>0. faults' \in 0 .. MaxFaults
  BY FaultInRange DEF SessionStep, Wake, Connect, SessionChallenge, SessionTokens,
     SessionRefused, SubscribeRefused, StreamErrs, FetchInfo, Subscribe, SessionCallLost,
     StreamEnds, NoFault
<1>1. ASSUME NEW p, NEW q \in Points, Calling(p, q), backoff' = backoff, manager' = manager
      PROVE  TasksOK'
  BY <1>0, <1>1 DEF TasksOK, Calling
<1>2. ASSUME SessionErr \/ SessionOk PROVE TasksOK'
  <2>1. backoff' \in Initial .. Max
    BY <1>2, UpstreamAssumption, SMTT(30) DEF SessionErr, SessionOk, SessionEnds, TasksOK
  <2> QED
    BY <1>0, <1>2, <2>1 DEF SessionErr, SessionOk, SessionEnds, TasksOK, Points
<1>3. CASE Wake
  BY <1>0, <1>3, DoubledInRange DEF Wake, TasksOK, Points
<1>4. ASSUME NEW l \in Loops, SessionTokens(l) PROVE TasksOK'
  BY <1>0, <1>4 DEF SessionTokens, TasksOK, Points, LoopPoints
<1>5. CASE Connect \/ SessionChallenge \/ FetchInfo \/ Subscribe("bundles", "packets")
           \/ Subscribe("packets", "stream")
  BY <1>1, <1>5 DEF Connect, SessionChallenge, FetchInfo, Subscribe, Points
<1>6. CASE SessionRefused \/ SubscribeRefused \/ StreamErrs \/ SessionCallLost \/ StreamEnds
  BY <1>2, <1>6 DEF SessionRefused, SubscribeRefused, StreamErrs, SessionCallLost, StreamEnds
<1> QED
  BY <1>3, <1>4, <1>5, <1>6 DEF SessionStep

\* so do the steps of a refresh loop,
LEMMA LoopKeepsTypes ==
  ASSUME TasksOK, NEW l \in Loops, LoopStep(l) \/ LoopCallLost(l) \/ RefreshFails(l)
  PROVE  TasksOK'
<1>0. faults' \in 0 .. MaxFaults
  BY FaultInRange DEF LoopStep, LoopCallLost, LoopWakes, Refreshed, RefreshFails, LoopChallenge,
     LoopTokens, LoopRefused, LoopRetries, NoFault
<1>1. \E q \in LoopPoints : \E p : LoopGoes(l, p, q)
  BY DEF LoopStep, LoopCallLost, LoopWakes, Refreshed, RefreshFails, LoopChallenge,
     LoopTokens, LoopRefused, LoopRetries, LoopPoints
<1>2. stumbled' \subseteq Loops
  BY DEF TasksOK, LoopStep, LoopCallLost, LoopWakes, Refreshed, RefreshFails, LoopChallenge,
     LoopTokens, LoopRefused, LoopRetries
<1> QED
  BY <1>0, <1>1, <1>2 DEF TasksOK, LoopGoes

\* and every other step.
LEMMA TasksInductive == TasksOK /\ [Next]_vars => TasksOK'
<1> SUFFICES ASSUME TasksOK, [Next]_vars PROVE TasksOK'
  OBVIOUS
<1>1. CASE SessionStep \/ SessionCallLost \/ StreamEnds
  BY <1>1, SessionKeepsTypes
<1>2. ASSUME NEW l \in Loops, LoopStep(l) \/ LoopCallLost(l) \/ RefreshFails(l)
      PROVE  TasksOK'
  BY <1>2, LoopKeepsTypes
<1>3. CASE UNCHANGED <<taskVars, late, faults>>
  BY <1>3 DEF taskVars, TasksOK
<1>4. CASE Elapse
  <2>1. InCall \subseteq Clients
    BY TasksAreClients DEF InCall
  <2> QED
    BY <1>4, <2>1 DEF Elapse, taskVars, TasksOK
<1>5. CASE ServerRestarts
  BY <1>5, FaultInRange DEF ServerRestarts, TasksOK, Points
<1>6. CASE UNCHANGED vars
  BY <1>3, <1>6 DEF vars
<1> QED
  BY <1>1, <1>2, <1>3, <1>4, <1>5, <1>6 DEF Next, Environment

\* The tasks and the service keep their types; the backoff stays between its
\* initial and its largest value.
THEOREM UpstreamTypesHold == Spec => []TypeOK
<1>1. Init => TasksOK
  BY UpstreamAssumption, SMTT(30) DEF Init, TasksOK, Points, LoopPoints
<1>2. AuthTypeOK /\ TasksOK => TypeOK
  BY DEF TypeOK, TasksOK, Points, LoopPoints
<1>3. Spec => []TasksOK
  BY <1>1, TasksInductive, PTL DEF Spec
<1> QED
  BY <1>2, <1>3, UpstreamImplementsAuth, AuthTypesHold, PTL

-----------------------------------------------------------------------------
(* Tokens are refreshed in time *)

\* The least time an access token has left at a control point: each call of the
\* loop may have taken a tick, the present one if the loop is late.
Least(l) ==
  LET slack == IF l \in late THEN 1 ELSE 0
  IN  CASE lpc[l] = "refresh"   -> Margin - slack
        [] lpc[l] = "challenge" -> Margin - 1 - slack
        [] lpc[l] = "answer"    -> Margin - 2 - slack
        [] OTHER                -> Margin

\* Every loop whose handshakes have not failed is ahead of its token's expiry;
\* one that waits to retry has failed, one not started has no token.
Timely(l) ==
  /\ l \notin stumbled => \A t \in tokens[l] : t.access >= Least(l)
  /\ lpc[l] = "retry" => l \in stumbled
  /\ lpc[l] = "off" => tokens[l] = {}

AllTimely == \A l \in Loops : Timely(l)

\* A step of something else: the loop keeps its place, and its token the time it
\* has left.
Apart(l) ==
  /\ \A u \in tokens'[l] : \E t \in tokens[l] : u.access = t.access
  /\ lpc'[l] = lpc[l] /\ (l \in late' <=> l \in late) /\ (l \in stumbled' <=> l \in stumbled)

\* The margin has room for the three calls a refresh may take.
LEMMA LeastIsInt == ASSUME NEW l \in Loops PROVE Least(l) \in Int /\ Least(l) >= 0 /\ Least(l) <= Margin
  BY UpstreamAssumption, SMTT(30) DEF Least

\* A step of something else leaves a loop ahead of its token's expiry.
LEMMA ApartTimely ==
  ASSUME NEW l \in Loops, Timely(l), Apart(l)
  PROVE  Timely(l)'
<1>1. Least(l)' = Least(l)
  BY DEF Apart, Least
<1>2. lpc[l] = "off" => tokens'[l] = {}
  BY DEF Apart, Timely
<1> QED
  BY <1>1, <1>2 DEF Apart, Timely

\* A step that leaves a loop's place and tokens alone is one of something
\* else.
LEMMA SameTokensApart ==
  ASSUME NEW l \in Loops, tokens'[l] = tokens[l], lpc'[l] = lpc[l],
         late' \cup {Session} = late \cup {Session}, stumbled' = stumbled
  PROVE  Apart(l)
  BY UpstreamAssumption, SMTT(30) DEF Apart

\* The client a handshake is made for gets a pair with its whole time left.
LEMMA HolderGetsPair ==
  ASSUME NEW c, NEW h \in Clients, NEW again, GenerateAuthTokens(c, h, again)
  PROVE  \A t \in tokens'[h] : t.access = AccessTtl
<1>1. PICK e : tokens' = [d \in Clients |-> IF d = h THEN {IssuePair(c, e)} ELSE tokens[d]]
  BY DEF GenerateAuthTokens
<1>2. tokens'[h] = {IssuePair(c, e)}
  BY <1>1
<1>3. IssuePair(c, e).access = AccessTtl
  BY DEF IssuePair
<1> QED BY <1>2, <1>3

\* The session's steps leave every loop timely, the one it starts included.
LEMMA SessionApart ==
  ASSUME AuthTypeOK, TasksOK, AllTimely, NEW l \in Loops,
         SessionStep \/ SessionCallLost \/ StreamEnds
  PROVE  Timely(l)'
<1>1. ASSUME SessionTokens(l) PROVE Timely(l)'
  <2>1. \A t \in tokens'[l] : t.access = AccessTtl
    BY <1>1, TasksAreClients, HolderGetsPair DEF SessionTokens
  <2>2. lpc'[l] = "sleep"
    BY <1>1 DEF SessionTokens, TasksOK
  <2>3. Least(l)' = Margin
    BY <2>2 DEF Least
  <2> QED
    BY <2>1, <2>2, <2>3, UpstreamAssumption, AuthAssumption, SMTT(30) DEF Timely
<1>2. ASSUME tokens'[l] = tokens[l], lpc'[l] = lpc[l],
             late' \cup {Session} = late \cup {Session}, stumbled' = stumbled
      PROVE  Timely(l)'
  BY <1>2, SameTokensApart, ApartTimely DEF AllTimely
<1>3. ASSUME NEW m \in Loops, SessionTokens(m), m # l PROVE Timely(l)'
  <2>1. tokens'[l] = tokens[l]
    BY <1>3, TasksAreClients DEF SessionTokens, GenerateAuthTokens
  <2>2. lpc'[l] = lpc[l] /\ late' \cup {Session} = late \cup {Session} /\ stumbled' = stumbled
    BY <1>3 DEF SessionTokens, TasksOK
  <2> QED
    BY <1>2, <2>1, <2>2
<1>4. CASE Wake
  BY <1>2, <1>4 DEF Wake, authVars
<1>5. CASE Connect \/ SessionChallenge \/ FetchInfo \/ Subscribe("bundles", "packets")
           \/ Subscribe("packets", "stream")
  <2>1. tokens' = tokens
    BY <1>5 DEF Connect, SessionChallenge, FetchInfo, Subscribe, authVars, GenerateAuthChallenge
  <2>2. lpc' = lpc /\ late' \cup {Session} = late \cup {Session} /\ stumbled' = stumbled
    BY <1>5 DEF Connect, SessionChallenge, FetchInfo, Subscribe, Calling
  <2> QED
    BY <1>2, <2>1, <2>2
<1>6. CASE SessionRefused \/ SubscribeRefused \/ StreamErrs \/ SessionCallLost \/ StreamEnds
  <2>1. tokens'[l] = tokens[l]
    <3>1. CASE SessionCallLost
      BY <3>1, TasksAreClients, AuthAssumption, UpstreamAssumption, ZenonT(30)
        DEF SessionCallLost, ChallengeLost, AnswerLost,
         GenerateAuthTokens, GenerateAuthChallenge, GiveUp, authVars, AuthTypeOK
    <3>2. CASE SessionRefused \/ SubscribeRefused \/ StreamErrs \/ StreamEnds
      BY <3>2 DEF SessionRefused, SubscribeRefused, StreamErrs, StreamEnds, ChallengeRefused, TokensRefused, authVars
    <3> QED
      BY <1>6, <3>1, <3>2
  <2>2. lpc' = lpc /\ late' \cup {Session} = late \cup {Session} /\ stumbled' = stumbled
    BY <1>6 DEF SessionRefused, SubscribeRefused, StreamErrs, StreamEnds, SessionCallLost,
       SessionErr, SessionOk, SessionEnds
  <2> QED
    BY <1>2, <2>1, <2>2
<1> QED
  BY <1>1, <1>3, <1>4, <1>5, <1>6 DEF SessionStep

\* What a step of loop m does to the rest.
LEMMA LoopTouchesItself ==
  ASSUME AuthTypeOK, TasksOK, NEW m \in Loops,
         LoopStep(m) \/ LoopCallLost(m) \/ RefreshFails(m), NEW l \in Loops \ {m}
  PROVE  Apart(l)
<1>1. tokens'[l] = tokens[l]
  <2>1. CASE LoopTokens(m)
    BY <2>1, TasksAreClients DEF LoopTokens, GenerateAuthTokens
  <2>2. CASE Refreshed(m)
    BY <2>2, TasksAreClients DEF Refreshed, RefreshAccessToken, AuthTypeOK
  <2>3. CASE LoopCallLost(m)
    BY <2>3, TasksAreClients, AuthAssumption DEF LoopCallLost, ChallengeLost, AnswerLost,
       GenerateAuthTokens, GenerateAuthChallenge, GiveUp, authVars, AuthTypeOK
  <2>4. CASE LoopWakes(m) \/ RefreshFails(m) \/ LoopRetries(m) \/ LoopChallenge(m) \/ LoopRefused(m)
    BY ONLY <2>4, Zenon DEF LoopWakes, RefreshFails, LoopRetries, LoopChallenge, LoopRefused,
       TokensRefused, ChallengeRefused, GenerateAuthChallenge, authVars
  <2> QED
    BY <2>1, <2>2, <2>3, <2>4 DEF LoopStep
<1>2. \E p, q : LoopGoes(m, p, q)
  BY DEF LoopStep, LoopCallLost, LoopWakes, Refreshed, RefreshFails, LoopChallenge,
     LoopTokens, LoopRefused, LoopRetries
<1>3. l \in stumbled' <=> l \in stumbled
  BY DEF LoopStep, LoopCallLost, LoopWakes, Refreshed, RefreshFails, LoopChallenge,
     LoopTokens, LoopRefused, LoopRetries
<1> QED
  BY <1>1, <1>2, <1>3 DEF Apart, LoopGoes, TasksOK

\* A loop's own step leaves it timely: a call costs it at most one tick.
LEMMA LoopTimely ==
  ASSUME AuthTypeOK, TasksOK, NEW l \in Loops, Timely(l),
         LoopStep(l) \/ LoopCallLost(l) \/ RefreshFails(l)
  PROVE  Timely(l)'
<1> USE UpstreamAssumption
<1>0. \A t \in tokens[l] : t.access \in Int
  BY TasksAreClients, AuthAssumption, SMTT(30) DEF AuthTypeOK, Pair, Gone
<1>1. ASSUME \A t \in tokens'[l] : t.access = AccessTtl, lpc'[l] = "sleep" PROVE Timely(l)'
  <2>1. Least(l)' = Margin
    BY <1>1 DEF Least
  <2> QED
    BY <1>1, <2>1, AuthAssumption, SMTT(30) DEF Timely
<1>2. CASE LoopTokens(l)
  <2>1. \A t \in tokens'[l] : t.access = AccessTtl
    BY <1>2, TasksAreClients, HolderGetsPair DEF LoopTokens
  <2>2. lpc'[l] = "sleep"
    BY <1>2 DEF LoopTokens, LoopGoes, TasksOK
  <2> QED
    BY <1>1, <2>1, <2>2
<1>3. CASE Refreshed(l)
  <2>1. PICK t \in tokens[l] : tokens' = [tokens EXCEPT ![l] = {[t EXCEPT !.access = AccessTtl]}]
    BY <1>3 DEF Refreshed, RefreshAccessToken
  <2>2. t \in Pair /\ tokens'[l] = {[t EXCEPT !.access = AccessTtl]}
    BY <2>1, TasksAreClients DEF AuthTypeOK
  <2>3. [t EXCEPT !.access = AccessTtl].access = AccessTtl
    BY <2>2 DEF Pair
  <2>4. lpc'[l] = "sleep"
    BY <1>3 DEF Refreshed, LoopGoes, TasksOK
  <2> QED
    BY <1>1, <2>2, <2>3, <2>4
<1>4. ASSUME tokens'[l] = tokens[l], l \notin late', l \in stumbled' <=> l \in stumbled,
             \/ lpc[l] = "sleep" /\ lpc'[l] \in {"refresh", "challenge"}
             \/ lpc[l] = "refresh" /\ lpc'[l] = "challenge"
             \/ lpc[l] = "challenge" /\ lpc'[l] = "answer"
             \/ lpc[l] = "retry" /\ lpc'[l] = "challenge"
      PROVE  Timely(l)'
  <2>1. CASE lpc[l] = "retry"
    BY <1>4, <2>1 DEF Timely
  <2>2. CASE lpc[l] # "retry"
    <3>1. Least(l)' <= Least(l)
      BY <1>4, <2>2, SMTT(30) DEF Least
    <3>2. Least(l) \in Int /\ Least(l)' \in Int
      BY SMTT(30) DEF Least
    <3> QED
      BY <1>0, <1>4, <2>2, <3>1, <3>2, SMTT(30) DEF Timely
  <2> QED
    BY <2>1, <2>2
<1>5. CASE LoopWakes(l) \/ RefreshFails(l) \/ LoopChallenge(l) \/ LoopRetries(l)
  <2>1. tokens'[l] = tokens[l]
    BY <1>5 DEF LoopWakes, RefreshFails, LoopChallenge, LoopRetries, GenerateAuthChallenge, authVars
  <2>2. l \notin late' /\ (l \in stumbled' <=> l \in stumbled)
    BY <1>5 DEF LoopWakes, RefreshFails, LoopChallenge, LoopRetries, LoopGoes
  <2>3. \/ lpc[l] = "sleep" /\ lpc'[l] \in {"refresh", "challenge"}
        \/ lpc[l] = "refresh" /\ lpc'[l] = "challenge"
        \/ lpc[l] = "challenge" /\ lpc'[l] = "answer"
        \/ lpc[l] = "retry" /\ lpc'[l] = "challenge"
    BY <1>5 DEF LoopWakes, RefreshFails, LoopChallenge, LoopRetries, LoopGoes, TasksOK
  <2> QED
    BY <1>4, <2>1, <2>2, <2>3
<1>6. CASE LoopRefused(l) \/ LoopCallLost(l)
  BY <1>6 DEF LoopRefused, LoopCallLost, LoopGoes, TasksOK, Timely
<1> QED
  BY <1>2, <1>3, <1>5, <1>6 DEF LoopStep

\* A tick leaves it timely, since no call is late twice.
LEMMA ElapseTimely ==
  ASSUME AuthTypeOK, TasksOK, NEW l \in Loops, Timely(l), Elapse
  PROVE  Timely(l)'
<1> USE UpstreamAssumption
<1>0. Age
  BY DEF Elapse
<1>1. /\ lpc' = lpc /\ stumbled' = stumbled /\ late = {} /\ late' = InCall
      /\ tokens'[l] = {OlderPair(t) : t \in tokens[l]}
  <2>1. lpc' = lpc /\ stumbled' = stumbled /\ late = {} /\ late' = InCall
    BY DEF Elapse, taskVars
  <2> QED
    BY <1>0, <2>1, AgeMeans, TasksAreClients
<1>2. ASSUME NEW t \in tokens[l], l \notin stumbled
      PROVE  OlderPair(t).access >= Least(l)'
  <2>1. t \in Pair /\ t.access \in Int /\ OlderPair(t).access = Less(t.access, Gone)
    <3>1. t \in Pair
      BY TasksAreClients DEF AuthTypeOK
    <3>2. t.access \in Gone .. AccessTtl
      BY <3>1 DEF Pair
    <3>3. Gone \in Int
      BY ONLY AuthAssumption, SMTT(30) DEF Gone
    <3>4. t.access \in Int
      BY ONLY <3>2, <3>3, AuthAssumption, SMTT(30)
    <3> QED BY <3>1, <3>4, OlderFields
  <2>2. OlderPair(t).access \in Int /\ OlderPair(t).access >= t.access - 1
    <3>1. Gone \in Int
      BY ONLY AuthAssumption, SMTT(30) DEF Gone
    <3>2. Less(t.access, Gone) = t.access - 1 \/ Less(t.access, Gone) = t.access
      BY DEF Less
    <3> QED BY ONLY <2>1, <3>1, <3>2, SMTT(30)
  <2>3. CASE lpc[l] \in {"refresh", "challenge", "answer"}
    <3>1. Least(l)' = Least(l) - 1
      BY <1>1, <2>3, SMTT(30) DEF Least, InCall
    <3>2. Least(l) \in Int
      BY LeastIsInt
    <3> QED
      BY <1>2, <2>1, <2>2, <3>1, <3>2, SMTT(30) DEF Timely
  <2>4. CASE lpc[l] = "sleep"
    <3>1. \E u \in tokens[l] : ~(u.access <= Margin)
      BY <2>4 DEF Elapse, Due
    <3>2. ~(t.access <= Margin)
      BY <3>1, TasksAreClients DEF AuthTypeOK
    <3>3. Least(l)' = Margin
      BY <1>1, <2>4 DEF Least
    <3> QED
      BY ONLY <2>1, <2>2, <3>2, <3>3, UpstreamAssumption, SMTT(30)
  <2>5. CASE lpc[l] \in {"off", "retry"}
    BY <1>2, <2>5 DEF Timely
  <2> QED
    BY <2>3, <2>4, <2>5 DEF TasksOK, LoopPoints
<1> QED
  BY <1>1, <1>2 DEF Timely

\* Every step leaves every loop timely.
LEMMA TimelyInductive == AuthTypeOK /\ TasksOK /\ AllTimely /\ [Next]_vars => AllTimely'
<1> SUFFICES ASSUME AuthTypeOK, TasksOK, AllTimely, [Next]_vars, NEW l \in Loops
             PROVE  Timely(l)'
  BY DEF AllTimely
<1>0. Timely(l)
  BY DEF AllTimely
<1>1. CASE SessionStep \/ SessionCallLost \/ StreamEnds
  BY <1>1, SessionApart
<1>2. ASSUME NEW m \in Loops, LoopStep(m) \/ LoopCallLost(m) \/ RefreshFails(m)
      PROVE  Timely(l)'
  BY <1>0, <1>2, LoopTouchesItself, LoopTimely, ApartTimely
<1>3. CASE Elapse
  BY <1>0, <1>3, ElapseTimely
<1>4. ASSUME UNCHANGED <<taskVars, late, faults>>, tokens'[l] = tokens[l] PROVE Timely(l)'
  BY <1>0, <1>4, SameTokensApart, ApartTimely DEF taskVars
<1>5. ASSUME NEW p \in Peers, PeerStep(p) PROVE tokens'[l] = tokens[l]
  <2>1. l \in Clients /\ p \in Clients /\ l # p /\ l # NoClient
    BY TasksAreClients, AuthAssumption, UpstreamAssumption
  <2>2. CASE GenerateAuthChallenge(p, TRUE) \/ TokensRefused(p)
    BY <2>2 DEF GenerateAuthChallenge, TokensRefused
  <2>3. ASSUME NEW again \in BOOLEAN, GenerateAuthTokens(p, NoClient, again)
        PROVE  tokens'[l] = tokens[l]
    BY <2>1, <2>3 DEF GenerateAuthTokens
  <2>4. CASE GiveUp(p, {})
    <3>1. tokens' = [tokens EXCEPT ![p] = {}]
      BY <2>4 DEF GiveUp
    <3> QED BY <2>1, <3>1, TokensOfClient
  <2> QED BY <1>5, <2>2, <2>3, <2>4 DEF PeerStep
<1>6. ASSUME Prune PROVE tokens'[l] = tokens[l]
  BY <1>6 DEF Prune
<1>7. CASE ServerRestarts
  <2>1. PICK redrawn \in BOOLEAN : Restart(redrawn)
    BY <1>7 DEF ServerRestarts
  <2>2. tokens'[l] = {[t EXCEPT !.signed = @ /\ ~redrawn] : t \in tokens[l]}
    BY <2>1, TasksAreClients DEF Restart
  <2>3. \A t \in tokens[l] : [t EXCEPT !.signed = @ /\ ~redrawn].access = t.access
    BY TasksAreClients, SMTT(30) DEF AuthTypeOK, Pair
  <2>4. Apart(l)
    BY <1>7, <2>2, <2>3 DEF ServerRestarts, Apart
  <2> QED
    BY <1>0, <2>4, ApartTimely
<1>8. CASE UNCHANGED vars
  BY <1>4, <1>8 DEF vars, authVars
<1> QED
  BY <1>1, <1>2, <1>3, <1>4, <1>5, <1>6, <1>7, <1>8 DEF Next, Environment

\* Each manager's access token is refreshed before it expires unless a handshake
\* of its loop fails: REFRESH_MARGIN covers the failed refresh and the two calls
\* of the handshake after it, whatever the lifetimes and however many loops of
\* earlier sessions compete for the slot.
THEOREM TokensStayFresh == Spec => []TokenFresh
<1>1. Init => AllTimely /\ TasksOK
  <2> SUFFICES ASSUME Init PROVE AllTimely /\ TasksOK
    OBVIOUS
  <2>1. AllTimely
    BY TasksAreClients DEF Init, AuthInit, AllTimely, Timely
  <2>2. backoff \in Initial .. Max /\ faults \in 0 .. MaxFaults
    BY UpstreamAssumption, SMTT(30) DEF Init
  <2> QED BY <2>1, <2>2 DEF Init, TasksOK, Points, LoopPoints
<1>2. Spec => []TasksOK
  BY <1>1, TasksInductive, PTL DEF Spec
<1>3. Spec => []AllTimely
  BY <1>1, <1>2, UpstreamImplementsAuth, AuthTypesHold, TimelyInductive, PTL DEF Spec
<1>4. AuthTypeOK /\ AllTimely => TokenFresh
  <2> SUFFICES ASSUME AuthTypeOK, AllTimely, NEW l \in Loops \ stumbled, NEW t \in tokens[l]
               PROVE  t.access >= 0
    BY DEF TokenFresh
  <2>1. t.access \in Int
    BY TasksAreClients, AuthAssumption, SMTT(30) DEF AuthTypeOK, Pair, Gone
  <2> QED
    BY <2>1, LeastIsInt, SMTT(30) DEF AllTimely, Timely
<1> QED
  BY <1>3, <1>4, UpstreamImplementsAuth, AuthTypesHold, PTL
=============================================================================
