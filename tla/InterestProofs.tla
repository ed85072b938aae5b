--------------------------- MODULE InterestProofs ---------------------------
(***************************************************************************)
(* What is of interest is what was referred to within the TTL, up to the   *)
(* lag of a clock reading, for any number of keys, messages, requests and  *)
(* streams.                                                                *)
(***************************************************************************)
EXTENDS Interest, SequenceTheorems, TLAPS

\* Zenon unless a leaf names another prover: SMT for arithmetic, PTL for temporal logic.
USE Zenon

\* The index test, with its saturating subtractions, picks out the listed accounts
\* that the message writes to, whatever the header says.
LEMMA WritableExact ==
  ASSUME NEW m \in Message, NEW i \in DOMAIN m.keys
  PROVE  is_writable_static(i - 1, Len(m.keys), m.signed, m.ro_signed, m.ro_unsigned)
           <=> i \in Writes(m)
<1>1. PICK n, w, s, r, u :
        n = Len(m.keys) /\ w = Len(m.loaded) /\ s = m.signed /\ r = m.ro_signed
        /\ u = m.ro_unsigned
  OBVIOUS
<1>2. /\ n \in Nat /\ w \in Nat /\ s \in Nat /\ r \in Nat /\ u \in Nat
      /\ i \in 1 .. n
  BY <1>1, LenProperties DEF Message
<1>3. is_writable_static(i - 1, n, s, r, u)
        <=> i \in (1 .. (s - r)) \cup ((s + 1) .. (n - u)) \cup ((n + 1) .. (n + w))
  BY ONLY <1>2, SMTT(30) DEF is_writable_static, Monus
<1> QED BY <1>1, <1>3 DEF Writes

\* observe_bundle records exactly what the bundle refers to among the keys its
\* messages list.
LEMMA RecordsReferences ==
  ASSUME NEW kind, NEW b
  PROVE  ToRecord(kind, b) = References(kind, b)
<1>1. ASSUME NEW m \in Decoded(b)
      PROVE  (IF kind = "accounts" THEN WritableKeys(m) ELSE InvokedPrograms(m)) = Named(kind, m)
  <2>1. m \in Message
    BY InterestAssumption DEF Decoded
  <2>2. WritableKeys(m) = {m.keys[i] : i \in Writes(m) \cap DOMAIN m.keys}
    BY <2>1, WritableExact DEF WritableKeys
  <2>3. /\ m.invokes \subseteq Nat /\ DOMAIN m.keys = 1 .. Len(m.keys)
        /\ Len(m.keys) \in Nat
    BY <2>1, LenProperties DEF Message
  <2>4. ASSUME NEW j \in m.invokes PROVE j < Len(m.keys) <=> j + 1 \in DOMAIN m.keys
    BY <2>3, SMTT(30)
  <2>5. InvokedPrograms(m) = {m.keys[i] : i \in Invokes(m) \cap DOMAIN m.keys}
    BY <2>4 DEF InvokedPrograms, Invokes
  <2>6. CASE kind = "accounts"
    BY <2>2, <2>6 DEF Named, Positions
  <2>7. CASE kind # "accounts"
    BY <2>5, <2>7 DEF Named, Positions
  <2> QED BY <2>6, <2>7
<1> QED BY <1>1 DEF ToRecord, References

\* A bundle refers to keys.
LEMMA ReferencesTyped ==
  ASSUME NEW kind, NEW b
  PROVE  References(kind, b) \subseteq Keys
<1>1. ASSUME NEW m \in Decoded(b), NEW i \in DOMAIN m.keys PROVE m.keys[i] \in Keys
  <2>1. m.keys \in Seq(Keys)
    BY InterestAssumption DEF Decoded, Message
  <2>2. i \in 1 .. Len(m.keys)
    BY <2>1, LenProperties
  <2> QED BY <2>1, <2>2, ElementOfSeq
<1>2. \A m \in Decoded(b) : Named(kind, m) \subseteq Keys
  BY <1>1, SMTT(30) DEF Named
<1> QED BY <1>2 DEF References

-----------------------------------------------------------------------------
\* The registry keeps up with the history: an entry is as old as the newest
\* reference or older, by no more than a clock reading may lag; and what it has
\* swept was too old even so.
InSync(map, hist) ==
  /\ DOMAIN map \subseteq DOMAIN hist
  /\ \A k \in DOMAIN map : hist[k] <= map[k] /\ map[k] <= hist[k] + MaxLag
  /\ \A k \in DOMAIN hist \ DOMAIN map : hist[k] + MaxLag >= Ttl

\* A map is a function from some of the keys to ages.
LEMMA MapElements ==
  ASSUME NEW f \in Map
  PROVE  /\ DOMAIN f \subseteq Keys /\ f = [k \in DOMAIN f |-> f[k]]
         /\ \A k \in DOMAIN f : f[k] \in 0 .. Old
BY DEF Map

\* A function on some keys to ages is a map of the registry.
LEMMA MapIntro ==
  ASSUME NEW K \in SUBSET Keys, NEW f \in [K -> 0 .. Old]
  PROVE  f \in Map
BY DEF Map

\* What the operations do to a map, and to its agreement with the history.
LEMMA InsertKeeps ==
  ASSUME NEW f \in Map, NEW g \in Map, NEW K \in SUBSET Keys, NEW a \in 0 .. MaxLag
  PROVE  /\ Insert(f, K, a) \in Map
         /\ Newest(g, K, a) \in Map
         /\ InSync(f, g) => InSync(Insert(f, K, a), Newest(g, K, a))
<1>1. a \in 0 .. Old
  BY InterestAssumption, SMTT(30) DEF Old
<1>2. Insert(f, K, a) \in [DOMAIN f \cup K -> 0 .. Old]
  BY <1>1, MapElements DEF Insert
<1>3. DOMAIN f \cup K \in SUBSET Keys
  BY MapElements
<1>4. Insert(f, K, a) \in Map
  BY <1>2, <1>3, MapIntro
<1>5. Newest(g, K, a) \in Map
  <2>1. Newest(g, K, a) \in [DOMAIN g \cup K -> 0 .. Old]
    BY <1>1, MapElements DEF Newest
  <2>2. DOMAIN g \cup K \in SUBSET Keys
    BY MapElements
  <2> QED BY <2>1, <2>2, MapIntro
<1>6. ASSUME InSync(f, g) PROVE InSync(Insert(f, K, a), Newest(g, K, a))
  <2>0. MaxLag \in Nat /\ a \in 0 .. MaxLag /\ Ttl \in Nat
    BY InterestAssumption, SMTT(30)
  <2>1. /\ DOMAIN Insert(f, K, a) = DOMAIN f \cup K
        /\ DOMAIN Newest(g, K, a) = DOMAIN g \cup K
    BY DEF Insert, Newest
  <2>2. DOMAIN f \subseteq DOMAIN g
    BY <1>6 DEF InSync
  <2>3. ASSUME NEW k \in K
        PROVE  /\ Newest(g, K, a)[k] <= Insert(f, K, a)[k]
               /\ Insert(f, K, a)[k] <= Newest(g, K, a)[k] + MaxLag
    <3>1. Insert(f, K, a)[k] = a
      BY DEF Insert
    <3>2. CASE k \in DOMAIN g /\ g[k] < a
      <4>1. Newest(g, K, a)[k] = g[k] /\ g[k] \in Nat
        BY <3>2, MapElements, SMTT(30) DEF Newest
      <4> QED BY ONLY <2>0, <3>1, <3>2, <4>1, SMTT(30)
    <3>3. CASE ~(k \in DOMAIN g /\ g[k] < a)
      <4>1. Newest(g, K, a)[k] = a
        BY <3>3 DEF Newest
      <4> QED BY ONLY <2>0, <3>1, <4>1, SMTT(30)
    <3> QED BY <3>2, <3>3
  <2>4. ASSUME NEW k \in DOMAIN g, k \notin K PROVE Newest(g, K, a)[k] = g[k]
    BY <2>4 DEF Newest
  <2>5. ASSUME NEW k \in DOMAIN f, k \notin K PROVE Insert(f, K, a)[k] = f[k]
    BY <2>5 DEF Insert
  <2>6. ASSUME NEW k \in DOMAIN f \cup K
        PROVE  /\ Newest(g, K, a)[k] <= Insert(f, K, a)[k]
               /\ Insert(f, K, a)[k] <= Newest(g, K, a)[k] + MaxLag
    <3>1. CASE k \in K
      BY <2>3, <3>1
    <3>2. CASE k \notin K
      BY <1>6, <2>2, <2>4, <2>5, <3>2 DEF InSync
    <3> QED BY <3>1, <3>2
  <2>7. ASSUME NEW k \in (DOMAIN g \cup K) \ (DOMAIN f \cup K)
        PROVE  Newest(g, K, a)[k] + MaxLag >= Ttl
    BY <1>6, <2>4 DEF InSync
  <2> QED BY <2>1, <2>2, <2>6, <2>7 DEF InSync
<1> QED BY <1>4, <1>5, <1>6

\* A sweep, by a reading however old, keeps the map in agreement with the
\* history,
LEMMA RetainKeeps ==
  ASSUME NEW f \in Map, NEW g \in Map, NEW l \in 0 .. MaxLag
  PROVE  /\ Retain(f, Fresh(f, l)) \in Map
         /\ InSync(f, g) => InSync(Retain(f, Fresh(f, l)), g)
<1>1. Retain(f, Fresh(f, l)) \in [Fresh(f, l) -> 0 .. Old]
  BY MapElements DEF Retain, Fresh
<1>2. Fresh(f, l) \in SUBSET Keys
  BY MapElements DEF Fresh
<1>3. Retain(f, Fresh(f, l)) \in Map
  BY <1>1, <1>2, MapIntro
<1>4. ASSUME InSync(f, g) PROVE InSync(Retain(f, Fresh(f, l)), g)
  <2>1. ASSUME NEW k \in DOMAIN g, k \notin Fresh(f, l) PROVE g[k] + MaxLag >= Ttl
    <3>1. CASE k \in DOMAIN f
      <4>1. /\ f[k] \in 0 .. Old /\ g[k] \in 0 .. Old /\ ~(f[k] - l < Ttl)
            /\ f[k] <= g[k] + MaxLag
        BY <1>4, <2>1, <3>1, MapElements DEF Fresh, InSync
      <4>2. Old \in Nat /\ Ttl \in Nat /\ l \in Nat /\ MaxLag \in Nat
        BY InterestAssumption, SMTT(30) DEF Old
      <4> QED BY ONLY <4>1, <4>2, SMTT(30)
    <3>2. CASE k \notin DOMAIN f
      BY <1>4, <3>2 DEF InSync
    <3> QED BY <3>1, <3>2
  <2> QED BY <1>4, <2>1 DEF InSync, Retain, Fresh
<1> QED BY <1>3, <1>4

\* and so does the time that passes.
LEMMA OlderKeeps ==
  ASSUME NEW f \in Map, NEW g \in Map
  PROVE  Older(f) \in Map /\ (InSync(f, g) => InSync(Older(f), Older(g)))
<1>1. Older(f) \in [DOMAIN f -> 0 .. Old]
  <2>1. Old \in Nat
    BY InterestAssumption, SMTT(30) DEF Old
  <2> QED BY <2>1, MapElements, SMTT(30) DEF Older
<1>2. Older(f) \in Map
  BY <1>1, MapElements, MapIntro
<1>3. ASSUME InSync(f, g) PROVE InSync(Older(f), Older(g))
  <2>0. Old \in Nat /\ MaxLag \in Nat /\ Ttl \in Nat
    BY InterestAssumption, SMTT(30) DEF Old
  <2>1. /\ DOMAIN Older(f) = DOMAIN f /\ DOMAIN Older(g) = DOMAIN g
        /\ \A k \in DOMAIN f : Older(f)[k] = IF f[k] < Old THEN f[k] + 1 ELSE f[k]
        /\ \A k \in DOMAIN g : Older(g)[k] = IF g[k] < Old THEN g[k] + 1 ELSE g[k]
    BY DEF Older
  <2>2. ASSUME NEW k \in DOMAIN f
        PROVE  Older(g)[k] <= Older(f)[k] /\ Older(f)[k] <= Older(g)[k] + MaxLag
    <3>1. /\ k \in DOMAIN g /\ f[k] \in 0 .. Old /\ g[k] \in 0 .. Old
          /\ g[k] <= f[k] /\ f[k] <= g[k] + MaxLag
      BY <1>3, MapElements DEF InSync
    <3> QED BY ONLY <2>0, <2>1, <3>1, k \in DOMAIN f, SMTT(30)
  <2>3. ASSUME NEW k \in DOMAIN g \ DOMAIN f PROVE Older(g)[k] + MaxLag >= Ttl
    <3>1. g[k] \in 0 .. Old /\ g[k] + MaxLag >= Ttl
      BY <1>3, MapElements DEF InSync
    <3> QED BY ONLY <2>0, <2>1, <3>1, k \in DOMAIN g, SMTT(30)
  <2> QED BY <1>3, <2>1, <2>2, <2>3 DEF InSync
<1> QED BY <1>2, <1>3

-----------------------------------------------------------------------------
\* The registry starts empty and no stream is open.
LEMMA InitTypeOK == Init => TypeOK
<1> SUFFICES ASSUME Init PROVE TypeOK
  OBVIOUS
<1>1. Empty \in Map
  <2>1. Empty \in [{} -> 0 .. Old]
    BY DEF Empty
  <2> QED BY <2>1, MapIntro
<1>2. /\ 0 \in 0 .. MaxLag /\ {} \in Updates /\ <<>> \in Seq(Updates)
      /\ Len(<<>>) = 0 /\ 0 <= Cap
  BY InterestAssumption, EmptySeq, SMTT(30) DEF Updates
<1> QED BY <1>1, <1>2 DEF Init, TypeOK

\* Every step keeps the state well typed.
LEMMA NextTypeOK == TypeOK /\ [Next]_vars => TypeOK'
<1> SUFFICES ASSUME TypeOK, [Next]_vars PROVE TypeOK'
  OBVIOUS
<1>m. 0 \in 0 .. MaxLag /\ MaxLag \in Nat /\ Cap \in Nat
  BY InterestAssumption, SMTT(30)
<1>g. ASSUME NEW t, NEW p \in {"new", "idle", "observe", "accounts", "programs",
                               "tick", "collect", "send", "done"},
             NEW l \in 0 .. MaxLag, Goto(t, p, l)
      PROVE  /\ pc' \in [Tasks -> {"new", "idle", "observe", "accounts", "programs",
                                   "tick", "collect", "send", "done"}]
             /\ lag' \in [Tasks -> 0 .. MaxLag]
  BY <1>g DEF Goto, TypeOK
<1>l. \A t \in Tasks : lag[t] \in 0 .. MaxLag
  BY DEF TypeOK
<1>k. \A kind \in Kinds : registry[kind] \in Map /\ seen[kind] \in Map
  BY DEF TypeOK
<1>1. ASSUME NEW t \in Submitters, NEW b \in Bundles, ObserveBegin(t, b) PROVE TypeOK'
  BY <1>1, <1>g, <1>m DEF ObserveBegin, TypeOK, streamVars
<1>2. ASSUME NEW t \in Submitters, ObserveRecord(t) PROVE TypeOK'
  <2>1. lag[t] \in 0 .. MaxLag
    BY <1>l DEF Tasks
  <2>2. ASSUME NEW kind \in Kinds
        PROVE  /\ Insert(registry[kind], ToRecord(kind, bundle[t]), lag[t]) \in Map
               /\ Newest(seen[kind], References(kind, bundle[t]), lag[t]) \in Map
    BY <1>k, <2>1, RecordsReferences, ReferencesTyped, InsertKeeps
  <2>3. registry' \in [Kinds -> Map] /\ seen' \in [Kinds -> Map]
    BY <1>2, <2>2 DEF ObserveRecord
  <2> QED BY <1>2, <1>g, <1>m, <2>3 DEF ObserveRecord, TypeOK, streamVars
<1>3. CASE PruneBegin
  BY <1>3, <1>g, <1>m DEF PruneBegin, TypeOK, streamVars
<1>4. CASE PruneStep
  <2>1. lag[Sweep] \in 0 .. MaxLag
    BY <1>l DEF Tasks
  <2>2. ASSUME NEW kind \in Kinds, PruneMap(kind) PROVE registry' \in [Kinds -> Map]
    <3>1. Retain(registry[kind], Fresh(registry[kind], lag[Sweep])) \in Map
      BY <1>k, <2>1, RetainKeeps
    <3> QED BY <2>2, <3>1 DEF PruneMap, TypeOK
  <2>3. registry' \in [Kinds -> Map]
    BY <1>4, <2>2 DEF PruneStep, Kinds
  <2> QED BY <1>4, <1>g, <1>m, <2>1, <2>3 DEF PruneStep, TypeOK, streamVars
<1>5. ASSUME NEW st \in Streams, Subscribe(st) PROVE TypeOK'
  BY <1>5, <1>g, <1>m DEF Subscribe, TypeOK
<1>6. ASSUME NEW st \in Streams, Tick(st) PROVE TypeOK'
  BY <1>6, <1>g, <1>m DEF Tick, TypeOK, streamVars
<1>7. ASSUME NEW st \in Streams, Collect(st) PROVE TypeOK'
  <2>1. (IF forward_all THEN {Star} ELSE Fresh(registry[KindOf(st)], lag[st])) \in Updates
    <3>1. KindOf(st) \in Kinds
      BY DEF KindOf, Kinds
    <3> QED BY <1>k, <3>1, MapElements DEF Fresh, Updates
  <2> QED BY <1>7, <1>g, <1>m, <2>1 DEF Collect, TypeOK
<1>8. ASSUME NEW st \in Streams, Send(st) PROVE TypeOK'
  <2>1. /\ Append(queue[st], update[st]) \in Seq(Updates)
        /\ Len(Append(queue[st], update[st])) = Len(queue[st]) + 1
        /\ Len(queue[st]) \in Nat
    BY AppendProperties, LenProperties, SMTT(30) DEF TypeOK
  <2>2. Len(queue[st]) + 1 <= Cap
    BY <1>8, <1>m, <2>1, SMTT(30) DEF Send
  <2>3. {} \in Updates
    BY DEF Updates
  <2> QED BY <1>8, <1>g, <1>m, <2>1, <2>2, <2>3 DEF Send, TypeOK
<1>9. ASSUME NEW st \in Streams, SendFails(st) PROVE TypeOK'
  <2>1. {} \in Updates
    BY DEF Updates
  <2> QED BY <1>9, <1>g, <1>m, <2>1 DEF SendFails, TypeOK
<1>10. ASSUME NEW st \in Streams, Read(st) PROVE TypeOK'
  <2>1. /\ Head(queue[st]) \in Updates /\ Tail(queue[st]) \in Seq(Updates)
        /\ Len(Tail(queue[st])) = Len(queue[st]) - 1 /\ Len(queue[st]) \in Nat
    BY <1>10, HeadTailProperties, LenProperties DEF Read, TypeOK
  <2>2. Len(Tail(queue[st])) <= Cap
    BY <1>m, <2>1, SMTT(30) DEF TypeOK
  <2> QED BY <1>10, <2>1, <2>2 DEF Read, TypeOK, taskVars
<1>11. ASSUME NEW st \in Streams, Disconnect(st) PROVE TypeOK'
  <2>1. {} \in Updates /\ <<>> \in Seq(Updates) /\ Len(<<>>) <= Cap
    BY <1>m, EmptySeq, SMTT(30) DEF Updates
  <2> QED BY <1>11, <2>1 DEF Disconnect, TypeOK, taskVars
<1>12. CASE Elapse
  <2>1. registry' \in [Kinds -> Map] /\ seen' \in [Kinds -> Map]
    BY <1>12, <1>k, OlderKeeps DEF Elapse
  <2>2. lag' \in [Tasks -> 0 .. MaxLag]
    BY <1>12, <1>l, <1>m, SMTT(30) DEF Elapse
  <2> QED BY <1>12, <2>1, <2>2 DEF Elapse, TypeOK, streamVars
<1>13. CASE UNCHANGED vars
  BY <1>13 DEF vars, taskVars, streamVars, TypeOK
<1> QED
  BY <1>1, <1>2, <1>3, <1>4, <1>5, <1>6, <1>7, <1>8, <1>9, <1>10, <1>11, <1>12,
     <1>13 DEF Next

\* Type correctness of the registry and of the streams, whose channels never
\* hold more than their capacity.
THEOREM InterestTypeCorrect == Spec => []TypeOK
BY InitTypeOK, NextTypeOK, PTL DEF Spec

-----------------------------------------------------------------------------
\* The inductive invariant: both maps agree with the history.
Agrees == \A kind \in Kinds : InSync(registry[kind], seen[kind])

\* Every step keeps the maps and the history in agreement: a sweep by a clock
\* reading that lags removes only entries that are past their TTL by now.
LEMMA NextAgrees == TypeOK /\ Agrees /\ [Next]_vars => Agrees'
<1> SUFFICES ASSUME TypeOK, Agrees, [Next]_vars PROVE Agrees'
  OBVIOUS
<1>l. \A t \in Tasks : lag[t] \in 0 .. MaxLag
  BY DEF TypeOK
<1>k. /\ \A kind \in Kinds : registry[kind] \in Map /\ seen[kind] \in Map
      /\ registry = [kind \in Kinds |-> registry[kind]]
  BY DEF TypeOK
<1>1. ASSUME NEW t \in Submitters, ObserveRecord(t) PROVE Agrees'
  <2> SUFFICES ASSUME NEW kind \in Kinds PROVE InSync(registry[kind], seen[kind])'
    BY DEF Agrees
  <2>1. lag[t] \in 0 .. MaxLag
    BY <1>l DEF Tasks
  <2>2. /\ registry'[kind] = Insert(registry[kind], References(kind, bundle[t]), lag[t])
        /\ seen'[kind] = Newest(seen[kind], References(kind, bundle[t]), lag[t])
    BY <1>1, RecordsReferences DEF ObserveRecord
  <2>3. InSync(registry'[kind], seen'[kind])
    BY <1>k, <2>1, <2>2, ReferencesTyped, InsertKeeps DEF Agrees
  <2> QED BY <2>3 DEF InSync
<1>2. CASE PruneStep
  <2> SUFFICES ASSUME NEW kind \in Kinds PROVE InSync(registry[kind], seen[kind])'
    BY DEF Agrees
  <2>1. lag[Sweep] \in 0 .. MaxLag
    BY <1>l DEF Tasks
  <2>2. PICK swept \in Kinds : PruneMap(swept)
    BY <1>2 DEF PruneStep, Kinds
  <2>3. /\ registry'[kind] = IF kind = swept
              THEN Retain(registry[kind], Fresh(registry[kind], lag[Sweep]))
              ELSE registry[kind]
        /\ seen' = seen
    BY <1>2, <1>k, <2>2 DEF PruneStep, PruneMap
  <2>4. InSync(registry'[kind], seen'[kind])
    BY <1>k, <2>1, <2>3, RetainKeeps DEF Agrees
  <2> QED BY <2>4 DEF InSync
<1>3. CASE Elapse
  <2> SUFFICES ASSUME NEW kind \in Kinds PROVE InSync(registry[kind], seen[kind])'
    BY DEF Agrees
  <2>1. registry'[kind] = Older(registry[kind]) /\ seen'[kind] = Older(seen[kind])
    BY <1>3 DEF Elapse
  <2>2. InSync(registry'[kind], seen'[kind])
    BY <1>k, <2>1, OlderKeeps DEF Agrees
  <2> QED BY <2>2 DEF InSync
<1>4. ASSUME UNCHANGED <<registry, seen>> PROVE Agrees'
  BY <1>4 DEF Agrees, InSync
<1>5. ASSUME NEW st \in Streams,
             \/ Subscribe(st) \/ Tick(st) \/ Collect(st) \/ Send(st)
             \/ SendFails(st) \/ Read(st) \/ Disconnect(st)
      PROVE  UNCHANGED <<registry, seen>>
  BY <1>5 DEF Subscribe, Tick, Collect, Send, SendFails, Read, Disconnect
<1>6. ASSUME \/ PruneBegin \/ UNCHANGED vars
             \/ \E t \in Submitters, b \in Bundles : ObserveBegin(t, b)
      PROVE  UNCHANGED <<registry, seen>>
  BY <1>6 DEF PruneBegin, ObserveBegin, vars
<1> QED BY <1>1, <1>2, <1>3, <1>4, <1>5, <1>6 DEF Next

\* What is of interest is what was referred to within the TTL, up to the lag of a
\* clock reading, for any number of keys and concurrent requests, any messages
\* (headers that make no sense included), and any order in which they record.
THEOREM InterestIsExact == Spec => []InterestExact
<1>1. Init => Agrees
  BY DEF Init, Agrees, InSync, Empty
<1>2. TypeOK /\ Agrees => InterestExact
  <2> SUFFICES ASSUME TypeOK, Agrees PROVE InterestExact
    OBVIOUS
  <2> SUFFICES ASSUME NEW kind \in Kinds
               PROVE  /\ \A k \in DOMAIN seen[kind] :
                           seen[kind][k] + MaxLag < Ttl => k \in Fresh(registry[kind], 0)
                      /\ Fresh(registry[kind], 0) \subseteq Fresh(seen[kind], 0)
    BY DEF InterestExact, OfInterest
  <2>1. registry[kind] \in Map /\ seen[kind] \in Map
    BY DEF TypeOK
  <2>2. InSync(registry[kind], seen[kind])
    BY DEF Agrees
  <2>3. Old \in Nat /\ Ttl \in Nat /\ MaxLag \in Nat
    BY InterestAssumption, SMTT(30) DEF Old
  <2>4. ASSUME NEW k \in DOMAIN registry[kind]
        PROVE  /\ seen[kind][k] + MaxLag < Ttl => registry[kind][k] - 0 < Ttl
               /\ registry[kind][k] - 0 < Ttl => seen[kind][k] - 0 < Ttl
    <3>1. /\ registry[kind][k] \in 0 .. Old /\ seen[kind][k] \in 0 .. Old
          /\ seen[kind][k] <= registry[kind][k]
          /\ registry[kind][k] <= seen[kind][k] + MaxLag
      BY <2>1, <2>2, MapElements DEF InSync
    <3> QED BY ONLY <2>3, <3>1, SMTT(30)
  <2>5. ASSUME NEW k \in DOMAIN seen[kind] \ DOMAIN registry[kind]
        PROVE  ~(seen[kind][k] + MaxLag < Ttl)
    <3>1. seen[kind][k] \in 0 .. Old /\ seen[kind][k] + MaxLag >= Ttl
      BY <2>1, <2>2, MapElements DEF InSync
    <3> QED BY ONLY <2>3, <3>1, SMTT(30)
  <2> QED BY <2>2, <2>4, <2>5 DEF InSync, Fresh
<1> QED BY <1>1, <1>2, InterestTypeCorrect, NextAgrees, PTL DEF Spec

\* The agreement holds throughout.
LEMMA AgreementHolds == Spec => []Agrees
<1>1. Init => Agrees
  BY DEF Init, Agrees, InSync, Empty
<1> QED BY <1>1, InterestTypeCorrect, NextAgrees, PTL DEF Spec

-----------------------------------------------------------------------------
(* What the relayers are told *)

\* What a stream may ever name: what bundles referred to in its own way, or the
\* star alone when all packets are asked for.
Known(st) == IF forward_all THEN {Star} ELSE DOMAIN seen[KindOf(st)]

\* Every update of a stream - being sent, in its channel, or read last - names
\* only that: no key that no bundle referred to, nothing that was only a writable
\* account on a programs stream or only a program on an accounts stream, and the
\* star never together with keys.
OnlyKnownAdvertised ==
  \A st \in Streams :
    /\ update[st] \subseteq Known(st) /\ last[st] \subseteq Known(st)
    /\ \A i \in DOMAIN queue[st] : queue[st][i] \subseteq Known(st)

\* What was once referred to stays known.
LEMMA KnownGrows ==
  ASSUME TypeOK, [Next]_vars, NEW st \in Streams PROVE Known(st) \subseteq Known(st)'
<1>0. KindOf(st) \in Kinds
  BY DEF KindOf, Kinds
<1>1. ASSUME \A kind \in Kinds : DOMAIN seen[kind] \subseteq DOMAIN seen'[kind]
      PROVE  Known(st) \subseteq Known(st)'
  BY <1>0, <1>1 DEF Known, KindOf
<1>2. ASSUME NEW t \in Submitters, ObserveRecord(t) PROVE Known(st) \subseteq Known(st)'
  BY <1>1, <1>2 DEF ObserveRecord, Newest
<1>3. CASE Elapse
  BY <1>1, <1>3 DEF Elapse, Older
<1>4. ASSUME seen' = seen PROVE Known(st) \subseteq Known(st)'
  BY <1>1, <1>4
<1>5. ASSUME NEW s \in Streams,
             \/ Subscribe(s) \/ Tick(s) \/ Collect(s) \/ Send(s)
             \/ SendFails(s) \/ Read(s) \/ Disconnect(s)
      PROVE  seen' = seen
  BY <1>5 DEF Subscribe, Tick, Collect, Send, SendFails, Read, Disconnect
<1>6. ASSUME \/ PruneBegin \/ PruneStep \/ UNCHANGED vars
             \/ \E t \in Submitters, b \in Bundles : ObserveBegin(t, b)
      PROVE  seen' = seen
  BY <1>6 DEF PruneBegin, PruneStep, ObserveBegin, vars
<1> QED BY <1>2, <1>3, <1>4, <1>5, <1>6 DEF Next

\* Every step keeps it: an update is collected from the registry, whose keys are
\* known, and moves unchanged through the channel.
LEMMA NextAdvertised ==
  ASSUME TypeOK, Agrees, OnlyKnownAdvertised, [Next]_vars PROVE OnlyKnownAdvertised'
<1>0. \A st \in Streams : Known(st) \subseteq Known(st)'
  BY KnownGrows
<1>1. ASSUME NEW st \in Streams, Collect(st) PROVE OnlyKnownAdvertised'
  <2>1. update'[st] = IF forward_all THEN {Star} ELSE Fresh(registry[KindOf(st)], lag[st])
    BY <1>1 DEF Collect, TypeOK
  <2>2. DOMAIN registry[KindOf(st)] \subseteq DOMAIN seen[KindOf(st)]
    BY DEF Agrees, InSync, KindOf, Kinds
  <2>3. update'[st] \subseteq Known(st)
    BY <2>1, <2>2 DEF Fresh, Known
  <2>4. /\ \A s \in Streams \ {st} : update'[s] = update[s]
        /\ queue' = queue /\ last' = last
    BY <1>1 DEF Collect, TypeOK
  <2>5. \A s \in Streams : update'[s] \subseteq Known(s)
    BY <2>3, <2>4, SMTT(30) DEF OnlyKnownAdvertised
  <2> QED BY <1>0, <2>4, <2>5 DEF OnlyKnownAdvertised
<1>2. ASSUME NEW st \in Streams, Send(st) PROVE OnlyKnownAdvertised'
  <2>1. /\ queue[st] \in Seq(Updates) /\ queue'[st] = Append(queue[st], update[st])
        /\ \A s \in Streams \ {st} : queue'[s] = queue[s] /\ update'[s] = update[s]
        /\ update'[st] = {} /\ last' = last
    BY <1>2 DEF Send, TypeOK
  <2>2. \A i \in DOMAIN queue'[st] : \/ i \in DOMAIN queue[st] /\ queue'[st][i] = queue[st][i]
                                     \/ queue'[st][i] = update[st]
    BY <2>1, AppendProperties, LenProperties, SMTT(30)
  <2> QED BY <1>0, <2>1, <2>2 DEF OnlyKnownAdvertised
<1>3. ASSUME NEW st \in Streams, Read(st) PROVE OnlyKnownAdvertised'
  <2>1. /\ queue[st] \in Seq(Updates) /\ queue[st] # <<>> /\ queue'[st] = Tail(queue[st])
        /\ \A s \in Streams \ {st} : queue'[s] = queue[s] /\ last'[s] = last[s]
        /\ last'[st] = Head(queue[st]) /\ update' = update
    BY <1>3 DEF Read, TypeOK
  <2>2. 1 \in DOMAIN queue[st] /\ last'[st] = queue[st][1]
    BY <2>1, SMTT(30)
  <2>3. \A i \in DOMAIN queue'[st] : \E j \in DOMAIN queue[st] : queue'[st][i] = queue[st][j]
    <3> SUFFICES ASSUME NEW i \in DOMAIN queue'[st]
                 PROVE  i + 1 \in DOMAIN queue[st] /\ queue'[st][i] = queue[st][i + 1]
      OBVIOUS
    <3> QED BY <2>1, HeadTailProperties, LenProperties, SMTT(30)
  <2>4. \A s \in Streams : \A i \in DOMAIN queue'[s] :
          \E j \in DOMAIN queue[s] : queue'[s][i] = queue[s][j]
    BY <2>1, <2>3
  <2>5. \A s \in Streams : update'[s] = update[s] /\ last'[s] \subseteq Known(s)
    BY <2>1, <2>2 DEF OnlyKnownAdvertised
  <2> QED BY <1>0, <2>4, <2>5 DEF OnlyKnownAdvertised
<1>4. ASSUME NEW st \in Streams, Disconnect(st) \/ SendFails(st) PROVE OnlyKnownAdvertised'
  <2>1. DOMAIN <<>> = {}
    BY SMTT(30)
  <2>2. /\ \A s \in Streams : update'[s] \in {update[s], {}} /\ last'[s] \in {last[s], {}}
        /\ \A s \in Streams : queue'[s] \in {queue[s], <<>>}
    BY <1>4 DEF Disconnect, SendFails, TypeOK
  <2> QED BY <1>0, <2>1, <2>2 DEF OnlyKnownAdvertised
<1>5. ASSUME UNCHANGED <<update, queue, last>> PROVE OnlyKnownAdvertised'
  BY <1>0, <1>5 DEF OnlyKnownAdvertised
<1>6. ASSUME \/ \E st \in Streams : Subscribe(st) \/ Tick(st)
             \/ \E t \in Submitters : ObserveRecord(t) \/ \E b \in Bundles : ObserveBegin(t, b)
             \/ PruneBegin \/ PruneStep \/ Elapse \/ UNCHANGED vars
      PROVE  UNCHANGED <<update, queue, last>>
  BY <1>6 DEF Subscribe, Tick, ObserveRecord, ObserveBegin, PruneBegin, PruneStep, Elapse, vars,
              streamVars
<1> QED BY <1>1, <1>2, <1>3, <1>4, <1>5, <1>6 DEF Next

\* A relayer is told only of keys some bundle referred to, in the way its stream
\* is about, or of the star alone, however far behind it reads.
THEOREM AdvertisedAreKnown == Spec => []OnlyKnownAdvertised
<1>1. Init => OnlyKnownAdvertised
  <2>1. DOMAIN <<>> = {}
    BY SMTT(30)
  <2> QED BY <2>1 DEF Init, OnlyKnownAdvertised
<1> QED BY <1>1, InterestTypeCorrect, AgreementHolds, NextAdvertised, PTL DEF Spec

\* An update, when it is collected, leaves out nothing that is of interest at
\* that moment, and names nothing whose last reference is older than the TTL and
\* the wait for the lock together.
CollectsCurrent ==
  \A st \in Streams : Collect(st) /\ ~forward_all =>
    /\ OfInterest(KindOf(st)) \subseteq update'[st]
    /\ \A k \in update'[st] : seen[KindOf(st)][k] < Ttl + MaxLag

\* Advertisements are current although accounts_of_interest reads the clock
\* before it waits for the lock.
THEOREM AdvertisementsAreCurrent == Spec => [][CollectsCurrent]_vars
<1>1. TypeOK /\ Agrees => CollectsCurrent
  <2> SUFFICES ASSUME TypeOK, Agrees, NEW st \in Streams, Collect(st), ~forward_all
               PROVE  /\ OfInterest(KindOf(st)) \subseteq update'[st]
                      /\ \A k \in update'[st] : seen[KindOf(st)][k] < Ttl + MaxLag
    BY DEF CollectsCurrent
  <2> DEFINE map == registry[KindOf(st)]
  <2>1. KindOf(st) \in Kinds /\ map \in Map /\ lag[st] \in 0 .. MaxLag
    BY DEF TypeOK, KindOf, Kinds, Tasks
  <2>2. update'[st] = Fresh(map, lag[st])
    BY DEF Collect, TypeOK
  <2>3. /\ DOMAIN map \subseteq DOMAIN seen[KindOf(st)] /\ seen[KindOf(st)] \in Map
        /\ \A k \in DOMAIN map : seen[KindOf(st)][k] <= map[k]
    BY <2>1 DEF Agrees, InSync, TypeOK
  <2>4. ASSUME NEW k \in DOMAIN map
        PROVE  /\ map[k] - 0 < Ttl => map[k] - lag[st] < Ttl
               /\ map[k] - lag[st] < Ttl => seen[KindOf(st)][k] < Ttl + MaxLag
    <3>1. /\ map[k] \in 0 .. Old /\ seen[KindOf(st)][k] \in 0 .. Old
          /\ seen[KindOf(st)][k] <= map[k]
      BY <2>1, <2>3, MapElements
    <3>2. Old \in Nat /\ Ttl \in Nat /\ MaxLag \in Nat
      BY InterestAssumption, SMTT(30) DEF Old
    <3> QED BY ONLY <2>1, <3>1, <3>2, SMTT(30)
  <2> QED BY <2>2, <2>4 DEF OfInterest, Fresh
<1> QED BY <1>1, InterestTypeCorrect, AgreementHolds, PTL DEF Spec
=============================================================================
