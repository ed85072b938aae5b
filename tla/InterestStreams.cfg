CONSTANTS
  a = a
  p = p
  q = q
  junk = junk
  Keys = {a, p, q}
  Messages <- MCMessages
  Bundles <- MCBundles
  h1 = h1
  h2 = h2
  Submitters = {h1, h2}
  s1 = s1
  AccountStreams = {s1}
  ProgramStreams = {}
  forward_all = FALSE
  Star = Star
  Ttl = 3
  Cap = 1
  MaxLag = 1
SPECIFICATION FairSpec
INVARIANTS InterestExact
PROPERTIES StreamsConverge StaleEntriesGo
