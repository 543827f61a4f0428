SPECIFICATION Spec
CONSTANTS
  alice = alice
  bob = bob
  main = main
  spare = spare
  k1 = k1
  t1 = t1
  t2 = t2
  Tabs = {t1, t2}
  Accounts = {alice, bob}
  Senders <- MCSenders
  Keys = {k1}
  Requests = {r1}
  Payloads <- MCPayloads
  NonceTTL = 1
  JwtTTL = 1
  MaxNonces = 2
  MaxClock = 2
  MaxFaults = 1
  FirstLinks <- MCFirstLinks
  MaxLinks = 1
INVARIANTS TypeOK NonceOnce SessionRecent OwnOrdersOnly SignerWasLinked PolicyKept StatusTruthful
PROPERTIES NonceFresh
CHECK_DEADLOCK FALSE
SYMMETRY TabsAlike
