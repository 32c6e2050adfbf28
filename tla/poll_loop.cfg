SPECIFICATION Spec
CONSTANTS
  pat = pat
  t1 = t1
  t2 = t2
  t3 = t3
  h1 = h1
  h2 = h2
  Scenarios <- MCScenarios
  Peer = {pat, t1, t2, t3}
  HttpPeer = {h1, h2}
  Terse = {t1, t2, t3}
  MaxConns = 2
  Slots = 1
  Window = 1
  MaxOut = 4
  BigLen = 3
  Chunk = 1
  MaxSends = 2
  Segments <- MCSegments
  OutCeil = 6
CHECK_DEADLOCK FALSE
INVARIANTS SlotsSound SleepsInPeace
