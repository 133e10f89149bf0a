SPECIFICATION FairSpec
CONSTANTS
  p1 = p1  c1 = c1  c2 = c2  r = r  x = x
  a = a  b = b
  Thread = {p1, c1, c2, r, x}
  Producer = {p1, r}
  Consumer = {c1, c2}
  Poller = {r}
  Closer = {x}
  Item = {a, b}
  NoItem = NoItem
INVARIANTS NoLostWakeup CloseWakesAll
PROPERTIES IsAtomicQueue Drained PopsEnd
CHECK_DEADLOCK FALSE
