SPECIFICATION Spec
CONSTANTS
  p1 = p1
  p2 = p2
  placeholder = placeholder
  same = same
  other = other
  PCs = {p1, p2}
  Sources = {placeholder, same, other}
  First = placeholder
  Remote = {same, other}
  Mime <- MCMime
  Adders = 2
  MaxEntries = 4
  MaxRuns = 3
  Worlds <- MCWorlds
INVARIANTS
  TypeOK
  OneRunLoop
  WritersAccounted
  CodecMatches
  NothingLeftBehind
PROPERTIES
  CallsReturn
CHECK_DEADLOCK FALSE
