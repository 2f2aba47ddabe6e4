SPECIFICATION Spec
CONSTANTS
  s1 = s1
  s2 = s2
  mic = mic
  cam = cam
  micWire = micWire
  camWire = camWire
  Pub = Pub
  Subs = {s1,s2}
  Tracks = {mic, cam}
  Kind <- KindOf
  Placeholder = Placeholder
  MaxForwarders = 3
  Worlds <- Everyone
CHECK_DEADLOCK FALSE
SYMMETRY Alike
INVARIANTS RemoteKept LeaverDetached OneReader
