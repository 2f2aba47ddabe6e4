SPECIFICATION FairSpec
CONSTANTS
  s1 = s1
  s2 = s2
  mic = mic
  cam = cam
  micWire = micWire
  camWire = camWire
  Pub = Pub
  Subs = {s1}
  Tracks = {mic}
  Kind <- KindOf
  Placeholder = Placeholder
  MaxForwarders = 3
  Worlds <- SameID
CHECK_DEADLOCK FALSE
PROPERTY SubscriptionServed
