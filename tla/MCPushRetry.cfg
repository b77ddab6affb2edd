SPECIFICATION EmptyRegistryFairSpec
CONSTANTS
  p1 = p1
  p2 = p2
  a = a
  b = b
  None = None
  Pushes = {p1, p2}
  Layers = {b}
  images <- SameLayer
  maxTags = 1
  maxUploadAttempts = 2
  Calls <- PushCalls
  Keys = {b}
  concurrencyLimit = 1
INVARIANT
  CancelledByOwnClient
PROPERTY
  EveryPushEnds
