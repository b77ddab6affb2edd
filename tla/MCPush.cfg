SPECIFICATION EmptyRegistrySpec
CONSTANTS
  p1 = p1
  p2 = p2
  a = a
  b = b
  None = None
  Pushes = {p1, p2}
  Layers = {a, b}
  images <- SharedImages
  maxTags = 2
  maxUploadAttempts = 1
  Calls <- PushCalls
  Keys = {a, b}
  concurrencyLimit = 1
INVARIANTS
  UploadEnsuresRemote
  EntriesTrue
  UnlockedReadSafe
