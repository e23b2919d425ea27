SPECIFICATION Spec
CONSTANTS
  o1 = o1
  o2 = o2
  o3 = o3
  Offers = {o1, o2, o3}
  Accepts = {a1, a2}
  Permitted <- PolicyOf
  Payloads = {p, q}
  replayCapacity = 1
  Lifetime = 2
  Quota = 2
  MaxTime = 2
  NULL = NULL
INVARIANTS
  OfferAcceptedOnce
  FramesSound
CHECK_DEADLOCK FALSE
CONSTRAINT FewFrames
SYMMETRY Symmetry
