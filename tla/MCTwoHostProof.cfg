SPECIFICATION Spec
CONSTANTS
  Senders = {remote, local, stranger}
  Paired = {remote, local}
  SameHost = {local}
  ViaLoopback = {local}
  SessionIds = {i1, i2}
  Attempts = {a1, a2}
  NoSender = NoSender
  NoSession = NoSession
  maxSessions = 1
  challengeTtl = 1
INVARIANTS
  SessionsUsedOnce
  ProofSound
PROPERTIES
  CapacityRecovers
CHECK_DEADLOCK FALSE
