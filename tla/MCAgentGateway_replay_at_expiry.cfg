SPECIFICATION MCSpec
CONSTANTS
  NULL = NULL
  AgentIds <- Agents
  CapabilityIds <- Caps
  GrantIds <- Grants
  RevocationIds <- Revocations
  IdentityDocs <- MCIdentities
  CapabilityDocs <- MCCapabilities
  GrantDocs <- MCGrants
  Envelopes <- MCEnvelopes
  componentAuthenticationRefs <- AuthRefs
  maxEntries = 2
  MaxRevocations = 2
  MaxCascade = 4
  MaxEnvelopeTTL = 4
  MaxFutureSkew = 1
  CallSpan = 1
  MaxTime = 5
INVARIANTS
  AcceptedAtMostOnce
CHECK_DEADLOCK FALSE
