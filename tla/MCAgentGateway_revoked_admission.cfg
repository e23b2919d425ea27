SPECIFICATION MCSpec
CONSTANTS
  NULL = NULL
  AgentIds <- Agents
  CapabilityIds <- Caps
  GrantIds <- Grants
  RevocationIds <- Revocations
  IdentityDocs <- MCIdentities
  CapabilityDocs <- MCCapabilities
  GrantDocs <- MCGrants
  Envelopes <- MCEnvelopes
  componentAuthenticationRefs <- AuthRefs
  maxEntries = 2
  MaxRevocations = 2
  MaxCascade = 4
  MaxEnvelopeTTL = 4
  MaxFutureSkew = 1
  CallSpan = 0
  MaxTime = 5
PROPERTIES
  RevokedGrantBlocksAdmission
CHECK_DEADLOCK FALSE
