SPECIFICATION MCSpec
CONSTANTS
  NULL = NULL
  Inputs <- MCInputs
  CatalogDocs <- MCCatalogDocs
  namespaceOf <- MCNamespaceOf
  CapabilityOrder <- MCOrder
  maxCapabilities = 2
  maxEntries = 2
  TTL = 2
  Lag = 1
  MaxTime = 3
  MaxIssued = 2
  MaxAdmissions = 2
INVARIANTS
  TypeOK
  AdmissionSound
CHECK_DEADLOCK FALSE
