SPECIFICATION MCSpec
CONSTANTS
  NULL = NULL
  a = a  b = b  c = c  k1 = k1
  i1 = i1  pa = pa  pb = pb  pc = pc  v1 = v1  px = px  g1 = g1  r1 = r1  r2 = r2
  Processes = {a, b, c}
  Outcomes <- MCOutcomes
  CacheKeys = {k1}
  Claims <- MCClaims
  Statements <- MCStatements
  Compositions <- MCCompositions
  PromotionEvidence <- MCEvidence
  DynamicGraphs <- MCGraphs
  execution_count = 1
  verified_success_count = 1
  success_rate = 100
  verification_rate = 100
  maximum_violations = 0
  maximumRecompositions = 2
  maximumSteps = 3
  MaxExecutions = 2
  MaxGenome = 2
  PortIds = {i1, g1, pa, pb, pc, px, v1}
  Descriptor <- MCDescriptor
  PortOrder <- MCOrder
  Intents = {"compute"}
  CognitonIds = {c1}
  Runs = {r1, r2}
  MaxVersion = 1
INVARIANTS
  TypeOK
  LearningSound
  ExecutionSound
  PlansSound
PROPERTIES
  RuntimeBounded
CHECK_DEADLOCK FALSE
