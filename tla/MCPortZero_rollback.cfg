SPECIFICATION MCSpec
CONSTANTS
  alice = alice
  bob = bob
  carol = carol
  Owners = {alice, bob, carol}
  Labels = {"", "portal", "api"}
  Records <- PresentedRecords
  capacity = 2
  RevokedCapacity = 1
  MaxTTL = 4
  MaxTime = 4
  NULL = NULL
  Owner = alice
  Invocations <- Commands
  DEFAULT_NAMES = {"", "portal"}
  Root = ""
  Lifetime = 2
  Partial = Partial
  Slugs = {"blog", "r3", "r4"}
  Requests = {"r1", "r2", "r3", "r4"}
  slugOf <- SlugOf
  SiteLimit = 1
  Ports = {"p", "q"}
  Keys = {"k1"}
  Messages = {"m1", "m2"}
  Nonces = {"n1", "n2"}
  Calls = {"c1", "c2", "c3"}
  envelopeOf <- EnvelopeOf
  max_attempts = 2
  Transactions = {"t1", "t2"}
  Submissions = {"s1", "s2", "s3"}
  transactionOf <- TransactionOf
  MessageIds = {"m1", "m2"}
  Appends <- MCAppends
  NoCallback = "none"
  Targets = {"x", "y"}
  Registrations <- MCRegistrations
  Withdrawals <- MCWithdrawals
  Routes = {"direct", "fan"}
  routeOf <- RouteOf
  routeAttempts = 2
  Unregistered = Unregistered
  Scenarios = {"directory"}
PROPERTY NoRollback
CHECK_DEADLOCK FALSE
