SPECIFICATION FairSpec
CONSTANTS
  worker = worker  admin = admin  Lone = a1
  Harbor = {h1, h2}
  Source = {h1}
  Target = {h2}
  MaxMoves = 2
  MaxLogins = 1
  MaxRebuilds = 1
  Caller = {a1, a2}
  MaxSecrets = 11
  MaxRequests = 3
  MaxCrashes = 1
  None = None
INVARIANTS TypeOK ActiveIsWired NothingIsForgotten CleanupSparesLinks SecretWorks RevokedOpensNothing
PROPERTIES MembersSettle
CHECK_DEADLOCK FALSE
