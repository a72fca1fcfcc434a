SPECIFICATION FairSpec
CONSTANTS
  Runner = {r1}
  Secret = {p1, p2}
  Migrations <- MCMigrations
  NULL = NULL
INVARIANTS TypeOK Inv Converged Repairs
PROPERTIES RemovalChangesNothing ReadyIsTrue Heals
