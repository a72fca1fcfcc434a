SPECIFICATION Spec
CONSTANTS
  Runner = {r1, r2}
  Secret = {p1, p2}
  Migrations <- MCMigrations
  NULL = NULL
PROPERTIES RemovalChangesNothing
