SPECIFICATION Spec
CONSTANTS
  Runner = {r1}
  Secret = {p1, p2}
  Migrations <- MCMigrations
  NULL = NULL
PROPERTIES ApiKeepsModules
