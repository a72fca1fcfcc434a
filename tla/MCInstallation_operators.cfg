SPECIFICATION Spec
CONSTANTS
  Runner = {r1, r2}
  Secret = {p1}
  Migrations <- MCMigrations
  NULL = NULL
INVARIANTS LastingInv SuccessLasts
PROPERTIES DesiredSpec
