\* Two people and two requests: registrations that race, a grant that ends or
\* is taken away, and changes of one row from two tabs.
CONSTANTS
  User = {u1, u2}
  Request = {r1, r2}
  Change <- MCChange
  MaxGrants = 1
  MaxLeaving = 1
  NoRow = NoRow
SPECIFICATION Spec
SYMMETRY Alike
INVARIANTS
  OneBootstrapAdmin
  ChangesAreKept
\* With every account gone and no registration left, all stops.
CHECK_DEADLOCK FALSE
