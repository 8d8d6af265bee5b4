CONSTANTS
  u1 = u1
  u2 = u2
  u3 = u3
  o1 = o1
  o2 = o2
  c1 = c1
  c2 = c2
  None = None
  Users = {u1, u2, u3}
  Existing = {u1, u3}
  Legacy <- MCLegacy
  Operations = {o1, o2}
  Owner <- MCOwner
  Calls = {c1, c2}
  Costs <- MCCosts
  Scale = 4
  Budgets = {2}
  Requests = {r1}
  Changes <- MCChanges
  Codes = {i1}
  Grants = {0, 2}
SPECIFICATION LedgerSpec
SYMMETRY Symmetry
INVARIANTS Solvent StatementAddsUp Reconciled
PROPERTIES FinalIsFrozen ImplementsWallet
\* Once the request and the invite are used and nobody can pay for an
\* operation, there is nothing left to do.
CHECK_DEADLOCK FALSE
