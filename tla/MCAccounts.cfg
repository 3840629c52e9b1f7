\* Two accounts in all, two requests that wait, one OIDC login at a time and one
\* change of its settings, which the environment also has. When both ids are used up
\* and the accounts deleted, nothing can be done any more.
CONSTANTS
  Ids = {1, 2}
  Emails = {e1, e2}
  Requests = {r1, r2}
  States = {s1}
  NewRoles = {"viewer"}
  Redirects = {"env"}
  MaxChanges = 1
  EnvSettings <- EnvOidc
SYMMETRY Symmetric
SPECIFICATION Spec
INVARIANTS
  TypeOK
  EnabledSecretConfirmed
  RoleAsLastNamed
  OneExchangePerLogin
CHECK_DEADLOCK FALSE
