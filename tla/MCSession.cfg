\* Two tabs, one user, three tokens, one loss. The tabs are interchangeable.
CONSTANTS
  Users = {u1}
  NoUser = NoUser
  Tabs = {p1, p2}
  MaxTokens = 3
  MaxLosses = 1
SYMMETRY Symmetric
SPECIFICATION SessionSpec
INVARIANTS
  SessionTypeOK
  OneLiveTokenPerLogin
  LiveTokensOwned
  JarRenewable
