SPECIFICATION Spec
CONSTANTS
  None = None
  Handler = {p1, p2}
  SessionId = {s1, s2, s3}
  User = {u1}
  Password = {w1}
  Kind = {"register", "login", "refresh", "logout", "logoutAll"}
  MayFail = {"register", "registered", "login", "read", "rotate", "locked", "revoke", "apply"}
  TTL = 1
  MaxTime = 1
SYMMETRY Symmetry
INVARIANTS
  TypeOK
  OneLivePerFamily
  FamilyIsChain
  ExchangedWhileValid
  PairsAreSessions
  RevocationReaches
  RegisteredWhole
PROPERTIES
  Settled
  ImplementsFamilies
