SPECIFICATION FairSpec
CONSTANTS
  None = None
  Handler = {p1, p2}
  SessionId = {s1, s2, s3}
  User = {u1}
  Password = {w1}
  Kind = {"register", "refresh", "logoutAll"}
  MayFail = {"register", "registered", "login", "read", "rotate", "locked", "revoke", "apply"}
  TTL = 1
  MaxTime = 0
PROPERTIES
  Answered
