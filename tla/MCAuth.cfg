CONSTANTS
  Ip = {ip1}
  FreeFailures = 1
  MaxLock = 2
  MaxNow = 4
  SessionKey = {s1, s2}
  TokenKey = {t1}
  Name = {admin, root}
  NoAccount = NoAccount
  SessionDuration = 3
  RenewThrottle = 2
  TokenDays = {1}
  Never = Never
  MaxGeneration = 2
  MaxRestarts = 1
SPECIFICATION Spec
SYMMETRY KeysAndNames
CHECK_DEADLOCK FALSE
INVARIANTS CredentialsFitAccount IdleSessionsEnd BackoffHolds
PROPERTIES ActiveSessionsLast
