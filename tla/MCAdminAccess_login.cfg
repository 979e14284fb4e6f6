SPECIFICATION FairSpec
CONSTANTS
  Addresses = {a1, a2}
  Watched = {a1}
  Requests = {r1, r2}
  Tokens = {t1, t2}
  Passwords = {admin, secret}
  LongEnough = {secret}
  DefaultPass = admin
  NoAccount = NoAccount
  MaxFails = 2
  Window = 2
  BlockFor = 2
  MapLimit = 1
  SessionLife = 1
INVARIANTS
  TypeOK
  FailuresBounded
PROPERTIES
  BlockEarned
  BlockServed
  LockoutEnds
  SessionKept
