SPECIFICATION Spec
CONSTANTS
  Addresses = {a1}
  Watched = {a1}
  Requests = {r1}
  Tokens = {t1}
  Passwords = {admin, secret}
  LongEnough = {}
  DefaultPass = admin
  NoAccount = NoAccount
  MaxFails = 3
  Window = 2
  BlockFor = 2
  MapLimit = 1
  SessionLife = 1
INVARIANTS
  PolicyHolds
