SPECIFICATION FairSpec
CONSTANTS
  Requests = {r1, r2}
  Verifiers = {v1, v2}
  Codes = {k1, k2}
  OTP_TTL = 1
  OTP_MAX_ATTEMPTS = 2
  OTP_REQUEST_WINDOW = 1
  OTP_MAX_REQUESTS = 1
  Patience = 1
  MaxClock = 2
  None = None
INVARIANTS
  TypeOK
  CodesOpenOneSession
  GuessesCapped
  RequestsCapped
PROPERTY CallsEnd
