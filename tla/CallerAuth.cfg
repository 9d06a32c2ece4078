SPECIFICATION FairSpec
CONSTANTS
  Callers = {c1, c2}
  Tokens = {t1, t2}
  Settings <- MCSettings
  Revocable <- MCRevocable
  Lifetimes <- MCWindow
  MaxEntries = 1
  EvictionSample = 1
  TTL = 1
  Timeout = 1
  MaxTime = 3
  Prompt = TRUE
INVARIANTS
  TypeOK
  RequestsBounded
  AbandonedUnseen
  OneRequestPerToken
  WaitersCounted
PROPERTIES
  AcceptSound
  RevocationBounded
  CallersAnswered
  SlotsReturn
