SPECIFICATION Spec
CONSTANTS
  Callers = {c1, c2}
  Tokens = {t1}
  Settings <- MCShared
  Revocable <- MCRevocable
  Lifetimes <- MCValid
  MaxEntries = 1
  EvictionSample = 1
  TTL = 1
  Timeout = 2
  MaxTime = 4
  Prompt = TRUE
PROPERTIES
  RevocationWithinTTL
