SPECIFICATION FairSpec
CONSTANTS
  None = None
  NoKey = NoKey
  Calls = {c1, c2}
  Keys = {k1, k2}
  Payloads = {p1, p2}
  Attempts = 2
INVARIANTS
  TypeOK
  OnceByKey
  NilMeansDone
PROPERTIES
  CallsEnd
  ImplementsPromise
