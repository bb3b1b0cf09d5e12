SPECIFICATION Spec

CONSTANTS
  a = a
  b = b
  s = s
  Callers <- MCCallers
  StatusCallers <- MCStatusCallers
  MaxTries = 3
  MaxEvents = 3

INVARIANT TypeOK
INVARIANT Inductive
INVARIANT ChangedOnce
PROPERTY ModifiesAtomically
PROPERTY CallsEnd
CHECK_DEADLOCK FALSE
