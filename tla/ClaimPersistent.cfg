CONSTANTS
  User = {u1, u2}
  Password = {w1, w2}
  Token = {t1}
  SessionId = {s1, s2}
  None = None
  Validity = 1
  MaxTime = 4
  a1 = a1
  a2 = a2
  a3 = a3
  Address = {a1, a2, a3}
  Network <- Networks
  Malformed = Malformed
  MaxEntries = 2
SPECIFICATION AccessSpec
SYMMETRY Symmetry
VIEW RulesHidden
INVARIANT Persistent
