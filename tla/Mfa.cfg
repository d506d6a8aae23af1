SPECIFICATION Spec
CONSTANTS
  Reqs = {r1, r2, r3}
  Secrets = {s1, s2}
  NoSecret = NoSecret
  MaxFaults = 1
INVARIANTS
  TypeOK
  LateLoginBound
  StoredIsTold
PROPERTIES
  ReplacedIsRetired
