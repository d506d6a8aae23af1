SPECIFICATION Spec
CONSTANTS
  Reqs = {r1, r2}
  Secrets = {s1}
  NoSecret = NoSecret
  MaxFaults = 0
INVARIANTS
  EnrollmentAccepted
