SPECIFICATION WindowSpec
CONSTANTS
  Ips = {a, b}
  Reqs = {q1, q2}
  Lims = {l1, l2, l3}
  Rate = 1
  Burst = 3
  Cleanup = 1
  Stall = 1
  None = None
  Watched = a
  Longest = 4
INVARIANTS
  NoOrphan
  AdmissionBound
PROPERTIES
  ImplementsBucket
  RefusedWhenSpent
  IdleEntryDropped
