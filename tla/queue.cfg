SPECIFICATION Spec
CONSTANTS
  Records = {r1, r2, r3}
  Nothing = Nothing
  Capacities <- MC_Capacities
INVARIANTS
  TypeOK
  IndicesAgree
  PeeksRight
PROPERTY
  ImplementsBoundedQueue
