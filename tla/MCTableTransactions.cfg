\* 2 threads and 4 transaction ids over one key; a deleted row can be re-allocated.
CONSTANTS
  Thread = {t1, t2}
  Key = {k1}
  Row = {r1, r2}
  Freed = freed
  Null = null
  MaxId = 4
  MaxAffected = 2
SYMMETRY Symmetry
SPECIFICATION Spec
CHECK_DEADLOCK FALSE
INVARIANTS
  TypeOK
  HeldIdsActive
  ViewpointStable
  SnapshotRowsDecided
  RegistryLive
PROPERTIES
  HorizonMonotone
  IdsReleased
