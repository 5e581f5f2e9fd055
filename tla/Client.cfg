SPECIFICATION Spec
CONSTANTS
  Types = {t1}
  Informers = {i1, i2}
  Callers = {a, b}
  Channels = {x, y}
  ObjectNames = {o1, o2}
  Selected = {o1}
  None = None
  Names = {n1}
  Users = {u1}
  Contents = {Empty, v1}
  Empty = Empty
  Cells = {m1, m2, m3, m4}
  Nil = Nil
  MaxRevision = 2
INVARIANTS
  FactoryInv
  OneInformerEach
  ListerIsTrue
  MemoryInv
  CacheIsTrue
PROPERTIES
  WaitCovers
  WaitEnds
  ValuesKept
