SPECIFICATION Spec
CONSTANTS
  KMEMSIZE = 28
  PGSIZE = 4
  freemem = 2
  E820Maps <- Maps
  Las <- LaSet
  NPTE = 2
  Perms = {0, 6}
  MaxAlloc = 3
INVARIANTS PagesAccounted NoFitMissed NoPanic RefCounted TLBCoherent
