SPECIFICATION Spec
CONSTANTS
  Owner = {idle, t1, t2, d1, d2}
  Thread = {idle, t1, t2}
  idle = idle
  NoThread = NoThread
  StackSize = {2}
  Level = {32, 254}
  Region <- MCRegion
  OVERHEAD = 1
  NODE = 2
  MaxSize = 4
INVARIANTS FreeListSound MemoryPartitioned StacksAccounted
PROPERTY OwnStackKept
