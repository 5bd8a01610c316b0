SPECIFICATION Spec
CONSTANTS
  mem_size_aligned = 84
  SIZEOF_STRUCT_MEM = 12
  MIN_SIZE = 12
  Sizes <- UseSizes
  User = {u1, u2}
INVARIANTS
  HeapInOrder
  NothingLeaks
PROPERTY IsAllocator
