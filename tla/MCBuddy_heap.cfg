\* A 16-leaf heap (five levels) with every page-aligned end above half of it
\* and metadata of one to three leaves; callers hold up to four blocks of
\* one to eight leaves.
CONSTANTS
  NSIZES = 5
  HeapSizes = {10, 12, 14}
  MetaSizes = {1, 2, 3}
  Requests = {1, 2, 3, 5}
  MaxHeld = 4
  Null = Null
SPECIFICATION Spec
INVARIANT TypeOK FreeListsExact DeallocFindsSize Coalesced
PROPERTY HeapSpec
