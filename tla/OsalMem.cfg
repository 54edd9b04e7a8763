SPECIFICATION FairSpec
CONSTANTS
  MAXMEMHEAP = 19
  HDRSZ = 1
  SMALLBLKHEAP = 8
  OSALMEM_SMALL_BLKSZ = 4
  OSALMEM_MIN_BLKSZ = 2
  Requests <- MCRequests
INVARIANTS
  TypeOK
  Tiling
  BucketApart
  FailsOnlyWhenFull
PROPERTIES
  ImplementsPromise
  AllocTerminates
