CONSTANTS
  Isolates = {"i1", "i2"}
  Threads = {"t1", "t2"}
  Items = 2
SPECIFICATION FfiSpec
INVARIANT
  NullMeansNotOurs
