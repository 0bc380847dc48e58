\* The code's MAX_TAG_LEN; tags of every length around the bounds, and
\* offsets and sizes at the edges of the tag field, of num_request_queues
\* and of the 40-byte structure.
CONSTANTS
  MAX_TAG_LEN = 36
  TagLens = {0, 1, 35, 36, 37}
  Offsets = {0, 1, 35, 36, 37, 39, 40, 41}
  Sizes = {0, 1, 3, 4, 5, 36, 40, 41}
  NoTag = NoTag
SPECIFICATION Spec
INVARIANT TypeOK ConfigReadsLayout NoConfigPanic
\* a rejected --tag ends the process
CHECK_DEADLOCK FALSE
