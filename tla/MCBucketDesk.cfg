\* Once the sets are sent and written nothing more need happen.
CONSTANTS
  Items = {1}
  Me = Me
  Other = Other
  None = None
  MaxPosts = 1
  Buckets = {b1, b2}
  Allocators = {a1}
  MaxPuts = 2
SPECIFICATION BucketSpec
INVARIANT Replaces
CHECK_DEADLOCK FALSE
