CONSTANTS
  Fetcher = {f1, f2}
  Action = {a1}
  MaxRetries = 2
  MaxDispatches = 3
SPECIFICATION FairFeedSpec
INVARIANTS
  FeedTypeOK
  UpsertNeverConflicts
PROPERTIES
  MirrorSpec
  EventuallyMirrored
