\* Up to three entries, one with a long name; two changes anywhere, two ecalls
\* of opendir that fail.  A process that executed undefined behaviour stops.
SPECIFICATION FairSpec
CONSTANTS
  Names = {"a", "b", "c", "long"}
  LongNames = {"long"}
  MaxInitial = 3
  MaxChanges = 2
  MaxRefused = 2
  MaxRewinds = 1
INVARIANTS ListsWhatStayed ErrorsExplained
PROPERTY StreamsEnd
CHECK_DEADLOCK FALSE
