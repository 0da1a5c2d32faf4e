\* Well-formed files of both kinds, every order of queries.
CONSTANTS
  Ids <- MCIds
  Sweep = "sweep"
  Values <- MCValues
  Junk <- MCJunk
  Unset <- MCUnset
  Files <- GoodFiles
SPECIFICATION FairSpec
INVARIANTS TypeOK OffsetsRecorded ReadSoFar
PROPERTY Implements
