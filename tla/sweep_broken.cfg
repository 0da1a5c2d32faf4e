\* Files whose header, trace section and values disagree.
CONSTANTS
  Ids <- MCIds
  Sweep = "sweep"
  Values <- MCValues
  Junk <- MCJunk
  Unset <- MCUnset
  Files <- BadFiles
SPECIFICATION FairSpec
INVARIANTS OffsetsDisjoint WholeAnswers UndefinedOnlyForSkipped
PROPERTY CallsEnd
\* The process stops after a failed open, an abort or undefined behaviour.
CHECK_DEADLOCK FALSE
