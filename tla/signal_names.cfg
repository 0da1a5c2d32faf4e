\* Every small trace section, with the values of its traces.
CONSTANTS
  Names <- MCNames
  TraceSections <- MCSections
  Ids <- MCIds
  Sweep = "sweep"
  Values <- MCValues
  Junk <- MCJunk
  Unset <- MCUnset
  Files <- MCFiles
SPECIFICATION SignalFairSpec
INVARIANTS NamesTypeOK NamesIndexed FoundWhereListed
PROPERTY ImplementsByName
