\* A trace section with two groups.
CONSTANTS
  Names <- GroupNames
  TraceSections <- TwoGroups
SPECIFICATION NamesSpec
INVARIANTS SearchesGroups
