\* Intact and damaged sections.
CONSTANTS
  Files <- AllFiles
  Names <- MCNames
SPECIFICATION FairSpec
INVARIANTS TypeOK ReadAsWritten HeldOnce NothingSkipped PropertiesFound AllFreed
PROPERTIES ParseEnds
\* A deleted section, an abort and undefined behaviour are the end.
CHECK_DEADLOCK FALSE
