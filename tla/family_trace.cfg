\* A waveform family, in which a trace stands for the sweep.
CONSTANTS
  Ids <- MCIds
  Sweep = "sweep"
  Values <- MCValues
  Junk <- MCJunk
  Unset <- MCUnset
  Files <- KeyFiles
SPECIFICATION Spec
INVARIANTS ListedTracesReadable
\* The process stops after a failed open, an abort or undefined behaviour.
CHECK_DEADLOCK FALSE
