\* Types of every kind, swept files and others, both kinds of client.
CONSTANTS
  Types <- MCTypes
  Files <- MCFiles
  Clients = {"cpp", "python"}
  MaxCalls = 2
SPECIFICATION Spec
INVARIANTS TypeOK ReadAsStored OpensUnlessComplex HeldIsLive OwnedOnce ViewsLive UndefinedOnlyInverted
PROPERTY LeaksNamed
\* The process stops after a failed open, undefined behaviour or the deletion of everything.
CHECK_DEADLOCK FALSE
