SPECIFICATION FairSpec
CONSTANTS
  Sizes = {1, 2}
  Made = {1}
  MadeRun = {"Running"}
  Prots = {FALSE}
  OwnDisk = TRUE
  Edits = {"size", "run", "disabled", "delete"}
  Outsiders = {"fail", "delete"}
  MaxFaults = 1
  MaxEdits = 1
INVARIANTS
  TypeOK
  InstanceIsHeld
  NeverForgotten
  ObservedSizeIsReal
PROPERTIES
  OneStopPerChange
  ImplementsManaged
  Converges
  DeletionFinishes
CHECK_DEADLOCK FALSE
