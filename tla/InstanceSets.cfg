SPECIFICATION FairSpec
CONSTANTS
  MaxReplicas = 2
  Templates = {1, 2}
  Scenes <- AllScenes
CHECK_DEADLOCK FALSE
INVARIANTS
  TypeOK
  ObservedIsRolledOut
PROPERTIES
  KeptWhileWanted
  ShrinksLast
  Converges
  NothingSurvives
