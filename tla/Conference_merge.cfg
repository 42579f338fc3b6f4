SPECIFICATION Spec
CONSTANTS
  Calls = {c1, c2}
  NoCall = NoCall
  Configs <- MCConfigs
  MaxParticipants = 3
  MaxCommands <- MCMaxCommands
  MaxAdditions <- MCMaxAdditions
  MAX_RESUBS_COUNT = 1
  Faults <- MCFaults
SYMMETRY CallSymmetry
CHECK_DEADLOCK FALSE
INVARIANTS
  MergeTypeOK
  NoDeletedUserUsed
  AnsweredOnlyWhenAsked
  NoCallLost
  CommandIsAwaited
