SPECIFICATION Spec
CONSTANTS
  Calls = {c1, c2}
  NoCall = NoCall
  Configs <- Untraced
  MaxParticipants = 2
  MaxCommands <- UntracedMaxCommands
  MaxAdditions <- UntracedMaxAdditions
  MAX_RESUBS_COUNT = 3
  Faults <- UntracedFaults
SYMMETRY CallSymmetry
CHECK_DEADLOCK FALSE
INVARIANTS
  ReSubscriptionsBounded
