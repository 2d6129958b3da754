SPECIFICATION Spec
CONSTANTS
  a = a
  b = b
  ct = ct
  CT = CT
  sz = sz
  Junk = Junk
  Long = Long
  Nodes <- TwoNodes
  Types <- AllTypes
  Lower <- InLowerCase
  Output <- Outputs
  Created <- Submitted
  Done <- Ended
  Requests <- Asked
INVARIANTS FinishedStoresAll GivesUpOnlyToAnother TopAnswersFit
PROPERTIES AllReturn
CHECK_DEADLOCK FALSE
