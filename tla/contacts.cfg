SPECIFICATION ContactsSpec
CONSTANTS
  c1 = c1
  c2 = c2
  caller = caller
  None = None
  Calls <- MCCalls
  Speech <- MCSpeech
  Seconds = {}
  StoreFaults = {"read"}
  MaxRestarts = 1
  Numbers = {caller}
  NumberOf <- MCNumberOf
  Names = {ann}
  Operators = {tab}
  Standings = {"blocked"}
  MaxAttempts = 1
  ContactFaults = {"write"}
VIEW MCView
SYMMETRY MCSymmetry
INVARIANTS
  ContactsTypeOK
  CardsAreCurrent
  BlockedDontHold
  EditsStand
PROPERTIES
  AttemptsStand
