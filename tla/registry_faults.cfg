SPECIFICATION Spec
CONSTANTS
  c1 = c1
  c2 = c2
  hello = hello
  None = None
  Calls <- MCCaller
  Speech <- MCSpeech
  Seconds <- MCSeconds
  StoreFaults = {"write"}
  MaxRestarts = 3
INVARIANTS
  TypeOK
  MemoryInPlay
  SavedMatchesMemory
  OpenRowsAreInPlay
  WordsSurvive
PROPERTIES
  FinishedStays
  SettledStands
  KeepsPromise
