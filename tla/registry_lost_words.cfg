SPECIFICATION Spec
CONSTANTS
  c1 = c1
  c2 = c2
  hello = hello
  None = None
  Calls <- MCCalls
  Speech <- MCSpeech
  Seconds <- MCSeconds
  StoreFaults = {"write"}
  MaxRestarts = 2
INVARIANTS
  LostWordsAreMarked
