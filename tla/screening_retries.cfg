SPECIFICATION Spec
CONSTANTS
  c1 = c1
  c2 = c2
  accept = accept
  reject = reject
  hello = hello
  None = None
  Drain = drain
  Calls <- MCTwoCalls
  Speech <- MCSpeech
  Seconds <- MCSeconds
  StoreFaults = {}
  Accepts = {}
  Rejects = {}
  Copies = {1, 2}
  MaxSize = 1
  HoldLimit = TRUE
  LostReplies = FALSE
  LostPosts = TRUE
  LateRings = TRUE
  MaxRestarts = 0
SYMMETRY MCSymmetry
INVARIANTS
  TypeOK
  HoldersAreReady
  QueueWithinCap
