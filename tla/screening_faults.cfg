SPECIFICATION Spec
CONSTANTS
  c1 = c1
  c2 = c2
  accept = accept
  reject = reject
  hello = hello
  None = None
  Drain = drain
  Calls <- MCOneCall
  Speech <- MCSpeech
  Seconds <- MCSeconds
  StoreFaults = {}
  Accepts = {accept}
  Rejects = {reject}
  Copies = {1}
  MaxSize = 1
  HoldLimit = TRUE
  LostReplies = TRUE
  LostPosts = TRUE
  LateRings = FALSE
  MaxRestarts = 1
INVARIANTS
  AcceptedWasDialled
  HoldersAreShown
  RefusedIsUnregistered
