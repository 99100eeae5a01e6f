SPECIFICATION Spec
CONSTANTS
  c1 = c1
  c2 = c2
  accept = accept
  reject = reject
  hello = hello
  None = None
  Drain = drain
  Calls <- MCOneCall
  Speech <- MCSpeech
  Seconds <- MCSeconds
  StoreFaults = {}
  Accepts = {accept}
  Rejects = {reject}
  Copies = {1, 2}
  MaxSize = 1
  HoldLimit = TRUE
  LostReplies = FALSE
  LostPosts = TRUE
  LateRings = FALSE
  MaxRestarts = 0
INVARIANTS
  RefusedIsUnregistered
