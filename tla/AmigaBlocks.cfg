CONSTANTS
  Large = Large
  Small = Small
  Files = {Large, Small}
  N = 8
  B = 2
  M = 2
  MaxSizes <- Sizes
  MaxCall = 2
  MaxOpen = 1
  Systems = {TRUE, FALSE}
  Allow = {}
SPECIFICATION Spec
INVARIANTS BlocksAccounted ChainsAgree ContentsKept
VIEW View
