\* Two numbers, so that they come round.
SPECIFICATION FairSpec
CONSTANTS
  tool = tool
  prompt = prompt
  Clients = {tool, prompt}
  Interactive = {prompt}
  Menu <- MCMenu
  MaxId = 2
  MaxCalls <- MCMaxCalls
  MaxLost = 1
  MaxRestarts = 1
INVARIANTS Paced
PROPERTIES Routed OwnAnswer Settled
CHECK_DEADLOCK FALSE
