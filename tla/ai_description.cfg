SPECIFICATION FairSpec
CONSTANTS
  Requests = {r1}
  Editors = {e1}
  MaxRetries = 1
  MaxLosses = 1
  MaxTouches = 1
  NoCopy = NoCopy
PROPERTIES PollFollowsJob LeavesNoneProcessing ProcessingEnds TasksEnd
