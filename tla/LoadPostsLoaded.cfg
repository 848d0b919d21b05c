SPECIFICATION Spec
CONSTANTS
  NumTeams = 2
  NumChannelsPerTeam = 1
  DefaultChannels = 1
  NumPosts = 2
  Block = 2
  BatchSize = 2
  NumThreads = 2
  NumImporters = 2
  MaxIdle = 1
INVARIANTS
  PostsLoaded
CHECK_DEADLOCK FALSE
