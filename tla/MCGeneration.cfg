SPECIFICATION FairGenSpec
CONSTANTS
  Capacity = 3
  ChunkSize = 2
  NumHead = 2
  NumUsers = 3
  NumEmoji = 4
  NumTeams = 3
  NumChannels = 3
  NumHigh = 0
  NumMid = 1
  NumHighCh = 1
  NumMidCh = 0
  InTeam <- MCInTeam
  InChannel <- MCInChannel
  TeamWeight <- MCTeamWeight
  ChannelWeight <- MCChannelWeight
  NumDirect = 3
  NumGroup = 1
  GroupMax = 8
INVARIANTS
  GenTypeOK
  PlainUserLines
  Barrier
  MembershipsAddUp
  MembersAsPlanned
  DirectChannelsDistinct
  PicksInProportion
PROPERTIES
  Finishes
  WritesLines
CHECK_DEADLOCK FALSE
