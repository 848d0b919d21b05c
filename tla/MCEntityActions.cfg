SPECIFICATION Spec
CONSTANTS
  NumActiveEntities = 2
  EntityStartNum = 1
  NumUsers = 3
  NumThreads = 2
  RandomizeEntitySelection = TRUE
  Channel = {"public", "private"}
  Private = {"private"}
  ChannelsOf <- MCChannelsOf
  Tests = {"TestAll", "TestBasicPosting", "TestPostReactions", "TestGetChannel", "TestSearch", "TestChannelCreateDelete", "TestUpdateUserProfile", "TestTownSquareSpam", "TestLeaveJoinChannel", "TestLeaveJoinTeam", "TestDeactivation", "TestMoreChannelsBrowser"}
  DoStatusPolling = TRUE
  MaxActions = 2
INVARIANTS
  TypeOK
  EntitiesAligned
  
  
CHECK_DEADLOCK FALSE
