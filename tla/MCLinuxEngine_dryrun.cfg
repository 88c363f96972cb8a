SPECIFICATION FairSpec
CONSTANTS
  listed = listed
  unlisted = unlisted
  NoEvent = NoEvent
  Configs <- MCConfigs
  Events <- MCEvents
  Permitted <- MCPermitted
  ChannelSize = 1
CHECK_DEADLOCK FALSE
PROPERTY DryRunReturns
