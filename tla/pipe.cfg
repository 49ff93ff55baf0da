\* Three commands, everything that may happen to the connection; replies cut into reads.
SPECIFICATION PipeSpec
CONSTANTS
  Commands = {c1, c2, c3}
  Subscribes = {}
  SingleShots = {}
  Unsubscribes = {}
  HandleOf <- OneHandleOf
  Channels = {ch1}
  ChannelOf <- OneChannelOf
  Messages = {}
  TopicOf <- OneTopicOf
  NoCall = NoCall
  NoMsg = NoMsg
  Environment = {"refuse", "break", "garbage", "install", "close"}
  Asserts = FALSE
  Incoming <- AllReplies
  MaxRead = 64
  IntMod = 16
INVARIANTS
  WriteDiscipline
  PipelineInv
  RepliesParsed
  OutcomeIndependentOfReads
PROPERTIES
  ImplementsPipe
  EveryCallAnswered
CHECK_DEADLOCK FALSE
