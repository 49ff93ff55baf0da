\* A command beside a subscription, its unsubscribe and a single shot, under fairness.
SPECIFICATION FairSpec
CONSTANTS
  Commands = {c1}
  Subscribes = {s1}
  SingleShots = {o1}
  Unsubscribes = {u1}
  HandleOf <- OneHandleOf
  Channels = {ch1}
  ChannelOf <- OneChannelOf
  Messages = {m1, m2}
  TopicOf <- OneTopicOf
  NoCall = NoCall
  NoMsg = NoMsg
  Environment = {"garbage", "install"}
  Asserts = TRUE
INVARIANTS
  ReplyMatchesCall
  DeliveredInOrder
PROPERTIES
  QuietOnceDrained
  EveryMessageDelivered
CHECK_DEADLOCK FALSE
