\* Two subscriptions to one channel, one of them unsubscribed.
SPECIFICATION Spec
CONSTANTS
  Commands = {}
  Subscribes = {s1, s2}
  SingleShots = {}
  Unsubscribes = {u1}
  HandleOf <- OneHandleOf
  Channels = {ch1}
  ChannelOf <- OneChannelOf
  Messages = {}
  TopicOf <- OneTopicOf
  NoCall = NoCall
  NoMsg = NoMsg
  Environment = {}
  Asserts = TRUE
INVARIANT
  SubscriptionLasts
CHECK_DEADLOCK FALSE
