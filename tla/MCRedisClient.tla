--------------------------- MODULE MCRedisClient ---------------------------
(***************************************************************************)
(* Instances of RedisClient for TLC.  Each configuration names the calls   *)
(* that may be made and the events of the environment; the functions below *)
(* put every call that names a channel on the channel its run needs.       *)
(***************************************************************************)
EXTENDS RedisClient

\* Every subscription and every message is on the first channel, and every
\* unsubscribe() is given the handle of one subscribe().
OneChannelOf == [c \in Subscribes \cup SingleShots |-> CHOOSE ch \in Channels : TRUE]
OneTopicOf == [m \in Messages |-> CHOOSE ch \in Channels : TRUE]
OneHandleOf == [u \in Unsubscribes |-> CHOOSE s \in Subscribes : TRUE]
=============================================================================
