------------------------- MODULE MCRedisSyncClient -------------------------
(***************************************************************************)
(* Instances of RedisSyncClient for TLC.                                   *)
(***************************************************************************)
EXTENDS RedisSyncClient

\* Nothing goes wrong around the client, or anything does.
Quiet == {}
Hostile == {"refuse", "break", "garbage", "install"}
=============================================================================
