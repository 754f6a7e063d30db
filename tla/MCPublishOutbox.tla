-------------------------- MODULE MCPublishOutbox --------------------------
(* Instances of PublishOutbox for TLC: two backoff steps, a day as long as   *)
(* the second of them.                                                       *)
EXTENDS PublishOutbox, TLC

ShortDelays == <<1, 2>>
=============================================================================
