---------------------------- MODULE MCFeedFanout ----------------------------
(* The bounds of every run of FeedFanout are in its cfg.                   *)
EXTENDS FeedFanout

=============================================================================
