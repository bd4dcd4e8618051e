-------------------------- MODULE MCTopicDecision ---------------------------
(* The bounds of every run of TopicDecision are in its cfg.                *)
EXTENDS TopicDecision

=============================================================================
