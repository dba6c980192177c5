----------------------------- MODULE MCTopicNode -----------------------------
(* A small instance of TopicNode: the subscriber wants two instances. *)
EXTENDS TopicNode
CONSTANTS a1, a2, s1
MCWants == [s \in {s1} |-> <<0, 1>>]
=============================================================================
