------------------------ MODULE MCMQTTMessageHandler ------------------------
(* Instances of MQTTMessageHandler for TLC. *)
EXTENDS MQTTMessageHandler

CONSTANTS t1, t2

MCTopicList == <<t1, t2>>

=============================================================================
