---------------------------- MODULE MCTopicList ----------------------------
(***************************************************************************)
(* The instance of TopicList that TLC checks.                              *)
(***************************************************************************)
EXTENDS TopicList

CONSTANT alice

AllRequests == {"NewTopic", "NewPost", "SagePost", "OP_STICKY", "OP_PURGE", "ArchiveJob"}
=============================================================================
