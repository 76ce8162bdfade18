------------------------------ MODULE MCStore ------------------------------
(***************************************************************************)
(* The instances of Store and Snapshot that TLC checks.  Each cfg names a  *)
(* set of requests, so that operations which do not interact are not       *)
(* multiplied.                                                             *)
(***************************************************************************)
EXTENDS Snapshot

CONSTANTS alice, moderator, term, cfg

\* All that is kept of a topic, its posts and the settings.
PostRequests ==
    {"NewTopic", "NewPost", "OP_PURGE", "AppendPost", "DeletePost", "FlagPost", "Block",
     "UpdateConfig", "SetMaxLiveTopics", "OP_LOCK", "OP_FREEREPLY", "SageTopic"}

OrderRequests == {"NewTopic", "NewPost", "OP_STICKY", "OP_SAGE"}

ArchiveRequests == {"NewTopic", "NewPost", "ArchiveJob"}
=============================================================================
