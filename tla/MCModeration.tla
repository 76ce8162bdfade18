---------------------------- MODULE MCModeration ----------------------------
(***************************************************************************)
(* The instance of Moderation that TLC checks.  An initial state chooses a *)
(* scene: two requests that change settings, with every kind of command;   *)
(* an image, two goroutines and a request that deletes it; or two uploads  *)
(* of one path, one goroutine and such a request.                          *)
(***************************************************************************)
EXTENDS Moderation, TLC

CONSTANTS p1, w1, w2, r1, r2

VARIABLE scene

User(perms, wrote) == [perms |-> perms, wrote |-> wrote]
Admin == User({"ADMIN", "APPEND_ANNOUNCE", "STICKY_PURGE", "BLOCK"}, FALSE)
Everybody == {Admin, User({}, TRUE), User({}, FALSE)}

Message(subject, lines) == [subject |-> subject, lines |-> lines]
Line(op, arg) == [op |-> op, arg |-> arg]
Do(op, arg) == Message("", <<Line(op, arg)>>)

Defaults == "cooldown" :> 2

\* Settings in and out of the range that is kept; commands that nobody may
\* refuse and one that an administrator without the permission is refused
SettingMessages ==
    { Message("", <<Line("cooldown", 3), Line("moat", "cookie")>>),
      Message("", <<Line("title", 1), Line("lock", 1)>>),
      Message("", <<Line("title", 2), Line("purge", 1)>>),
      Message("", <<Line("cooldown", -1), Line("unknown", 0), Line("nsfw", 1)>>),
      Do("moat", "production"), Do("max-live-topics", 5), Do("max-live-topics", -1),
      Do("stick", 1), Do("block", 1), Do("free-reply", 1), Do("sage", 1), Do("purge", 1),
      Message("announce", <<>>), Message("append", <<>>) }

DeleteMessages == {Do("delete", 1), Do("delete-image", 1)}

AllMessages == SettingMessages \cup DeleteMessages

InScene ==
    /\ \A r \in Requests : req[r].at = "subject" =>
          IF scene = "settings" THEN Message(req[r].subject, req[r].lines) \in SettingMessages
          ELSE started = 1 /\ Message(req[r].subject, req[r].lines) \in DeleteMessages
    /\ scene = "goroutines" => upload[2].at = "none"
    /\ scene = "uploads" => /\ worker[w2] = Idle
                            /\ upload[1].at = "none" \/ upload[1].content = "large"
                            /\ upload[2].content # "small"

MCInit == ModerationInit /\ scene \in {"settings", "goroutines", "uploads"}

MCNext ==
    /\ \/ \E r \in Requests : Step(r)
       \/ scene # "settings" /\ ImagesNext /\ UNCHANGED <<settingVars, req, started>>
       \/ Restart
    /\ UNCHANGED scene
    /\ InScene'

MCSpec ==
    /\ MCInit /\ [][MCNext]_<<moderationVars, scene>>
    /\ WF_imageVars(Job(w1)) /\ WF_imageVars(scene # "uploads" /\ Job(w2))
=============================================================================
