----------------------------- MODULE MCPostAPI ------------------------------
(***************************************************************************)
(* The instances of PostAPI that TLC checks.                               *)
(***************************************************************************)
EXTENDS PostAPI, TLC

CONSTANTS r1, r2, r3, alice, admin, home

Open(n) == [locked |-> FALSE, freeReply |-> FALSE, gone |-> FALSE, posts |-> [i \in 1..n |-> "old"]]
OneTopic == <<Open(1)>>
TwoTopics == <<Open(1), Open(1)>>

Calm == [noMoreNewUsers |-> FALSE, noRecaptcha |-> TRUE, noImageUpload |-> FALSE, cooldown |-> 1]
Rolling == [Calm EXCEPT !.noRecaptcha = FALSE]

Plain(u, t, id) ==
    [topic |-> t, special |-> FALSE, user |-> u, ip |-> home, uuid |-> id,
     image |-> "none", short |-> FALSE, nsfw |-> FALSE, command |-> FALSE, token |-> "none"]

\* A new topic and replies of a user, with one UUID or another, and an image.
Repeats == {Plain(alice, 0, 1), Plain(alice, 1, 1), [Plain(alice, 1, 2) EXCEPT !.image = "good"]}

\* Challenges, failed or passed by a user who moderates, so that no cooldown
\* parts the requests: for a command and for a reply; and a topic of its own
\* that a user without a cookie starts from another one.
Tries ==
    { [Plain(alice, 0, 2) EXCEPT !.token = "wrong", !.command = TRUE],
      [Plain(alice, 1, 3) EXCEPT !.token = "right"],
      [Plain(NoUser, 2, 4) EXCEPT !.special = TRUE, !.nsfw = TRUE] }

\* The requests are alike.
Alike == Permutations(Requests)
=============================================================================
