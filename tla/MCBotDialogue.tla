---------------------------- MODULE MCBotDialogue ----------------------------
(* Instances of BotDialogue for TLC. *)
EXTENDS BotDialogue

CONSTANTS u1, u2, c1, c2, m1, m2

\* One user in a private chat and in a group, with u2, who is in the group only.
Shared == [c \in {c1, c2} |-> IF c = c1 THEN {u1} ELSE {u1, u2}]

TwoMarkets == {<<m1>>, <<m1, m2>>}
=============================================================================
