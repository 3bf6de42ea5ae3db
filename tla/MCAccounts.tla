----------------------------- MODULE MCAccounts -----------------------------
(* An instance of Accounts for TLC. *)
EXTENDS Accounts

CONSTANTS p1, p2, c1, c2, g     \* persons, private chats and a group

\* One writes in all chats, the other in the group only.
ChatsOfBoth == [p \in Person |-> IF p = p1 THEN Chat ELSE {g}]

Say(p, cmd, name, zone) == [who |-> p, cmd |-> cmd, name |-> name, zone |-> zone]

\* Writing accounts in three chats at once, and feedback on a clock that goes
\* over the hour.
Columns == [messages |-> {Say(p1, "start", "ann", UTC), Say(p1, "start", "eve", UTC),
                          Say(p1, "timezone", NoName, "Europe/Paris"),
                          Say(p2, "other", NoName, UTC)},
            chats |-> Chat, ticks |-> 0]
Hours   == [messages |-> {Say(p1, "feedback", NoName, UTC), Say(p2, "feedback", NoName, UTC)},
            chats |-> {c1, g}, ticks |-> 5]
EachInTurn == {Columns, Hours}
=============================================================================
