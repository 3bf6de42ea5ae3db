\* A person in two chats and another in one of them; an hour of four ticks and a
\* second of two, and a clock that gets over the hour.
SPECIFICATION Spec
CONSTANTS
    p1 = p1
    p2 = p2
    c1 = c1
    c2 = c2
    g = g
    Person = {p1, p2}
    Chat = {c1, c2, g}
    ChatsOf <- ChatsOfBoth
    Name = {"ann", "eve"}
    NoName = NoName
    Zone = {"UTC", "Europe/Paris"}
    UTC = "UTC"
    NoAccount = NoAccount
    Hour = 4
    Second = 2
    MaxTime = 5
    MayFail = TRUE
    Load <- EachInTurn
INVARIANT TypeOK
INVARIANT NoLostUpdate
INVARIANT RaceBounded
INVARIANT FeedbackSpaced
CHECK_DEADLOCK FALSE
