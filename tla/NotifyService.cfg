\* Three requests to two chats through two bots, one of them not registered,
\* two attempts each, a queue of two; crashes, shutdowns, failing queries and
\* lost answers.  The clock stands still: NotifyRate.cfg moves it.
CONSTANTS
    r1 = r1
    r2 = r2
    r3 = r3
    c1 = c1
    c2 = c2
    b1 = b1
    b2 = b2
    Request = {r1, r2, r3}
    To <- ToMixed
    Via <- ViaMixed
    Chat = {c1, c2}
    Bot = {b1, b2}
    Registered = {b1}
    MaxRetries = 2
    QueueCap = 2
    Max = 1
    Window = 2
    MaxTime = 0
    NoWindow = NoWindow
    NoRequest = NoRequest
    NoAccount = NoAccount
    MayCrash = TRUE
    MayCancel = TRUE
    MayFailDb = TRUE
SPECIFICATION FairSpec
INVARIANT TypeOK
INVARIANT LogTruthful
INVARIANT InOrder
PROPERTY TakenUp
