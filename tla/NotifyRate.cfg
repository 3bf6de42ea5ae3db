\* Five interchangeable requests to one chat, windows of two ticks on a clock of
\* 0..3, so that windows follow each other; the process may crash and start over at
\* any time.
CONSTANTS
    r1 = r1
    r2 = r2
    r3 = r3
    r4 = r4
    r5 = r5
    c1 = c1
    b1 = b1
    Request = {r1, r2, r3, r4, r5}
    To <- ToOne
    Via <- ViaOne
    Chat = {c1}
    Bot = {b1}
    Registered = {b1}
    MaxRetries = 1
    QueueCap = 1
    Max = 2
    Window = 2
    MaxTime = 3
    NoWindow = NoWindow
    NoRequest = NoRequest
    NoAccount = NoAccount
    MayCrash = TRUE
    MayCancel = FALSE
    MayFailDb = FALSE
SPECIFICATION Spec
INVARIANT CallsInWindows
INVARIANT DeliveriesBounded
INVARIANT RefusedOnlyWhenFull
SYMMETRY Sym
