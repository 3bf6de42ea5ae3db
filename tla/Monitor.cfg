\* A token that comes and goes, three market events, two names for connection
\* tasks (enough for an old and a new one), tasks that may panic, failing queries,
\* dials and sessions, backoffs of 1, 2 and 3 (the maximum) with a power that
\* saturates at 4, shutdown.
CONSTANTS
    t1 = t1
    k1 = k1
    k2 = k2
    Token = {t1}
    Conn = {k1, k2}
    Base = 1
    MaxDelay = 3
    U32Max = 4
    MaxTick = 3
    MayPanic = TRUE
SPECIFICATION FairSpec
INVARIANT TypeOK
INVARIANT OneConnection
PROPERTY MarketOrder
PROPERTY PatientReconnect
PROPERTY StreamsConverge
PROPERTY EventsForwarded
PROPERTY CancelStops
