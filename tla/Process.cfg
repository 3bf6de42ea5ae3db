\* The process in four kinds of behaviour (MCProcess!EachInTurn), with a channel
\* of one place, two outcomes of one market and a market without prices.
SPECIFICATION FairSpec
CONSTANTS
    u1 = u1
    u2 = u2
    m1 = m1
    m2 = m2
    t1 = t1
    t2 = t2
    b1 = b1
    User = {u1, u2}
    Market = {m1, m2}
    Token = {t1, t2}
    MarketOf <- OneMarket
    MaxTick = 2
    Instant = {1, 3}
    NoInstant = NoInstant
    Fallback = 1
    MaxTime = 3
    QueueCap = 1
    Alert = Alert
    MayFailDb = TRUE
    Bot = {b1}
    Load <- EachInTurn
INVARIANT TypeOK
PROPERTY PricesGoForward
PROPERTY LastFlushSaves
PROPERTY PricesCatchUp
PROPERTY OncePerInstant
PROPERTY EachOnHisOwn
PROPERTY ShutdownCompletes
