\* Two users, one of them alone in a chat, both in the other; two markets of one
\* outcome, so that subscriptions collide and a market is mistaken for another;
\* the second user's tier and limit (0 or 1) change at any time; two
\* subscription ids, so that unsubscribing and subscribing again is possible once.
CONSTANTS
    u1 = u1
    u2 = u2
    c1 = c1
    c2 = c2
    m1 = m1
    m2 = m2
    User = {u1, u2}
    Chat = {c1, c2}
    Member <- Shared
    Market = {m1, m2}
    Offer <- TwoMarkets
    Index = {0}
    Limit = {0, 1}
    DefaultLimit = 1
    MaxId = 2
    MaxAlerts = 2
    MayFail = TRUE
    Managed = {u2}
    MayRestart = TRUE
    NoRow = NoRow
    NoJob = NoJob
    NoMarket = NoMarket
SPECIFICATION Spec
INVARIANT TypeOK
INVARIANT QuotaOvershoot
INVARIANT FreeAlertsBounded
INVARIANT SubscriptionHasAlert
INVARIANT AlertWhereShown
