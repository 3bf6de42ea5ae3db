\* Two alerts of one subscription, so that the queue of one is full while the
\* second is sent; rules added, edited in place and removed, crashes,
\* shutdowns, lost ticks, failed writes.
CONSTANTS
    a1 = a1
    a2 = a2
    s1 = s1
    t1 = t1
    Alert = {a1, a2}
    Sub = {s1}
    SubOf <- SharedSub
    Token = {t1}
    TokenOf <- OneToken
    NoToken = NoToken
    Price = {1}
    Rule <- RuleMix
    RowCooldown = 0
    DefaultCooldown = 0
    FeedCap = 1
    QueueCap = 1
    MaxTime = 0
    NoRow = NoRow
    NoRule = NoRule
    NoPrice = NoPrice
    Never = Never
    NoAlert = NoAlert
    NoJob = NoJob
    MayCrash = TRUE
    MayCancel = TRUE
    MayFailSave = TRUE
SPECIFICATION FairSpec
PROPERTY SendCompletes
PROPERTY CacheConverges
PROPERTY SavedWasHandedOver
