\* One process that neither crashes nor is cancelled, an UPDATE that may fail.
CONSTANTS
    a1 = a1
    a2 = a2
    s1 = s1
    t1 = t1
    Alert = {a1}
    Sub = {s1}
    SubOf <- OneSub
    Token = {t1}
    TokenOf <- OneToken
    NoToken = NoToken
    Price = {1}
    Rule <- RuleAbove
    RowCooldown = 1
    DefaultCooldown = 0
    FeedCap = 1
    QueueCap = 1
    MaxTime = 4
    NoRow = NoRow
    NoRule = NoRule
    NoPrice = NoPrice
    Never = Never
    NoAlert = NoAlert
    NoJob = NoJob
    MayCrash = FALSE
    MayCancel = FALSE
    MayFailSave = TRUE
SPECIFICATION Spec
PROPERTY NoRepeatInCooldown
