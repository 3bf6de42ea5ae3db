\* Two alerts of one subscription on one tick, rules edited in place while the
\* engine runs, a price below and one at the threshold, a feed of one tick,
\* cooldown 1 (from the row; the default would be 0) on a clock of 0..2: fire,
\* cool down, fire again.  Shutdown is left to the other run.
CONSTANTS
    a1 = a1
    a2 = a2
    s1 = s1
    t1 = t1
    Alert = {a1, a2}
    Sub = {s1}
    SubOf <- SharedSub
    Token = {t1}
    TokenOf <- OneToken
    NoToken = NoToken
    Price = {0, 1}
    Rule <- RuleMix
    RowCooldown = 1
    DefaultCooldown = 0
    FeedCap = 1
    QueueCap = 1
    MaxTime = 2
    NoRow = NoRow
    NoRule = NoRule
    NoPrice = NoPrice
    Never = Never
    NoAlert = NoAlert
    NoJob = NoJob
    MayCrash = TRUE
    MayCancel = FALSE
    MayFailSave = TRUE
SPECIFICATION Spec
INVARIANT TypeOK
PROPERTY ImplementsPolicy
INVARIANT EngineRemembers
SYMMETRY Symmetry
