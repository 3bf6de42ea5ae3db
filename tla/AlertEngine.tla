----------------------------- MODULE AlertEngine -----------------------------
(***************************************************************************)
(* The alert engine (crates/pn-alert/src/engine.rs, dedup.rs) between its  *)
(* three neighbours: the alerts table that the bot edits, the broadcast    *)
(* channel of price ticks and the bounded queue to the notify service.     *)
(*                                                                         *)
(* The engine is one task.  Between two of its awaits nothing else it owns *)
(* changes, so its steps are the pieces between awaits; the bot, the       *)
(* clock, the monitor, the notify service and the process itself (crash,   *)
(* shutdown, restart) interleave with them.  Everything but the database   *)
(* is memory and is lost when the process ends.                            *)
(***************************************************************************)
EXTENDS AlertRules, Sequences, FiniteSets

CONSTANTS
    Alert,            \* alert ids; AUTOINCREMENT, never used twice
    Sub,              \* subscription ids
    SubOf,            \* the subscription an alert belongs to
    Token,            \* outcome tokens, what a tick is about
    TokenOf,          \* the token of a subscription's outcome ...
    NoToken,          \* ... or this: bad token_ids JSON or outcome_index
    Price,            \* prices and thresholds
    Rule,             \* the [kind, threshold] a user may ask for
    RowCooldown,      \* alerts.cooldown_minutes
    DefaultCooldown,  \* config: alert.default_cooldown_minutes
    FeedCap,          \* capacity of the broadcast channel
    QueueCap,         \* capacity of the notification channel
    MaxTime,          \* bound on the clock
    NoRow, NoRule, Never, NoAlert, NoJob,   \* "absent" values
    MayCrash,         \* may the process die at any moment?
    MayCancel,        \* may somebody press ctrl-C?
    MayFailSave       \* may the UPDATE of a firing fail?

ASSUME EngineAssumption ==
    /\ SubOf \in [Alert -> Sub]
    /\ TokenOf \in [Sub -> Token \cup {NoToken}]
    /\ NoToken \notin Token
    /\ Price \subseteq Int
    /\ Rule \subseteq [kind : Kind, threshold : Price]
    /\ RowCooldown \in Int
    /\ DefaultCooldown \in Nat
    /\ FeedCap \in Nat \ {0}
    /\ QueueCap \in Nat \ {0}
    /\ MaxTime \in Nat
    /\ Never \notin Int
    /\ NoRow \notin [kind : Kind, threshold : Price, last : Nat \cup {Never}]
    /\ NoRule \notin [kind : Kind, threshold : Price]
    /\ NoAlert \notin Alert
    /\ NoJob \notin [token : Token, cur : Price, old : Price \cup {NoPrice}]
    /\ MayCrash \in BOOLEAN
    /\ MayCancel \in BOOLEAN
    /\ MayFailSave \in BOOLEAN

VARIABLES
    now,        \* Utc::now(), in minutes
    db,         \* the alerts table: rows that survive the process
    born,       \* ids handed out so far
    pc,         \* where the engine task is
    cache,      \* rule_cache: the rules of the last successful refresh
    prev,       \* prev_prices: last tick per token
    dedup,      \* AlertDedup.last_triggered
    job,        \* the tick in handle_price_update, with the price before it
    todo,       \* rules of job.token still to be looked at
    at,         \* the alert whose firing is being sent or saved
    feed,       \* ticks published and not yet received
    lagged,     \* the receiver was overtaken and has not noticed yet
    queue,      \* notifications handed to the notify service
    open,       \* is the receiving end of that queue alive?
    cancelled,  \* the CancellationToken
    fired       \* history: last firing of each alert and what became of it

dbVars     == <<db, born>>
engineVars == <<pc, cache, prev, dedup, job, todo, at>>
feedVars   == <<feed, lagged>>
notifyVars == <<queue, open>>
vars == <<now, dbVars, engineVars, feedVars, notifyVars, cancelled, fired>>

-----------------------------------------------------------------------------
Time    == 0..MaxTime
Stamp   == Time \cup {Never}
Row     == [kind : Kind, threshold : Price, last : Stamp]
Update  == [token : Token, price : Price]
Job     == [token : Token, cur : Price, old : Price \cup {NoPrice}]
Running == {"init", "select", "scan", "send", "save"}

\* `handed`: what became of the queueing of the last firing; `saved`: its
\* UPDATE changed the row.
Firing == [at : Stamp, handed : {"no", "queued", "closed"}, saved : BOOLEAN]

TokenOfAlert(a) == TokenOf[SubOf[a]]

\* The rule's own cooldown, or the configured one when that is not positive.
Cooldown == IF RowCooldown > 0 THEN RowCooldown ELSE DefaultCooldown

RuleOf(row) == [kind |-> row.kind, threshold |-> row.threshold]

\* Rows refresh_cache turns into rules: it skips those without a token.
Loadable(a) == db[a] # NoRow /\ TokenOfAlert(a) # NoToken

\* Mutant: ready again one minute early.
CanFireEarly(a) == dedup[a] # Never => now - dedup[a] >= Cooldown

\* AlertDedup::can_fire.
CanFire(a) == dedup[a] # Never => now - dedup[a] > Cooldown

ShouldFire(a) == Evaluate(cache[a], job.cur, job.old) /\ CanFire(a)

\* Memory of a process that is not there.
NoRules  == [a \in Alert |-> NoRule]
NoPrices == [t \in Token |-> NoPrice]
NoStamps == [a \in Alert |-> Never]

Init == /\ now = 0
        /\ db = [a \in Alert |-> NoRow]
        /\ born = {}
        /\ pc = "down"
        /\ cache = NoRules /\ prev = NoPrices /\ dedup = NoStamps
        /\ job = NoJob /\ todo = {} /\ at = NoAlert
        /\ feed = << >> /\ lagged = FALSE /\ queue = << >>
        /\ open = FALSE
        /\ cancelled = FALSE
        /\ fired = [a \in Alert |->
                      [at |-> Never, handed |-> "no", saved |-> FALSE]]

-----------------------------------------------------------------------------
(***************************************************************************)
(* The clock and the bot.                                                  *)
(***************************************************************************)
Tick == /\ now < MaxTime
        /\ now' = now + 1
        /\ UNCHANGED <<dbVars, engineVars, feedVars, notifyVars, cancelled, fired>>

\* A subscription is gone once its rows are: rows vanish only by cascade.
SubOpen(s) == \A a \in born : SubOf[a] = s => db[a] # NoRow

\* INSERT INTO alerts, by the subscribe dialogue or /alert.
CreateAlert(a, r) ==
    /\ a \notin born
    /\ SubOpen(SubOf[a])
    /\ born' = born \cup {a}
    /\ db' = [db EXCEPT ![a] = [kind |-> r.kind, threshold |-> r.threshold,
                                last |-> Never]]
    /\ UNCHANGED <<now, engineVars, feedVars, notifyVars, cancelled, fired>>

\* A free user's /alert overwrites kind and threshold and keeps the rest of
\* the row, last_triggered_at included.
UpdateAlert(a, r) ==
    /\ db[a] # NoRow
    /\ db' = [db EXCEPT ![a].kind = r.kind, ![a].threshold = r.threshold]
    /\ UNCHANGED <<now, born, engineVars, feedVars, notifyVars, cancelled, fired>>

\* DELETE FROM subscriptions; the alerts go with it (ON DELETE CASCADE).
Unsubscribe(s) ==
    /\ \E a \in Alert : SubOf[a] = s /\ db[a] # NoRow
    /\ db' = [a \in Alert |-> IF SubOf[a] = s THEN NoRow ELSE db[a]]
    /\ UNCHANGED <<now, born, engineVars, feedVars, notifyVars, cancelled, fired>>

Bot == \/ \E a \in Alert, r \in Rule : CreateAlert(a, r) \/ UpdateAlert(a, r)
       \/ \E s \in Sub : Unsubscribe(s)

-----------------------------------------------------------------------------
(***************************************************************************)
(* The broadcast channel.  When it is full the oldest tick is overwritten  *)
(* and the next recv reports Lagged before it goes on with the oldest one  *)
(* that is left.                                                           *)
(***************************************************************************)
\* Mutant: a channel that never drops anything.
PublishUnbounded(u) ==
    /\ pc \in Running
    /\ feed' = Append(feed, u)
    /\ UNCHANGED <<now, dbVars, engineVars, lagged, notifyVars, cancelled, fired>>

Publish(u) ==
    /\ pc \in Running
    /\ IF Len(feed) < FeedCap
         THEN feed' = Append(feed, u) /\ UNCHANGED lagged
         ELSE feed' = Append(Tail(feed), u) /\ lagged' = TRUE
    /\ UNCHANGED <<now, dbVars, engineVars, notifyVars, cancelled, fired>>

\* RecvError::Lagged: a warning, and back to select.
RecvLagged ==
    /\ pc = "select" /\ ~cancelled /\ lagged
    /\ lagged' = FALSE
    /\ UNCHANGED <<now, dbVars, engineVars, feed, notifyVars, cancelled, fired>>

-----------------------------------------------------------------------------
(***************************************************************************)
(* refresh_cache.  The SELECT is one snapshot, and nothing reads the cache *)
(* between it and the replacement of the cache, so both are one step: an   *)
(* edit that falls between them is an edit after the step.  Times already  *)
(* in the dedup map are overwritten by the row's, older or not.            *)
(***************************************************************************)
\* Mutant: the dedup map is not seeded from the rows.
LoadRulesOnly ==
    /\ cache' = [a \in Alert |-> IF Loadable(a) THEN RuleOf(db[a]) ELSE NoRule]
    /\ UNCHANGED <<dedup, prev, job, todo, at>>

\* Mutant: no rule_cache.clear() before the new rules go in.
LoadRulesNoClear ==
    /\ cache' = [a \in Alert |-> IF Loadable(a) THEN RuleOf(db[a]) ELSE cache[a]]
    /\ dedup' = [a \in Alert |-> IF Loadable(a) /\ db[a].last # Never
                                 THEN db[a].last ELSE dedup[a]]
    /\ UNCHANGED <<prev, job, todo, at>>

LoadRules ==
    /\ cache' = [a \in Alert |-> IF Loadable(a) THEN RuleOf(db[a]) ELSE NoRule]
    /\ dedup' = [a \in Alert |-> IF Loadable(a) /\ db[a].last # Never
                                 THEN db[a].last ELSE dedup[a]]
    /\ UNCHANGED <<prev, job, todo, at>>

\* The refresh at the top of run(): an error is logged and the loop starts
\* with an empty cache.
InitialRefresh ==
    /\ pc = "init"
    /\ pc' = "select"
    /\ LoadRules \/ UNCHANGED <<cache, prev, dedup, job, todo, at>>
    /\ UNCHANGED <<now, dbVars, feedVars, notifyVars, cancelled, fired>>

\* The cache_ticker arm; a failed SELECT leaves everything as it was.
PeriodicRefresh ==
    /\ pc = "select" /\ ~cancelled
    /\ LoadRules
    /\ UNCHANGED <<now, pc, dbVars, feedVars, notifyVars, cancelled, fired>>

-----------------------------------------------------------------------------
(***************************************************************************)
(* handle_price_update, cut at its awaits.                                 *)
(***************************************************************************)
\* The rules left of tick j: the next one, or back to select.
Resume(rest, j) == /\ todo' = rest
                   /\ pc' = IF rest = {} THEN "select" ELSE "scan"
                   /\ job' = IF rest = {} THEN NoJob ELSE j

Watching(t) == {a \in Alert : cache[a] # NoRule /\ TokenOfAlert(a) = t}

\* The price is stored before any rule is evaluated.
Recv ==
    /\ pc = "select" /\ ~cancelled /\ ~lagged /\ feed # << >>
    /\ LET u == Head(feed) IN
       /\ prev' = [prev EXCEPT ![u.token] = u.price]
       /\ Resume(Watching(u.token),
                 [token |-> u.token, cur |-> u.price, old |-> prev[u.token]])
    /\ feed' = Tail(feed)
    /\ UNCHANGED <<now, dbVars, cache, dedup, at, lagged, notifyVars, cancelled, fired>>

\* The condition does not hold, or the alert is cooling down.
Skip(a) ==
    /\ pc = "scan" /\ a \in todo /\ ~ShouldFire(a)
    /\ Resume(todo \ {a}, job)
    /\ UNCHANGED <<now, dbVars, cache, prev, dedup, at, feedVars, notifyVars,
                   cancelled, fired>>

\* Mutant: the row is written before the notification is sent.
FireSaveFirst(a) ==
    /\ pc = "scan" /\ a \in todo /\ ShouldFire(a)
    /\ dedup' = [dedup EXCEPT ![a] = now]
    /\ pc' = "save"
    /\ at' = a
    /\ todo' = todo \ {a}
    /\ fired' = [fired EXCEPT ![a] = [at |-> now, handed |-> "no", saved |-> FALSE]]
    /\ UNCHANGED <<now, dbVars, cache, prev, job, feedVars, notifyVars, cancelled>>

\* mark_fired, before the first await.
Fire(a) ==
    /\ pc = "scan" /\ a \in todo /\ ShouldFire(a)
    /\ dedup' = [dedup EXCEPT ![a] = now]
    /\ pc' = "send"
    /\ at' = a
    /\ todo' = todo \ {a}
    /\ fired' = [fired EXCEPT ![a] = [at |-> now, handed |-> "no", saved |-> FALSE]]
    /\ UNCHANGED <<now, dbVars, cache, prev, job, feedVars, notifyVars, cancelled>>

\* notify_tx.send().await waits for room ...
Enqueue ==
    /\ pc = "send" /\ open /\ Len(queue) < QueueCap
    /\ queue' = Append(queue, at)
    /\ fired' = [fired EXCEPT ![at].handed = "queued"]
    /\ pc' = "save"
    /\ UNCHANGED <<now, dbVars, cache, prev, dedup, job, todo, at, feedVars, open,
                   cancelled>>

\* Mutant: a closed queue is retried instead of given up.
SendClosedRetries == pc = "send" /\ ~open /\ UNCHANGED vars

\* ... and fails when the service is gone; the error is only logged.
SendClosed ==
    /\ pc = "send" /\ ~open
    /\ fired' = [fired EXCEPT ![at].handed = "closed"]
    /\ pc' = "save"
    /\ UNCHANGED <<now, dbVars, cache, prev, dedup, job, todo, at, feedVars, notifyVars,
                   cancelled>>

\* persist_triggered: UPDATE ... WHERE id, with a time of its own.  A row
\* deleted meanwhile is simply not there.
Persist ==
    /\ pc = "save"
    /\ IF db[at] # NoRow
         THEN /\ db' = [db EXCEPT ![at].last = now]
              /\ fired' = [fired EXCEPT ![at].saved = TRUE]
         ELSE UNCHANGED <<db, fired>>
    /\ at' = NoAlert
    /\ Resume(todo, job)
    /\ UNCHANGED <<now, born, cache, prev, dedup, feedVars, notifyVars,
                   cancelled>>

\* The UPDATE fails: logged, and the dedup map keeps the new time for now.
PersistFails ==
    /\ MayFailSave
    /\ pc = "save"
    /\ at' = NoAlert
    /\ Resume(todo, job)
    /\ UNCHANGED <<now, dbVars, cache, prev, dedup, feedVars, notifyVars,
                   cancelled, fired>>

-----------------------------------------------------------------------------
(***************************************************************************)
(* The notify service, seen from its queue, and the life of the process.   *)
(***************************************************************************)
Deliver ==
    /\ open /\ queue # << >>
    /\ queue' = Tail(queue)
    /\ UNCHANGED <<now, dbVars, engineVars, feedVars, open, cancelled, fired>>

\* Its select is not biased: on cancellation it may leave messages behind.
ServiceStop ==
    /\ cancelled /\ open
    /\ open' = FALSE
    /\ queue' = << >>
    /\ UNCHANGED <<now, dbVars, engineVars, feedVars, cancelled, fired>>

Cancel ==
    /\ MayCancel /\ pc # "down" /\ ~cancelled
    /\ cancelled' = TRUE
    /\ UNCHANGED <<now, dbVars, engineVars, feedVars, notifyVars, fired>>

\* The cancel arm has priority at every select.
EngineStop ==
    /\ pc = "select" /\ cancelled
    /\ pc' = "stopped"
    /\ UNCHANGED <<now, dbVars, cache, prev, dedup, job, todo, at, feedVars, notifyVars,
                   cancelled, fired>>

ProcessEnds ==
    /\ pc' = "down"
    /\ cache' = NoRules /\ prev' = NoPrices /\ dedup' = NoStamps
    /\ job' = NoJob /\ todo' = {} /\ at' = NoAlert
    /\ feed' = << >> /\ lagged' = FALSE /\ queue' = << >>
    /\ open' = FALSE
    /\ cancelled' = FALSE
    /\ UNCHANGED <<now, dbVars, fired>>

\* main() has joined every task.
Exit == pc = "stopped" /\ ~open /\ ProcessEnds

Crash == MayCrash /\ pc # "down" /\ ProcessEnds

Start ==
    /\ pc = "down"
    /\ pc' = "init"
    /\ open' = TRUE
    /\ UNCHANGED <<now, dbVars, cache, prev, dedup, job, todo, at, feedVars, queue,
                   cancelled, fired>>

-----------------------------------------------------------------------------
Scan   == \E a \in Alert : Skip(a) \/ Fire(a)
Send   == Enqueue \/ SendClosed
Save   == Persist \/ PersistFails
Engine == InitialRefresh \/ PeriodicRefresh \/ RecvLagged \/ Recv \/ Scan \/ Send
            \/ Save \/ EngineStop

Next == \/ Tick
        \/ Bot
        \/ \E u \in Update : Publish(u)
        \/ Engine
        \/ Deliver \/ ServiceStop
        \/ Cancel \/ Exit \/ Crash \/ Start

Spec == Init /\ [][Next]_vars

(***************************************************************************)
(* The runtime keeps polling a task that can move; the refresh timer is    *)
(* polled before the feed, so a due refresh is never postponed for ever.   *)
(* The database answers again some day (a refresh may fail, not always).   *)
(* Nothing is assumed of users, of the market, of crashes or of Cancel.    *)
(***************************************************************************)
Fairness == /\ WF_vars(InitialRefresh) /\ WF_vars(Recv) /\ WF_vars(RecvLagged)
            /\ WF_vars(Scan) /\ WF_vars(Send) /\ WF_vars(Save) /\ WF_vars(EngineStop)
            /\ SF_vars(PeriodicRefresh)
            /\ WF_vars(Deliver) /\ WF_vars(ServiceStop) /\ WF_vars(Exit)

FairSpec == Spec /\ Fairness

-----------------------------------------------------------------------------
\* The values every variable keeps; what the process's memory may hold in
\* each phase is part of it, since handlers rely on it.
TypeOK ==
    /\ now \in Time
    /\ db \in [Alert -> Row \cup {NoRow}]
    /\ born \subseteq Alert
    /\ pc \in Running \cup {"stopped", "down"}
    /\ cache \in [Alert -> [kind : Kind, threshold : Price] \cup {NoRule}]
    /\ prev \in [Token -> Price \cup {NoPrice}]
    /\ dedup \in [Alert -> Stamp]
    /\ job \in Job \cup {NoJob}
    /\ todo \subseteq Alert
    /\ at \in IF pc \in {"send", "save"} THEN Alert ELSE {NoAlert}
    /\ feed \in Seq(Update) /\ Len(feed) <= FeedCap
    /\ lagged \in BOOLEAN
    /\ queue \in Seq(Alert) /\ Len(queue) <= QueueCap
    /\ open \in BOOLEAN
    /\ cancelled \in BOOLEAN
    /\ fired \in [Alert -> Firing]

-----------------------------------------------------------------------------
Policy == INSTANCE FiringPolicy
            WITH firedAt <- [a \in Alert |-> fired[a].at],
                 durable <- [a \in Alert |-> fired[a].saved]

\* Whatever crashes, restarts, failed writes and cache refreshes do, an alert
\* whose last firing reached the alerts table does not fire again before its
\* cooldown is over (dedup.rs can_fire / load_from_alerts, persist_triggered).
ImplementsPolicy == Policy!Spec

\* Why it does: the row, and while a rule is cached the dedup map, are never
\* behind the last saved firing; no rule is looked at that is not cached; and
\* while a firing is being sent or saved the dedup map holds its time.
RowsRemember  == \A a \in Alert : fired[a].saved /\ db[a] # NoRow =>
                    db[a].last # Never /\ db[a].last >= fired[a].at
CacheRemembers == \A a \in Alert : fired[a].saved /\ cache[a] # NoRule =>
                    dedup[a] # Never /\ dedup[a] >= fired[a].at
SavedHappened == \A a \in Alert :
                    /\ db[a] # NoRow \/ fired[a].saved => a \in born
                    /\ fired[a].saved => fired[a].at # Never
                    /\ fired[a].at # Never => fired[a].at <= now
TodoIsCached  == /\ \A a \in todo : cache[a] # NoRule
                 /\ pc # "scan" /\ pc # "send" /\ pc # "save" => todo = {}
AtHasFired    == pc \in {"send", "save"} =>
                    dedup[at] # Never /\ dedup[at] = fired[at].at

\* No crash, restart, refresh or edit makes the engine forget a saved firing
\* (load_from_alerts, mark_fired, persist_triggered); inductive with TypeOK.
EngineRemembers == /\ RowsRemember /\ CacheRemembers /\ SavedHappened
                   /\ TodoIsCached /\ AtHasFired

\* The last firing of a is in the notify service's queue, or the queue was closed,
\* as it is once a shutdown has begun.
HandedOver(a) == \/ fired[a].handed = "queued"
                 \/ fired[a].handed = "closed" /\ cancelled

\* A firing is recorded as triggered only after the notify service has its
\* notification: a crash between the two repeats the alert, it does not swallow
\* it.  The one firing that is recorded although nobody took it is one that a
\* shutdown overtook: the error of a closed queue is only logged
\* (handle_price_update: send, then persist).
SavedWasHandedOver ==
    [][\A a \in Alert : fired'[a].saved /\ ~fired[a].saved => HandedOver(a)]_vars

\* dedup.rs:3-5: several ticks within the cooldown produce one notification.
NoRepeatInCooldown ==
    [][\A a \in Alert :
         fired[a].at # Never /\ fired'[a] # fired[a] /\ fired'[a].handed = "no"
           => now - fired[a].at > Cooldown]_vars

\* What the database wants the cache to hold for an alert.
Wanted(a) == IF Loadable(a) THEN RuleOf(db[a]) ELSE NoRule

\* An edit of the table (a new, changed or removed alert) that lasts reaches
\* the rule cache of a running engine: busy feeds, blocked sends and failed
\* refreshes only delay it (run: the refresh arm comes before the feed).
CacheConverges ==
    \A a \in Alert, r \in Rule \cup {NoRule} :
        Wanted(a) = r ~> (cache[a] = r \/ Wanted(a) # r \/ cancelled \/ pc = "down")

\* The engine never waits for ever to hand a notification over, not even
\* when the queue is full while the service shuts down.
SendCompletes == pc = "send" ~> pc \in {"save", "down"}
=============================================================================
