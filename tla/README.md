# poly-notifier: a verification project

poly-notifier watches Polymarket prices and sends Telegram messages when a
user's alert condition holds. It is one Rust process of tokio tasks that share a
SQLite database and two channels. This directory holds TLA+ models of its core,
TLC configurations that check them on small instances, and theorems about them
that TLAPS checks for every value of the constants.

Contents: [inventory](#1-inventory), [plan](#2-plan),
[modules](#3-modules-and-the-code-they-model), [runs](#4-runs),
[fairness](#5-fairness), [proofs](#6-proofs), [findings](#7-where-code-and-text-disagree),
[limits](#8-what-is-not-modelled-and-what-is-assumed).

## 1. Inventory

```
 Polymarket WS ──> PolymarketWs ─unbounded mpsc─> ConnectionManager     MonitorService
                    (session)                      (connection task) <── starts, cancels, awaits
                                                        │
                                        broadcast(4096) │ PriceUpdate
                                                        v
  Telegram users ──> bot (handlers, dialogues)     AlertEngine (rule cache, dedup map, prev prices)
                          │        │                    │
                          v        v    mpsc(1024)      │ NotificationRequest
                    SQLite: users, subscriptions,       v
                    alerts, markets,  <──────────  NotifyService (RateLimiter) ──> Telegram
                    notification_log                    ^
                          └───────── DailySummaryJob ───┘
```

`main` starts every task, waits for ctrl-C, cancels one token and joins them.

| component | state it keeps | operations | hard behaviour | what makes it correct |
|---|---|---|---|---|
| `AlertEngine` (pn-alert/engine.rs) | rule cache, dedup map, previous prices, token maps; all memory | `run` select loop; `refresh_cache`; `handle_price_update`; `persist_triggered`; price flush | suspends at `send` and at each UPDATE while the bot edits the table; lagged broadcast; full or closed queue; failing UPDATE; crash between send and UPDATE; refresh overwriting the dedup map | a firing that reached the table is not repeated in its cooldown; none is recorded before it was handed over; edits reach the cache; shutdown gets through |
| `AlertRule`, `AlertDedup` (rules.rs, dedup.rs) | time of the last firing per alert | `evaluate`, `can_fire`, `mark_fired`, `load_from_alerts` | thresholds met exactly, first tick, lost ticks, `>` against `>=` | a crossing fires once and nothing else does |
| `NotifyService` (pn-notify/service.rs) | the request in hand; the queue | `run`, `handle`, `send_with_retries`, `log_attempt` | answers lost, retries, slow Telegram, failing queries, crash, cancellation against a full queue | the log tells the truth, messages keep their order, rate bound, every request is taken up, shutdown |
| `RateLimiter` (rate_limiter.rs) | count and window start per chat | `check_and_consume` | window boundary, truncated seconds | bound per window and per any window's length, nobody refused early |
| `BotRegistry` (telegram.rs) | bots by id | `register`, `send_message` | unknown bot, delivery whose answer is lost | (part of the notification service) |
| `MonitorService` (pn-monitor/service.rs) | current token set, child token and join handle of the connection task | `run`, `fetch_token_ids_with_retry`, `spawn_connection` | token set changing while a task is stopped; cancellation outside the select; task that dies | one connection, for the right tokens; converges; shutdown |
| `ConnectionManager` (manager.rs) | attempt counter, session, event channel | `run`, `calculate_backoff` | session ending with unread events, abort, saturating backoff | prices in order and none lost before the session's end; patient reconnect |
| `PolymarketWs` (pn-polymarket/ws.rs) | socket | `run`, parsing | dial, ping, close, errors at any time | (environment of the manager) |
| bot (pn-bot) | dialogue state per chat; users, subscriptions, alerts, feedback rows | commands, callbacks, the subscribe and alert dialogues; `run_bot`, which starts and stops a dispatcher | count-then-insert quotas, several chats of one user, old keyboards, failure between two INSERTs, read-then-insert of the hourly feedback, ctrl-C before the dispatcher is at work | quota and tier limits, no half-made subscription, feedback once an hour, shutdown |
| database layer (pn-common/db.rs) | tables | queries, `get_or_create_user` | select-then-insert races, lookup by chat alone | one account per person and bot, no update lost |
| `DailySummaryJob` (pn-scheduler) | next cron instant | `run`, `send_summaries` | clock read twice, summary that outlasts an instant, full or closed channel, prices stored as strings | one summary per instant, each user on his own |
| price flush (pn-alert/engine.rs:343-428) | `condition_tokens`, `markets.last_prices` | `refresh_condition_tokens`, `flush_prices_to_db` | failed UPDATE or SELECT, restart, last flush under cancellation | stored prices do not go back, none left behind |
| `main` | one token, the two channels | start, ctrl-C, two joins | tasks waiting at a channel whose other end leaves | shutdown completes |
| admin API (pn-admin) | none | two UPDATEs, read-only queries | changes tier and limits under running dialogues | (part of the bot's quotas) |
| Gamma and CLOB clients | none | HTTP GET | none of state | not modelled |
| configuration, models, events, errors | none | | | constants and records of the modules |

`PROJECT.json` lists the same components with their status, and under `hazards`
each place in the code that is hard to test, with the property that watches it.

## 2. Plan

Order of work, the most important behaviour first; every item is checked and proved
as far as the prover reaches (section 6).

1. **Alert engine** - `AlertRules`, `AlertEngine`, its abstract specification
   `FiringPolicy`, `CrossDetection`.
2. **Notification service** - `RateLimiter`, and `NotifyService`, which contains it
   through INSTANCE.
3. **Monitor** - `Monitor`: service, connection task and session in one module.
4. **Bot dialogues** - `BotDialogue`: the dialogue of each chat, updates of one
   chat in sequence and of different chats concurrently, the threshold handlers
   cut at their queries, the admin's changes of tier and limit.
5. **Prices at rest and the daily summary** - `PriceFlush`, `DailySummary`.
6. **Process** - `Process` composes the two of item 5, as they are, with the
   notification service, the bots and `main` on one channel and one token.
7. **Accounts** - `Accounts`: `get_or_create_user` and the commands that write.

Abstract specifications, each with what implements it: `FiringPolicy` (the alert engine),
`RateLimiter` (the notification service), `PriceFlush` and `DailySummary` (the process), and
`NotificationChannel` (both the service by itself and the process).

What is left: liveness stays with TLC (section 6), and the commands that only read are not
modelled.

## 3. Modules and the code they model

Every module follows the same two conventions. A tokio task is one sequential
actor; its steps are the pieces of code *between awaits*, because nothing else
can touch what the task owns inside such a piece. Everything kept in memory is
lost when the process ends (action `ProcessEnds`, by `Crash` at any moment or
after cancellation); everything in SQLite survives.

### AlertRules, CrossDetection
`Evaluate` is `AlertRule::evaluate`: above and below are inclusive, cross is
strict on the side it comes from and inclusive on the side it goes to.
`CrossDetection` drives the cross rule along any path of prices as
`handle_price_update` does - the previous price is that of the last tick *taken*,
so a path with jumps is also what a lagging engine sees - with edits of the
threshold and restarts. Two history variables, the side prices were last on and
whether the rule has held since, let `CrossedExactlyOnce` speak of a crossing
that takes many ticks.

### AlertEngine
| variable | code |
|---|---|
| `db` | rows of `alerts`; `last` is `last_triggered_at` |
| `cache`, `prev`, `dedup` | `rule_cache`, `prev_prices`, `AlertDedup.last_triggered` |
| `pc`, `job`, `todo`, `at` | position in `run`/`handle_price_update`, the tick and the rules left |
| `feed`, `lagged` | the broadcast receiver; a full one overwrites and reports `Lagged` |
| `queue`, `open` | the notification channel and whether its receiver lives |
| `fired` | history: the last firing of each alert, whether it was queued, whether its UPDATE took effect |

`Recv` stores the price before any rule is looked at, then rules are scanned in
any order (the code iterates a hash map's vector). `Fire` is `mark_fired` up to
the await of `send`; `Enqueue`/`SendClosed` are the two ends of that await;
`Persist`/`PersistFails` those of the UPDATE. `LoadRules` is `refresh_cache` with
`load_from_alerts`: it *overwrites* times in the dedup map, whether newer or not.
The SELECT and the replacement of the cache are one step: the engine reads
nothing in between, so an edit that falls there is the same as one just after.
`FiringPolicy` is the abstract promise: a firing recorded on disk keeps its alert
silent for the cooldown. It knows no cache, no refresh and no process.

### RateLimiter, NotifyService
`CheckAndConsume` is one step because the code holds the map entry's lock
throughout. The limiter's variables are the service's:
`Limiter == INSTANCE RateLimiter WITH User <- Chat`; the service adds the restarts at which
every window is forgotten, and re-states the limiter's properties
(`CallsInWindows`, `RefusedOnlyWhenFull`) of its own behaviours. Two histories: `accepted`, the
calls that passed, each with its window and its place in it, and `refused`, those that did not,
with their time; the second is what lets `RefusedOnlyWhenFull` speak of every refusal, those
that follow another one included.

The service is one task: `Receive` (the select), `Resolve`/`ResolveUnknown`/`ResolveFails`
(`resolve_user_id_by_telegram` and the limiter, which is asked before the next
await), `SendOk`/`SendFails`/`Retry` (`send_with_retries`),
`LogAttempt`/`LogFails`, `Stop`. `SendFails` covers the lost answer: the message may
have been delivered all the same. `Resolve` takes any account of the chat, which is what
`SELECT ... LIMIT 1` without an ORDER BY promises. Three histories: `order`, the requests as they
entered the queue, `inbox`, the messages as they reached Telegram's chats, and `found`, the
rows of the log that were there when the process started.

### NotificationChannel
What the senders and `main` see of the service, all that it does with a request hidden: `Begin`,
`Send` into a free place, `Take` and `Done` of one request at a time, `Cancel`, `Leave` between
two requests, `End` of the process. `NotifyService` is shown to keep these rules, and `Process`,
whose service is a few lines, both to keep them and to leave out nothing they allow.

### Monitor
Three layers of tasks in one module, because their interplay is the point.
`spc`, `ids`, `newIds`, `cur` are the locals of `MonitorService::run`; `task[c]`
is a connection task with its child token, its session and its unread events.
`ManagerEnds` is the biased cancel arm wherever the manager waits; `SessionOver`
happens only after the closed channel is drained, as `recv()` returns `None`
only then. `Panic` ends a task anywhere, which the service finds out by its join
handle (`ConnExited`). The market numbers its ticks, so that `MarketOrder` can say that
the broadcast never goes back.

### BotDialogue
| variable | code |
|---|---|
| `dialogue` | `InMemStorage<DialogueState>`, by chat: every variant of `DialogueState`, with the market, outcome and subscription it carries |
| `job` | the threshold handler a chat is running: how far it is, and the `User` row it has read |
| `tier`, `limit` | the users row |
| `rows`, `born`, `alerts` | subscriptions (ids by AUTOINCREMENT, so none is used twice) and the number of alerts of each; the foreign key cascades |
| `top`, `paid`, `halfMade` | history: the highest limit of a user, where a paying user added an alert, where a handler broke off before the alert |

The dispatcher keeps the updates of a chat in sequence, so a chat has one handler
at a time and the conflicts are between chats: a user's private chat and a group, or
two groups. The dialogue belongs to the chat, so any member may answer it; the
account is that of whoever sends the threshold. Handlers that only move the
dialogue read the tables once at most and are one step; when Telegram refuses an
answer they end before they move it, which is a stutter. The two threshold
handlers are cut at every query: `SubscribeThreshold` (the `User` row), `QuotaFull`/`QuotaOk`,
`InsertSubscription`/`AlreadySubscribed`, `SelectSubscription`/`SubscriptionGone`,
`AttachAlert`; and `AlertThreshold`, `CountAlerts`, then `UpdateAlert` or `AttachAlert`. Buttons stay on
the screen: `OutcomeSelection` takes any index of `Index`, `MarketSelection` one past
the list, `AlertSubscription` any id the members ever had. `CallbackUnsubscribe` only
happens while the dialogue waits for no other button, because in the schema the
dialogue's branches come first (lib.rs:225).

### PriceFlush
The engine's other work, which shares nothing with the rules but `prev_prices`:
`condition_tokens` (`condition`), rebuilt by `Refresh` or left as it was when a
SELECT fails; `StartFlush`, by the timer or, as the last act of `run`, by cancellation
(the select is biased: a cancelled engine does nothing else); then per market
`SkipMarket`, `FlushMarket` or `FlushFails`. A price is named by the number of the market event that
brought it, so that older and newer can be told apart; zero is no price, in memory
as in the table, where `unwrap_or(Decimal::ZERO)` writes it. After `TakePrice` the rules of the token
may fire, any number of them: each is a `Sent`.

### DailySummary
`Plan` and `Arm` are the two readings of the clock that make up one delay
(daily_summary.rs:108-117), with `Tick` free to come between them; `Wake` when the
sleep is over, however late; `Fetch` the SELECT whose snapshot the summary works on;
then per user `SkipUser`, `Hand` or `HandFails`. Of `format_summary` only whether it fails is kept: `unreadable` are
the users of the snapshot with a market the engine has flushed.

### Process
`Flush == INSTANCE PriceFlush`, `Summary == INSTANCE DailySummary`: their actions are taken as
they stand, on the same `subs`, `flushed` and `cancelled`; where the modules alone leave a choice
(who takes from the channel, when the engine sends), `Process` decides it.

| variable | code |
|---|---|
| `queue`, `open` | the notification channel; engine (`EngineSend`) and scheduler (`Summary!Hand`) wait for a place in it, or get an error when it is closed |
| `npc` | the notification service seen from the channel: idle, busy with a request, stopped |
| `mpc` | `main`: up, joining the services, then the bots |
| `bot`, `stopper` | `run_bot` between `set_my_commands`, the spawn of the stopper task, `dispatch()` and its return |
| `load` | what a behaviour may have (which events, ticks, users): a bound only, chosen once in `Init` |

`StopBot` is the stopper: `shutdown_token.shutdown()` answers `Err` unless the dispatcher is
at work, and `if let Ok` drops the error.

### Accounts
One SQL statement per step. `Select`, then `Insert`/`InsertLoses`/`Rename` are
`get_or_create_user`; `SetTimezone`, `LastFeedback`/`Judge`/`InsertFeedback` what follows
in /timezone and /feedback. One handler per chat at a time, as many of one person as chats he
writes in. `created_at` is cut to whole seconds (`datetime('now')`), the `Utc::now()`
it is compared with is not. Histories: `told`, the value last written to each
column, and `lost`, messages that failed on `UNIQUE(telegram_id, bot_id)`.

## 4. Runs

Each passing run must end without error and check a question of its own. The
bounds are constants or stand in guards: `MaxTime` (clock), `MaxTick` (market
events), the finite sets of alerts, requests and tokens, and channel capacities.

| run | question | bounds, and why they are enough |
|---|---|---|
| `engine_safe` | May the engine forget a saved firing, or repeat one within its cooldown? (`EngineRemembers`, `ImplementsPolicy`, `TypeOK`) | Two alerts of one subscription, so that one waits in `todo` while the other is sent and saved and both vanish by one cascade; `above` and `cross` rules edited in place; clock 0..2 with cooldown 1: fire, cool down, fire again. Feed of one: the second unread tick is already a loss. No shutdown here (the other run has it): a graceful end loses the same memory as a crash. |
| `engine_live` | Does the engine get through a full or closed queue, do edits arrive, is a firing recorded only once its notification was queued, or turned away in a shutdown? (`SendCompletes`, `CacheConverges`, `SavedWasHandedOver`) | Queue of one and two alerts on one tick: the second send blocks. The clock stands still, since nothing in these properties waits for time. |
| `engine_repeat` (violation) | Does the dedup map alone prevent repeats? | One alert, no crash, one failed UPDATE. |
| `cross` | Does the cross rule hold once per crossing and never otherwise? (`CrossedExactlyOnce`, `HoldsOnlyOnArrival`, `TypeOK`) | Nine prices: more than enough distinct positions around a threshold, on each side of it and at it, for jumps and edits. |
| `notify` | Does the log tell the truth, do messages keep their order, is every request taken up? (`LogTruthful`, `InOrder`, `TakenUp`, `TypeOK`) | Three requests to two chats through a registered and an unregistered bot, two attempts, queue of two, failing queries, crashes, restarts and shutdown: a retry, a lost answer and a late duplicate fit between two requests. The clock stands still: these properties do not wait for a window to end. |
| `notify_rate` | Do windows stay disjoint and within the maximum, is no call refused early, the second in a row included, and how much may be logged as delivered to one chat in a window's length when Telegram is slow? (`CallsInWindows`, `RefusedOnlyWhenFull`, `DeliveriesBounded`) | Five interchangeable requests to one chat, one more than the bound of 2 * 2; windows of two ticks on a clock of 0..3, so that windows follow each other with bursts at both ends and one call can be refused in a window's last tick and another come just after it; and crashes and restarts at any time: the windows are forgotten, so the bound of `DeliveriesBounded` is for the rows of one process. |
| `monitor` | One connection, prices in order, patient backoff; does the stream converge to the subscribed tokens, are received prices forwarded, does shutdown leave nothing behind? (`OneConnection`, `MarketOrder`, `PatientReconnect`, `StreamsConverge`, `EventsForwarded`, `CancelStops`, `TypeOK`) | One token that comes and goes (the two properties in which tokens could interfere, `OneConnection` and `MarketOrder`, are proved for any set), three market events, two task names (an old and a new one; `OneConnection` says that a third is never needed), backoffs 1, 2, 3 (the maximum), power saturating at 4, panics. |
| `bot` | How far do races between chats take a user over his limit or a free subscription over its one alert, and no further? Does every subscription get its alert, or a handler that failed? Does an alert go to the market that was on the screen? (`QuotaOvershoot`, `FreeAlertsBounded`, `SubscriptionHasAlert`, `AlertWhereShown`, `TypeOK`) | Two chats are the smallest race, and one of them is a group of two users. Two markets of one outcome, so that keys collide; two subscription ids, so that unsubscribing and subscribing again happens inside a handler; limits 0 and 1, moved by the admin for the second user, the first keeping the default; two alerts per subscription, one more than a free user should have. Failing queries, failing answers and restarts at any moment. |
| `accounts` | What may the race of first messages cost, is a column ever written over, how far apart are two feedbacks? (`RaceBounded`, `NoLostUpdate`, `FeedbackSpaced`, `TypeOK`) | One person in two chats and a group, another in the group only. Either /start with two names, /timezone and other commands in all three chats at once, or feedback of both in two chats on a clock of 0..5 with an hour of four ticks and a second of two: a feedback just before and just after the hour, on both sides of a second. Every message may have been answered, hence no deadlock check. |
| `process` | Do stored prices go back, does the last flush leave something behind, are failed writes made up for, one summary per instant and each user on his own, does ctrl-C end the process? (`PricesGoForward`, `LastFlushSaves`, `PricesCatchUp`, `OncePerInstant`, `EachOnHisOwn`, `ShutdownCompletes`, `TypeOK`) | A channel of one place. Four kinds of behaviour, each long in one respect: two events on both outcomes of one market, with crashes, failing UPDATEs and a user who leaves; a summary for two users beside an alert in the channel; a clock over two instants, with crashes between; bots that are still starting. |
| `bot_stop` (violation) | Does ctrl-C stop a bot that is still starting? | One bot. |
| `summary_numbers` (violation) | Does every subscriber get his summary? | Two subscribers, one price. |

Symmetry is used only where the constants it permutes are interchangeable and the
run has no liveness property.

Every property has a mutant of a mapped definition, kept beside the definition it
changes and marked `Mutant:`. Each is a bug somebody could write (seeding dropped,
`>=` for `>`, the row saved before the send, the old connection not awaited, an
uncounted retry, ...), and the run finds the property violated by it.

## 5. Fairness

Weak fairness of a task's step: the tokio runtime polls a task that can move.
Beyond that:

- `PeriodicRefresh` (engine) and, in `Process`, `Refresh` and `StartFlush` are strongly
  fair. Their arms come before the feed in the biased select (engine.rs:177-203), so a
  due timer waits for one tick at most, however busy the feed is; and a failed
  SELECT leaves everything as it was and is tried again, so strong fairness says
  only that the database does not fail for ever.
- `FlushMarket` (`Process`) is strongly fair for each market: its UPDATE is tried again by
  every flush and does not fail for ever.
- `EngineSend` (`Process`) is strongly fair, as the last send of its tick: tokio's bounded
  channel hands out places in the order they were asked for, so the scheduler cannot take
  every one of them, and a token has finitely many rules.
- `Stop` (notification service; `ServiceStop` in `Process`) is strongly fair: its select is
  not biased, tokio picks a ready arm at random, and the cancel arm is ready at every
  select from cancellation on.
- `Fetch`, `Refresh` and `Open` (monitor) are strongly fair: queries and dials may
  fail or be interrupted any number of times, not for ever; and a connection task does
  not panic for ever (`<>[][~Panic]`): one that panics each time before it connects never
  streams.
- Telegram calls and queries end, in an answer or an error (client and pool
  timeouts); nothing says they succeed.

No fairness is assumed of users, the market, crashes, cancellation, or start.

## 6. Proofs

TLAPS checks these for every value of the constants that meets the named ASSUMEs
of the modules (TLC evaluates them on each run). Of the properties of the passing
runs every invariant and every action property is proved; the table names the property
each theorem states.

| module | theorems |
|---|---|
| `AlertEngine_proofs` | `TypeCorrect`, `Remembering` (`EngineRemembers`), `EngineImplementsPolicy` (`Spec => Policy!Spec`), `NeverSwallowed` (`SavedWasHandedOver`), `OnceWithoutFailures` (`NoRepeatInCooldown`, if nothing fails) |
| `CrossDetection_proofs` | `TypeCorrect`, `ExactlyOnce` (`CrossedExactlyOnce`), `OnlyOnArrival` (`HoldsOnlyOnArrival`) |
| `RateLimiter_proofs` | `TypeCorrect`, `WindowsFollow` (`CallsInWindows`), `TwiceMaxPasses` (`AtMostTwiceMax`), `RefusalsAreDue` (`RefusedOnlyWhenFull`) |
| `NotifyService_proofs` | `TypeCorrect`, `WindowsFollow`, `RefusalsAreDue` (the limiter's two, of the service), `NeverOvertaken` (`InOrder`), `LogIsTrue` (`LogTruthful`), `LoggedAtMostTwiceMax` (`DeliveriesBounded`), `ServiceKeepsChannel` (`Spec => Channel!Spec`) |
| `Monitor_proofs` | `TypeCorrect`, `NeverTwo` (`OneConnection`), `NeverBackInTime` (`MarketOrder`), `EverLongerDelays` (`PatientReconnect`) |
| `BotDialogue_proofs` | `TypeCorrect`, `ShownIsMeant` (`AlertWhereShown`), `OvershootBounded` (`QuotaOvershoot`), `AlertOnItsWay` (`SubscriptionHasAlert`), `FreeAlertsAreFew` (`FreeAlertsBounded`), `OneChatKeepsPlan` (`WithinPlan`) |
| `Accounts_proofs` | `TypeCorrect`, `RaceCosts` (`RaceBounded`), `NothingOverwritten` (`NoLostUpdate`), `FeedbackRate` (`FeedbackSpaced`), `OneChatInTurn` (`TakenInTurn`) |
| `Process_proofs` | `EngineFlushes` (`Spec => Flush!Spec`), `SchedulerSummarises` (`Spec => Summary!Spec`), `TypeCorrect`, `NeverAnOlderPrice` (`PricesGoForward`), `NothingLeftUnsaved` (`LastFlushSaves`), `OnceForEachInstant` (`OncePerInstant`), `EveryUserDealtWith` (`EachOnHisOwn`), `ChannelInProcess` (`Spec => Channel!Spec`), `EveryServiceFits` |

**The engine.** That a saved firing is not repeated is not inductive by itself:
`can_fire` reads the dedup map, which a refresh overwrites from the rows, which a
failed UPDATE leaves behind. `EngineRemembers` is the strengthening. Rows are
never behind the last *saved* firing (`RowsRemember`); while a rule is cached its
entry in the dedup map is not behind either (`CacheRemembers`) - kept by a refresh
because of `RowsRemember`, and by a restart because an empty cache has no rules;
only cached rules are looked at (`TodoIsCached`); and during a send or an UPDATE
the dedup map holds the very time of the firing in hand (`AtHasFired`), which is why
the UPDATE re-establishes the first two. `Fire` then maps to `Policy!Fire` since
`now - dedup > cooldown` and `dedup >= fired.at`, `Persist` of a row that is still there maps to
`Policy!Confirm`, `Tick` to `Tick`, and every other step to a stutter.
`NeverSwallowed` is about the one step that records a firing, `Persist`; what it needs of the states
before is `SentFirst`: at its UPDATE the engine has handed the firing over or been refused,
and the queue of a running process is closed only once the token is cancelled.

`EngineImplementsPolicy` speaks of saved firings only, and the run `engine_repeat` shows why.
`OnceWithoutFailures` is the other half: with no failing UPDATE and no crash, no firing at all is
repeated within its cooldown. Its two hypotheses are values of the constants that
switch these events off; edits, refreshes, lost ticks and graceful restarts remain.
The invariant `Knows` says that the dedup entry of a cached rule is not behind its last firing,
and no row still there is, except while that very firing is on its way from `Fire` to `Persist`;
and no refresh falls there.

**The cross rule.** The type invariant says where the previous price is: strictly on
the side prices were last on, unless the rule has held since, in which case it
rests at the threshold. From it both action properties follow case by case.

**The limiter.** `CallsInWindows` is inductive with the types: an entry's count is that of the
accepted calls since its start, and the windows before it ended by then. At most two
of them meet any `Window` ticks, hence `TwiceMaxPasses`. A refusal is due when it is made because the
accepted calls of the current window are `Max` different ones (`Counted`, an injection
into the set of calls: `RefusalJustified`), whatever was refused before it, and stays due
because accepted calls only grow (`RefusalsKept`).

**The notification service.** A step of the service is a step of the limiter, a stutter or
the loss of all windows (`LimiterSteps`), so that the limiter's step lemmas are used
again through INSTANCE. For the order, `Lane`: what is queued is the end of `order`, the
request in hand stands just before it, no request stands twice, and what has
reached the inbox stands no later than the request in hand. For the log, `Ledger`:
rows are of requests that have gone by, one each, and the outcome about to be
written is true already; it rests on `Lane`, by which the request in hand has no row yet.

`DeliveriesBounded` counts rows by the time they were written, and the limiter counts calls by
the time they were made; between the two lie retries of any length. What saves the bound is that the
service does one request at a time. `Meter` splits the delivered rows of this process at the
start of the current window: those since are no more than the window's accepted calls, less the
request in hand when it is one of them (`Used`); those before lie no later than that start,
and at most `Max` of them in the last `Window` ticks before it. Hence no `Window` ticks hold more
than twice `Max` (`TwoWindows`). A call counts in the current window or opens the next, in
which case what was delivered in the last window is within `Max` (`CallOfLimiter`); a row
uses up the call in hand (`RowOfWindow`); a crash begins with nothing delivered (`found`).

`ServiceKeepsChannel` maps every step to a step of `NotificationChannel` or a stutter:
`Receive` is `Take`, the steps that end a request are `Done`, `Stop` is `End`; `Nothing` (a
service that is away leaves neither queue nor cancellation behind) is all it needs.

**The monitor.** `OneConnection` is inductive as it stands: it names the place in the code
(`watch`, `swap`, `closing`) at which a task may live, and the service spawns at another. For `MarketOrder`,
`Waiting`: the events of the live session come in market order and after whatever has
been shown; a dead task's are never read. For `PatientReconnect`, `Paced`: the delay in hand is
that of the attempt before, `Backoff(attempt - 1)`. The rest is arithmetic without
induction: powers of two as the number of subsets (`NextPower`, `PowerGrows`), so that the
delay grows strictly until the cap, and the saturated power lies above any cap
that the saturated product can reach (`BackoffGrows`).

**The dialogues.** `TypeOK` says more than types: `DialogueHolds` and `HandlerHolds`
are what the code takes for granted (the dialogue a handler was started from does not
move while it runs, the id it holds was handed out once, the limit it read was in
force once). `OneChatMoves` is the one lemma behind most steps: a chat's dialogue and
handler rest only on things that grow. `ShownIsMeant` then needs no more than that an
insert takes an id no dialogue holds. For `OvershootBounded` the handlers that passed the
check count already: `Cardinality(SubsOf) + Cardinality(Admitted)` is inductive, since
the check leaves at most `top - 1` subscriptions and a chat for each admitted handler
(`QuotaOkKeepsOvershoot`), an insert turns one admitted handler into one subscription
(`InsertKeepsOvershoot`), and no other step adds to either (`NoMoreOvershoot`).
`FreeAlertsAreFew` counts the same way: alerts of a subscription plus handlers past their count
that will add one; and all of these are in chats of the subscription's owner (`OwnersChat`: an id
in the hands of a dialogue or handler is gone or belongs to a member of that chat), which is why the bound is the number of his chats. `OneChatKeepsPlan`
draws the conclusion for a user of one chat: he keeps to his plan exactly, so that
whatever exceeds it is a race of two chats and nothing else. `AlertOnItsWay` needs `OneRow`, that no two rows have the same key: the
handler looks its subscription up again by key, and finds the one it inserted or
that of a handler still at work.

**The accounts.** `RaceBounded` counts messages lost plus handlers at their INSERT
(`Budget`): before the account exists nothing is lost, and the one that makes it leaves fewer
such handlers than chats. `FeedbackSpaced` needs what a handler knows of its own chat: at
`judge` its last time is not before any earlier feedback from there, cut to the second
(`KnowsLast`), so that at `write` an hour has gone by (`HourGone`). `OneChatInTurn` combines both
for a person of one chat, whose feedbacks all came from it (`OwnFeedback`): no message lost, and
every two feedbacks spaced.

**The process.** `Steps` shows that each step of `Process` is a step, or a stutter, of
`PriceFlush` and one of `DailySummary`; all it needs is `Together`, that engine, scheduler and
`main` go up and down together. The properties then come from invariants of the parts, proved of the steps
of the parts alone. `PricesInv`: memory is not behind the table unless it holds no price
(`MemoryAhead`), and in the last flush what has been dealt with is saved
(`FinalSaved`). `JobInv`: the planned instant is later than that of the last summary,
the sleep does not end before it (`Clockwork`), and the users left are those still due
(`Ledger`).

`Process` has of the notification service only what the others see. That this is enough has two
sides, with `NotificationChannel` in the middle: what `NotifyService` does is allowed
by it (`ServiceKeepsChannel`), and what it allows the service is a step of `Process`
(`EveryServiceFits`). `ChannelInProcess` adds that the other tasks keep their side of it: they
send only into a free place of a channel whose receiver lives, and the process ends only after the
service or by a crash.

Left to TLC: all liveness (and fairness generally), since ENABLED is out of the
prover's reach: `SendCompletes`, `CacheConverges`, `TakenUp`, `StreamsConverge`,
`EventsForwarded`, `CancelStops`, `PricesCatchUp`, `ShutdownCompletes`.

## 7. Where code and text disagree

Each is a run that TLC finds violated.

- `engine_repeat`: dedup.rs:3-5 promises that ticks within the cooldown produce no
  duplicate. A failed UPDATE is only logged (engine.rs:489); the next refresh
  overwrites the newer time in the dedup map with the row's older one (dedup.rs:80)
  and the alert fires again within its cooldown, in the same process.
  `ImplementsPolicy` states what does hold: the promise for firings that reached the table.
- `bot_stop`: lib.rs:381 says that `run_bot` runs until the token is cancelled. The task that
  is to shut the dispatcher down is spawned before `dispatch()` (lib.rs:411-421). On a
  ctrl-C before the dispatcher is at work `shutdown()` answers `Err`, the task ends, and the
  dispatcher that starts afterwards is never told; `main` waits for it for ever.
  `ShutdownCompletes` states what does hold: the process ends once every bot
  is at its dispatch.
- `summary_numbers`: daily_summary.rs:69-70 promises a summary to every user with an active
  subscription. The flush stores `Vec<Decimal>` (engine.rs:409), as JSON strings; `format_summary`
  parses `Vec<f64>` (daily_summary.rs:233), fails, and the user is skipped.
  `EachOnHisOwn` states what does hold: nobody else is.

Some comments read more than the code does and have no run of their own:

- config.rs:22 speaks of messages per minute and rate_limiter.rs:1 of a sliding
  window; the window is fixed and starts at a call, so up to twice the maximum
  passes in some minutes. `AtMostTwiceMax` states the bound that holds.
- models.rs:61 calls `max_subscriptions` the maximum of active subscriptions. It is checked by
  a count and the row inserted by a later statement (dialogues.rs:493, 519), so two
  chats of one user pass together. `QuotaOvershoot` states what does hold: never
  more than the highest limit plus the number of his other chats.
- models.rs:55 has accounts per chat and bot; the account of a log row is looked up by
  chat alone (db.rs:432), so it may be that of a bot that did not send the message.
  `LogTruthful` claims only the chat.
- /list shows the price of a flushed market as not available, for the same strings.
- A slow /start may put an older username back over a newer one: `NoLostUpdate` speaks of
  the order of writes, not of messages.
- dialogues.rs:784-786 says a free user's alert is inserted only if the subscription
  has none; that, too, is a count and a later statement. `FreeAlertsBounded` states the
  bound that holds.
- dialogues.rs:11-12 says subscription and alert are created "in one go"; they are two
  statements, and `SubscriptionHasAlert` says when the second may be missing.
- engine.rs:439 says that storing the price first keeps the history through a
  crash, while it is memory only.
- manager.rs:115 says the backoff is reset on a successful connection, while it is
  reset on the first price of a session.

## 8. What is not modelled, and what is assumed

- The edits the bot makes appear in other modules as their environment: of the
  alerts table (`AlertEngine`: `CreateAlert`, `UpdateAlert`, `Unsubscribe`), of the token
  set (`Monitor`: `Subscribe`, `Unsubscribe`), of the users table (`NotifyService`: `Register`) and of the
  subscriptions (`Process`: `Subscribes`, `Unsubscribes`).
- Of the bot: /help, /list, /prices and the listing of /unsubscribe, which read rows and
  answer with text. `BotDialogue` starts with every account in place; the race of first
  messages is in `Accounts`, where a dialogue's first query is any "other" message.
- The monitor and the admin server are left out of `Process`: nothing there waits for them
  but `main`'s join, and they wait for none of the others (`Monitor!CancelStops`).
- A cron schedule without a next instant makes the job sleep 60 s and send a summary each
  time; it is in the model (`NoInstant`), and `OncePerInstant` does not speak of it.
- tokio's sleep does not end before its deadline by the wall clock.
- `BotDialogue` over-approximates the keyboards: which outcome indices and ids a chat was ever
  shown is not kept, any of them may be pressed.
- Gamma and CLOB clients, admin queries, configuration: no state of their own.
- Parsing and formatting. A tick is a token and a price, a message a name. Prices
  are integers: `evaluate` compares `Decimal`s exactly, so only their order matters.
- Prices are positive. The flush leaves a market alone when all its prices are zero (engine.rs:404),
  the model when none has come in since the start; a market all of whose genuine prices are
  zero would stay unsaved, and `PricesCatchUp` and `LastFlushSaves` do not speak of it.
- The condition id of a tick (`token_to_condition`): nothing reads it.
- The wall clock does not go back. `can_fire` and the limiter compare `Utc::now()`
  values; a clock set back would lengthen a cooldown.
- Cooldowns are in whole minutes of one clock; the code's comparison of durations
  (`>`) is the same on that scale.
- The price channel is never closed while the engine runs, nor the notification
  channel while its service runs: `main` holds a sender of each until the end.
- Nothing sets a subscription or a market inactive, so rows leave the engine's SELECT
  only by deletion.
- When a connection task panics its detached session may run on until its next
  send finds the receiver gone; nobody sees its events, and the model ends it with
  the task.
- In the runs every subscription has a token; `NoToken` (bad `token_ids` JSON, index
  out of range) is in the model and the proofs. `BotDialogue` shows how such a row
  comes about: an outcome picked on an older keyboard.
