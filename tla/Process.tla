------------------------------ MODULE Process ------------------------------
(***************************************************************************)
(* The process (crates/poly-notifier/src/main.rs): the tasks it starts,    *)
(* the bounded notification channel and the one CancellationToken between  *)
(* them, and how they end together.  The engine's side is PriceFlush, the  *)
(* scheduler is DailySummary, both as they are; of the notification        *)
(* service (NotifyService has the rest) only what the channel sees of it,  *)
(* of a bot (pn-bot/src/lib.rs, run_bot) how its dispatcher starts and     *)
(* stops.  The monitor and the admin server hold nothing these tasks wait  *)
(* for and end by themselves (Monitor!CancelStops); they are left out.     *)
(***************************************************************************)
EXTENDS Integers, Sequences, FiniteSets

CONSTANTS
    User, Market, Token, MarketOf, MaxTick,                  \* see PriceFlush
    Instant, NoInstant, Fallback, MaxTime, QueueCap, Alert,  \* see DailySummary
    MayFailDb,
    Bot,                \* one dispatcher per token in TELEGRAM_BOT_TOKENS
    Load                \* what a behaviour may have: so many market events of these
                        \* tokens, ticks of the clock, subscriptions, bots to set up;
                        \* "rough": users leave, UPDATEs fail, the process crashes

VARIABLES
    subs, stored, flushed, cancelled,
    tick, prev, condition, epc, left, failed,          \* of PriceFlush
    queue, open, now, spc, target, deadline, todo, unreadable, outcome, last,
                                                       \* of DailySummary
    npc,        \* where the notification service is
    mpc,        \* where main is
    bot,        \* where run_bot is, for each bot
    stopper,    \* the task that waits to shut the dispatcher down
    load        \* the bounds this behaviour has

engineVars  == <<tick, prev, condition, epc, left, failed>>
jobVars     == <<now, spc, target, deadline, todo, unreadable, outcome, last>>
channelVars == <<queue, open>>
botVars     == <<bot, stopper>>
vars == <<subs, stored, flushed, cancelled, engineVars, channelVars, jobVars, npc, mpc,
          botVars, load>>

Flush   == INSTANCE PriceFlush
Summary == INSTANCE DailySummary

ASSUME ProcessAssumption ==
    /\ Flush!FlushAssumption /\ Summary!SummaryAssumption
    /\ Load \subseteq [ticks : 0..MaxTick, feed : SUBSET Token, time : 0..MaxTime,
                       pairs : SUBSET (User \X Market), bots : BOOLEAN, rough : BOOLEAN]

Init == /\ Flush!Init /\ Summary!Init
        /\ npc = "down" /\ mpc = "down"
        /\ bot = [b \in Bot |-> "gone"] /\ stopper = [b \in Bot |-> "none"]
        /\ load \in Load

-----------------------------------------------------------------------------
(***************************************************************************)
(* main.                                                                   *)
(***************************************************************************)
\* Everything is spawned; a bot still has to register its commands.
Start == /\ mpc = "down"
         /\ Flush!Start /\ Summary!Start
         /\ ~load.rough => condition' = Flush!Subscribed
         /\ npc' = "idle" /\ mpc' = "up"
         /\ bot' = [b \in Bot |-> IF load.bots THEN "setup" ELSE "dispatching"]
         /\ stopper' = [b \in Bot |-> IF load.bots THEN "none" ELSE "waiting"]
         /\ UNCHANGED load

\* ctrl_c() returns.
CtrlC == /\ mpc = "up"
         /\ cancelled' = TRUE
         /\ mpc' = "join"
         /\ UNCHANGED <<subs, stored, flushed, engineVars, channelVars, jobVars, npc,
                        botVars, load>>

\* The join of the services, then of the bots one after the other.
Join == /\ mpc = "join"
        /\ epc = "stopped" /\ spc = "stopped" /\ npc = "stopped"
        /\ mpc' = "bots"
        /\ UNCHANGED <<subs, stored, flushed, cancelled, engineVars, channelVars, jobVars,
                       npc, botVars, load>>

Ends == /\ Flush!ProcessEnds /\ Summary!ProcessEnds
        /\ npc' = "down" /\ mpc' = "down"
        /\ bot' = [b \in Bot |-> "gone"] /\ stopper' = [b \in Bot |-> "none"]
        /\ UNCHANGED load

Exit == mpc = "bots" /\ (\A b \in Bot : bot[b] = "gone") /\ Ends

Crash == load.rough /\ mpc # "down" /\ Ends

-----------------------------------------------------------------------------
(***************************************************************************)
(* The alert engine and the scheduler.                                     *)
(***************************************************************************)
Engine(A) == A /\ UNCHANGED <<channelVars, jobVars, npc, mpc, botVars, load>>

TakePrice == \E t \in load.feed : tick < load.ticks /\ Flush!TakePrice(t)

EngineStep == /\ Engine(\/ Flush!Refresh \/ Flush!StartFlush \/ Flush!FlushOver \/ TakePrice
                        \/ \E m \in Market : Flush!Write(m))
              /\ ~load.rough => failed' = {}

\* Mutant: an unbounded channel.
EngineSendUnbounded ==
    /\ Flush!Sent
    /\ queue' = IF open THEN Append(queue, Alert) ELSE queue
    /\ UNCHANGED <<open, jobVars, npc, mpc, botVars, load>>

\* send().await: a place in the channel, or an error when the receiver is gone.
EngineSend ==
    /\ Flush!Sent
    /\ IF open THEN Len(queue) < QueueCap /\ queue' = Append(queue, Alert)
               ELSE UNCHANGED queue
    /\ UNCHANGED <<open, jobVars, npc, mpc, botVars, load>>

JobStep == /\ Summary!Job
           /\ UNCHANGED <<stored, engineVars, npc, mpc, botVars, load>>

Tick == /\ now < load.time /\ Summary!Tick
        /\ UNCHANGED <<stored, engineVars, npc, mpc, botVars, load>>

-----------------------------------------------------------------------------
(***************************************************************************)
(* The notification service, from the channel's side.                      *)
(***************************************************************************)
ServiceTake == /\ npc = "idle" /\ Summary!Take
               /\ npc' = "busy"
               /\ UNCHANGED <<stored, engineVars, mpc, botVars, load>>

\* Telegram has answered, for the last time.
ServiceDone == /\ npc = "busy"
               /\ npc' = "idle"
               /\ UNCHANGED <<subs, stored, flushed, cancelled, engineVars, channelVars,
                              jobVars, mpc, botVars, load>>

\* Mutant: the receiver is kept while the other tasks end.
ServiceStopKeepsOpen ==
    /\ npc = "idle" /\ cancelled
    /\ npc' = "stopped"
    /\ UNCHANGED <<subs, stored, flushed, cancelled, channelVars, jobVars,
                   engineVars, mpc, botVars, load>>

\* run() returns and drops the receiver, with what is still queued.
ServiceStop == /\ npc = "idle" /\ Summary!ServiceStop
               /\ npc' = "stopped"
               /\ UNCHANGED <<stored, engineVars, mpc, botVars, load>>

-----------------------------------------------------------------------------
(***************************************************************************)
(* The bots.                                                               *)
(***************************************************************************)
BotStep(b, from, to) ==
    /\ bot[b] = from
    /\ bot' = [bot EXCEPT ![b] = to]
    /\ UNCHANGED <<subs, stored, flushed, cancelled, engineVars, channelVars, jobVars, npc,
                   mpc, load>>

\* set_my_commands fails and run_bot with it: the process goes on without this bot.
SetupFails(b) == BotStep(b, "setup", "gone") /\ UNCHANGED stopper

\* The dispatcher is built and the task that is to stop it spawned; dispatch()
\* has yet to set up its listener.
Setup(b) == /\ BotStep(b, "setup", "ready")
            /\ stopper' = [stopper EXCEPT ![b] = "waiting"]

Dispatch(b) == BotStep(b, "ready", "dispatching") /\ UNCHANGED stopper

\* shutdown() answers Err when nothing is being dispatched yet, which ends
\* the stopper all the same: `if let Ok(fut)`.
StopBot(b) ==
    /\ cancelled /\ stopper[b] = "waiting"
    /\ stopper' = [stopper EXCEPT ![b] = "over"]
    /\ bot' = [bot EXCEPT ![b] = IF @ = "dispatching" THEN "stopping" ELSE @]
    /\ UNCHANGED <<subs, stored, flushed, cancelled, engineVars, channelVars, jobVars, npc,
                   mpc, load>>

\* The updates in hand are handled, dispatch() returns.
BotGone(b) == BotStep(b, "stopping", "gone") /\ UNCHANGED stopper

\* Some bot has users to serve.
Serving == \E b \in Bot : bot[b] \in {"dispatching", "stopping"}

\* A user confirms the subscribe dialogue.
Subscribes(u, m) ==
    /\ Serving /\ <<u, m>> \in load.pairs
    /\ subs' = subs \cup {<<u, m>>}
    /\ UNCHANGED <<stored, flushed, cancelled, engineVars, channelVars, jobVars, npc, mpc,
                   botVars, load>>

\* The button under /list.
Unsubscribes(u, m) ==
    /\ Serving /\ load.rough /\ <<u, m>> \in load.pairs
    /\ subs' = subs \ {<<u, m>>}
    /\ UNCHANGED <<stored, flushed, cancelled, engineVars, channelVars, jobVars, npc, mpc,
                   botVars, load>>

Change(u, m) == Subscribes(u, m) \/ Unsubscribes(u, m)

-----------------------------------------------------------------------------
Bots(b) == SetupFails(b) \/ Setup(b) \/ Dispatch(b) \/ StopBot(b) \/ BotGone(b)
Service == ServiceTake \/ ServiceDone \/ ServiceStop
Main == Start \/ CtrlC \/ Join \/ Exit \/ Crash

Next == \/ Main \/ EngineStep \/ EngineSend \/ JobStep \/ Tick \/ Service
        \/ \E b \in Bot : Bots(b)
        \/ \E u \in User, m \in Market : Change(u, m)

Spec == Init /\ [][Next]_vars

(***************************************************************************)
(* Timers run out and the runtime polls a task that can move.  The engine's *)
(* refresh and flush arms come before the feed in a biased select; a failed *)
(* UPDATE is tried again by the next flush and does not fail for ever; a    *)
(* token has finitely many rules, so a send is the last of its tick some    *)
(* day.                                                                     *)
(* Nothing is assumed of users, of the market, of ctrl-C, or of Telegram    *)
(* but that its calls end.                                                  *)
(***************************************************************************)
FairSpec ==
    /\ Spec
    /\ SF_vars(Engine(Flush!Refresh)) /\ SF_vars(Engine(Flush!StartFlush))
    /\ WF_vars(Engine((\E m \in Market : Flush!Write(m)) \/ Flush!FlushOver))
    /\ \A m \in Market : SF_vars(Engine(Flush!FlushMarket(m)))
    /\ SF_vars(EngineSend /\ epc' = "run")
    /\ WF_vars(Tick) /\ WF_vars(JobStep)
    /\ WF_vars(ServiceTake \/ ServiceDone) /\ SF_vars(ServiceStop)
    /\ WF_vars(\E b \in Bot : Bots(b))
    /\ WF_vars(Join \/ Exit)

-----------------------------------------------------------------------------
TypeOK ==
    /\ Flush!TypeOK /\ Summary!TypeOK
    /\ npc \in {"down", "idle", "busy", "stopped"}
    /\ mpc \in {"down", "up", "join", "bots"}
    /\ bot \in [Bot -> {"setup", "ready", "dispatching", "stopping", "gone"}]
    /\ stopper \in [Bot -> {"none", "waiting", "over"}]
    /\ mpc \in {"join", "bots"} <=> cancelled
    /\ open <=> npc \in {"idle", "busy"}

\* The properties of the two components, of the whole process.
PricesGoForward == Flush!PricesGoForward
LastFlushSaves  == Flush!LastFlushSaves
PricesCatchUp   == Flush!PricesCatchUp
OncePerInstant  == Summary!OncePerInstant
EachOnHisOwn    == Summary!EachOnHisOwn

\* A dispatcher that has ended, or is told to by a stopper that waits.
Stoppable(b) == \/ bot[b] \in {"gone", "stopping"}
                \/ bot[b] = "dispatching" /\ stopper[b] = "waiting"

\* ctrl-C ends the process: engine, scheduler and service get out of the channel
\* they may be waiting at, full or closed, whoever ends first, and main's
\* joins return - once every bot it has started is at its dispatch().
ShutdownCompletes == []<>~(cancelled /\ \A b \in Bot : Stoppable(b))

\* daily_summary.rs:69 "Sends a formatted daily portfolio summary to every user
\* that has at least one active subscription."
SummaryForEveryUser == Summary!SummaryForEveryUser

\* lib.rs:381 "Start the Telegram bot dispatcher and run until `cancel` is
\* triggered."
BotStops == \A b \in Bot : cancelled ~> bot[b] = "gone"
=============================================================================
