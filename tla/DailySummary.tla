---------------------------- MODULE DailySummary ----------------------------
(***************************************************************************)
(* The daily summary job (crates/pn-scheduler/src/daily_summary.rs): a     *)
(* loop that sleeps until the next instant of a cron schedule, reads the   *)
(* active subscriptions in one SELECT and hands one notification request   *)
(* per user to the bounded channel of the notification service.            *)
(*                                                                         *)
(* Time passes wherever the job is, also between the two readings of the   *)
(* clock that make up one delay.  The prices themselves are not looked at  *)
(* here, only whether a market's last_prices can be parsed: the flush      *)
(* writes decimals as JSON strings, format_summary wants numbers.          *)
(***************************************************************************)
EXTENDS Integers, Sequences, FiniteSets

CONSTANTS
    User, Market,       \* users and markets rows
    Instant,            \* the instants of the cron schedule
    NoInstant,          \* upcoming() has come to its end
    Fallback,           \* the 60 s of unwrap_or
    MaxTime,            \* bound on the clock
    QueueCap,           \* capacity of the notification channel
    Alert,              \* a request of the alert engine in that channel
    MayFailDb

SummaryAssumption ==
    /\ Instant \subseteq Nat \ {0} /\ NoInstant \notin Nat
    /\ Fallback \in Nat
    /\ MaxTime \in Nat
    /\ QueueCap \in Nat \ {0} /\ Alert \notin User
    /\ MayFailDb \in BOOLEAN

VARIABLES
    subs,       \* active subscriptions, pairs of a user and a market
    flushed,    \* markets whose last_prices the engine has written
    cancelled,  \* the CancellationToken
    queue,      \* the notification channel: alerts, and the users of summaries
    open,       \* its receiver is alive
    now,        \* Utc::now(), in ticks
    spc,        \* where the job is
    target,     \* upcoming(Utc).next()
    deadline,   \* when the sleep ends
    todo,       \* users of user_map not yet dealt with
    unreadable, \* those of them whose rows do not parse
    outcome,    \* history: what became of each user of this summary
    last        \* history: the instant of the latest summary

environmentVars == <<subs, flushed, cancelled>>
channelVars == <<queue, open>>
delayVars   == <<target, deadline>>
summaryVars == <<todo, unreadable, outcome>>
vars == <<environmentVars, channelVars, now, spc, delayVars, summaryVars, last>>

\* Is k the first instant after t?
IsUpcoming(k, t) == /\ k \in Instant /\ k > t
                    /\ \A j \in Instant : j > t => k <= j
Exhausted(t) == \A j \in Instant : j <= t

Subscribers == {u \in User : \E m \in Market : <<u, m>> \in subs}
Nobody == [u \in User |-> "none"]

Init == /\ subs = {} /\ flushed = {}
        /\ cancelled = FALSE
        /\ queue = << >> /\ open = FALSE
        /\ now = 0
        /\ spc = "down"
        /\ target = 0 /\ deadline = 0
        /\ todo = {} /\ unreadable = {} /\ outcome = Nobody
        /\ last = 0

-----------------------------------------------------------------------------
Start == /\ spc = "down"
         /\ spc' = "plan" /\ open' = TRUE
         /\ UNCHANGED <<environmentVars, queue, now, delayVars, summaryVars, last>>

Tick == /\ now < MaxTime
        /\ now' = now + 1
        /\ UNCHANGED <<environmentVars, channelVars, spc, delayVars, summaryVars, last>>

\* Mutant: an instant that is now still counts as upcoming.
PlanInclusive ==
    /\ spc = "plan"
    /\ target' = IF now \in Instant THEN now
                 ELSE IF Exhausted(now) THEN NoInstant
                 ELSE CHOOSE k \in Instant : IsUpcoming(k, now)
    /\ spc' = "arm"
    /\ UNCHANGED <<environmentVars, channelVars, now, deadline, summaryVars, last>>

\* schedule.upcoming(Utc).next(): strictly after the present.
Plan == /\ spc = "plan"
        /\ \/ \E k \in Instant : IsUpcoming(k, now) /\ target' = k
           \/ Exhausted(now) /\ target' = NoInstant
        /\ spc' = "arm"
        /\ UNCHANGED <<environmentVars, channelVars, now, deadline, summaryVars, last>>

\* The planned instant has not gone by.
Ahead == target # NoInstant /\ target >= now

\* next - Utc::now(): a second reading of the clock.  When the instant has gone by
\* in between to_std() fails, and the sleep is the fallback, as it is when the
\* schedule has no instant left.
Arm == /\ spc = "arm"
       /\ spc' = "sleep"
       /\ deadline' = IF Ahead THEN target ELSE now + Fallback
       /\ UNCHANGED <<environmentVars, channelVars, now, target, summaryVars, last>>

\* The sleep is over, however late; cancelled or not, since the select is not biased.
Wake == /\ spc = "sleep" /\ now >= deadline
        /\ spc' = "fetch"
        /\ last' = IF target = NoInstant THEN last ELSE target
        /\ UNCHANGED <<environmentVars, channelVars, now, delayVars, summaryVars>>

\* The other arm of the select.
StopSleeping == /\ spc = "sleep" /\ cancelled
                /\ spc' = "stopped"
                /\ target' = 0 /\ deadline' = 0
                /\ UNCHANGED <<environmentVars, channelVars, now, summaryVars, last>>

\* fetch_summary_rows is one SELECT; the rows of a user with a flushed market
\* will not parse.  Without rows nothing is to be done.
Fetch == /\ spc = "fetch"
         /\ todo' = Subscribers
         /\ unreadable' = {u \in User : \E m \in flushed : <<u, m>> \in subs}
         /\ outcome' = [u \in User |-> IF u \in Subscribers THEN "due" ELSE "none"]
         /\ spc' = IF Subscribers = {} THEN "plan" ELSE "send"
         /\ UNCHANGED <<environmentVars, channelVars, now, delayVars, last>>

\* The error is logged by run().
FetchFails == /\ MayFailDb /\ spc = "fetch"
              /\ spc' = "plan"
              /\ UNCHANGED <<environmentVars, channelVars, now, delayVars, summaryVars, last>>

\* User u is done with (in any order: user_map is a HashMap).
Settle(u, what) == /\ todo' = todo \ {u}
                   /\ outcome' = [outcome EXCEPT ![u] = what]
                   /\ UNCHANGED <<environmentVars, now, spc, delayVars, unreadable, last>>

\* Mutant: one malformed row ends the whole summary.
SkipUserEndsAll(u) ==
    /\ spc = "send" /\ u \in todo \cap unreadable
    /\ todo' = {}
    /\ outcome' = [outcome EXCEPT ![u] = "skipped"]
    /\ UNCHANGED <<environmentVars, channelVars, now, spc, delayVars, unreadable, last>>

\* format_summary fails: this user is skipped.
SkipUser(u) == /\ spc = "send" /\ u \in todo \cap unreadable
               /\ Settle(u, "skipped")
               /\ UNCHANGED channelVars

\* notify_tx.send().await gets its place in the channel.
Hand(u) == /\ spc = "send" /\ u \in todo \ unreadable
           /\ open /\ Len(queue) < QueueCap
           /\ queue' = Append(queue, u)
           /\ Settle(u, "handed")
           /\ UNCHANGED open

\* ... or finds the receiver gone.
HandFails(u) == /\ spc = "send" /\ u \in todo \ unreadable
                /\ ~open
                /\ Settle(u, "refused")
                /\ UNCHANGED channelVars

SummaryOver == /\ spc = "send" /\ todo = {}
               /\ spc' = "plan"
               /\ unreadable' = {} /\ outcome' = Nobody
               /\ UNCHANGED <<environmentVars, channelVars, now, delayVars, todo, last>>

ProcessEnds ==
    /\ spc' = "down"
    /\ queue' = << >> /\ open' = FALSE
    /\ target' = 0 /\ deadline' = 0
    /\ todo' = {} /\ unreadable' = {} /\ outcome' = Nobody
    /\ cancelled' = FALSE
    /\ UNCHANGED <<subs, flushed, now, last>>

-----------------------------------------------------------------------------
(***************************************************************************)
(* The job's surroundings, where this module is used alone.                *)
(***************************************************************************)
Subscribe(u, m) == /\ subs' = subs \cup {<<u, m>>}
                   /\ UNCHANGED <<flushed, cancelled, channelVars, now, spc, delayVars,
                                  summaryVars, last>>

Unsubscribe(u, m) == /\ subs' = subs \ {<<u, m>>}
                     /\ UNCHANGED <<flushed, cancelled, channelVars, now, spc, delayVars,
                                    summaryVars, last>>

Flush(m) == /\ flushed' = flushed \cup {m}
            /\ UNCHANGED <<subs, cancelled, channelVars, now, spc, delayVars, summaryVars, last>>

Cancel == /\ spc # "down" /\ ~cancelled
          /\ cancelled' = TRUE
          /\ UNCHANGED <<subs, flushed, channelVars, now, spc, delayVars, summaryVars, last>>

\* The alert engine shares the channel.
EngineSends == /\ open /\ Len(queue) < QueueCap
               /\ queue' = Append(queue, Alert)
               /\ UNCHANGED <<environmentVars, open, now, spc, delayVars, summaryVars, last>>

\* The notification service takes a request, or drops the receiver.
Take == /\ queue # << >>
        /\ queue' = Tail(queue)
        /\ UNCHANGED <<environmentVars, open, now, spc, delayVars, summaryVars, last>>

ServiceStop == /\ open /\ cancelled
               /\ open' = FALSE /\ queue' = << >>
               /\ UNCHANGED <<environmentVars, now, spc, delayVars, summaryVars, last>>

-----------------------------------------------------------------------------
Deal(u) == SkipUser(u) \/ Hand(u) \/ HandFails(u)
Job == Plan \/ Arm \/ Wake \/ StopSleeping \/ Fetch \/ FetchFails \/ (\E u \in User : Deal(u))
          \/ SummaryOver

Next == \/ Start \/ Tick \/ Job
        \/ \E u \in User, m \in Market : Subscribe(u, m) \/ Unsubscribe(u, m)
        \/ \E m \in Market : Flush(m)
        \/ Cancel \/ EngineSends \/ Take \/ ServiceStop
        \/ spc # "down" /\ ProcessEnds

Spec == Init /\ [][Next]_vars

-----------------------------------------------------------------------------
Outcome == {"none", "due", "handed", "skipped", "refused"}

\* Types; a summary that is under way has an instant, and the users left are due.
TypeOK ==
    /\ subs \subseteq User \X Market /\ flushed \subseteq Market
    /\ cancelled \in BOOLEAN /\ open \in BOOLEAN
    /\ queue \in Seq(User \cup {Alert}) /\ Len(queue) <= QueueCap
    /\ now \in 0..MaxTime
    /\ spc \in {"down", "plan", "arm", "sleep", "fetch", "send", "stopped"}
    /\ target \in Instant \cup {0, NoInstant} /\ deadline \in Nat /\ last \in 0..now
    /\ todo \subseteq User /\ unreadable \subseteq User
    /\ outcome \in [User -> Outcome]
    /\ spc = "send" => todo = {u \in User : outcome[u] = "due"}

\* While the schedule lasts every summary is for an instant of its own and comes
\* neither before it nor twice, and an instant that was planned for is given up
\* only for its summary or the end of the job - however long the last summary
\* took, however late the sleep ended and whatever passed between the two
\* readings of the clock (run).
OncePerInstant ==
    [][/\ spc = "sleep" /\ spc' = "fetch" /\ target # NoInstant => target > last /\ now >= target
       /\ target' # target /\ target \in Instant => last' = target \/ cancelled \/ spc' = "down"
      ]_vars

\* When a summary is over, every user of its snapshot has been dealt with: handed
\* one request, skipped because of a market of his own, or refused because
\* the service is gone; no user's fault touches another (send_summaries).
EachOnHisOwn ==
    [][spc = "send" /\ spc' = "plan" =>
          \A u \in User : /\ outcome[u] # "due"
                          /\ outcome[u] = "skipped" <=> u \in unreadable
                          /\ outcome[u] = "refused" => ~open]_vars

\* daily_summary.rs:69 "Sends a formatted daily portfolio summary to every user
\* that has at least one active subscription."
SummaryForEveryUser ==
    [][spc = "send" /\ spc' = "plan" /\ ~cancelled =>
          \A u \in User : outcome[u] \in {"none", "handed"}]_vars
=============================================================================
