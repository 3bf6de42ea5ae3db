---------------------------- MODULE NotifyService ----------------------------
(***************************************************************************)
(* The notification dispatcher (crates/pn-notify/src/service.rs) between   *)
(* the bounded queue the alert engine and the daily summary fill, the      *)
(* users and notification_log tables, the rate limiter (module             *)
(* RateLimiter, used as it is) and Telegram (telegram.rs).                 *)
(*                                                                         *)
(* The service is one task that handles one request at a time, cut here at *)
(* its awaits: the lookup of the user, each call of Telegram, the pause    *)
(* before a retry, the INSERT of the log row.  The queue, the limiter and  *)
(* the request in hand are memory; the two tables survive the process.     *)
(***************************************************************************)
EXTENDS Integers, Sequences, FiniteSets

CONSTANTS
    Request,          \* the requests the producers may ever make
    To, Via,          \* user_telegram_id and bot_id of each request
    Chat,             \* Telegram ids
    Bot,              \* bot ids; an account is a chat with a bot
    Registered,       \* the bots of the BotRegistry
    MaxRetries,       \* MAX_RETRIES
    QueueCap,         \* capacity of the notification channel
    Max,              \* rate_limit_per_user
    Window, MaxTime,  \* of the limiter's clock
    NoWindow, NoRequest, NoAccount,   \* "absent" values
    MayCrash, MayCancel, MayFailDb

Account == Chat \X Bot    \* users rows: UNIQUE(telegram_id, bot_id)

VARIABLES
    now, windows, accepted, refused,   \* of the limiter (RateLimiter)
    users,      \* the users table
    queue,      \* notify_rx
    pc,         \* where the service task is
    req,        \* the request in hand
    user,       \* the account it resolved to, NoAccount if there is none
    attempt,    \* of send_with_retries
    outcome,    \* what log_attempt is about to record
    log,        \* the notification_log table
    cancelled,  \* the CancellationToken
    order,      \* history: requests in the order they entered the queue
    inbox,      \* history: the request of every message Telegram delivered
    found       \* history: the rows of notification_log from earlier processes

limiterVars == <<now, windows, accepted, refused>>
handleVars  == <<req, user, attempt, outcome>>
historyVars == <<order, inbox, found>>
vars == <<limiterVars, users, queue, pc, handleVars, log, cancelled, historyVars>>

Limiter == INSTANCE RateLimiter WITH User <- Chat

ASSUME ServiceAssumption ==
    /\ Limiter!LimiterAssumption
    /\ To \in [Request -> Chat]
    /\ Via \in [Request -> Bot]
    /\ Registered \subseteq Bot
    /\ MaxRetries \in Nat \ {0}
    /\ QueueCap \in Nat \ {0}
    /\ NoRequest \notin Request
    /\ NoAccount \notin Account
    /\ MayCrash \in BOOLEAN
    /\ MayCancel \in BOOLEAN
    /\ MayFailDb \in BOOLEAN

Outcome == {"none", "delivered", "limited", "failed"}
Position(r) == CHOOSE i \in DOMAIN order : order[i] = r
Copies(r)   == Cardinality({i \in DOMAIN inbox : inbox[i] = r})
RowsOf(r)   == {row \in log : row.req = r}

-----------------------------------------------------------------------------
Init == /\ Limiter!Init
        /\ users = {}
        /\ queue = << >>
        /\ pc = "down"
        /\ req = NoRequest /\ user = NoAccount /\ attempt = 0 /\ outcome = "none"
        /\ log = {}
        /\ cancelled = FALSE
        /\ order = << >> /\ inbox = << >> /\ found = {}

\* /start with some bot creates the account; nothing ever deletes one.
Register(u) == /\ u \notin users
               /\ users' = users \cup {u}
               /\ UNCHANGED <<limiterVars, queue, pc, handleVars, log, cancelled, historyVars>>

\* notify_tx.send() of the alert engine or of the daily summary: waits for room.
\* (Both take the chat from a users row; the service does not rely on it.)
Submit(r) == /\ pc # "down"
             /\ r \notin {order[i] : i \in DOMAIN order}
             /\ Len(queue) < QueueCap
             /\ queue' = Append(queue, r)
             /\ order' = Append(order, r)
             /\ UNCHANGED <<limiterVars, users, pc, handleVars, log, cancelled, inbox, found>>

Tick == /\ Limiter!Tick
        /\ UNCHANGED <<users, queue, pc, handleVars, log, cancelled, historyVars>>

-----------------------------------------------------------------------------
\* The request is done with; the service waits for the next.
ToIdle == /\ pc' = "idle"
          /\ req' = NoRequest /\ user' = NoAccount /\ attempt' = 0 /\ outcome' = "none"

\* The select is not biased: with a cancelled token and a message waiting,
\* either may be taken.
Receive ==
    /\ pc = "idle" /\ queue # << >>
    /\ req' = Head(queue)
    /\ queue' = Tail(queue)
    /\ pc' = "resolve"
    /\ UNCHANGED <<limiterVars, users, user, attempt, outcome, log, cancelled, historyVars>>

\* `?` on a database error: the request is dropped.
ResolveFails ==
    /\ MayFailDb /\ pc = "resolve"
    /\ ToIdle
    /\ UNCHANGED <<limiterVars, users, queue, log, cancelled, historyVars>>

\* No account of that chat: delivered without limit and without log.
ResolveUnknown ==
    /\ pc = "resolve"
    /\ \A u \in users : u[1] # To[req]
    /\ pc' = "send" /\ attempt' = 1
    /\ UNCHANGED <<limiterVars, users, queue, req, user, outcome, log, cancelled,
                   historyVars>>

\* The accounts SELECT id FROM users WHERE telegram_id = ? LIMIT 1 may return:
\* any of that chat's, whichever bot it belongs to.
Resolvable(r) == {u \in users : u[1] = To[r]}

\* Mutant: the limit is looked at before the send and counted nowhere.
ResolveUnlimited(u) ==
    /\ pc = "resolve" /\ u \in Resolvable(req)
    /\ user' = u
    /\ pc' = "send" /\ attempt' = 1
    /\ UNCHANGED <<limiterVars, outcome, users, queue, req, log, cancelled, historyVars>>

\* The lookup returns and the limiter is asked before the next await.
Resolve(u) ==
    /\ pc = "resolve" /\ u \in Resolvable(req)
    /\ Limiter!CheckAndConsume(To[req])
    /\ user' = u
    /\ IF Limiter!Allows(To[req])
         THEN pc' = "send" /\ attempt' = 1 /\ UNCHANGED outcome
         ELSE pc' = "log" /\ outcome' = "limited" /\ UNCHANGED attempt
    /\ UNCHANGED <<users, queue, req, log, cancelled, historyVars>>

-----------------------------------------------------------------------------
\* After send_with_retries: a known account gets its log row, an unknown one
\* nothing.
Finish(o) == IF user = NoAccount THEN ToIdle
             ELSE pc' = "log" /\ outcome' = o /\ UNCHANGED <<req, user, attempt>>

SendOk ==
    /\ pc = "send" /\ Via[req] \in Registered
    /\ inbox' = Append(inbox, req)
    /\ Finish("delivered")
    /\ UNCHANGED <<limiterVars, users, queue, log, cancelled, order, found>>

\* Mutant: the failed request goes to the back of the queue.
SendFailsRequeues ==
    /\ pc = "send"
    /\ \/ UNCHANGED inbox
       \/ Via[req] \in Registered /\ inbox' = Append(inbox, req)
    /\ queue' = IF Len(queue) < QueueCap THEN Append(queue, req) ELSE queue
    /\ ToIdle
    /\ UNCHANGED <<limiterVars, users, log, cancelled, order, found>>

\* Mutant: one attempt too many.
SendFailsOnceMore ==
    /\ pc = "send"
    /\ \/ UNCHANGED inbox
       \/ Via[req] \in Registered /\ inbox' = Append(inbox, req)
    /\ IF attempt <= MaxRetries
         THEN pc' = "pause" /\ UNCHANGED handleVars
         ELSE Finish("failed")
    /\ UNCHANGED <<limiterVars, users, queue, log, cancelled, order, found>>

\* Mutant: a lost answer is taken for a delivery.
SendFailsOptimist ==
    /\ pc = "send"
    /\ UNCHANGED inbox
    /\ IF attempt < MaxRetries
         THEN pc' = "pause" /\ UNCHANGED handleVars
         ELSE Finish("delivered")
    /\ UNCHANGED <<limiterVars, users, queue, log, cancelled, order, found>>

\* An error answer.  When only the answer was lost the message is delivered all
\* the same; a bot that is not registered never delivers.
SendFails ==
    /\ pc = "send"
    /\ \/ UNCHANGED inbox
       \/ Via[req] \in Registered /\ inbox' = Append(inbox, req)
    /\ IF attempt < MaxRetries
         THEN pc' = "pause" /\ UNCHANGED handleVars
         ELSE Finish("failed")
    /\ UNCHANGED <<limiterVars, users, queue, log, cancelled, order, found>>

\* Mutant: the attempts are not counted.
RetryForever ==
    /\ pc = "pause"
    /\ pc' = "send"
    /\ UNCHANGED <<limiterVars, users, queue, handleVars, log, cancelled, historyVars>>

\* RETRY_DELAY is over.
Retry ==
    /\ pc = "pause"
    /\ pc' = "send" /\ attempt' = attempt + 1
    /\ UNCHANGED <<limiterVars, users, queue, req, user, outcome, log, cancelled,
                   historyVars>>

\* log_attempt: the INSERT, with the time of the insert.
LogAttempt ==
    /\ pc = "log"
    /\ log' = log \cup {[req |-> req, user |-> user, outcome |-> outcome, at |-> now]}
    /\ ToIdle
    /\ UNCHANGED <<limiterVars, users, queue, cancelled, historyVars>>

LogFails ==
    /\ MayFailDb /\ pc = "log"
    /\ ToIdle
    /\ UNCHANGED <<limiterVars, users, queue, log, cancelled, historyVars>>

-----------------------------------------------------------------------------
Cancel == /\ MayCancel /\ pc # "down" /\ ~cancelled
          /\ cancelled' = TRUE
          /\ UNCHANGED <<limiterVars, users, queue, pc, handleVars, log, historyVars>>

\* Memory is gone: requests still queued are lost, every window starts anew.
ProcessEnds ==
    /\ pc' = "down"
    /\ req' = NoRequest /\ user' = NoAccount /\ attempt' = 0 /\ outcome' = "none"
    /\ queue' = << >>
    /\ windows' = [c \in Chat |-> NoWindow]
    /\ accepted' = {} /\ refused' = {}
    /\ cancelled' = FALSE
    /\ found' = log
    /\ UNCHANGED <<now, users, log, order, inbox>>

\* The cancel arm of the select, after which run() returns.
Stop == pc = "idle" /\ cancelled /\ ProcessEnds

Crash == MayCrash /\ pc # "down" /\ ProcessEnds

Start == /\ pc = "down"
         /\ pc' = "idle"
         /\ UNCHANGED <<limiterVars, users, queue, handleVars, log, cancelled, historyVars>>

-----------------------------------------------------------------------------
Lookup == ResolveFails \/ ResolveUnknown \/ \E u \in Account : Resolve(u)
Send   == SendOk \/ SendFails
Write  == LogAttempt \/ LogFails

Next == \/ Tick
        \/ \E u \in Account : Register(u)
        \/ \E r \in Request : Submit(r)
        \/ Receive \/ Lookup \/ Send \/ Retry \/ Write
        \/ Cancel \/ Stop \/ Crash \/ Start

Spec == Init /\ [][Next]_vars

(***************************************************************************)
(* The runtime polls a task that can move, Telegram calls and queries end  *)
(* in an answer or an error (client and pool timeouts), and select, which  *)
(* picks a ready arm at random, takes the cancel arm some day.             *)
(***************************************************************************)
FairSpec == Spec /\ WF_vars(Receive) /\ WF_vars(Lookup) /\ WF_vars(Send)
                 /\ WF_vars(Retry) /\ WF_vars(Write) /\ SF_vars(Stop)

-----------------------------------------------------------------------------
Row == [req : Request, user : Account, outcome : Outcome \ {"none"}, at : Nat]

\* Types, with what the request in hand holds in each phase.
TypeOK ==
    /\ Limiter!TypeOK
    /\ users \subseteq Account
    /\ queue \in Seq(Request) /\ Len(queue) <= QueueCap
    /\ pc \in {"down", "idle", "resolve", "send", "pause", "log"}
    /\ IF pc \in {"down", "idle"} THEN req = NoRequest ELSE req \in Request
    /\ user \in Account \cup {NoAccount}
    /\ attempt \in IF pc = "send" THEN 1..MaxRetries
                   ELSE IF pc = "pause" THEN 1..(MaxRetries - 1) ELSE 0..MaxRetries
    /\ outcome \in Outcome
    /\ log \subseteq Row /\ found \subseteq log
    /\ cancelled \in BOOLEAN
    /\ order \in Seq(Request) /\ inbox \in Seq(Request)

\* What the log says is what happened: a delivered row stands for a message in
\* the recipient's chat, a rate-limited one for silence, whatever was retried,
\* lost or restarted in between; there is at most one row per request, and its
\* account is the recipient's (handle, log_attempt).
LogTruthful ==
    \A row \in log :
        /\ RowsOf(row.req) = {row}
        /\ row.user[1] = To[row.req]
        /\ row.outcome = "delivered" => Copies(row.req) > 0
        /\ row.outcome = "limited" => Copies(row.req) = 0

\* Messages reach Telegram in the order their requests entered the queue,
\* retries and late duplicates included: a slow request holds up the next
\* ones, it is never overtaken (one task, send_with_retries).
InOrder == \A i, j \in DOMAIN inbox :
              i < j => Position(inbox[i]) <= Position(inbox[j])

\* What the limiter promises of each user holds of its calls from here: the
\* windows of a chat do not overlap, and no message is turned away, after others
\* that were turned away either, unless the maximum has passed, whatever Telegram,
\* the database and other chats do in between (handle, check_and_consume).
CallsInWindows      == Limiter!CallsInWindows
RefusedOnlyWhenFull == Limiter!RefusedOnlyWhenFull

\* What this process has logged as delivered to chat c, and when it did so in the
\* Window ticks from t on.
DeliveredRows(c)    == {row \in log \ found : row.user[1] = c /\ row.outcome = "delivered"}
DeliveredSpan(c, t) == {row \in DeliveredRows(c) : t <= row.at /\ row.at < t + Window}

\* However long Telegram takes, one process logs at most twice the maximum as
\* delivered to one chat in any Window ticks: a request that was accepted in an
\* older window and is still being sent keeps the next one from being accepted
\* (one task; check_and_consume before send_with_retries).  A process that starts
\* over knows nothing of the windows of the one before: the bound is for each.
DeliveriesBounded ==
    \A c \in Chat, t \in 0..MaxTime : Cardinality(DeliveredSpan(c, t)) <= 2 * Max

\* Every queued request is taken up unless the process ends first, however
\* often Telegram or the database fails before it.
TakenUp == \A r \in Request :
    (\E i \in DOMAIN queue : queue[i] = r) ~> (req = r \/ pc = "down")
=============================================================================
