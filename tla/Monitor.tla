------------------------------- MODULE Monitor -------------------------------
(***************************************************************************)
(* The price monitor (crates/pn-monitor): MonitorService::run, which keeps *)
(* one connection task for the tokens that have subscriptions, the         *)
(* ConnectionManager that task runs, and its WebSocket session             *)
(* (crates/pn-polymarket/src/ws.rs).  Three layers of tasks, each cut at   *)
(* its awaits, that only share a cancellation token and a channel.         *)
(*                                                                         *)
(* Ticks of the market are numbered so that properties can speak of their  *)
(* order; number 0 stands for an event without a price.  The condition id  *)
(* that spawn_connection looks up for a tick is left out: nothing reads    *)
(* PriceUpdate.condition_id.                                               *)
(***************************************************************************)
EXTENDS Integers, Sequences, FiniteSets

CONSTANTS
    Token,              \* CLOB tokens
    Conn,               \* names for connection tasks
    Base, MaxDelay,     \* reconnect_base_delay, reconnect_max_delay
    U32Max,             \* u32::MAX
    MaxTick,            \* bound on the market's ticks
    MayPanic            \* may a connection task die by itself?

ASSUME MonitorAssumption ==
    /\ Base \in Nat \ {0}
    /\ MaxDelay \in Nat
    /\ U32Max \in Nat \ {0}
    /\ MaxTick \in Nat
    /\ MayPanic \in BOOLEAN

VARIABLES
    active,     \* tokens of active subscriptions, in the database
    spc,        \* where MonitorService::run is
    ids,        \* current_ids
    newIds,     \* new_ids, while the old connection is being stopped
    cur,        \* the connection behind conn_cancel and conn_handle
    task,       \* the connection tasks
    cancelled,  \* the service's CancellationToken
    tick,       \* the market: number of the last tick
    seen        \* history: number of the last tick broadcast per token

serviceVars == <<spc, ids, newIds, cur>>
marketVars  == <<tick, seen>>
vars == <<active, serviceVars, task, cancelled, marketVars>>

\* min(), of u32s and of delays.
AtMost(n, max) == IF n > max THEN max ELSE n

\* calculate_backoff, with the saturating power.
Backoff(attempt) == AtMost(Base * AtMost(2 ^ attempt, U32Max), MaxDelay)

\* A connection task: its pc, the tokens it is for, its child token, the state
\* of its WebSocket session, the events received and not
\* yet forwarded, and the locals of ConnectionManager::run.
Dead == [pc |-> "done", tokens |-> {}, cancel |-> FALSE, ws |-> "none",
         events |-> << >>, any |-> FALSE, attempt |-> 0, delay |-> 0]

Alive(c) == task[c].pc # "done"

Init == /\ active \in SUBSET Token
        /\ spc = "fetch"
        /\ ids = {} /\ newIds = {}
        /\ cur \in Conn
        /\ task = [c \in Conn |-> Dead]
        /\ cancelled = FALSE
        /\ tick = 0 /\ seen = [t \in Token |-> 0]

-----------------------------------------------------------------------------
(***************************************************************************)
(* MonitorService::run.                                                    *)
(***************************************************************************)
\* fetch_token_ids_with_retry answers; a cancelled service ends before spawning.
Fetch == /\ spc = "fetch"
         /\ ids' = active
         /\ spc' = IF cancelled THEN "stopped" ELSE "spawn"
         /\ UNCHANGED <<active, newIds, cur, task, cancelled, marketVars>>

FetchFails == /\ spc = "fetch"
              /\ spc' = "retry"
              /\ UNCHANGED <<active, ids, newIds, cur, task, cancelled, marketVars>>

\* The sleep before the next attempt ends, or is cut short by cancellation.
RetryFetch == /\ spc = "retry"
              /\ \/ spc' = "fetch" /\ UNCHANGED ids
                 \/ cancelled /\ spc' = "stopped" /\ ids' = {}
              /\ UNCHANGED <<active, newIds, cur, task, cancelled, marketVars>>

\* spawn_connection: a new task with a child token of its own.  With no token
\* the manager only waits for that child token.
Spawn(c) ==
    /\ spc = "spawn" /\ ~Alive(c)
    /\ cur' = c
    /\ task' = [task EXCEPT ![c] = [Dead EXCEPT !.pc = IF ids = {} THEN "idle" ELSE "connect",
                                                !.tokens = ids]]
    /\ spc' = "watch"
    /\ UNCHANGED <<active, ids, newIds, cancelled, marketVars>>

\* First arm of the select: stop the connection, wait for it, return.
Shutdown == /\ spc = "watch" /\ cancelled
            /\ task' = [task EXCEPT ![cur].cancel = TRUE]
            /\ spc' = "closing"
            /\ UNCHANGED <<active, ids, newIds, cur, cancelled, marketVars>>

Stopped == /\ spc = "closing" /\ ~Alive(cur)
           /\ spc' = "stopped"
           /\ UNCHANGED <<active, ids, newIds, cur, task, cancelled, marketVars>>

\* Second arm: the connection task is gone although nobody stopped it.
ConnExited == /\ spc = "watch" /\ ~cancelled /\ ~Alive(cur)
              /\ spc' = "fetch"
              /\ UNCHANGED <<active, ids, newIds, cur, task, cancelled, marketVars>>

\* Mutant: the new connection is spawned without waiting for the old one.
RefreshNoWait ==
    /\ spc = "watch" /\ ~cancelled /\ Alive(cur) /\ active # ids
    /\ newIds' = active
    /\ ids' = active
    /\ task' = [task EXCEPT ![cur].cancel = TRUE]
    /\ spc' = "spawn"
    /\ UNCHANGED <<active, cur, cancelled, marketVars>>

\* Mutant: ... and the old one is not even told to stop.
RefreshForgets ==
    /\ spc = "watch" /\ ~cancelled /\ Alive(cur) /\ active # ids
    /\ newIds' = active
    /\ ids' = active
    /\ spc' = "spawn"
    /\ UNCHANGED <<active, cur, task, cancelled, marketVars>>

\* Mutant: only a grown token set restarts the connection.
RefreshOnGrowth ==
    /\ spc = "watch" /\ ~cancelled /\ Alive(cur) /\ ~(active \subseteq ids)
    /\ newIds' = active
    /\ task' = [task EXCEPT ![cur].cancel = TRUE]
    /\ spc' = "swap"
    /\ UNCHANGED <<active, ids, cur, cancelled, marketVars>>

\* Third arm, when the token set has changed; a failed query, or an unchanged
\* set, leaves everything as it is.
Refresh ==
    /\ spc = "watch" /\ ~cancelled /\ Alive(cur) /\ active # ids
    /\ newIds' = active
    /\ task' = [task EXCEPT ![cur].cancel = TRUE]
    /\ spc' = "swap"
    /\ UNCHANGED <<active, ids, cur, cancelled, marketVars>>

Swapped == /\ spc = "swap" /\ ~Alive(cur)
           /\ ids' = newIds
           /\ spc' = "spawn"
           /\ UNCHANGED <<active, newIds, cur, task, cancelled, marketVars>>

-----------------------------------------------------------------------------
(***************************************************************************)
(* ConnectionManager::run.                                                 *)
(***************************************************************************)
Become(c, r) == /\ task' = [task EXCEPT ![c] = r]
                /\ UNCHANGED <<active, serviceVars, cancelled>>

\* Mutant: waiting for the backoff ignores the child token.
ManagerEndsLate(c) ==
    /\ task[c].pc \in {"idle", "connect", "stream"} /\ task[c].cancel
    /\ Become(c, Dead)
    /\ UNCHANGED marketVars

\* Wherever it waits, the child token ends it; an open session is aborted and
\* its unread events are dropped.
ManagerEnds(c) ==
    /\ Alive(c) /\ task[c].cancel
    /\ Become(c, Dead)
    /\ UNCHANGED marketVars

\* A new WebSocket session, with a channel of its own.
StartSession(c) ==
    /\ task[c].pc = "connect" /\ ~task[c].cancel
    /\ Become(c, [task[c] EXCEPT !.pc = "stream", !.ws = "dialing",
                                 !.events = << >>, !.any = FALSE])
    /\ UNCHANGED marketVars

\* ws_event_to_price_update and the broadcast; an event without price is skipped.
Forward(c) ==
    LET e == Head(task[c].events) IN
    /\ task[c].pc = "stream" /\ ~task[c].cancel /\ task[c].events # << >>
    /\ Become(c, [task[c] EXCEPT !.events = Tail(@), !.any = @ \/ e.n # 0])
    /\ seen' = IF e.n = 0 THEN seen ELSE [seen EXCEPT ![e.token] = e.n]
    /\ UNCHANGED tick

\* Mutant: the session's end is noticed before its last events are read.
SessionOverUnread(c) ==
    /\ task[c].pc = "stream" /\ ~task[c].cancel /\ task[c].ws = "closed"
    /\ LET attempt == IF task[c].any THEN 0 ELSE task[c].attempt IN
       Become(c, [task[c] EXCEPT !.pc = "backoff", !.ws = "none", !.events = << >>,
                                 !.delay = Backoff(attempt),
                                 !.attempt = AtMost(attempt + 1, U32Max)])
    /\ UNCHANGED marketVars

\* Mutant: the maximum delay is forgotten.
SessionOverUnbounded(c) ==
    /\ task[c].pc = "stream" /\ ~task[c].cancel
    /\ task[c].ws = "closed" /\ task[c].events = << >>
    /\ LET attempt == IF task[c].any THEN 0 ELSE task[c].attempt IN
       Become(c, [task[c] EXCEPT !.pc = "backoff", !.ws = "none",
                                 !.delay = Base * AtMost(2 ^ attempt, U32Max),
                                 !.attempt = AtMost(attempt + 1, U32Max)])
    /\ UNCHANGED marketVars

\* Mutant: the attempts are counted from the start after every session.
SessionOverResets(c) ==
    /\ task[c].pc = "stream" /\ ~task[c].cancel
    /\ task[c].ws = "closed" /\ task[c].events = << >>
    /\ Become(c, [task[c] EXCEPT !.pc = "backoff", !.ws = "none", !.delay = Backoff(0),
                                 !.attempt = 1])
    /\ UNCHANGED marketVars

\* recv() returns None once the session has ended and its events are read: the
\* backoff starts, from the base if the session brought a price.
SessionOver(c) ==
    /\ task[c].pc = "stream" /\ ~task[c].cancel
    /\ task[c].ws = "closed" /\ task[c].events = << >>
    /\ LET attempt == IF task[c].any THEN 0 ELSE task[c].attempt IN
       Become(c, [task[c] EXCEPT !.pc = "backoff", !.ws = "none",
                                 !.delay = Backoff(attempt),
                                 !.attempt = AtMost(attempt + 1, U32Max)])
    /\ UNCHANGED marketVars

BackoffOver(c) ==
    /\ task[c].pc = "backoff" /\ ~task[c].cancel
    /\ Become(c, [task[c] EXCEPT !.pc = "connect"])
    /\ UNCHANGED marketVars

\* The task panics.
Panic(c) == /\ MayPanic /\ Alive(c)
            /\ Become(c, Dead)
            /\ UNCHANGED marketVars

-----------------------------------------------------------------------------
(***************************************************************************)
(* PolymarketWs::run and the market.                                       *)
(***************************************************************************)
\* connect_async and the subscribe message succeed ...
Open(c) == /\ task[c].ws = "dialing"
           /\ Become(c, [task[c] EXCEPT !.ws = "open"])
           /\ UNCHANGED marketVars

\* ... or fail; and an open session ends: a read error, a failed ping, a close
\* frame, the end of the stream.
Close(c) == /\ task[c].ws \in {"dialing", "open"}
            /\ Become(c, [task[c] EXCEPT !.ws = "closed"])
            /\ UNCHANGED marketVars

\* The market sends event e: every session open for its token queues it, any
\* other has missed it for good.
Deliver(e) ==
    task' = [c \in Conn |->
               IF task[c].ws = "open" /\ e.token \in task[c].tokens
                 THEN [task[c] EXCEPT !.events = Append(@, e)] ELSE task[c]]

MarketTick(t) == /\ tick < MaxTick
                 /\ tick' = tick + 1
                 /\ Deliver([token |-> t, n |-> tick + 1])
                 /\ UNCHANGED <<active, serviceVars, cancelled, seen>>

\* A book snapshot or an unknown message.
MarketBook(t) == /\ tick < MaxTick
                 /\ tick' = tick + 1
                 /\ Deliver([token |-> t, n |-> 0])
                 /\ UNCHANGED <<active, serviceVars, cancelled, seen>>

\* The bot writes the first subscription to an outcome, or deletes the last one.
Subscribe(t) == /\ t \notin active
                /\ active' = active \cup {t}
                /\ UNCHANGED <<serviceVars, task, cancelled, marketVars>>

Unsubscribe(t) == /\ t \in active
                  /\ active' = active \ {t}
                  /\ UNCHANGED <<serviceVars, task, cancelled, marketVars>>

Change(t) == Subscribe(t) \/ Unsubscribe(t)

Cancel == /\ ~cancelled
          /\ cancelled' = TRUE
          /\ UNCHANGED <<active, serviceVars, task, marketVars>>

-----------------------------------------------------------------------------
Service == Fetch \/ FetchFails \/ RetryFetch \/ (\E c \in Conn : Spawn(c)) \/ Shutdown
             \/ Stopped \/ ConnExited \/ Refresh \/ Swapped
Manager(c) == ManagerEnds(c) \/ StartSession(c) \/ Forward(c) \/ SessionOver(c)
                \/ BackoffOver(c) \/ Panic(c)
Session(c) == Open(c) \/ Close(c)

Next == \/ Service
        \/ \E c \in Conn : Manager(c) \/ Session(c)
        \/ \E t \in Token : MarketTick(t) \/ MarketBook(t) \/ Change(t)
        \/ Cancel

Spec == Init /\ [][Next]_vars

(***************************************************************************)
(* The runtime polls a task that can move; timers run out; the refresh     *)
(* timer's query and the dialling of a session succeed again and again     *)
(* (strong fairness: they may fail or be interrupted any number of times); *)
(* connection tasks do not panic for ever.                                 *)
(***************************************************************************)
FairSpec ==
    /\ Spec
    /\ SF_vars(Fetch) /\ WF_vars(RetryFetch) /\ WF_vars(\E c \in Conn : Spawn(c))
    /\ WF_vars(Shutdown) /\ WF_vars(Stopped) /\ WF_vars(ConnExited)
    /\ SF_vars(Refresh) /\ WF_vars(Swapped)
    /\ \A c \in Conn : /\ WF_vars(ManagerEnds(c)) /\ WF_vars(StartSession(c))
                       /\ WF_vars(Forward(c)) /\ WF_vars(SessionOver(c))
                       /\ WF_vars(BackoffOver(c)) /\ SF_vars(Open(c))
    /\ <>[][~\E c \in Conn : Panic(c)]_vars

-----------------------------------------------------------------------------
Event == [token : Token, n : 0..MaxTick]
Task  == [pc : {"done", "idle", "connect", "stream", "backoff"}, tokens : SUBSET Token,
          cancel : BOOLEAN, ws : {"none", "dialing", "open", "closed"},
          events : Seq(Event), any : BOOLEAN, attempt : 0..U32Max, delay : 0..MaxDelay]

\* Types; the attempt counter and the delay stay within what the code's types
\* and its configured maximum allow.
TypeOK ==
    /\ active \subseteq Token
    /\ spc \in {"fetch", "retry", "spawn", "watch", "swap", "closing", "stopped"}
    /\ ids \subseteq Token /\ newIds \subseteq Token
    /\ cur \in Conn
    /\ task \in [Conn -> Task]
    /\ cancelled \in BOOLEAN
    /\ tick \in 0..MaxTick
    /\ seen \in [Token -> 0..MaxTick]

\* However refreshes, reconnects, panics and shutdown interleave, there is one
\* connection at most, it is the one the service can stop, and it is for the
\* tokens the service believes in; none is left behind when the service ends
\* (MonitorService::run).
OneConnection ==
    \A c \in Conn : Alive(c) =>
       c = cur /\ task[c].tokens = ids /\ spc \in {"watch", "swap", "closing"}

\* The broadcast never goes back in time for a token: no event of an older
\* session comes after one of a newer (ConnectionManager::run drains or drops a
\* session before the next; the service waits for a task before the next).
MarketOrder == [][\A t \in Token : seen'[t] >= seen[t]]_vars

\* Every session without a single price makes the next delay longer, until it
\* is at its maximum; one with a price starts over from the base delay.
PatientReconnect ==
    [][\A c \in Conn : task[c].pc = "stream" /\ task'[c].pc = "backoff" =>
          IF task[c].any THEN task'[c].delay = AtMost(Base, MaxDelay)
          ELSE \/ task'[c].delay > task[c].delay
               \/ task'[c].delay = AtMost(Base * U32Max, MaxDelay)]_vars

\* A set of tokens that stays subscribed is streamed some day, whatever the
\* database, the network and the connection task do meanwhile; unsubscribed
\* tokens stop being streamed the same way (periodic refresh, reconnect).
StreamsConverge ==
    \A s \in SUBSET Token :
        active = s ~> \/ active # s \/ cancelled
                      \/ s = {} /\ \A c \in Conn : task[c].ws # "open"
                      \/ task[cur].ws = "open" /\ task[cur].tokens = s

\* An event a session has received is forwarded, even if the session ends
\* first, unless its connection is stopped.
EventsForwarded ==
    \A c \in Conn, t \in Token, n \in 1..MaxTick :
        [token |-> t, n |-> n] \in {task[c].events[i] : i \in DOMAIN task[c].events}
          ~> seen[t] >= n \/ task[c].cancel \/ ~Alive(c)

\* Shutdown ends the service and leaves no connection running.
CancelStops == cancelled ~> spc = "stopped" /\ \A c \in Conn : ~Alive(c)
=============================================================================
