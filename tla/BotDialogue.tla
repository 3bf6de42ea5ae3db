----------------------------- MODULE BotDialogue -----------------------------
(***************************************************************************)
(* The subscribe and alert dialogues of the Telegram bot                   *)
(* (crates/pn-bot/src/dialogues.rs), the routing of updates by dialogue    *)
(* state (lib.rs), the unsubscribe button (handlers.rs) and the admin's    *)
(* changes of tier and limit, over the subscriptions and alerts tables.    *)
(*                                                                         *)
(* The dispatcher handles the updates of one chat in sequence and those of *)
(* different chats concurrently; a user writes from a private chat and     *)
(* from groups, and a group's dialogue is shared by its members.  The      *)
(* handlers that only move a dialogue are one step each: they touch the    *)
(* chat's dialogue and read the tables once at most.  The two threshold    *)
(* handlers are cut at every query.  An answer Telegram refuses ends a     *)
(* handler before it moves its dialogue.                                   *)
(***************************************************************************)
EXTENDS Integers, Sequences, FiniteSets

CONSTANTS
    User, Chat,
    Member,         \* the users who may write in a chat
    Market,
    Offer,          \* sequences of markets a search may return
    Index,          \* outcome indices on the keyboards a chat may have been shown
    Limit,          \* the limits the admin sets ...
    DefaultLimit,   \* ... and the one a new account starts with
    MaxId,          \* bound on subscription ids
    MaxAlerts,      \* bound on the alerts of a subscription
    Managed,        \* the users whose tier and limit the admin changes
    MayFail, MayRestart,
    NoRow, NoJob, NoMarket

\* Tiers of users, and what a threshold handler goes on with after its first query.
Tier == {"free", "premium"}
Job  == [pc : {"quota", "insert", "select", "attach", "count", "update"}, user : User,
         tier : Tier, limit : Nat, sub : 0..MaxId]

ASSUME DialogueAssumption ==
    /\ Member \in [Chat -> SUBSET User]
    /\ IsFiniteSet(Chat)
    /\ Offer \subseteq Seq(Market) \ {<< >>}
    /\ Index \subseteq Nat
    /\ DefaultLimit \in Limit
    /\ Limit \subseteq Nat
    /\ MaxId \in Nat /\ MaxAlerts \in Nat
    /\ Managed \subseteq User
    /\ MayFail \in BOOLEAN /\ MayRestart \in BOOLEAN
    /\ NoMarket \notin Market
    /\ NoRow \notin [user : User, market : Market, outcome : Index]
    /\ NoJob \notin Job

VARIABLES
    tier, limit,   \* of the users rows
    rows,          \* the subscriptions table, by id
    born,          \* ids handed out: AUTOINCREMENT never gives one twice
    alerts,        \* number of alerts rows per subscription
    dialogue,      \* InMemStorage: the dialogue of each chat
    job,           \* the threshold handler running in each chat
    top,           \* history: highest limit a user ever had
    paid,          \* history: rows a paying user added an alert to
    halfMade       \* history: rows whose handler broke off before the alert

userVars    == <<tier, limit, top>>
tableVars   == <<rows, born, alerts>>
historyVars == <<paid, halfMade>>
vars == <<userVars, tableVars, dialogue, job, historyVars>>

Id  == 1..MaxId
Key == [user : User, market : Market, outcome : Index]

\* States in which every callback goes to the dialogue.
ByButton == {"market", "outcome", "subType", "alertSub", "alertType"}
ByText   == {"url", "subThreshold", "alertThreshold"}

\* A dialogue: the markets offered, the market (whose question the messages
\* name), the outcome and the subscription picked so far.
Talk(s, offer, market, outcome, sub) ==
    [state |-> s, offer |-> offer, market |-> market, outcome |-> outcome, sub |-> sub]

Idle == Talk("idle", << >>, NoMarket, 0, 0)

SubsOf(u)  == {i \in Id : rows[i] # NoRow /\ rows[i].user = u}
ChatsOf(u) == {c \in Chat : u \in Member[c]}

Init == /\ tier = [u \in User |-> "free"]
        /\ limit = [u \in User |-> DefaultLimit] /\ top = limit
        /\ rows = [i \in Id |-> NoRow] /\ born = 0
        /\ alerts = [i \in Id |-> 0]
        /\ dialogue = [c \in Chat |-> Idle]
        /\ job = [c \in Chat |-> NoJob]
        /\ paid = {} /\ halfMade = {}

-----------------------------------------------------------------------------
(***************************************************************************)
(* Handlers that move the dialogue.  A chat handles one update at a time.  *)
(***************************************************************************)
Move(c, from, to) == /\ job[c] = NoJob
                     /\ dialogue[c].state \in from
                     /\ dialogue' = [dialogue EXCEPT ![c] = to]
                     /\ UNCHANGED <<userVars, tableVars, job, historyVars>>

AnyState == ByButton \cup ByText \cup {"idle"}

\* /subscribe: commands come first in the schema, whatever the dialogue waits for.
SubscribeStart(c) == Move(c, AnyState, Talk("url", << >>, NoMarket, 0, 0))

\* A search with one hit skips the selection of a market.
UrlInput(c, offer) ==
    Move(c, {"url"}, IF Len(offer) = 1 THEN Talk("outcome", << >>, offer[1], 0, 0)
                     ELSE Talk("market", offer, NoMarket, 0, 0))

\* The button may be one of an older, longer list.
MarketSelection(c, i) ==
    Move(c, {"market"}, IF i \in DOMAIN dialogue[c].offer
                          THEN Talk("outcome", << >>, dialogue[c].offer[i], 0, 0)
                          ELSE Idle)

\* The index is taken as it is, from whichever keyboard.
OutcomeSelection(c, i) ==
    Move(c, {"outcome"}, Talk("subType", << >>, dialogue[c].market, i, 0))

SubscribeAlertType(c) ==
    Move(c, {"subType"}, [dialogue[c] EXCEPT !.state = "subThreshold"])

\* /alert lists the sender's subscriptions, if there are any.
AlertStart(c, u) == /\ u \in Member[c] /\ SubsOf(u) # {}
                    /\ Move(c, AnyState, Talk("alertSub", << >>, NoMarket, 0, 0))

\* A button of any list the chat was ever shown; the row may be gone.
AlertSubscription(c, i) ==
    /\ i <= born
    /\ rows[i] # NoRow => rows[i].user \in Member[c]
    /\ Move(c, {"alertSub"}, IF rows[i] = NoRow THEN Idle
                             ELSE Talk("alertType", << >>, rows[i].market, 0, i))

AlertType(c) ==
    Move(c, {"alertType"}, [dialogue[c] EXCEPT !.state = "alertThreshold"])

\* Mutant: foreign keys are off, the alerts stay.
CallbackUnsubscribeNoCascade(c, i) ==
    /\ job[c] = NoJob /\ dialogue[c].state \notin ByButton
    /\ rows[i] # NoRow /\ rows[i].user \in Member[c]
    /\ rows' = [rows EXCEPT ![i] = NoRow]
    /\ UNCHANGED <<userVars, born, alerts, dialogue, job, historyVars>>

\* The unsubscribe button, which only reaches its handler while the dialogue
\* waits for no other button.
CallbackUnsubscribe(c, i) ==
    /\ job[c] = NoJob /\ dialogue[c].state \notin ByButton
    /\ rows[i] # NoRow /\ rows[i].user \in Member[c]
    /\ rows' = [rows EXCEPT ![i] = NoRow]
    /\ alerts' = [alerts EXCEPT ![i] = 0]
    /\ paid' = paid \ {i} /\ halfMade' = halfMade \ {i}
    /\ UNCHANGED <<userVars, born, dialogue, job>>

-----------------------------------------------------------------------------
(***************************************************************************)
(* handle_subscribe_alert_threshold and handle_alert_threshold, cut at     *)
(* their queries.                                                          *)
(***************************************************************************)
At(c, pc) == job[c] # NoJob /\ job[c].pc = pc
Goto(c, pc) == job' = [job EXCEPT ![c].pc = pc]

\* The key the subscribe handler works for.
KeyOf(c) == [user |-> job[c].user, market |-> dialogue[c].market,
             outcome |-> dialogue[c].outcome]
Rows(key) == {i \in Id : rows[i] = key}

\* The handler returns: with the dialogue idle, or where it was when the last
\* answer could not be sent.
Return(c) == /\ job' = [job EXCEPT ![c] = NoJob]
             /\ \/ dialogue' = [dialogue EXCEPT ![c] = Idle]
                \/ MayFail /\ UNCHANGED dialogue

\* A valid number from a member: get_or_create_user returns the users row, of
\* which each handler uses its part.
Begin(c, u, state, h) ==
    /\ job[c] = NoJob /\ u \in Member[c]
    /\ dialogue[c].state = state
    /\ job' = [job EXCEPT ![c] = h]
    /\ UNCHANGED <<userVars, tableVars, dialogue, historyVars>>

SubscribeThreshold(c, u) ==
    Begin(c, u, "subThreshold",
          [pc |-> "quota", user |-> u, tier |-> tier[u], limit |-> limit[u], sub |-> 0])

AlertThreshold(c, u) ==
    Begin(c, u, "alertThreshold",
          [pc |-> "count", user |-> u, tier |-> tier[u], limit |-> 0, sub |-> dialogue[c].sub])

QuotaFull(c) ==
    /\ At(c, "quota") /\ Cardinality(SubsOf(job[c].user)) >= job[c].limit
    /\ Return(c)
    /\ UNCHANGED <<userVars, tableVars, historyVars>>

\* Mutant: one subscription too many.
QuotaOkOneMore(c) ==
    /\ At(c, "quota") /\ Cardinality(SubsOf(job[c].user)) <= job[c].limit
    /\ Goto(c, "insert")
    /\ UNCHANGED <<userVars, tableVars, dialogue, historyVars>>

QuotaOk(c) ==
    /\ At(c, "quota") /\ Cardinality(SubsOf(job[c].user)) < job[c].limit
    /\ Goto(c, "insert")
    /\ UNCHANGED <<userVars, tableVars, dialogue, historyVars>>

\* INSERT OR IGNORE, after upsert_market.
AlreadySubscribed(c) ==
    /\ At(c, "insert") /\ Rows(KeyOf(c)) # {}
    /\ Return(c)
    /\ UNCHANGED <<userVars, tableVars, historyVars>>

\* Mutant: a plain rowid, one past the highest that is there.
InsertSubscriptionReusing(c) ==
    LET next == Cardinality({i \in Id : \E j \in Id : i <= j /\ rows[j] # NoRow}) + 1 IN
    /\ At(c, "insert") /\ Rows(KeyOf(c)) = {}
    /\ next \in Id
    /\ born' = IF next > born THEN next ELSE born
    /\ rows' = [rows EXCEPT ![next] = KeyOf(c)]
    /\ Goto(c, "select")
    /\ UNCHANGED <<userVars, alerts, dialogue, historyVars>>

InsertSubscription(c) ==
    /\ At(c, "insert") /\ Rows(KeyOf(c)) = {}
    /\ born < MaxId
    /\ born' = born + 1
    /\ rows' = [rows EXCEPT ![born + 1] = KeyOf(c)]
    /\ Goto(c, "select")
    /\ UNCHANGED <<userVars, alerts, dialogue, historyVars>>

\* Mutant: the WHERE clause has nothing but the user.
SelectSubscriptionOfUser(c, i) ==
    /\ At(c, "select") /\ rows[i] # NoRow /\ rows[i].user = job[c].user
    /\ job' = [job EXCEPT ![c].pc = "attach", ![c].sub = i]
    /\ UNCHANGED <<userVars, tableVars, dialogue, historyVars>>

\* The id of the row just inserted, or of one that took its place.
SelectSubscription(c, i) ==
    /\ At(c, "select") /\ i \in Rows(KeyOf(c))
    /\ job' = [job EXCEPT ![c].pc = "attach", ![c].sub = i]
    /\ UNCHANGED <<userVars, tableVars, dialogue, historyVars>>

SubscriptionGone(c) ==
    /\ At(c, "select") /\ Rows(KeyOf(c)) = {}
    /\ Return(c)
    /\ UNCHANGED <<userVars, tableVars, historyVars>>

\* Mutant: a free user's second alert is added like a paying user's.
CountAlertsForAll(c) ==
    /\ At(c, "count")
    /\ Goto(c, "attach")
    /\ UNCHANGED <<userVars, tableVars, dialogue, historyVars>>

\* A free user's alert is rewritten when there is one (the rewriting itself
\* is AlertEngine's UpdateAlert).
CountAlerts(c) ==
    /\ At(c, "count")
    /\ Goto(c, IF job[c].tier = "free" /\ alerts[job[c].sub] > 0 THEN "update" ELSE "attach")
    /\ UNCHANGED <<userVars, tableVars, dialogue, historyVars>>

UpdateAlert(c) ==
    /\ At(c, "update")
    /\ Return(c)
    /\ UNCHANGED <<userVars, tableVars, historyVars>>

\* INSERT INTO alerts; the foreign key refuses it when the row is gone, which
\* the user is told.
AttachAlert(c) ==
    LET i == job[c].sub IN
    /\ At(c, "attach")
    /\ IF rows[i] = NoRow THEN UNCHANGED <<alerts, paid>>
       ELSE /\ alerts[i] < MaxAlerts
            /\ alerts' = [alerts EXCEPT ![i] = @ + 1]
            /\ paid' = IF job[c].tier = "free" THEN paid ELSE paid \cup {i}
    /\ Return(c)
    /\ UNCHANGED <<userVars, rows, born, halfMade>>

\* The rows the subscribe handler of chat c is about to give their alert.
Making(c) == {i \in Id : /\ rows[i] # NoRow
                         /\ \/ At(c, "select") /\ rows[i] = KeyOf(c)
                            \/ At(c, "attach") /\ dialogue[c].state = "subThreshold"
                               /\ job[c].sub = i}

\* A query fails, or an answer before it: the handler ends, whether it is one of
\* those that reset the dialogue first or not.
HandlerFails(c) ==
    /\ MayFail /\ job[c] # NoJob
    /\ Return(c)
    /\ halfMade' = halfMade \cup Making(c)
    /\ UNCHANGED <<userVars, tableVars, paid>>

-----------------------------------------------------------------------------
\* The process dies, or stops before its handlers have: dialogues start anew.
Restart ==
    /\ MayRestart
    /\ dialogue' = [c \in Chat |-> Idle]
    /\ job' = [c \in Chat |-> NoJob]
    /\ halfMade' = halfMade \cup UNION {Making(c) : c \in Chat}
    /\ UNCHANGED <<userVars, tableVars, paid>>

\* PUT /admin/users/:telegram_id/tier and .../limit.
UpdateTier(u, t) ==
    /\ u \in Managed
    /\ tier' = [tier EXCEPT ![u] = t]
    /\ UNCHANGED <<limit, top, tableVars, dialogue, job, historyVars>>

UpdateLimit(u, n) ==
    /\ u \in Managed
    /\ limit' = [limit EXCEPT ![u] = n]
    /\ top' = [top EXCEPT ![u] = IF n > @ THEN n ELSE @]
    /\ UNCHANGED <<tier, tableVars, dialogue, job, historyVars>>

-----------------------------------------------------------------------------
Dialogue(c) == \/ SubscribeStart(c) \/ SubscribeAlertType(c) \/ AlertType(c)
               \/ \E offer \in Offer : UrlInput(c, offer)
               \/ \E i \in 1..(Len(dialogue[c].offer) + 1) : MarketSelection(c, i)
               \/ \E i \in Index : OutcomeSelection(c, i)
               \/ \E u \in User : AlertStart(c, u)
               \/ \E i \in Id : AlertSubscription(c, i) \/ CallbackUnsubscribe(c, i)

Handler(c) == \/ \E u \in User : SubscribeThreshold(c, u) \/ AlertThreshold(c, u)
              \/ QuotaFull(c) \/ QuotaOk(c) \/ AlreadySubscribed(c) \/ InsertSubscription(c)
              \/ SubscriptionGone(c) \/ CountAlerts(c) \/ UpdateAlert(c) \/ AttachAlert(c)
              \/ HandlerFails(c)
              \/ \E i \in Id : SelectSubscription(c, i)

Admin == \E u \in User : \/ \E t \in {"free", "premium"} : UpdateTier(u, t)
                         \/ \E n \in Limit : UpdateLimit(u, n)

Next == (\E c \in Chat : Dialogue(c) \/ Handler(c)) \/ Restart \/ Admin

Spec == Init /\ [][Next]_vars

-----------------------------------------------------------------------------
DialogueState == [state : AnyState, offer : Seq(Market), market : Market \cup {NoMarket},
                  outcome : Nat, sub : 0..MaxId]

\* What a dialogue holds in the states that rely on it.
DialogueHolds(d) ==
    /\ d.state = "market" => d.offer \in Offer
    /\ d.state \in {"outcome", "subType", "subThreshold"} => d.market \in Market
    /\ d.state \in {"subType", "subThreshold"} => d.outcome \in Index
    /\ d.state \in {"alertType", "alertThreshold"} => d.sub \in 1..born

\* What a handler relies on: a member of the chat, a limit once in force, the
\* dialogue it started from, and a subscription that was there.
HandlerHolds(c, h) ==
    /\ h.user \in Member[c]
    /\ h.limit <= top[h.user]
    /\ h.pc \in {"quota", "insert", "select"} => dialogue[c].state = "subThreshold"
    /\ h.pc \in {"count", "update"} => dialogue[c].state = "alertThreshold"
    /\ h.pc \in {"count", "update", "attach"} => h.sub \in 1..born

UsersOK == /\ tier \in [User -> Tier]
           /\ limit \in [User -> Limit] /\ top \in [User -> Limit]
           /\ \A u \in User : limit[u] <= top[u]

TablesOK == /\ rows \in [Id -> Key \cup {NoRow}]
            /\ born \in 0..MaxId
            /\ alerts \in [Id -> 0..MaxAlerts]
            /\ \A i \in Id : rows[i] = NoRow => alerts[i] = 0
            /\ \A i \in Id : i > born => rows[i] = NoRow
            /\ paid \subseteq Id /\ halfMade \subseteq Id

TalksOK == /\ dialogue \in [Chat -> DialogueState]
           /\ job \in [Chat -> Job \cup {NoJob}]
           /\ \A c \in Chat : /\ DialogueHolds(dialogue[c])
                              /\ job[c] # NoJob => HandlerHolds(c, job[c])

\* Types, what dialogues and handlers rely on, no alert without its subscription
\* and no subscription with an id that was not handed out.
TypeOK == UsersOK /\ TablesOK /\ TalksOK

\* Chats in which a handler of u has passed the quota check and not inserted yet.
Admitted(u) == {c \in Chat : At(c, "insert") /\ job[c].user = u}

\* Count and insert are two statements, so chats of one user that race exceed
\* the highest limit the user ever had, but by no more than the other chats:
\* one handler per chat, and each that passed the check counts already.
QuotaOvershoot ==
    \A u \in User : ChatsOf(u) # {} =>
        Cardinality(SubsOf(u)) + Cardinality(Admitted(u))
          <= top[u] + Cardinality(ChatsOf(u)) - 1

\* Free users' handlers about to give subscription i an alert.
FreeAttaching(i) == {c \in Chat : /\ job[c] # NoJob /\ job[c].tier = "free"
                                  /\ \/ At(c, "attach") /\ job[c].sub = i
                                     \/ At(c, "select") /\ i \in Rows(KeyOf(c))}

\* A subscription no paying user has touched has at most one alert per chat of
\* its owner, those under way included: it gets a second one only when handlers
\* race, whosever they are, and only in chats its owner writes in.
FreeAlertsBounded ==
    \A i \in Id : rows[i] # NoRow /\ i \notin paid =>
        alerts[i] + Cardinality(FreeAttaching(i)) <= Cardinality(ChatsOf(rows[i].user))

\* Whatever is unsubscribed, inserted again and retyped meanwhile, a subscription
\* without an alert has one under way or a subscribe handler that broke off.
SubscriptionHasAlert ==
    \A i \in Id : rows[i] # NoRow /\ alerts[i] = 0 =>
        i \in halfMade \/ \E c \in Chat : i \in Making(c)

\* The market whose question the dialogue shows is that of the subscription the
\* alert goes to, as long as that is there: ids are never given twice.
AlertWhereShown ==
    \A c \in Chat :
        dialogue[c].state \in {"alertType", "alertThreshold"} /\ rows[dialogue[c].sub] # NoRow
          => rows[dialogue[c].sub].market = dialogue[c].market
=============================================================================
