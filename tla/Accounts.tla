------------------------------ MODULE Accounts ------------------------------
(***************************************************************************)
(* Accounts of one bot and what their owners write into them outside the   *)
(* dialogues: get_or_create_user (crates/pn-common/src/db.rs), with which  *)
(* every handler begins, and the commands /start, /timezone and /feedback  *)
(* (crates/pn-bot/src/handlers.rs).                                        *)
(*                                                                         *)
(* The dispatcher handles the messages of one chat in turn and chats side  *)
(* by side, so one person has as many handlers under way as chats.  A step *)
(* is one SQL statement; SQLite makes them atomic.  created_at is the      *)
(* clock cut to whole seconds (datetime('now')), the clock itself is not.  *)
(***************************************************************************)
EXTENDS Integers, Sequences, FiniteSets

CONSTANTS
    Person,         \* Telegram users
    Chat, ChatsOf,  \* chats, and those a person writes in
    Name, NoName,   \* Telegram usernames; not everybody has one
    Zone, UTC,      \* time zones; the column's default
    NoAccount,
    Hour, Second,   \* in ticks of the clock
    MaxTime,        \* bound on the clock
    MayFail,        \* queries and messages may fail, the process may end
    Load            \* bounds of a behaviour: messages, chats they come from, ticks

ASSUME AccountsAssumption ==
    /\ ChatsOf \in [Person -> SUBSET Chat]
    /\ IsFiniteSet(Chat)
    /\ NoName \notin Name /\ UTC \in Zone
    /\ Hour \in Nat /\ Second \in Nat \ {0} /\ MaxTime \in Nat
    /\ MayFail \in BOOLEAN

Account == [name : Name \cup {NoName}, zone : Zone]
Command == {"start", "timezone", "feedback", "other"}
Message == [who : Person, cmd : Command, name : Name \cup {NoName}, zone : Zone]

ASSUME LoadAssumption ==
    /\ NoAccount \notin Account
    /\ Load \subseteq [messages : SUBSET Message, chats : SUBSET Chat, ticks : 0..MaxTime]

VARIABLES
    now,        \* Utc::now()
    account,    \* the row of users of each person
    feedback,   \* the feedback table, with the chat and the time of the INSERT
    handler,    \* what is being handled in each chat
    told,       \* history: the name and the zone last written for each person
    lost,       \* history: messages each person lost to a failed INSERT
    load        \* the bounds this behaviour has

vars == <<now, account, feedback, handler, told, lost, load>>

\* A message on its way through its handler; "row" is what get_or_create_user
\* has read, "last" what get_last_feedback_time has.
At == {"select", "insert", "rename", "act", "judge", "write"}
NoLast == 0 - 1
Idle == [at |-> "idle"]
Handling == [msg : Message, at : At, row : Account \cup {NoAccount},
             last : 0..MaxTime \cup {NoLast}]

Init == /\ now = 0
        /\ account = [p \in Person |-> NoAccount]
        /\ feedback = << >>
        /\ handler = [c \in Chat |-> Idle]
        /\ told = [p \in Person |-> NoAccount]
        /\ lost = [p \in Person |-> 0]
        /\ load \in Load

-----------------------------------------------------------------------------
Tick == /\ now < load.ticks
        /\ now' = now + 1
        /\ UNCHANGED <<account, feedback, handler, told, lost, load>>

\* The chat's next message.  Only /start passes the name on.
Receive(c, m) ==
    /\ handler[c] = Idle
    /\ c \in ChatsOf[m.who] \cap load.chats
    /\ m.cmd # "start" => m.name = NoName
    /\ handler' = [handler EXCEPT ![c] = [msg |-> m, at |-> "select", row |-> NoAccount,
                                          last |-> NoLast]]
    /\ UNCHANGED <<now, account, feedback, told, lost, load>>

Is(c, at)  == handler[c] # Idle /\ handler[c].at = at
Who(c)     == handler[c].msg.who
Goes(c, at) == handler' = [handler EXCEPT ![c].at = at]
Ends(c)    == handler' = [handler EXCEPT ![c] = Idle]

\* Mutant: the name belongs to the key.
SelectByName(c) ==
    /\ Is(c, "select")
    /\ LET row == account[Who(c)]
           name == handler[c].msg.name
       IN handler' = [handler EXCEPT ![c].row = row,
                                     ![c].at = IF row = NoAccount \/ name # row.name
                                               THEN "insert" ELSE "act"]
    /\ UNCHANGED <<now, account, feedback, told, lost, load>>

\* Mutant: only /start makes accounts.
SelectStartOnly(c) ==
    /\ Is(c, "select")
    /\ LET row == account[Who(c)]
           name == handler[c].msg.name
       IN handler' = [handler EXCEPT
              ![c].row = row,
              ![c].at = IF row = NoAccount /\ handler[c].msg.cmd = "start" THEN "insert"
                        ELSE IF row # NoAccount /\ name \notin {NoName, row.name} THEN "rename"
                        ELSE "act"]
    /\ UNCHANGED <<now, account, feedback, told, lost, load>>

\* The SELECT of get_or_create_user, and what it leads to.
Select(c) ==
    /\ Is(c, "select")
    /\ LET row == account[Who(c)]
           name == handler[c].msg.name
       IN handler' = [handler EXCEPT
              ![c].row = row,
              ![c].at = IF row = NoAccount THEN "insert"
                        ELSE IF name \notin {NoName, row.name} THEN "rename"
                        ELSE "act"]
    /\ UNCHANGED <<now, account, feedback, told, lost, load>>

\* The INSERT, when nobody else has come first; the new row is read back, and
\* stays (no statement deletes a row of users).
Insert(c) ==
    /\ Is(c, "insert") /\ account[Who(c)] = NoAccount
    /\ LET row == [name |-> handler[c].msg.name, zone |-> UTC]
       IN /\ account' = [account EXCEPT ![Who(c)] = row]
          /\ told' = [told EXCEPT ![Who(c)] = row]
    /\ Goes(c, "act")
    /\ UNCHANGED <<now, feedback, lost, load>>

\* UNIQUE(telegram_id, bot_id): the handler ends with the error.
InsertLoses(c) ==
    /\ Is(c, "insert") /\ account[Who(c)] # NoAccount
    /\ lost' = [lost EXCEPT ![Who(c)] = @ + 1]
    /\ Ends(c)
    /\ UNCHANGED <<now, account, feedback, told, load>>

\* Mutant: the row read before is written back whole.
RenameWholeRow(c) ==
    /\ Is(c, "rename")
    /\ account' = [account EXCEPT ![Who(c)] =
                      [handler[c].row EXCEPT !.name = handler[c].msg.name]]
    /\ told' = [told EXCEPT ![Who(c)].name = handler[c].msg.name]
    /\ Goes(c, "act")
    /\ UNCHANGED <<now, feedback, lost, load>>

\* UPDATE users SET username.
Rename(c) ==
    /\ Is(c, "rename")
    /\ account' = [account EXCEPT ![Who(c)].name = handler[c].msg.name]
    /\ told' = [told EXCEPT ![Who(c)].name = handler[c].msg.name]
    /\ Goes(c, "act")
    /\ UNCHANGED <<now, feedback, lost, load>>

\* /timezone: UPDATE users SET timezone.
SetTimezone(c) ==
    /\ Is(c, "act") /\ handler[c].msg.cmd = "timezone"
    /\ account' = [account EXCEPT ![Who(c)].zone = handler[c].msg.zone]
    /\ told' = [told EXCEPT ![Who(c)].zone = handler[c].msg.zone]
    /\ Ends(c)
    /\ UNCHANGED <<now, feedback, lost, load>>

\* /start and the commands that only read answer.
Answer(c) ==
    /\ Is(c, "act") /\ handler[c].msg.cmd \in {"start", "other"}
    /\ Ends(c)
    /\ UNCHANGED <<now, account, feedback, told, lost, load>>

-----------------------------------------------------------------------------
Created(i) == feedback[i].time - (feedback[i].time % Second)
OfPerson(p) == {i \in 1..Len(feedback) : feedback[i].who = p}

\* get_last_feedback_time.
LastFeedback(c) ==
    /\ Is(c, "act") /\ handler[c].msg.cmd = "feedback"
    /\ \/ /\ OfPerson(Who(c)) = {}
          /\ handler' = [handler EXCEPT ![c].at = "judge", ![c].last = NoLast]
       \/ \E i \in OfPerson(Who(c)) :
             /\ \A j \in OfPerson(Who(c)) : Created(j) <= Created(i)
             /\ handler' = [handler EXCEPT ![c].at = "judge", ![c].last = Created(i)]
    /\ UNCHANGED <<now, account, feedback, told, lost, load>>

\* Is less than an hour gone?
TooEarly(c) == handler[c].last # NoLast /\ now - handler[c].last < Hour

\* Mutant: passes a second too early.
JudgeEarly(c) ==
    /\ Is(c, "judge")
    /\ IF handler[c].last # NoLast /\ now - handler[c].last < Hour - Second
       THEN Ends(c) ELSE Goes(c, "write")
    /\ UNCHANGED <<now, account, feedback, told, lost, load>>

\* The clock is read after the answer has come.
Judge(c) ==
    /\ Is(c, "judge")
    /\ IF TooEarly(c) THEN Ends(c) ELSE Goes(c, "write")
    /\ UNCHANGED <<now, account, feedback, told, lost, load>>

\* insert_feedback.
InsertFeedback(c) ==
    /\ Is(c, "write")
    /\ feedback' = Append(feedback, [who |-> Who(c), chat |-> c, time |-> now])
    /\ Ends(c)
    /\ UNCHANGED <<now, account, told, lost, load>>

-----------------------------------------------------------------------------
\* A statement or a message fails: the handler ends.
HandlerFails(c) ==
    /\ MayFail /\ handler[c] # Idle
    /\ Ends(c)
    /\ UNCHANGED <<now, account, feedback, told, lost, load>>

\* The process ends and begins again, without the messages in hand.
Restart ==
    /\ MayFail
    /\ handler' = [c \in Chat |-> Idle]
    /\ UNCHANGED <<now, account, feedback, told, lost, load>>

Handle(c) ==
    \/ Select(c) \/ Insert(c) \/ InsertLoses(c) \/ Rename(c)
    \/ SetTimezone(c) \/ Answer(c)
    \/ LastFeedback(c) \/ Judge(c) \/ InsertFeedback(c)

Next == \/ Tick \/ Restart
        \/ \E c \in Chat :
              \/ \E m \in load.messages : Receive(c, m)
              \/ Handle(c) \/ HandlerFails(c)

Spec == Init /\ [][Next]_vars

-----------------------------------------------------------------------------
Handlers == {c \in Chat : handler[c] # Idle}
Inserting(p) == {c \in Handlers : handler[c].at = "insert" /\ Who(c) = p}

\* Types; a handler is at work for someone of its chat, and once it is past
\* get_or_create_user its person has an account.
TypeOK ==
    /\ now \in 0..MaxTime /\ load \in Load
    /\ account \in [Person -> Account \cup {NoAccount}]
    /\ feedback \in Seq([who : Person, chat : Chat, time : 0..now])
    /\ handler \in [Chat -> Handling \cup {Idle}]
    /\ lost \in [Person -> Nat]
    /\ \A c \in Handlers :
          /\ c \in ChatsOf[Who(c)]
          /\ handler[c].at \notin {"select", "insert"} => account[Who(c)] # NoAccount

\* However /timezone, /start and others of one person cross each other in
\* several chats, each column holds what was last said of it
\* (get_or_create_user, timezone).
NoLostUpdate == (told = account)

\* The race of a person's first messages costs at most one message per other
\* chat, once: all that were past their SELECT when the account was made
\* (get_or_create_user, UNIQUE(telegram_id, bot_id)).
RaceBounded ==
    \A p \in Person : lost[p] # 0 => account[p] # NoAccount
                         /\ lost[p] < Cardinality(ChatsOf[p])

\* The hour between two feedbacks holds within a chat, less the second that
\* datetime('now') drops; only another chat can come in between (feedback).
FeedbackSpaced ==
    \A i, j \in 1..Len(feedback) :
       /\ i < j
       /\ feedback[i].who = feedback[j].who /\ feedback[i].chat = feedback[j].chat
       => feedback[j].time - feedback[i].time > Hour - Second
=============================================================================
