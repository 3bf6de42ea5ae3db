--------------------------- MODULE Accounts_proofs ---------------------------
(***************************************************************************)
(* Accounts for every set of persons, chats, names and zones.              *)
(***************************************************************************)
EXTENDS Accounts, FiniteSetTheorems, TLAPS

USE DEF Is, Who

LEMMA SeqWider == ASSUME NEW S, NEW T, S \subseteq T, NEW s \in Seq(S)
                  PROVE  s \in Seq(T)
OBVIOUS

LEMMA SeqElement == ASSUME NEW S, NEW s \in Seq(S), NEW i \in 1..Len(s)
                    PROVE  s[i] \in S
OBVIOUS

\* Cutting to whole seconds stays within the clock.
LEMMA CutWithin ==
    ASSUME NEW k \in Nat \ {0}, NEW n \in Nat
    PROVE  n - (n % k) \in 0..n /\ n - (n % k) > n - k
<1>1. n % k \in Nat /\ n % k < k
  OBVIOUS
<1>2. n % k <= n
  OBVIOUS
<1>3. QED
  BY <1>1, <1>2

\* A handler, and what its fields are.
LEMMA HandlerFields ==
    ASSUME TypeOK, NEW c \in Handlers
    PROVE  /\ handler[c] \in Handling /\ c \in Chat
           /\ handler[c].msg \in Message /\ handler[c].msg.who \in Person
           /\ handler[c].at \in At
           /\ handler[c].row \in Account \cup {NoAccount}
           /\ handler[c].last \in 0..MaxTime \cup {NoLast}
BY DEF TypeOK, Handlers, Handling, Message

\* Types, and that a handler past get_or_create_user has an account to work on:
\* an account, once made, stays (no statement deletes a user).
THEOREM TypeCorrect == Spec => []TypeOK
<1>1. Init => TypeOK
  BY AccountsAssumption, LoadAssumption DEF Init, TypeOK, Handlers
<1>2. TypeOK /\ [Next]_vars => TypeOK'
  <2> SUFFICES ASSUME TypeOK, [Next]_vars
               PROVE  TypeOK'
    OBVIOUS
  <2> DEFINE Ok(c) == /\ c \in ChatsOf[handler[c].msg.who]
                      /\ handler[c].at \notin {"select", "insert"} =>
                            account[handler[c].msg.who] # NoAccount
  <2>0. \A c \in Handlers : Ok(c)
    BY DEF TypeOK
  <2> USE AccountsAssumption, LoadAssumption
  <2>1. CASE Tick
    <3>1. now' \in 0..MaxTime /\ 0..now \subseteq 0..now'
      BY <2>1 DEF Tick, TypeOK
    <3>2. feedback \in Seq([who : Person, chat : Chat, time : 0..now'])
      <4>1. [who : Person, chat : Chat, time : 0..now]
               \subseteq [who : Person, chat : Chat, time : 0..now']
        BY <3>1
      <4>2. feedback \in Seq([who : Person, chat : Chat, time : 0..now])
        BY DEF TypeOK
      <4>3. QED
        BY <4>1, <4>2, SeqWider
    <3>3. QED
      BY <2>1, <3>1, <3>2 DEF Tick, TypeOK, Handlers
  <2>2. CASE Restart
    BY <2>2 DEF Restart, TypeOK, Handlers
  <2>3. ASSUME NEW c \in Chat, NEW m \in load.messages, Receive(c, m)
        PROVE  TypeOK'
    <3>1. m \in Message
      BY DEF TypeOK
    <3> DEFINE h == [msg |-> m, at |-> "select", row |-> NoAccount, last |-> NoLast]
    <3>2. handler' = [handler EXCEPT ![c] = h] /\ c \in ChatsOf[m.who]
      BY <2>3 DEF Receive
    <3>3. h \in Handling /\ h.at = "select" /\ h.msg = m
      BY <3>1 DEF Handling, At
    <3> HIDE DEF h
    <3>4. handler' \in [Chat -> Handling \cup {Idle}]
      BY <3>2, <3>3 DEF TypeOK
    <3>5. /\ c \in ChatsOf[m.who] /\ handler'[c] = h
          /\ \A d \in Chat \ {c} : handler'[d] = handler[d]
      BY <3>2 DEF TypeOK
    <3>6. UNCHANGED <<now, account, feedback, lost, load>>
      BY <2>3 DEF Receive
    <3>7. ASSUME NEW d \in Handlers'
          PROVE  /\ d \in ChatsOf[handler'[d].msg.who]
                 /\ handler'[d].at \notin {"select", "insert"} =>
                       account'[handler'[d].msg.who] # NoAccount
      BY <2>0, <3>3, <3>5, <3>6, <3>7 DEF Handlers
    <3>8. QED
      BY <3>4, <3>6, <3>7 DEF TypeOK
  <2>4. ASSUME NEW c \in Chat, Handle(c) \/ HandlerFails(c)
        PROVE  TypeOK'
    <3>1. c \in Handlers
      BY <2>4 DEF Handle, Select, Insert, InsertLoses, Rename, SetTimezone, Answer,
                  LastFeedback, Judge, InsertFeedback, HandlerFails, Handlers
    <3>2. Ok(c) /\ handler[c] \in Handling /\ handler[c].msg \in Message
      BY <2>0, <3>1, HandlerFields
    \* Whatever the step, the handler goes on to a new place or ends.
    <3>3. ASSUME NEW h \in Handling \cup {Idle}, handler' = [handler EXCEPT ![c] = h],
                 h # Idle => h.msg = handler[c].msg,
                 (h # Idle /\ h.at \notin {"select", "insert"})
                    => account'[handler[c].msg.who] # NoAccount,
                 account' \in [Person -> Account \cup {NoAccount}],
                 \A p \in Person : account[p] # NoAccount => account'[p] # NoAccount,
                 feedback' \in Seq([who : Person, chat : Chat, time : 0..now]),
                 lost' \in [Person -> Nat],
                 now' = now, load' = load
          PROVE  TypeOK'
      <4>1. ASSUME NEW d \in Handlers'
            PROVE  /\ d \in ChatsOf[handler'[d].msg.who]
                   /\ handler'[d].at \notin {"select", "insert"} =>
                         account'[handler'[d].msg.who] # NoAccount
        <5>1. CASE d = c
          BY <4>1, <5>1, <3>2, <3>3 DEF Handlers, TypeOK
        <5>2. CASE d # c
          <6>1. d \in Handlers /\ handler'[d] = handler[d]
            BY <4>1, <5>2, <3>3 DEF Handlers, TypeOK
          <6>2. QED
            BY <2>0, <6>1, <3>3, HandlerFields
        <5>3. QED
          BY <5>1, <5>2
      <4>2. handler' \in [Chat -> Handling \cup {Idle}]
        BY <3>3 DEF TypeOK
      <4>3. QED
        BY <3>3, <4>1, <4>2 DEF TypeOK
    <3>4. /\ account \in [Person -> Account \cup {NoAccount}] /\ handler[c].msg.who \in Person
          /\ feedback \in Seq([who : Person, chat : Chat, time : 0..now])
          /\ lost \in [Person -> Nat] /\ now \in 0..MaxTime
      BY <3>1, HandlerFields DEF TypeOK
    <3>5. ASSUME NEW i \in 1..Len(feedback)
          PROVE  feedback[i].time \in 0..now
      <4>1. feedback[i] \in [who : Person, chat : Chat, time : 0..now]
        BY <3>4, SeqElement
      <4>2. QED
        BY <4>1
    <3>6. \A at \in At : /\ [handler[c] EXCEPT !.at = at] \in Handling
                         /\ [handler[c] EXCEPT !.at = at].msg = handler[c].msg
                         /\ [handler[c] EXCEPT !.at = at].at = at
      BY <3>2 DEF Handling
    <3>7. ASSUME NEW at \in At, Goes(c, at)
          PROVE  handler' = [handler EXCEPT ![c] = [handler[c] EXCEPT !.at = at]]
      BY <3>7 DEF Goes
    <3>8. CASE Select(c)
      <4>1. PICK at \in {"insert", "rename", "act"} :
               /\ handler' = [handler EXCEPT ![c].row = account[Who(c)], ![c].at = at]
               /\ at = "insert" \/ account[Who(c)] # NoAccount
        BY <3>8 DEF Select
      <4> DEFINE h == [handler[c] EXCEPT !.row = account[Who(c)], !.at = at]
      <4>2. h \in Handling /\ h.msg = handler[c].msg /\ h.at = at
        BY <3>2, <3>4 DEF Handling, At
      <4>3. handler' = [handler EXCEPT ![c] = h]
        BY <4>1
      <4> HIDE DEF h
      <4>4. QED
        BY <3>3, <3>4, <3>8, <4>1, <4>2, <4>3 DEF Select
    <3>9. CASE Insert(c)
      <4> DEFINE row == [name |-> handler[c].msg.name, zone |-> UTC]
                 h   == [handler[c] EXCEPT !.at = "act"]
      <4>1. row \in Account
        BY <3>2 DEF Account, Message
      <4>2. account' = [account EXCEPT ![Who(c)] = row] /\ handler' = [handler EXCEPT ![c] = h]
        BY <3>7, <3>9 DEF Insert, At, Goes
      <4>3. h \in Handling /\ h.msg = handler[c].msg
        BY <3>6 DEF At
      <4> HIDE DEF h, row
      <4>4. /\ account' \in [Person -> Account \cup {NoAccount}]
            /\ \A p \in Person : account[p] # NoAccount => account'[p] # NoAccount
            /\ account'[handler[c].msg.who] # NoAccount
        BY <3>4, <4>1, <4>2
      <4>5. UNCHANGED <<now, feedback, lost, load>>
        BY <3>9 DEF Insert
      <4>6. QED
        BY <3>3, <3>4, <4>2, <4>3, <4>4, <4>5
    <3>10. CASE InsertLoses(c)
      <4>1. lost' \in [Person -> Nat]
        BY <3>4, <3>10 DEF InsertLoses
      <4>2. handler' = [handler EXCEPT ![c] = Idle] /\ UNCHANGED <<now, account, feedback, load>>
        BY <3>10 DEF InsertLoses, Ends
      <4>3. QED
        BY <3>3, <3>4, <4>1, <4>2
    <3>11. CASE Rename(c)
      <4> DEFINE row == [account[Who(c)] EXCEPT !.name = handler[c].msg.name]
                 h   == [handler[c] EXCEPT !.at = "act"]
      <4>1. account[Who(c)] \in Account
        BY <3>2, <3>4, <3>11 DEF Rename
      <4>2. row \in Account
        BY <3>2, <4>1 DEF Account, Message
      <4>3. account' = [account EXCEPT ![Who(c)] = row] /\ handler' = [handler EXCEPT ![c] = h]
        BY <3>7, <3>11 DEF Rename, At, Goes
      <4>4. h \in Handling /\ h.msg = handler[c].msg
        BY <3>6 DEF At
      <4> HIDE DEF h, row
      <4>5. /\ account' \in [Person -> Account \cup {NoAccount}]
            /\ \A p \in Person : account[p] # NoAccount => account'[p] # NoAccount
            /\ account'[handler[c].msg.who] # NoAccount
        BY <3>4, <4>2, <4>3
      <4>6. UNCHANGED <<now, feedback, lost, load>>
        BY <3>11 DEF Rename
      <4>7. QED
        BY <3>3, <3>4, <4>3, <4>4, <4>5, <4>6
    <3>12. CASE SetTimezone(c)
      <4> DEFINE row == [account[Who(c)] EXCEPT !.zone = handler[c].msg.zone]
      <4>1. account[Who(c)] \in Account
        BY <3>2, <3>4, <3>12 DEF SetTimezone
      <4>2. row \in Account
        BY <3>2, <4>1 DEF Account, Message
      <4>3. account' = [account EXCEPT ![Who(c)] = row]
        BY <3>12 DEF SetTimezone
      <4> HIDE DEF row
      <4>4. /\ account' \in [Person -> Account \cup {NoAccount}]
            /\ \A p \in Person : account[p] # NoAccount => account'[p] # NoAccount
            /\ account'[handler[c].msg.who] # NoAccount
        BY <3>4, <4>2, <4>3
      <4>5. handler' = [handler EXCEPT ![c] = Idle] /\ UNCHANGED <<now, feedback, lost, load>>
        BY <3>12 DEF SetTimezone, Ends
      <4>6. QED
        BY <3>3, <3>4, <4>4, <4>5
    <3>13. CASE Answer(c) \/ HandlerFails(c)
      BY <3>13, <3>3, <3>4 DEF Answer, HandlerFails, Ends
    <3>14. CASE LastFeedback(c)
      <4>1. PICK last \in 0..MaxTime \cup {NoLast} :
               handler' = [handler EXCEPT ![c].at = "judge", ![c].last = last]
        <5>1. ASSUME NEW i \in 1..Len(feedback)
              PROVE  Created(i) \in 0..MaxTime
          <6>1. feedback[i].time \in 0..now /\ Second \in Nat \ {0}
            BY <3>5
          <6>2. PICK n : n = feedback[i].time
            OBVIOUS
          <6>3. MaxTime \in Nat /\ now \in 0..MaxTime /\ n \in 0..now /\ n \in Nat
            BY <6>1, <6>2, <3>4
          <6>4. Second \in Nat \ {0}
            OBVIOUS
          <6>5. n - (n % Second) \in 0..n
            BY <6>3, <6>4, CutWithin
          <6>6. Created(i) = n - (n % Second)
            BY <6>2 DEF Created
          <6>7. QED
            BY <6>3, <6>5, <6>6
        <5>2. QED
          BY <3>14, <5>1 DEF LastFeedback, OfPerson
      <4> DEFINE h == [handler[c] EXCEPT !.at = "judge", !.last = last]
      <4>2. h \in Handling /\ h.msg = handler[c].msg /\ h.at = "judge"
        BY <3>2 DEF Handling, At
      <4>3. handler' = [handler EXCEPT ![c] = h]
        BY <4>1
      <4> HIDE DEF h
      <4>4. account[handler[c].msg.who] # NoAccount
        BY <3>2, <3>14 DEF LastFeedback
      <4>5. QED
        BY <3>3, <3>4, <3>14, <4>2, <4>3, <4>4 DEF LastFeedback
    <3>15. CASE Judge(c)
      <4> DEFINE h == [handler[c] EXCEPT !.at = "write"]
      <4>1. h \in Handling /\ h.msg = handler[c].msg /\ h.at = "write"
        BY <3>6 DEF At
      <4>2. handler' = [handler EXCEPT ![c] = h] \/ handler' = [handler EXCEPT ![c] = Idle]
        BY <3>7, <3>15 DEF Judge, At, Ends, Goes
      <4> HIDE DEF h
      <4>3. account[handler[c].msg.who] # NoAccount
        BY <3>2, <3>15 DEF Judge
      <4>4. QED
        BY <3>3, <3>4, <3>15, <4>1, <4>2, <4>3 DEF Judge
    <3>16. CASE InsertFeedback(c)
      <4> DEFINE new == [who |-> Who(c), chat |-> c, time |-> now]
      <4>1. new \in [who : Person, chat : Chat, time : 0..now]
        BY <3>4
      <4>2. feedback' = Append(feedback, new)
        BY <3>16 DEF InsertFeedback
      <4> HIDE DEF new
      <4>3. feedback' \in Seq([who : Person, chat : Chat, time : 0..now])
        BY <3>4, <4>1, <4>2
      <4>4. QED
        BY <3>3, <3>4, <3>16, <4>3 DEF InsertFeedback, Ends
    <3>17. QED
      BY <2>4, <3>8, <3>9, <3>10, <3>11, <3>12, <3>13, <3>14, <3>15, <3>16 DEF Handle
  <2>5. CASE UNCHANGED vars
    BY <2>5 DEF vars, TypeOK, Handlers
  <2>6. QED
    BY <2>1, <2>2, <2>3, <2>4, <2>5 DEF Next
<1>3. QED
  BY <1>1, <1>2, PTL DEF Spec

-----------------------------------------------------------------------------
(***************************************************************************)
(* The race for an account.  Before there is one, nobody has lost; from    *)
(* then on every handler that will still lose is past its SELECT, and the  *)
(* one that won is not among them.                                         *)
(***************************************************************************)
LostBudget(p) == IF account[p] = NoAccount THEN lost[p] = 0
                 ELSE lost[p] + Cardinality(Inserting(p)) < Cardinality(ChatsOf[p])

Budget == \A p \in Person : LostBudget(p)

LEMMA ChatsFinite ==
    ASSUME NEW p \in Person
    PROVE  ChatsOf[p] \subseteq Chat /\ IsFiniteSet(ChatsOf[p])
<1>1. ChatsOf[p] \subseteq Chat
  BY AccountsAssumption
<1>2. QED
  BY <1>1, AccountsAssumption, FS_Subset

LEMMA InsertingFinite ==
    ASSUME TypeOK, NEW p \in Person
    PROVE  /\ Inserting(p) \subseteq ChatsOf[p] /\ IsFiniteSet(Inserting(p))
           /\ Cardinality(Inserting(p)) \in Nat /\ Cardinality(ChatsOf[p]) \in Nat
           /\ lost[p] \in Nat
<1>1. Inserting(p) \subseteq ChatsOf[p]
  BY DEF TypeOK, Inserting
<1>2. QED
  BY <1>1, ChatsFinite, FS_Subset, FS_CardinalityType DEF TypeOK

\* Fewer handlers about to insert, nothing lost: the budget keeps.
LEMMA FewerInserting ==
    ASSUME TypeOK, NEW p \in Person, LostBudget(p),
           Inserting(p)' \subseteq Inserting(p),
           account'[p] = NoAccount <=> account[p] = NoAccount,
           lost'[p] = lost[p]
    PROVE  LostBudget(p)'
<1>1. PICK S : S = Inserting(p)
  OBVIOUS
<1>2. PICK T : T = Inserting(p)'
  OBVIOUS
<1>3. IsFiniteSet(S) /\ T \subseteq S /\ Cardinality(S) \in Nat
  BY <1>1, <1>2, InsertingFinite
<1>4. Cardinality(T) <= Cardinality(S) /\ Cardinality(T) \in Nat
  BY <1>3, FS_Subset, FS_CardinalityType
<1>5. lost[p] \in Nat /\ Cardinality(ChatsOf[p]) \in Nat
  BY InsertingFinite
<1>6. lost[p] + Cardinality(S) < Cardinality(ChatsOf[p])
         => lost[p] + Cardinality(T) < Cardinality(ChatsOf[p])
  BY <1>3, <1>4, <1>5
<1>7. QED
  BY <1>1, <1>2, <1>6 DEF LostBudget

\* The race of a person's first messages costs at most one message per other
\* chat, once (get_or_create_user, UNIQUE(telegram_id, bot_id)).
THEOREM RaceCosts == Spec => []RaceBounded
<1>1. Init => Budget
  BY DEF Init, Budget, LostBudget
<1>2. TypeOK /\ Budget /\ [Next]_vars => Budget'
  <2> SUFFICES ASSUME TypeOK, Budget, [Next]_vars, NEW p \in Person
               PROVE  LostBudget(p)'
    BY DEF Budget
  <2>0. LostBudget(p)
    BY DEF Budget
  <2>1. CASE Tick
    <3>1. Inserting(p)' = Inserting(p)
      BY <2>1 DEF Tick, Inserting, Handlers
    <3>2. QED
      BY <2>0, <2>1, <3>1, FewerInserting DEF Tick
  <2>2. CASE Restart
    <3>1. Inserting(p)' = {}
      BY <2>2 DEF Restart, Inserting, Handlers
    <3>2. QED
      BY <2>0, <2>2, <3>1, FewerInserting DEF Restart
  <2>3. ASSUME NEW c \in Chat, NEW m \in load.messages, Receive(c, m)
        PROVE  LostBudget(p)'
    <3> DEFINE h == [msg |-> m, at |-> "select", row |-> NoAccount, last |-> NoLast]
    <3>1. handler' = [handler EXCEPT ![c] = h] /\ h.at # "insert"
      BY <2>3 DEF Receive
    <3> HIDE DEF h
    <3>2. Inserting(p)' \subseteq Inserting(p)
      BY <3>1 DEF Inserting, Handlers, TypeOK
    <3>3. QED
      BY <2>0, <2>3, <3>2, FewerInserting DEF Receive
  <2>4. ASSUME NEW c \in Chat, Handle(c) \/ HandlerFails(c)
        PROVE  LostBudget(p)'
    <3>1. c \in Handlers
      BY <2>4 DEF Handle, Select, Insert, InsertLoses, Rename, SetTimezone, Answer,
                  LastFeedback, Judge, InsertFeedback, HandlerFails, Handlers
    <3>2. /\ handler[c] \in Handling /\ Who(c) \in Person /\ c \in ChatsOf[Who(c)]
          /\ account \in [Person -> Account \cup {NoAccount}] /\ lost \in [Person -> Nat]
          /\ handler[c].at \notin {"select", "insert"} => account[Who(c)] # NoAccount
      BY <3>1, HandlerFields DEF TypeOK
    <3>3. NoAccount \notin Account
      BY LoadAssumption
    \* A handler that leaves, or goes on to something else.
    <3>4. ASSUME NEW h, handler' = [handler EXCEPT ![c] = h],
                 h = Idle \/ h.at # "insert" \/ h.msg.who # p
          PROVE  Inserting(p)' \subseteq Inserting(p) \ {c}
      BY <3>4 DEF Inserting, Handlers, TypeOK
    <3>5. CASE Select(c)
      <4>1. PICK at \in {"insert", "rename", "act"} :
               /\ handler' = [handler EXCEPT ![c].row = account[Who(c)], ![c].at = at]
               /\ at = "insert" <=> account[Who(c)] = NoAccount
        BY <3>5 DEF Select
      <4>2. UNCHANGED <<account, lost>>
        BY <3>5 DEF Select
      <4>3. CASE account[p] = NoAccount
        BY <2>0, <4>2, <4>3 DEF LostBudget
      <4>4. CASE account[p] # NoAccount
        <5> DEFINE h == [handler[c] EXCEPT !.row = account[Who(c)], !.at = at]
        <5>1. h.at = at /\ h.msg = handler[c].msg
          BY <3>2 DEF Handling
        <5>2. handler' = [handler EXCEPT ![c] = h]
          BY <4>1
        <5> HIDE DEF h
        <5>3. Inserting(p)' \subseteq Inserting(p)
          BY <3>4, <4>1, <4>4, <5>1, <5>2
        <5>4. QED
          BY <2>0, <4>2, <5>3, FewerInserting
      <4>5. QED
        BY <4>3, <4>4
    <3>6. CASE Insert(c)
      <4> DEFINE row == [name |-> handler[c].msg.name, zone |-> UTC]
                 h   == [handler[c] EXCEPT !.at = "act"]
      <4>1. row # NoAccount
        BY <3>1, <3>3, HandlerFields, AccountsAssumption DEF Account, Message
      <4>2. /\ account' = [account EXCEPT ![Who(c)] = row] /\ lost' = lost
            /\ handler' = [handler EXCEPT ![c] = h] /\ account[Who(c)] = NoAccount
        BY <3>6 DEF Insert, Goes
      <4>3. h.at # "insert"
        BY <3>2 DEF Handling
      <4> HIDE DEF h, row
      <4>4. Inserting(p)' \subseteq Inserting(p) \ {c}
        BY <3>4, <4>2, <4>3
      <4>5. CASE p # Who(c)
        BY <2>0, <3>2, <4>2, <4>4, <4>5, FewerInserting
      <4>6. CASE p = Who(c)
        <5>1. account'[p] # NoAccount /\ lost'[p] = 0
          BY <2>0, <3>2, <4>1, <4>2, <4>6 DEF LostBudget
        <5>2. PICK T : T = Inserting(p)'
          OBVIOUS
        <5>3. T \subseteq ChatsOf[p] \ {c} /\ c \in ChatsOf[p] /\ IsFiniteSet(ChatsOf[p])
          BY <3>2, <4>4, <4>6, <5>2, InsertingFinite, ChatsFinite
        <5>4. /\ IsFiniteSet(ChatsOf[p] \ {c})
              /\ Cardinality(ChatsOf[p] \ {c}) = Cardinality(ChatsOf[p]) - 1
              /\ Cardinality(ChatsOf[p]) \in Nat
          BY <5>3, FS_RemoveElement, FS_CardinalityType
        <5>5. Cardinality(T) <= Cardinality(ChatsOf[p] \ {c}) /\ Cardinality(T) \in Nat
          BY <5>3, <5>4, FS_Subset, FS_CardinalityType
        <5>6. 0 + Cardinality(T) < Cardinality(ChatsOf[p])
          BY <5>4, <5>5
        <5>7. QED
          BY <5>1, <5>2, <5>6 DEF LostBudget
      <4>7. QED
        BY <4>5, <4>6
    <3>7. CASE InsertLoses(c)
      <4>1. /\ handler' = [handler EXCEPT ![c] = Idle] /\ account' = account
            /\ lost' = [lost EXCEPT ![Who(c)] = @ + 1] /\ account[Who(c)] # NoAccount
        BY <3>7 DEF InsertLoses, Ends
      <4>2. Inserting(p)' \subseteq Inserting(p) \ {c}
        BY <3>4, <4>1
      <4>3. CASE p # Who(c)
        BY <2>0, <3>2, <4>1, <4>2, <4>3, FewerInserting
      <4>4. CASE p = Who(c)
        <5>1. PICK S : S = Inserting(p)
          OBVIOUS
        <5>2. PICK T : T = Inserting(p)'
          OBVIOUS
        <5>3. c \in S /\ T \subseteq S \ {c} /\ IsFiniteSet(S)
          BY <3>1, <3>7, <4>2, <4>4, <5>1, <5>2, InsertingFinite DEF InsertLoses, Inserting
        <5>4. /\ IsFiniteSet(S \ {c}) /\ Cardinality(S \ {c}) = Cardinality(S) - 1
              /\ Cardinality(S) \in Nat
          BY <5>3, FS_RemoveElement, FS_CardinalityType
        <5>5. Cardinality(T) <= Cardinality(S \ {c}) /\ Cardinality(T) \in Nat
          BY <5>3, <5>4, FS_Subset, FS_CardinalityType
        <5>6. lost[p] \in Nat /\ Cardinality(ChatsOf[p]) \in Nat /\ lost'[p] = lost[p] + 1
          BY <3>2, <4>1, <4>4, InsertingFinite
        <5>7. lost[p] + Cardinality(S) < Cardinality(ChatsOf[p])
          BY <2>0, <4>1, <4>4, <5>1 DEF LostBudget
        <5>8. lost'[p] + Cardinality(T) < Cardinality(ChatsOf[p])
          BY <5>4, <5>5, <5>6, <5>7
        <5>9. QED
          BY <4>1, <4>4, <5>2, <5>8 DEF LostBudget
      <4>5. QED
        BY <4>3, <4>4
    \* The rest moves a handler that has its account already, or ends it.
    <3>8. CASE \/ Rename(c) \/ SetTimezone(c) \/ Answer(c) \/ LastFeedback(c) \/ Judge(c)
               \/ InsertFeedback(c) \/ HandlerFails(c)
      <4>1. lost' = lost
        BY <3>8 DEF Rename, SetTimezone, Answer, LastFeedback, Judge, InsertFeedback,
                    HandlerFails
      <4>2. \A at \in At \ {"insert"} :
               /\ [handler[c] EXCEPT !.at = at].at # "insert"
               /\ \A last : [handler[c] EXCEPT !.at = at, !.last = last].at # "insert"
        BY <3>2 DEF Handling
      <4>3. PICK h : handler' = [handler EXCEPT ![c] = h] /\ (h = Idle \/ h.at # "insert")
        <5>1. CASE Rename(c)
          BY <4>2, <5>1 DEF Rename, Goes, At
        <5>2. CASE SetTimezone(c) \/ Answer(c) \/ InsertFeedback(c) \/ HandlerFails(c)
          BY <5>2 DEF SetTimezone, Answer, InsertFeedback, HandlerFails, Ends
        <5>3. CASE LastFeedback(c)
          <6>1. PICK last : handler' = [handler EXCEPT ![c].at = "judge", ![c].last = last]
            BY <5>3 DEF LastFeedback
          <6>2. QED
            BY <4>2, <6>1 DEF At
        <5>4. CASE Judge(c)
          <6>1. Goes(c, "write") \/ Ends(c)
            BY <5>4 DEF Judge
          <6>2. QED
            BY <4>2, <6>1 DEF Goes, Ends, At
        <5>5. QED
          BY <3>8, <5>1, <5>2, <5>3, <5>4
      <4>4. account'[p] = NoAccount <=> account[p] = NoAccount
        <5>1. CASE Rename(c)
          <6>1. account[Who(c)] \in Account /\ handler[c].msg.name \in Name \cup {NoName}
            BY <3>1, <3>2, <5>1, HandlerFields DEF Rename, Message
          <6>2. [account[Who(c)] EXCEPT !.name = handler[c].msg.name] # NoAccount
            BY <3>3, <6>1 DEF Account
          <6>3. QED
            BY <3>2, <3>3, <5>1, <6>1, <6>2 DEF Rename
        <5>2. CASE SetTimezone(c)
          <6>1. account[Who(c)] \in Account /\ handler[c].msg.zone \in Zone
            BY <3>1, <3>2, <5>2, HandlerFields DEF SetTimezone, Message
          <6>2. [account[Who(c)] EXCEPT !.zone = handler[c].msg.zone] # NoAccount
            BY <3>3, <6>1 DEF Account
          <6>3. QED
            BY <3>2, <3>3, <5>2, <6>1, <6>2 DEF SetTimezone
        <5>3. CASE account' = account
          BY <5>3
        <5>4. QED
          BY <3>8, <5>1, <5>2, <5>3 DEF Answer, LastFeedback, Judge, InsertFeedback,
                                        HandlerFails
      <4>5. Inserting(p)' \subseteq Inserting(p)
        BY <3>4, <4>3
      <4>6. QED
        BY <2>0, <4>1, <4>4, <4>5, FewerInserting
    <3>9. QED
      BY <2>4, <3>5, <3>6, <3>7, <3>8 DEF Handle
  <2>5. CASE UNCHANGED vars
    <3>1. Inserting(p)' = Inserting(p)
      BY <2>5 DEF vars, Inserting, Handlers
    <3>2. QED
      BY <2>0, <2>5, <3>1, FewerInserting DEF vars
  <2>6. QED
    BY <2>1, <2>2, <2>3, <2>4, <2>5 DEF Next
<1>3. TypeOK /\ Budget => RaceBounded
  <2> SUFFICES ASSUME TypeOK, Budget, NEW p \in Person, lost[p] # 0
               PROVE  account[p] # NoAccount /\ lost[p] < Cardinality(ChatsOf[p])
    BY DEF RaceBounded
  <2>1. account[p] # NoAccount /\ lost[p] + Cardinality(Inserting(p)) < Cardinality(ChatsOf[p])
    BY DEF Budget, LostBudget
  <2>2. QED
    BY <2>1, InsertingFinite
<1>4. QED
  BY <1>1, <1>2, <1>3, TypeCorrect, PTL DEF Spec

\* Columns are written one by one, so none is written over (get_or_create_user,
\* timezone).
THEOREM NothingOverwritten == Spec => []NoLostUpdate
<1>1. Init => NoLostUpdate
  BY DEF Init, NoLostUpdate
<1>2. NoLostUpdate /\ [Next]_vars => NoLostUpdate'
  <2> SUFFICES ASSUME NoLostUpdate, [Next]_vars
               PROVE  NoLostUpdate'
    OBVIOUS
  <2>1. CASE \E c \in Chat : Insert(c) \/ Rename(c) \/ SetTimezone(c)
    BY <2>1 DEF Insert, Rename, SetTimezone, NoLostUpdate
  <2>2. CASE UNCHANGED <<told, account>>
    BY <2>2 DEF NoLostUpdate
  <2>3. QED
    BY <2>1, <2>2 DEF Next, vars, Tick, Restart, Receive, Handle, Select, InsertLoses, Answer,
                      LastFeedback, Judge, InsertFeedback, HandlerFails
<1>3. QED
  BY <1>1, <1>2, PTL DEF Spec

-----------------------------------------------------------------------------
(***************************************************************************)
(* The hour between two feedbacks.  What a handler has read or passed      *)
(* stays true of its chat until it is done, since the chat has no other    *)
(* handler.                                                                *)
(***************************************************************************)
FromChat(c, i) == feedback[i].who = handler[c].msg.who /\ feedback[i].chat = c

KnowsLast == \A c \in Handlers : handler[c].at = "judge" =>
    \A i \in 1..Len(feedback) : FromChat(c, i) => Created(i) <= handler[c].last

HourGone == \A c \in Handlers : handler[c].at = "write" =>
    \A i \in 1..Len(feedback) : FromChat(c, i) => now - Created(i) >= Hour

Spaced == KnowsLast /\ HourGone /\ FeedbackSpaced

\* What the table holds, as numbers.
LEMMA RowsOfFeedback ==
    ASSUME TypeOK, NEW i \in 1..Len(feedback)
    PROVE  /\ feedback[i].time \in 0..now /\ now \in Nat
           /\ Created(i) \in 0..feedback[i].time /\ Created(i) > feedback[i].time - Second
<1>1. feedback \in Seq([who : Person, chat : Chat, time : 0..now]) /\ now \in 0..MaxTime
      /\ MaxTime \in Nat /\ Second \in Nat \ {0}
  BY AccountsAssumption DEF TypeOK
<1>2. feedback[i] \in [who : Person, chat : Chat, time : 0..now]
  BY <1>1, SeqElement
<1>3. PICK n : n = feedback[i].time
  OBVIOUS
<1>4. n \in 0..now /\ now \in Nat /\ n \in Nat
  BY <1>1, <1>2, <1>3
<1>5. n - (n % Second) \in 0..n /\ n - (n % Second) > n - Second
  BY <1>1, <1>4, CutWithin
<1>6. Created(i) = n - (n % Second)
  BY <1>3 DEF Created
<1>7. QED
  BY <1>3, <1>4, <1>5, <1>6

\* A step that leaves the table and the handlers at "judge" and "write" alone.
LEMMA SpacedKeeps ==
    ASSUME TypeOK, Spaced, feedback' = feedback, now' = now,
           \A c \in Handlers' : handler'[c].at \in {"judge", "write"} =>
                                   c \in Handlers /\ handler'[c] = handler[c]
    PROVE  Spaced'
BY DEF Spaced, KnowsLast, HourGone, FeedbackSpaced, FromChat, Created

\* The hour between two feedbacks holds within a chat, less the second that
\* datetime('now') drops (feedback).
THEOREM FeedbackRate == Spec => []FeedbackSpaced
<1>1. Init => Spaced
  BY DEF Init, Spaced, KnowsLast, HourGone, FeedbackSpaced, Handlers
<1>2. TypeOK /\ Spaced /\ [Next]_vars => Spaced'
  <2> SUFFICES ASSUME TypeOK, Spaced, [Next]_vars
               PROVE  Spaced'
    OBVIOUS
  <2>0. Hour \in Nat /\ Second \in Nat \ {0} /\ now \in Nat /\ MaxTime \in Nat
    BY AccountsAssumption DEF TypeOK
  <2>1. CASE Tick
    <3>1. now' = now + 1 /\ UNCHANGED <<handler, feedback>>
      BY <2>1 DEF Tick
    <3>2. ASSUME NEW i \in 1..Len(feedback), now - Created(i) >= Hour
          PROVE  now' - Created(i) >= Hour
      <4>1. Created(i) \in Int
        BY RowsOfFeedback
      <4>2. QED
        BY <2>0, <3>1, <3>2, <4>1
    <3>3. QED
      BY <3>1, <3>2 DEF Spaced, KnowsLast, HourGone, FeedbackSpaced, FromChat, Created, Handlers
  <2>2. CASE Restart
    BY <2>2, SpacedKeeps DEF Restart, Handlers
  <2>3. ASSUME NEW c \in Chat, NEW m \in load.messages, Receive(c, m)
        PROVE  Spaced'
    <3> DEFINE h == [msg |-> m, at |-> "select", row |-> NoAccount, last |-> NoLast]
    <3>1. handler' = [handler EXCEPT ![c] = h] /\ h.at = "select"
          /\ UNCHANGED <<feedback, now>>
      BY <2>3 DEF Receive
    <3> HIDE DEF h
    <3>2. QED
      BY <3>1, SpacedKeeps DEF Handlers, TypeOK
  <2>4. ASSUME NEW c \in Chat, Handle(c) \/ HandlerFails(c)
        PROVE  Spaced'
    <3>1. c \in Handlers
      BY <2>4 DEF Handle, Select, Insert, InsertLoses, Rename, SetTimezone, Answer,
                  LastFeedback, Judge, InsertFeedback, HandlerFails, Handlers
    <3>2. handler[c] \in Handling /\ handler[c].last \in 0..MaxTime \cup {NoLast}
      BY <3>1, HandlerFields
    <3>3. ASSUME NEW h, handler' = [handler EXCEPT ![c] = h], feedback' = feedback, now' = now,
                 h = Idle \/ h.at \notin {"judge", "write"}
          PROVE  Spaced'
      BY <3>3, SpacedKeeps DEF Handlers, TypeOK
    <3>4. \A at \in At : [handler[c] EXCEPT !.at = at].at = at
      BY <3>2 DEF Handling
    <3>5. CASE Select(c)
      <4>1. PICK at \in {"insert", "rename", "act"} :
               handler' = [handler EXCEPT ![c].row = account[Who(c)], ![c].at = at]
        BY <3>5 DEF Select
      <4> DEFINE h == [handler[c] EXCEPT !.row = account[Who(c)], !.at = at]
      <4>2. h.at = at
        BY <3>2 DEF Handling
      <4>3. handler' = [handler EXCEPT ![c] = h] /\ UNCHANGED <<feedback, now>>
        BY <4>1, <3>5 DEF Select
      <4> HIDE DEF h
      <4>4. QED
        BY <3>3, <4>2, <4>3
    <3>6. CASE Insert(c) \/ Rename(c)
      BY <3>3, <3>4, <3>6 DEF Insert, Rename, Goes, At
    <3>7. CASE InsertLoses(c) \/ SetTimezone(c) \/ Answer(c) \/ HandlerFails(c)
      BY <3>3, <3>7 DEF InsertLoses, SetTimezone, Answer, HandlerFails, Ends
    <3>8. CASE LastFeedback(c)
      <4>1. PICK last : /\ handler' = [handler EXCEPT ![c].at = "judge", ![c].last = last]
                        /\ \A i \in OfPerson(Who(c)) : Created(i) <= last
        BY <3>8 DEF LastFeedback
      <4> DEFINE h == [handler[c] EXCEPT !.at = "judge", !.last = last]
      <4>2. h.at = "judge" /\ h.last = last /\ h.msg = handler[c].msg
        BY <3>2 DEF Handling
      <4>3. handler' = [handler EXCEPT ![c] = h] /\ UNCHANGED <<feedback, now>>
        BY <4>1, <3>8 DEF LastFeedback
      <4> HIDE DEF h
      <4>4. /\ \A d \in Handlers' : d # c => d \in Handlers /\ handler'[d] = handler[d]
            /\ handler'[c] = h
        BY <4>3 DEF Handlers, TypeOK
      <4>5. KnowsLast'
        <5> SUFFICES ASSUME NEW d \in Handlers', handler'[d].at = "judge",
                            NEW i \in 1..Len(feedback), FromChat(d, i)'
                     PROVE  Created(i) <= handler'[d].last
          BY <4>3 DEF KnowsLast, Created
        <5>1. CASE d # c
          <6>1. d \in Handlers /\ handler'[d] = handler[d] /\ FromChat(d, i)
            BY <4>3, <4>4, <5>1 DEF FromChat
          <6>2. QED
            BY <6>1 DEF Spaced, KnowsLast
        <5>2. CASE d = c
          <6>1. i \in OfPerson(Who(c))
            BY <4>2, <4>3, <4>4, <5>2 DEF FromChat, OfPerson, Who
          <6>2. QED
            BY <4>1, <4>2, <4>4, <5>2, <6>1
        <5>3. QED
          BY <5>1, <5>2
      <4>6. HourGone'
        BY <4>2, <4>3, <4>4 DEF HourGone, FromChat, Created, Spaced
      <4>7. QED
        BY <4>3, <4>5, <4>6 DEF Spaced, FeedbackSpaced
    <3>9. CASE Judge(c)
      <4>1. CASE TooEarly(c)
        BY <3>3, <3>9, <4>1 DEF Judge, Ends
      <4>2. CASE ~TooEarly(c)
        <5> DEFINE h == [handler[c] EXCEPT !.at = "write"]
        <5>1. h.at = "write" /\ h.msg = handler[c].msg
          BY <3>2 DEF Handling
        <5>2. handler' = [handler EXCEPT ![c] = h] /\ UNCHANGED <<feedback, now>>
          BY <3>9, <4>2 DEF Judge, Goes
        <5> HIDE DEF h
        <5>3. /\ \A d \in Handlers' : d # c => d \in Handlers /\ handler'[d] = handler[d]
              /\ handler'[c] = h
          BY <5>2 DEF Handlers, TypeOK
        <5>4. ASSUME NEW i \in 1..Len(feedback), FromChat(c, i)
              PROVE  now - Created(i) >= Hour
          <6>1. Created(i) <= handler[c].last
            BY <3>1, <3>9, <5>4 DEF Spaced, KnowsLast, Judge
          <6>2. Created(i) \in Nat
            BY RowsOfFeedback
          <6>3. handler[c].last # NoLast
            BY <6>1, <6>2 DEF NoLast
          <6>4. handler[c].last \in Nat /\ ~(now - handler[c].last < Hour)
            BY <3>2, <4>2, <6>3 DEF TooEarly
          <6>5. QED
            BY <2>0, <6>1, <6>2, <6>4
        <5>5. KnowsLast'
          BY <5>1, <5>2, <5>3 DEF KnowsLast, FromChat, Created, Spaced
        <5>6. HourGone'
          BY <5>1, <5>2, <5>3, <5>4 DEF HourGone, FromChat, Created, Spaced
        <5>7. QED
          BY <5>2, <5>5, <5>6 DEF Spaced, FeedbackSpaced
      <4>3. QED
        BY <4>1, <4>2
    <3>10. CASE InsertFeedback(c)
      <4> DEFINE new == [who |-> Who(c), chat |-> c, time |-> now]
      <4>1. /\ feedback' = Append(feedback, new) /\ now' = now
            /\ handler' = [handler EXCEPT ![c] = Idle]
        BY <3>10 DEF InsertFeedback, Ends
      <4>2. /\ feedback \in Seq([who : Person, chat : Chat, time : 0..now])
            /\ Len(feedback) \in Nat
        BY DEF TypeOK
      <4>3. /\ Len(feedback') = Len(feedback) + 1
            /\ \A i \in 1..Len(feedback) : feedback'[i] = feedback[i]
            /\ feedback'[Len(feedback) + 1] = new
        BY <4>1, <4>2
      <4>4. \A i \in 1..Len(feedback') : i \in 1..Len(feedback) \/ i = Len(feedback) + 1
        BY <4>2, <4>3
      <4>5. \A d \in Handlers' : d # c /\ d \in Handlers /\ handler'[d] = handler[d]
        BY <4>1 DEF Handlers, TypeOK
      <4>6. \A d \in Handlers', i \in 1..Len(feedback') :
               FromChat(d, i)' => i \in 1..Len(feedback) /\ FromChat(d, i)
        BY <4>3, <4>4, <4>5 DEF FromChat
      <4>7. \A i \in 1..Len(feedback) : Created(i)' = Created(i)
        BY <4>3 DEF Created
      <4>8. KnowsLast' /\ HourGone'
        BY <4>1, <4>5, <4>6, <4>7 DEF Spaced, KnowsLast, HourGone
      <4>9. ASSUME NEW i \in 1..Len(feedback), feedback[i].who = Who(c), feedback[i].chat = c
            PROVE  now - feedback[i].time > Hour - Second
        <5>1. now - Created(i) >= Hour
          BY <3>1, <3>10, <4>9 DEF Spaced, HourGone, FromChat, InsertFeedback
        <5>2. /\ Created(i) \in Int /\ feedback[i].time \in Int
              /\ Created(i) > feedback[i].time - Second
          BY RowsOfFeedback
        <5>3. QED
          BY <2>0, <5>1, <5>2
      <4>10. FeedbackSpaced'
        <5> SUFFICES ASSUME NEW i \in 1..Len(feedback'), NEW j \in 1..Len(feedback'), i < j,
                            feedback'[i].who = feedback'[j].who,
                            feedback'[i].chat = feedback'[j].chat
                     PROVE  feedback'[j].time - feedback'[i].time > Hour - Second
          BY DEF FeedbackSpaced
        <5>1. i \in 1..Len(feedback)
          BY <4>2, <4>3
        <5>2. CASE j \in 1..Len(feedback)
          BY <4>3, <5>1, <5>2 DEF Spaced, FeedbackSpaced
        <5>3. CASE j = Len(feedback) + 1
          BY <4>3, <4>9, <5>1, <5>3
        <5>4. QED
          BY <4>4, <5>2, <5>3
      <4>11. QED
        BY <4>8, <4>10 DEF Spaced
    <3>11. QED
      BY <2>4, <3>5, <3>6, <3>7, <3>8, <3>9, <3>10 DEF Handle
  <2>5. CASE UNCHANGED vars
    BY <2>5, SpacedKeeps DEF vars, Handlers
  <2>6. QED
    BY <2>1, <2>2, <2>3, <2>4, <2>5 DEF Next
<1>3. QED
  BY <1>1, <1>2, TypeCorrect, PTL DEF Spec, Spaced

-----------------------------------------------------------------------------
(***************************************************************************)
(* A person of one chat: his messages are handled in turn.                 *)
(***************************************************************************)
\* Who writes from one chat only loses no message, and leaves an hour, less a
\* second, between any two of his feedbacks.
TakenInTurn ==
    \A p \in Person : Cardinality(ChatsOf[p]) = 1 =>
        /\ lost[p] = 0
        /\ \A i, j \in OfPerson(p) : i < j => feedback[j].time - feedback[i].time > Hour - Second

OwnFeedback == \A i \in 1..Len(feedback) : feedback[i].chat \in ChatsOf[feedback[i].who]

LEMMA StepKeepsOwnFeedback == TypeOK /\ OwnFeedback /\ [Next]_vars => OwnFeedback'
<1> SUFFICES ASSUME TypeOK, OwnFeedback, [Next]_vars PROVE OwnFeedback'
  OBVIOUS
<1>1. ASSUME NEW c \in Chat, InsertFeedback(c) PROVE OwnFeedback'
  <2> DEFINE f == [who |-> Who(c), chat |-> c, time |-> now]
  <2>1. feedback' = Append(feedback, f) /\ c \in Handlers
    BY <1>1 DEF InsertFeedback, Is, Handlers
  <2>2. f.chat \in ChatsOf[f.who]
    BY <2>1 DEF TypeOK
  <2>3. f \in [who : Person, chat : Chat, time : 0..now]
    BY <2>1, HandlerFields, AccountsAssumption DEF TypeOK
  <2> HIDE DEF f
  <2>4. QED
    BY <2>1, <2>2, <2>3 DEF OwnFeedback, TypeOK
<1>2. CASE feedback' = feedback
  BY <1>2 DEF OwnFeedback
<1>3. QED
  BY <1>1, <1>2
     DEF Next, vars, Tick, Restart, Receive, Handle, HandlerFails, Select, Insert, InsertLoses,
         Rename, SetTimezone, Answer, LastFeedback, Judge

\* The race of get_or_create_user and the hour between feedbacks that another chat
\* cuts short both need a second chat.
THEOREM OneChatInTurn == Spec => []TakenInTurn
<1>1. TypeOK /\ RaceBounded /\ FeedbackSpaced /\ OwnFeedback => TakenInTurn
  <2> SUFFICES ASSUME TypeOK, RaceBounded, FeedbackSpaced, OwnFeedback,
                      NEW p \in Person, Cardinality(ChatsOf[p]) = 1
               PROVE  /\ lost[p] = 0
                      /\ \A i, j \in OfPerson(p) :
                            i < j => feedback[j].time - feedback[i].time > Hour - Second
    BY DEF TakenInTurn
  <2>1. lost[p] = 0
    <3>1. lost[p] \in Nat
      BY DEF TypeOK
    <3>2. QED
      BY <3>1 DEF RaceBounded
  <2>2. PICK c : ChatsOf[p] = {c}
    BY ChatsFinite, FS_Singleton
  <2>3. ASSUME NEW i \in OfPerson(p), NEW j \in OfPerson(p), i < j
        PROVE  feedback[j].time - feedback[i].time > Hour - Second
    <3>1. /\ i \in 1..Len(feedback) /\ j \in 1..Len(feedback)
          /\ feedback[i].who = p /\ feedback[j].who = p
      BY DEF OfPerson
    <3>2. feedback[i].chat = c /\ feedback[j].chat = c
      BY <2>2, <3>1 DEF OwnFeedback
    <3>3. QED
      BY <2>3, <3>1, <3>2 DEF FeedbackSpaced
  <2>4. QED
    BY <2>1, <2>3
<1>2. Init => OwnFeedback
  BY DEF Init, OwnFeedback
<1>3. QED
  BY <1>1, <1>2, StepKeepsOwnFeedback, TypeCorrect, RaceCosts, FeedbackRate, PTL DEF Spec
=============================================================================
