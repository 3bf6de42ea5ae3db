------------------------- MODULE BotDialogue_proofs -------------------------
(***************************************************************************)
(* BotDialogue for every set of users, chats and markets, every limit.     *)
(***************************************************************************)
EXTENDS BotDialogue, FiniteSetTheorems, TLAPS

\* What TalksOK says of one chat.
LEMMA TalkOf ==
    ASSUME TypeOK, NEW c \in Chat
    PROVE  /\ dialogue[c] \in DialogueState /\ DialogueHolds(dialogue[c])
           /\ job[c] # NoJob => job[c] \in Job /\ HandlerHolds(c, job[c])
<1>1. TalksOK
  BY DEF TypeOK
<1>2. dialogue[c] \in DialogueState /\ job[c] \in Job \cup {NoJob}
  BY <1>1 DEF TalksOK
<1>3. \A e \in Chat : DialogueHolds(dialogue[e]) /\ (job[e] # NoJob => HandlerHolds(e, job[e]))
  BY <1>1 DEF TalksOK
<1>4. QED
  BY <1>2, <1>3

\* One chat moves: its dialogue to d, its handler to j; ids and highest limits
\* only grow.  Then every chat's dialogue and handler rest on what is there.
LEMMA OneChatMoves ==
    ASSUME TypeOK, NEW c \in Chat, NEW d \in DialogueState, NEW j \in Job \cup {NoJob},
           dialogue' = [dialogue EXCEPT ![c] = d], job' = [job EXCEPT ![c] = j],
           born' \in Nat, born <= born',
           UsersOK', \A u \in User : top[u] <= top'[u],
           DialogueHolds(d)', j # NoJob => HandlerHolds(c, j)'
    PROVE  TalksOK'
<1> USE DEF TypeOK
<1>1. dialogue' \in [Chat -> DialogueState] /\ job' \in [Chat -> Job \cup {NoJob}]
  BY DEF TalksOK
<1>2. /\ \A e \in Chat \ {c} : dialogue'[e] = dialogue[e] /\ job'[e] = job[e]
      /\ dialogue'[c] = d /\ job'[c] = j
  BY DEF TalksOK
<1>3. ASSUME NEW e \in Chat PROVE DialogueHolds(dialogue[e])'
  <2>1. CASE e = c
    BY <2>1, <1>2 DEF DialogueHolds
  <2>2. CASE e # c
    <3>1. DialogueHolds(dialogue[e]) /\ dialogue'[e] = dialogue[e] /\ born \in Nat
      BY <2>2, <1>2, TalkOf DEF TablesOK
    <3>2. dialogue[e].sub \in Int
      BY DEF TalksOK, DialogueState
    <3>3. QED
      BY <3>1, <3>2 DEF DialogueHolds
  <2>3. QED
    BY <2>1, <2>2
<1>4. ASSUME NEW e \in Chat, job'[e] # NoJob PROVE HandlerHolds(e, job[e])'
  <2>1. CASE e = c
    BY <2>1, <1>2, <1>4 DEF HandlerHolds
  <2>2. CASE e # c
    <3>1. /\ HandlerHolds(e, job[e]) /\ job'[e] = job[e] /\ dialogue'[e] = dialogue[e]
          /\ born \in Nat
      BY <2>2, <1>2, <1>4, TalkOf DEF TablesOK
    <3>2. job[e].sub \in Int /\ job[e].user \in User /\ job[e].limit \in Nat
      BY <1>4, <3>1 DEF TalksOK, Job
    <3>3. top[job[e].user] \in Nat /\ top'[job[e].user] \in Nat
      BY <3>2, DialogueAssumption DEF UsersOK
    <3>4. job[e].limit <= top'[job[e].user]
      BY <3>1, <3>2, <3>3 DEF HandlerHolds
    <3>5. QED
      BY <3>1, <3>2, <3>4 DEF HandlerHolds
  <2>3. QED
    BY <2>1, <2>2
<1>5. QED
  BY <1>1, <1>3, <1>4 DEF TalksOK

\* A handler that only moves the dialogue of its chat.
LEMMA MoveKeepsTypes ==
    ASSUME TypeOK, NEW c \in Chat, NEW from, NEW d \in DialogueState,
           DialogueHolds(d), Move(c, from, d)
    PROVE  TypeOK'
<1>1. /\ dialogue' = [dialogue EXCEPT ![c] = d] /\ job[c] = NoJob
      /\ UNCHANGED <<userVars, tableVars, job, historyVars>>
  BY DEF Move
<1>2. UsersOK' /\ TablesOK'
  <2>1. UsersOK'
    BY <1>1 DEF TypeOK, UsersOK, userVars
  <2>2. TablesOK'
    BY <1>1 DEF TypeOK, TablesOK, tableVars, historyVars
  <2>3. QED
    BY <2>1, <2>2
<1>3. job' = [job EXCEPT ![c] = NoJob]
  BY <1>1 DEF TypeOK, TalksOK
<1>4. born' \in Nat /\ born <= born' /\ \A u \in User : top[u] <= top'[u]
  <2>1. born' = born /\ top' = top
    BY <1>1 DEF userVars, tableVars
  <2>2. \A u \in User : top[u] \in Nat
    BY DialogueAssumption DEF TypeOK, UsersOK
  <2>3. QED
    BY <2>1, <2>2 DEF TypeOK, TablesOK
<1>5. DialogueHolds(d)'
  BY <1>1 DEF DialogueHolds, tableVars
<1>6. TalksOK'
  BY <1>1, <1>3, <1>4, <1>2, <1>5, OneChatMoves
<1>7. QED
  BY <1>2, <1>6 DEF TypeOK

\* A handler that goes on, with j to show for it.
LEMMA GoOnKeepsTypes ==
    ASSUME TypeOK, NEW c \in Chat, NEW j \in Job,
           job' = [job EXCEPT ![c] = j], HandlerHolds(c, j),
           UNCHANGED <<userVars, tableVars, dialogue, historyVars>>
    PROVE  TypeOK'
<1>1. UsersOK'
  BY DEF TypeOK, UsersOK, userVars
<1>2. TablesOK'
  BY DEF TypeOK, TablesOK, tableVars, historyVars
<1>3. born' = born /\ top' = top /\ dialogue' = dialogue
  BY DEF tableVars, userVars
<1>4. /\ dialogue' = [dialogue EXCEPT ![c] = dialogue[c]]
      /\ dialogue[c] \in DialogueState /\ DialogueHolds(dialogue[c])
  <2>1. dialogue = [dialogue EXCEPT ![c] = dialogue[c]]
    BY DEF TypeOK, TalksOK
  <2>2. QED
    BY <1>3, <2>1, TalkOf
<1>5. born' \in Nat /\ born <= born' /\ \A u \in User : top[u] <= top'[u]
  <2>1. \A u \in User : top[u] \in Nat
    BY DialogueAssumption DEF TypeOK, UsersOK
  <2>2. QED
    BY <1>3, <2>1 DEF TypeOK, TablesOK
<1>6. DialogueHolds(dialogue[c])'
  BY <1>3, <1>4 DEF DialogueHolds
<1>7. HandlerHolds(c, j)'
  BY <1>3 DEF HandlerHolds
<1>8. TalksOK'
  <2> DEFINE d == dialogue[c]
  <2>1. d \in DialogueState /\ dialogue' = [dialogue EXCEPT ![c] = d]
    BY <1>4
  <2>2. DialogueHolds(d)'
    BY <1>3, <1>4 DEF DialogueHolds
  <2>3. QED
    BY <1>1, <1>5, <1>7, <1>3, <1>4, OneChatMoves DEF DialogueHolds
<1>9. QED
  BY <1>1, <1>2, <1>8 DEF TypeOK

LEMMA IdleIsState == Idle \in DialogueState /\ DialogueHolds(Idle)
<1>1. << >> \in Seq(Market)
  OBVIOUS
<1>2. QED
  BY <1>1, DialogueAssumption DEF Idle, Talk, DialogueState, DialogueHolds, AnyState, ByButton, ByText

\* A handler that returns leaves its dialogue idle or where it was.
LEMMA ReturnKeepsTalks ==
    ASSUME TypeOK, NEW c \in Chat, Return(c), UsersOK',
           UNCHANGED <<born, top>>
    PROVE  TalksOK'
<1>1. born' \in Nat /\ born <= born' /\ \A u \in User : top[u] <= top'[u]
  <2>1. \A u \in User : top[u] \in Nat
    BY DialogueAssumption DEF TypeOK, UsersOK
  <2>2. QED
    BY <2>1 DEF TypeOK, TablesOK
<1>2. PICK d \in {Idle, dialogue[c]} : dialogue' = [dialogue EXCEPT ![c] = d]
  <2>1. dialogue' = [dialogue EXCEPT ![c] = Idle] \/ dialogue' = dialogue
    BY DEF Return
  <2>2. dialogue = [dialogue EXCEPT ![c] = dialogue[c]]
    BY DEF TypeOK, TalksOK
  <2>3. QED
    BY <2>1, <2>2
<1>3. d \in DialogueState /\ DialogueHolds(d)
  BY IdleIsState, TalkOf
<1>4. DialogueHolds(d)'
  BY <1>3 DEF DialogueHolds
<1>5. job' = [job EXCEPT ![c] = NoJob]
  BY DEF Return
<1>6. QED
  BY <1>1, <1>2, <1>3, <1>4, <1>5, OneChatMoves

\* The handlers of one chat that move its dialogue, and the unsubscribe button.
LEMMA DialogueKeepsTypes ==
    ASSUME TypeOK, NEW c \in Chat, Dialogue(c)
    PROVE  TypeOK'
<1> DEFINE d == dialogue[c]
<1>1. /\ d \in DialogueState /\ DialogueHolds(d)
      /\ << >> \in Seq(Market) /\ 0 \in 0..MaxId /\ 0 \in Nat
      /\ Offer \subseteq Seq(Market) /\ \A offer \in Offer : offer # << >>
      /\ Index \subseteq Nat
  BY TalkOf, DialogueAssumption
<1>2. CASE SubscribeStart(c)
  <2> DEFINE t == Talk("url", << >>, NoMarket, 0, 0)
  <2>1. t \in DialogueState /\ DialogueHolds(t)
    BY <1>1 DEF Talk, DialogueState, DialogueHolds, AnyState, ByText
  <2>2. QED
    BY <1>2, <2>1, MoveKeepsTypes DEF SubscribeStart
<1>3. CASE SubscribeAlertType(c)
  <2> DEFINE t == [d EXCEPT !.state = "subThreshold"]
  <2>1. d.state = "subType"
    BY <1>3 DEF SubscribeAlertType, Move
  <2>2. t \in DialogueState /\ DialogueHolds(t)
    BY <1>1, <2>1 DEF DialogueState, DialogueHolds, AnyState, ByText
  <2>3. QED
    BY <1>3, <2>2, MoveKeepsTypes DEF SubscribeAlertType
<1>4. CASE AlertType(c)
  <2> DEFINE t == [d EXCEPT !.state = "alertThreshold"]
  <2>1. d.state = "alertType"
    BY <1>4 DEF AlertType, Move
  <2>2. t \in DialogueState /\ DialogueHolds(t)
    BY <1>1, <2>1 DEF DialogueState, DialogueHolds, AnyState, ByText
  <2>3. QED
    BY <1>4, <2>2, MoveKeepsTypes DEF AlertType
<1>5. ASSUME NEW offer \in Offer, UrlInput(c, offer)
      PROVE  TypeOK'
  <2>1. offer \in Seq(Market) /\ (Len(offer) = 1 => offer[1] \in Market)
    BY <1>1
  <2> DEFINE t == IF Len(offer) = 1 THEN Talk("outcome", << >>, offer[1], 0, 0)
                  ELSE Talk("market", offer, NoMarket, 0, 0)
  <2>2. t \in DialogueState /\ DialogueHolds(t)
    BY <1>1, <2>1 DEF Talk, DialogueState, DialogueHolds, AnyState, ByButton
  <2>3. QED
    BY <1>5, <2>2, MoveKeepsTypes DEF UrlInput
<1>6. ASSUME NEW i \in 1..(Len(d.offer) + 1), MarketSelection(c, i)
      PROVE  TypeOK'
  <2>1. d.offer \in Seq(Market) /\ (i \in DOMAIN d.offer => d.offer[i] \in Market)
    BY <1>1 DEF DialogueState
  <2> DEFINE t == IF i \in DOMAIN d.offer THEN Talk("outcome", << >>, d.offer[i], 0, 0)
                  ELSE Idle
  <2>2. CASE i \in DOMAIN d.offer
    <3>1. t = Talk("outcome", << >>, d.offer[i], 0, 0)
      BY <2>2
    <3>2. t \in DialogueState /\ DialogueHolds(t)
      BY <1>1, <2>1, <2>2, <3>1 DEF Talk, DialogueState, DialogueHolds, AnyState, ByButton
    <3>3. QED
      BY <1>6, <3>2, MoveKeepsTypes DEF MarketSelection
  <2>3. CASE i \notin DOMAIN d.offer
    BY <1>6, <2>3, IdleIsState, MoveKeepsTypes DEF MarketSelection
  <2>4. QED
    BY <2>2, <2>3
<1>7. ASSUME NEW i \in Index, OutcomeSelection(c, i)
      PROVE  TypeOK'
  <2>1. d.market \in Market
    BY <1>1, <1>7 DEF OutcomeSelection, Move, DialogueHolds
  <2> DEFINE t == Talk("subType", << >>, d.market, i, 0)
  <2>2. t \in DialogueState /\ DialogueHolds(t)
    BY <1>1, <2>1 DEF Talk, DialogueState, DialogueHolds, AnyState, ByButton
  <2>3. QED
    BY <1>7, <2>2, MoveKeepsTypes DEF OutcomeSelection
<1>8. ASSUME NEW u \in User, AlertStart(c, u)
      PROVE  TypeOK'
  <2> DEFINE t == Talk("alertSub", << >>, NoMarket, 0, 0)
  <2>1. t \in DialogueState /\ DialogueHolds(t)
    BY <1>1 DEF Talk, DialogueState, DialogueHolds, AnyState, ByButton
  <2>2. QED
    BY <1>8, <2>1, MoveKeepsTypes DEF AlertStart
<1>9. ASSUME NEW i \in Id, AlertSubscription(c, i)
      PROVE  TypeOK'
  <2>1. CASE rows[i] = NoRow
    BY <1>9, <2>1, IdleIsState, MoveKeepsTypes DEF AlertSubscription
  <2>2. CASE rows[i] # NoRow
    <3>1. rows[i] \in Key /\ born \in Nat /\ i \in 1..born /\ i \in 0..MaxId
      BY <1>9, <2>2, DialogueAssumption DEF AlertSubscription, TypeOK, TablesOK, Id
    <3>2. rows[i].market \in Market
      BY <3>1 DEF Key
    <3> DEFINE t == Talk("alertType", << >>, rows[i].market, 0, i)
    <3>3. t \in DialogueState /\ DialogueHolds(t)
      BY <1>1, <3>1, <3>2 DEF Talk, DialogueState, DialogueHolds, AnyState, ByButton
    <3>4. QED
      BY <1>9, <2>2, <3>3, MoveKeepsTypes DEF AlertSubscription
  <2>3. QED
    BY <2>1, <2>2
<1>10. ASSUME NEW i \in Id, CallbackUnsubscribe(c, i)
       PROVE  TypeOK'
  <2>1. /\ rows' = [rows EXCEPT ![i] = NoRow] /\ alerts' = [alerts EXCEPT ![i] = 0]
        /\ paid' = paid \ {i} /\ halfMade' = halfMade \ {i}
        /\ born' = born /\ dialogue' = dialogue /\ job' = job
        /\ tier' = tier /\ limit' = limit /\ top' = top
    BY <1>10 DEF CallbackUnsubscribe, userVars
  <2>2. UsersOK'
    BY <2>1 DEF TypeOK, UsersOK
  <2>3. TablesOK'
    BY <2>1, DialogueAssumption DEF TypeOK, TablesOK
  <2>4. TalksOK'
    BY <2>1 DEF TypeOK, TalksOK, DialogueHolds, HandlerHolds
  <2>5. QED
    BY <2>2, <2>3, <2>4 DEF TypeOK
<1>11. QED
  BY <1>2, <1>3, <1>4, <1>5, <1>6, <1>7, <1>8, <1>9, <1>10 DEF Dialogue

\* A step of a threshold handler.
LEMMA HandlerKeepsTypes ==
    ASSUME TypeOK, NEW c \in Chat, Handler(c)
    PROVE  TypeOK'
<1> DEFINE h == job[c]
           unchangedUsers == UNCHANGED <<tier, limit, top>>
<1>1. /\ dialogue[c] \in DialogueState /\ DialogueHolds(dialogue[c])
      /\ h # NoJob => h \in Job /\ HandlerHolds(c, h)
      /\ job \in [Chat -> Job \cup {NoJob}]
  BY TalkOf DEF TypeOK, TalksOK
<1>2. ASSUME unchangedUsers PROVE UsersOK'
  BY <1>2 DEF TypeOK, UsersOK
<1>3. ASSUME Return(c), unchangedUsers, UNCHANGED born, TablesOK'
      PROVE  TypeOK'
  BY <1>2, <1>3, ReturnKeepsTalks DEF TypeOK
<1>4. ASSUME Return(c), UNCHANGED <<userVars, tableVars, paid>>,
             halfMade' = halfMade \/ halfMade' = halfMade \cup Making(c)
      PROVE  TypeOK'
  <2>1. Making(c) \subseteq Id
    BY DEF Making
  <2>2. TablesOK'
    BY <1>4, <2>1 DEF TypeOK, TablesOK, tableVars
  <2>3. QED
    BY <1>3, <1>4, <2>2 DEF userVars, tableVars
<1>5. ASSUME NEW u \in User, SubscribeThreshold(c, u) \/ AlertThreshold(c, u)
      PROVE  TypeOK'
  <2>1. /\ tier[u] \in Tier /\ limit[u] \in Nat /\ limit[u] <= top[u]
        /\ top[u] \in Nat /\ 0 \in 0..MaxId
    <3>1. tier[u] \in Tier /\ limit[u] \in Nat /\ top[u] \in Nat /\ limit[u] <= top[u]
      BY DialogueAssumption DEF TypeOK, UsersOK
    <3>2. 0 \in 0..MaxId
      BY DialogueAssumption
    <3>3. QED
      BY <3>1, <3>2
  <2>2. ASSUME NEW state, NEW j \in Job, Begin(c, u, state, j), HandlerHolds(c, j)
        PROVE  TypeOK'
    BY <2>2, GoOnKeepsTypes DEF Begin
  <2>3. CASE SubscribeThreshold(c, u)
    <3>1. PICK j : j = [pc |-> "quota", user |-> u, tier |-> tier[u], limit |-> limit[u], sub |-> 0]
      OBVIOUS
    <3>2. Begin(c, u, "subThreshold", j)
      BY <2>3, <3>1 DEF SubscribeThreshold
    <3>3. j \in Job /\ HandlerHolds(c, j)
      BY <2>1, <3>1, <3>2 DEF Begin, Job, HandlerHolds
    <3>4. QED
      BY <2>2, <3>2, <3>3
  <2>4. CASE AlertThreshold(c, u)
    <3>1. PICK j : j = [pc |-> "count", user |-> u, tier |-> tier[u], limit |-> 0,
                        sub |-> dialogue[c].sub]
      OBVIOUS
    <3>2. Begin(c, u, "alertThreshold", j)
      BY <2>4, <3>1 DEF AlertThreshold
    <3>3. dialogue[c].sub \in 1..born /\ dialogue[c].sub \in 0..MaxId
      BY <1>1, <3>2 DEF Begin, DialogueHolds, DialogueState
    <3>4. j \in Job /\ HandlerHolds(c, j)
      BY <2>1, <3>1, <3>2, <3>3 DEF Begin, Job, HandlerHolds
    <3>5. QED
      BY <2>2, <3>2, <3>4
  <2>5. QED
    BY <1>5, <2>3, <2>4
<1>6. CASE QuotaFull(c)
  BY <1>4, <1>6 DEF QuotaFull, historyVars
<1>7. CASE QuotaOk(c)
  <2> DEFINE j == [h EXCEPT !.pc = "insert"]
  <2>1. h # NoJob /\ h.pc = "quota" /\ job' = [job EXCEPT ![c] = j]
    BY <1>7 DEF QuotaOk, At, Goto
  <2>2. j \in Job /\ HandlerHolds(c, j)
    BY <1>1, <2>1 DEF Job, HandlerHolds
  <2>3. QED
    BY <1>7, <2>1, <2>2, GoOnKeepsTypes DEF QuotaOk
<1>8. CASE AlreadySubscribed(c)
  BY <1>4, <1>8 DEF AlreadySubscribed, historyVars
<1>9. CASE InsertSubscription(c)
  <2>1. PICK j : j = [h EXCEPT !.pc = "select"]
    OBVIOUS
  <2>2. PICK d : d = dialogue[c]
    OBVIOUS
  <2>3. /\ h # NoJob /\ h.pc = "insert" /\ job' = [job EXCEPT ![c] = j]
        /\ born < MaxId /\ born' = born + 1 /\ rows' = [rows EXCEPT ![born + 1] = KeyOf(c)]
        /\ unchangedUsers /\ alerts' = alerts /\ dialogue' = dialogue
        /\ paid' = paid /\ halfMade' = halfMade
    BY <1>9, <2>1 DEF InsertSubscription, At, Goto, userVars, historyVars
  <2>4. born \in Nat /\ born + 1 \in Id
    BY <2>3, DialogueAssumption DEF TypeOK, TablesOK, Id
  <2>5. KeyOf(c) \in Key /\ KeyOf(c) # NoRow
    BY <1>1, <2>3, DialogueAssumption DEF KeyOf, Key, Job, HandlerHolds, DialogueHolds
  <2>6. TablesOK'
    <3>1. rows' \in [Id -> Key \cup {NoRow}] /\ born' \in 0..MaxId
      BY <2>3, <2>4, <2>5 DEF TypeOK, TablesOK, Id
    <3>2. \A i \in Id : rows'[i] = NoRow => rows[i] = NoRow
      BY <2>3, <2>5 DEF TypeOK, TablesOK
    <3>3. \A i \in Id : i > born' => rows'[i] = NoRow
      BY <2>3, <2>4 DEF TypeOK, TablesOK, Id
    <3>4. QED
      BY <2>3, <3>1, <3>2, <3>3 DEF TypeOK, TablesOK
  <2>7. j \in Job /\ HandlerHolds(c, j)'
    BY <1>1, <2>3, <2>4, <2>1 DEF Job, HandlerHolds
  <2>8. DialogueHolds(d)'
    BY <1>1, <2>3, <2>4, <2>2 DEF DialogueHolds
  <2>9. dialogue' = [dialogue EXCEPT ![c] = d] /\ d \in DialogueState
    BY <1>1, <2>3, <2>2 DEF TypeOK, TalksOK
  <2>10. born' \in Nat /\ born <= born' /\ \A u \in User : top[u] <= top'[u]
    <3>1. \A u \in User : top[u] \in Nat
      BY DialogueAssumption DEF TypeOK, UsersOK
    <3>2. QED
      BY <2>3, <2>4, <3>1
  <2>11. UsersOK'
    BY <1>2, <2>3
  <2>12. TalksOK'
    BY <2>3, <2>7, <2>8, <2>9, <2>10, <2>11, OneChatMoves
  <2>13. QED
    BY <2>6, <2>11, <2>12 DEF TypeOK
<1>10. ASSUME NEW i \in Id, SelectSubscription(c, i)
       PROVE  TypeOK'
  <2> DEFINE j == [h EXCEPT !.pc = "attach", !.sub = i]
  <2>1. h # NoJob /\ h.pc = "select" /\ job' = [job EXCEPT ![c] = j]
    BY <1>1, <1>10 DEF SelectSubscription, At
  <2>2. rows[i] # NoRow
    <3>1. KeyOf(c) \in Key
      BY <1>1, <2>1, DialogueAssumption DEF KeyOf, Key, Job, HandlerHolds, DialogueHolds
    <3>2. QED
      BY <1>10, <3>1, DialogueAssumption DEF SelectSubscription, Rows, Key
  <2>3. i \in 1..born /\ i \in 0..MaxId
    BY <2>2, DialogueAssumption DEF TypeOK, TablesOK, Id
  <2>4. j \in Job /\ HandlerHolds(c, j)
    BY <1>1, <2>1, <2>3 DEF Job, HandlerHolds
  <2>5. QED
    BY <1>10, <2>1, <2>4, GoOnKeepsTypes DEF SelectSubscription
<1>11. CASE SubscriptionGone(c)
  BY <1>4, <1>11 DEF SubscriptionGone, historyVars
<1>12. CASE CountAlerts(c)
  <2>1. PICK pc \in {"update", "attach"} : Goto(c, pc)
    BY <1>12 DEF CountAlerts
  <2> DEFINE j == [h EXCEPT !.pc = pc]
  <2>2. h # NoJob /\ h.pc = "count" /\ job' = [job EXCEPT ![c] = j]
    BY <1>12, <2>1 DEF CountAlerts, At, Goto
  <2>3. j \in Job /\ HandlerHolds(c, j)
    BY <1>1, <2>2 DEF Job, HandlerHolds
  <2>4. QED
    BY <1>12, <2>2, <2>3, GoOnKeepsTypes DEF CountAlerts
<1>13. CASE UpdateAlert(c)
  BY <1>4, <1>13 DEF UpdateAlert, historyVars
<1>14. CASE AttachAlert(c)
  <2>1. h # NoJob /\ h.pc = "attach" /\ h.sub \in 1..born /\ h.sub \in Id
    <3>1. h # NoJob /\ h.pc = "attach"
      BY <1>14 DEF AttachAlert, At
    <3>2. h.sub \in 1..born
      BY <1>1, <3>1 DEF HandlerHolds
    <3>3. QED
      BY <3>1, <3>2, DialogueAssumption DEF TypeOK, TablesOK, Id
  <2>2. TablesOK'
    <3>1. UNCHANGED <<rows, born, halfMade>>
      BY <1>14 DEF AttachAlert
    <3>2. CASE rows[h.sub] = NoRow
      BY <1>14, <3>1, <3>2 DEF AttachAlert, TypeOK, TablesOK
    <3>3. CASE rows[h.sub] # NoRow
      <4>1. /\ alerts[h.sub] < MaxAlerts /\ alerts' = [alerts EXCEPT ![h.sub] = @ + 1]
            /\ paid' \subseteq paid \cup {h.sub}
        BY <1>14, <3>3 DEF AttachAlert
      <4>2. alerts[h.sub] + 1 \in 0..MaxAlerts
        BY <2>1, <4>1, DialogueAssumption DEF TypeOK, TablesOK
      <4>3. alerts' \in [Id -> 0..MaxAlerts]
        BY <4>1, <4>2 DEF TypeOK, TablesOK
      <4>4. \A i \in Id : rows'[i] = NoRow => alerts'[i] = 0
        BY <3>1, <3>3, <4>1 DEF TypeOK, TablesOK
      <4>5. QED
        BY <2>1, <3>1, <4>1, <4>3, <4>4 DEF TypeOK, TablesOK
    <3>4. QED
      BY <3>2, <3>3
  <2>3. QED
    BY <1>3, <1>14, <2>2 DEF AttachAlert, userVars
<1>15. CASE HandlerFails(c)
  BY <1>4, <1>15 DEF HandlerFails
<1>16. QED
  BY <1>5, <1>6, <1>7, <1>8, <1>9, <1>10, <1>11, <1>12, <1>13, <1>14, <1>15 DEF Handler

LEMMA RestartKeepsTypes == TypeOK /\ Restart => TypeOK'
<1> SUFFICES ASSUME TypeOK, Restart PROVE TypeOK'
  OBVIOUS
<1>1. UsersOK'
  BY DEF Restart, TypeOK, UsersOK, userVars
<1>2. \A c \in Chat : Making(c) \subseteq Id
  BY DEF Making
<1>3. TablesOK'
  BY <1>2 DEF Restart, TypeOK, TablesOK, tableVars
<1>4. \A c \in Chat : DialogueHolds(Idle)'
  BY DEF DialogueHolds, Idle, Talk
<1>5. TalksOK'
  BY <1>4, IdleIsState DEF Restart, TalksOK
<1>6. QED
  BY <1>1, <1>3, <1>5 DEF TypeOK

LEMMA AdminKeepsTypes == TypeOK /\ Admin => TypeOK'
<1> SUFFICES ASSUME TypeOK, Admin PROVE TypeOK'
  OBVIOUS
<1> DEFINE OnlyUsers ==
             /\ UNCHANGED <<tableVars, dialogue, job, historyVars>> /\ UsersOK'
             /\ \A u \in User : top[u] \in Nat /\ top'[u] \in Nat /\ top[u] <= top'[u]
<1>1. OnlyUsers
  <2>1. \A u \in User : limit[u] \in Nat /\ top[u] \in Nat
    BY DialogueAssumption DEF TypeOK, UsersOK
  <2>2. ASSUME NEW u \in User, NEW t \in {"free", "premium"}, UpdateTier(u, t)
        PROVE  OnlyUsers
    BY <2>1, <2>2 DEF UpdateTier, TypeOK, UsersOK, Tier
  <2>3. ASSUME NEW u \in User, NEW n \in Limit, UpdateLimit(u, n)
        PROVE  OnlyUsers
    <3>1. n \in Nat
      BY DialogueAssumption
    <3>2. /\ tier' = tier /\ limit' = [limit EXCEPT ![u] = n]
          /\ top' = [top EXCEPT ![u] = IF n > top[u] THEN n ELSE top[u]]
          /\ UNCHANGED <<tableVars, dialogue, job, historyVars>>
      BY <2>3 DEF UpdateLimit
    <3>3. UsersOK'
      BY <2>1, <3>1, <3>2 DEF TypeOK, UsersOK
    <3>4. \A v \in User : top'[v] \in Nat /\ top[v] <= top'[v]
      BY <2>1, <3>1, <3>2 DEF TypeOK, UsersOK
    <3>5. QED
      BY <2>1, <3>2, <3>3, <3>4
  <2>4. QED
    BY <2>2, <2>3 DEF Admin
<1>2. TablesOK'
  BY <1>1 DEF TypeOK, TablesOK, tableVars, historyVars
<1>3. ASSUME NEW c \in Chat, job[c] # NoJob
      PROVE  HandlerHolds(c, job[c])'
  <2>1. job[c] \in Job /\ HandlerHolds(c, job[c])
    BY <1>3, TalkOf
  <2>2. job[c].limit \in Nat /\ job[c].user \in User
    BY <2>1 DEF Job
  <2>3. job[c].limit <= top'[job[c].user]
    BY <1>1, <2>1, <2>2 DEF HandlerHolds
  <2>4. QED
    BY <1>1, <2>1, <2>3 DEF HandlerHolds, tableVars
<1>4. \A c \in Chat : DialogueHolds(dialogue[c])'
  BY <1>1, TalkOf DEF DialogueHolds, tableVars
<1>5. TalksOK'
  BY <1>1, <1>3, <1>4 DEF TypeOK, TalksOK
<1>6. QED
  BY <1>1, <1>2, <1>5 DEF TypeOK

LEMMA StepKeepsTypes == TypeOK /\ [Next]_vars => TypeOK'
<1> SUFFICES ASSUME TypeOK, [Next]_vars PROVE TypeOK'
  OBVIOUS
<1>1. CASE \E c \in Chat : Dialogue(c) \/ Handler(c)
  BY <1>1, DialogueKeepsTypes, HandlerKeepsTypes
<1>2. CASE UNCHANGED vars
  <2>1. UsersOK' /\ TablesOK'
    BY <1>2 DEF vars, userVars, tableVars, historyVars, TypeOK, UsersOK, TablesOK
  <2>2. TalksOK'
    BY <1>2 DEF vars, userVars, tableVars, historyVars, TypeOK, TalksOK, DialogueHolds, HandlerHolds
  <2>3. QED
    BY <2>1, <2>2 DEF TypeOK
<1>3. QED
  BY <1>1, <1>2, RestartKeepsTypes, AdminKeepsTypes DEF Next

LEMMA TypesAtFirst == Init => TypeOK
<1> SUFFICES ASSUME Init PROVE TypeOK
  OBVIOUS
<1>1. UsersOK
  BY DialogueAssumption DEF Init, UsersOK, Tier
<1>2. TablesOK
  BY DialogueAssumption DEF Init, TablesOK
<1>3. TalksOK
  BY IdleIsState DEF Init, TalksOK
<1>4. QED
  BY <1>1, <1>2, <1>3 DEF TypeOK

\* Types, what dialogues and handlers rely on, no alert without its subscription
\* (the dialogues, the foreign key and the cascade of the alerts table).
THEOREM TypeCorrect == Spec => []TypeOK
BY TypesAtFirst, StepKeepsTypes, PTL DEF Spec

-----------------------------------------------------------------------------
(***************************************************************************)
(* The alert goes to the market that is shown.                             *)
(***************************************************************************)
\* Rows that are there keep their market, and what is shown is shown still or
\* was read from the row just now.
LEMMA ShownStays ==
    ASSUME TypeOK, AlertWhereShown,
           \A i \in 1..born : rows'[i] \in {rows[i], NoRow},
           \A c \in Chat : \/ dialogue'[c].state \notin {"alertType", "alertThreshold"}
                           \/ /\ dialogue[c].state \in {"alertType", "alertThreshold"}
                              /\ dialogue'[c].market = dialogue[c].market
                              /\ dialogue'[c].sub = dialogue[c].sub
                           \/ /\ dialogue'[c].sub \in 1..born
                              /\ dialogue'[c].market = rows[dialogue'[c].sub].market
    PROVE  AlertWhereShown'
<1> SUFFICES ASSUME NEW c \in Chat, dialogue'[c].state \in {"alertType", "alertThreshold"},
                    rows'[dialogue'[c].sub] # NoRow
             PROVE  rows'[dialogue'[c].sub].market = dialogue'[c].market
  BY DEF AlertWhereShown
<1>1. CASE /\ dialogue[c].state \in {"alertType", "alertThreshold"}
           /\ dialogue'[c].market = dialogue[c].market
           /\ dialogue'[c].sub = dialogue[c].sub
  <2>1. dialogue[c].sub \in 1..born
    BY <1>1, TalkOf DEF DialogueHolds
  <2>2. rows'[dialogue[c].sub] = rows[dialogue[c].sub] /\ rows[dialogue[c].sub] # NoRow
    BY <1>1, <2>1
  <2>3. QED
    BY <1>1, <2>2 DEF AlertWhereShown
<1>2. CASE /\ dialogue'[c].sub \in 1..born
           /\ dialogue'[c].market = rows[dialogue'[c].sub].market
  BY <1>2
<1>3. QED
  BY <1>1, <1>2

\* A step of a chat, for AlertWhereShown.
LEMMA ChatKeepsShown ==
    ASSUME TypeOK, AlertWhereShown, NEW c \in Chat, Dialogue(c) \/ Handler(c)
    PROVE  AlertWhereShown'
<1>1. /\ dialogue \in [Chat -> DialogueState] /\ born \in Nat
      /\ 1..born \subseteq Id /\ rows \in [Id -> Key \cup {NoRow}]
  BY DialogueAssumption DEF TypeOK, TalksOK, TablesOK, Id
<1>2. Idle.state \notin {"alertType", "alertThreshold"}
  BY DEF Idle, Talk
<1>3. ASSUME NEW from, NEW d, Move(c, from, d),
             \/ d.state \notin {"alertType", "alertThreshold"}
             \/ /\ dialogue[c].state \in {"alertType", "alertThreshold"}
                /\ d.market = dialogue[c].market /\ d.sub = dialogue[c].sub
             \/ d.sub \in 1..born /\ d.market = rows[d.sub].market
      PROVE  AlertWhereShown'
  <2>1. dialogue' = [dialogue EXCEPT ![c] = d] /\ rows' = rows
    BY <1>3 DEF Move, tableVars
  <2>2. QED
    BY <1>1, <1>3, <2>1, ShownStays
<1>4. ASSUME rows' = rows, dialogue' = dialogue \/ dialogue' = [dialogue EXCEPT ![c] = Idle]
      PROVE  AlertWhereShown'
  BY <1>1, <1>2, <1>4, ShownStays
<1>5. CASE Dialogue(c)
  <2>1. CASE \/ SubscribeStart(c) \/ SubscribeAlertType(c)
             \/ \E i \in Index : OutcomeSelection(c, i)
             \/ \E u \in User : AlertStart(c, u)
    <3>1. PICK d : /\ Move(c, AnyState, d) \/ Move(c, {"subType"}, d) \/ Move(c, {"outcome"}, d)
                   /\ d.state \in {"url", "subThreshold", "subType", "alertSub"}
      <4>1. CASE SubscribeStart(c)
        BY <4>1 DEF SubscribeStart, Talk
      <4>2. CASE SubscribeAlertType(c)
        <5>1. [dialogue[c] EXCEPT !.state = "subThreshold"].state = "subThreshold"
          BY <1>1 DEF DialogueState
        <5>2. QED
          BY <4>2, <5>1 DEF SubscribeAlertType
      <4>3. CASE \E i \in Index : OutcomeSelection(c, i)
        BY <4>3 DEF OutcomeSelection, Talk
      <4>4. CASE \E u \in User : AlertStart(c, u)
        BY <4>4 DEF AlertStart, Talk
      <4>5. QED
        BY <2>1, <4>1, <4>2, <4>3, <4>4
    <3>2. QED
      BY <3>1, <1>3
  <2>2. CASE AlertType(c)
    <3>1. PICK d : d = [dialogue[c] EXCEPT !.state = "alertThreshold"]
      OBVIOUS
    <3>2. Move(c, {"alertType"}, d) /\ dialogue[c].state = "alertType"
      BY <2>2, <3>1 DEF AlertType, Move
    <3>3. d.market = dialogue[c].market /\ d.sub = dialogue[c].sub
      BY <1>1, <3>1 DEF DialogueState
    <3>4. QED
      BY <3>2, <3>3, <1>3
  <2>3. CASE \E offer \in Offer : UrlInput(c, offer)
    <3>1. PICK d : Move(c, {"url"}, d) /\ d.state \in {"outcome", "market"}
      BY <2>3 DEF UrlInput, Talk
    <3>2. QED
      BY <3>1, <1>3
  <2>4. CASE \E i \in 1..(Len(dialogue[c].offer) + 1) : MarketSelection(c, i)
    <3>1. PICK d : Move(c, {"market"}, d) /\ d.state \in {"outcome", "idle"}
      BY <2>4 DEF MarketSelection, Talk, Idle
    <3>2. QED
      BY <3>1, <1>3
  <2>5. ASSUME NEW i \in Id, AlertSubscription(c, i)
        PROVE  AlertWhereShown'
    <3>1. CASE rows[i] = NoRow
      BY <2>5, <3>1, <1>2, <1>3 DEF AlertSubscription
    <3>2. CASE rows[i] # NoRow
      <4>1. PICK d : d = Talk("alertType", << >>, rows[i].market, 0, i)
        OBVIOUS
      <4>2. Move(c, {"alertSub"}, d) /\ i <= born
        BY <2>5, <3>2, <4>1 DEF AlertSubscription
      <4>3. d.sub = i /\ d.market = rows[i].market /\ i \in 1..born
        BY <1>1, <4>1, <4>2 DEF Talk, Id
      <4>4. QED
        BY <4>2, <4>3, <1>3
    <3>3. QED
      BY <3>1, <3>2
  <2>6. ASSUME NEW i \in Id, CallbackUnsubscribe(c, i)
        PROVE  AlertWhereShown'
    <3>1. rows' = [rows EXCEPT ![i] = NoRow] /\ dialogue' = dialogue
      BY <2>6 DEF CallbackUnsubscribe
    <3>2. \A k \in 1..born : rows'[k] \in {rows[k], NoRow}
      BY <1>1, <3>1
    <3>3. QED
      BY <3>1, <3>2, ShownStays
  <2>7. QED
    BY <1>5, <2>1, <2>2, <2>3, <2>4, <2>5, <2>6 DEF Dialogue
<1>6. CASE Handler(c)
  <2>1. CASE InsertSubscription(c)
    <3>1. /\ rows' = [rows EXCEPT ![born + 1] = KeyOf(c)] /\ dialogue' = dialogue
      BY <2>1 DEF InsertSubscription
    <3>2. \A k \in 1..born : rows'[k] = rows[k]
      BY <1>1, <3>1
    <3>3. QED
      BY <3>1, <3>2, ShownStays
  <2>2. CASE ~InsertSubscription(c)
    BY <1>4, <1>6, <2>2 DEF Handler, SubscribeThreshold, AlertThreshold, Begin, QuotaFull, QuotaOk, AlreadySubscribed,
       SelectSubscription, SubscriptionGone, CountAlerts, UpdateAlert, AttachAlert,
       HandlerFails, Return, tableVars
  <2>3. QED
    BY <2>1, <2>2
<1>7. QED
  BY <1>5, <1>6

\* No alert is written to another market than the one on the screen: AUTOINCREMENT
\* ids (migrations/003) against the id a dialogue keeps (dialogues.rs:731).
THEOREM ShownIsMeant == Spec => []AlertWhereShown
<1>1. Init => AlertWhereShown
  BY DEF Init, AlertWhereShown, Idle, Talk
<1>2. TypeOK /\ AlertWhereShown /\ [Next]_vars => AlertWhereShown'
  <2> SUFFICES ASSUME TypeOK, AlertWhereShown, [Next]_vars
               PROVE  AlertWhereShown'
    OBVIOUS
  <2>1. CASE \E c \in Chat : Dialogue(c) \/ Handler(c)
    BY <2>1, ChatKeepsShown
  <2>2. CASE Restart
    BY <2>2 DEF Restart, AlertWhereShown, Idle, Talk
  <2>3. CASE Admin \/ UNCHANGED vars
    <3>1. rows' = rows /\ dialogue' = dialogue
      BY <2>3 DEF Admin, UpdateTier, UpdateLimit, vars, tableVars
    <3>2. QED
      BY <3>1 DEF AlertWhereShown
  <2>4. QED
    BY <2>1, <2>2, <2>3 DEF Next
<1>3. QED
  BY <1>1, <1>2, TypeCorrect, PTL DEF Spec

-----------------------------------------------------------------------------
(***************************************************************************)
(* How far chats that race exceed a user's limit.                          *)
(***************************************************************************)
\* The bound for one user.
Overshoot(u) == ChatsOf(u) # {} =>
    Cardinality(SubsOf(u)) + Cardinality(Admitted(u)) <= top[u] + Cardinality(ChatsOf(u)) - 1

\* Every admitted handler has a chat of its own, one of the user's.
LEMMA Counting ==
    ASSUME TypeOK, NEW u \in User
    PROVE  /\ IsFiniteSet(SubsOf(u)) /\ Cardinality(SubsOf(u)) \in Nat
           /\ IsFiniteSet(ChatsOf(u)) /\ Cardinality(ChatsOf(u)) \in Nat
           /\ ChatsOf(u) # {} => Cardinality(ChatsOf(u)) >= 1
           /\ Admitted(u) \subseteq ChatsOf(u)
           /\ IsFiniteSet(Admitted(u)) /\ Cardinality(Admitted(u)) \in Nat
           /\ Cardinality(Admitted(u)) <= Cardinality(ChatsOf(u))
           /\ top[u] \in Nat
<1>1. IsFiniteSet(Id)
  BY FS_Interval, DialogueAssumption DEF Id
<1>2. IsFiniteSet(SubsOf(u)) /\ Cardinality(SubsOf(u)) \in Nat
  <2>1. SubsOf(u) \in SUBSET Id
    BY DEF SubsOf
  <2>2. QED
    BY <1>1, <2>1, FS_Subset, FS_CardinalityType
<1>3. IsFiniteSet(ChatsOf(u)) /\ Cardinality(ChatsOf(u)) \in Nat
  <2>1. ChatsOf(u) \in SUBSET Chat
    BY DEF ChatsOf
  <2>2. QED
    BY <2>1, DialogueAssumption, FS_Subset, FS_CardinalityType
<1>4. ChatsOf(u) # {} => Cardinality(ChatsOf(u)) >= 1
  BY <1>3, FS_EmptySet
<1>5. Admitted(u) \in SUBSET ChatsOf(u)
  BY TalkOf DEF Admitted, At, ChatsOf, HandlerHolds
<1>6. /\ IsFiniteSet(Admitted(u)) /\ Cardinality(Admitted(u)) \in Nat
      /\ Cardinality(Admitted(u)) <= Cardinality(ChatsOf(u))
  BY <1>3, <1>5, FS_Subset, FS_CardinalityType
<1>7. top[u] \in Nat
  BY DialogueAssumption DEF TypeOK, UsersOK
<1>8. QED
  BY <1>2, <1>3, <1>4, <1>5, <1>6, <1>7

\* Fewer subscriptions, fewer admitted handlers, a higher limit: the bound stays.
LEMMA NoMoreOvershoot ==
    ASSUME TypeOK, NEW u \in User, Overshoot(u),
           SubsOf(u)' \subseteq SubsOf(u), Admitted(u)' \subseteq Admitted(u),
           top'[u] \in Nat, top[u] <= top'[u]
    PROVE  Overshoot(u)'
<1>1. /\ Cardinality(SubsOf(u)') <= Cardinality(SubsOf(u)) /\ Cardinality(SubsOf(u)') \in Nat
      /\ Cardinality(Admitted(u)') <= Cardinality(Admitted(u)) /\ Cardinality(Admitted(u)') \in Nat
  <2>1. SubsOf(u)' \in SUBSET SubsOf(u) /\ Admitted(u)' \in SUBSET Admitted(u)
    OBVIOUS
  <2>2. QED
    BY <2>1, Counting, FS_Subset, FS_CardinalityType
<1>2. ChatsOf(u)' = ChatsOf(u)
  BY DEF ChatsOf
<1>3. QED
  BY <1>1, <1>2, Counting DEF Overshoot

\* The check: the user is below a limit once in force, so below the highest, and
\* his chats, this one included, are all that can have passed it.
LEMMA QuotaOkKeepsOvershoot ==
    ASSUME TypeOK, NEW c \in Chat, QuotaOk(c), NEW u \in User, Overshoot(u)
    PROVE  Overshoot(u)'
<1>1. /\ job[c] # NoJob /\ Cardinality(SubsOf(job[c].user)) < job[c].limit
      /\ job' = [job EXCEPT ![c].pc = "insert"] /\ rows' = rows /\ top' = top
  BY DEF QuotaOk, At, Goto, userVars, tableVars
<1>2. job[c] \in Job /\ job[c].user \in Member[c] /\ job[c].limit <= top[job[c].user]
  BY <1>1, TalkOf DEF HandlerHolds
<1>3. job'[c] = [job[c] EXCEPT !.pc = "insert"] /\ \A e \in Chat \ {c} : job'[e] = job[e]
  BY <1>1 DEF TypeOK, TalksOK
<1>4. job'[c].user = job[c].user
  BY <1>2, <1>3 DEF Job
<1>5. SubsOf(u)' = SubsOf(u) /\ ChatsOf(u)' = ChatsOf(u)
  BY <1>1 DEF SubsOf, ChatsOf
<1>6. CASE job[c].user = u
  <2>1. Admitted(u)' \subseteq Admitted(u) \cup {c}
    BY <1>3 DEF Admitted, At
  <2>2. Admitted(u)' \in SUBSET ChatsOf(u)
    BY <1>2, <1>6, <2>1, Counting DEF ChatsOf
  <2>3. Cardinality(Admitted(u)') <= Cardinality(ChatsOf(u)) /\ Cardinality(Admitted(u)') \in Nat
    BY <2>2, Counting, FS_Subset, FS_CardinalityType
  <2>4. job[c].limit \in Nat
    BY <1>2 DEF Job
  <2>5. Cardinality(SubsOf(u)) <= top[u] - 1
    BY <1>1, <1>2, <1>6, <2>4, Counting
  <2>6. QED
    BY <1>1, <1>5, <2>3, <2>5, Counting DEF Overshoot
<1>7. CASE job[c].user # u
  <2>1. Admitted(u)' \subseteq Admitted(u)
    BY <1>3, <1>4, <1>7 DEF Admitted, At
  <2>2. QED
    BY <1>1, <1>5, <2>1, Counting, NoMoreOvershoot
<1>8. QED
  BY <1>6, <1>7

\* The insert: one admitted handler becomes one subscription.
LEMMA InsertKeepsOvershoot ==
    ASSUME TypeOK, NEW c \in Chat, InsertSubscription(c), NEW u \in User, Overshoot(u)
    PROVE  Overshoot(u)'
<1>1. /\ job[c] # NoJob /\ job[c].pc = "insert" /\ born < MaxId
      /\ job' = [job EXCEPT ![c].pc = "select"] /\ rows' = [rows EXCEPT ![born + 1] = KeyOf(c)]
      /\ top' = top
  BY DEF InsertSubscription, At, Goto, userVars
<1>2. job[c] \in Job /\ job[c].user \in Member[c]
  BY <1>1, TalkOf DEF HandlerHolds
<1>3. /\ job'[c] = [job[c] EXCEPT !.pc = "select"] /\ \A e \in Chat \ {c} : job'[e] = job[e]
      /\ job'[c].pc = "select"
  <2>1. job'[c] = [job[c] EXCEPT !.pc = "select"] /\ \A e \in Chat \ {c} : job'[e] = job[e]
    BY <1>1 DEF TypeOK, TalksOK
  <2>2. QED
    BY <1>2, <2>1 DEF Job
<1>4. born + 1 \in Id /\ rows[born + 1] = NoRow /\ KeyOf(c).user = job[c].user
  <2>1. born \in Nat /\ born + 1 \in Id
    BY <1>1, DialogueAssumption DEF TypeOK, TablesOK, Id
  <2>2. rows[born + 1] = NoRow
    BY <2>1 DEF TypeOK, TablesOK
  <2>3. QED
    BY <2>1, <2>2 DEF KeyOf
<1>5. \A i \in Id : rows'[i] = IF i = born + 1 THEN KeyOf(c) ELSE rows[i]
  BY <1>1, <1>4 DEF TypeOK, TablesOK
<1>6. CASE job[c].user = u
  <2>1. SubsOf(u)' \in SUBSET (SubsOf(u) \cup {born + 1})
    BY <1>5 DEF SubsOf
  <2>2. Cardinality(SubsOf(u)') <= Cardinality(SubsOf(u)) + 1 /\ Cardinality(SubsOf(u)') \in Nat
    <3>1. /\ IsFiniteSet(SubsOf(u) \cup {born + 1})
          /\ Cardinality(SubsOf(u) \cup {born + 1}) <= Cardinality(SubsOf(u)) + 1
          /\ Cardinality(SubsOf(u) \cup {born + 1}) \in Nat
      <4>1. IsFiniteSet(SubsOf(u)) /\ Cardinality(SubsOf(u)) \in Nat
        BY Counting
      <4>2. IsFiniteSet(SubsOf(u) \cup {born + 1}) /\ Cardinality(SubsOf(u) \cup {born + 1})
              = IF born + 1 \in SubsOf(u) THEN Cardinality(SubsOf(u)) ELSE Cardinality(SubsOf(u)) + 1
        BY <4>1, FS_AddElement
      <4>3. QED
        BY <4>1, <4>2
    <3>2. /\ IsFiniteSet(SubsOf(u)') /\ Cardinality(SubsOf(u)') \in Nat
          /\ Cardinality(SubsOf(u)') <= Cardinality(SubsOf(u) \cup {born + 1})
      BY <2>1, <3>1, FS_Subset, FS_CardinalityType
    <3>3. QED
      BY <3>1, <3>2, Counting
  <2>3. c \in Admitted(u) /\ Admitted(u)' = Admitted(u) \ {c}
    BY <1>1, <1>3, <1>6 DEF Admitted, At
  <2>4. Cardinality(Admitted(u)') = Cardinality(Admitted(u)) - 1
    BY <2>3, Counting, FS_RemoveElement
  <2>5. ChatsOf(u)' = ChatsOf(u)
    BY DEF ChatsOf
  <2>6. QED
    BY <1>1, <2>2, <2>4, <2>5, Counting DEF Overshoot
<1>7. CASE job[c].user # u
  <2>1. SubsOf(u)' \subseteq SubsOf(u)
    BY <1>4, <1>5, <1>7 DEF SubsOf
  <2>2. Admitted(u)' \subseteq Admitted(u)
    BY <1>3 DEF Admitted, At
  <2>3. QED
    BY <1>1, <2>1, <2>2, Counting, NoMoreOvershoot
<1>8. QED
  BY <1>6, <1>7

\* Every other step of a chat, and every step of the admin.
LEMMA OtherStepsKeepOvershoot ==
    ASSUME TypeOK, TypeOK', Next, NEW u \in User, Overshoot(u),
           \A c \in Chat : ~QuotaOk(c) /\ ~InsertSubscription(c)
    PROVE  Overshoot(u)'
<1>1. /\ rows \in [Id -> Key \cup {NoRow}] /\ job \in [Chat -> Job \cup {NoJob}]
      /\ top'[u] \in Nat /\ top[u] \in Nat
  BY DialogueAssumption DEF TypeOK, TablesOK, TalksOK, UsersOK
<1>2. ASSUME rows' = rows, top' = top,
             \A c \in Chat : \/ job'[c] = job[c]
                             \/ job'[c] = NoJob
                             \/ job'[c].pc # "insert"
      PROVE  Overshoot(u)'
  <2>1. SubsOf(u)' = SubsOf(u)
    BY <1>2 DEF SubsOf
  <2>2. Admitted(u)' \subseteq Admitted(u)
    BY <1>2 DEF Admitted, At
  <2>3. QED
    BY <1>1, <1>2, <2>1, <2>2, NoMoreOvershoot
<1>3. ASSUME NEW c \in Chat, Dialogue(c)
      PROVE  Overshoot(u)'
  <2>1. ASSUME NEW i \in Id, CallbackUnsubscribe(c, i)
        PROVE  Overshoot(u)'
    <3>1. rows' = [rows EXCEPT ![i] = NoRow] /\ job' = job /\ top' = top
      BY <2>1 DEF CallbackUnsubscribe, userVars
    <3>2. SubsOf(u)' \subseteq SubsOf(u)
      BY <1>1, <3>1 DEF SubsOf
    <3>3. Admitted(u)' = Admitted(u)
      BY <3>1 DEF Admitted, At
    <3>4. QED
      BY <1>1, <3>1, <3>2, <3>3, NoMoreOvershoot
  <2>2. CASE \A i \in Id : ~CallbackUnsubscribe(c, i)
    <3>1. rows' = rows /\ top' = top /\ job' = job
      BY <1>3, <2>2 DEF Dialogue, SubscribeStart, SubscribeAlertType, AlertType, UrlInput,
         MarketSelection, OutcomeSelection, AlertStart, AlertSubscription, Move, userVars, tableVars
    <3>2. QED
      BY <3>1, <1>2
  <2>3. QED
    BY <2>1, <2>2
<1>4. ASSUME NEW c \in Chat, Handler(c)
      PROVE  Overshoot(u)'
  <2>1. rows' = rows /\ top' = top
    BY <1>4 DEF Handler, SubscribeThreshold, AlertThreshold, Begin, QuotaFull, AlreadySubscribed, SelectSubscription,
       SubscriptionGone, CountAlerts, UpdateAlert, AttachAlert, HandlerFails, userVars, tableVars
  <2>2. CASE Return(c)
    <3>1. job' = [job EXCEPT ![c] = NoJob]
      BY <2>2 DEF Return
    <3>2. QED
      BY <1>1, <1>2, <2>1, <3>1
  <2>3. CASE ~Return(c)
    <3> DEFINE GoesOn == \E j : job' = [job EXCEPT ![c] = j] /\ j.pc # "insert"
    <3>1. GoesOn
      <4>1. ASSUME NEW v \in User, SubscribeThreshold(c, v) \/ AlertThreshold(c, v)
            PROVE  GoesOn
        <5>1. PICK j : /\ job' = [job EXCEPT ![c] = j]
                       /\ \/ j = [pc |-> "quota", user |-> v, tier |-> tier[v],
                                  limit |-> limit[v], sub |-> 0]
                          \/ j = [pc |-> "count", user |-> v, tier |-> tier[v],
                                  limit |-> 0, sub |-> dialogue[c].sub]
          BY <4>1 DEF SubscribeThreshold, AlertThreshold, Begin
        <5>2. j.pc # "insert"
          BY <5>1
        <5>3. QED
          BY <5>1, <5>2
      <4>2. ASSUME NEW i \in Id, SelectSubscription(c, i)
            PROVE  GoesOn
        <5>1. job[c] \in Job
          BY <4>2, TalkOf DEF SelectSubscription, At
        <5>2. PICK j : j = [job[c] EXCEPT !.pc = "attach", !.sub = i]
          OBVIOUS
        <5>3. j.pc = "attach"
          BY <5>1, <5>2 DEF Job
        <5>4. job' = [job EXCEPT ![c] = j]
          BY <4>2, <5>2 DEF SelectSubscription
        <5>5. QED
          BY <5>3, <5>4
      <4>3. CASE CountAlerts(c)
        <5>1. job[c] \in Job
          BY <4>3, TalkOf DEF CountAlerts, At
        <5>2. PICK pc \in {"update", "attach"} : job' = [job EXCEPT ![c].pc = pc]
          BY <4>3 DEF CountAlerts, Goto
        <5>3. [job[c] EXCEPT !.pc = pc].pc = pc
          BY <5>1 DEF Job
        <5>4. QED
          BY <5>2, <5>3
      <4>4. \/ \E v \in User : SubscribeThreshold(c, v) \/ AlertThreshold(c, v)
            \/ \E i \in Id : SelectSubscription(c, i)
            \/ CountAlerts(c)
        BY <1>4, <2>3 DEF Handler, QuotaFull, AlreadySubscribed,
           SubscriptionGone, UpdateAlert, AttachAlert, HandlerFails
      <4>5. QED
        BY <4>1, <4>2, <4>3, <4>4
    <3>2. QED
      BY <1>1, <1>2, <2>1, <3>1
  <2>4. QED
    BY <2>2, <2>3
<1>5. CASE Restart
  BY <1>2, <1>5 DEF Restart, userVars, tableVars
<1>6. CASE Admin
  <2>1. rows' = rows /\ job' = job
    BY <1>6 DEF Admin, UpdateTier, UpdateLimit, tableVars
  <2>2. top[u] <= top'[u]
    <3>1. \A v \in User : top[v] \in Nat
      BY DialogueAssumption DEF TypeOK, UsersOK
    <3>2. ASSUME NEW v \in User, NEW n \in Limit, UpdateLimit(v, n)
          PROVE  top[u] <= top'[u]
      <4>1. n \in Nat /\ top' = [top EXCEPT ![v] = IF n > top[v] THEN n ELSE top[v]]
        BY <3>2, DialogueAssumption DEF UpdateLimit
      <4>2. QED
        BY <3>1, <4>1 DEF TypeOK, UsersOK
    <3>3. ASSUME NEW v \in User, NEW t \in {"free", "premium"}, UpdateTier(v, t)
          PROVE  top[u] <= top'[u]
      BY <3>1, <3>3 DEF UpdateTier
    <3>4. QED
      BY <1>6, <3>2, <3>3 DEF Admin
  <2>3. SubsOf(u)' = SubsOf(u) /\ Admitted(u)' = Admitted(u)
    BY <2>1 DEF SubsOf, Admitted, At
  <2>4. QED
    BY <1>1, <2>2, <2>3, NoMoreOvershoot
<1>7. QED
  BY <1>3, <1>4, <1>5, <1>6 DEF Next

\* Count and insert race between the chats of one user (dialogues.rs:493, 519); the
\* user ends up over the highest limit he ever had by his other chats at most.
THEOREM OvershootBounded == Spec => []QuotaOvershoot
<1>1. QuotaOvershoot <=> \A u \in User : Overshoot(u)
  BY DEF QuotaOvershoot, Overshoot
<1>2. Init => TypeOK /\ QuotaOvershoot
  <2> SUFFICES ASSUME Init, TypeOK PROVE QuotaOvershoot
    BY TypesAtFirst
  <2>1. ASSUME NEW u \in User PROVE Overshoot(u)
    <3>1. SubsOf(u) = {} /\ Admitted(u) = {}
      BY DEF Init, SubsOf, Admitted, At
    <3>2. QED
      BY <3>1, Counting, FS_EmptySet DEF Overshoot
  <2>2. QED
    BY <1>1, <2>1
<1>3. TypeOK /\ QuotaOvershoot /\ [Next]_vars => QuotaOvershoot'
  <2> SUFFICES ASSUME TypeOK, QuotaOvershoot, [Next]_vars
               PROVE  QuotaOvershoot'
    OBVIOUS
  <2>1. TypeOK'
    BY StepKeepsTypes
  <2>2. ASSUME NEW u \in User, Overshoot(u)
        PROVE  Overshoot(u)'
    <3>1. CASE UNCHANGED vars
      BY <2>2, <3>1 DEF vars, userVars, tableVars, Overshoot, SubsOf, ChatsOf, Admitted, At
    <3>2. CASE Next
      BY <2>1, <2>2, <3>2, QuotaOkKeepsOvershoot, InsertKeepsOvershoot, OtherStepsKeepOvershoot
    <3>3. QED
      BY <3>1, <3>2
  <2>3. \A u \in User : Overshoot(u)
    BY <1>1
  <2>4. \A u \in User : Overshoot(u)'
    BY <2>2, <2>3
  <2>5. QED
    BY <2>4 DEF QuotaOvershoot, Overshoot
<1>4. QED
  BY <1>2, <1>3, TypeCorrect, PTL DEF Spec

-----------------------------------------------------------------------------
(***************************************************************************)
(* The alert of a subscription.  A step of one chat leaves the handlers of *)
(* the others, and so what they are about to do with a row, alone.         *)
(***************************************************************************)
Others(c) == \A e \in Chat \ {c} : job'[e] = job[e] /\ dialogue'[e] = dialogue[e]

LEMMA OneChatAtATime ==
    ASSUME TypeOK, NEW c \in Chat, Dialogue(c) \/ Handler(c)
    PROVE  Others(c)
<1>0. job \in [Chat -> Job \cup {NoJob}] /\ dialogue \in [Chat -> DialogueState]
  BY DEF TypeOK, TalksOK
<1>1. job' = job \/ \E j : job' = [job EXCEPT ![c] = j]
  BY DEF Dialogue, Handler, SubscribeStart, SubscribeAlertType, AlertType, UrlInput,
         MarketSelection, OutcomeSelection, AlertStart, AlertSubscription, CallbackUnsubscribe,
         Move, SubscribeThreshold, AlertThreshold, Begin, QuotaFull, QuotaOk, AlreadySubscribed,
         InsertSubscription, SelectSubscription, SubscriptionGone, CountAlerts, UpdateAlert,
         AttachAlert, HandlerFails, Return, Goto
<1>2. dialogue' = dialogue \/ \E d : dialogue' = [dialogue EXCEPT ![c] = d]
  BY DEF Dialogue, Handler, SubscribeStart, SubscribeAlertType, AlertType, UrlInput,
         MarketSelection, OutcomeSelection, AlertStart, AlertSubscription, CallbackUnsubscribe,
         Move, SubscribeThreshold, AlertThreshold, Begin, QuotaFull, QuotaOk, AlreadySubscribed,
         InsertSubscription, SelectSubscription, SubscriptionGone, CountAlerts, UpdateAlert,
         AttachAlert, HandlerFails, Return, Goto
<1>3. QED
  BY <1>0, <1>1, <1>2 DEF Others

\* What the steps of a handler that matter to a row do to it.
LEMMA Inserting ==
    ASSUME TypeOK, NEW c \in Chat, InsertSubscription(c)
    PROVE  /\ At(c, "insert") /\ Rows(KeyOf(c)) = {}
           /\ born + 1 \in Id /\ rows[born + 1] = NoRow /\ alerts[born + 1] = 0
           /\ \A i \in Id : rows'[i] = IF i = born + 1 THEN KeyOf(c) ELSE rows[i]
           /\ At(c, "select")' /\ KeyOf(c)' = KeyOf(c)
           /\ UNCHANGED <<alerts, dialogue, paid, halfMade>>
<1>1. /\ At(c, "insert") /\ Rows(KeyOf(c)) = {} /\ born < MaxId
      /\ job' = [job EXCEPT ![c].pc = "select"] /\ rows' = [rows EXCEPT ![born + 1] = KeyOf(c)]
      /\ UNCHANGED <<alerts, dialogue, paid, halfMade>>
  BY DEF InsertSubscription, Goto, historyVars
<1>2. job[c] \in Job /\ job[c] # NoJob
  BY <1>1, TalkOf DEF At
<1>3. job'[c] = [job[c] EXCEPT !.pc = "select"]
  BY <1>1 DEF TypeOK, TalksOK
<1>4. job'[c].pc = "select" /\ job'[c].user = job[c].user /\ job'[c] \in Job
  BY <1>2, <1>3 DEF Job
<1>5. job'[c] # NoJob
  BY <1>4, DialogueAssumption
<1>6. born \in Nat /\ born + 1 \in Id /\ born + 1 > born
  BY <1>1, DialogueAssumption DEF TypeOK, TablesOK, Id
<1>7. rows[born + 1] = NoRow /\ alerts[born + 1] = 0
  BY <1>6 DEF TypeOK, TablesOK
<1>8. \A i \in Id : rows'[i] = IF i = born + 1 THEN KeyOf(c) ELSE rows[i]
  BY <1>1, <1>6 DEF TypeOK, TablesOK
<1>9. QED
  BY <1>1, <1>4, <1>5, <1>6, <1>7, <1>8 DEF At, KeyOf

LEMMA Selecting ==
    ASSUME TypeOK, NEW c \in Chat, NEW k \in Id, SelectSubscription(c, k)
    PROVE  /\ At(c, "select") /\ rows[k] = KeyOf(c) /\ dialogue[c].state = "subThreshold"
           /\ At(c, "attach")' /\ job'[c].sub = k /\ job'[c].tier = job[c].tier
           /\ UNCHANGED <<rows, alerts, dialogue, paid, halfMade>>
<1>1. /\ At(c, "select") /\ rows[k] = KeyOf(c)
      /\ job' = [job EXCEPT ![c].pc = "attach", ![c].sub = k]
      /\ UNCHANGED <<rows, alerts, dialogue, paid, halfMade>>
  BY DEF SelectSubscription, Rows, tableVars, historyVars
<1>2. /\ job[c] \in Job /\ job[c] # NoJob /\ dialogue[c].state = "subThreshold"
  BY <1>1, TalkOf DEF At, HandlerHolds
<1>3. job'[c] = [job[c] EXCEPT !.pc = "attach", !.sub = k]
  BY <1>1 DEF TypeOK, TalksOK
<1>4. /\ job'[c].pc = "attach" /\ job'[c].sub = k /\ job'[c].tier = job[c].tier
      /\ job'[c] \in Job
  <2>1. k \in 0..MaxId
    BY DialogueAssumption DEF Id
  <2>2. PICK j : j = job[c]
    OBVIOUS
  <2>3. job'[c] = [pc |-> "attach", user |-> j.user, tier |-> j.tier, limit |-> j.limit,
                   sub |-> k]
    BY <1>2, <1>3, <2>2 DEF Job
  <2>4. QED
    BY <1>2, <2>1, <2>2, <2>3 DEF Job
<1>5. job'[c] # NoJob
  BY <1>4, DialogueAssumption
<1>6. QED
  BY <1>1, <1>2, <1>4, <1>5 DEF At

LEMMA Attaching ==
    ASSUME TypeOK, NEW c \in Chat, AttachAlert(c), NEW i \in Id
    PROVE  /\ At(c, "attach") /\ job'[c] = NoJob
           /\ i = job[c].sub /\ rows[i] # NoRow =>
                 /\ alerts'[i] = alerts[i] + 1
                 /\ job[c].tier # "free" => i \in paid'
           /\ i # job[c].sub => alerts'[i] = alerts[i]
           /\ rows' = rows /\ halfMade' = halfMade /\ paid \subseteq paid'
           /\ rows[i] = NoRow => rows'[i] = NoRow
<1>1. /\ At(c, "attach") /\ job' = [job EXCEPT ![c] = NoJob]
      /\ UNCHANGED <<rows, halfMade>>
  BY DEF AttachAlert, Return
<1>2. \/ rows[job[c].sub] = NoRow /\ UNCHANGED <<alerts, paid>>
      \/ /\ alerts' = [alerts EXCEPT ![job[c].sub] = @ + 1]
         /\ paid' = IF job[c].tier = "free" THEN paid ELSE paid \cup {job[c].sub}
  BY DEF AttachAlert
<1>3. alerts \in [Id -> 0..MaxAlerts] /\ job'[c] = NoJob
  BY <1>1 DEF TypeOK, TablesOK, TalksOK
<1>4. QED
  BY <1>1, <1>2, <1>3

\* A row that stays is on its way to its first alert with the same handlers.
LEMMA OthersStillMake ==
    ASSUME NEW c \in Chat, Others(c), NEW i \in Id, rows'[i] = rows[i],
           NEW e \in Chat \ {c}
    PROVE  (i \in Making(e) <=> i \in Making(e)')
<1>1. KeyOf(e)' = KeyOf(e) /\ job'[e] = job[e] /\ dialogue'[e] = dialogue[e]
  BY DEF Others, KeyOf
<1>2. QED
  BY <1>1 DEF Making, At

-----------------------------------------------------------------------------
(***************************************************************************)
(* A subscription without an alert has one under way.  No two rows have    *)
(* the same key, so the SELECT after the insert finds the row it made.     *)
(***************************************************************************)
OneRow == \A i, j \in Id : rows[i] # NoRow /\ rows[i] = rows[j] => i = j

HasOne(i) == rows[i] # NoRow /\ alerts[i] = 0 =>
                i \in halfMade \/ \E c \in Chat : i \in Making(c)

\* What a step of chat c must see to for row i.
LEMMA StillHasOne ==
    ASSUME NEW c \in Chat, Others(c), NEW i \in Id, HasOne(i),
           rows'[i] = rows[i], alerts'[i] = alerts[i], i \in halfMade => i \in halfMade',
           i \in Making(c) => i \in Making(c)' \/ i \in halfMade'
    PROVE  HasOne(i)'
<1>1. \A e \in Chat \ {c} : i \in Making(e) => i \in Making(e)'
  BY OthersStillMake
<1>2. QED
  BY <1>1 DEF HasOne

LEMMA DialogueKeepsAlert ==
    ASSUME TypeOK, NEW c \in Chat, Dialogue(c), NEW i \in Id, HasOne(i)
    PROVE  HasOne(i)'
<1>1. job[c] = NoJob /\ Others(c)
  BY OneChatAtATime
     DEF Dialogue, SubscribeStart, SubscribeAlertType, AlertType, UrlInput, MarketSelection,
         OutcomeSelection, AlertStart, AlertSubscription, CallbackUnsubscribe, Move
<1>2. i \notin Making(c)
  BY <1>1 DEF Making, At
<1>3. ASSUME NEW k \in Id, CallbackUnsubscribe(c, k)
      PROVE  HasOne(i)'
  <2>1. /\ rows' = [rows EXCEPT ![k] = NoRow] /\ alerts' = [alerts EXCEPT ![k] = 0]
        /\ halfMade' = halfMade \ {k}
    BY <1>3 DEF CallbackUnsubscribe
  <2>2. CASE i = k
    BY <2>1, <2>2 DEF HasOne, TypeOK, TablesOK
  <2>3. CASE i # k
    BY <1>1, <1>2, <2>1, <2>3, StillHasOne DEF TypeOK, TablesOK
  <2>4. QED
    BY <2>2, <2>3
<1>4. CASE \A k \in Id : ~CallbackUnsubscribe(c, k)
  <2>1. UNCHANGED <<rows, alerts, halfMade>>
    BY <1>4 DEF Dialogue, SubscribeStart, SubscribeAlertType, AlertType, UrlInput,
       MarketSelection, OutcomeSelection, AlertStart, AlertSubscription, Move, tableVars,
       historyVars
  <2>2. QED
    BY <1>1, <1>2, <2>1, StillHasOne
<1>5. QED
  BY <1>3, <1>4

LEMMA HandlerKeepsAlert ==
    ASSUME TypeOK, OneRow, NEW c \in Chat, Handler(c), NEW i \in Id, HasOne(i)
    PROVE  HasOne(i)'
<1>0. Others(c)
  BY OneChatAtATime
<1>1. CASE InsertSubscription(c)
  <2>1. CASE i = born + 1
    BY <1>1, <2>1, Inserting DEF HasOne, Making
  <2>2. CASE i # born + 1
    <3>1. i \notin Making(c)
      BY <1>1, Inserting DEF Making, At
    <3>2. QED
      BY <1>0, <1>1, <2>2, <3>1, Inserting, StillHasOne
  <2>3. QED
    BY <2>1, <2>2
<1>2. ASSUME NEW k \in Id, SelectSubscription(c, k)
      PROVE  HasOne(i)'
  <2>1. i \in Making(c) => rows[i] # NoRow /\ rows[i] = rows[k]
    BY <1>2, Selecting DEF Making, At
  <2>2. i \in Making(c) => i = k
    BY <2>1 DEF OneRow
  <2>3. i \in Making(c) => i \in Making(c)'
    BY <1>2, <2>1, <2>2, Selecting DEF Making
  <2>4. QED
    BY <1>0, <1>2, <2>3, Selecting, StillHasOne
<1>3. CASE AttachAlert(c)
  <2>1. CASE i = job[c].sub /\ rows[i] # NoRow
    <3>1. alerts[i] \in Nat
      BY DEF TypeOK, TablesOK
    <3>2. QED
      BY <1>3, <2>1, <3>1, Attaching DEF HasOne
  <2>2. CASE i # job[c].sub
    <3>1. i \notin Making(c)
      BY <1>3, <2>2, Attaching DEF Making, At
    <3>2. QED
      BY <1>0, <1>3, <2>2, <3>1, Attaching, StillHasOne
  <2>3. CASE rows[i] = NoRow
    BY <1>3, <2>3, Attaching DEF HasOne
  <2>4. QED
    BY <2>1, <2>2, <2>3
<1>4. CASE HandlerFails(c)
  <2>1. halfMade' = halfMade \cup Making(c) /\ UNCHANGED <<rows, alerts>>
    BY <1>4 DEF HandlerFails, tableVars
  <2>2. QED
    BY <1>0, <2>1, StillHasOne
<1>5. CASE \/ \E u \in User : SubscribeThreshold(c, u) \/ AlertThreshold(c, u)
           \/ QuotaFull(c) \/ QuotaOk(c) \/ AlreadySubscribed(c) \/ SubscriptionGone(c)
           \/ CountAlerts(c) \/ UpdateAlert(c)
  <2>1. UNCHANGED <<rows, alerts, halfMade>>
    BY <1>5 DEF SubscribeThreshold, AlertThreshold, Begin, QuotaFull, QuotaOk,
       AlreadySubscribed, SubscriptionGone, CountAlerts, UpdateAlert, tableVars, historyVars
  <2>2. i \notin Making(c)
    BY <1>5 DEF SubscribeThreshold, AlertThreshold, Begin, QuotaFull, QuotaOk,
       AlreadySubscribed, SubscriptionGone, CountAlerts, UpdateAlert, Making, At, Rows
  <2>3. QED
    BY <1>0, <2>1, <2>2, StillHasOne
<1>6. QED
  BY <1>1, <1>2, <1>3, <1>4, <1>5 DEF Handler

\* Only an insert makes a row, with a key no row has.
LEMMA RowsStayApart ==
    ASSUME TypeOK, OneRow, [Next]_vars
    PROVE  OneRow'
<1>1. ASSUME \A i \in Id : rows'[i] \in {rows[i], NoRow}
      PROVE  OneRow'
  BY <1>1 DEF OneRow
<1>2. ASSUME NEW c \in Chat, InsertSubscription(c)
      PROVE  OneRow'
  <2>1. /\ \A i \in Id : rows'[i] = IF i = born + 1 THEN KeyOf(c) ELSE rows[i]
        /\ \A i \in Id : rows[i] # KeyOf(c)
    BY <1>2, Inserting DEF Rows
  <2>2. QED
    BY <2>1 DEF OneRow
<1>3. ASSUME NEW c \in Chat, NEW k \in Id, CallbackUnsubscribe(c, k)
      PROVE  OneRow'
  <2>1. rows' = [rows EXCEPT ![k] = NoRow]
    BY <1>3 DEF CallbackUnsubscribe
  <2>2. QED
    BY <1>1, <2>1 DEF TypeOK, TablesOK
<1>4. CASE /\ \A c \in Chat : ~InsertSubscription(c) /\ \A k \in Id : ~CallbackUnsubscribe(c, k)
  <2>1. rows' = rows
    BY <1>4 DEF Next, Dialogue, Handler, SubscribeStart, SubscribeAlertType, AlertType,
       UrlInput, MarketSelection, OutcomeSelection, AlertStart, AlertSubscription, Move,
       SubscribeThreshold, AlertThreshold, Begin, QuotaFull, QuotaOk, AlreadySubscribed,
       SelectSubscription, SubscriptionGone, CountAlerts, UpdateAlert, AttachAlert,
       HandlerFails, Restart, Admin, UpdateTier, UpdateLimit, vars, tableVars
  <2>2. QED
    BY <1>1, <2>1
<1>5. QED
  BY <1>2, <1>3, <1>4

\* Whatever is unsubscribed, inserted again and retyped between the insert, the
\* SELECT and the INSERT of the alert (dialogues.rs), a subscription without an
\* alert has one under way or a handler that broke off.
THEOREM AlertOnItsWay == Spec => []SubscriptionHasAlert
<1>1. Init => OneRow /\ SubscriptionHasAlert
  BY DEF Init, OneRow, SubscriptionHasAlert
<1>2. TypeOK /\ OneRow /\ SubscriptionHasAlert /\ [Next]_vars
        => OneRow' /\ SubscriptionHasAlert'
  <2> SUFFICES ASSUME TypeOK, OneRow, SubscriptionHasAlert, [Next]_vars
               PROVE  OneRow' /\ SubscriptionHasAlert'
    OBVIOUS
  <2>1. ASSUME NEW i \in Id
        PROVE  HasOne(i)'
    <3>0. HasOne(i)
      BY DEF SubscriptionHasAlert, HasOne
    <3>1. ASSUME NEW c \in Chat, Dialogue(c) \/ Handler(c)
          PROVE  HasOne(i)'
      BY <3>0, <3>1, DialogueKeepsAlert, HandlerKeepsAlert
    <3>2. CASE Restart
      <4>1. /\ halfMade' = halfMade \cup UNION {Making(c) : c \in Chat}
            /\ UNCHANGED <<rows, alerts>>
        BY <3>2 DEF Restart, tableVars
      <4>2. QED
        BY <3>0, <4>1 DEF HasOne
    <3>3. CASE Admin \/ UNCHANGED vars
      <4>1. UNCHANGED <<rows, alerts, dialogue, job, halfMade>>
        BY <3>3 DEF Admin, UpdateTier, UpdateLimit, vars, tableVars, historyVars
      <4>2. \A c \in Chat : Making(c)' = Making(c)
        BY <4>1 DEF Making, At, KeyOf
      <4>3. QED
        BY <3>0, <4>1, <4>2 DEF HasOne
    <3>4. QED
      BY <3>1, <3>2, <3>3 DEF Next
  <2>2. OneRow'
    BY RowsStayApart
  <2>3. QED
    BY <2>1, <2>2 DEF SubscriptionHasAlert, HasOne
<1>3. QED
  BY <1>1, <1>2, TypeCorrect, PTL DEF Spec

-----------------------------------------------------------------------------
(***************************************************************************)
(* The alerts of a free user's subscription.  Whoever is about to give it  *)
(* one does so in a chat its owner writes in: /alert lists the sender's    *)
(* subscriptions in the chat he sends it in, and ids are not given twice.  *)
(***************************************************************************)
\* The subscriptions the dialogue or the handler of chat c has picked.
InHands(c) == {i \in Id :
    \/ dialogue[c].state \in {"alertType", "alertThreshold"} /\ dialogue[c].sub = i
    \/ job[c] # NoJob /\ job[c].pc \in {"count", "update", "attach"} /\ job[c].sub = i}

OwnersChat == \A c \in Chat : \A i \in InHands(c) :
                 rows[i] # NoRow => rows[i].user \in Member[c]

LEMMA HandsWereThere == ASSUME TypeOK, NEW c \in Chat, NEW i \in InHands(c) PROVE i \in 1..born
BY TalkOf DEF InHands, DialogueHolds, HandlerHolds

\* What is picked now was picked before, or is the owner's to pick.
LEMMA OwnersStay ==
    ASSUME TypeOK, OwnersChat, \A i \in 1..born : rows'[i] \in {rows[i], NoRow},
           \A c \in Chat : \A i \in InHands(c)' :
              \/ i \in InHands(c)
              \/ i \in 1..born /\ (rows[i] # NoRow => rows[i].user \in Member[c])
    PROVE  OwnersChat'
<1> SUFFICES ASSUME NEW c \in Chat, NEW i \in InHands(c)', rows'[i] # NoRow
             PROVE  rows'[i].user \in Member[c]
  BY DEF OwnersChat
<1>1. i \in 1..born /\ (rows[i] # NoRow => rows[i].user \in Member[c])
  BY HandsWereThere DEF OwnersChat
<1>2. QED
  BY <1>1

\* A step of a chat, for OwnersChat.
LEMMA ChatKeepsOwners ==
    ASSUME TypeOK, OwnersChat, NEW c \in Chat, Dialogue(c) \/ Handler(c)
    PROVE  OwnersChat'
<1>0. /\ dialogue \in [Chat -> DialogueState] /\ job \in [Chat -> Job \cup {NoJob}]
      /\ rows \in [Id -> Key \cup {NoRow}] /\ born \in Nat
      /\ \A i \in Id : i \in 1..born <=> i <= born
      /\ \A e \in Chat \ {c} : InHands(e)' = InHands(e)
  <2>1. Others(c)
    BY OneChatAtATime
  <2>2. QED
    BY <2>1, DialogueAssumption DEF TypeOK, TalksOK, TablesOK, Id, Others, InHands
<1>1. ASSUME \A i \in 1..born : rows'[i] \in {rows[i], NoRow},
             \A i \in InHands(c)' :
                \/ i \in InHands(c)
                \/ i \in 1..born /\ (rows[i] # NoRow => rows[i].user \in Member[c])
      PROVE  OwnersChat'
  BY <1>0, <1>1, OwnersStay
<1>2. ASSUME NEW from, NEW d, Move(c, from, d),
             \/ d.state \notin {"alertType", "alertThreshold"}
             \/ /\ dialogue[c].state \in {"alertType", "alertThreshold"}
                /\ d.sub = dialogue[c].sub
             \/ d.sub \in 1..born
                /\ (rows[d.sub] # NoRow => rows[d.sub].user \in Member[c])
      PROVE  OwnersChat'
  <2>1. dialogue'[c] = d /\ rows' = rows /\ job' = job
    BY <1>0, <1>2 DEF Move, tableVars
  <2>2. QED
    BY <1>1, <1>2, <2>1 DEF InHands
<1>3. Idle.state \notin {"alertType", "alertThreshold"}
  BY DEF Idle, Talk
<1>4. CASE Dialogue(c)
  <2>1. CASE \/ SubscribeStart(c) \/ SubscribeAlertType(c)
             \/ \E offer \in Offer : UrlInput(c, offer)
             \/ \E i \in 1..(Len(dialogue[c].offer) + 1) : MarketSelection(c, i)
             \/ \E i \in Index : OutcomeSelection(c, i)
             \/ \E u \in User : AlertStart(c, u)
    <3>1. PICK from, d : Move(c, from, d) /\ d.state \notin {"alertType", "alertThreshold"}
      <4>1. [dialogue[c] EXCEPT !.state = "subThreshold"].state = "subThreshold"
        BY <1>0 DEF DialogueState
      <4>2. CASE SubscribeStart(c)
        BY <4>2 DEF SubscribeStart, Talk
      <4>3. CASE SubscribeAlertType(c)
        BY <4>1, <4>3 DEF SubscribeAlertType
      <4>4. CASE \E offer \in Offer : UrlInput(c, offer)
        BY <4>4 DEF UrlInput, Talk
      <4>5. CASE \E i \in 1..(Len(dialogue[c].offer) + 1) : MarketSelection(c, i)
        BY <4>5 DEF MarketSelection, Talk, Idle
      <4>6. CASE \E i \in Index : OutcomeSelection(c, i)
        BY <4>6 DEF OutcomeSelection, Talk
      <4>7. CASE \E u \in User : AlertStart(c, u)
        BY <4>7 DEF AlertStart, Talk
      <4>8. QED
        BY <2>1, <4>2, <4>3, <4>4, <4>5, <4>6, <4>7
    <3>2. QED
      BY <1>2, <3>1
  <2>2. CASE AlertType(c)
    <3>1. PICK d : d = [dialogue[c] EXCEPT !.state = "alertThreshold"]
      OBVIOUS
    <3>2. Move(c, {"alertType"}, d) /\ dialogue[c].state = "alertType" /\ d.sub = dialogue[c].sub
      BY <1>0, <2>2, <3>1 DEF AlertType, Move, DialogueState
    <3>3. QED
      BY <1>2, <3>2
  <2>3. ASSUME NEW i \in Id, AlertSubscription(c, i)
        PROVE  OwnersChat'
    <3>1. CASE rows[i] = NoRow
      BY <1>2, <1>3, <2>3, <3>1 DEF AlertSubscription
    <3>2. CASE rows[i] # NoRow
      <4>1. PICK d : d = Talk("alertType", << >>, rows[i].market, 0, i)
        OBVIOUS
      <4>2. Move(c, {"alertSub"}, d) /\ d.sub = i /\ i \in 1..born /\ rows[i].user \in Member[c]
        BY <1>0, <2>3, <3>2, <4>1 DEF AlertSubscription, Talk
      <4>3. QED
        BY <1>2, <4>2
    <3>3. QED
      BY <3>1, <3>2
  <2>4. ASSUME NEW i \in Id, CallbackUnsubscribe(c, i)
        PROVE  OwnersChat'
    <3>1. rows' = [rows EXCEPT ![i] = NoRow] /\ dialogue' = dialogue /\ job' = job
      BY <2>4 DEF CallbackUnsubscribe
    <3>2. \A k \in 1..born : rows'[k] \in {rows[k], NoRow}
      BY <1>0, <3>1 DEF TypeOK, TablesOK
    <3>3. QED
      BY <1>1, <3>1, <3>2 DEF InHands
  <2>5. QED
    BY <1>4, <2>1, <2>2, <2>3, <2>4 DEF Dialogue
<1>5. CASE Handler(c)
  <2>1. CASE InsertSubscription(c)
    <3>1. /\ \A k \in 1..born : rows'[k] = rows[k]
          /\ dialogue' = dialogue /\ job'[c].pc = "select"
      <4>1. 1..born \subseteq Id /\ born + 1 \notin 1..born
        BY <1>0, DialogueAssumption DEF TypeOK, TablesOK, Id
      <4>2. QED
        BY <2>1, <4>1, Inserting DEF At
    <3>2. QED
      BY <1>1, <3>1 DEF InHands
  <2>2. ASSUME NEW k \in Id, SelectSubscription(c, k)
        PROVE  OwnersChat'
    <3>0. /\ At(c, "select") /\ rows[k] = KeyOf(c) /\ dialogue[c].state = "subThreshold"
          /\ job'[c].sub = k /\ rows' = rows /\ dialogue' = dialogue
      BY <2>2, Selecting
    <3>1. job[c] # NoJob /\ rows[k].user = job[c].user /\ k \in 1..born
      <4>1. job[c] # NoJob /\ job[c] \in Job /\ DialogueHolds(dialogue[c])
        BY <3>0, TalkOf DEF At
      <4>2. job[c].user \in User
        BY <4>1 DEF Job
      <4>3. dialogue[c].market \in Market /\ dialogue[c].outcome \in Index
        BY <3>0, <4>1 DEF DialogueHolds
      <4>4. rows[k] \in Key /\ rows[k].user = job[c].user
        BY <3>0, <4>2, <4>3 DEF KeyOf, Key
      <4>5. rows[k] # NoRow
        BY <4>4, DialogueAssumption DEF Key
      <4>6. k \in 1..born
        BY <1>0, <4>5 DEF TypeOK, TablesOK, Id
      <4>7. QED
        BY <4>1, <4>4, <4>6
    <3>2. rows[k].user \in Member[c]
      BY <3>1, TalkOf DEF HandlerHolds
    <3>3. QED
      BY <1>1, <3>0, <3>1, <3>2 DEF InHands
  <2>3. ASSUME NEW u \in User, AlertThreshold(c, u)
        PROVE  OwnersChat'
    <3>1. /\ rows' = rows /\ dialogue' = dialogue /\ dialogue[c].state = "alertThreshold"
          /\ job'[c].sub = dialogue[c].sub
      BY <1>0, <2>3 DEF AlertThreshold, Begin, tableVars
    <3>2. QED
      BY <1>1, <3>1 DEF InHands
  <2>4. CASE CountAlerts(c)
    <3>1. PICK p : Goto(c, p) /\ rows' = rows /\ dialogue' = dialogue /\ At(c, "count")
      BY <2>4 DEF CountAlerts, tableVars
    <3>2. job'[c].sub = job[c].sub
      BY <1>0, <3>1, TalkOf DEF Goto, At, Job
    <3>3. QED
      BY <1>1, <3>1, <3>2 DEF InHands, At
  <2>5. CASE QuotaOk(c) \/ \E u \in User : SubscribeThreshold(c, u)
    <3>1. /\ rows' = rows /\ dialogue' = dialogue /\ job'[c].pc \in {"insert", "quota"}
      <4>1. CASE QuotaOk(c)
        BY <1>0, <4>1, TalkOf DEF QuotaOk, Goto, At, Job, tableVars
      <4>2. CASE \E u \in User : SubscribeThreshold(c, u)
        BY <1>0, <4>2 DEF SubscribeThreshold, Begin, tableVars
      <4>3. QED
        BY <2>5, <4>1, <4>2
    <3>2. QED
      BY <1>1, <3>1 DEF InHands
  <2>6. CASE \/ QuotaFull(c) \/ AlreadySubscribed(c) \/ SubscriptionGone(c)
             \/ UpdateAlert(c) \/ AttachAlert(c) \/ HandlerFails(c)
    <3>1. rows' = rows /\ Return(c)
      BY <2>6 DEF QuotaFull, AlreadySubscribed, SubscriptionGone, UpdateAlert, AttachAlert,
         HandlerFails, tableVars
    <3>2. /\ job'[c] = NoJob
          /\ dialogue'[c].state \notin {"alertType", "alertThreshold"} \/ dialogue' = dialogue
      BY <1>0, <1>3, <3>1 DEF Return
    <3>3. QED
      BY <1>1, <3>1, <3>2 DEF InHands
  <2>7. QED
    BY <1>5, <2>1, <2>2, <2>3, <2>4, <2>5, <2>6 DEF Handler
<1>6. QED
  BY <1>4, <1>5

LEMMA StepKeepsOwners == TypeOK /\ OwnersChat /\ [Next]_vars => OwnersChat'
<1> SUFFICES ASSUME TypeOK, OwnersChat, [Next]_vars PROVE OwnersChat'
  OBVIOUS
<1>1. CASE \E c \in Chat : Dialogue(c) \/ Handler(c)
  BY <1>1, ChatKeepsOwners
<1>2. CASE Restart
  <2>1. \A c \in Chat : InHands(c)' = {}
    BY <1>2 DEF Restart, InHands, Idle, Talk
  <2>2. QED
    BY <2>1 DEF OwnersChat
<1>3. CASE Admin \/ UNCHANGED vars
  <2>1. rows' = rows /\ dialogue' = dialogue /\ job' = job
    BY <1>3 DEF Admin, UpdateTier, UpdateLimit, vars, tableVars
  <2>2. QED
    BY <2>1 DEF OwnersChat, InHands
<1>4. QED
  BY <1>1, <1>2, <1>3 DEF Next

-----------------------------------------------------------------------------
(***************************************************************************)
(* A handler counts towards the alerts of a subscription once it has found *)
(* no alert, so it counts before the alert does.                           *)
(***************************************************************************)
Bounded(i) == rows[i] # NoRow /\ i \notin paid =>
                 alerts[i] + Cardinality(FreeAttaching(i)) <= Cardinality(ChatsOf(rows[i].user))

LEMMA FreeCounting ==
    ASSUME TypeOK, OwnersChat, NEW i \in Id
    PROVE  /\ IsFiniteSet(FreeAttaching(i)) /\ Cardinality(FreeAttaching(i)) \in Nat
           /\ rows[i] # NoRow =>
                 /\ Cardinality(FreeAttaching(i)) <= Cardinality(ChatsOf(rows[i].user))
                 /\ Cardinality(ChatsOf(rows[i].user)) \in Nat
<1>1. FreeAttaching(i) \in SUBSET Chat
  BY DEF FreeAttaching
<1>2. IsFiniteSet(FreeAttaching(i)) /\ Cardinality(FreeAttaching(i)) \in Nat
  BY <1>1, DialogueAssumption, FS_Subset, FS_CardinalityType
<1>3. ASSUME rows[i] # NoRow
      PROVE  FreeAttaching(i) \in SUBSET ChatsOf(rows[i].user)
  <2>1. ASSUME NEW c \in FreeAttaching(i) PROVE rows[i].user \in Member[c]
    <3>0. c \in Chat /\ job[c] # NoJob
      BY DEF FreeAttaching
    <3>1. CASE At(c, "attach") /\ job[c].sub = i
      BY <1>3, <3>0, <3>1 DEF OwnersChat, InHands, At
    <3>2. CASE At(c, "select") /\ i \in Rows(KeyOf(c))
      BY <3>0, <3>2, TalkOf DEF Rows, KeyOf, HandlerHolds
    <3>3. QED
      BY <3>1, <3>2 DEF FreeAttaching
  <2>2. QED
    BY <2>1 DEF FreeAttaching, ChatsOf
<1>4. ASSUME rows[i] # NoRow
      PROVE  IsFiniteSet(ChatsOf(rows[i].user)) /\ Cardinality(ChatsOf(rows[i].user)) \in Nat
  <2>1. ChatsOf(rows[i].user) \in SUBSET Chat
    BY DEF ChatsOf
  <2>2. QED
    BY <2>1, DialogueAssumption, FS_Subset, FS_CardinalityType
<1>5. QED
  BY <1>2, <1>3, <1>4, FS_Subset

\* The same, as a formula that can be primed.
FreeCounted == \A i \in Id :
    /\ Cardinality(FreeAttaching(i)) \in Nat
    /\ rows[i] # NoRow => Cardinality(FreeAttaching(i)) <= Cardinality(ChatsOf(rows[i].user))

LEMMA FreeCountedNow == TypeOK /\ OwnersChat => FreeCounted
BY FreeCounting DEF FreeCounted

LEMMA FreeCountingAfter == TypeOK' /\ OwnersChat' => FreeCounted'
BY FreeCountedNow, PTL

\* What holds before and after every step.
Owned == TypeOK /\ OwnersChat /\ TypeOK' /\ OwnersChat'

\* No alert, no excess: one handler per chat.
LEMMA FirstAlertBounded ==
    ASSUME Owned, NEW i \in Id, alerts'[i] = 0
    PROVE  Bounded(i)'
BY FreeCountingAfter DEF Bounded, FreeCounted, Owned

LEMMA NoMoreFree ==
    ASSUME Owned, NEW i \in Id, Bounded(i), rows'[i] = rows[i], alerts'[i] = alerts[i],
           i \in paid => i \in paid', FreeAttaching(i)' \subseteq FreeAttaching(i)
    PROVE  Bounded(i)'
<1>1. FreeAttaching(i)' \in SUBSET FreeAttaching(i)
  OBVIOUS
<1>2. Cardinality(FreeAttaching(i)') <= Cardinality(FreeAttaching(i))
  BY <1>1, FreeCounting, FS_Subset DEF Owned
<1>3. alerts[i] \in Nat
  BY DEF Owned, TypeOK, TablesOK
<1>4. ChatsOf(rows[i].user)' = ChatsOf(rows[i].user)
  BY DEF ChatsOf
<1>5. QED
  BY <1>2, <1>3, <1>4, FreeCounting, FreeCountingAfter DEF Bounded, FreeCounted, Owned

\* The handlers of the other chats stay where they are.
LEMMA OthersStillAttach ==
    ASSUME NEW c \in Chat, Others(c), NEW i \in Id, rows'[i] = rows[i]
    PROVE  FreeAttaching(i)' \ {c} = FreeAttaching(i) \ {c}
<1>1. ASSUME NEW e \in Chat \ {c}
      PROVE  e \in FreeAttaching(i)' <=> e \in FreeAttaching(i)
  <2>1. KeyOf(e)' = KeyOf(e) /\ job'[e] = job[e]
    BY DEF Others, KeyOf
  <2>2. QED
    BY <2>1 DEF FreeAttaching, At, Rows
<1>2. FreeAttaching(i) \subseteq Chat /\ FreeAttaching(i)' \subseteq Chat
  BY DEF FreeAttaching
<1>3. QED
  BY <1>1, <1>2

LEMMA DialogueKeepsBounded ==
    ASSUME Owned, NEW c \in Chat, Dialogue(c), NEW i \in Id, Bounded(i)
    PROVE  Bounded(i)'
<1> USE DEF Owned
<1>1. job[c] = NoJob /\ job' = job /\ Others(c)
  BY OneChatAtATime
     DEF Dialogue, SubscribeStart, SubscribeAlertType, AlertType, UrlInput, MarketSelection,
         OutcomeSelection, AlertStart, AlertSubscription, CallbackUnsubscribe, Move
<1>2. c \notin FreeAttaching(i)'
  BY <1>1 DEF FreeAttaching
<1>3. ASSUME NEW k \in Id, CallbackUnsubscribe(c, k)
      PROVE  Bounded(i)'
  <2>1. /\ rows' = [rows EXCEPT ![k] = NoRow] /\ alerts' = [alerts EXCEPT ![k] = 0]
        /\ paid' = paid \ {k}
    BY <1>3 DEF CallbackUnsubscribe
  <2>2. CASE i = k
    BY <2>1, <2>2, FirstAlertBounded DEF TypeOK, TablesOK
  <2>3. CASE i # k
    <3>1. rows'[i] = rows[i] /\ alerts'[i] = alerts[i] /\ (i \in paid => i \in paid')
      BY <2>1, <2>3 DEF TypeOK, TablesOK
    <3>2. FreeAttaching(i)' \subseteq FreeAttaching(i)
      BY <1>1, <1>2, <3>1, OthersStillAttach
    <3>3. QED
      BY <3>1, <3>2, NoMoreFree
  <2>4. QED
    BY <2>2, <2>3
<1>4. CASE \A k \in Id : ~CallbackUnsubscribe(c, k)
  <2>1. UNCHANGED <<rows, alerts, paid>>
    BY <1>4 DEF Dialogue, SubscribeStart, SubscribeAlertType, AlertType, UrlInput,
       MarketSelection, OutcomeSelection, AlertStart, AlertSubscription, Move, tableVars,
       historyVars
  <2>2. FreeAttaching(i)' \subseteq FreeAttaching(i)
    BY <1>1, <1>2, <2>1, OthersStillAttach
  <2>3. QED
    BY <2>1, <2>2, NoMoreFree
<1>5. QED
  BY <1>3, <1>4

\* The count lets a free user's handler go on to a new alert only without one.
LEMMA CountKeepsBounded ==
    ASSUME Owned, NEW c \in Chat, CountAlerts(c), NEW i \in Id, Bounded(i)
    PROVE  Bounded(i)'
<1> USE DEF Owned
<1>1. /\ At(c, "count") /\ UNCHANGED <<rows, alerts, paid>>
      /\ job' = [job EXCEPT ![c].pc = IF job[c].tier = "free" /\ alerts[job[c].sub] > 0
                                      THEN "update" ELSE "attach"]
  BY DEF CountAlerts, Goto, tableVars, historyVars
<1>2. job[c] \in Job
  BY <1>1, TalkOf DEF At
<1>3. /\ job'[c].tier = job[c].tier /\ job'[c].sub = job[c].sub
      /\ job'[c].pc = IF job[c].tier = "free" /\ alerts[job[c].sub] > 0
                      THEN "update" ELSE "attach"
  BY <1>1, <1>2 DEF TypeOK, TalksOK, Job
<1>4. CASE c \in FreeAttaching(i)'
  <2>1. job[c].tier = "free" /\ job[c].sub = i /\ ~(alerts[i] > 0)
    BY <1>3, <1>4 DEF FreeAttaching, At
  <2>2. alerts[i] \in Nat
    BY DEF TypeOK, TablesOK
  <2>3. alerts'[i] = 0
    BY <1>1, <2>1, <2>2
  <2>4. QED
    BY <2>3, FirstAlertBounded
<1>5. CASE c \notin FreeAttaching(i)'
  <2>1. Others(c)
    BY OneChatAtATime DEF Handler
  <2>2. FreeAttaching(i)' \subseteq FreeAttaching(i)
    BY <1>1, <1>5, <2>1, OthersStillAttach
  <2>3. QED
    BY <1>1, <2>2, NoMoreFree
<1>6. QED
  BY <1>4, <1>5

LEMMA AttachKeepsBounded ==
    ASSUME Owned, NEW c \in Chat, AttachAlert(c), NEW i \in Id, Bounded(i)
    PROVE  Bounded(i)'
<1> USE DEF Owned
<1>1. Others(c) /\ rows' = rows /\ c \notin FreeAttaching(i)' /\ paid \subseteq paid'
  BY Attaching, OneChatAtATime DEF Handler, FreeAttaching
<1>2. FreeAttaching(i)' = FreeAttaching(i) \ {c}
  BY <1>1, OthersStillAttach
<1>3. CASE i = job[c].sub /\ rows[i] # NoRow
  <2>1. alerts'[i] = alerts[i] + 1 /\ alerts[i] \in Nat
    BY <1>3, Attaching DEF TypeOK, TablesOK
  <2>2. CASE job[c].tier = "free"
    <3>1. c \in FreeAttaching(i)
      BY <1>3, <2>2, Attaching DEF FreeAttaching, At
    <3>2. Cardinality(FreeAttaching(i)') = Cardinality(FreeAttaching(i)) - 1
      BY <1>2, <3>1, FreeCounting, FS_RemoveElement
    <3>3. QED
      BY <1>1, <2>1, <3>2, FreeCounting DEF Bounded
  <2>3. CASE job[c].tier # "free"
    BY <1>3, <2>3, Attaching DEF Bounded
  <2>4. QED
    BY <2>2, <2>3
<1>4. CASE i # job[c].sub
  <2>1. alerts'[i] = alerts[i]
    BY <1>4, Attaching
  <2>2. QED
    BY <1>1, <1>2, <2>1, NoMoreFree
<1>5. CASE rows[i] = NoRow
  BY <1>1, <1>5 DEF Bounded
<1>6. QED
  BY <1>3, <1>4, <1>5

LEMMA HandlerKeepsBounded ==
    ASSUME Owned, NEW c \in Chat, Handler(c), NEW i \in Id, Bounded(i)
    PROVE  Bounded(i)'
<1> USE DEF Owned
<1>0. Others(c) /\ job \in [Chat -> Job \cup {NoJob}]
  BY OneChatAtATime DEF TypeOK, TalksOK
<1>1. CASE InsertSubscription(c)
  <2>1. CASE i = born + 1
    BY <1>1, <2>1, Inserting, FirstAlertBounded
  <2>2. CASE i # born + 1
    <3>1. rows'[i] = rows[i] /\ UNCHANGED <<alerts, paid>>
      BY <1>1, <2>2, Inserting
    <3>2. rows[i] # KeyOf(c) /\ KeyOf(c)' = KeyOf(c) /\ At(c, "select")'
      BY <1>1, Inserting DEF Rows
    <3>3. c \notin FreeAttaching(i)'
      BY <3>1, <3>2 DEF FreeAttaching, At, Rows
    <3>4. FreeAttaching(i)' \subseteq FreeAttaching(i)
      BY <1>0, <3>1, <3>3, OthersStillAttach
    <3>5. QED
      BY <3>1, <3>4, NoMoreFree
  <2>3. QED
    BY <2>1, <2>2
<1>2. ASSUME NEW k \in Id, SelectSubscription(c, k)
      PROVE  Bounded(i)'
  <2>1. UNCHANGED <<rows, alerts, paid>>
    BY <1>2, Selecting
  <2>2. c \in FreeAttaching(i)' => c \in FreeAttaching(i)
    BY <1>2, Selecting DEF FreeAttaching, At, Rows
  <2>3. FreeAttaching(i)' \subseteq FreeAttaching(i)
    BY <1>0, <2>1, <2>2, OthersStillAttach
  <2>4. QED
    BY <2>1, <2>3, NoMoreFree
<1>3. CASE AttachAlert(c)
  BY <1>3, AttachKeepsBounded
<1>4. CASE CountAlerts(c)
  BY <1>4, CountKeepsBounded
<1>5. CASE \/ \E u \in User : SubscribeThreshold(c, u) \/ AlertThreshold(c, u)
           \/ QuotaFull(c) \/ QuotaOk(c) \/ AlreadySubscribed(c) \/ SubscriptionGone(c)
           \/ UpdateAlert(c) \/ HandlerFails(c)
  <2>1. UNCHANGED <<rows, alerts, paid>>
    BY <1>5 DEF SubscribeThreshold, AlertThreshold, Begin, QuotaFull, QuotaOk,
       AlreadySubscribed, SubscriptionGone, UpdateAlert, HandlerFails, tableVars, historyVars
  <2>2. job'[c] = NoJob \/ job'[c].pc \in {"quota", "count", "insert"}
    <3>1. ASSUME NEW u \in User, SubscribeThreshold(c, u) \/ AlertThreshold(c, u)
          PROVE  job'[c].pc \in {"quota", "count"}
      BY <1>0, <3>1 DEF SubscribeThreshold, AlertThreshold, Begin
    <3>2. CASE QuotaOk(c)
      <4>1. job[c] \in Job /\ job' = [job EXCEPT ![c].pc = "insert"]
        BY <3>2, TalkOf DEF QuotaOk, At, Goto
      <4>2. QED
        BY <1>0, <4>1 DEF Job
    <3>3. CASE QuotaFull(c) \/ AlreadySubscribed(c) \/ SubscriptionGone(c) \/ UpdateAlert(c)
                 \/ HandlerFails(c)
      BY <1>0, <3>3 DEF QuotaFull, AlreadySubscribed, SubscriptionGone, UpdateAlert,
                        HandlerFails, Return
    <3>4. QED
      BY <1>5, <3>1, <3>2, <3>3
  <2>3. c \notin FreeAttaching(i)'
    BY <2>2 DEF FreeAttaching, At
  <2>4. FreeAttaching(i)' \subseteq FreeAttaching(i)
    BY <1>0, <2>1, <2>3, OthersStillAttach
  <2>5. QED
    BY <2>1, <2>4, NoMoreFree
<1>6. QED
  BY <1>1, <1>2, <1>3, <1>4, <1>5 DEF Handler

\* A free user gets a second alert on one subscription only by racing himself from
\* other chats: the count and the INSERT are two statements (dialogues.rs).
THEOREM FreeAlertsAreFew == Spec => []FreeAlertsBounded
<1>1. Init => FreeAlertsBounded
  BY DEF Init, FreeAlertsBounded
<1>2. Owned /\ FreeAlertsBounded /\ [Next]_vars => FreeAlertsBounded'
  <2> SUFFICES ASSUME Owned, FreeAlertsBounded, [Next]_vars, NEW i \in Id
               PROVE  Bounded(i)'
    BY DEF FreeAlertsBounded, Bounded
  <2>0. Bounded(i)
    BY DEF FreeAlertsBounded, Bounded
  <2>1. ASSUME NEW c \in Chat, Dialogue(c) \/ Handler(c)
        PROVE  Bounded(i)'
    BY <2>0, <2>1, DialogueKeepsBounded, HandlerKeepsBounded
  <2>2. CASE Restart \/ Admin \/ UNCHANGED vars
    <3>1. /\ UNCHANGED <<rows, alerts, paid>>
          /\ UNCHANGED job \/ job' = [c \in Chat |-> NoJob]
          /\ UNCHANGED dialogue \/ job' = [c \in Chat |-> NoJob]
      BY <2>2 DEF Restart, Admin, UpdateTier, UpdateLimit, vars, tableVars, historyVars
    <3>2. FreeAttaching(i)' \subseteq FreeAttaching(i)
      BY <3>1 DEF FreeAttaching, At, Rows, KeyOf
    <3>3. QED
      BY <2>0, <3>1, <3>2, NoMoreFree
  <2>3. QED
    BY <2>1, <2>2 DEF Next
<1>3. Init => OwnersChat
  BY DEF Init, OwnersChat, InHands, Idle, Talk
<1>4. QED
  BY <1>1, <1>2, <1>3, StepKeepsOwners, TypesAtFirst, StepKeepsTypes, PTL DEF Spec, Owned

-----------------------------------------------------------------------------
\* Whoever writes from one chat only is held to his limit, whenever it was set,
\* and to one alert a subscription unless he paid: what exceeds either is always
\* a race of two chats.
WithinPlan ==
    \A u \in User : Cardinality(ChatsOf(u)) = 1 =>
        /\ Cardinality(SubsOf(u)) <= top[u]
        /\ \A i \in SubsOf(u) \ paid : alerts[i] <= 1

\* A user of one chat never exceeds his plan: the quota check and the count of
\* alerts (dialogues.rs) are exact where updates are handled in turn.
THEOREM OneChatKeepsPlan == Spec => []WithinPlan
<1>1. ASSUME TypeOK, OwnersChat, QuotaOvershoot, FreeAlertsBounded, NEW u \in User,
             Cardinality(ChatsOf(u)) = 1
      PROVE  /\ Cardinality(SubsOf(u)) <= top[u]
             /\ \A i \in SubsOf(u) \ paid : alerts[i] <= 1
  <2>1. ChatsOf(u) # {}
    BY <1>1, FS_EmptySet
  <2>2. Cardinality(SubsOf(u)) <= top[u]
    BY <1>1, <2>1, Counting DEF QuotaOvershoot
  <2>3. ASSUME NEW i \in SubsOf(u) \ paid PROVE alerts[i] <= 1
    <3>1. i \in Id /\ rows[i] # NoRow /\ rows[i].user = u
      BY DEF SubsOf
    <3>2. alerts[i] + Cardinality(FreeAttaching(i)) <= 1
      BY <1>1, <3>1 DEF FreeAlertsBounded
    <3>3. alerts[i] \in Nat /\ Cardinality(FreeAttaching(i)) \in Nat
      BY <1>1, <3>1, FreeCounting DEF TypeOK, TablesOK
    <3>4. QED
      BY <3>2, <3>3
  <2>4. QED
    BY <2>2, <2>3
<1>2. TypeOK /\ OwnersChat /\ QuotaOvershoot /\ FreeAlertsBounded => WithinPlan
  BY <1>1 DEF WithinPlan
<1>3. Init => OwnersChat
  BY DEF Init, OwnersChat, InHands, Idle, Talk
<1>4. QED
  BY <1>2, <1>3, StepKeepsOwners, TypeCorrect, OvershootBounded, FreeAlertsAreFew, PTL DEF Spec
=============================================================================
