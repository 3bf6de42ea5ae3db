------------------------- MODULE AlertEngine_proofs -------------------------
(***************************************************************************)
(* Proofs about AlertEngine for every value of its constants: any number   *)
(* of alerts, subscriptions and tokens, any channel capacities, any clock. *)
(***************************************************************************)
EXTENDS AlertEngine, SequenceTheorems, TLAPS

\* The cooldown in force is a natural number of minutes, whichever of the row
\* and the configuration it comes from (handle_price_update).
LEMMA CooldownIsNat == Cooldown \in Nat
BY EngineAssumption DEF Cooldown

-----------------------------------------------------------------------------
(***************************************************************************)
(* Type correctness, one lemma per group of actions.                       *)
(***************************************************************************)

\* What the cache replacement and load_from_alerts leave behind is well typed.
LEMMA LoadRulesType ==
    ASSUME TypeOK, LoadRules
    PROVE  /\ cache' \in [Alert -> [kind : Kind, threshold : Price] \cup {NoRule}]
           /\ dedup' \in [Alert -> Stamp]
           /\ UNCHANGED <<prev, job, todo, at>>
BY DEF TypeOK, LoadRules, Loadable, RuleOf, Row, Stamp

\* The bot's edits keep the table well typed (dialogues.rs, handlers.rs).
LEMMA BotType ==
    ASSUME TypeOK, Bot
    PROVE  TypeOK'
<1> USE EngineAssumption DEF TypeOK, Row, Stamp
<1>1. ASSUME NEW a \in Alert, NEW r \in Rule, CreateAlert(a, r)
      PROVE  TypeOK'
  BY <1>1 DEF CreateAlert, engineVars, feedVars, notifyVars
<1>2. ASSUME NEW a \in Alert, NEW r \in Rule, UpdateAlert(a, r)
      PROVE  TypeOK'
  <2>1. /\ db[a] \in [kind : Kind, threshold : Price, last : Stamp]
        /\ r.kind \in Kind /\ r.threshold \in Price
    BY <1>2 DEF UpdateAlert
  <2>2. [db[a] EXCEPT !.kind = r.kind, !.threshold = r.threshold]
           \in [kind : Kind, threshold : Price, last : Stamp]
    BY <2>1
  <2>3. /\ db' = [db EXCEPT ![a] = [db[a] EXCEPT !.kind = r.kind, !.threshold = r.threshold]]
        /\ UNCHANGED <<now, born, engineVars, feedVars, notifyVars, cancelled, fired>>
    BY <1>2 DEF UpdateAlert
  <2>4. db' \in [Alert -> Row \cup {NoRow}]
    BY <2>2, <2>3
  <2>5. QED
    BY <2>3, <2>4 DEF engineVars, feedVars, notifyVars
<1>3. ASSUME NEW s \in Sub, Unsubscribe(s)
      PROVE  TypeOK'
  BY <1>3 DEF Unsubscribe, engineVars, feedVars, notifyVars
<1>4. QED
  BY <1>1, <1>2, <1>3 DEF Bot

\* A full broadcast channel drops its oldest tick and never grows.
LEMMA PublishType ==
    ASSUME TypeOK, NEW u \in Update, Publish(u)
    PROVE  TypeOK'
<1>1. /\ feed \in Seq(Update) /\ Len(feed) \in Nat /\ Len(feed) <= FeedCap
      /\ FeedCap \in Nat \ {0}
  BY EngineAssumption, LenProperties DEF TypeOK
<1>2. feed' \in Seq(Update) /\ Len(feed') <= FeedCap
  <2>1. CASE Len(feed) < FeedCap
    <3>1. feed' = Append(feed, u)
      BY <2>1 DEF Publish
    <3>2. QED
      BY <1>1, <2>1, <3>1, AppendProperties
  <2>2. CASE ~(Len(feed) < FeedCap)
    <3>1. feed # << >> /\ feed' = Append(Tail(feed), u)
      BY <1>1, <2>2 DEF Publish
    <3>2. Tail(feed) \in Seq(Update) /\ Len(Tail(feed)) = Len(feed) - 1
      BY <1>1, <3>1, HeadTailProperties
    <3>3. QED
      BY <1>1, <3>1, <3>2, AppendProperties
  <2>3. QED
    BY <2>1, <2>2
<1>3. QED
  BY <1>2 DEF TypeOK, Publish, dbVars, engineVars, notifyVars

\* Every step of the engine task keeps the types.
LEMMA EngineType ==
    ASSUME TypeOK, Engine
    PROVE  TypeOK'
<1> USE EngineAssumption DEF TypeOK, Running
<1>1. CASE InitialRefresh
  <2>1. CASE LoadRules
    BY <1>1, <2>1, LoadRulesType DEF InitialRefresh, dbVars, feedVars, notifyVars
  <2>2. CASE UNCHANGED <<cache, prev, dedup, job, todo, at>>
    BY <1>1, <2>2 DEF InitialRefresh, dbVars, feedVars, notifyVars
  <2>3. QED
    BY <1>1, <2>1, <2>2 DEF InitialRefresh
<1>2. CASE PeriodicRefresh
  BY <1>2, LoadRulesType DEF PeriodicRefresh, dbVars, feedVars, notifyVars
<1>3. CASE RecvLagged
  BY <1>3 DEF RecvLagged, dbVars, engineVars, notifyVars
<1>4. CASE Recv
  <2>1. Head(feed) \in Update /\ Tail(feed) \in Seq(Update) /\ Len(Tail(feed)) = Len(feed) - 1
    BY <1>4, HeadTailProperties DEF Recv
  <2> DEFINE j == [token |-> Head(feed).token, cur |-> Head(feed).price,
                   old |-> prev[Head(feed).token]]
  <2>2. j \in Job /\ prev' \in [Token -> Price \cup {NoPrice}]
    BY <1>4, <2>1 DEF Recv, Update, Job
  <2>3. Watching(Head(feed).token) \subseteq Alert
    BY DEF Watching
  <2> HIDE DEF j
  <2>4. job' \in Job \cup {NoJob} /\ todo' \subseteq Alert /\ pc' \in {"select", "scan"}
    BY <1>4, <2>2, <2>3 DEF Recv, Resume, j
  <2>5. QED
    BY <1>4, <2>1, <2>2, <2>4 DEF Recv, dbVars, notifyVars
<1>5. ASSUME NEW a \in Alert, Skip(a)
      PROVE  TypeOK'
  BY <1>5 DEF Skip, Resume, dbVars, feedVars, notifyVars
<1>6. ASSUME NEW a \in Alert, Fire(a)
      PROVE  TypeOK'
  <2>1. /\ dedup' \in [Alert -> Stamp]
        /\ fired' \in [Alert -> Firing]
    BY <1>6 DEF Fire, Stamp, Firing
  <2>2. QED
    BY <1>6, <2>1 DEF Fire, dbVars, feedVars, notifyVars
<1>7. CASE Enqueue
  <2>1. queue' \in Seq(Alert) /\ Len(queue') <= QueueCap
    <3>1. /\ at \in Alert /\ queue \in Seq(Alert) /\ Len(queue) < QueueCap
          /\ queue' = Append(queue, at) /\ QueueCap \in Nat
      BY <1>7 DEF Enqueue
    <3> HIDE DEF TypeOK
    <3>2. QED
      BY <3>1, AppendProperties, LenProperties
  <2>2. fired' \in [Alert -> Firing]
    <3>1. /\ fired \in [Alert -> Firing] /\ at \in Alert
          /\ fired' = [fired EXCEPT ![at].handed = "queued"]
      BY <1>7 DEF Enqueue
    <3> HIDE DEF TypeOK
    <3>2. QED
      BY <3>1 DEF Firing
  <2>3. QED
    BY <1>7, <2>1, <2>2 DEF Enqueue, dbVars, feedVars
<1>8. CASE SendClosed
  <2>1. fired' \in [Alert -> Firing]
    <3>1. /\ fired \in [Alert -> Firing] /\ at \in Alert
          /\ fired' = [fired EXCEPT ![at].handed = "closed"]
      BY <1>8 DEF SendClosed
    <3> HIDE DEF TypeOK
    <3>2. QED
      BY <3>1 DEF Firing
  <2>2. QED
    BY <1>8, <2>1 DEF SendClosed, dbVars, feedVars, notifyVars
<1>9. CASE Persist
  <2>1. CASE db[at] # NoRow
    <3>1. at \in Alert /\ db[at] \in Row /\ now \in Stamp
      BY <1>9, <2>1 DEF Persist, Stamp
    <3>2. /\ db' = [db EXCEPT ![at].last = now]
          /\ fired' = [fired EXCEPT ![at].saved = TRUE]
      BY <1>9, <2>1 DEF Persist
    <3>3. db' \in [Alert -> Row \cup {NoRow}]
      BY <3>1, <3>2 DEF Row
    <3>4. fired' \in [Alert -> Firing]
      BY <3>1, <3>2 DEF Firing
    <3>5. /\ todo' \subseteq Alert /\ pc' \in {"select", "scan"}
          /\ job' \in Job \cup {NoJob} /\ at' = NoAlert
      BY <1>9 DEF Persist, Resume
    <3>6. UNCHANGED <<now, born, cache, prev, dedup, feed, lagged, queue, open, cancelled>>
      BY <1>9 DEF Persist, feedVars, notifyVars
    <3>7. QED
      BY <3>3, <3>4, <3>5, <3>6
  <2>2. CASE db[at] = NoRow
    BY <1>9, <2>2 DEF Persist, Resume, feedVars, notifyVars
  <2>3. QED
    BY <2>1, <2>2
<1>10. CASE PersistFails
  BY <1>10 DEF PersistFails, Resume, dbVars, feedVars, notifyVars
<1>11. CASE EngineStop
  BY <1>11 DEF EngineStop, dbVars, feedVars, notifyVars
<1>12. QED
  BY <1>1, <1>2, <1>3, <1>4, <1>5, <1>6, <1>7, <1>8, <1>9, <1>10, <1>11
     DEF Engine, Scan, Send, Save

\* Type correctness: every variable keeps its type and both channels respect
\* their capacities, whatever the engine, its users and the process do.
THEOREM TypeCorrect == Spec => []TypeOK
<1>1. Init => TypeOK
  <2>1. /\ << >> \in Seq(Update) /\ Len(<< >>) <= FeedCap
        /\ << >> \in Seq(Alert) /\ Len(<< >>) <= QueueCap
    BY EngineAssumption, EmptySeq
  <2>2. 0 \in Time
    BY EngineAssumption DEF Time
  <2>3. /\ NoRules \in [Alert -> [kind : Kind, threshold : Price] \cup {NoRule}]
        /\ NoPrices \in [Token -> Price \cup {NoPrice}]
        /\ NoStamps \in [Alert -> Stamp]
    BY DEF NoRules, NoPrices, NoStamps, Stamp
  <2>4. [at |-> Never, handed |-> "no", saved |-> FALSE] \in Firing
    BY DEF Firing, Stamp
  <2>5. QED
    BY <2>1, <2>2, <2>3, <2>4 DEF Init, TypeOK
<1>2. TypeOK /\ [Next]_vars => TypeOK'
  <2> SUFFICES ASSUME TypeOK, [Next]_vars
               PROVE  TypeOK'
    OBVIOUS
  <2>1. CASE Tick
    BY <2>1, EngineAssumption
       DEF Tick, TypeOK, Time, dbVars, engineVars, feedVars, notifyVars
  <2>2. CASE Bot
    BY <2>2, BotType
  <2>3. ASSUME NEW u \in Update, Publish(u)
        PROVE  TypeOK'
    BY <2>3, PublishType
  <2>4. CASE Engine
    BY <2>4, EngineType
  <2>5. CASE Deliver
    <3>1. queue' \in Seq(Alert) /\ Len(queue') <= QueueCap
      BY <2>5, EngineAssumption, HeadTailProperties, LenProperties DEF Deliver, TypeOK
    <3>2. QED
      BY <2>5, <3>1 DEF Deliver, TypeOK, dbVars, engineVars, feedVars
  <2>6. CASE ServiceStop
    <3>1. << >> \in Seq(Alert) /\ Len(<< >>) <= QueueCap
      BY EngineAssumption, EmptySeq
    <3>2. QED
      BY <2>6, <3>1 DEF ServiceStop, TypeOK, dbVars, engineVars, feedVars
  <2>7. CASE Cancel
    BY <2>7 DEF Cancel, TypeOK, dbVars, engineVars, feedVars, notifyVars
  <2>8. CASE ProcessEnds
    <3>1. /\ << >> \in Seq(Update) /\ Len(<< >>) <= FeedCap
          /\ << >> \in Seq(Alert) /\ Len(<< >>) <= QueueCap
      BY EngineAssumption, EmptySeq
    <3>2. QED
      BY <2>8, <3>1
         DEF ProcessEnds, TypeOK, Stamp, NoRules, NoPrices, NoStamps, dbVars
  <2>9. CASE Start
    BY <2>9 DEF Start, TypeOK, Running, dbVars, feedVars
  <2>10. CASE UNCHANGED vars
    BY <2>10 DEF vars, TypeOK, dbVars, engineVars, feedVars, notifyVars
  <2>11. QED
    BY <2>1, <2>2, <2>3, <2>4, <2>5, <2>6, <2>7, <2>8, <2>9, <2>10
       DEF Next, Exit, Crash
<1>3. QED
  BY <1>1, <1>2, PTL DEF Spec

-----------------------------------------------------------------------------
(***************************************************************************)
(* The engine remembers its saved firings.  TypeOK and EngineRemembers are *)
(* inductive together; one lemma per group of actions again.               *)
(***************************************************************************)

\* A step that touches none of what it speaks of keeps EngineRemembers.
LEMMA PartsUnchanged ==
    ASSUME EngineRemembers, UNCHANGED <<db, born, pc, cache, dedup, todo, at, fired, now>>
    PROVE  EngineRemembers'
BY DEF EngineRemembers, RowsRemember, CacheRemembers, SavedHappened, TodoIsCached,
       AtHasFired

\* A refresh replaces the time in the dedup map only by the row's, and the row
\* is not behind the last saved firing (load_from_alerts).
LEMMA LoadRulesRemembers ==
    ASSUME TypeOK, EngineRemembers, LoadRules, pc \in {"init", "select"},
           pc' = "select", UNCHANGED <<db, born, fired, now>>
    PROVE  EngineRemembers'
<1>1. RowsRemember' /\ SavedHappened'
  BY DEF EngineRemembers, RowsRemember, SavedHappened
<1>2. CacheRemembers'
  <2> SUFFICES ASSUME NEW a \in Alert, fired'[a].saved, cache'[a] # NoRule
               PROVE  dedup'[a] # Never /\ dedup'[a] >= fired'[a].at
    BY DEF CacheRemembers
  <2>1. Loadable(a)
    BY DEF LoadRules
  <2>2. db[a].last # Never /\ db[a].last >= fired[a].at
    BY <2>1 DEF EngineRemembers, RowsRemember, Loadable
  <2>3. dedup'[a] = db[a].last
    BY <2>1, <2>2 DEF LoadRules
  <2>4. QED
    BY <2>2, <2>3
<1>3. TodoIsCached'
  BY DEF EngineRemembers, TodoIsCached, LoadRules
<1>4. AtHasFired'
  BY DEF AtHasFired
<1>5. QED
  BY <1>1, <1>2, <1>3, <1>4 DEF EngineRemembers

\* The bot never touches last_triggered_at, and an id is handed out once.
LEMMA BotRemembers ==
    ASSUME TypeOK, EngineRemembers, Bot
    PROVE  EngineRemembers'
<1> USE DEF EngineRemembers, TypeOK
<1>1. UNCHANGED <<pc, cache, dedup, todo, at, fired, now>>
  BY DEF Bot, CreateAlert, UpdateAlert, Unsubscribe, engineVars
<1>2. CacheRemembers' /\ TodoIsCached' /\ AtHasFired'
  BY <1>1 DEF CacheRemembers, TodoIsCached, AtHasFired
<1>3. ASSUME NEW a \in Alert, NEW r \in Rule, CreateAlert(a, r)
      PROVE  RowsRemember' /\ SavedHappened'
  BY <1>1, <1>3 DEF CreateAlert, RowsRemember, SavedHappened
<1>4. ASSUME NEW a \in Alert, NEW r \in Rule, UpdateAlert(a, r)
      PROVE  RowsRemember' /\ SavedHappened'
  <2>1. born' = born
    BY <1>4 DEF UpdateAlert
  <2>2. ASSUME NEW b \in Alert, db'[b] # NoRow
        PROVE  db[b] # NoRow /\ db'[b].last = db[b].last
    BY <1>4, <2>2 DEF UpdateAlert, Row
  <2>3. QED
    BY <1>1, <2>1, <2>2 DEF RowsRemember, SavedHappened
<1>5. ASSUME NEW s \in Sub, Unsubscribe(s)
      PROVE  RowsRemember' /\ SavedHappened'
  BY <1>1, <1>5 DEF Unsubscribe, RowsRemember, SavedHappened
<1>6. QED
  BY <1>2, <1>3, <1>4, <1>5 DEF Bot

\* handle_price_update: mark_fired before the send, the row after it.
LEMMA EngineStepsRemember ==
    ASSUME TypeOK, EngineRemembers, Engine
    PROVE  EngineRemembers'
<1> USE DEF EngineRemembers, TypeOK
<1>1. CASE InitialRefresh
  <2>1. CASE LoadRules
    BY <1>1, <2>1, LoadRulesRemembers DEF InitialRefresh, dbVars
  <2>2. CASE UNCHANGED <<cache, prev, dedup, job, todo, at>>
    BY <1>1, <2>2 DEF InitialRefresh, dbVars, RowsRemember, CacheRemembers,
                      SavedHappened, TodoIsCached, AtHasFired
  <2>3. QED
    BY <1>1, <2>1, <2>2 DEF InitialRefresh
<1>2. CASE PeriodicRefresh
  BY <1>2, LoadRulesRemembers DEF PeriodicRefresh, dbVars
<1>3. CASE RecvLagged
  BY <1>3, PartsUnchanged DEF RecvLagged, dbVars, engineVars
<1>4. CASE Recv
  <2>1. todo' = Watching(Head(feed).token) /\ (pc' = "select" => todo' = {})
        /\ pc' \in {"select", "scan"} /\ UNCHANGED <<now, db, born, cache, dedup, fired>>
    BY <1>4 DEF Recv, Resume, dbVars
  <2>2. RowsRemember' /\ CacheRemembers' /\ SavedHappened'
    BY <2>1 DEF RowsRemember, CacheRemembers, SavedHappened
  <2>3. TodoIsCached' /\ AtHasFired'
    BY <2>1 DEF TodoIsCached, AtHasFired, Watching
  <2>4. QED
    BY <2>2, <2>3
<1>5. ASSUME NEW a \in Alert, Skip(a)
      PROVE  EngineRemembers'
  BY <1>5 DEF Skip, Resume, dbVars, RowsRemember, CacheRemembers, SavedHappened,
              TodoIsCached, AtHasFired
<1>6. ASSUME NEW a \in Alert, Fire(a)
      PROVE  EngineRemembers'
  <2>1. /\ fired' = [fired EXCEPT ![a] = [at |-> now, handed |-> "no", saved |-> FALSE]]
        /\ dedup' = [dedup EXCEPT ![a] = now]
        /\ at' = a /\ pc' = "send" /\ todo' = todo \ {a}
        /\ UNCHANGED <<now, db, born, cache>>
    BY <1>6 DEF Fire, dbVars
  <2>2. now \in Nat /\ now # Never
    BY EngineAssumption DEF Time
  <2>3. \A b \in Alert : fired'[b].saved =>
           fired[b].saved /\ fired'[b].at = fired[b].at /\ dedup'[b] = dedup[b]
    BY <2>1
  <2>4. RowsRemember' /\ CacheRemembers'
    BY <2>1, <2>3 DEF RowsRemember, CacheRemembers
  <2>5. SavedHappened'
    BY <2>1, <2>2, <2>3 DEF SavedHappened
  <2>6. TodoIsCached' /\ AtHasFired'
    BY <1>6, <2>1, <2>2 DEF Fire, TodoIsCached, AtHasFired
  <2>7. QED
    BY <2>4, <2>5, <2>6
<1>7. CASE Send
  <2>1. /\ pc = "send" /\ pc' = "save" /\ at \in Alert
        /\ \E h \in {"queued", "closed"} : fired' = [fired EXCEPT ![at].handed = h]
        /\ UNCHANGED <<now, db, born, cache, dedup, todo, at>>
    BY <1>7 DEF Send, Enqueue, SendClosed, dbVars
  <2>2. \A b \in Alert : fired'[b].saved = fired[b].saved /\ fired'[b].at = fired[b].at
    BY <2>1 DEF Firing
  <2>3. QED
    BY <2>1, <2>2 DEF RowsRemember, CacheRemembers, SavedHappened, TodoIsCached,
                      AtHasFired
<1>8. CASE Persist
  <2>1. /\ at \in Alert /\ pc = "save" /\ at' = NoAlert
        /\ todo' = todo /\ pc' = IF todo = {} THEN "select" ELSE "scan"
        /\ UNCHANGED <<now, born, cache, dedup>>
    BY <1>8 DEF Persist, Resume
  <2>2. TodoIsCached' /\ AtHasFired'
    BY <2>1 DEF TodoIsCached, AtHasFired
  <2>3. CASE db[at] # NoRow
    <3>1. /\ db' = [db EXCEPT ![at].last = now]
          /\ fired' = [fired EXCEPT ![at].saved = TRUE]
      BY <1>8, <2>3 DEF Persist
    <3>2. \A b \in Alert : /\ db'[b] # NoRow => db[b] # NoRow
                           /\ b # at => db'[b] = db[b] /\ fired'[b] = fired[b]
                           /\ fired'[b].at = fired[b].at
      BY <2>1, <2>3, <3>1 DEF Row, Firing
    <3>3. db'[at].last = now /\ fired[at].at \in Nat /\ fired[at].at <= now
          /\ dedup[at] = fired[at].at /\ now \in Nat /\ now # Never /\ fired[at].at # Never
      BY <2>1, <2>3, <3>1, EngineAssumption
         DEF AtHasFired, SavedHappened, Row, Firing, Stamp, Time
    <3>4. RowsRemember'
      BY <2>1, <3>2, <3>3 DEF RowsRemember
    <3>5. CacheRemembers'
      BY <2>1, <3>2, <3>3 DEF CacheRemembers
    <3>6. SavedHappened'
      BY <2>1, <2>3, <3>2, <3>3 DEF SavedHappened
    <3>7. QED
      BY <2>2, <3>4, <3>5, <3>6
  <2>4. CASE db[at] = NoRow
    <3>1. UNCHANGED <<db, fired>>
      BY <1>8, <2>4 DEF Persist
    <3>2. QED
      BY <2>1, <2>2, <3>1 DEF RowsRemember, CacheRemembers, SavedHappened
  <2>5. QED
    BY <2>3, <2>4
<1>9. CASE PersistFails
  BY <1>9 DEF PersistFails, Resume, dbVars, RowsRemember, CacheRemembers, SavedHappened,
              TodoIsCached, AtHasFired
<1>10. CASE EngineStop
  BY <1>10 DEF EngineStop, dbVars, RowsRemember, CacheRemembers, SavedHappened,
               TodoIsCached, AtHasFired
<1>11. QED
  BY <1>1, <1>2, <1>3, <1>4, <1>5, <1>6, <1>7, <1>8, <1>9, <1>10
     DEF Engine, Scan, Save

\* No crash, restart, refresh, edit or failed write makes the engine forget a
\* firing that reached the table (dedup.rs, persist_triggered, refresh_cache).
THEOREM Remembering == Spec => []EngineRemembers
<1>1. Init => EngineRemembers
  BY DEF Init, EngineRemembers, RowsRemember, CacheRemembers, SavedHappened,
         TodoIsCached, AtHasFired, NoRules
<1>2. TypeOK /\ EngineRemembers /\ [Next]_vars => EngineRemembers'
  <2> SUFFICES ASSUME TypeOK, EngineRemembers, [Next]_vars
               PROVE  EngineRemembers'
    OBVIOUS
  <2>1. CASE Tick
    <3>1. /\ now' = now + 1 /\ now \in Nat
          /\ \A a \in Alert : fired[a].at # Never => fired[a].at \in Nat
          /\ UNCHANGED <<db, born, pc, cache, dedup, todo, at, fired>>
      BY <2>1 DEF Tick, dbVars, engineVars, TypeOK, Time, Stamp, Firing
    <3>2. RowsRemember' /\ CacheRemembers' /\ TodoIsCached' /\ AtHasFired'
      BY <3>1 DEF EngineRemembers, RowsRemember, CacheRemembers, TodoIsCached, AtHasFired
    <3>3. SavedHappened'
      BY <3>1 DEF EngineRemembers, SavedHappened
    <3>4. QED
      BY <3>2, <3>3 DEF EngineRemembers
  <2>2. CASE Bot
    BY <2>2, BotRemembers
  <2>3. CASE Engine
    BY <2>3, EngineStepsRemember
  <2>4. CASE ProcessEnds
    BY <2>4 DEF ProcessEnds, dbVars, NoRules, EngineRemembers, RowsRemember,
                CacheRemembers, SavedHappened, TodoIsCached, AtHasFired
  <2>5. CASE Start
    BY <2>5 DEF Start, dbVars, EngineRemembers, RowsRemember, CacheRemembers,
                SavedHappened, TodoIsCached, AtHasFired
  <2>6. CASE \/ \E u \in Update : Publish(u)
             \/ Deliver \/ ServiceStop \/ Cancel \/ UNCHANGED vars
    BY <2>6, PartsUnchanged
       DEF Publish, Deliver, ServiceStop, Cancel, vars, dbVars, engineVars
  <2>7. QED
    BY <2>1, <2>2, <2>3, <2>4, <2>5, <2>6 DEF Next, Exit, Crash
<1>3. QED
  BY <1>1, <1>2, TypeCorrect, PTL DEF Spec

-----------------------------------------------------------------------------
(***************************************************************************)
(* The order of sending and saving.  While a firing is being saved it has  *)
(* been handed over, and the queue is closed only once a shutdown began.   *)
(***************************************************************************)
SentFirst == /\ pc # "down" /\ ~open => cancelled
             /\ pc = "save" => HandedOver(at)

\* The steps of the rule evaluation keep that order.
LEMMA EngineSendsFirst ==
    ASSUME TypeOK, SentFirst, Engine
    PROVE  SentFirst'
<1>0. /\ fired \in [Alert -> Firing]
      /\ pc \in {"send", "save"} => at \in Alert
  BY DEF TypeOK
<1>1. /\ pc # "down" /\ pc' # "down" /\ UNCHANGED <<open, cancelled>>
  <2>1. CASE InitialRefresh \/ PeriodicRefresh \/ RecvLagged \/ Recv \/ EngineStop
    BY <2>1 DEF InitialRefresh, PeriodicRefresh, RecvLagged, Recv, EngineStop, Resume,
                engineVars, notifyVars
  <2>2. CASE Scan
    BY <2>2 DEF Scan, Skip, Fire, Resume, notifyVars
  <2>3. CASE Send
    BY <2>3 DEF Send, Enqueue, SendClosed, notifyVars
  <2>4. CASE Save
    BY <2>4 DEF Save, Persist, PersistFails, Resume, notifyVars
  <2>5. QED
    BY <2>1, <2>2, <2>3, <2>4 DEF Engine
<1>2. CASE Send
  <2>1. PICK h \in {"queued", "closed"} :
           /\ fired' = [fired EXCEPT ![at].handed = h]
           /\ h = "closed" => cancelled
    BY <1>1, <1>2 DEF Send, Enqueue, SendClosed, SentFirst
  <2>2. at \in Alert /\ at' = at
    BY <1>0, <1>2 DEF Send, Enqueue, SendClosed
  <2>3. fired'[at].handed = h
    BY <1>0, <2>1, <2>2 DEF Firing
  <2>4. QED
    BY <1>1, <2>1, <2>2, <2>3 DEF SentFirst, HandedOver
<1>3. CASE \/ InitialRefresh \/ PeriodicRefresh \/ RecvLagged \/ Recv \/ Scan \/ Save
           \/ EngineStop
  <2>1. pc' # "save" \/ (pc' = pc /\ at' = at /\ fired' = fired)
    BY <1>3 DEF InitialRefresh, PeriodicRefresh, RecvLagged, Recv, Scan, Skip, Fire, Save,
                Persist, PersistFails, EngineStop, Resume, engineVars
  <2>2. QED
    BY <1>1, <2>1 DEF SentFirst, HandedOver
<1>4. QED
  BY <1>2, <1>3 DEF Engine

LEMMA AlwaysSentFirst == Spec => []SentFirst
<1>1. Init => SentFirst
  BY DEF Init, SentFirst
<1>2. TypeOK /\ SentFirst /\ [Next]_vars => SentFirst'
  <2> SUFFICES ASSUME TypeOK, SentFirst, [Next]_vars
               PROVE  SentFirst'
    OBVIOUS
  <2>1. CASE Engine
    BY <2>1, EngineSendsFirst
  <2>2. CASE \/ Tick \/ Bot \/ (\E u \in Update : Publish(u)) \/ Deliver \/ UNCHANGED vars
    <3>1. UNCHANGED <<fired, pc, at, open, cancelled>>
      BY <2>2 DEF Tick, Bot, CreateAlert, UpdateAlert, Unsubscribe, Publish, Deliver,
                  vars, engineVars, notifyVars
    <3>2. QED
      BY <3>1 DEF SentFirst, HandedOver
  <2>3. CASE ServiceStop \/ Cancel
    <3>1. UNCHANGED <<fired, pc, at>> /\ cancelled'
      BY <2>3 DEF ServiceStop, Cancel, engineVars
    <3>2. QED
      BY <3>1 DEF SentFirst, HandedOver
  <2>4. CASE Exit \/ Crash \/ Start
    BY <2>4 DEF Exit, Crash, ProcessEnds, Start, SentFirst
  <2>5. QED
    BY <2>1, <2>2, <2>3, <2>4 DEF Next
<1>3. QED
  BY <1>1, <1>2, TypeCorrect, PTL DEF Spec

\* A crash between sending and saving repeats the alert and never swallows it: a
\* firing becomes a recorded one only when its notification was queued, or turned
\* away by a queue that a shutdown has closed (handle_price_update).
THEOREM NeverSwallowed == Spec => SavedWasHandedOver
<1> DEFINE Recorded(a) == fired'[a].saved /\ ~fired[a].saved
           Ordered == \A a \in Alert : Recorded(a) => HandedOver(a)
<1>1. TypeOK /\ SentFirst /\ [Next]_vars => [Ordered]_vars
  <2> SUFFICES ASSUME TypeOK, SentFirst, [Next]_vars, NEW a \in Alert, Recorded(a)
               PROVE  HandedOver(a)
    OBVIOUS
  <2>0. fired \in [Alert -> Firing] /\ (pc \in {"send", "save"} => at \in Alert)
    BY DEF TypeOK
  <2>1. ASSUME NEW b \in Alert, Fire(b)
        PROVE  FALSE
    BY <2>0, <2>1 DEF Fire
  <2>2. CASE Send
    <3>1. PICK h \in {"queued", "closed"} : fired' = [fired EXCEPT ![at].handed = h]
      BY <2>2 DEF Send, Enqueue, SendClosed
    <3>2. fired'[a].saved = fired[a].saved
      BY <2>0, <3>1 DEF Firing
    <3>3. QED
      BY <3>2
  <2>3. CASE Persist
    <3>1. pc = "save" /\ at \in Alert
      BY <2>0, <2>3 DEF Persist
    <3>2. fired' = fired \/ fired' = [fired EXCEPT ![at].saved = TRUE]
      BY <2>3 DEF Persist
    <3>3. a = at
      BY <2>0, <3>1, <3>2
    <3>4. QED
      BY <3>1, <3>3 DEF SentFirst
  <2>4. CASE ~(\E b \in Alert : Fire(b)) /\ ~Send /\ ~Persist
    <3>1. fired' = fired
      BY <2>4 DEF Next, Engine, Scan, Save, vars, Tick, Bot, CreateAlert, UpdateAlert,
         Unsubscribe, Publish, InitialRefresh, PeriodicRefresh, RecvLagged, Recv, Skip,
         PersistFails, EngineStop, Deliver, ServiceStop, Cancel, Exit, Crash, ProcessEnds,
         Start
    <3>2. QED
      BY <3>1
  <2>5. QED
    BY <2>1, <2>2, <2>3, <2>4
<1>2. Spec => [][Ordered]_vars
  BY <1>1, TypeCorrect, AlwaysSentFirst, PTL DEF Spec
<1>3. QED
  BY <1>2 DEF SavedWasHandedOver

-----------------------------------------------------------------------------
(***************************************************************************)
(* Repeated firings.  Where no UPDATE fails and the process does not die   *)
(* between a firing and its UPDATE, the row of an alert is never behind    *)
(* its last firing, saved or not, except while that very firing is on its  *)
(* way; and no cache is refreshed meanwhile.                               *)
(***************************************************************************)
OnItsWay(a) == pc \in {"send", "save"} /\ at = a

RowKnows(a)   == db[a] # NoRow =>
                   \/ db[a].last # Never /\ db[a].last >= fired[a].at
                   \/ OnItsWay(a)
CacheKnows(a) == cache[a] # NoRule => dedup[a] # Never /\ dedup[a] >= fired[a].at

Knows == \A a \in Alert : /\ fired[a].at # Never => RowKnows(a) /\ CacheKnows(a)
                          /\ fired[a].at # Never \/ cache[a] # NoRule => a \in born

\* The engine's own steps.
LEMMA EngineStepsKnow ==
    ASSUME MayFailSave = FALSE, TypeOK, EngineRemembers, Knows, Engine
    PROVE  Knows'
<1>0. /\ fired \in [Alert -> Firing] /\ db \in [Alert -> Row \cup {NoRow}]
      /\ dedup \in [Alert -> Stamp] /\ now \in Nat /\ now # Never
      /\ pc \in {"send", "save"} => at \in Alert
  BY EngineAssumption DEF TypeOK, Time
<1>1. ASSUME LoadRules, pc \notin {"send", "save"}, UNCHANGED <<db, born, fired>>
      PROVE  Knows'
  <2> SUFFICES ASSUME NEW a \in Alert
               PROVE  /\ fired[a].at # Never => RowKnows(a)' /\ CacheKnows(a)'
                      /\ fired[a].at # Never \/ cache'[a] # NoRule => a \in born
    BY <1>1 DEF Knows
  <2>1. /\ cache'[a] # NoRule => Loadable(a)
        /\ Loadable(a) /\ db[a].last # Never => dedup'[a] = db[a].last
    BY <1>1 DEF LoadRules
  <2>2. fired[a].at # Never /\ db[a] # NoRow =>
           db[a].last # Never /\ db[a].last >= fired[a].at
    BY <1>1 DEF Knows, RowKnows, OnItsWay
  <2>3. Loadable(a) => db[a] # NoRow /\ a \in born
    BY DEF Loadable, EngineRemembers, SavedHappened
  <2>4. QED
    BY <1>1, <2>1, <2>2, <2>3 DEF RowKnows, CacheKnows, Knows
<1>2. ASSUME UNCHANGED <<db, born, cache, dedup, fired>>, pc \notin {"send", "save"}
      PROVE  Knows'
  BY <1>2 DEF Knows, RowKnows, CacheKnows, OnItsWay
<1>3. CASE InitialRefresh \/ PeriodicRefresh
  <2>1. pc \notin {"send", "save"} /\ UNCHANGED <<db, born, fired>>
    BY <1>3 DEF InitialRefresh, PeriodicRefresh, dbVars
  <2>2. LoadRules \/ UNCHANGED <<cache, dedup>>
    BY <1>3 DEF InitialRefresh, PeriodicRefresh
  <2>3. QED
    BY <1>1, <1>2, <2>1, <2>2
<1>4. CASE RecvLagged \/ Recv \/ (\E a \in Alert : Skip(a)) \/ EngineStop
  BY <1>2, <1>4 DEF RecvLagged, Recv, Skip, EngineStop, dbVars, engineVars
<1>5. ASSUME NEW a \in Alert, Fire(a)
      PROVE  Knows'
  <2>1. /\ fired' = [fired EXCEPT ![a] = [at |-> now, handed |-> "no", saved |-> FALSE]]
        /\ dedup' = [dedup EXCEPT ![a] = now] /\ at' = a /\ pc' = "send"
        /\ pc = "scan" /\ a \in todo /\ UNCHANGED <<db, born, cache>>
    BY <1>5 DEF Fire, dbVars
  <2>2. cache[a] # NoRule /\ a \in born
    BY <2>1 DEF EngineRemembers, TodoIsCached, Knows
  <2>3. RowKnows(a)' /\ CacheKnows(a)'
    BY <1>0, <2>1 DEF RowKnows, CacheKnows, OnItsWay
  <2>4. ASSUME NEW b \in Alert, b # a
        PROVE  /\ fired'[b] = fired[b] /\ cache'[b] = cache[b] /\ born' = born
               /\ fired[b].at # Never => RowKnows(b)' /\ CacheKnows(b)'
    BY <1>0, <2>1, <2>4 DEF Knows, RowKnows, CacheKnows, OnItsWay
  <2>5. QED
    BY <2>1, <2>2, <2>3, <2>4 DEF Knows
<1>6. CASE Send
  <2>1. /\ pc = "send" /\ pc' = "save" /\ at \in Alert
        /\ \E h \in {"queued", "closed"} : fired' = [fired EXCEPT ![at].handed = h]
        /\ UNCHANGED <<db, born, cache, dedup, at>>
    BY <1>0, <1>6 DEF Send, Enqueue, SendClosed, dbVars
  <2>2. \A b \in Alert : fired'[b].at = fired[b].at
    BY <1>0, <2>1 DEF Firing
  <2>3. QED
    BY <2>1, <2>2 DEF Knows, RowKnows, CacheKnows, OnItsWay
<1>7. CASE Persist
  <2>1. /\ at \in Alert /\ pc = "save" /\ pc' \in {"select", "scan"}
        /\ UNCHANGED <<born, cache, dedup>>
    BY <1>0, <1>7 DEF Persist, Resume
  <2>2. CASE db[at] # NoRow
    <3>1. /\ db' = [db EXCEPT ![at].last = now]
          /\ fired' = [fired EXCEPT ![at].saved = TRUE]
      BY <1>7, <2>2 DEF Persist
    <3>2. \A b \in Alert : fired'[b].at = fired[b].at
      BY <1>0, <3>1 DEF Firing
    <3>3. \A b \in Alert : b # at => db'[b] = db[b]
      BY <1>0, <3>1
    <3>4. db'[at].last = now
      BY <1>0, <2>1, <2>2, <3>1 DEF Row
    <3>5. fired[at].at # Never => fired[at].at <= now /\ fired[at].at \in Int
      BY <1>0, <2>1, EngineAssumption DEF EngineRemembers, SavedHappened, Firing, Stamp, Time
    <3>6. ASSUME NEW b \in Alert, fired'[b].at # Never
          PROVE  RowKnows(b)' /\ CacheKnows(b)'
      <4>1. CASE b = at
        BY <1>0, <2>1, <3>2, <3>4, <3>5, <3>6, <4>1 DEF Knows, RowKnows, CacheKnows
      <4>2. CASE b # at
        BY <2>1, <3>2, <3>3, <3>6, <4>2 DEF Knows, RowKnows, CacheKnows, OnItsWay
      <4>3. QED
        BY <4>1, <4>2
    <3>7. QED
      BY <2>1, <3>2, <3>6 DEF Knows
  <2>3. CASE db[at] = NoRow
    <3>1. UNCHANGED <<db, fired>>
      BY <1>7, <2>3 DEF Persist
    <3>2. QED
      BY <2>1, <2>3, <3>1 DEF Knows, RowKnows, CacheKnows, OnItsWay
  <2>4. QED
    BY <2>2, <2>3
<1>8. ~PersistFails
  BY DEF PersistFails
<1>9. QED
  BY <1>3, <1>4, <1>5, <1>6, <1>7, <1>8 DEF Engine, Scan, Save

\* Several ticks within the cooldown produce one notification, as dedup.rs says,
\* whatever is edited, refreshed, shut down and started again, in a program whose
\* UPDATEs succeed and that is not killed: a firing is repeated for no other reason
\* (mark_fired, persist_triggered, load_from_alerts).
THEOREM OnceWithoutFailures ==
    ASSUME MayFailSave = FALSE, MayCrash = FALSE
    PROVE  Spec => NoRepeatInCooldown
<1> DEFINE Repeats(a) == fired[a].at # Never /\ fired'[a] # fired[a] /\ fired'[a].handed = "no"
           Spaced == \A a \in Alert : Repeats(a) => now - fired[a].at > Cooldown
<1>1. Init => Knows
  BY DEF Init, Knows, NoRules
<1>2. TypeOK /\ EngineRemembers /\ Knows /\ [Next]_vars => Knows'
  <2> SUFFICES ASSUME TypeOK, EngineRemembers, Knows, [Next]_vars
               PROVE  Knows'
    OBVIOUS
  <2>1. CASE Engine
    BY <2>1, EngineStepsKnow
  <2>2. ASSUME UNCHANGED <<db, born, fired, cache, dedup, at>>,
               pc' = pc \/ pc \notin {"send", "save"}
        PROVE  Knows'
    BY <2>2 DEF Knows, RowKnows, CacheKnows, OnItsWay
  <2>3. CASE \/ Tick \/ (\E u \in Update : Publish(u)) \/ Deliver \/ ServiceStop
             \/ Cancel \/ Start \/ UNCHANGED vars
    BY <2>2, <2>3 DEF Tick, Publish, Deliver, ServiceStop, Cancel, Start, vars, dbVars,
                      engineVars
  <2>4. CASE Exit
    BY <2>4 DEF Exit, ProcessEnds, NoRules, dbVars, Knows, RowKnows, CacheKnows, OnItsWay
  <2>5. CASE Bot
    <3>1. UNCHANGED <<pc, cache, dedup, at, fired>>
      BY <2>5 DEF Bot, CreateAlert, UpdateAlert, Unsubscribe, engineVars
    <3>2. born \subseteq born'
      BY <2>5 DEF Bot, CreateAlert, UpdateAlert, Unsubscribe
    <3>3. ASSUME NEW a \in Alert, fired[a].at # Never, db'[a] # NoRow
          PROVE  db[a] # NoRow /\ db'[a].last = db[a].last
      <4>1. a \in born
        BY <3>3 DEF Knows
      <4>2. db \in [Alert -> Row \cup {NoRow}]
        BY DEF TypeOK
      <4>3. CASE \E b \in Alert, r \in Rule : CreateAlert(b, r)
        BY <3>3, <4>1, <4>2, <4>3 DEF CreateAlert
      <4>4. CASE \E b \in Alert, r \in Rule : UpdateAlert(b, r)
        BY <3>3, <4>2, <4>4 DEF UpdateAlert, Row
      <4>5. CASE \E s \in Sub : Unsubscribe(s)
        BY <3>3, <4>5 DEF Unsubscribe
      <4>6. QED
        BY <2>5, <4>3, <4>4, <4>5 DEF Bot
    <3>4. QED
      BY <3>1, <3>2, <3>3 DEF Knows, RowKnows, CacheKnows, OnItsWay
  <2>6. QED
    BY <2>1, <2>3, <2>4, <2>5 DEF Next, Crash
<1>3. TypeOK /\ EngineRemembers /\ SentFirst /\ Knows /\ [Next]_vars => [Spaced]_vars
  <2> SUFFICES ASSUME TypeOK, EngineRemembers, SentFirst, Knows, [Next]_vars,
                      NEW a \in Alert, Repeats(a)
               PROVE  now - fired[a].at > Cooldown
    OBVIOUS
  <2>0. fired \in [Alert -> Firing]
    BY DEF TypeOK
  <2>1. CASE Fire(a)
    <3>1. a \in todo /\ (dedup[a] # Never => now - dedup[a] > Cooldown)
      BY <2>1 DEF Fire, ShouldFire, CanFire
    <3>2. dedup[a] # Never /\ dedup[a] >= fired[a].at
      BY <3>1 DEF EngineRemembers, TodoIsCached, Knows, CacheKnows
    <3>3. now \in Int /\ dedup[a] \in Int /\ fired[a].at \in Int
      BY <3>2 DEF TypeOK, Time, Stamp, Firing
    <3>4. QED
      BY <3>1, <3>2, <3>3, CooldownIsNat
  <2>2. ASSUME NEW b \in Alert, b # a, Fire(b)
        PROVE  FALSE
    BY <2>0, <2>2 DEF Fire
  <2>3. CASE Send
    <3>1. PICK h \in {"queued", "closed"} : fired' = [fired EXCEPT ![at].handed = h]
      BY <2>3 DEF Send, Enqueue, SendClosed
    <3>2. fired'[a] = fired[a] \/ fired'[a].handed = h
      BY <2>0, <3>1 DEF Firing
    <3>3. QED
      BY <3>2
  <2>4. CASE Persist
    <3>1. fired' = fired \/ fired' = [fired EXCEPT ![at].saved = TRUE]
      BY <2>4 DEF Persist
    <3>2. fired'[a] = fired[a] \/ (a = at /\ fired'[a].handed = fired[a].handed)
      BY <2>0, <3>1 DEF Firing
    <3>3. fired[at].handed # "no"
      BY <2>4 DEF Persist, SentFirst, HandedOver
    <3>4. QED
      BY <3>2, <3>3
  <2>5. CASE ~(\E b \in Alert : Fire(b)) /\ ~Send /\ ~Persist
    <3>1. fired' = fired
      BY <2>5 DEF Next, Engine, Scan, Save, vars, Tick, Bot, CreateAlert, UpdateAlert,
         Unsubscribe, Publish, InitialRefresh, PeriodicRefresh, RecvLagged, Recv, Skip,
         PersistFails, EngineStop, Deliver, ServiceStop, Cancel, Exit, Crash, ProcessEnds,
         Start
    <3>2. QED
      BY <3>1
  <2>6. QED
    BY <2>1, <2>2, <2>3, <2>4, <2>5
<1>4. Spec => [][Spaced]_vars
  BY <1>1, <1>2, <1>3, TypeCorrect, Remembering, AlwaysSentFirst, PTL DEF Spec
<1>5. QED
  BY <1>4 DEF NoRepeatInCooldown

-----------------------------------------------------------------------------
(***************************************************************************)
(* AlertEngine implements FiringPolicy: Fire is a Fire, Persist of a row   *)
(* that is still there a Confirm, and every other step leaves the mapped   *)
(* state alone.                                                            *)
(***************************************************************************)

\* A firing the engine allows, the policy allows: if the last one was saved,
\* the dedup map holds a time that is at least as late (can_fire).
LEMMA FireIsPolicyFire ==
    ASSUME TypeOK, EngineRemembers, NEW a \in Alert, Fire(a)
    PROVE  Policy!Fire(a)
<1>1. /\ fired' = [fired EXCEPT ![a] = [at |-> now, handed |-> "no", saved |-> FALSE]]
      /\ a \in todo /\ CanFire(a) /\ now' = now
  BY DEF Fire, ShouldFire
<1>2. ASSUME fired[a].saved
      PROVE  now - fired[a].at > Cooldown
  <2>1. cache[a] # NoRule
    BY <1>1 DEF EngineRemembers, TodoIsCached
  <2>2. dedup[a] # Never /\ dedup[a] >= fired[a].at /\ fired[a].at # Never
    BY <1>2, <2>1 DEF EngineRemembers, CacheRemembers, SavedHappened
  <2>3. now \in Int /\ dedup[a] \in Int /\ fired[a].at \in Int
    BY <2>2 DEF TypeOK, Time, Stamp, Firing
  <2>4. now - dedup[a] > Cooldown
    BY <1>1, <2>2 DEF CanFire
  <2>5. QED
    BY <2>2, <2>3, <2>4, CooldownIsNat
<1>3. /\ [b \in Alert |-> fired'[b].at]
           = [[b \in Alert |-> fired[b].at] EXCEPT ![a] = now]
      /\ [b \in Alert |-> fired'[b].saved]
           = [[b \in Alert |-> fired[b].saved] EXCEPT ![a] = FALSE]
  BY <1>1 DEF TypeOK
<1>4. QED
  BY <1>1, <1>2, <1>3 DEF Policy!Fire

\* A successful UPDATE of the row makes the firing durable.
LEMMA PersistIsConfirm ==
    ASSUME TypeOK, EngineRemembers, NEW a \in Alert, at = a, Persist, db[a] # NoRow
    PROVE  Policy!Confirm(a)
<1>1. /\ now' = now /\ fired \in [Alert -> Firing]
      /\ fired' = [fired EXCEPT ![a].saved = TRUE]
  BY DEF TypeOK, Persist
<1>2. fired[a].at # Never
  BY DEF Persist, EngineRemembers, AtHasFired
<1>3. /\ \A b \in Alert : fired'[b].at = fired[b].at
      /\ \A b \in Alert \ {a} : fired'[b].saved = fired[b].saved
      /\ fired'[a].saved = TRUE
  BY <1>1 DEF Firing
<1>4. /\ [b \in Alert |-> fired'[b].at] = [b \in Alert |-> fired[b].at]
      /\ [b \in Alert |-> fired'[b].saved]
           = [[b \in Alert |-> fired[b].saved] EXCEPT ![a] = TRUE]
  BY <1>1, <1>3
<1>5. QED
  BY <1>1, <1>2, <1>4 DEF Policy!Confirm

\* A firing handed over (or refused) changes neither its time nor its saving.
LEMMA OthersStutter ==
    ASSUME TypeOK, [Next]_vars, ~(\E a \in Alert : Fire(a)), ~Tick,
           ~(Persist /\ db[at] # NoRow)
    PROVE  UNCHANGED Policy!vars
<1>1. CASE Send
  <2>1. /\ at \in Alert /\ now' = now /\ fired \in [Alert -> Firing]
        /\ \E h \in {"queued", "closed"} : fired' = [fired EXCEPT ![at].handed = h]
    BY <1>1 DEF Send, Enqueue, SendClosed, TypeOK
  <2>2. \A b \in Alert : fired'[b].saved = fired[b].saved /\ fired'[b].at = fired[b].at
    BY <2>1 DEF Firing
  <2>3. QED
    BY <2>1, <2>2 DEF Policy!vars
<1>2. CASE ~Send
  <2>1. UNCHANGED <<now, fired>>
    BY <1>2 DEF Next, Engine, Scan, Save, vars, Bot, CreateAlert, UpdateAlert, Unsubscribe,
       Publish, InitialRefresh, PeriodicRefresh, RecvLagged, Recv, Skip, Persist,
       PersistFails, EngineStop, Deliver, ServiceStop, Cancel, Exit, Crash,
       ProcessEnds, Start
  <2>2. QED
    BY <2>1 DEF Policy!vars
<1>3. QED
  BY <1>1, <1>2

\* The engine implements the policy: an alert whose last firing is in the
\* table stays silent for its whole cooldown, across crashes, restarts,
\* failed writes and refreshes (can_fire, load_from_alerts).
THEOREM EngineImplementsPolicy == Spec => ImplementsPolicy
<1>1. Init => Policy!Init
  BY DEF Init, Policy!Init
<1>2. TypeOK /\ EngineRemembers /\ [Next]_vars => [Policy!Next]_(Policy!vars)
  <2> SUFFICES ASSUME TypeOK, EngineRemembers, [Next]_vars
               PROVE  [Policy!Next]_(Policy!vars)
    OBVIOUS
  <2>1. CASE \E a \in Alert : Fire(a)
    BY <2>1, FireIsPolicyFire DEF Policy!Next
  <2>2. CASE Tick
    <3>1. now' = now + 1 /\ fired' = fired
      BY <2>2 DEF Tick
    <3>2. Policy!Tick
      BY <3>1 DEF Policy!Tick
    <3>3. QED
      BY <3>2 DEF Policy!Next
  <2>3. CASE Persist /\ db[at] # NoRow
    <3>1. PICK a \in Alert : a = at
      BY <2>3 DEF TypeOK, Persist
    <3>2. Policy!Confirm(a)
      BY <2>3, <3>1, PersistIsConfirm
    <3>3. QED
      BY <3>2 DEF Policy!Next
  <2>4. QED
    BY <2>1, <2>2, <2>3, OthersStutter
<1>3. QED
  BY <1>1, <1>2, TypeCorrect, Remembering, PTL DEF Spec, ImplementsPolicy, Policy!Spec
=============================================================================
