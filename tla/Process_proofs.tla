--------------------------- MODULE Process_proofs ---------------------------
(***************************************************************************)
(* Proofs about Process: its engine behaves as PriceFlush and its          *)
(* scheduler as DailySummary, so what is proved of these two holds of the  *)
(* whole process, however their tasks and the shutdown interleave.         *)
(***************************************************************************)
EXTENDS Process, TLAPS

-----------------------------------------------------------------------------
(***************************************************************************)
(* The two components.  They are up together.                              *)
(***************************************************************************)
Together == /\ mpc = "down" <=> epc = "down"
            /\ mpc = "down" <=> spc = "down"
            /\ mpc \in {"join", "bots"} <=> cancelled
            /\ mpc \in {"down", "up", "join", "bots"}
            /\ cancelled \in BOOLEAN /\ load \in Load

FlushStep   == [Flush!Next]_(Flush!vars)
SummaryStep == [Summary!Next]_(Summary!vars)

\* What a step of a running process leaves of main's view.
Runs == /\ UNCHANGED <<mpc, cancelled, load>>
        /\ epc = "down" <=> epc' = "down"
        /\ spc = "down" <=> spc' = "down"

LEMMA SummaryStutters ==
    ASSUME UNCHANGED <<subs, flushed, cancelled, channelVars, jobVars>>
    PROVE  SummaryStep
BY DEF SummaryStep, Summary!vars, Summary!environmentVars, Summary!channelVars,
       Summary!delayVars, Summary!summaryVars, channelVars, jobVars

LEMMA FlushStutters ==
    ASSUME UNCHANGED <<subs, stored, flushed, cancelled, engineVars>>
    PROVE  FlushStep
BY DEF FlushStep, Flush!vars, Flush!tableVars, Flush!memoryVars, engineVars

LEMMA EngineSteps ==
    ASSUME Together, EngineStep \/ EngineSend
    PROVE  FlushStep /\ SummaryStep /\ Runs
<1>1. CASE Engine(Flush!Refresh) \/ Engine(Flush!StartFlush) \/ Engine(Flush!FlushOver)
  <2>1. FlushStep
    BY <1>1 DEF Engine, FlushStep, Flush!Next
  <2>2. UNCHANGED <<subs, flushed, cancelled>> /\ epc # "down" /\ epc' # "down"
    BY <1>1 DEF Engine, Flush!Refresh, Flush!StartFlush, Flush!FlushOver, Flush!tableVars,
                Flush!Idle, Flush!Flushing
  <2>3. QED
    BY <1>1, <2>1, <2>2, SummaryStutters DEF Engine, Runs, jobVars
<1>2. CASE Engine(TakePrice)
  <2>1. PICK t \in load.feed : Flush!TakePrice(t)
    BY <1>2 DEF Engine, TakePrice
  <2>2. t \in Token
    BY ProcessAssumption DEF Together
  <2>3. FlushStep
    BY <2>1, <2>2 DEF FlushStep, Flush!Next
  <2>4. UNCHANGED <<subs, flushed, cancelled>> /\ epc # "down" /\ epc' # "down"
    BY <2>1 DEF Flush!TakePrice, Flush!Idle, Flush!tableVars
  <2>5. QED
    BY <1>2, <2>3, <2>4, SummaryStutters DEF Engine, Runs, jobVars
<1>3. ASSUME NEW m \in Market, Engine(Flush!Write(m))
      PROVE  FlushStep /\ SummaryStep /\ Runs
  <2>1. FlushStep
    BY <1>3 DEF Engine, FlushStep, Flush!Next
  <2>2. UNCHANGED <<subs, cancelled, epc>> /\ (flushed' = flushed \/ flushed' = flushed \cup {m})
    <3>1. CASE Flush!FlushMarket(m)
      BY <3>1 DEF Flush!FlushMarket
    <3>2. CASE Flush!SkipMarket(m) \/ Flush!FlushFails(m)
      BY <3>2 DEF Flush!SkipMarket, Flush!FlushFails, Flush!tableVars
    <3>3. QED
      BY <1>3, <3>1, <3>2 DEF Engine, Flush!Write
  <2>3. UNCHANGED <<channelVars, jobVars, mpc, load>>
    BY <1>3 DEF Engine
  <2>4. ASSUME flushed' = flushed
        PROVE  SummaryStep
    BY <2>2, <2>3, <2>4, SummaryStutters
  <2>5. ASSUME flushed' = flushed \cup {m}
        PROVE  SummaryStep
    <3>1. Summary!Flush(m)
      <4>1. UNCHANGED <<queue, open, now, spc, target, deadline, todo, unreadable, outcome, last>>
        BY <2>3 DEF channelVars, jobVars
      <4>2. QED
        BY <2>2, <2>5, <4>1 DEF Summary!Flush, Summary!channelVars, Summary!delayVars,
                                Summary!summaryVars
    <3>2. QED
      BY <3>1 DEF SummaryStep, Summary!Next
  <2>6. QED
    BY <2>1, <2>2, <2>3, <2>4, <2>5 DEF Runs, jobVars
<1>4. CASE EngineSend
  <2>1. FlushStep
    BY <1>4 DEF EngineSend, FlushStep, Flush!Next
  <2>2. UNCHANGED <<subs, flushed, cancelled>> /\ epc # "down" /\ epc' # "down"
    BY <1>4 DEF EngineSend, Flush!Sent, Flush!tableVars
  <2>3. UNCHANGED <<open, jobVars, mpc, load>>
    BY <1>4 DEF EngineSend
  <2>4. CASE open
    <3>1. Summary!EngineSends
      BY <1>4, <2>2, <2>3, <2>4 DEF EngineSend, Summary!EngineSends, jobVars,
             Summary!environmentVars, Summary!delayVars, Summary!summaryVars
    <3>2. QED
      BY <2>1, <2>2, <2>3, <3>1 DEF SummaryStep, Summary!Next, Runs, jobVars
  <2>5. CASE ~open
    BY <1>4, <2>1, <2>2, <2>3, <2>5, SummaryStutters DEF EngineSend, Runs, channelVars, jobVars
  <2>6. QED
    BY <2>4, <2>5
<1>5. QED
  BY <1>1, <1>2, <1>3, <1>4 DEF EngineStep, Engine

LEMMA JobSteps ==
    ASSUME Together, JobStep \/ Tick \/ Service
    PROVE  FlushStep /\ SummaryStep /\ Runs
<1>1. CASE JobStep
  <2>1. /\ UNCHANGED <<subs, flushed, cancelled>>
        /\ spc # "down" /\ spc' # "down"
    BY <1>1 DEF JobStep, Summary!Job, Summary!Plan, Summary!Arm, Summary!Wake,
                Summary!StopSleeping, Summary!Fetch, Summary!FetchFails, Summary!Deal,
                Summary!SkipUser, Summary!Hand, Summary!HandFails, Summary!Settle,
                Summary!SummaryOver, Summary!environmentVars
  <2>2. UNCHANGED <<stored, engineVars, mpc, load>>
    BY <1>1 DEF JobStep
  <2>3. SummaryStep
    BY <1>1 DEF JobStep, SummaryStep, Summary!Next
  <2>4. QED
    BY <2>1, <2>2, <2>3, FlushStutters DEF Runs, engineVars
<1>2. CASE Tick \/ ServiceTake \/ ServiceStop
  <2>1. UNCHANGED <<subs, flushed, cancelled, spc>>
    BY <1>2 DEF Tick, ServiceTake, ServiceStop, Summary!Tick, Summary!Take,
                Summary!ServiceStop, Summary!environmentVars
  <2>2. UNCHANGED <<stored, engineVars, mpc, load>>
    BY <1>2 DEF Tick, ServiceTake, ServiceStop
  <2>3. SummaryStep
    BY <1>2 DEF Tick, ServiceTake, ServiceStop, SummaryStep, Summary!Next
  <2>4. QED
    BY <2>1, <2>2, <2>3, FlushStutters DEF Runs, engineVars
<1>3. CASE ServiceDone
  BY <1>3, FlushStutters, SummaryStutters DEF ServiceDone, Runs, engineVars, jobVars
<1>4. QED
  BY <1>1, <1>2, <1>3 DEF Service

LEMMA UserSteps ==
    ASSUME Together,
           (\E b \in Bot : Bots(b)) \/ (\E u \in User, m \in Market : Change(u, m))
    PROVE  FlushStep /\ SummaryStep /\ Runs
<1>1. ASSUME NEW b \in Bot, Bots(b)
      PROVE  FlushStep /\ SummaryStep /\ Runs
  <2>1. UNCHANGED <<subs, stored, flushed, cancelled, engineVars, channelVars, jobVars, mpc, load>>
    BY <1>1 DEF Bots, SetupFails, Setup, Dispatch, StopBot, BotGone, BotStep
  <2>2. QED
    BY <2>1, FlushStutters, SummaryStutters DEF Runs, engineVars, jobVars
<1>2. ASSUME NEW u \in User, NEW m \in Market, Change(u, m)
      PROVE  FlushStep /\ SummaryStep /\ Runs
  <2>1. /\ subs' = subs \cup {<<u, m>>} \/ subs' = subs \ {<<u, m>>}
        /\ UNCHANGED <<stored, flushed, cancelled, engineVars, channelVars, jobVars, mpc, load>>
    BY <1>2 DEF Change, Subscribes, Unsubscribes
  <2>2. Flush!Subscribe(u, m) \/ Flush!Unsubscribe(u, m)
    BY <2>1 DEF Flush!Subscribe, Flush!Unsubscribe, engineVars, Flush!memoryVars
  <2>3. Summary!Subscribe(u, m) \/ Summary!Unsubscribe(u, m)
    BY <2>1 DEF Summary!Subscribe, Summary!Unsubscribe, channelVars, jobVars,
                Summary!channelVars, Summary!delayVars, Summary!summaryVars
  <2>4. FlushStep /\ SummaryStep
    BY <2>2, <2>3 DEF FlushStep, SummaryStep, Flush!Next, Summary!Next
  <2>5. QED
    BY <2>1, <2>4 DEF Runs, engineVars, jobVars
<1>3. QED
  BY <1>1, <1>2

LEMMA MainSteps ==
    ASSUME Together, Main
    PROVE  FlushStep /\ SummaryStep /\ Together'
<1>1. CASE Start
  <2>1. Flush!Start /\ Summary!Start /\ mpc = "down" /\ mpc' = "up" /\ load' = load
    BY <1>1 DEF Start
  <2>2. epc' = "run" /\ spc' = "plan" /\ cancelled' = cancelled
    BY <2>1 DEF Flush!Start, Summary!Start, Flush!tableVars
  <2>3. FlushStep /\ SummaryStep
    BY <2>1 DEF FlushStep, SummaryStep, Flush!Next, Summary!Next
  <2>4. QED
    BY <2>1, <2>2, <2>3 DEF Together
<1>2. CASE CtrlC
  <2>1. /\ mpc = "up" /\ mpc' = "join" /\ cancelled' = TRUE
        /\ UNCHANGED <<subs, stored, flushed, engineVars, channelVars, jobVars, load>>
    BY <1>2 DEF CtrlC
  <2>2. ~cancelled /\ epc # "down" /\ spc # "down"
    BY <2>1 DEF Together
  <2>3. Flush!Cancel /\ Summary!Cancel
    BY <2>1, <2>2 DEF Flush!Cancel, Summary!Cancel, engineVars, channelVars, jobVars,
          Flush!tableVars, Flush!memoryVars, Summary!channelVars, Summary!delayVars,
          Summary!summaryVars
  <2>4. FlushStep /\ SummaryStep
    BY <2>3 DEF FlushStep, SummaryStep, Flush!Next, Summary!Next
  <2>5. QED
    BY <2>1, <2>2, <2>4 DEF Together, engineVars, jobVars
<1>3. CASE Join
  <2>1. /\ mpc = "join" /\ mpc' = "bots"
        /\ UNCHANGED <<subs, stored, flushed, cancelled, engineVars, channelVars, jobVars, load>>
    BY <1>3 DEF Join
  <2>2. QED
    BY <2>1, FlushStutters, SummaryStutters DEF Together, engineVars, jobVars
<1>4. CASE Exit \/ Crash
  <2>1. Flush!ProcessEnds /\ Summary!ProcessEnds /\ mpc' = "down" /\ load' = load /\ mpc # "down"
    BY <1>4 DEF Exit, Crash, Ends
  <2>2. epc # "down" /\ spc # "down"
    BY <2>1 DEF Together
  <2>3. FlushStep /\ SummaryStep
    BY <2>1, <2>2 DEF FlushStep, SummaryStep, Flush!Next, Summary!Next
  <2>4. epc' = "down" /\ spc' = "down" /\ cancelled' = FALSE
    BY <2>1 DEF Flush!ProcessEnds, Summary!ProcessEnds
  <2>5. QED
    BY <2>1, <2>3, <2>4 DEF Together
<1>5. QED
  BY <1>1, <1>2, <1>3, <1>4 DEF Main

LEMMA Steps ==
    ASSUME Together, [Next]_vars
    PROVE  FlushStep /\ SummaryStep /\ Together'
<1>1. CASE Main
  BY <1>1, MainSteps
<1>2. ASSUME FlushStep, SummaryStep, Runs
      PROVE  FlushStep /\ SummaryStep /\ Together'
  BY <1>2 DEF Runs, Together
<1>3. CASE UNCHANGED vars
  BY <1>2, <1>3, FlushStutters, SummaryStutters DEF vars, Runs, engineVars, jobVars
<1>4. QED
  BY <1>1, <1>2, <1>3, EngineSteps, JobSteps, UserSteps DEF Next

LEMMA AlwaysTogether == Spec => []Together
<1>1. Init => Together
  BY DEF Init, Together, Flush!Init, Summary!Init
<1>2. Together /\ [Next]_vars => Together'
  BY Steps
<1>3. QED
  BY <1>1, <1>2, PTL DEF Spec

\* The engine in the process, with the channel it waits at, the crashes and the
\* shutdown, does nothing PriceFlush does not allow (run, flush_prices_to_db).
THEOREM EngineFlushes == Spec => Flush!Spec
<1>1. Init => Flush!Init
  BY DEF Init
<1>2. Together /\ [Next]_vars => [Flush!Next]_(Flush!vars)
  BY Steps DEF FlushStep
<1>3. QED
  BY <1>1, <1>2, AlwaysTogether, PTL DEF Spec, Flush!Spec

\* The scheduler in the process does nothing DailySummary does not allow.
THEOREM SchedulerSummarises == Spec => Summary!Spec
<1>1. Init => Summary!Init
  BY DEF Init
<1>2. Together /\ [Next]_vars => [Summary!Next]_(Summary!vars)
  BY Steps DEF SummaryStep
<1>3. QED
  BY <1>1, <1>2, AlwaysTogether, PTL DEF Spec, Summary!Spec

-----------------------------------------------------------------------------
(***************************************************************************)
(* The prices.  A market is only left over during a flush, and what the    *)
(* last flush has dealt with is saved.                                     *)
(***************************************************************************)
FinalSaved == epc = "final" =>
    \A t \in Token : MarketOf[t] \in condition \ (failed \cup left) /\ prev[t] # 0
                        => stored[t] = prev[t]

PricesInv == /\ Flush!TypeOK /\ Flush!MemoryAhead /\ FinalSaved
             /\ epc \notin {"flush", "final"} => left = {}

\* What a flush does to the prices of one market's row.
LEMMA FlushingOneMarket ==
    ASSUME PricesInv, NEW m \in Market, Flush!FlushMarket(m)
    PROVE  /\ \A t \in Token : stored'[t] = IF MarketOf[t] = m THEN prev[t] ELSE stored[t]
           /\ \E s \in Flush!Tokens(m) : prev[s] # 0
           /\ stored' \in [Token -> 0..tick]
<1>1. \A t \in Token : t \in Flush!Tokens(m) <=> MarketOf[t] = m
  BY DEF Flush!Tokens
<1>2. stored' = [t \in Token |-> IF t \in Flush!Tokens(m) THEN prev[t] ELSE stored[t]]
  BY DEF Flush!FlushMarket
<1>3. stored \in [Token -> 0..tick] /\ prev \in [Token -> 0..tick]
  BY DEF PricesInv, Flush!TypeOK
<1>4. \E s \in Flush!Tokens(m) : prev[s] # 0
  BY DEF Flush!FlushMarket, Flush!Quiet
<1>5. QED
  BY <1>1, <1>2, <1>3, <1>4

LEMMA PricesKept ==
    ASSUME PricesInv, FlushStep
    PROVE  PricesInv'
<1>0. /\ MarketOf \in [Token -> Market] /\ MaxTick \in Nat
      /\ tick \in 0..MaxTick /\ tick \in Nat
      /\ stored \in [Token -> 0..tick] /\ prev \in [Token -> 0..tick]
  BY ProcessAssumption DEF Flush!FlushAssumption, PricesInv, Flush!TypeOK
\* Steps that leave the prices, in memory and in the table, alone.
<1>1. CASE Flush!Start \/ Flush!Refresh
  <2>1. /\ condition' \subseteq Market /\ left' = left /\ left = {}
        /\ epc' = "run" /\ failed' = failed
        /\ UNCHANGED <<subs, stored, flushed, cancelled, tick, prev>>
    BY <1>1 DEF Flush!Start, Flush!Refresh, Flush!Idle, Flush!Subscribed, Flush!tableVars,
                PricesInv
  <2>2. QED
    BY <2>1 DEF PricesInv, Flush!TypeOK, Flush!MemoryAhead, FinalSaved
<1>2. CASE \/ \E u \in User, m \in Market : Flush!Subscribe(u, m) \/ Flush!Unsubscribe(u, m)
           \/ Flush!Cancel \/ UNCHANGED Flush!vars
  <2>1. /\ subs' \subseteq User \X Market /\ cancelled' \in BOOLEAN
        /\ UNCHANGED <<stored, flushed, tick, prev, condition, left, failed, epc>>
    <3>0. subs \subseteq User \X Market /\ cancelled \in BOOLEAN
      BY DEF PricesInv, Flush!TypeOK
    <3>1. CASE Flush!Cancel \/ UNCHANGED Flush!vars
      BY <3>0, <3>1 DEF Flush!Cancel, Flush!vars, Flush!memoryVars, Flush!tableVars
    <3>2. ASSUME NEW u \in User, NEW m \in Market, Flush!Subscribe(u, m) \/ Flush!Unsubscribe(u, m)
          PROVE  /\ subs' \subseteq User \X Market /\ cancelled' = cancelled
                 /\ UNCHANGED <<stored, flushed, tick, prev, condition, left, failed, epc>>
      <4>1. <<u, m>> \in User \X Market
        OBVIOUS
      <4>2. QED
        BY <3>0, <3>2, <4>1 DEF Flush!Subscribe, Flush!Unsubscribe, Flush!memoryVars
    <3>3. QED
      BY <1>2, <3>0, <3>1, <3>2
  <2>2. QED
    BY <2>1 DEF PricesInv, Flush!TypeOK, Flush!MemoryAhead, FinalSaved
<1>3. CASE Flush!Sent \/ Flush!FlushOver
  <2>1. /\ epc' \in {"run", "send", "stopped"} /\ left = {}
        /\ UNCHANGED <<subs, stored, flushed, cancelled, tick, prev, condition, left, failed>>
    BY <1>3 DEF Flush!Sent, Flush!FlushOver, Flush!tableVars, Flush!memoryVars, PricesInv
  <2>2. QED
    BY <2>1 DEF PricesInv, Flush!TypeOK, Flush!MemoryAhead, FinalSaved
<1>4. CASE Flush!StartFlush
  <2>1. /\ epc' \in {"flush", "final"} /\ left' = condition /\ failed' = {}
        /\ UNCHANGED <<subs, stored, flushed, cancelled, tick, prev, condition>>
    BY <1>4 DEF Flush!StartFlush, Flush!tableVars
  <2>2. QED
    BY <2>1 DEF PricesInv, Flush!TypeOK, Flush!MemoryAhead, FinalSaved
<1>5. ASSUME NEW t \in Token, Flush!TakePrice(t)
      PROVE  PricesInv'
  <2>1. /\ tick < MaxTick /\ tick' = tick + 1 /\ prev' = [prev EXCEPT ![t] = tick + 1]
        /\ epc = "run" /\ epc' \in {"run", "send"}
        /\ UNCHANGED <<subs, stored, flushed, cancelled, condition, left, failed>>
    BY <1>5 DEF Flush!TakePrice, Flush!Idle, Flush!tableVars
  <2>2. /\ tick' \in 0..MaxTick /\ prev' \in [Token -> 0..tick']
        /\ stored' \in [Token -> 0..tick']
    BY <1>0, <2>1
  <2>3. Flush!MemoryAhead'
    BY <1>0, <2>1 DEF PricesInv, Flush!MemoryAhead
  <2>4. Flush!TypeOK'
    BY <2>1, <2>2 DEF PricesInv, Flush!TypeOK
  <2>5. QED
    BY <2>1, <2>3, <2>4 DEF PricesInv, FinalSaved
<1>6. ASSUME NEW m \in Market, Flush!SkipMarket(m)
      PROVE  PricesInv'
  <2>1. /\ left' = left \ {m} /\ epc \in {"flush", "final"}
        /\ \A t \in Token : MarketOf[t] = m => prev[t] = 0
        /\ UNCHANGED <<subs, stored, flushed, cancelled, tick, prev, condition, epc, failed>>
    BY <1>6 DEF Flush!SkipMarket, Flush!Flushing, Flush!Quiet, Flush!Tokens, Flush!tableVars
  <2>2. FinalSaved'
    BY <2>1 DEF PricesInv, FinalSaved
  <2>3. QED
    BY <2>1, <2>2 DEF PricesInv, Flush!TypeOK, Flush!MemoryAhead
<1>7. ASSUME NEW m \in Market, Flush!FlushMarket(m)
      PROVE  PricesInv'
  <2>1. /\ left' = left \ {m} /\ flushed' = flushed \cup {m} /\ epc \in {"flush", "final"}
        /\ UNCHANGED <<subs, cancelled, tick, prev, condition, epc, failed>>
    BY <1>7 DEF Flush!FlushMarket, Flush!Flushing
  <2>2. /\ \A t \in Token : stored'[t] = IF MarketOf[t] = m THEN prev[t] ELSE stored[t]
        /\ stored' \in [Token -> 0..tick]
    BY <1>7, FlushingOneMarket
  <2>3. FinalSaved'
    BY <2>1, <2>2 DEF PricesInv, FinalSaved
  <2>4. Flush!MemoryAhead'
    BY <1>0, <2>1, <2>2 DEF PricesInv, Flush!MemoryAhead
  <2>5. \A t \in Token : stored'[t] # 0 => MarketOf[t] \in flushed'
    BY <2>1, <2>2 DEF PricesInv, Flush!TypeOK
  <2>6. Flush!TypeOK'
    BY <2>1, <2>2, <2>5 DEF PricesInv, Flush!TypeOK
  <2>7. QED
    BY <2>1, <2>3, <2>4, <2>6 DEF PricesInv
<1>8. ASSUME NEW m \in Market, Flush!FlushFails(m)
      PROVE  PricesInv'
  <2>1. /\ left' = left \ {m} /\ failed' = failed \cup {m} /\ epc \in {"flush", "final"}
        /\ UNCHANGED <<subs, stored, flushed, cancelled, tick, prev, condition, epc>>
    BY <1>8 DEF Flush!FlushFails, Flush!Flushing, Flush!tableVars
  <2>2. FinalSaved'
    BY <2>1 DEF PricesInv, FinalSaved
  <2>3. QED
    BY <2>1, <2>2 DEF PricesInv, Flush!TypeOK, Flush!MemoryAhead
<1>9. CASE Flush!ProcessEnds
  <2>1. /\ epc' = "down" /\ prev' = [t \in Token |-> 0] /\ cancelled' = FALSE
        /\ condition' = {} /\ left' = {} /\ failed' = {}
        /\ UNCHANGED <<subs, stored, flushed, tick>>
    BY <1>9 DEF Flush!ProcessEnds, Flush!tableVars
  <2>2. prev' \in [Token -> 0..tick]
    BY <1>0, <2>1
  <2>3. QED
    BY <1>0, <2>1, <2>2 DEF PricesInv, Flush!TypeOK, Flush!MemoryAhead, FinalSaved
<1>10. QED
  BY <1>1, <1>2, <1>3, <1>4, <1>5, <1>6, <1>7, <1>8, <1>9 DEF FlushStep, Flush!Next, Flush!Write

\* A price in the table is older than another that was there only if it is zero, of
\* an outcome without a price while another of its market has one.
Forward == \A t \in Token : stored'[t] < stored[t] =>
              /\ stored'[t] = 0 /\ prev[t] = 0
              /\ \E s \in Flush!Tokens(MarketOf[t]) : prev[s] # 0

LEMMA StepsForward ==
    ASSUME PricesInv, FlushStep
    PROVE  Forward
<1>0. /\ tick \in Nat /\ stored \in [Token -> 0..tick] /\ prev \in [Token -> 0..tick]
      /\ MarketOf \in [Token -> Market]
  BY ProcessAssumption DEF Flush!FlushAssumption, PricesInv, Flush!TypeOK
<1>1. ASSUME stored' = stored
      PROVE  Forward
  BY <1>0, <1>1 DEF Forward
<1>2. ASSUME NEW m \in Market, Flush!FlushMarket(m)
      PROVE  Forward
  <2>1. /\ \A t \in Token : stored'[t] = IF MarketOf[t] = m THEN prev[t] ELSE stored[t]
        /\ \E s \in Flush!Tokens(m) : prev[s] # 0
    BY <1>2, FlushingOneMarket
  <2>2. ASSUME NEW t \in Token, stored'[t] < stored[t]
        PROVE  MarketOf[t] = m /\ stored'[t] = 0 /\ prev[t] = 0
    <3>1. stored[t] \in Nat /\ prev[t] \in Nat
      BY <1>0
    <3>2. MarketOf[t] = m /\ stored'[t] = prev[t]
      BY <2>1, <2>2, <3>1
    <3>3. QED
      BY <2>2, <3>1, <3>2 DEF PricesInv, Flush!MemoryAhead
  <2>3. QED
    BY <2>1, <2>2 DEF Forward
<1>3. CASE \/ Flush!Start \/ Flush!Cancel \/ Flush!Refresh \/ Flush!Sent \/ Flush!StartFlush
           \/ Flush!FlushOver \/ Flush!ProcessEnds \/ UNCHANGED Flush!vars
           \/ \E u \in User, m \in Market : Flush!Subscribe(u, m) \/ Flush!Unsubscribe(u, m)
           \/ \E t \in Token : Flush!TakePrice(t)
           \/ \E m \in Market : Flush!SkipMarket(m) \/ Flush!FlushFails(m)
  <2>1. stored' = stored
    BY <1>3 DEF Flush!Start, Flush!Cancel, Flush!Refresh, Flush!Sent, Flush!StartFlush,
                Flush!FlushOver, Flush!ProcessEnds, Flush!vars, Flush!Subscribe,
                Flush!Unsubscribe, Flush!TakePrice, Flush!SkipMarket, Flush!FlushFails,
                Flush!tableVars
  <2>2. QED
    BY <1>1, <2>1
<1>4. QED
  BY <1>2, <1>3 DEF FlushStep, Flush!Next, Flush!Write

LEMMA AlwaysPrices == Spec => []PricesInv
<1>1. Flush!Init => PricesInv
  <2> SUFFICES ASSUME Flush!Init
               PROVE  PricesInv
    OBVIOUS
  <2>1. MaxTick \in Nat /\ tick = 0
    BY ProcessAssumption DEF Flush!FlushAssumption, Flush!Init
  <2>2. stored \in [Token -> 0..tick] /\ prev \in [Token -> 0..tick] /\ tick \in 0..MaxTick
    BY <2>1 DEF Flush!Init
  <2>3. \A t \in Token : stored[t] = 0 /\ prev[t] = 0
    BY DEF Flush!Init
  <2>4. Flush!TypeOK
    BY <2>2, <2>3 DEF Flush!Init, Flush!TypeOK
  <2>5. QED
    BY <2>3, <2>4 DEF Flush!Init, PricesInv, Flush!MemoryAhead, FinalSaved
<1>2. PricesInv /\ [Flush!Next]_(Flush!vars) => PricesInv'
  BY PricesKept DEF FlushStep
<1>3. QED
  BY <1>1, <1>2, EngineFlushes, PTL DEF Flush!Spec

\* However flushes, refreshes, failed UPDATEs, crashes and the shutdown fall, a stored
\* price is never replaced by an older one, but for the zero that
\* unwrap_or(Decimal::ZERO) writes (flush_prices_to_db).
THEOREM NeverAnOlderPrice == Spec => PricesGoForward
<1>1. PricesInv /\ [Flush!Next]_(Flush!vars) => [Forward]_(Flush!vars)
  BY StepsForward DEF FlushStep
<1>2. Spec => [][Forward]_(Flush!vars)
  BY <1>1, EngineFlushes, AlwaysPrices, PTL DEF Flush!Spec
<1>3. QED
  BY <1>2, PTL DEF PricesGoForward, Flush!PricesGoForward, Forward

\* When a cancelled engine returns, its last flush has saved what it could (the
\* cancel arm of run).
Saved == epc' = "stopped" /\ epc # "stopped" =>
            \A t \in Token : MarketOf[t] \in condition \ failed /\ prev[t] # 0
               => stored[t] = prev[t]

THEOREM NothingLeftUnsaved == Spec => LastFlushSaves
<1>1. PricesInv /\ [Flush!Next]_(Flush!vars) => [Saved]_(Flush!vars)
  <2> SUFFICES ASSUME PricesInv, FlushStep, epc' = "stopped", epc # "stopped"
               PROVE  \A t \in Token : MarketOf[t] \in condition \ failed /\ prev[t] # 0
                         => stored[t] = prev[t]
    BY DEF FlushStep, Saved
  <2>1. epc = "final" /\ left = {}
    <3>1. CASE Flush!FlushOver
      BY <3>1 DEF Flush!FlushOver
    <3>2. CASE \/ Flush!Start \/ Flush!Refresh \/ Flush!Sent \/ Flush!StartFlush
               \/ Flush!ProcessEnds
               \/ \E t \in Token : Flush!TakePrice(t)
      BY <3>2 DEF Flush!Start, Flush!Refresh, Flush!Sent, Flush!StartFlush, Flush!ProcessEnds,
                  Flush!TakePrice, Flush!Idle
    <3>3. CASE \/ Flush!Cancel \/ UNCHANGED Flush!vars
               \/ \E u \in User, m \in Market : Flush!Subscribe(u, m) \/ Flush!Unsubscribe(u, m)
               \/ \E m \in Market : Flush!Write(m)
      BY <3>3 DEF Flush!Cancel, Flush!vars, Flush!Subscribe, Flush!Unsubscribe, Flush!Write,
                  Flush!SkipMarket, Flush!FlushMarket, Flush!FlushFails
    <3>4. QED
      BY <3>1, <3>2, <3>3 DEF FlushStep, Flush!Next
  <2>2. QED
    BY <2>1 DEF PricesInv, FinalSaved
<1>2. Spec => [][Saved]_(Flush!vars)
  BY <1>1, EngineFlushes, AlwaysPrices, PTL DEF Flush!Spec
<1>3. QED
  BY <1>2, PTL DEF LastFlushSaves, Flush!LastFlushSaves, Saved

-----------------------------------------------------------------------------
(***************************************************************************)
(* The summaries.  What the job knows of its instant in each phase, and    *)
(* what has become of the users of the summary under way.                  *)
(***************************************************************************)
Environment ==
    /\ subs \subseteq User \X Market /\ flushed \subseteq Market
    /\ cancelled \in BOOLEAN /\ open \in BOOLEAN
    /\ queue \in Seq(User \cup {Alert}) /\ Len(queue) <= QueueCap

Clockwork ==
    /\ now \in 0..MaxTime
    /\ spc \in {"down", "plan", "arm", "sleep", "fetch", "send", "stopped"}
    /\ target \in Instant \cup {0, NoInstant} /\ deadline \in Nat /\ last \in 0..now
    /\ spc \in {"arm", "sleep"} /\ target # NoInstant => target > last
    /\ spc = "sleep" /\ target # NoInstant => deadline >= target
    /\ spc \in {"plan", "fetch", "send"} /\ target \in Instant => last = target
    /\ spc = "down" => target = 0

Ledger ==
    /\ todo \subseteq User /\ unreadable \subseteq User
    /\ outcome \in [User -> Summary!Outcome]
    /\ spc = "send" =>
          /\ todo = {u \in User : outcome[u] = "due"}
          /\ \A u \in User : /\ u \in unreadable => outcome[u] \in {"due", "skipped"}
                             /\ outcome[u] = "skipped" => u \in unreadable
                             /\ outcome[u] = "refused" => ~open

JobInv == Environment /\ Clockwork /\ Ledger

LEMMA Elements ==
    ASSUME NEW S, NEW s \in Seq(S), NEW e \in S
    PROVE  /\ Append(s, e) \in Seq(S) /\ Len(Append(s, e)) = Len(s) + 1
           /\ Len(s) \in Nat /\ << >> \in Seq(S) /\ Len(<< >>) = 0
OBVIOUS

LEMMA Rests ==
    ASSUME NEW S, NEW s \in Seq(S), s # << >>
    PROVE  Tail(s) \in Seq(S) /\ Len(Tail(s)) = Len(s) - 1 /\ Len(s) \in Nat
OBVIOUS

LEMMA EnvironmentKept ==
    ASSUME JobInv, SummaryStep
    PROVE  Environment'
<1>0. /\ subs \subseteq User \X Market /\ flushed \subseteq Market
      /\ cancelled \in BOOLEAN /\ open \in BOOLEAN
      /\ queue \in Seq(User \cup {Alert}) /\ Len(queue) <= QueueCap
      /\ QueueCap \in Nat \ {0}
  BY ProcessAssumption DEF JobInv, Environment, Summary!SummaryAssumption
<1>1. ASSUME NEW e \in User \cup {Alert}, queue' = Append(queue, e), Len(queue) < QueueCap
      PROVE  queue' \in Seq(User \cup {Alert}) /\ Len(queue') <= QueueCap
  BY <1>0, <1>1, Elements
<1>2. CASE \/ Summary!Start \/ Summary!Tick \/ Summary!Plan \/ Summary!Arm \/ Summary!Wake
           \/ Summary!StopSleeping \/ Summary!Fetch \/ Summary!FetchFails \/ Summary!SummaryOver
           \/ \E u \in User : Summary!SkipUser(u) \/ Summary!HandFails(u)
           \/ UNCHANGED Summary!vars
  <2>1. UNCHANGED <<subs, flushed, cancelled, queue>> /\ open' \in {TRUE, open}
    BY <1>2 DEF Summary!Start, Summary!Tick, Summary!Plan, Summary!Arm, Summary!Wake,
                Summary!StopSleeping, Summary!Fetch, Summary!FetchFails, Summary!SummaryOver,
                Summary!SkipUser, Summary!HandFails, Summary!Settle, Summary!vars,
                Summary!environmentVars, Summary!channelVars
  <2>2. QED
    BY <1>0, <2>1 DEF Environment
<1>3. ASSUME NEW u \in User, Summary!Hand(u)
      PROVE  Environment'
  <2>1. /\ queue' = Append(queue, u) /\ Len(queue) < QueueCap
        /\ UNCHANGED <<subs, flushed, cancelled, open>>
    BY <1>3 DEF Summary!Hand, Summary!Settle, Summary!environmentVars
  <2>2. queue' \in Seq(User \cup {Alert}) /\ Len(queue') <= QueueCap
    BY <1>1, <2>1
  <2>3. QED
    BY <1>0, <2>1, <2>2 DEF Environment
<1>4. CASE Summary!EngineSends
  <2>1. /\ queue' = Append(queue, Alert) /\ Len(queue) < QueueCap
        /\ UNCHANGED <<subs, flushed, cancelled, open>>
    BY <1>4 DEF Summary!EngineSends, Summary!environmentVars
  <2>2. queue' \in Seq(User \cup {Alert}) /\ Len(queue') <= QueueCap
    BY <1>1, <2>1
  <2>3. QED
    BY <1>0, <2>1, <2>2 DEF Environment
<1>5. CASE Summary!Take
  <2>1. /\ queue' = Tail(queue) /\ queue # << >>
        /\ UNCHANGED <<subs, flushed, cancelled, open>>
    BY <1>5 DEF Summary!Take, Summary!environmentVars
  <2>2. queue' \in Seq(User \cup {Alert}) /\ Len(queue') <= QueueCap
    BY <1>0, <2>1, Rests
  <2>3. QED
    BY <1>0, <2>1, <2>2 DEF Environment
<1>6. CASE Summary!ServiceStop \/ Summary!ProcessEnds
  <2>1. queue' = << >> /\ open' = FALSE /\ cancelled' \in {FALSE, cancelled}
        /\ UNCHANGED <<subs, flushed>>
    BY <1>6 DEF Summary!ServiceStop, Summary!ProcessEnds, Summary!environmentVars
  <2>2. queue' \in Seq(User \cup {Alert}) /\ Len(queue') <= QueueCap
    BY <1>0, <2>1
  <2>3. QED
    BY <1>0, <2>1, <2>2 DEF Environment
<1>7. ASSUME NEW u \in User, NEW m \in Market, Summary!Subscribe(u, m) \/ Summary!Unsubscribe(u, m)
      PROVE  Environment'
  <2>1. <<u, m>> \in User \X Market
    OBVIOUS
  <2>2. QED
    BY <1>0, <1>7, <2>1 DEF Environment, Summary!Subscribe, Summary!Unsubscribe,
                            Summary!channelVars
<1>8. CASE Summary!Cancel \/ \E m \in Market : Summary!Flush(m)
  BY <1>0, <1>8 DEF Environment, Summary!Cancel, Summary!Flush, Summary!channelVars
<1>9. QED
  BY <1>2, <1>3, <1>4, <1>5, <1>6, <1>7, <1>8
     DEF SummaryStep, Summary!Next, Summary!Job, Summary!Deal

LEMMA ClockworkKept ==
    ASSUME JobInv, SummaryStep
    PROVE  Clockwork'
<1>0. /\ now \in 0..MaxTime /\ now \in Nat /\ last \in 0..now /\ deadline \in Nat
      /\ MaxTime \in Nat /\ Fallback \in Nat /\ Instant \subseteq Nat \ {0}
      /\ NoInstant \notin Nat /\ target \in Instant \cup {0, NoInstant}
  BY ProcessAssumption DEF JobInv, Clockwork, Summary!SummaryAssumption
<1>1. CASE Summary!Start
  BY <1>0, <1>1 DEF Summary!Start, Summary!delayVars, JobInv, Clockwork
<1>2. CASE Summary!Tick
  <2>1. now' = now + 1 /\ now < MaxTime /\ UNCHANGED <<spc, target, deadline, last>>
    BY <1>2 DEF Summary!Tick, Summary!delayVars
  <2>2. now' \in 0..MaxTime /\ last' \in 0..now'
    BY <1>0, <2>1
  <2>3. QED
    BY <2>1, <2>2 DEF JobInv, Clockwork
<1>3. CASE Summary!Plan
  <2>1. /\ (target' \in Instant /\ target' > now) \/ target' = NoInstant
        /\ spc = "plan" /\ spc' = "arm" /\ UNCHANGED <<now, deadline, last>>
    BY <1>3 DEF Summary!Plan, Summary!IsUpcoming
  <2>2. target' # NoInstant => target' > last
    <3>1. CASE target' = NoInstant
      BY <3>1
    <3>2. CASE target' \in Instant /\ target' > now
      <4>1. target' \in Nat /\ last \in Nat /\ last <= now
        BY <1>0, <3>2
      <4>2. QED
        BY <1>0, <3>2, <4>1
    <3>3. QED
      BY <2>1, <3>1, <3>2
  <2>3. QED
    BY <1>0, <2>1, <2>2 DEF JobInv, Clockwork
<1>4. CASE Summary!Arm
  <2>1. /\ deadline' = IF Summary!Ahead THEN target ELSE now + Fallback
        /\ spc = "arm" /\ spc' = "sleep" /\ UNCHANGED <<now, target, last>>
    BY <1>4 DEF Summary!Arm
  <2>2. target # NoInstant => target \in Nat
    BY <1>0
  <2>3. deadline' \in Nat /\ (target # NoInstant => deadline' >= target)
    BY <1>0, <2>1, <2>2 DEF Summary!Ahead
  <2>4. QED
    BY <2>1, <2>3 DEF JobInv, Clockwork
<1>5. CASE Summary!Wake
  <2>1. /\ spc = "sleep" /\ spc' = "fetch" /\ now >= deadline
        /\ last' = IF target = NoInstant THEN last ELSE target
        /\ UNCHANGED <<now, target, deadline>>
    BY <1>5 DEF Summary!Wake, Summary!delayVars
  <2>2. target # NoInstant => target \in Nat /\ target <= now
    BY <1>0, <2>1 DEF JobInv, Clockwork
  <2>3. last' \in 0..now' /\ (target \in Instant => last' = target)
    BY <1>0, <2>1, <2>2
  <2>4. QED
    BY <1>0, <2>1, <2>3 DEF JobInv, Clockwork
<1>6. CASE Summary!StopSleeping \/ Summary!ProcessEnds
  <2>1. /\ target' = 0 /\ deadline' = 0 /\ spc' \in {"stopped", "down"}
        /\ UNCHANGED <<now, last>>
    BY <1>6 DEF Summary!StopSleeping, Summary!ProcessEnds
  <2>2. QED
    BY <1>0, <2>1 DEF Clockwork
<1>7. CASE Summary!Fetch \/ Summary!FetchFails \/ Summary!SummaryOver
  <2>1. /\ spc \in {"fetch", "send"} /\ spc' \in {"plan", "send"}
        /\ UNCHANGED <<now, target, deadline, last>>
    BY <1>7 DEF Summary!Fetch, Summary!FetchFails, Summary!SummaryOver, Summary!delayVars
  <2>2. QED
    BY <2>1 DEF JobInv, Clockwork
<1>8. CASE \/ \E u \in User : Summary!Deal(u)
           \/ \E u \in User, m \in Market : Summary!Subscribe(u, m) \/ Summary!Unsubscribe(u, m)
           \/ \E m \in Market : Summary!Flush(m)
           \/ Summary!Cancel \/ Summary!EngineSends \/ Summary!Take \/ Summary!ServiceStop
           \/ UNCHANGED Summary!vars
  <2>1. UNCHANGED <<now, spc, target, deadline, last>>
    BY <1>8 DEF Summary!Deal, Summary!SkipUser, Summary!Hand, Summary!HandFails, Summary!Settle,
                Summary!Subscribe, Summary!Unsubscribe, Summary!Flush, Summary!Cancel,
                Summary!EngineSends, Summary!Take, Summary!ServiceStop, Summary!vars,
                Summary!delayVars
  <2>2. QED
    BY <2>1 DEF JobInv, Clockwork
<1>9. QED
  BY <1>1, <1>2, <1>3, <1>4, <1>5, <1>6, <1>7, <1>8 DEF SummaryStep, Summary!Next, Summary!Job

LEMMA LedgerKept ==
    ASSUME JobInv, SummaryStep
    PROVE  Ledger'
<1>0. /\ todo \subseteq User /\ unreadable \subseteq User
      /\ outcome \in [User -> Summary!Outcome]
  BY DEF JobInv, Ledger
<1>1. CASE Summary!Fetch
  <2>1. /\ todo' = Summary!Subscribers
        /\ unreadable' = {u \in User : \E m \in flushed : <<u, m>> \in subs}
        /\ outcome' = [u \in User |-> IF u \in Summary!Subscribers THEN "due" ELSE "none"]
    BY <1>1 DEF Summary!Fetch
  <2>2. Summary!Subscribers \subseteq User /\ unreadable' \subseteq Summary!Subscribers
    BY <2>1 DEF Summary!Subscribers, JobInv, Environment
  <2>3. QED
    BY <2>1, <2>2 DEF Ledger, Summary!Outcome
<1>2. ASSUME NEW u \in User, NEW what \in {"handed", "skipped", "refused"},
             Summary!Settle(u, what), spc = "send", u \in todo,
             u \in unreadable <=> what = "skipped",
             what = "refused" => ~open,
             open' = open
      PROVE  Ledger'
  <2>1. /\ todo' = todo \ {u} /\ outcome' = [outcome EXCEPT ![u] = what]
        /\ UNCHANGED <<unreadable, spc, open>>
    BY <1>2 DEF Summary!Settle
  <2>2. outcome' \in [User -> Summary!Outcome]
    BY <1>0, <2>1 DEF Summary!Outcome
  <2>3. todo' = {v \in User : outcome'[v] = "due"}
    BY <1>0, <1>2, <2>1 DEF JobInv, Ledger
  <2>4. ASSUME NEW v \in User
        PROVE  /\ v \in unreadable => outcome'[v] \in {"due", "skipped"}
               /\ outcome'[v] = "skipped" => v \in unreadable
               /\ outcome'[v] = "refused" => ~open
    <3>1. outcome'[v] = IF v = u THEN what ELSE outcome[v]
      BY <1>0, <2>1
    <3>2. QED
      BY <1>2, <3>1 DEF JobInv, Ledger
  <2>5. QED
    BY <1>0, <2>1, <2>2, <2>3, <2>4 DEF Ledger
<1>3. ASSUME NEW u \in User, Summary!Deal(u)
      PROVE  Ledger'
  <2>1. CASE Summary!SkipUser(u)
    BY <1>2, <2>1 DEF Summary!SkipUser, Summary!channelVars
  <2>2. CASE Summary!Hand(u)
    BY <1>2, <2>2 DEF Summary!Hand
  <2>3. CASE Summary!HandFails(u)
    BY <1>2, <2>3 DEF Summary!HandFails, Summary!channelVars
  <2>4. QED
    BY <1>3, <2>1, <2>2, <2>3 DEF Summary!Deal
<1>4. CASE \/ Summary!Start \/ Summary!Plan \/ Summary!Arm \/ Summary!Wake
           \/ Summary!StopSleeping \/ Summary!FetchFails
  <2>1. spc' # "send" /\ UNCHANGED <<todo, unreadable, outcome>>
    BY <1>4 DEF Summary!Start, Summary!Plan, Summary!Arm, Summary!Wake, Summary!StopSleeping,
                Summary!FetchFails, Summary!summaryVars
  <2>2. QED
    BY <1>0, <2>1 DEF Ledger
<1>5. CASE Summary!SummaryOver \/ Summary!ProcessEnds
  <2>1. /\ spc' # "send" /\ todo' \in {{}, todo} /\ unreadable' = {}
        /\ outcome' = Summary!Nobody
    BY <1>5 DEF Summary!SummaryOver, Summary!ProcessEnds
  <2>2. QED
    BY <1>0, <2>1 DEF Ledger, Summary!Nobody, Summary!Outcome
<1>6. CASE \/ \E u \in User, m \in Market : Summary!Subscribe(u, m) \/ Summary!Unsubscribe(u, m)
           \/ \E m \in Market : Summary!Flush(m)
           \/ Summary!Tick \/ Summary!Cancel \/ Summary!EngineSends \/ Summary!Take
           \/ Summary!ServiceStop \/ UNCHANGED Summary!vars
  <2>1. UNCHANGED <<spc, todo, unreadable, outcome>> /\ (open' => open)
    BY <1>6 DEF Summary!Subscribe, Summary!Unsubscribe, Summary!Flush, Summary!Tick,
                Summary!Cancel, Summary!EngineSends, Summary!Take, Summary!ServiceStop,
                Summary!vars, Summary!summaryVars, Summary!channelVars
  <2>2. QED
    BY <1>0, <2>1 DEF JobInv, Ledger
<1>7. QED
  BY <1>1, <1>3, <1>4, <1>5, <1>6 DEF SummaryStep, Summary!Next, Summary!Job

LEMMA AlwaysJob == Spec => []JobInv
<1>1. Summary!Init => JobInv
  <2> SUFFICES ASSUME Summary!Init
               PROVE  JobInv
    OBVIOUS
  <2>1. QueueCap \in Nat /\ MaxTime \in Nat
    BY ProcessAssumption DEF Summary!SummaryAssumption
  <2>2. queue = << >> /\ queue \in Seq(User \cup {Alert}) /\ Len(queue) = 0
    BY DEF Summary!Init
  <2>3. Environment
    <3>1. /\ subs = {} /\ flushed = {}
          /\ cancelled \in BOOLEAN /\ open \in BOOLEAN
      BY DEF Summary!Init
    <3>2. QED
      BY <2>1, <2>2, <3>1 DEF Environment
  <2>4. Clockwork
    BY <2>1, ProcessAssumption DEF Summary!Init, Clockwork, Summary!SummaryAssumption
  <2>5. Ledger
    BY DEF Summary!Init, Ledger, Summary!Nobody, Summary!Outcome
  <2>6. QED
    BY <2>3, <2>4, <2>5 DEF JobInv
<1>2. JobInv /\ [Summary!Next]_(Summary!vars) => JobInv'
  BY EnvironmentKept, ClockworkKept, LedgerKept DEF SummaryStep, JobInv
<1>3. QED
  BY <1>1, <1>2, SchedulerSummarises, PTL DEF Summary!Spec

\* No restart of the planning, no late sleep and no instant that goes by between
\* the two readings of the clock makes the job summarise an instant twice, or
\* before it has come, or drop one it had planned for.
THEOREM OnceForEachInstant == Spec => OncePerInstant
<1> DEFINE Once ==
             /\ spc = "sleep" /\ spc' = "fetch" /\ target # NoInstant
                   => target > last /\ now >= target
             /\ target' # target /\ target \in Instant
                   => last' = target \/ cancelled \/ spc' = "down"
<1>1. JobInv /\ [Summary!Next]_(Summary!vars) => [Once]_(Summary!vars)
  <2> SUFFICES ASSUME JobInv, SummaryStep
               PROVE  Once
    BY DEF SummaryStep
  <2>0. /\ now \in Nat /\ deadline \in Nat /\ Instant \subseteq Nat \ {0}
        /\ target \in Instant \cup {0, NoInstant}
    BY ProcessAssumption DEF JobInv, Clockwork, Summary!SummaryAssumption
  <2>1. ASSUME spc = "sleep", spc' = "fetch", target # NoInstant
        PROVE  target > last /\ now >= target
    <3>1. now >= deadline
      <4>1. CASE Summary!Wake
        BY <4>1 DEF Summary!Wake
      <4>2. CASE ~Summary!Wake
        BY <2>1, <4>2
           DEF SummaryStep, Summary!Next, Summary!Job, Summary!Deal, Summary!Start,
               Summary!Tick, Summary!Plan, Summary!Arm, Summary!StopSleeping, Summary!Fetch,
               Summary!FetchFails, Summary!SkipUser, Summary!Hand, Summary!HandFails,
               Summary!Settle, Summary!SummaryOver, Summary!ProcessEnds, Summary!Subscribe,
               Summary!Unsubscribe, Summary!Flush, Summary!Cancel, Summary!EngineSends,
               Summary!Take, Summary!ServiceStop, Summary!vars
      <4>3. QED
        BY <4>1, <4>2
    <3>2. target > last /\ deadline >= target /\ target \in Nat
      BY <2>0, <2>1 DEF JobInv, Clockwork
    <3>3. QED
      BY <2>0, <3>1, <3>2
  <2>2. ASSUME target' # target, target \in Instant
        PROVE  last' = target \/ cancelled \/ spc' = "down"
    <3>1. CASE Summary!Plan
      BY <2>2, <3>1 DEF Summary!Plan, JobInv, Clockwork
    <3>2. CASE ~Summary!Plan
      BY <2>2, <3>2
         DEF SummaryStep, Summary!Next, Summary!Job, Summary!Deal, Summary!Start,
             Summary!Tick, Summary!Arm, Summary!Wake, Summary!StopSleeping, Summary!Fetch,
             Summary!FetchFails, Summary!SkipUser, Summary!Hand, Summary!HandFails,
             Summary!Settle, Summary!SummaryOver, Summary!ProcessEnds, Summary!Subscribe,
             Summary!Unsubscribe, Summary!Flush, Summary!Cancel, Summary!EngineSends,
             Summary!Take, Summary!ServiceStop, Summary!vars, Summary!delayVars
    <3>3. QED
      BY <3>1, <3>2
  <2>3. QED
    BY <2>1, <2>2
<1>2. Spec => [][Once]_(Summary!vars)
  BY <1>1, SchedulerSummarises, AlwaysJob, PTL DEF Summary!Spec
<1>3. QED
  BY <1>2, PTL DEF OncePerInstant, Summary!OncePerInstant, Once

\* However the job, the other users' rows, the engine's use of the channel and the
\* end of the service interleave, a summary that is over has handed, skipped or
\* lost each user's request on that user's own account.
THEOREM EveryUserDealtWith == Spec => EachOnHisOwn
<1> DEFINE Dealt ==
             spc = "send" /\ spc' = "plan" =>
                \A u \in User : /\ outcome[u] # "due"
                                /\ outcome[u] = "skipped" <=> u \in unreadable
                                /\ outcome[u] = "refused" => ~open
<1>1. JobInv /\ [Summary!Next]_(Summary!vars) => [Dealt]_(Summary!vars)
  <2> SUFFICES ASSUME JobInv, SummaryStep, spc = "send", spc' = "plan"
               PROVE  \A u \in User : /\ outcome[u] # "due"
                                      /\ outcome[u] = "skipped" <=> u \in unreadable
                                      /\ outcome[u] = "refused" => ~open
    BY DEF SummaryStep
  <2>1. todo = {}
    <3>1. CASE Summary!SummaryOver
      BY <3>1 DEF Summary!SummaryOver
    <3>2. CASE ~Summary!SummaryOver
      BY <3>2
         DEF SummaryStep, Summary!Next, Summary!Job, Summary!Deal, Summary!Start,
             Summary!Tick, Summary!Plan, Summary!Arm, Summary!Wake, Summary!StopSleeping,
             Summary!Fetch, Summary!FetchFails, Summary!SkipUser, Summary!Hand,
             Summary!HandFails, Summary!Settle, Summary!ProcessEnds, Summary!Subscribe,
             Summary!Unsubscribe, Summary!Flush, Summary!Cancel, Summary!EngineSends,
             Summary!Take, Summary!ServiceStop, Summary!vars
    <3>3. QED
      BY <3>1, <3>2
  <2>2. QED
    BY <2>1 DEF JobInv, Ledger
<1>2. Spec => [][Dealt]_(Summary!vars)
  BY <1>1, SchedulerSummarises, AlwaysJob, PTL DEF Summary!Spec
<1>3. QED
  BY <1>2, PTL DEF EachOnHisOwn, Summary!EachOnHisOwn, Dealt

-----------------------------------------------------------------------------
(***************************************************************************)
(* What is left of the types: the receiver lives as long as its service    *)
(* runs, and the bots.                                                     *)
(***************************************************************************)
BotPhase == {"setup", "ready", "dispatching", "stopping", "gone"}

Tasks == /\ npc \in {"down", "idle", "busy", "stopped"}
         /\ bot \in [Bot -> BotPhase]
         /\ stopper \in [Bot -> {"none", "waiting", "over"}]
         /\ open <=> npc \in {"idle", "busy"}

LEMMA JobLeavesReceiver ==
    ASSUME Summary!Job
    PROVE  open' = open
BY DEF Summary!Job, Summary!Plan, Summary!Arm, Summary!Wake, Summary!StopSleeping,
       Summary!Fetch, Summary!FetchFails, Summary!Deal, Summary!SkipUser, Summary!Hand,
       Summary!HandFails, Summary!Settle, Summary!SummaryOver, Summary!channelVars

LEMMA BotMoves ==
    ASSUME Tasks, NEW b \in Bot, Bots(b)
    PROVE  Tasks'
<1>1. UNCHANGED <<npc, open>>
  BY DEF Bots, SetupFails, Setup, Dispatch, StopBot, BotGone, BotStep, channelVars
<1>2. ASSUME NEW to \in BotPhase, bot' = [bot EXCEPT ![b] = to]
      PROVE  bot' \in [Bot -> BotPhase]
  BY <1>2 DEF Tasks
<1>3. bot' \in [Bot -> BotPhase]
  <2>1. CASE SetupFails(b) \/ Setup(b) \/ Dispatch(b) \/ BotGone(b)
    BY <1>2, <2>1 DEF SetupFails, Setup, Dispatch, BotGone, BotStep, BotPhase
  <2>2. CASE StopBot(b)
    BY <2>2 DEF StopBot, Tasks, BotPhase
  <2>3. QED
    BY <2>1, <2>2 DEF Bots
<1>4. stopper' \in [Bot -> {"none", "waiting", "over"}]
  BY DEF Bots, SetupFails, Setup, Dispatch, StopBot, BotGone, Tasks
<1>5. QED
  BY <1>1, <1>3, <1>4 DEF Tasks

LEMMA TasksKept ==
    ASSUME Tasks, [Next]_vars
    PROVE  Tasks'
<1>1. CASE Start
  <2>1. open' = TRUE /\ npc' = "idle"
    BY <1>1 DEF Start, Summary!Start
  <2>2. bot' \in [Bot -> BotPhase] /\ stopper' \in [Bot -> {"none", "waiting", "over"}]
    BY <1>1 DEF Start, BotPhase
  <2>3. QED
    BY <2>1, <2>2 DEF Tasks
<1>2. CASE Exit \/ Crash
  <2>1. open' = FALSE /\ npc' = "down"
    BY <1>2 DEF Exit, Crash, Ends, Summary!ProcessEnds
  <2>2. bot' \in [Bot -> BotPhase] /\ stopper' \in [Bot -> {"none", "waiting", "over"}]
    BY <1>2 DEF Exit, Crash, Ends, BotPhase
  <2>3. QED
    BY <2>1, <2>2 DEF Tasks
<1>3. CASE Service
  <2>1. UNCHANGED <<bot, stopper>>
    BY <1>3 DEF Service, ServiceTake, ServiceDone, ServiceStop, botVars
  <2>2. /\ npc' \in {"idle", "busy", "stopped"}
        /\ open' <=> npc' \in {"idle", "busy"}
    <3>1. CASE ServiceTake \/ ServiceDone
      BY <3>1 DEF ServiceTake, ServiceDone, Summary!Take, channelVars, Tasks
    <3>2. CASE ServiceStop
      BY <3>2 DEF ServiceStop, Summary!ServiceStop
    <3>3. QED
      BY <1>3, <3>1, <3>2 DEF Service
  <2>3. QED
    BY <2>1, <2>2 DEF Tasks
<1>4. CASE \/ CtrlC \/ Join \/ EngineStep \/ EngineSend \/ JobStep \/ Tick
           \/ (\E u \in User, m \in Market : Change(u, m)) \/ UNCHANGED vars
  <2>1. UNCHANGED <<npc, bot, stopper, open>>
    BY <1>4, JobLeavesReceiver
       DEF CtrlC, Join, EngineStep, Engine, EngineSend, JobStep, Tick, Change, Subscribes,
           Unsubscribes, vars, botVars, channelVars, Summary!Tick, Summary!channelVars
  <2>2. QED
    BY <2>1 DEF Tasks
<1>5. QED
  BY <1>1, <1>2, <1>3, <1>4, BotMoves DEF Next, Main

\* The types of the process.  That the receiver is there exactly while its service
\* runs is what lets a sender that finds it gone give up (send, engine.rs).
THEOREM TypeCorrect == Spec => []TypeOK
<1>1. Init => Tasks
  BY DEF Init, Summary!Init, Tasks, BotPhase
<1>2. Tasks /\ [Next]_vars => Tasks'
  BY TasksKept
<1>3. Together /\ PricesInv /\ JobInv /\ Tasks => TypeOK
  <2> SUFFICES ASSUME Together, PricesInv, JobInv, Tasks
               PROVE  TypeOK
    OBVIOUS
  <2>1. Summary!TypeOK
    BY DEF JobInv, Environment, Clockwork, Ledger, Summary!TypeOK
  <2>2. QED
    BY <2>1 DEF Together, PricesInv, Tasks, TypeOK, BotPhase
<1>4. QED
  BY <1>1, <1>2, <1>3, AlwaysTogether, AlwaysPrices, AlwaysJob, PTL DEF Spec

-----------------------------------------------------------------------------
(***************************************************************************)
(* The service the process has goes by the channel's rules, which          *)
(* NotifyService keeps (NotifyService_proofs), and makes every step they   *)
(* allow a service: what holds of the process holds with that service.     *)
(***************************************************************************)
SeenAs == IF npc \in {"down", "stopped"} THEN "away" ELSE npc

Channel == INSTANCE NotificationChannel WITH Item <- User \cup {Alert}, rough <- load.rough,
                                             service <- SeenAs

\* Where main and the service are with each other; a channel without receiver
\* holds nothing.
InStep == /\ npc = "down" <=> mpc = "down"
          /\ npc = "stopped" => cancelled
          /\ mpc = "bots" => npc = "stopped"
          /\ npc \in {"down", "stopped"} => queue = << >>

Joint == Together /\ Tasks /\ JobInv /\ InStep

\* What a task at the sending end does to the channel.
LEMMA SendersKeepChannel ==
    ASSUME Joint, UNCHANGED <<mpc, npc, cancelled, load>>,
           \/ queue' = queue
           \/ \E i \in User \cup {Alert} :
                 open /\ Len(queue) < QueueCap /\ queue' = Append(queue, i)
    PROVE  [Channel!Next]_(Channel!vars) /\ InStep'
<1>1. CASE queue' = queue
  BY <1>1 DEF Channel!vars, SeenAs, Joint, InStep
<1>2. ASSUME NEW i \in User \cup {Alert}, open, Len(queue) < QueueCap, queue' = Append(queue, i)
      PROVE  [Channel!Next]_(Channel!vars) /\ InStep'
  <2>1. npc \in {"idle", "busy"}
    BY <1>2 DEF Joint, Tasks
  <2>2. Channel!Send(i)
    BY <1>2, <2>1 DEF Channel!Send, SeenAs
  <2>3. QED
    BY <2>1, <2>2 DEF Channel!Next, Joint, InStep
<1>3. QED
  BY <1>1, <1>2

LEMMA ServiceKeepsChannel ==
    ASSUME Joint, Service
    PROVE  [Channel!Next]_(Channel!vars) /\ InStep'
<1>0. UNCHANGED <<mpc, cancelled, load>>
  BY DEF Service, ServiceTake, ServiceDone, ServiceStop, Summary!Take, Summary!ServiceStop,
         Summary!environmentVars
<1>1. CASE ServiceTake
  <2>1. Channel!Take
    BY <1>0, <1>1 DEF ServiceTake, Summary!Take, Channel!Take, SeenAs
  <2>2. QED
    BY <1>0, <1>1, <2>1 DEF ServiceTake, Channel!Next, Joint, InStep
<1>2. CASE ServiceDone
  <2>1. Channel!Done
    BY <1>0, <1>2 DEF ServiceDone, Channel!Done, SeenAs, channelVars
  <2>2. QED
    BY <1>0, <1>2, <2>1 DEF ServiceDone, Channel!Next, Joint, InStep
<1>3. CASE ServiceStop
  <2>1. Channel!Leave
    BY <1>0, <1>3 DEF ServiceStop, Summary!ServiceStop, Channel!Leave, Channel!MayLeave, SeenAs
  <2>2. mpc # "bots" /\ mpc # "down" /\ queue' = << >> /\ npc' = "stopped" /\ cancelled
    BY <1>3 DEF ServiceStop, Summary!ServiceStop, Joint, InStep
  <2>3. QED
    BY <1>0, <2>1, <2>2 DEF Channel!Next, InStep
<1>4. QED
  BY <1>1, <1>2, <1>3 DEF Service

LEMMA MainKeepsChannel ==
    ASSUME Joint, Main
    PROVE  [Channel!Next]_(Channel!vars) /\ InStep'
<1>1. CASE Start
  <2>1. /\ mpc = "down" /\ npc = "down" /\ queue = << >> /\ ~cancelled
        /\ npc' = "idle" /\ mpc' = "up" /\ UNCHANGED <<queue, cancelled, load>>
    BY <1>1 DEF Start, Summary!Start, Summary!environmentVars, Joint, Together, InStep
  <2>2. Channel!Begin
    BY <2>1 DEF Channel!Begin, SeenAs
  <2>3. QED
    BY <2>1, <2>2 DEF Channel!Next, InStep
<1>2. CASE CtrlC
  <2>1. /\ mpc = "up" /\ mpc' = "join" /\ ~cancelled /\ cancelled'
        /\ cancelled' = TRUE /\ npc \in {"idle", "busy"} /\ UNCHANGED <<npc, queue, load>>
    BY <1>2 DEF CtrlC, channelVars, Joint, Together, Tasks, InStep
  <2>2. Channel!Cancel
    BY <2>1 DEF Channel!Cancel, SeenAs
  <2>3. QED
    BY <2>1, <2>2 DEF Channel!Next, InStep
<1>3. CASE Join
  BY <1>3 DEF Join, channelVars, Channel!vars, SeenAs, Joint, InStep
<1>4. CASE Exit \/ Crash
  <2>1. /\ npc' = "down" /\ mpc' = "down" /\ queue' = << >> /\ cancelled' = FALSE /\ load' = load
        /\ (npc = "stopped" /\ cancelled) \/ load.rough
    BY <1>4 DEF Exit, Crash, Ends, Summary!ProcessEnds, Joint, InStep
  <2>2. Channel!End
    BY <2>1 DEF Channel!End, SeenAs
  <2>3. QED
    BY <2>1, <2>2 DEF Channel!Next, InStep
<1>5. QED
  BY <1>1, <1>2, <1>3, <1>4 DEF Main

LEMMA ChannelSteps ==
    ASSUME Joint, [Next]_vars
    PROVE  [Channel!Next]_(Channel!vars) /\ InStep'
<1>1. CASE EngineStep \/ EngineSend
  <2>1. UNCHANGED <<mpc, npc, cancelled, load>>
    BY <1>1, EngineSteps DEF Joint, Runs, EngineStep, Engine, EngineSend
  <2>2. \/ queue' = queue
        \/ open /\ Len(queue) < QueueCap /\ queue' = Append(queue, Alert)
    BY <1>1 DEF EngineStep, Engine, EngineSend, channelVars
  <2>3. QED
    BY <2>1, <2>2, SendersKeepChannel
<1>2. CASE JobStep
  <2>1. UNCHANGED <<mpc, npc, cancelled, load>>
    BY <1>2, JobSteps DEF Joint, Runs, JobStep
  <2>2. \/ queue' = queue
        \/ \E u \in User : open /\ Len(queue) < QueueCap /\ queue' = Append(queue, u)
    BY <1>2 DEF JobStep, Summary!Job, Summary!Plan, Summary!Arm, Summary!Wake,
                Summary!StopSleeping, Summary!Fetch, Summary!FetchFails, Summary!Deal,
                Summary!SkipUser, Summary!Hand, Summary!HandFails, Summary!Settle,
                Summary!SummaryOver, Summary!channelVars
  <2>3. QED
    BY <2>1, <2>2, SendersKeepChannel
<1>3. CASE \/ Tick \/ (\E b \in Bot : Bots(b))
           \/ (\E u \in User, m \in Market : Change(u, m)) \/ UNCHANGED vars
  <2>1. UNCHANGED <<mpc, npc, cancelled, load, queue>>
    BY <1>3 DEF Tick, Bots, SetupFails, Setup, Dispatch, StopBot, BotGone, BotStep, Change,
                Subscribes, Unsubscribes, vars, channelVars, Summary!Tick,
                Summary!channelVars, Summary!environmentVars
  <2>2. QED
    BY <2>1, SendersKeepChannel
<1>4. QED
  BY <1>1, <1>2, <1>3, ServiceKeepsChannel, MainKeepsChannel DEF Next

\* Whatever engine, scheduler, bots and main do, the channel between them and the
\* service goes by the rules NotifyService keeps (run of service.rs, main).
THEOREM ChannelInProcess == Spec => Channel!Spec
<1>1. Init => InStep /\ Tasks /\ Channel!Init
  <2>1. Init => load.rough \in BOOLEAN
    BY ProcessAssumption DEF Init
  <2>2. QED
    BY <2>1 DEF Init, InStep, Tasks, BotPhase, Channel!Init, Summary!Init, SeenAs
<1>2. Joint /\ [Next]_vars => InStep' /\ [Channel!Next]_(Channel!vars)
  BY ChannelSteps
<1>3. QED
  BY <1>1, <1>2, TasksKept, AlwaysTogether, AlwaysJob, PTL DEF Spec, Channel!Spec, Joint

\* ... and no service that keeps the rules is left out: wherever the process is, a
\* step the rules allow the service, with the rest of the process standing still
\* and the receiver there exactly while the service is, is a step of Process.  So
\* the few lines of NotifyService that Process has stand for all of it.
THEOREM EveryServiceFits ==
    ASSUME TypeOK, Channel!Take \/ Channel!Done \/ Channel!Leave,
           npc' \in {"idle", "busy", "stopped"}, open' = (npc' # "stopped"),
           UNCHANGED <<subs, stored, flushed, cancelled, engineVars, jobVars, mpc, botVars, load>>
    PROVE  Service
<1>0. /\ npc \in {"down", "idle", "busy", "stopped"}
      /\ open \in BOOLEAN /\ (open <=> npc \in {"idle", "busy"})
  BY DEF TypeOK, Summary!TypeOK
<1>1. CASE Channel!Take
  <2>1. /\ npc = "idle" /\ npc' = "busy" /\ queue # << >> /\ queue' = Tail(queue)
    BY <1>0, <1>1 DEF Channel!Take, SeenAs
  <2>2. open' = open
    BY <1>0, <2>1
  <2>3. QED
    BY <2>1, <2>2 DEF Service, ServiceTake, Summary!Take, Summary!environmentVars,
                      Summary!delayVars, Summary!summaryVars, jobVars
<1>2. CASE Channel!Done
  <2>1. npc = "busy" /\ npc' = "idle" /\ queue' = queue
    BY <1>0, <1>2 DEF Channel!Done, SeenAs
  <2>2. open' = open
    BY <1>0, <2>1
  <2>3. QED
    BY <2>1, <2>2 DEF Service, ServiceDone, channelVars
<1>3. CASE Channel!Leave
  <2>1. npc = "idle" /\ npc' = "stopped" /\ queue' = << >> /\ cancelled
    BY <1>0, <1>3 DEF Channel!Leave, Channel!MayLeave, SeenAs
  <2>2. open /\ open' = FALSE
    BY <1>0, <2>1
  <2>3. QED
    BY <2>1, <2>2 DEF Service, ServiceStop, Summary!ServiceStop, Summary!environmentVars,
                      Summary!delayVars, Summary!summaryVars, jobVars
<1>4. QED
  BY <1>1, <1>2, <1>3
=============================================================================
