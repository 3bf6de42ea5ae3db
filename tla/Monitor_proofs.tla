---------------------------- MODULE Monitor_proofs ----------------------------
(***************************************************************************)
(* Proofs about Monitor: types, that there is one connection at most, that *)
(* the broadcast never goes back in time for a token, and that the delays  *)
(* between reconnects grow.                                                *)
(***************************************************************************)
EXTENDS Monitor, FiniteSetTheorems, TLAPS

-----------------------------------------------------------------------------
(***************************************************************************)
(* The backoff.                                                            *)
(***************************************************************************)
\* A power of two is a number: that of the subsets of a set.
LEMMA PowerOfTwo ==
    ASSUME NEW n \in Nat
    PROVE  2 ^ n \in Nat
<1>1. IsFiniteSet(1..n) /\ Cardinality(1..n) = n
  BY FS_Interval
<1>2. IsFiniteSet(SUBSET (1..n)) /\ Cardinality(SUBSET (1..n)) = 2 ^ n
  BY <1>1, FS_SUBSET
<1>3. QED
  BY <1>2, FS_CardinalityType

\* The delay stays within its maximum, whatever the power comes to.
LEMMA BackoffBounded ==
    ASSUME NEW n \in Nat
    PROVE  Backoff(n) \in 0..MaxDelay
<1>1. PICK p : p = 2 ^ n
  OBVIOUS
<1>2. p \in Nat
  BY <1>1, PowerOfTwo
<1>3. Base \in Nat /\ MaxDelay \in Nat /\ U32Max \in Nat
  BY MonitorAssumption
<1>4. PICK q : q = AtMost(p, U32Max)
  OBVIOUS
<1>5. q \in Nat
  BY <1>2, <1>3, <1>4 DEF AtMost
<1>6. Base * q \in Nat
  BY <1>3, <1>5
<1>7. AtMost(Base * q, MaxDelay) \in 0..MaxDelay
  BY <1>3, <1>6 DEF AtMost
<1>8. QED
  BY <1>1, <1>4, <1>7 DEF Backoff

\* Of the powers of two the backoff needs three facts; they too are read off the
\* subsets of 1..n.
LEMMA FirstPower == 2 ^ 0 = 1
<1>1. IsFiniteSet({}) /\ Cardinality({}) = 0
  BY FS_EmptySet
<1>2. Cardinality(SUBSET {}) = 2 ^ Cardinality({})
  BY <1>1, FS_SUBSET
<1>3. SUBSET {} = {{}}
  OBVIOUS
<1>4. Cardinality({{}}) = 1
  BY FS_Singleton
<1>5. QED
  BY <1>1, <1>2, <1>3, <1>4

\* The subsets of 1..(n + 1) are those of 1..n, without and with n + 1.
LEMMA NextPower ==
    ASSUME NEW n \in Nat
    PROVE  2 ^ (n + 1) = 2 ^ n + 2 ^ n
<1> DEFINE S == SUBSET (1..n)
           T == {s \cup {n + 1} : s \in S}
           f == [s \in S |-> s \cup {n + 1}]
<1>1. IsFiniteSet(1..n) /\ Cardinality(1..n) = n
  BY FS_Interval
<1>2. IsFiniteSet(1..(n + 1)) /\ Cardinality(1..(n + 1)) = n + 1
  <2>1. n + 1 \in Int /\ 1 \in Int /\ ~(1 > n + 1) /\ (n + 1) - 1 + 1 = n + 1
    OBVIOUS
  <2>2. QED
    BY ONLY <2>1, FS_Interval
<1>3. IsFiniteSet(S) /\ Cardinality(S) = 2 ^ n
  BY <1>1, FS_SUBSET
<1>4. Cardinality(SUBSET (1..(n + 1))) = 2 ^ (n + 1)
  BY <1>2, FS_SUBSET
<1>5. IsFiniteSet(T) /\ Cardinality(T) = Cardinality(S)
  <2>1. f \in Bijection(S, T)
    <3>1. ASSUME NEW s \in S, NEW t \in S, s \cup {n + 1} = t \cup {n + 1}
          PROVE  s = t
      <4>1. n + 1 \notin s /\ n + 1 \notin t
        OBVIOUS
      <4>2. QED
        BY <3>1, <4>1
    <3>2. f \in [S -> T] /\ \A s \in S : f[s] = s \cup {n + 1}
      OBVIOUS
    <3>3. \A t \in T : \E s \in S : f[s] = t
      BY <3>2
    <3> HIDE DEF S, T, f
    <3>4. IsInjective(f)
      BY <3>1, <3>2 DEF IsInjective
    <3>5. QED
      BY <3>2, <3>3, <3>4 DEF Bijection, Injection, Surjection
  <2>2. ExistsBijection(S, T)
    BY <2>1 DEF ExistsBijection
  <2>3. QED
    BY <1>3, <2>2, FS_Bijection
<1>6. S \cup T = SUBSET (1..(n + 1))
  <2>1. ASSUME NEW s \in SUBSET (1..(n + 1))
        PROVE  s \in S \cup T
    <3>1. s \ {n + 1} \in S
      OBVIOUS
    <3>2. CASE n + 1 \in s
      <4>1. s = (s \ {n + 1}) \cup {n + 1}
        BY <3>2
      <4>2. QED
        BY <3>1, <4>1
    <3>3. CASE n + 1 \notin s
      <4>1. s = s \ {n + 1}
        BY <3>3
      <4>2. QED
        BY <3>1, <4>1
    <3>4. QED
      BY <3>2, <3>3
  <2>2. 1..n \subseteq 1..(n + 1) /\ n + 1 \in 1..(n + 1)
    OBVIOUS
  <2>3. S \cup T \subseteq SUBSET (1..(n + 1))
    BY <2>2
  <2>4. QED
    BY <2>1, <2>3
<1>7. S \cap T = {}
  OBVIOUS
<1>8. Cardinality(S \cup T) = Cardinality(S) + Cardinality(T) - Cardinality(S \cap T)
  BY <1>3, <1>5, FS_Union
<1>9. Cardinality(S \cap T) = 0
  BY <1>7, FS_EmptySet
<1>10. PICK p \in Nat : p = 2 ^ n
  BY PowerOfTwo
<1>11. 2 ^ (n + 1) = p + p - 0
  <2> HIDE DEF S, T, f
  <2>1. Cardinality(S \cup T) = 2 ^ (n + 1)
    BY <1>4, <1>6
  <2>2. Cardinality(S) = p /\ Cardinality(T) = p
    BY <1>3, <1>5, <1>10
  <2>3. QED
    BY <1>8, <1>9, <2>1, <2>2
<1>12. QED
  BY <1>10, <1>11

\* A set has a subset of one element for each of its elements.
LEMMA PowerGrows ==
    ASSUME NEW n \in Nat
    PROVE  2 ^ n >= n
<1> DEFINE f == [i \in 1..n |-> {i}]
<1>1. IsFiniteSet(1..n) /\ Cardinality(1..n) = n
  BY FS_Interval
<1>2. IsFiniteSet(SUBSET (1..n)) /\ Cardinality(SUBSET (1..n)) = 2 ^ n
  BY <1>1, FS_SUBSET
<1>3. f \in Injection(1..n, SUBSET (1..n))
  BY DEF Injection, IsInjective
<1>4. Cardinality(1..n) <= Cardinality(SUBSET (1..n))
  BY <1>2, <1>3, FS_Injection
<1>5. QED
  BY <1>1, <1>2, <1>4, PowerOfTwo

\* The delays start from the base; each is longer than the one before until
\* neither can be; with the attempt counter at its own maximum they are at theirs.
LEMMA BackoffGrows ==
    /\ Backoff(0) = AtMost(Base, MaxDelay)
    /\ \A n \in Nat : \/ Backoff(n + 1) > Backoff(n)
                      \/ Backoff(n + 1) = AtMost(Base * U32Max, MaxDelay)
    /\ Backoff(U32Max) = AtMost(Base * U32Max, MaxDelay)
<1>0. Base \in Nat \ {0} /\ MaxDelay \in Nat /\ U32Max \in Nat \ {0}
  BY MonitorAssumption
<1>1. Backoff(0) = AtMost(Base, MaxDelay)
  <2>1. AtMost(2 ^ 0, U32Max) = 1
    BY <1>0, FirstPower DEF AtMost
  <2>2. Base * 1 = Base
    BY <1>0
  <2>3. QED
    BY <2>1, <2>2 DEF Backoff
<1>2. ASSUME NEW n \in Nat
      PROVE  \/ Backoff(n + 1) > Backoff(n)
             \/ Backoff(n + 1) = AtMost(Base * U32Max, MaxDelay)
  <2>1. PICK p \in Nat : p = 2 ^ n
    BY PowerOfTwo
  <2>2. 2 ^ (n + 1) = p + p
    BY <2>1, NextPower
  <2>3. p >= 1
    <3>1. CASE n = 0
      BY <2>1, <3>1, FirstPower
    <3>2. CASE n # 0
      BY <2>1, <3>2, PowerGrows
    <3>3. QED
      BY <3>1, <3>2
  <2>4. CASE p + p >= U32Max
    <3>1. AtMost(p + p, U32Max) = U32Max
      BY <1>0, <2>4 DEF AtMost
    <3>2. QED
      BY <2>2, <3>1 DEF Backoff
  <2>5. CASE p + p < U32Max
    <3>1. AtMost(p + p, U32Max) = p + p /\ AtMost(p, U32Max) = p
      BY <1>0, <2>5 DEF AtMost
    <3>2. PICK q \in Nat : q = Base * p
      BY <1>0
    <3>3. Base * (p + p) = q + q /\ q >= 1
      BY <1>0, <2>3, <3>2
    <3>4. Backoff(n) = AtMost(q, MaxDelay) /\ Backoff(n + 1) = AtMost(q + q, MaxDelay)
      BY <2>1, <2>2, <3>1, <3>2, <3>3 DEF Backoff
    <3>5. CASE q < MaxDelay
      BY <1>0, <3>3, <3>4, <3>5 DEF AtMost
    <3>6. CASE q >= MaxDelay
      <4>1. PICK top \in Nat : top = Base * U32Max
        BY <1>0
      <4>2. top >= q
        <5>1. Base * p <= Base * U32Max
          BY <1>0, <2>1, <2>5
        <5>2. QED
          BY <3>2, <4>1, <5>1
      <4>3. AtMost(q + q, MaxDelay) = MaxDelay /\ AtMost(top, MaxDelay) = MaxDelay
        BY <1>0, <3>3, <3>6, <4>2 DEF AtMost
      <4>4. QED
        BY <3>4, <4>1, <4>3
    <3>7. QED
      BY <1>0, <3>5, <3>6
  <2>6. QED
    BY <1>0, <2>4, <2>5
<1>3. Backoff(U32Max) = AtMost(Base * U32Max, MaxDelay)
  <2>1. 2 ^ U32Max \in Nat /\ 2 ^ U32Max >= U32Max
    BY <1>0, PowerOfTwo, PowerGrows
  <2>2. AtMost(2 ^ U32Max, U32Max) = U32Max
    BY <1>0, <2>1 DEF AtMost
  <2>3. QED
    BY <2>2 DEF Backoff
<1>4. QED
  BY <1>1, <1>2, <1>3

-----------------------------------------------------------------------------
(***************************************************************************)
(* Sequences of events.                                                    *)
(***************************************************************************)
LEMMA NoEvents == ASSUME NEW S
                  PROVE  << >> \in Seq(S)
OBVIOUS

LEMMA EventAt == ASSUME NEW S, NEW s \in Seq(S)
                 PROVE  \A i \in 1..Len(s) : s[i] \in S
OBVIOUS

LEMMA AppendEvent ==
    ASSUME NEW S, NEW s \in Seq(S), NEW e \in S
    PROVE  /\ Append(s, e) \in Seq(S)
           /\ DOMAIN s = 1..Len(s) /\ Len(s) \in Nat
           /\ DOMAIN Append(s, e) = 1..(Len(s) + 1)
           /\ \A i \in 1..Len(s) : Append(s, e)[i] = s[i]
           /\ Append(s, e)[Len(s) + 1] = e
OBVIOUS

LEMMA FirstEvent ==
    ASSUME NEW S, NEW s \in Seq(S), s # << >>
    PROVE  /\ Head(s) \in S /\ Head(s) = s[1] /\ Tail(s) \in Seq(S)
           /\ DOMAIN s = 1..Len(s) /\ Len(s) \in Nat \ {0}
           /\ DOMAIN Tail(s) = 1..(Len(s) - 1)
           /\ \A i \in 1..(Len(s) - 1) : Tail(s)[i] = s[i + 1]
OBVIOUS

-----------------------------------------------------------------------------
(***************************************************************************)
(* Types.                                                                  *)
(***************************************************************************)
\* The fields of a task.
LEMMA TaskFields ==
    ASSUME NEW r \in Task
    PROVE  /\ r.pc \in {"done", "idle", "connect", "stream", "backoff"}
           /\ r.tokens \in SUBSET Token /\ r.cancel \in BOOLEAN
           /\ r.ws \in {"none", "dialing", "open", "closed"}
           /\ r.events \in Seq(Event) /\ r.any \in BOOLEAN
           /\ r.attempt \in 0..U32Max /\ r.delay \in 0..MaxDelay
BY DEF Task

LEMMA DeadIsTask == Dead \in Task
BY MonitorAssumption DEF Task, Dead

\* A step of one task.
LEMMA BecomeTyped ==
    ASSUME TypeOK, NEW c \in Conn, NEW r \in Task, Become(c, r),
           tick' \in 0..MaxTick, seen' \in [Token -> 0..MaxTick]
    PROVE  TypeOK'
BY DEF TypeOK, Become, serviceVars

\* Only values of their types are ever written.
THEOREM TypeCorrect == Spec => []TypeOK
<1>1. Init => TypeOK
  <2> SUFFICES ASSUME Init
               PROVE  TypeOK
    OBVIOUS
  <2>1. task \in [Conn -> Task]
    BY DeadIsTask DEF Init
  <2>2. tick \in 0..MaxTick /\ seen \in [Token -> 0..MaxTick]
    BY MonitorAssumption DEF Init
  <2>3. QED
    BY <2>1, <2>2 DEF Init, TypeOK
<1>2. TypeOK /\ [Next]_vars => TypeOK'
  <2> SUFFICES ASSUME TypeOK, [Next]_vars
               PROVE  TypeOK'
    OBVIOUS
  <2> USE MonitorAssumption
  <2>0. \A c \in Conn : task[c] \in Task
    BY DEF TypeOK
  <2>1. CASE Fetch \/ FetchFails \/ RetryFetch \/ Stopped \/ ConnExited \/ Swapped
    BY <2>1 DEF TypeOK, Fetch, FetchFails, RetryFetch, Stopped, ConnExited, Swapped, marketVars
  <2>2. ASSUME NEW c \in Conn, Spawn(c)
        PROVE  TypeOK'
    <3> DEFINE r == [Dead EXCEPT !.pc = IF ids = {} THEN "idle" ELSE "connect", !.tokens = ids]
    <3>1. r \in Task
      BY DeadIsTask DEF TypeOK, Task, Dead
    <3>2. task' = [task EXCEPT ![c] = r]
      BY <2>2 DEF Spawn
    <3> HIDE DEF r
    <3>3. QED
      BY <2>2, <3>1, <3>2 DEF TypeOK, Spawn, marketVars
  <2>3. CASE Shutdown \/ Refresh
    <3> DEFINE r == [task[cur] EXCEPT !.cancel = TRUE]
    <3>1. cur \in Conn /\ task' = [task EXCEPT ![cur] = r]
      BY <2>3 DEF TypeOK, Shutdown, Refresh
    <3>2. r \in Task
      BY <2>0, <3>1 DEF Task
    <3> HIDE DEF r
    <3>3. QED
      BY <2>3, <3>1, <3>2 DEF TypeOK, Shutdown, Refresh, marketVars
  <2>4. ASSUME NEW c \in Conn, Manager(c) \/ Session(c)
        PROVE  TypeOK'
    <3>1. /\ tick \in 0..MaxTick /\ seen \in [Token -> 0..MaxTick]
          /\ task[c] \in Task
      BY <2>0 DEF TypeOK
    <3>2. CASE ManagerEnds(c) \/ Panic(c)
      BY <3>1, <3>2, DeadIsTask, BecomeTyped DEF ManagerEnds, Panic, marketVars
    <3>3. CASE StartSession(c)
      <4>0. PICK none \in Seq(Event) : none = << >>
        BY NoEvents
      <4> DEFINE r == [task[c] EXCEPT !.pc = "stream", !.ws = "dialing",
                                      !.events = none, !.any = FALSE]
      <4>1. r \in Task
        BY <3>1, <4>0 DEF Task
      <4>2. Become(c, r) /\ UNCHANGED marketVars
        BY <3>3, <4>0 DEF StartSession
      <4> HIDE DEF r
      <4>3. QED
        BY <3>1, <4>1, <4>2, BecomeTyped DEF marketVars
    <3>4. CASE Forward(c)
      <4>1. PICK e : e = Head(task[c].events)
        OBVIOUS
      <4>2. PICK tail : tail = Tail(task[c].events)
        OBVIOUS
      <4>3. e \in Event /\ tail \in Seq(Event)
        BY <3>1, <3>4, <4>1, <4>2, FirstEvent, TaskFields DEF Forward
      <4> DEFINE r == [task[c] EXCEPT !.events = tail, !.any = task[c].any \/ e.n # 0]
      <4>4. r \in Task
        BY <3>1, <4>3 DEF Task
      <4>5. /\ Become(c, r)
            /\ seen' = IF e.n = 0 THEN seen ELSE [seen EXCEPT ![e.token] = e.n]
            /\ tick' = tick
        BY <3>4, <4>1, <4>2 DEF Forward
      <4>6. seen' \in [Token -> 0..MaxTick]
        BY <3>1, <4>3, <4>5 DEF Event
      <4> HIDE DEF r
      <4>7. QED
        BY <3>1, <4>4, <4>5, <4>6, BecomeTyped
    <3>5. CASE SessionOver(c)
      <4>1. PICK attempt : attempt = IF task[c].any THEN 0 ELSE task[c].attempt
        OBVIOUS
      <4>2. PICK delay : delay = Backoff(attempt)
        OBVIOUS
      <4>3. PICK next : next = AtMost(attempt + 1, U32Max)
        OBVIOUS
      <4>4. attempt \in Nat
        BY <3>1, <4>1, TaskFields
      <4>5. delay \in 0..MaxDelay /\ next \in 0..U32Max
        BY <4>2, <4>3, <4>4, BackoffBounded DEF AtMost
      <4> DEFINE r == [task[c] EXCEPT !.pc = "backoff", !.ws = "none", !.delay = delay,
                                      !.attempt = next]
      <4>6. r \in Task
        BY <3>1, <4>5 DEF Task
      <4>7. Become(c, r) /\ UNCHANGED marketVars
        BY <3>5, <4>1, <4>2, <4>3 DEF SessionOver
      <4> HIDE DEF r
      <4>8. QED
        BY <3>1, <4>6, <4>7, BecomeTyped DEF marketVars
    <3>6. CASE BackoffOver(c)
      <4> DEFINE r == [task[c] EXCEPT !.pc = "connect"]
      <4>1. r \in Task
        BY <3>1 DEF Task
      <4>2. Become(c, r) /\ UNCHANGED marketVars
        BY <3>6 DEF BackoffOver
      <4> HIDE DEF r
      <4>3. QED
        BY <3>1, <4>1, <4>2, BecomeTyped DEF marketVars
    <3>7. CASE Open(c) \/ Close(c)
      <4>1. PICK ws \in {"open", "closed"} : /\ Become(c, [task[c] EXCEPT !.ws = ws])
                                             /\ UNCHANGED marketVars
        BY <3>7 DEF Open, Close
      <4> DEFINE r == [task[c] EXCEPT !.ws = ws]
      <4>2. r \in Task
        BY <3>1 DEF Task
      <4>3. Become(c, r)
        BY <4>1
      <4> HIDE DEF r
      <4>4. QED
        BY <3>1, <4>1, <4>2, <4>3, BecomeTyped DEF marketVars
    <3>8. QED
      BY <2>4, <3>2, <3>3, <3>4, <3>5, <3>6, <3>7 DEF Manager, Session
  <2>5. ASSUME NEW t \in Token, MarketTick(t) \/ MarketBook(t)
        PROVE  TypeOK'
    <3>1. PICK e \in Event : Deliver(e)
      BY <2>5 DEF MarketTick, MarketBook, Event, TypeOK
    <3>2. task' \in [Conn -> Task]
      <4> DEFINE new(c) == IF task[c].ws = "open" /\ e.token \in task[c].tokens
                             THEN [task[c] EXCEPT !.events = Append(@, e)] ELSE task[c]
      <4>1. task' = [c \in Conn |-> new(c)]
        BY <3>1 DEF Deliver
      <4>2. ASSUME NEW c \in Conn
            PROVE  new(c) \in Task
        <5>1. PICK s : s = Append(task[c].events, e)
          OBVIOUS
        <5>2. s \in Seq(Event)
          BY <2>0, <5>1, AppendEvent, TaskFields
        <5>3. [task[c] EXCEPT !.events = s] \in Task
          BY <2>0, <5>2 DEF Task
        <5>4. QED
          BY <2>0, <5>1, <5>3
      <4> HIDE DEF new
      <4>3. QED
        BY <4>1, <4>2
    <3>3. QED
      BY <2>5, <3>2 DEF TypeOK, MarketTick, MarketBook, serviceVars
  <2>6. CASE Cancel \/ \E t \in Token : Change(t)
    BY <2>6 DEF TypeOK, Cancel, Change, Subscribe, Unsubscribe, serviceVars, marketVars
  <2>7. CASE UNCHANGED vars
    BY <2>7 DEF TypeOK, vars, serviceVars, marketVars
  <2>8. QED
    BY <2>1, <2>2, <2>3, <2>4, <2>5, <2>6, <2>7 DEF Next, Service
<1>3. QED
  BY <1>1, <1>2, PTL DEF Spec

-----------------------------------------------------------------------------
(***************************************************************************)
(* One connection.                                                         *)
(***************************************************************************)
\* What a step of one connection task leaves of the task.
LEMMA ManagerSteps ==
    ASSUME TypeOK, NEW c \in Conn, Manager(c) \/ Session(c)
    PROVE  \E r : /\ Become(c, r)
                  /\ Alive(c) \/ r.pc = "done"
                  /\ r.pc = "done" \/ r.tokens = task[c].tokens
<1>0. task[c] \in Task
  BY DEF TypeOK
<1> DEFINE Fits(r) == Become(c, r) /\ (Alive(c) \/ r.pc = "done")
                        /\ (r.pc = "done" \/ r.tokens = task[c].tokens)
<1>1. CASE ManagerEnds(c) \/ Panic(c)
  <2>1. Become(c, Dead) /\ Dead.pc = "done"
    BY <1>1 DEF ManagerEnds, Panic, Dead
  <2>2. QED
    BY <2>1
<1>2. CASE StartSession(c)
  <2> DEFINE r == [task[c] EXCEPT !.pc = "stream", !.ws = "dialing",
                                  !.events = << >>, !.any = FALSE]
  <2>1. r.tokens = task[c].tokens /\ Alive(c)
    BY <1>0, <1>2 DEF Task, StartSession, Alive
  <2>2. Become(c, r)
    BY <1>2 DEF StartSession
  <2> HIDE DEF r
  <2>3. QED
    BY <2>1, <2>2
<1>3. CASE Forward(c)
  <2> DEFINE r == [task[c] EXCEPT !.events = Tail(@),
                                  !.any = @ \/ Head(task[c].events).n # 0]
  <2>1. r.tokens = task[c].tokens /\ Alive(c)
    BY <1>0, <1>3 DEF Task, Forward, Alive
  <2>2. Become(c, r)
    BY <1>3 DEF Forward
  <2> HIDE DEF r
  <2>3. QED
    BY <2>1, <2>2
<1>4. CASE SessionOver(c)
  <2> DEFINE attempt == IF task[c].any THEN 0 ELSE task[c].attempt
             r == [task[c] EXCEPT !.pc = "backoff", !.ws = "none", !.delay = Backoff(attempt),
                                  !.attempt = AtMost(attempt + 1, U32Max)]
  <2>1. r.tokens = task[c].tokens /\ Alive(c)
    BY <1>0, <1>4 DEF Task, SessionOver, Alive
  <2>2. Become(c, r)
    BY <1>4 DEF SessionOver
  <2> HIDE DEF r
  <2>3. QED
    BY <2>1, <2>2
<1>5. CASE BackoffOver(c)
  <2> DEFINE r == [task[c] EXCEPT !.pc = "connect"]
  <2>1. r.tokens = task[c].tokens /\ Alive(c)
    BY <1>0, <1>5 DEF Task, BackoffOver, Alive
  <2>2. Become(c, r)
    BY <1>5 DEF BackoffOver
  <2> HIDE DEF r
  <2>3. QED
    BY <2>1, <2>2
<1>6. CASE Open(c) \/ Close(c)
  <2>1. PICK ws : Become(c, [task[c] EXCEPT !.ws = ws])
    BY <1>6 DEF Open, Close
  <2> DEFINE r == [task[c] EXCEPT !.ws = ws]
  <2>2. r.tokens = task[c].tokens /\ r.pc = task[c].pc
    BY <1>0 DEF Task
  <2>3. Become(c, r)
    BY <2>1
  <2> HIDE DEF r
  <2>4. QED
    BY <2>2, <2>3 DEF Alive
<1>7. QED
  BY <1>1, <1>2, <1>3, <1>4, <1>5, <1>6 DEF Manager, Session

\* An event reaches sessions and changes nothing else of a task.
LEMMA DeliverKeeps ==
    ASSUME TypeOK, NEW e, Deliver(e), NEW c \in Conn
    PROVE  task'[c].pc = task[c].pc /\ task'[c].tokens = task[c].tokens
<1>1. task[c] \in Task
  BY DEF TypeOK
<1> DEFINE r == [task[c] EXCEPT !.events = Append(@, e)]
<1>2. r.pc = task[c].pc /\ r.tokens = task[c].tokens
  BY <1>1 DEF Task
<1>3. task'[c] = IF task[c].ws = "open" /\ e.token \in task[c].tokens THEN r ELSE task[c]
  BY DEF Deliver
<1> HIDE DEF r
<1>4. QED
  BY <1>2, <1>3

\* Being told to stop changes nothing else of a task.
LEMMA ToldToStop ==
    ASSUME TypeOK, task' = [task EXCEPT ![cur].cancel = TRUE], NEW c \in Conn
    PROVE  /\ task'[c].pc = task[c].pc /\ task'[c].tokens = task[c].tokens
           /\ task'[c].events = task[c].events /\ task'[c].ws = task[c].ws
<1>1. task[c] \in Task /\ cur \in Conn /\ task \in [Conn -> Task]
  BY DEF TypeOK
<1> DEFINE r == [task[c] EXCEPT !.cancel = TRUE]
<1>2. /\ r.pc = task[c].pc /\ r.tokens = task[c].tokens
      /\ r.events = task[c].events /\ r.ws = task[c].ws
  BY <1>1 DEF Task
<1>3. task'[c] = IF c = cur THEN r ELSE task[c]
  BY <1>1
<1> HIDE DEF r
<1>4. QED
  BY <1>2, <1>3

\* However refreshes, reconnects, panics and shutdown interleave, there is one
\* connection at most, the one the service can stop, for the tokens it believes
\* in (MonitorService::run).  The invariant is inductive as it stands.
THEOREM NeverTwo == Spec => []OneConnection
<1>1. Init => OneConnection
  BY DEF Init, OneConnection, Alive, Dead
<1>2. TypeOK /\ OneConnection /\ [Next]_vars => OneConnection'
  <2> SUFFICES ASSUME TypeOK, OneConnection, [Next]_vars
               PROVE  OneConnection'
    OBVIOUS
  <2>0. cur \in Conn /\ task \in [Conn -> Task]
    BY DEF TypeOK
  <2>1. CASE Fetch \/ FetchFails \/ RetryFetch \/ Stopped \/ ConnExited \/ Swapped
    <3>1. task' = task /\ cur' = cur
      BY <2>1 DEF Fetch, FetchFails, RetryFetch, Stopped, ConnExited, Swapped
    <3>2. \A c \in Conn : ~Alive(c)
      BY <2>1 DEF OneConnection, Fetch, FetchFails, RetryFetch, Stopped, ConnExited, Swapped
    <3>3. QED
      BY <3>1, <3>2 DEF OneConnection, Alive
  <2>2. ASSUME NEW c \in Conn, Spawn(c)
        PROVE  OneConnection'
    <3> DEFINE r == [Dead EXCEPT !.pc = IF ids = {} THEN "idle" ELSE "connect", !.tokens = ids]
    <3>1. r.tokens = ids
      BY DEF Dead
    <3>2. task' = [task EXCEPT ![c] = r] /\ cur' = c /\ ids' = ids /\ spc' = "watch"
      BY <2>2 DEF Spawn
    <3> HIDE DEF r
    <3>3. \A d \in Conn : ~Alive(d)
      BY <2>2 DEF OneConnection, Spawn
    <3>4. QED
      BY <2>0, <3>1, <3>2, <3>3 DEF OneConnection, Alive
  <2>3. CASE Shutdown \/ Refresh
    <3>1. /\ task' = [task EXCEPT ![cur].cancel = TRUE]
          /\ cur' = cur /\ ids' = ids /\ spc' \in {"closing", "swap"}
      BY <2>3 DEF Shutdown, Refresh
    <3>2. QED
      BY <3>1, ToldToStop DEF OneConnection, Alive
  <2>4. ASSUME NEW c \in Conn, Manager(c) \/ Session(c)
        PROVE  OneConnection'
    <3>1. PICK r : /\ Become(c, r)
                   /\ Alive(c) \/ r.pc = "done"
                   /\ r.pc = "done" \/ r.tokens = task[c].tokens
      BY <2>4, ManagerSteps
    <3>2. QED
      BY <2>0, <3>1 DEF OneConnection, Alive, Become, serviceVars
  <2>5. ASSUME NEW t \in Token, MarketTick(t) \/ MarketBook(t)
        PROVE  OneConnection'
    <3>1. PICK e : Deliver(e)
      BY <2>5 DEF MarketTick, MarketBook
    <3>2. UNCHANGED serviceVars
      BY <2>5 DEF MarketTick, MarketBook
    <3>3. QED
      BY <3>1, <3>2, DeliverKeeps DEF OneConnection, Alive, serviceVars
  <2>6. CASE Cancel \/ (\E t \in Token : Change(t)) \/ UNCHANGED vars
    BY <2>6 DEF OneConnection, Alive, Cancel, Change, Subscribe, Unsubscribe, vars, serviceVars
  <2>7. QED
    BY <2>1, <2>2, <2>3, <2>4, <2>5, <2>6 DEF Next, Service
<1>3. QED
  BY <1>1, <1>2, TypeCorrect, PTL DEF Spec

-----------------------------------------------------------------------------
(***************************************************************************)
(* The order of the broadcast.  Events wait in the order the market sent   *)
(* them, all newer than what has been broadcast for their tokens, and only *)
(* the one live connection has any.                                        *)
(***************************************************************************)
Orderly(es, shown, upTo) ==
    \A i \in 1..Len(es) :
       /\ es[i].n <= upTo
       /\ es[i].n # 0 => es[i].n > shown[es[i].token]
       /\ \A j \in 1..Len(es) : i < j /\ es[j].n # 0 => es[i].n < es[j].n

Waiting ==
    /\ \A t \in Token : seen[t] <= tick
    /\ \A c \in Conn : /\ Orderly(task[c].events, seen, tick)
                       /\ Alive(c) \/ (task[c].events = << >> /\ task[c].ws = "none")

\* A step of a task that leaves its events alone, or drops them.
LEMMA WaitingKept ==
    ASSUME TypeOK, Waiting, NEW c \in Conn, NEW r, Become(c, r), UNCHANGED marketVars,
           r.events \in {task[c].events, << >>},
           r.pc # "done" \/ (r.events = << >> /\ r.ws = "none")
    PROVE  Waiting'
BY DEF TypeOK, Waiting, Orderly, Alive, Become, marketVars, serviceVars

\* The next event goes out; it is newer than anything sent for its token.
LEMMA Forwarding ==
    ASSUME TypeOK, OneConnection, Waiting, NEW c \in Conn, Forward(c)
    PROVE  Waiting' /\ \A t \in Token : seen'[t] >= seen[t]
<1>1. /\ task[c] \in Task /\ task[c].events # << >> /\ task[c].events \in Seq(Event)
      /\ tick \in Nat /\ seen \in [Token -> 0..MaxTick] /\ MaxTick \in Nat
  BY MonitorAssumption, TaskFields DEF TypeOK, Forward
<1>2. PICK es \in Seq(Event) : es = task[c].events /\ es # << >>
  BY <1>1
<1>3. PICK e \in Event : e = Head(es)
  BY <1>2, FirstEvent
<1>4. PICK rest \in Seq(Event) : rest = Tail(es)
  BY <1>2, FirstEvent
<1>5. /\ e = es[1] /\ Len(es) \in Nat \ {0} /\ Len(rest) = Len(es) - 1
      /\ \A i \in 1..Len(rest) : rest[i] = es[i + 1] /\ rest[i] \in Event
      /\ \A i \in 1..Len(es) : es[i] \in Event
  BY <1>2, <1>3, <1>4, FirstEvent
<1>6. e.token \in Token /\ e.n \in Nat
  BY <1>3, MonitorAssumption DEF Event
<1>7. Orderly(es, seen, tick)
  BY <1>2 DEF Waiting
<1>8. e.n <= tick /\ (e.n # 0 => e.n > seen[e.token])
  BY <1>5, <1>7 DEF Orderly
<1>9. /\ seen' = IF e.n = 0 THEN seen ELSE [seen EXCEPT ![e.token] = e.n]
      /\ tick' = tick
  BY <1>2, <1>3 DEF Forward
<1> DEFINE r == [task[c] EXCEPT !.events = rest, !.any = task[c].any \/ e.n # 0]
<1>10. r.events = rest /\ r.pc = task[c].pc
  BY <1>1 DEF Task
<1>11. Become(c, r)
  BY <1>2, <1>3, <1>4 DEF Forward
<1> HIDE DEF r
<1>12. Orderly(rest, seen', tick')
  <2> SUFFICES ASSUME NEW i \in 1..Len(rest)
               PROVE  /\ rest[i].n <= tick
                      /\ rest[i].n # 0 => rest[i].n > seen'[rest[i].token]
                      /\ \A j \in 1..Len(rest) :
                            i < j /\ rest[j].n # 0 => rest[i].n < rest[j].n
    BY <1>9 DEF Orderly
  <2>1. i + 1 \in 1..Len(es) /\ rest[i] = es[i + 1] /\ 1 \in 1..Len(es) /\ 1 < i + 1
    BY <1>5
  <2>2. rest[i].n <= tick /\ (rest[i].n # 0 => rest[i].n > seen[rest[i].token])
    BY <1>7, <2>1 DEF Orderly
  <2>3. rest[i].n # 0 => e.n < rest[i].n
    BY <1>5, <1>7, <2>1 DEF Orderly
  <2>4. rest[i].token \in Token
    BY <1>5 DEF Event
  <2>5. rest[i].n # 0 => rest[i].n > seen'[rest[i].token]
    BY <1>1, <1>6, <1>9, <2>2, <2>3, <2>4
  <2>6. ASSUME NEW j \in 1..Len(rest), i < j, rest[j].n # 0
        PROVE  rest[i].n < rest[j].n
    <3>1. j + 1 \in 1..Len(es) /\ rest[j] = es[j + 1] /\ i + 1 < j + 1
      BY <1>5, <2>6
    <3>2. QED
      BY <1>7, <2>1, <2>6, <3>1 DEF Orderly
  <2>7. QED
    BY <2>2, <2>5, <2>6
<1>13. ASSUME NEW d \in Conn, d # c
       PROVE  task'[d] = task[d] /\ Len(task[d].events) = 0 /\ ~Alive(d)
  <2>1. ~Alive(d)
    BY <1>13 DEF OneConnection, Forward, Alive
  <2>2. QED
    BY <1>11, <1>13, <2>1 DEF Waiting, Become, TypeOK
<1>14. task'[c] = r /\ Alive(c)
  BY <1>11 DEF Become, TypeOK, Forward, Alive
<1>15. \A t \in Token : seen'[t] <= tick' /\ seen'[t] >= seen[t]
  BY <1>1, <1>6, <1>8, <1>9 DEF Waiting
<1>16. \A d \in Conn : Orderly(task'[d].events, seen', tick')
  BY <1>10, <1>12, <1>13, <1>14 DEF Orderly
<1>17. QED
  BY <1>10, <1>13, <1>14, <1>15, <1>16 DEF Waiting, Alive

\* Events are queued in the order of the market.
LEMMA Delivering ==
    ASSUME TypeOK, Waiting, NEW e \in Event, Deliver(e), tick' = tick + 1, seen' = seen,
           e.n \in {0, tick + 1}
    PROVE  Waiting'
<1>1. tick \in Nat /\ seen \in [Token -> 0..MaxTick] /\ MaxTick \in Nat
  BY MonitorAssumption DEF TypeOK
<1>2. ASSUME NEW c \in Conn
      PROVE  /\ Orderly(task'[c].events, seen', tick')
             /\ Alive(c)' \/ (task'[c].events = << >> /\ task'[c].ws = "none")
  <2>1. PICK es \in Seq(Event) : es = task[c].events /\ task[c] \in Task
    BY TaskFields DEF TypeOK
  <2>2. /\ Orderly(es, seen, tick)
        /\ Alive(c) \/ (es = << >> /\ task[c].ws = "none")
    BY <2>1 DEF Waiting
  <2>3. \A i \in 1..Len(es) : es[i] \in Event /\ es[i].n \in Nat
    <3>1. \A i \in 1..Len(es) : es[i] \in Event
      BY EventAt
    <3>2. QED
      BY <3>1, MonitorAssumption DEF Event
  <2>4. Orderly(es, seen', tick')
    BY <1>1, <2>2, <2>3 DEF Orderly
  <2>5. CASE task[c].ws = "open" /\ e.token \in task[c].tokens
    <3>1. PICK more : more = Append(es, e)
      OBVIOUS
    <3>2. /\ Len(es) \in Nat /\ Len(more) = Len(es) + 1
          /\ \A i \in 1..Len(es) : more[i] = es[i]
          /\ more[Len(es) + 1] = e
      BY <3>1, <2>1, AppendEvent
    <3> DEFINE r == [task[c] EXCEPT !.events = more]
    <3>3. r.events = more /\ r.pc = task[c].pc
      BY <2>1 DEF Task
    <3>4. task'[c] = r
      BY <2>1, <2>5, <3>1 DEF Deliver
    <3> HIDE DEF r
    <3>5. e.n \in Nat /\ e.n <= tick + 1 /\ e.token \in Token
          /\ (e.n # 0 => e.n > seen[e.token] /\ e.n > tick)
      BY <1>1 DEF Waiting, Event
    <3>6. Orderly(more, seen', tick')
      <4> SUFFICES ASSUME NEW i \in 1..Len(more)
                   PROVE  /\ more[i].n <= tick'
                          /\ more[i].n # 0 => more[i].n > seen'[more[i].token]
                          /\ \A j \in 1..Len(more) :
                                i < j /\ more[j].n # 0 => more[i].n < more[j].n
        BY DEF Orderly
      <4>1. CASE i \in 1..Len(es)
        <5>1. /\ es[i].n <= tick' /\ es[i].n <= tick /\ es[i].n \in Nat
              /\ es[i].n # 0 => es[i].n > seen'[es[i].token]
          BY <2>2, <2>3, <2>4, <4>1 DEF Orderly
        <5>2. ASSUME NEW j \in 1..Len(more), i < j, more[j].n # 0
              PROVE  more[i].n < more[j].n
          <6>1. CASE j \in 1..Len(es)
            BY <2>2, <3>2, <4>1, <5>2, <6>1 DEF Orderly
          <6>2. CASE j = Len(es) + 1
            BY <1>1, <3>2, <3>5, <4>1, <5>1, <5>2, <6>2
          <6>3. QED
            BY <3>2, <6>1, <6>2
        <5>3. QED
          BY <3>2, <4>1, <5>1, <5>2
      <4>2. CASE i = Len(es) + 1
        BY <3>2, <3>5, <4>2
      <4>3. QED
        BY <3>2, <4>1, <4>2
    <3>7. Alive(c)
      BY <2>2, <2>5
    <3>8. QED
      BY <3>3, <3>4, <3>6, <3>7 DEF Alive
  <2>6. CASE ~(task[c].ws = "open" /\ e.token \in task[c].tokens)
    <3>1. task'[c] = task[c]
      BY <2>6 DEF Deliver
    <3>2. QED
      BY <2>1, <2>2, <2>4, <3>1 DEF Alive
  <2>7. QED
    BY <2>5, <2>6
<1>3. \A t \in Token : seen'[t] <= tick'
  BY <1>1 DEF Waiting
<1>4. QED
  BY <1>2, <1>3 DEF Waiting

\* Every step keeps the events in order and the broadcast going forward.
LEMMA OrderKept ==
    ASSUME TypeOK, OneConnection, Waiting, [Next]_vars
    PROVE  Waiting' /\ \A t \in Token : seen'[t] >= seen[t]
<1>0. seen \in [Token -> 0..MaxTick] /\ MaxTick \in Nat /\ tick \in Nat
      /\ \A c \in Conn : task[c] \in Task
  BY MonitorAssumption DEF TypeOK
<1>1. ASSUME seen' = seen
      PROVE  \A t \in Token : seen'[t] >= seen[t]
  BY <1>0, <1>1
<1>2. CASE Fetch \/ FetchFails \/ RetryFetch \/ Stopped \/ ConnExited \/ Swapped \/ Cancel
             \/ (\E t \in Token : Change(t)) \/ UNCHANGED vars
  <2>1. UNCHANGED <<task, tick, seen>>
    BY <1>2 DEF Fetch, FetchFails, RetryFetch, Stopped, ConnExited, Swapped, Cancel, Change,
                Subscribe, Unsubscribe, vars, marketVars
  <2>2. QED
    BY <1>1, <2>1 DEF Waiting, Alive
<1>3. ASSUME NEW c \in Conn, Spawn(c)
      PROVE  Waiting' /\ seen' = seen
  <2> DEFINE r == [Dead EXCEPT !.pc = IF ids = {} THEN "idle" ELSE "connect", !.tokens = ids]
  <2>1. r.events = << >> /\ r.pc # "done"
    BY DEF Dead
  <2>2. task' = [task EXCEPT ![c] = r] /\ UNCHANGED marketVars
    BY <1>3 DEF Spawn
  <2> HIDE DEF r
  <2>3. ASSUME NEW d \in Conn
        PROVE  /\ Orderly(task'[d].events, seen, tick)
               /\ task'[d].pc # "done" \/ (task'[d].events = << >> /\ task'[d].ws = "none")
    <3>1. CASE d = c
      BY <2>1, <2>2, <3>1 DEF TypeOK, Orderly
    <3>2. CASE d # c
      BY <2>2, <3>2 DEF TypeOK, Waiting, Alive
    <3>3. QED
      BY <3>1, <3>2
  <2>4. QED
    BY <2>2, <2>3 DEF Waiting, Alive, marketVars
<1>4. CASE Shutdown \/ Refresh
  <2>1. task' = [task EXCEPT ![cur].cancel = TRUE] /\ UNCHANGED marketVars
    BY <1>4 DEF Shutdown, Refresh
  <2>2. QED
    BY <1>1, <2>1, ToldToStop DEF Waiting, Alive, marketVars
<1>5. ASSUME NEW c \in Conn, Manager(c) \/ Session(c)
      PROVE  Waiting' /\ \A t \in Token : seen'[t] >= seen[t]
  <2>1. CASE Forward(c)
    BY <2>1, Forwarding
  <2>2. ASSUME NEW r, Become(c, r), UNCHANGED marketVars,
               r.events \in {task[c].events, << >>},
               r.pc # "done" \/ (r.events = << >> /\ r.ws = "none")
        PROVE  Waiting' /\ \A t \in Token : seen'[t] >= seen[t]
    BY <1>1, <2>2, WaitingKept DEF marketVars
  <2>3. CASE ManagerEnds(c) \/ Panic(c)
    <3>1. Dead.events = << >> /\ Dead.ws = "none"
      BY DEF Dead
    <3>2. Become(c, Dead) /\ UNCHANGED marketVars
      BY <2>3 DEF ManagerEnds, Panic
    <3>3. QED
      BY <2>2, <3>1, <3>2
  <2>4. CASE StartSession(c)
    <3> DEFINE r == [task[c] EXCEPT !.pc = "stream", !.ws = "dialing",
                                    !.events = << >>, !.any = FALSE]
    <3>1. r.events = << >> /\ r.pc # "done"
      BY <1>0 DEF Task
    <3>2. Become(c, r) /\ UNCHANGED marketVars
      BY <2>4 DEF StartSession
    <3> HIDE DEF r
    <3>3. QED
      BY <2>2, <3>1, <3>2
  <2>5. CASE SessionOver(c)
    <3> DEFINE attempt == IF task[c].any THEN 0 ELSE task[c].attempt
               r == [task[c] EXCEPT !.pc = "backoff", !.ws = "none",
                                    !.delay = Backoff(attempt),
                                    !.attempt = AtMost(attempt + 1, U32Max)]
    <3>1. r.events = task[c].events /\ r.pc # "done"
      BY <1>0 DEF Task
    <3>2. Become(c, r) /\ UNCHANGED marketVars
      BY <2>5 DEF SessionOver
    <3> HIDE DEF r
    <3>3. QED
      BY <2>2, <3>1, <3>2
  <2>6. CASE BackoffOver(c)
    <3> DEFINE r == [task[c] EXCEPT !.pc = "connect"]
    <3>1. r.events = task[c].events /\ r.pc # "done"
      BY <1>0 DEF Task
    <3>2. Become(c, r) /\ UNCHANGED marketVars
      BY <2>6 DEF BackoffOver
    <3> HIDE DEF r
    <3>3. QED
      BY <2>2, <3>1, <3>2
  <2>7. CASE Open(c) \/ Close(c)
    <3>1. PICK ws : /\ Become(c, [task[c] EXCEPT !.ws = ws]) /\ UNCHANGED marketVars
                    /\ task[c].ws # "none"
      BY <2>7 DEF Open, Close
    <3> DEFINE r == [task[c] EXCEPT !.ws = ws]
    <3>2. r.events = task[c].events /\ r.pc = task[c].pc
      BY <1>0 DEF Task
    <3>3. Become(c, r) /\ task[c].pc # "done"
      BY <3>1 DEF Waiting, Alive
    <3> HIDE DEF r
    <3>4. QED
      BY <2>2, <3>1, <3>2, <3>3
  <2>8. QED
    BY <1>5, <2>1, <2>3, <2>4, <2>5, <2>6, <2>7 DEF Manager, Session
<1>6. ASSUME NEW t \in Token, MarketTick(t) \/ MarketBook(t)
      PROVE  Waiting' /\ seen' = seen
  <2>1. PICK n \in {0, tick + 1} : Deliver([token |-> t, n |-> n])
    BY <1>6 DEF MarketTick, MarketBook
  <2>2. tick' = tick + 1 /\ seen' = seen /\ tick < MaxTick
    BY <1>6 DEF MarketTick, MarketBook
  <2> DEFINE e == [token |-> t, n |-> n]
  <2>3. e \in Event /\ e.n = n /\ Deliver(e)
    BY <1>0, <2>1, <2>2 DEF Event
  <2> HIDE DEF e
  <2>4. QED
    BY <2>1, <2>2, <2>3, Delivering
<1>7. QED
  BY <1>1, <1>2, <1>3, <1>4, <1>5, <1>6 DEF Next, Service

\* The broadcast never goes back in time for a token, whatever sessions, refreshes
\* and restarts of the connection there are (ConnectionManager::run).
THEOREM NeverBackInTime == Spec => MarketOrder
<1>1. Init => Waiting
  BY DEF Init, Waiting, Orderly, Dead
<1>2. TypeOK /\ OneConnection /\ Waiting /\ [Next]_vars
        => Waiting' /\ [\A t \in Token : seen'[t] >= seen[t]]_vars
  BY OrderKept
<1>3. QED
  BY <1>1, <1>2, TypeCorrect, NeverTwo, PTL DEF Spec, MarketOrder

-----------------------------------------------------------------------------
(***************************************************************************)
(* The pace of the reconnects.  The delay a task has in hand is the one of *)
(* the attempt before its next, unless the counter is at its maximum: then *)
(* the power has saturated too, and the delay is as long as it can be.     *)
(***************************************************************************)
PacedTask(r) == \/ r.attempt = 0 /\ r.delay = 0
                \/ r.attempt > 0 /\ r.delay = Backoff(r.attempt - 1)
                \/ r.attempt = U32Max

Paced == \A c \in Conn : PacedTask(task[c])

\* The end of a session: the next delay, and what is in hand after it.
LEMMA NextDelay ==
    ASSUME TypeOK, Paced, NEW c \in Conn, SessionOver(c)
    PROVE  /\ PacedTask(task'[c])
           /\ IF task[c].any THEN task'[c].delay = AtMost(Base, MaxDelay)
              ELSE \/ task'[c].delay > task[c].delay
                   \/ task'[c].delay = AtMost(Base * U32Max, MaxDelay)
<1>0. /\ task[c] \in Task /\ task \in [Conn -> Task]
      /\ Base \in Nat \ {0} /\ MaxDelay \in Nat /\ U32Max \in Nat \ {0}
  BY MonitorAssumption DEF TypeOK
<1>1. PICK attempt : attempt = IF task[c].any THEN 0 ELSE task[c].attempt
  OBVIOUS
<1>2. PICK delay : delay = Backoff(attempt)
  OBVIOUS
<1>3. PICK next : next = AtMost(attempt + 1, U32Max)
  OBVIOUS
<1>4. attempt \in 0..U32Max /\ task[c].delay \in 0..MaxDelay /\ task[c].any \in BOOLEAN
  BY <1>0, <1>1, TaskFields
<1>5. delay \in 0..MaxDelay
  BY <1>2, <1>4, BackoffBounded
<1> DEFINE r == [task[c] EXCEPT !.pc = "backoff", !.ws = "none", !.delay = delay,
                                !.attempt = next]
<1>6. r.delay = delay /\ r.attempt = next
  BY <1>0 DEF Task
<1>7. task'[c] = r
  BY <1>0, <1>1, <1>2, <1>3 DEF SessionOver, Become
<1> HIDE DEF r
<1>8. PacedTask(r)
  <2>1. CASE attempt = U32Max
    BY <1>0, <1>3, <1>6, <2>1 DEF PacedTask, AtMost
  <2>2. CASE attempt # U32Max
    <3>1. next > 0 /\ next - 1 = attempt
      BY <1>0, <1>3, <1>4, <2>2 DEF AtMost
    <3>2. r.attempt > 0 /\ r.delay = Backoff(r.attempt - 1)
      BY <1>2, <1>6, <3>1
    <3>3. QED
      BY <3>2 DEF PacedTask
  <2>3. QED
    BY <2>1, <2>2
<1>9. CASE task[c].any
  <2>1. delay = AtMost(Base, MaxDelay)
    BY <1>1, <1>2, <1>9, BackoffGrows
  <2>2. QED
    BY <1>6, <1>7, <1>8, <1>9, <2>1
<1>10. CASE ~task[c].any
  <2>1. attempt = task[c].attempt /\ PacedTask(task[c])
    BY <1>1, <1>10 DEF Paced
  <2>2. delay > task[c].delay \/ delay = AtMost(Base * U32Max, MaxDelay)
    <3>1. CASE attempt = 0 /\ task[c].delay = 0
      <4>1. delay = AtMost(Base, MaxDelay)
        BY <1>2, <3>1, BackoffGrows
      <4>2. CASE MaxDelay = 0
        <5>1. PICK top \in Nat : top = Base * U32Max
          BY <1>0
        <5>2. AtMost(top, MaxDelay) = 0 /\ delay = 0
          BY <1>0, <1>5, <4>2, <5>1 DEF AtMost
        <5>3. QED
          BY <5>1, <5>2
      <4>3. CASE MaxDelay # 0
        BY <1>0, <3>1, <4>1, <4>3 DEF AtMost
      <4>4. QED
        BY <4>2, <4>3
    <3>2. CASE attempt > 0 /\ task[c].delay = Backoff(attempt - 1)
      <4>1. PICK k \in Nat : k = attempt - 1 /\ attempt = k + 1
        BY <1>0, <1>4, <3>2
      <4>2. QED
        BY <1>2, <3>2, <4>1, BackoffGrows
    <3>3. CASE attempt = U32Max
      BY <1>2, <3>3, BackoffGrows
    <3>4. QED
      BY <2>1, <3>1, <3>2, <3>3 DEF PacedTask
  <2>3. QED
    BY <1>6, <1>7, <1>8, <1>10, <2>2
<1>11. QED
  BY <1>9, <1>10

\* Every step keeps the pace; only the end of a session starts a backoff.
LEMMA PaceKept ==
    ASSUME TypeOK, Paced, [Next]_vars, NEW c \in Conn
    PROVE  /\ PacedTask(task'[c])
           /\ (task[c].pc = "stream" /\ task'[c].pc = "backoff") => SessionOver(c)
<1>0. /\ task[c] \in Task /\ cur \in Conn /\ task \in [Conn -> Task]
      /\ \A d \in Conn : task[d] \in Task
  BY DEF TypeOK
<1>1. PacedTask(task[c])
  BY DEF Paced
<1>2. ASSUME task'[c].attempt = task[c].attempt, task'[c].delay = task[c].delay
      PROVE  PacedTask(task'[c])
  BY <1>1, <1>2 DEF PacedTask
<1>3. PacedTask(Dead) /\ Dead.pc = "done"
  BY DEF PacedTask, Dead
<1>4. CASE UNCHANGED task
  BY <1>1, <1>4
<1>5. CASE Fetch \/ FetchFails \/ RetryFetch \/ Stopped \/ ConnExited \/ Swapped \/ Cancel
             \/ (\E t \in Token : Change(t)) \/ UNCHANGED vars
  <2>1. UNCHANGED task
    BY <1>5 DEF Fetch, FetchFails, RetryFetch, Stopped, ConnExited, Swapped, Cancel, Change,
                Subscribe, Unsubscribe, vars
  <2>2. QED
    BY <1>4, <2>1
<1>6. ASSUME NEW d \in Conn, Spawn(d)
      PROVE  PacedTask(task'[c]) /\ (task'[c] = task[c] \/ task'[c].pc # "backoff")
  <2> DEFINE r == [Dead EXCEPT !.pc = IF ids = {} THEN "idle" ELSE "connect", !.tokens = ids]
  <2>1. r.attempt = 0 /\ r.delay = 0 /\ r.pc # "backoff"
    BY DEF Dead
  <2>2. task' = [task EXCEPT ![d] = r]
    BY <1>6 DEF Spawn
  <2> HIDE DEF r
  <2>3. QED
    BY <1>0, <1>1, <2>1, <2>2 DEF PacedTask
<1>7. CASE Shutdown \/ Refresh
  <2> DEFINE r == [task[cur] EXCEPT !.cancel = TRUE]
  <2>1. r.attempt = task[cur].attempt /\ r.delay = task[cur].delay /\ r.pc = task[cur].pc
    BY <1>0 DEF Task
  <2>2. task' = [task EXCEPT ![cur] = r]
    BY <1>7 DEF Shutdown, Refresh
  <2> HIDE DEF r
  <2>3. task'[c] = IF c = cur THEN r ELSE task[c]
    BY <1>0, <2>2
  <2>4. QED
    BY <1>2, <2>1, <2>3
<1>8. ASSUME NEW d \in Conn, Manager(d) \/ Session(d), ~SessionOver(d)
      PROVE  PacedTask(task'[c]) /\ (task[c].pc = "stream" => task'[c].pc # "backoff")
  <2>1. ASSUME NEW r, Become(d, r), task[d].pc = "stream" => r.pc # "backoff",
               r.attempt = task[d].attempt /\ r.delay = task[d].delay
        PROVE  PacedTask(task'[c]) /\ (task[c].pc = "stream" => task'[c].pc # "backoff")
    <3>1. task'[c] = IF c = d THEN r ELSE task[c]
      BY <1>0, <2>1 DEF Become
    <3>2. QED
      BY <1>2, <2>1, <3>1
  <2>2. CASE ManagerEnds(d) \/ Panic(d)
    <3>1. task'[c] = IF c = d THEN Dead ELSE task[c]
      BY <1>0, <2>2 DEF ManagerEnds, Panic, Become
    <3>2. QED
      BY <1>1, <1>3, <3>1
  <2>3. CASE StartSession(d)
    <3> DEFINE r == [task[d] EXCEPT !.pc = "stream", !.ws = "dialing",
                                    !.events = << >>, !.any = FALSE]
    <3>1. r.attempt = task[d].attempt /\ r.delay = task[d].delay /\ r.pc = "stream"
      BY <1>0 DEF Task
    <3>2. Become(d, r)
      BY <2>3 DEF StartSession
    <3> HIDE DEF r
    <3>3. QED
      BY <2>1, <3>1, <3>2
  <2>4. CASE Forward(d)
    <3>1. PICK e : e = Head(task[d].events)
      OBVIOUS
    <3> DEFINE r == [task[d] EXCEPT !.events = Tail(@), !.any = @ \/ e.n # 0]
    <3>2. r.attempt = task[d].attempt /\ r.delay = task[d].delay /\ r.pc = task[d].pc
      BY <1>0 DEF Task
    <3>3. Become(d, r)
      BY <2>4, <3>1 DEF Forward
    <3> HIDE DEF r
    <3>4. QED
      BY <2>1, <3>2, <3>3
  <2>5. CASE BackoffOver(d)
    <3> DEFINE r == [task[d] EXCEPT !.pc = "connect"]
    <3>1. r.attempt = task[d].attempt /\ r.delay = task[d].delay /\ r.pc = "connect"
      BY <1>0 DEF Task
    <3>2. Become(d, r)
      BY <2>5 DEF BackoffOver
    <3> HIDE DEF r
    <3>3. QED
      BY <2>1, <3>1, <3>2
  <2>6. CASE Open(d) \/ Close(d)
    <3>1. PICK ws : Become(d, [task[d] EXCEPT !.ws = ws])
      BY <2>6 DEF Open, Close
    <3> DEFINE r == [task[d] EXCEPT !.ws = ws]
    <3>2. r.attempt = task[d].attempt /\ r.delay = task[d].delay /\ r.pc = task[d].pc
      BY <1>0 DEF Task
    <3>3. Become(d, r)
      BY <3>1
    <3> HIDE DEF r
    <3>4. QED
      BY <2>1, <3>2, <3>3
  <2>7. QED
    BY <1>8, <2>2, <2>3, <2>4, <2>5, <2>6 DEF Manager, Session
<1>9. ASSUME NEW d \in Conn, SessionOver(d)
      PROVE  PacedTask(task'[c]) /\ (c = d \/ task'[c] = task[c])
  BY <1>0, <1>1, <1>9, NextDelay DEF SessionOver, Become
<1>10. ASSUME NEW t \in Token, MarketTick(t) \/ MarketBook(t)
       PROVE  PacedTask(task'[c]) /\ task'[c].pc = task[c].pc
  <2>1. PICK e : Deliver(e)
    BY <1>10 DEF MarketTick, MarketBook
  <2> DEFINE r == [task[c] EXCEPT !.events = Append(@, e)]
  <2>2. r.attempt = task[c].attempt /\ r.delay = task[c].delay /\ r.pc = task[c].pc
    BY <1>0 DEF Task
  <2>3. task'[c] = IF task[c].ws = "open" /\ e.token \in task[c].tokens THEN r ELSE task[c]
    BY <2>1 DEF Deliver
  <2> HIDE DEF r
  <2>4. QED
    BY <1>2, <2>2, <2>3
<1>11. CASE \E d \in Conn : Manager(d) \/ Session(d)
  <2>1. PICK d \in Conn : Manager(d) \/ Session(d)
    BY <1>11
  <2>2. CASE SessionOver(d)
    BY <1>9, <2>2
  <2>3. CASE ~SessionOver(d)
    BY <1>8, <2>1, <2>3
  <2>4. QED
    BY <2>2, <2>3
<1>12. QED
  BY <1>4, <1>5, <1>6, <1>7, <1>10, <1>11 DEF Next, Service

\* Every session without a price makes the next delay longer, until it is at its
\* maximum, whatever u32::MAX, the base and the maximum delay are; one with a
\* price starts over from the base (calculate_backoff, ConnectionManager::run).
THEOREM EverLongerDelays == Spec => PatientReconnect
<1>1. Init => Paced
  BY DEF Init, Paced, PacedTask, Dead
<1>2. TypeOK /\ Paced /\ [Next]_vars
        => Paced' /\ [\A c \in Conn : task[c].pc = "stream" /\ task'[c].pc = "backoff" =>
              IF task[c].any THEN task'[c].delay = AtMost(Base, MaxDelay)
              ELSE \/ task'[c].delay > task[c].delay
                   \/ task'[c].delay = AtMost(Base * U32Max, MaxDelay)]_vars
  <2> SUFFICES ASSUME TypeOK, Paced, [Next]_vars
               PROVE  /\ Paced'
                      /\ \A c \in Conn : task[c].pc = "stream" /\ task'[c].pc = "backoff" =>
                            IF task[c].any THEN task'[c].delay = AtMost(Base, MaxDelay)
                            ELSE \/ task'[c].delay > task[c].delay
                                 \/ task'[c].delay = AtMost(Base * U32Max, MaxDelay)
    OBVIOUS
  <2>1. Paced'
    BY PaceKept DEF Paced, PacedTask
  <2>2. QED
    BY <2>1, PaceKept, NextDelay
<1>3. QED
  BY <1>1, <1>2, TypeCorrect, PTL DEF Spec, PatientReconnect
=============================================================================
