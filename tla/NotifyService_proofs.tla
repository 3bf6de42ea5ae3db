------------------------- MODULE NotifyService_proofs -------------------------
(***************************************************************************)
(* Proofs about NotifyService: types, the order and the truth of what is   *)
(* delivered and logged, and the windows of the limiter, for every set of  *)
(* requests, chats and bots.                                               *)
(***************************************************************************)
EXTENDS NotifyService, FiniteSetTheorems, TLAPS

\* What is proved of the limiter alone.
LimiterProofs == INSTANCE RateLimiter_proofs WITH User <- Chat

-----------------------------------------------------------------------------
(***************************************************************************)
(* The limiter, as part of the service.                                    *)
(***************************************************************************)
\* The two instances count alike.
LEMMA SameCount ==
    ASSUME NEW S
    PROVE  /\ LimiterProofs!IsFiniteSet(S) <=> IsFiniteSet(S)
           /\ LimiterProofs!Cardinality(S) = Limiter!Cardinality(S)
<1>1. LimiterProofs!IsFiniteSet(S) <=> IsFiniteSet(S)
  BY DEF LimiterProofs!IsFiniteSet, IsFiniteSet
<1>2. LimiterProofs!Cardinality(S) = Limiter!Cardinality(S)
  BY DEF LimiterProofs!Cardinality, Limiter!Cardinality
<1>3. QED
  BY <1>1, <1>2

LEMMA SameLimiter ==
    /\ Limiter!LimiterAssumption <=> LimiterProofs!LimiterAssumption
    /\ Limiter!TypeOK <=> LimiterProofs!TypeOK
    /\ Limiter!CallsInWindows <=> LimiterProofs!CallsInWindows
    /\ Limiter!RefusedOnlyWhenFull <=> LimiterProofs!RefusedOnlyWhenFull
    /\ [Limiter!Next]_limiterVars => [LimiterProofs!Next]_(LimiterProofs!vars)
<1>1. Limiter!LimiterAssumption <=> LimiterProofs!LimiterAssumption
  BY DEF Limiter!LimiterAssumption, LimiterProofs!LimiterAssumption
<1>2. Limiter!TypeOK <=> LimiterProofs!TypeOK
  BY DEF Limiter!TypeOK, LimiterProofs!TypeOK, Limiter!Entry, LimiterProofs!Entry,
         Limiter!Call, LimiterProofs!Call, Limiter!Refusal, LimiterProofs!Refusal,
         Limiter!Time, LimiterProofs!Time
<1>3. Limiter!CallsInWindows <=> LimiterProofs!CallsInWindows
  BY DEF Limiter!CallsInWindows, LimiterProofs!CallsInWindows
<1>4. Limiter!Tick <=> LimiterProofs!Tick
  BY DEF Limiter!Tick, LimiterProofs!Tick
<1>5. ASSUME NEW c \in Chat
      PROVE  Limiter!CheckAndConsume(c) <=> LimiterProofs!CheckAndConsume(c)
  <2>1. \A entry, t : Limiter!Fresh(entry, t) = LimiterProofs!Fresh(entry, t)
    BY DEF Limiter!Fresh, LimiterProofs!Fresh
  <2>2. \A entry : /\ Limiter!Passes(entry) <=> LimiterProofs!Passes(entry)
                   /\ Limiter!Consumed(entry) = LimiterProofs!Consumed(entry)
    BY DEF Limiter!Passes, LimiterProofs!Passes, Limiter!Consumed, LimiterProofs!Consumed
  <2>3. QED
    BY <2>1, <2>2 DEF Limiter!CheckAndConsume, LimiterProofs!CheckAndConsume,
                      Limiter!Allows, LimiterProofs!Allows
<1>6. [Limiter!Next]_limiterVars => [LimiterProofs!Next]_(LimiterProofs!vars)
  BY <1>4, <1>5 DEF Limiter!Next, LimiterProofs!Next, limiterVars, LimiterProofs!vars
<1>7. Limiter!RefusedOnlyWhenFull <=> LimiterProofs!RefusedOnlyWhenFull
  <2>1. \A c, t : Limiter!Cardinality(Limiter!Span(c, t))
                    = LimiterProofs!Cardinality(LimiterProofs!Span(c, t))
    BY SameCount DEF Limiter!Span, LimiterProofs!Span
  <2>2. QED
    BY <2>1 DEF Limiter!RefusedOnlyWhenFull, LimiterProofs!RefusedOnlyWhenFull
<1>8. QED
  BY <1>1, <1>2, <1>3, <1>6, <1>7

\* The process has ended and begun again: every window is gone.
LimiterForgets == /\ windows' = [c \in Chat |-> NoWindow]
                  /\ accepted' = {} /\ refused' = {}
                  /\ now' = now

\* A step of the service is one of the limiter, or makes it forget.
LEMMA LimiterSteps ==
    ASSUME TypeOK, [Next]_vars
    PROVE  [Limiter!Next]_limiterVars \/ LimiterForgets
<1>1. CASE Tick
  BY <1>1 DEF Tick, Limiter!Next
<1>2. ASSUME NEW u \in Account, Resolve(u)
      PROVE  Limiter!Next
  <2>1. To[req] \in Chat
    BY <1>2, ServiceAssumption DEF TypeOK, Resolve
  <2>2. QED
    BY <1>2, <2>1 DEF Resolve, Limiter!Next
<1>3. CASE Stop \/ Crash
  BY <1>3 DEF Stop, Crash, ProcessEnds, LimiterForgets
<1>4. CASE \/ (\E u \in Account : Register(u)) \/ (\E r \in Request : Submit(r)) \/ Receive
           \/ ResolveFails \/ ResolveUnknown \/ Send \/ Retry \/ Write \/ Cancel \/ Start
           \/ UNCHANGED vars
  BY <1>4 DEF Register, Submit, Receive, ResolveFails, ResolveUnknown, Send, SendOk, SendFails,
              Retry, Write, LogAttempt, LogFails, Cancel, Start, vars
<1>5. QED
  BY <1>1, <1>2, <1>3, <1>4 DEF Next, Lookup

LEMMA LimiterTyped ==
    ASSUME TypeOK, [Next]_vars
    PROVE  Limiter!TypeOK'
<1>1. Limiter!LimiterAssumption /\ Limiter!TypeOK
  BY ServiceAssumption DEF TypeOK
<1>2. CASE [Limiter!Next]_limiterVars
  <2>1. LimiterProofs!TypeOK'
    BY <1>1, <1>2, SameLimiter, LimiterProofs!TypeKept
  <2>2. QED
    BY <2>1 DEF Limiter!TypeOK, LimiterProofs!TypeOK, Limiter!Entry, LimiterProofs!Entry,
         Limiter!Call, LimiterProofs!Call, Limiter!Refusal, LimiterProofs!Refusal,
         Limiter!Time, LimiterProofs!Time
<1>3. CASE LimiterForgets
  BY <1>1, <1>3 DEF LimiterForgets, Limiter!TypeOK
<1>4. QED
  BY <1>2, <1>3, LimiterSteps

-----------------------------------------------------------------------------
(***************************************************************************)
(* Types, with what is known of the request in hand in each phase.         *)
(***************************************************************************)
LEMMA QueueEnds ==
    ASSUME NEW S, NEW s \in Seq(S), NEW e \in S
    PROVE  /\ Append(s, e) \in Seq(S) /\ Len(Append(s, e)) = Len(s) + 1
           /\ Len(s) \in Nat /\ << >> \in Seq(S) /\ Len(<< >>) = 0
           /\ \A i \in 1..Len(s) : s[i] \in S /\ Append(s, e)[i] = s[i]
           /\ Append(s, e)[Len(s) + 1] = e
OBVIOUS

LEMMA QueueHead ==
    ASSUME NEW S, NEW s \in Seq(S), s # << >>
    PROVE  /\ Head(s) \in S /\ Head(s) = s[1] /\ Tail(s) \in Seq(S)
           /\ Len(s) \in Nat \ {0} /\ Len(Tail(s)) = Len(s) - 1
           /\ \A i \in 1..(Len(s) - 1) : Tail(s)[i] = s[i + 1]
OBVIOUS

\* Who the request in hand is for, once the lookup has answered, and that there
\* is an account and an outcome for the log.
Resolved ==
    /\ pc \in {"down", "idle", "resolve"} => user = NoAccount
    /\ pc \in {"send", "pause"} => user = NoAccount \/ (user \in Account /\ user[1] = To[req])
    /\ pc = "log" => /\ user \in Account /\ user[1] = To[req]
                     /\ outcome # "none"

Typed == TypeOK /\ Resolved

\* The part of the types a step may disturb.
Rest ==
    /\ users \subseteq Account
    /\ queue \in Seq(Request) /\ Len(queue) <= QueueCap
    /\ log \subseteq Row /\ found \subseteq log
    /\ cancelled \in BOOLEAN
    /\ order \in Seq(Request) /\ inbox \in Seq(Request)

InHand ==
    /\ pc \in {"down", "idle", "resolve", "send", "pause", "log"}
    /\ IF pc \in {"down", "idle"} THEN req = NoRequest ELSE req \in Request
    /\ user \in Account \cup {NoAccount}
    /\ attempt \in IF pc = "send" THEN 1..MaxRetries
                   ELSE IF pc = "pause" THEN 1..(MaxRetries - 1) ELSE 0..MaxRetries
    /\ outcome \in Outcome

LEMMA PartsOfTypes == TypeOK <=> Limiter!TypeOK /\ Rest /\ InHand
BY DEF TypeOK, Rest, InHand

\* A message goes out or none does.
LEMMA SendSends ==
    ASSUME Send
    PROVE  /\ pc = "send"
           /\ inbox' = inbox \/ inbox' = Append(inbox, req)
           /\ UNCHANGED <<users, queue, log, cancelled, order, found>>
<1>1. CASE SendOk
  BY <1>1 DEF SendOk
<1>2. CASE SendFails
  BY <1>2 DEF SendFails
<1>3. QED
  BY <1>1, <1>2 DEF Send

LEMMA RestTyped ==
    ASSUME TypeOK, Resolved, [Next]_vars
    PROVE  Rest'
<1>0. Rest /\ InHand /\ QueueCap \in Nat \ {0}
  BY PartsOfTypes, ServiceAssumption
<1>1. ASSUME NEW u \in Account, Register(u)
      PROVE  Rest'
  BY <1>0, <1>1 DEF Rest, Register, historyVars
<1>2. ASSUME NEW r \in Request, Submit(r)
      PROVE  Rest'
  <2>1. /\ queue' = Append(queue, r) /\ order' = Append(order, r) /\ Len(queue) < QueueCap
        /\ UNCHANGED <<users, log, cancelled, inbox, found>>
    BY <1>2 DEF Submit
  <2>2. queue' \in Seq(Request) /\ Len(queue') <= QueueCap /\ order' \in Seq(Request)
    BY <1>0, <2>1, QueueEnds DEF Rest
  <2>3. QED
    BY <1>0, <2>1, <2>2 DEF Rest
<1>3. CASE Receive
  <2>1. /\ queue' = Tail(queue) /\ queue # << >>
        /\ UNCHANGED <<users, log, cancelled, order, inbox, found>>
    BY <1>3 DEF Receive, historyVars
  <2>2. queue' \in Seq(Request) /\ Len(queue') <= QueueCap
    BY <1>0, <2>1, QueueHead DEF Rest
  <2>3. QED
    BY <1>0, <2>1, <2>2 DEF Rest
<1>4. CASE Send
  <2>1. /\ inbox' = inbox \/ inbox' = Append(inbox, req)
        /\ UNCHANGED <<users, queue, log, cancelled, order, found>>
        /\ req \in Request
    <3>1. pc = "send" => req \in Request
      BY <1>0 DEF InHand
    <3>2. QED
      BY <1>4, <3>1, SendSends
  <2>2. inbox' \in Seq(Request)
    <3>1. inbox \in Seq(Request)
      BY <1>0 DEF Rest
    <3>2. Append(inbox, req) \in Seq(Request)
      BY <2>1, <3>1, QueueEnds
    <3>3. QED
      BY <2>1, <3>1, <3>2
  <2>3. QED
    BY <1>0, <2>1, <2>2 DEF Rest
<1>5. CASE LogAttempt
  <2> DEFINE row == [req |-> req, user |-> user, outcome |-> outcome, at |-> now]
  <2>1. log' = log \cup {row} /\ UNCHANGED <<users, queue, cancelled, order, inbox, found>>
    BY <1>5 DEF LogAttempt, historyVars
  <2>2. now \in Nat
    BY ServiceAssumption DEF TypeOK, Limiter!TypeOK, Limiter!Time, Limiter!LimiterAssumption
  <2>3. row \in Row
    BY <1>0, <1>5, <2>2 DEF LogAttempt, InHand, Resolved, Row
  <2> HIDE DEF row
  <2>4. QED
    BY <1>0, <2>1, <2>3 DEF Rest
<1>6. CASE Stop \/ Crash
  <2>1. queue' = << >> /\ cancelled' = FALSE /\ found' = log /\ UNCHANGED <<users, log, order, inbox>>
    BY <1>6 DEF Stop, Crash, ProcessEnds, historyVars
  <2>2. queue' \in Seq(Request) /\ Len(queue') <= QueueCap
    BY <1>0, <2>1
  <2>3. QED
    BY <1>0, <2>1, <2>2 DEF Rest
<1>7. CASE Tick \/ Lookup \/ Retry \/ LogFails \/ Cancel \/ Start \/ UNCHANGED vars
  <2>1. UNCHANGED <<users, queue, log, order, inbox, found>> /\ cancelled' \in BOOLEAN
    BY <1>0, <1>7 DEF Rest, Tick, Lookup, ResolveFails, ResolveUnknown, Resolve, Retry, LogFails,
                      Cancel, Start, vars, historyVars
  <2>2. QED
    BY <1>0, <2>1 DEF Rest
<1>8. QED
  BY <1>1, <1>2, <1>3, <1>4, <1>5, <1>6, <1>7 DEF Next, Write

LEMMA InHandTyped ==
    ASSUME TypeOK, Resolved, [Next]_vars
    PROVE  InHand' /\ Resolved'
<1>0. Rest /\ InHand /\ MaxRetries \in Nat \ {0} /\ NoAccount \notin Account
  BY PartsOfTypes, ServiceAssumption
<1>1. CASE UNCHANGED <<pc, handleVars>>
  BY <1>0, <1>1 DEF InHand, Resolved, handleVars
<1>2. CASE Tick \/ (\E u \in Account : Register(u)) \/ (\E r \in Request : Submit(r))
           \/ Cancel \/ UNCHANGED vars
  BY <1>1, <1>2 DEF Tick, Register, Submit, Cancel, vars
<1>3. CASE ToIdle
  BY <1>0, <1>3 DEF ToIdle, InHand, Resolved, Outcome
<1>4. CASE Stop \/ Crash
  BY <1>0, <1>4 DEF Stop, Crash, ProcessEnds, InHand, Resolved, Outcome
<1>5. CASE Receive
  <2>1. req' = Head(queue) /\ queue # << >> /\ pc = "idle" /\ pc' = "resolve"
        /\ UNCHANGED <<user, attempt, outcome>>
    BY <1>5 DEF Receive
  <2>2. req' \in Request
    BY <1>0, <2>1, QueueHead DEF Rest
  <2>3. user = NoAccount
    BY <1>5 DEF Receive, Resolved
  <2>4. QED
    BY <1>0, <2>1, <2>2, <2>3 DEF InHand, Resolved
<1>6. CASE ResolveUnknown
  BY <1>0, <1>6 DEF ResolveUnknown, InHand, Resolved
<1>7. ASSUME NEW u \in Account, Resolve(u)
      PROVE  InHand' /\ Resolved'
  BY <1>0, <1>7 DEF Resolve, Resolvable, InHand, Resolved, Outcome
<1>8. ASSUME NEW o \in {"delivered", "failed"}, pc = "send", Finish(o)
      PROVE  InHand' /\ Resolved'
  BY <1>0, <1>3, <1>8 DEF Finish, InHand, Resolved, Outcome
<1>9. CASE Send
  <2>1. CASE SendOk
    BY <1>8, <2>1 DEF SendOk
  <2>2. CASE SendFails
    <3>1. CASE attempt < MaxRetries
      BY <1>0, <2>2, <3>1 DEF SendFails, InHand, Resolved, handleVars
    <3>2. CASE ~(attempt < MaxRetries)
      BY <1>8, <2>2, <3>2 DEF SendFails
    <3>3. QED
      BY <3>1, <3>2
  <2>3. QED
    BY <1>9, <2>1, <2>2 DEF Send
<1>10. CASE Retry
  BY <1>0, <1>10 DEF Retry, InHand, Resolved
<1>11. CASE ResolveFails \/ Write
  BY <1>3, <1>11 DEF ResolveFails, Write, LogAttempt, LogFails
<1>12. CASE Start
  BY <1>0, <1>12 DEF Start, InHand, Resolved, handleVars
<1>13. QED
  BY <1>2, <1>4, <1>5, <1>6, <1>7, <1>9, <1>10, <1>11, <1>12 DEF Next, Lookup

LEMMA AlwaysTyped == Spec => []Typed
<1>1. Init => Typed
  <2> SUFFICES ASSUME Init
               PROVE  Typed
    OBVIOUS
  <2>1. Limiter!TypeOK
    BY ServiceAssumption DEF Init, Limiter!Init, Limiter!TypeOK, Limiter!Time,
                             Limiter!LimiterAssumption
  <2>2. Rest
    <3>1. QueueCap \in Nat
      BY ServiceAssumption
    <3>2. queue = << >> /\ order = << >> /\ inbox = << >>
      BY DEF Init
    <3>3. /\ queue \in Seq(Request) /\ Len(queue) <= QueueCap
          /\ order \in Seq(Request) /\ inbox \in Seq(Request)
      BY <3>1, <3>2
    <3>4. QED
      BY <3>3 DEF Init, Rest
  <2>3. InHand /\ Resolved
    BY ServiceAssumption DEF Init, InHand, Resolved, Outcome
  <2>4. QED
    BY <2>1, <2>2, <2>3, PartsOfTypes DEF Typed
<1>2. Typed /\ [Next]_vars => Typed'
  <2> SUFFICES ASSUME TypeOK, Resolved, [Next]_vars
               PROVE  TypeOK' /\ Resolved'
    BY DEF Typed
  <2>1. Limiter!TypeOK' /\ Rest' /\ InHand' /\ Resolved'
    BY LimiterTyped, RestTyped, InHandTyped
  <2>2. QED
    BY <2>1 DEF TypeOK, Rest, InHand
<1>3. QED
  BY <1>1, <1>2, PTL DEF Spec

\* Only values of their types are ever written, with what the request in hand
\* holds in each phase (handle).
THEOREM TypeCorrect == Spec => []TypeOK
<1>1. Typed => TypeOK
  BY DEF Typed
<1>2. QED
  BY <1>1, AlwaysTyped, PTL

-----------------------------------------------------------------------------
\* The windows of a chat follow each other and each call is in one of them,
\* whatever the service does between two calls (check_and_consume, handle).
THEOREM WindowsFollow == Spec => []CallsInWindows
<1>1. Init => CallsInWindows
  BY DEF Init, Limiter!Init, CallsInWindows, Limiter!CallsInWindows
<1>2. TypeOK /\ CallsInWindows /\ [Next]_vars => CallsInWindows'
  <2> SUFFICES ASSUME TypeOK, Limiter!CallsInWindows, [Next]_vars
               PROVE  Limiter!CallsInWindows'
    BY DEF CallsInWindows
  <2>1. Limiter!LimiterAssumption /\ Limiter!TypeOK
    BY ServiceAssumption DEF TypeOK
  <2>2. CASE [Limiter!Next]_limiterVars
    <3>1. LimiterProofs!CallsInWindows'
      BY <2>1, <2>2, SameLimiter, LimiterProofs!WindowsKept
    <3>2. QED
      BY <3>1 DEF Limiter!CallsInWindows, LimiterProofs!CallsInWindows
  <2>3. CASE LimiterForgets
    BY <2>3 DEF LimiterForgets, Limiter!CallsInWindows
  <2>4. QED
    BY <2>2, <2>3, LimiterSteps
<1>3. QED
  BY <1>1, <1>2, TypeCorrect, PTL DEF Spec

\* No message is turned away, however many were before it, unless the maximum has
\* passed, whatever else the service has done in between (handle, check_and_consume).
THEOREM RefusalsAreDue == Spec => []RefusedOnlyWhenFull
<1> DEFINE Due == LimiterProofs!Counted /\ LimiterProofs!RefusedOnlyWhenFull
<1>0. LimiterProofs!IsFiniteSet({})
  BY FS_EmptySet, SameCount
<1>1. Init => Due
  BY <1>0 DEF Init, Limiter!Init, LimiterProofs!Counted, LimiterProofs!RefusedOnlyWhenFull
<1>2. TypeOK /\ CallsInWindows /\ Due /\ [Next]_vars => Due'
  <2> SUFFICES ASSUME TypeOK, CallsInWindows, Due, [Next]_vars
               PROVE  Due'
    OBVIOUS
  <2>1. Limiter!LimiterAssumption /\ Limiter!TypeOK /\ Limiter!CallsInWindows
    BY ServiceAssumption DEF TypeOK, CallsInWindows
  <2>2. /\ LimiterProofs!LimiterAssumption /\ LimiterProofs!TypeOK
        /\ LimiterProofs!CallsInWindows
    BY <2>1, SameLimiter
  <2>3. CASE [Limiter!Next]_limiterVars
    <3>1. [LimiterProofs!Next]_(LimiterProofs!vars)
      BY <2>3, SameLimiter
    <3>2. LimiterProofs!Counted'
      BY <2>2, <3>1, LimiterProofs!CountedKept
    <3>3. LimiterProofs!RefusedOnlyWhenFull'
      BY <2>2, <3>1, LimiterProofs!RefusalsKept
    <3>4. QED
      BY <3>2, <3>3
  <2>4. CASE LimiterForgets
    BY <1>0, <2>4 DEF LimiterForgets, LimiterProofs!Counted, LimiterProofs!RefusedOnlyWhenFull
  <2>5. QED
    BY <2>3, <2>4, LimiterSteps
<1>3. Due => RefusedOnlyWhenFull
  BY SameLimiter DEF RefusedOnlyWhenFull
<1>4. QED
  BY <1>1, <1>2, <1>3, TypeCorrect, WindowsFollow, PTL DEF Spec

-----------------------------------------------------------------------------
(***************************************************************************)
(* The queue holds the end of "order", the request in hand is the one      *)
(* before it, and what has been delivered and logged comes from further    *)
(* ahead still: so each request is delivered and logged in its turn.       *)
(***************************************************************************)
\* The number of requests that have left the queue.
Left == Len(order) - Len(queue)

\* How far the requests that may have been delivered go, and those with a row.
Delivered == IF pc = "resolve" THEN Left - 1 ELSE Left
Logged    == IF pc \in {"idle", "down"} THEN Left ELSE Left - 1

Distinct == \A k, l \in 1..Len(order) : order[k] = order[l] => k = l
Queued   == /\ Len(queue) <= Len(order)
            /\ \A k \in 1..Len(queue) : queue[k] = order[Left + k]
Turn     == pc \notin {"idle", "down"} => Left >= 1 /\ order[Left] = req
Inbox    == \A i \in 1..Len(inbox) : \E k \in 1..Delivered : order[k] = inbox[i]
Sorted   == \A i, j \in 1..Len(inbox) : i < j =>
               \A k, l \in 1..Len(order) :
                  order[k] = inbox[i] /\ order[l] = inbox[j] => k <= l

Lane == Distinct /\ Queued /\ Turn /\ Inbox /\ Sorted

\* What the steps below share.
LEMMA Numbers ==
    ASSUME TypeOK
    PROVE  /\ order \in Seq(Request) /\ queue \in Seq(Request) /\ inbox \in Seq(Request)
           /\ Len(order) \in Nat /\ Len(queue) \in Nat /\ Len(inbox) \in Nat
           /\ Left \in Int /\ Delivered \in Int /\ Logged \in Int
BY DEF TypeOK, Left, Delivered, Logged

\* A step that leaves the sequences and the request in hand alone.
LEMMA LaneStays ==
    ASSUME TypeOK, Lane, UNCHANGED <<order, queue, inbox>>,
           pc' \in {"idle", "down"} \/ (req' = req /\ pc \notin {"idle", "down"}
                                          /\ pc' # "resolve")
             \/ UNCHANGED <<pc, req>>
    PROVE  Lane'
<1>1. Left' = Left /\ Left \in Int /\ Delivered' >= Delivered /\ Delivered' \in Int
      /\ Delivered \in Int
  BY DEF TypeOK, Left, Delivered
<1>2. Inbox'
  BY <1>1 DEF Lane, Inbox
<1>3. Turn'
  BY <1>1 DEF Lane, Turn
<1>4. QED
  BY <1>1, <1>2, <1>3 DEF Lane, Distinct, Queued, Sorted

LEMMA LaneKept ==
    ASSUME TypeOK, Lane, [Next]_vars
    PROVE  Lane'
<1>0. /\ order \in Seq(Request) /\ queue \in Seq(Request) /\ inbox \in Seq(Request)
      /\ Len(order) \in Nat /\ Len(queue) \in Nat /\ Len(inbox) \in Nat
      /\ Left \in Int /\ Delivered \in Int /\ Delivered <= Left
      /\ Left = Len(order) - Len(queue) /\ Left <= Len(order) /\ Left >= 0
  BY Numbers DEF Left, Delivered, Lane, Queued
<1>1. ASSUME NEW r \in Request, Submit(r)
      PROVE  Lane'
  <2>1. /\ order' = Append(order, r) /\ queue' = Append(queue, r)
        /\ \A k \in 1..Len(order) : order[k] # r
        /\ UNCHANGED <<pc, req, inbox>>
    <3>1. /\ r \notin {order[k] : k \in DOMAIN order}
          /\ order' = Append(order, r) /\ queue' = Append(queue, r)
          /\ UNCHANGED <<pc, req, inbox>>
      BY <1>1 DEF Submit, handleVars
    <3>2. DOMAIN order = 1..Len(order)
      BY <1>0
    <3>3. QED
      BY <3>1, <3>2
  <2>2. /\ Len(order') = Len(order) + 1 /\ Len(queue') = Len(queue) + 1
        /\ \A k \in 1..Len(order) : order'[k] = order[k]
        /\ \A k \in 1..Len(queue) : queue'[k] = queue[k]
        /\ order'[Len(order) + 1] = r /\ queue'[Len(queue) + 1] = r
    BY <1>0, <2>1, QueueEnds
  <2>3. Left' = Left /\ Delivered' = Delivered
    BY <1>0, <2>1, <2>2 DEF Left, Delivered
  <2>4. Distinct'
    BY <1>0, <2>1, <2>2 DEF Lane, Distinct
  <2>5. Queued'
    <3>1. ASSUME NEW k \in 1..Len(queue')
          PROVE  queue'[k] = order'[Left + k]
      <4>1. CASE k \in 1..Len(queue)
        <5>1. Left + k \in 1..Len(order) /\ queue[k] = order[Left + k]
          BY <1>0, <4>1 DEF Lane, Queued
        <5>2. QED
          BY <2>2, <4>1, <5>1
      <4>2. CASE k = Len(queue) + 1
        BY <1>0, <2>2, <4>2
      <4>3. QED
        BY <1>0, <2>2, <4>1, <4>2
    <3>2. QED
      BY <1>0, <2>2, <2>3, <3>1 DEF Queued
  <2>6. Turn'
    BY <1>0, <2>1, <2>2, <2>3 DEF Lane, Turn
  <2>7. Inbox'
    <3>1. ASSUME NEW i \in 1..Len(inbox)
          PROVE  \E k \in 1..Delivered : order'[k] = inbox[i]
      <4>1. PICK k \in 1..Delivered : order[k] = inbox[i]
        BY DEF Lane, Inbox
      <4>2. k \in 1..Len(order)
        BY <1>0
      <4>3. QED
        BY <2>2, <4>1, <4>2
    <3>2. QED
      BY <2>1, <2>3, <3>1 DEF Inbox
  <2>8. Sorted'
    <3>1. ASSUME NEW i \in 1..Len(inbox), NEW k \in 1..Len(order'), order'[k] = inbox[i]
          PROVE  k \in 1..Len(order) /\ order[k] = inbox[i]
      <4>1. PICK n \in 1..Delivered : order[n] = inbox[i]
        BY DEF Lane, Inbox
      <4>2. n \in 1..Len(order) /\ order'[n] = inbox[i]
        BY <1>0, <2>2, <4>1
      <4>3. n \in 1..Len(order')
        BY <1>0, <2>2, <4>2
      <4>4. n = k
        BY <2>4, <3>1, <4>2, <4>3 DEF Distinct
      <4>5. QED
        BY <4>1, <4>2, <4>4
    <3>2. QED
      BY <2>1, <3>1 DEF Lane, Sorted
  <2>9. QED
    BY <2>4, <2>5, <2>6, <2>7, <2>8 DEF Lane
<1>2. CASE Receive
  <2>1. /\ queue # << >> /\ queue' = Tail(queue) /\ req' = Head(queue)
        /\ pc = "idle" /\ pc' = "resolve"
        /\ UNCHANGED <<order, inbox>>
    BY <1>2 DEF Receive, historyVars
  <2>2. /\ Len(queue) \in Nat \ {0} /\ Len(queue') = Len(queue) - 1 /\ req' = queue[1]
        /\ \A k \in 1..Len(queue') : queue'[k] = queue[k + 1]
    BY <1>0, <2>1, QueueHead
  <2>3. Left' = Left + 1 /\ Delivered' = Delivered /\ Delivered = Left
    BY <1>0, <2>1, <2>2 DEF Left, Delivered
  <2>4. queue[1] = order[Left + 1]
    BY <2>2 DEF Lane, Queued
  <2>5. Turn'
    BY <1>0, <2>1, <2>2, <2>3, <2>4 DEF Turn
  <2>6. Queued'
    <3>1. ASSUME NEW k \in 1..Len(queue')
          PROVE  queue'[k] = order[Left' + k]
      <4>1. k + 1 \in 1..Len(queue) /\ Left' + k = Left + (k + 1)
        BY <1>0, <2>2, <2>3
      <4>2. QED
        BY <2>2, <4>1 DEF Lane, Queued
    <3>2. QED
      BY <1>0, <2>1, <2>2, <3>1 DEF Lane, Queued
  <2>7. QED
    BY <2>1, <2>3, <2>5, <2>6 DEF Lane, Distinct, Inbox, Sorted
<1>3. CASE Send
  <2>1. /\ pc = "send" /\ UNCHANGED <<order, queue>>
        /\ inbox' = inbox \/ inbox' = Append(inbox, req)
        /\ pc' = "idle" \/ (req' = req /\ pc' \in {"log", "pause"})
    BY <1>3 DEF Send, SendOk, SendFails, Finish, ToIdle, handleVars
  <2>2. CASE inbox' = inbox
    BY <2>1, <2>2, LaneStays
  <2>3. CASE inbox' = Append(inbox, req)
    <3>0. req \in Request
      BY <2>1 DEF TypeOK
    <3>1. /\ Len(inbox') = Len(inbox) + 1
          /\ \A i \in 1..Len(inbox) : inbox'[i] = inbox[i]
          /\ inbox'[Len(inbox) + 1] = req
      BY <1>0, <2>3, <3>0, QueueEnds
    <3>2. Left' = Left /\ Delivered = Left /\ Delivered' = Left
      BY <2>1 DEF Left, Delivered
    <3>3. Left \in 1..Left /\ Left \in 1..Len(order) /\ order[Left] = req
      BY <1>0, <2>1 DEF Lane, Turn
    <3>4. Inbox'
      <4>1. ASSUME NEW i \in 1..Len(inbox')
            PROVE  \E k \in 1..Left : order[k] = inbox'[i]
        <5>1. CASE i \in 1..Len(inbox)
          BY <3>1, <3>2, <5>1 DEF Lane, Inbox
        <5>2. CASE i = Len(inbox) + 1
          BY <3>1, <3>3, <5>2
        <5>3. QED
          BY <1>0, <3>1, <5>1, <5>2
      <4>2. QED
        BY <2>1, <3>2, <4>1 DEF Inbox
    <3>5. ASSUME NEW i \in 1..Len(inbox'), NEW j \in 1..Len(inbox'), i < j,
                 NEW k \in 1..Len(order), NEW l \in 1..Len(order),
                 order[k] = inbox'[i], order[l] = inbox'[j]
          PROVE  k <= l
      <4>1. i \in 1..Len(inbox) /\ order[k] = inbox[i]
        BY <1>0, <3>1, <3>5
      <4>2. CASE j \in 1..Len(inbox)
        BY <3>1, <3>5, <4>1, <4>2 DEF Lane, Sorted
      <4>3. CASE j = Len(inbox) + 1
        <5>1. l = Left
          BY <3>1, <3>3, <3>5, <4>3 DEF Lane, Distinct
        <5>2. PICK n \in 1..Left : order[n] = inbox[i]
          BY <3>2, <4>1 DEF Lane, Inbox
        <5>3. n = k
          <6>1. n \in 1..Len(order) /\ order[n] = order[k]
            BY <1>0, <4>1, <5>2
          <6>2. Distinct
            BY DEF Lane
          <6>3. QED
            BY <6>1, <6>2 DEF Distinct
        <5>4. QED
          BY <1>0, <5>1, <5>2, <5>3
      <4>4. QED
        BY <1>0, <3>1, <4>2, <4>3
    <3>6. Sorted'
      BY <2>1, <3>5 DEF Sorted
    <3>7. Turn'
      BY <2>1, <3>2, <3>3, <1>0 DEF Turn
    <3>8. QED
      BY <2>1, <3>2, <3>4, <3>6, <3>7 DEF Lane, Distinct, Queued
  <2>4. QED
    BY <2>1, <2>2, <2>3
<1>4. CASE Stop \/ Crash
  <2>1. queue' = << >> /\ pc' = "down" /\ UNCHANGED <<order, inbox>>
    BY <1>4 DEF Stop, Crash, ProcessEnds, historyVars
  <2>2. Len(queue') = 0
    BY <2>1
  <2>3. Left' = Len(order) /\ Delivered' = Len(order)
    BY <1>0, <2>1, <2>2 DEF Left, Delivered
  <2>4. Inbox'
    <3>1. Inbox /\ Delivered \in Int /\ Delivered <= Len(order)
      BY <1>0 DEF Lane
    <3>2. QED
      BY <2>1, <2>3, <3>1 DEF Inbox
  <2>5. QED
    <3>1. Distinct' /\ Sorted'
      BY <2>1 DEF Lane, Distinct, Sorted
    <3>2. Queued' /\ Turn'
      BY <1>0, <2>1, <2>2 DEF Queued, Turn
    <3>3. QED
      BY <2>4, <3>1, <3>2 DEF Lane
<1>5. CASE ResolveFails \/ Write
  BY <1>5, LaneStays DEF ResolveFails, Write, LogAttempt, LogFails, ToIdle, historyVars
<1>6. CASE ResolveUnknown \/ (\E u \in Account : Resolve(u)) \/ Retry
  BY <1>6, LaneStays DEF ResolveUnknown, Resolve, Retry, historyVars
<1>7. CASE Tick \/ (\E u \in Account : Register(u)) \/ Cancel \/ Start \/ UNCHANGED vars
  <2>1. UNCHANGED <<order, queue, inbox, req>> /\ (pc' = pc \/ pc' = "idle")
    BY <1>7 DEF Tick, Register, Cancel, Start, vars, handleVars, historyVars
  <2>2. QED
    BY <2>1, LaneStays
<1>8. QED
  BY <1>1, <1>2, <1>3, <1>4, <1>5, <1>6, <1>7 DEF Next, Lookup

LEMMA AlwaysLane == Spec => []Lane
<1>1. Init => Lane
  BY DEF Init, Lane, Distinct, Queued, Turn, Inbox, Sorted
<1>2. TypeOK /\ Lane /\ [Next]_vars => Lane'
  BY LaneKept
<1>3. QED
  BY <1>1, <1>2, TypeCorrect, PTL DEF Spec

\* Messages reach Telegram in the order their requests entered the queue (one task,
\* send_with_retries).
THEOREM NeverOvertaken == Spec => []InOrder
<1>1. TypeOK /\ Lane => InOrder
  <2> SUFFICES ASSUME TypeOK, Lane,
                      NEW i \in DOMAIN inbox, NEW j \in DOMAIN inbox, i < j
               PROVE  Position(inbox[i]) <= Position(inbox[j])
    BY DEF InOrder
  <2>1. /\ DOMAIN inbox = 1..Len(inbox) /\ DOMAIN order = 1..Len(order)
        /\ Left \in Int /\ Delivered <= Left /\ Left <= Len(order) /\ Len(order) \in Nat
        /\ Delivered \in Int
    BY Numbers DEF Left, Delivered, Lane, Queued
  <2>2. ASSUME NEW n \in DOMAIN inbox
        PROVE  Position(inbox[n]) \in 1..Len(order) /\ order[Position(inbox[n])] = inbox[n]
    <3>1. PICK k \in 1..Delivered : order[k] = inbox[n]
      BY <2>1 DEF Lane, Inbox
    <3>2. k \in DOMAIN order
      BY <2>1
    <3>3. QED
      BY <2>1, <3>1, <3>2 DEF Position
  <2>3. QED
    BY <2>1, <2>2 DEF Lane, Sorted
<1>2. QED
  BY <1>1, TypeCorrect, AlwaysLane, PTL

-----------------------------------------------------------------------------
(***************************************************************************)
(* The log.  What is behind the request in hand has been delivered or not  *)
(* for good, so a row stays true; what is ahead has no row yet.            *)
(***************************************************************************)
Sent(r) == \E i \in 1..Len(inbox) : inbox[i] = r

True(r, o) == (o = "delivered" => Sent(r)) /\ (o = "limited" => ~Sent(r))

RowsBehind == \A row \in log : \E k \in 1..Logged : order[k] = row.req
OneRow     == \A row, other \in log : row.req = other.req => row = other
OwnRow     == \A row \in log : row.user[1] = To[row.req]
TrueRows   == \A row \in log : True(row.req, row.outcome)
TrueNext   == pc = "log" => True(req, outcome)

Ledger == RowsBehind /\ OneRow /\ OwnRow /\ TrueRows /\ TrueNext

LEMMA CountOfCopies ==
    ASSUME TypeOK, NEW r
    PROVE  Copies(r) \in Nat /\ (Copies(r) > 0 <=> Sent(r))
<1> DEFINE copies == {i \in DOMAIN inbox : inbox[i] = r}
<1>1. DOMAIN inbox = 1..Len(inbox) /\ Len(inbox) \in Nat
  BY DEF TypeOK
<1>2. IsFiniteSet(1..Len(inbox))
  BY <1>1, FS_Interval
<1>3. IsFiniteSet(copies)
  BY <1>1, <1>2, FS_Subset
<1>4. Cardinality(copies) \in Nat /\ (Cardinality(copies) = 0 <=> copies = {})
  BY <1>3, FS_CardinalityType, FS_EmptySet
<1>5. copies = {} <=> ~Sent(r)
  BY <1>1 DEF Sent
<1>6. Copies(r) = Cardinality(copies)
  BY DEF Copies
<1> HIDE DEF copies
<1>7. QED
  BY <1>4, <1>5, <1>6

\* The request in hand, or on its way to the log, is none that has a row ...
LEMMA NoRowYet ==
    ASSUME TypeOK, Lane, Ledger, pc \notin {"idle", "down"}, NEW row \in log
    PROVE  row.req # req
<1>1. /\ Left \in Int /\ Left >= 1 /\ Left <= Len(order) /\ order[Left] = req
      /\ Len(order) \in Nat
  BY Numbers DEF Lane, Turn, Left, Queued
<1>2. PICK k \in 1..(Left - 1) : order[k] = row.req
  BY DEF Ledger, RowsBehind, Logged
<1>3. QED
  BY <1>1, <1>2 DEF Lane, Distinct

\* ... and, as long as it is being looked up, has not been delivered.
LEMMA NotSentYet ==
    ASSUME TypeOK, Lane, pc = "resolve"
    PROVE  ~Sent(req)
<1>1. /\ Left \in Int /\ Left >= 1 /\ Left <= Len(order) /\ order[Left] = req
      /\ Len(order) \in Nat
  BY Numbers DEF Lane, Turn, Left, Queued
<1>2. ASSUME NEW i \in 1..Len(inbox), inbox[i] = req
      PROVE  FALSE
  <2>1. PICK k \in 1..(Left - 1) : order[k] = req
    BY <1>2 DEF Lane, Inbox, Delivered
  <2>2. QED
    BY <1>1, <2>1 DEF Lane, Distinct
<1>3. QED
  BY <1>2 DEF Sent

LEMMA LedgerKept ==
    ASSUME TypeOK, Resolved, Lane, Ledger, [Next]_vars
    PROVE  Ledger'
<1>0. /\ order \in Seq(Request) /\ queue \in Seq(Request) /\ inbox \in Seq(Request)
      /\ Len(order) \in Nat /\ Len(queue) \in Nat /\ Len(inbox) \in Nat
      /\ Left \in Int /\ Logged \in Int /\ Logged <= Left
      /\ Left = Len(order) - Len(queue) /\ Left <= Len(order) /\ Left >= 0
  BY Numbers DEF Left, Logged, Lane, Queued
\* Steps that write no row, take nothing away from "order" and deliver nothing.
<1>1. ASSUME log' = log, inbox' = inbox, Logged' \in Int, Logged' >= Logged,
             \A k \in 1..Logged : order'[k] = order[k],
             pc' = "log" => True(req', outcome')
      PROVE  Ledger'
  <2>1. RowsBehind'
    <3>1. ASSUME NEW row \in log
          PROVE  \E k \in 1..Logged' : order'[k] = row.req
      <4>1. PICK k \in 1..Logged : order[k] = row.req
        BY DEF Ledger, RowsBehind
      <4>2. k \in 1..Logged' /\ order'[k] = row.req
        BY <1>0, <1>1, <4>1
      <4>3. QED
        BY <4>2
    <3>2. QED
      BY <1>1, <3>1 DEF RowsBehind
  <2>2. \A r, o : True(r, o)' <=> True(r, o)
    BY <1>1 DEF True, Sent
  <2>3. TrueRows' /\ TrueNext'
    BY <1>1, <2>2 DEF Ledger, TrueRows, TrueNext, True, Sent
  <2>4. QED
    BY <1>1, <2>1, <2>3 DEF Ledger, OneRow, OwnRow
<1>2. ASSUME NEW r \in Request, Submit(r)
      PROVE  Ledger'
  <2>1. /\ order' = Append(order, r) /\ queue' = Append(queue, r)
        /\ UNCHANGED <<pc, req, outcome, inbox, log>>
    BY <1>2 DEF Submit, handleVars
  <2>2. /\ Len(order') = Len(order) + 1 /\ Len(queue') = Len(queue) + 1
        /\ \A k \in 1..Len(order) : order'[k] = order[k]
    BY <1>0, <2>1, QueueEnds
  <2>3. Logged' = Logged
    BY <1>0, <2>1, <2>2 DEF Left, Logged
  <2>4. pc' = "log" => True(req', outcome')
    BY <2>1 DEF Ledger, TrueNext
  <2>5. \A k \in 1..Logged : order'[k] = order[k]
    BY <1>0, <2>2
  <2>6. QED
    BY <1>0, <1>1, <2>1, <2>3, <2>4, <2>5
<1>3. CASE Receive
  <2>1. /\ queue # << >> /\ queue' = Tail(queue) /\ pc = "idle" /\ pc' = "resolve"
        /\ UNCHANGED <<order, inbox, log>>
    BY <1>3 DEF Receive, historyVars
  <2>2. Len(queue') = Len(queue) - 1
    BY <1>0, <2>1, QueueHead
  <2>3. Logged' = Logged
    BY <1>0, <2>1, <2>2 DEF Left, Logged
  <2>4. QED
    BY <1>0, <1>1, <2>1, <2>3
<1>4. CASE ResolveUnknown \/ (\E u \in Account : Resolve(u))
  <2>1. /\ pc = "resolve" /\ pc' \in {"send", "log"} /\ (pc' = "log" => outcome' = "limited")
        /\ UNCHANGED <<order, queue, inbox, log, req>>
    BY <1>4 DEF ResolveUnknown, Resolve, historyVars
  <2>2. Logged' = Logged
    BY <2>1 DEF Left, Logged
  <2>3. ~Sent(req)
    BY <2>1, NotSentYet
  <2>4. pc' = "log" => True(req', outcome')
    BY <2>1, <2>3 DEF True
  <2>5. QED
    BY <1>0, <1>1, <2>1, <2>2, <2>4
<1>5. CASE Send
  <2>1. /\ pc = "send" /\ UNCHANGED <<order, queue, log>> /\ req \in Request
        /\ pc' = "log" => req' = req /\ outcome' \in {"delivered", "failed"}
        /\ pc' \in {"idle", "log", "pause"}
    BY <1>5 DEF Send, SendOk, SendFails, Finish, ToIdle, handleVars, TypeOK
  <2>2. /\ inbox' = inbox \/ inbox' = Append(inbox, req)
        /\ pc' = "log" /\ outcome' = "delivered" => inbox' = Append(inbox, req)
    BY <1>5 DEF Send, SendOk, SendFails, Finish, ToIdle, handleVars
  <2>3. Logged' \in Int /\ Logged' >= Logged
    BY <1>0, <2>1 DEF Left, Logged
  <2>4. CASE inbox' = inbox
    <3>1. outcome' = "delivered" /\ pc' = "log" => FALSE
      BY <1>0, <2>1, <2>2, <2>4, QueueEnds
    <3>2. pc' = "log" => True(req', outcome')
      BY <2>1, <3>1 DEF True
    <3>3. QED
      BY <1>1, <2>1, <2>3, <2>4, <3>2
  <2>5. CASE inbox' = Append(inbox, req)
    <3>1. /\ Len(inbox') = Len(inbox) + 1
          /\ \A i \in 1..Len(inbox) : inbox'[i] = inbox[i]
          /\ inbox'[Len(inbox) + 1] = req
      BY <1>0, <2>1, <2>5, QueueEnds
    <3>2. ASSUME NEW r, r # req
          PROVE  Sent(r)' <=> Sent(r)
      <4>1. \A i \in 1..Len(inbox') : i \in 1..Len(inbox) \/ i = Len(inbox) + 1
        BY <1>0, <3>1
      <4>2. \A i \in 1..Len(inbox) : i \in 1..Len(inbox')
        BY <1>0, <3>1
      <4>3. QED
        BY <3>1, <3>2, <4>1, <4>2 DEF Sent
    <3>3. PICK r \in Request : r = req
      BY <2>1
    <3>4. Sent(r)'
      <4>1. Len(inbox) + 1 \in 1..Len(inbox')
        BY <1>0, <3>1
      <4>2. QED
        BY <3>1, <3>3, <4>1 DEF Sent
    <3>5. ASSUME NEW row \in log
          PROVE  row.req # r /\ True(row.req, row.outcome)'
      <4>1. row.req # r
        BY <2>1, <3>3, NoRowYet
      <4>2. True(row.req, row.outcome)
        BY DEF Ledger, TrueRows
      <4>3. QED
        BY <3>2, <3>3, <4>1, <4>2 DEF True
    <3>6. TrueRows'
      BY <2>1, <3>5 DEF TrueRows
    <3>7. TrueNext'
      BY <2>1, <3>3, <3>4 DEF TrueNext, True
    <3>8. RowsBehind'
      BY <1>0, <2>1, <2>3 DEF Ledger, RowsBehind
    <3>9. QED
      BY <2>1, <3>6, <3>7, <3>8 DEF Ledger, OneRow, OwnRow
  <2>6. QED
    BY <2>2, <2>4, <2>5
<1>6. CASE LogAttempt
  <2> DEFINE new == [req |-> req, user |-> user, outcome |-> outcome, at |-> now]
  <2>1. /\ pc = "log" /\ pc' = "idle" /\ log' = log \cup {new}
        /\ UNCHANGED <<order, queue, inbox>>
        /\ new.req = req /\ new.user = user /\ new.outcome = outcome
    BY <1>6 DEF LogAttempt, ToIdle, historyVars
  <2> HIDE DEF new
  <2>2. Logged' = Left /\ Logged = Left - 1 /\ Left \in 1..Left /\ order[Left] = req
    BY <1>0, <2>1 DEF Left, Logged, Lane, Turn
  <2>3. RowsBehind'
    <3>1. ASSUME NEW row \in log
          PROVE  \E k \in 1..Left : order[k] = row.req
      BY <1>0, <2>2 DEF Ledger, RowsBehind
    <3>2. \E k \in 1..Left : order[k] = new.req
      BY <2>1, <2>2
    <3>3. QED
      BY <2>1, <2>2, <3>1, <3>2 DEF RowsBehind
  <2>4. OneRow'
    <3>1. \A row \in log : row.req # new.req
      BY <2>1, NoRowYet
    <3>2. QED
      BY <2>1, <3>1 DEF Ledger, OneRow
  <2>5. OwnRow'
    BY <2>1 DEF Ledger, OwnRow, Resolved
  <2>6. TrueRows'
    <3>1. \A row \in log' : True(row.req, row.outcome)
      BY <2>1 DEF Ledger, TrueRows, TrueNext
    <3>2. QED
      BY <2>1, <3>1 DEF TrueRows, True, Sent
  <2>7. TrueNext'
    BY <2>1 DEF TrueNext
  <2>8. QED
    BY <2>3, <2>4, <2>5, <2>6, <2>7 DEF Ledger
<1>7. CASE ResolveFails \/ LogFails
  <2>1. pc \notin {"idle", "down"} /\ pc' = "idle" /\ UNCHANGED <<order, queue, inbox, log>>
    BY <1>7 DEF ResolveFails, LogFails, ToIdle, historyVars
  <2>2. Logged' \in Int /\ Logged' >= Logged
    BY <1>0, <2>1 DEF Left, Logged
  <2>3. QED
    BY <1>1, <2>1, <2>2
<1>8. CASE Stop \/ Crash
  <2>1. queue' = << >> /\ pc' = "down" /\ UNCHANGED <<order, inbox, log>>
    BY <1>8 DEF Stop, Crash, ProcessEnds, historyVars
  <2>2. Len(queue') = 0
    BY <2>1
  <2>3. Logged' = Len(order)
    BY <1>0, <2>1, <2>2 DEF Left, Logged
  <2>4. QED
    BY <1>0, <1>1, <2>1, <2>3
<1>9. CASE Tick \/ (\E u \in Account : Register(u)) \/ Cancel \/ Retry \/ UNCHANGED vars
  <2>1. /\ UNCHANGED <<order, queue, inbox, log, req, outcome>>
        /\ pc' = pc \/ (pc = "pause" /\ pc' = "send")
    BY <1>9 DEF Tick, Register, Cancel, Retry, vars, handleVars, historyVars
  <2>2. Logged' = Logged
    BY <2>1 DEF Left, Logged
  <2>3. pc' = "log" => True(req', outcome')
    BY <2>1 DEF Ledger, TrueNext
  <2>4. QED
    BY <1>0, <1>1, <2>1, <2>2, <2>3
<1>10. CASE Start
  <2>1. pc = "down" /\ pc' = "idle" /\ UNCHANGED <<order, queue, inbox, log>>
    BY <1>10 DEF Start, historyVars
  <2>2. Logged' = Logged
    BY <2>1 DEF Left, Logged
  <2>3. QED
    BY <1>0, <1>1, <2>1, <2>2
<1>11. QED
  BY <1>2, <1>3, <1>4, <1>5, <1>6, <1>7, <1>8, <1>9, <1>10 DEF Next, Lookup, Write

\* What the log says is what happened, and it says it once for each request, of the
\* account it was for (handle, log_attempt).
THEOREM LogIsTrue == Spec => []LogTruthful
<1>1. Init => Ledger
  BY DEF Init, Ledger, RowsBehind, OneRow, OwnRow, TrueRows, TrueNext
<1>2. Typed /\ Lane /\ Ledger /\ [Next]_vars => Ledger'
  BY LedgerKept DEF Typed
<1>3. Typed /\ Ledger => LogTruthful
  <2> SUFFICES ASSUME TypeOK, Ledger, NEW row \in log
               PROVE  /\ RowsOf(row.req) = {row}
                      /\ row.user[1] = To[row.req]
                      /\ row.outcome = "delivered" => Copies(row.req) > 0
                      /\ row.outcome = "limited" => Copies(row.req) = 0
    BY DEF LogTruthful, Typed
  <2>1. RowsOf(row.req) = {row}
    BY DEF Ledger, OneRow, RowsOf
  <2>2. Copies(row.req) \in Nat /\ (Copies(row.req) > 0 <=> Sent(row.req))
    BY CountOfCopies
  <2>3. True(row.req, row.outcome)
    BY DEF Ledger, TrueRows
  <2>4. QED
    BY <2>1, <2>2, <2>3 DEF True, Ledger, OwnRow
<1>4. QED
  BY <1>1, <1>2, <1>3, AlwaysTyped, AlwaysLane, PTL DEF Spec

-----------------------------------------------------------------------------
(***************************************************************************)
(* What is logged as delivered, against the limiter.  The delivered rows R *)
(* of a chat are those A of its current window, which started at s and has *)
(* counted n calls that are done with, and older ones, no more than the    *)
(* maximum of which are of the last Window ticks before s: the request in  *)
(* hand was accepted in a window of its own time, and no call was accepted *)
(* while it was being sent.                                                *)
(***************************************************************************)
Metered(R, A, s, n) ==
    /\ A \subseteq R /\ Cardinality(A) <= n
    /\ \A r \in A : r.at >= s
    /\ \A r \in R \ A : r.at <= s
    /\ Cardinality({r \in R \ A : r.at > s - Window}) <= Max

SpanOf(R, t) == {r \in R : t <= r.at /\ r.at < t + Window}

\* A row is added to those of the current window ...
LEMMA RowOfWindow ==
    ASSUME NEW R \in SUBSET Row, IsFiniteSet(R), NEW A, NEW s \in Nat, NEW n \in Nat,
           Metered(R, A, s, n), NEW row \in Row, row.at >= s
    PROVE  Metered(R \cup {row}, A \cup {row}, s, n + 1)
<1> DEFINE old == {r \in R \ A : r.at > s - Window}
           new == {r \in (R \cup {row}) \ (A \cup {row}) : r.at > s - Window}
<1>1. A \subseteq R /\ IsFiniteSet(A) /\ IsFiniteSet(old)
  BY FS_Subset DEF Metered
<1>2. Cardinality(A \cup {row}) <= n + 1
  <2>1. Cardinality(A) \in Nat /\ Cardinality(A) <= n
    BY <1>1, FS_CardinalityType DEF Metered
  <2>2. Cardinality(A \cup {row}) = IF row \in A THEN Cardinality(A) ELSE Cardinality(A) + 1
    BY <1>1, FS_AddElement
  <2>3. QED
    BY <2>1, <2>2
<1>3. Cardinality(new) <= Max
  <2>1. new \subseteq old
    OBVIOUS
  <2>2. Cardinality(new) <= Cardinality(old) /\ IsFiniteSet(new)
    BY <1>1, <2>1, FS_Subset
  <2>3. Cardinality(old) \in Nat /\ Cardinality(new) \in Nat
    BY <1>1, <2>2, FS_CardinalityType
  <2>4. Cardinality(old) <= Max /\ Max \in Nat
    BY ServiceAssumption DEF Metered, Limiter!LimiterAssumption
  <2> HIDE DEF old, new
  <2>5. QED
    BY <2>2, <2>3, <2>4
<1>4. QED
  BY <1>1, <1>2, <1>3 DEF Metered

\* ... a window ends, and the rows of the last Window ticks are its own ...
LEMMA WindowEnds ==
    ASSUME NEW R \in SUBSET Row, IsFiniteSet(R), NEW A, NEW s \in Nat, NEW n \in Nat,
           Metered(R, A, s, n), n <= Max, NEW t \in Nat, s + Window <= t,
           \A r \in R : r.at <= t
    PROVE  Metered(R, {}, t, 0)
<1> DEFINE recent == {r \in R \ {} : r.at > t - Window}
<1>0. Max \in Nat /\ Window \in Nat
  BY ServiceAssumption DEF Limiter!LimiterAssumption
<1>1. \A r \in R : r.at \in Nat
  BY DEF Row
<1>2. recent \subseteq A
  BY <1>0, <1>1 DEF Metered
<1>3. A \subseteq R /\ IsFiniteSet(A)
  BY FS_Subset DEF Metered
<1>4. IsFiniteSet(recent) /\ Cardinality(recent) <= Cardinality(A)
  BY <1>2, <1>3, FS_Subset
<1>5. Cardinality(recent) \in Nat /\ Cardinality(A) \in Nat /\ Cardinality(A) <= n
  BY <1>3, <1>4, FS_CardinalityType DEF Metered
<1>6. Cardinality(recent) <= Max
  <2> HIDE DEF recent
  <2>1. QED
    BY <1>0, <1>4, <1>5
<1>7. QED
  BY <1>6, FS_EmptySet DEF Metered

\* ... so Window ticks from after s - Window on hold the rows of the current window
\* and at most the maximum of older ones.
LEMMA TwoWindows ==
    ASSUME NEW R \in SUBSET Row, IsFiniteSet(R), NEW A, NEW s \in Nat, NEW n \in Nat,
           Metered(R, A, s, n), n <= Max, NEW t \in Int, t > s - Window
    PROVE  Cardinality(SpanOf(R, t)) <= 2 * Max
<1> DEFINE old == {r \in R \ A : r.at > s - Window}
<1>0. Max \in Nat /\ Window \in Nat
  BY ServiceAssumption DEF Limiter!LimiterAssumption
<1>1. \A r \in R : r.at \in Nat
  BY DEF Row
<1>2. SpanOf(R, t) \subseteq A \cup old
  BY <1>0, <1>1 DEF SpanOf
<1>3. A \subseteq R /\ IsFiniteSet(A) /\ IsFiniteSet(old)
  BY FS_Subset DEF Metered
<1>4. Cardinality(old) <= Max /\ Cardinality(A) <= n
  BY DEF Metered
<1> HIDE DEF old
<1>5. /\ IsFiniteSet(A \cup old) /\ IsFiniteSet(A \cap old)
      /\ Cardinality(A \cup old) = Cardinality(A) + Cardinality(old) - Cardinality(A \cap old)
  BY <1>3, FS_Union, FS_Intersection
<1>6. IsFiniteSet(SpanOf(R, t)) /\ Cardinality(SpanOf(R, t)) <= Cardinality(A \cup old)
  BY <1>2, <1>5, FS_Subset
<1>7. /\ Cardinality(A) \in Nat /\ Cardinality(old) \in Nat /\ Cardinality(A \cap old) \in Nat
      /\ Cardinality(A \cup old) \in Nat /\ Cardinality(SpanOf(R, t)) \in Nat
  BY <1>3, <1>5, <1>6, FS_CardinalityType
<1>8. QED
  BY <1>0, <1>4, <1>5, <1>6, <1>7

-----------------------------------------------------------------------------
\* A request to chat c has been accepted and has no row yet.
InFlight(c) == /\ user # NoAccount /\ user[1] = c
               /\ pc \in {"send", "pause"} \/ (pc = "log" /\ outcome # "limited")

\* The calls of the current window whose requests are done with.
Used(c) == windows[c].count - IF InFlight(c) THEN 1 ELSE 0

Meter(c) ==
    /\ \A t \in Nat : Cardinality(SpanOf(DeliveredRows(c), t)) <= 2 * Max
    /\ \A r \in DeliveredRows(c) : r.at <= now
    /\ windows[c] = NoWindow => DeliveredRows(c) = {} /\ ~InFlight(c)
    /\ windows[c] # NoWindow =>
          /\ windows[c].start <= now
          /\ Used(c) >= 0
          /\ \E A : Metered(DeliveredRows(c), A, windows[c].start, Used(c))

\* What a call of the limiter leaves of the windows.
LEMMA CallOfLimiter ==
    ASSUME TypeOK, NEW c \in Chat, Limiter!CheckAndConsume(c)
    PROVE  /\ now' = now
           /\ \A d \in Chat : d # c => windows'[d] = windows[d]
           /\ windows'[c] # NoWindow
           /\ \E n \in Nat :
                 /\ \/ /\ windows[c] # NoWindow /\ n = windows[c].count
                       /\ windows'[c].start = windows[c].start
                    \/ /\ n = 0 /\ windows'[c].start = now
                       /\ windows[c] # NoWindow => windows[c].start + Window <= now
                 /\ windows'[c].count = IF Limiter!Allows(c) THEN n + 1 ELSE n
<1>0. /\ Limiter!TypeOK /\ Max \in Nat /\ Window \in Nat
      /\ NoWindow \notin [count : Nat, start : Nat] /\ MaxTime \in Nat
  BY ServiceAssumption DEF TypeOK, Limiter!LimiterAssumption
<1>1. /\ now \in Nat /\ windows \in [Chat -> Limiter!Entry \cup {NoWindow}]
      /\ \A e \in Limiter!Entry : e \in [count : Nat, start : Nat]
  BY <1>0 DEF Limiter!TypeOK, Limiter!Entry, Limiter!Time
<1>2. PICK e : e = Limiter!Fresh(windows[c], now)
  OBVIOUS
<1>3. /\ e \in [count : Nat, start : Nat]
      /\ \/ windows[c] # NoWindow /\ e = windows[c]
         \/ /\ e.count = 0 /\ e.start = now
            /\ windows[c] # NoWindow => windows[c].start + Window <= now
  <2>1. CASE windows[c] = NoWindow
    BY <1>1, <1>2, <2>1 DEF Limiter!Fresh
  <2>2. CASE windows[c] # NoWindow
    <3>1. windows[c] \in [count : Nat, start : Nat]
      BY <1>1, <2>2
    <3>2. windows[c].start \in Nat
      BY <3>1
    <3>3. QED
      BY <1>0, <1>1, <1>2, <2>2, <3>1, <3>2 DEF Limiter!Fresh
  <2>3. QED
    BY <2>1, <2>2
<1>4. /\ now' = now /\ windows' = [windows EXCEPT ![c] = Limiter!Consumed(e)]
      /\ Limiter!Passes(e) <=> Limiter!Allows(c)
  BY <1>2 DEF Limiter!CheckAndConsume, Limiter!Allows
<1>5. /\ Limiter!Consumed(e) \in [count : Nat, start : Nat]
      /\ Limiter!Consumed(e).start = e.start
      /\ Limiter!Consumed(e).count = IF Limiter!Allows(c) THEN e.count + 1 ELSE e.count
  BY <1>3, <1>4 DEF Limiter!Consumed
<1>6. /\ windows'[c] = Limiter!Consumed(e)
      /\ \A d \in Chat : d # c => windows'[d] = windows[d]
  BY <1>1, <1>4
<1>7. windows'[c] # NoWindow
  BY <1>0, <1>5, <1>6
<1>8. QED
  BY <1>3, <1>4, <1>5, <1>6, <1>7

LEMMA MeterNumbers ==
    ASSUME TypeOK, IsFiniteSet(log \ found), NEW c \in Chat
    PROVE  /\ now \in Nat /\ Max \in Nat /\ Window \in Nat
           /\ DeliveredRows(c) \in SUBSET Row /\ IsFiniteSet(DeliveredRows(c))
           /\ windows[c] # NoWindow => /\ windows[c].start \in Nat /\ windows[c].count \in 0..Max
                                       /\ Used(c) \in Int /\ Used(c) <= Max
<1>1. /\ now \in Nat /\ Max \in Nat /\ Window \in Nat
      /\ windows[c] \in Limiter!Entry \cup {NoWindow}
  BY ServiceAssumption DEF TypeOK, Limiter!TypeOK, Limiter!Time, Limiter!LimiterAssumption
<1>2. windows[c] # NoWindow => windows[c].start \in Nat /\ windows[c].count \in 0..Max
  BY <1>1, ServiceAssumption DEF Limiter!Entry, Limiter!Time, Limiter!LimiterAssumption
<1>3. windows[c] # NoWindow => Used(c) \in Int /\ Used(c) <= Max
  BY <1>1, <1>2 DEF Used
<1>4. DeliveredRows(c) \in SUBSET (log \ found) /\ DeliveredRows(c) \in SUBSET Row
  BY DEF DeliveredRows, TypeOK
<1>5. IsFiniteSet(DeliveredRows(c))
  BY <1>4, FS_Subset
<1>6. QED
  BY <1>1, <1>2, <1>3, <1>4, <1>5

\* A step that leaves the chat's window and rows alone; its request may get done with.
LEMMA MeterStays ==
    ASSUME TypeOK, TypeOK', IsFiniteSet(log \ found), NEW c \in Chat, Meter(c),
           windows'[c] = windows[c], DeliveredRows(c)' = DeliveredRows(c), now' >= now,
           InFlight(c)' => InFlight(c)
    PROVE  Meter(c)'
<1>0. /\ now \in Nat /\ now' \in Nat /\ DeliveredRows(c) \in SUBSET Row
      /\ windows[c] # NoWindow => windows[c].start \in Nat /\ windows[c].count \in 0..Max
      /\ Max \in Nat
  <2>1. now' \in Nat
    BY ServiceAssumption DEF TypeOK, Limiter!TypeOK, Limiter!Time, Limiter!LimiterAssumption
  <2>2. QED
    BY <2>1, MeterNumbers
<1>1. \A r \in DeliveredRows(c) : r.at \in Nat
  BY <1>0 DEF Row
<1>2. windows[c] # NoWindow => Used(c)' \in Int /\ Used(c) \in Int /\ Used(c)' >= Used(c)
  BY <1>0 DEF Used
<1>3. ASSUME windows[c] # NoWindow
      PROVE  \E A : Metered(DeliveredRows(c), A, windows[c].start, Used(c)')
  <2>1. PICK A : Metered(DeliveredRows(c), A, windows[c].start, Used(c))
    BY <1>3 DEF Meter
  <2>2. IsFiniteSet(A)
    BY <2>1, MeterNumbers, FS_Subset DEF Metered
  <2>3. Cardinality(A) <= Used(c)'
    BY <1>2, <1>3, <2>1, <2>2, FS_CardinalityType DEF Metered
  <2>4. QED
    BY <2>1, <2>3 DEF Metered
<1>4. \A t \in Nat : Cardinality(SpanOf(DeliveredRows(c)', t)) <= 2 * Max
  BY DEF Meter
<1>5. \A r \in DeliveredRows(c)' : r.at <= now'
  BY <1>0, <1>1 DEF Meter
<1>6. QED
  BY <1>0, <1>2, <1>3, <1>4, <1>5 DEF Meter

\* The request in hand is for chat c: it is turned away, or gets a place in the
\* chat's window, perhaps a new one.
LEMMA MeterCalls ==
    ASSUME TypeOK, TypeOK', IsFiniteSet(log \ found), Resolved,
           NEW c \in Chat, Meter(c), NEW u \in Account, Resolve(u), To[req] = c
    PROVE  Meter(c)'
<1>0. /\ now \in Nat /\ DeliveredRows(c) \in SUBSET Row /\ IsFiniteSet(DeliveredRows(c))
      /\ windows[c] # NoWindow => /\ windows[c].start \in Nat /\ windows[c].count \in 0..Max
                                  /\ Used(c) \in Int /\ Used(c) <= Max
      /\ Max \in Nat /\ Window \in Nat
  BY MeterNumbers
<1>1. /\ Limiter!CheckAndConsume(c) /\ UNCHANGED <<log, found>> /\ pc = "resolve" /\ user' = u
      /\ IF Limiter!Allows(c) THEN pc' = "send" ELSE pc' = "log" /\ outcome' = "limited"
      /\ u[1] = c
  BY DEF Resolve, Resolvable, historyVars
<1>2. ~InFlight(c) /\ (InFlight(c)' <=> Limiter!Allows(c))
  <2>1. NoAccount \notin Account
    BY ServiceAssumption
  <2>2. QED
    BY <1>1, <2>1 DEF InFlight
<1>3. PICK n \in Nat :
         /\ \/ /\ windows[c] # NoWindow /\ n = windows[c].count
               /\ windows'[c].start = windows[c].start
            \/ /\ n = 0 /\ windows'[c].start = now
               /\ windows[c] # NoWindow => windows[c].start + Window <= now
         /\ windows'[c].count = IF Limiter!Allows(c) THEN n + 1 ELSE n
  BY <1>1, CallOfLimiter
<1>4. now' = now /\ windows'[c] # NoWindow /\ DeliveredRows(c)' = DeliveredRows(c)
  BY <1>1, CallOfLimiter DEF DeliveredRows
<1>5. Used(c)' = n
  BY <1>2, <1>3 DEF Used
<1>6. /\ windows'[c].start \in Nat /\ windows'[c].start <= now
      /\ \E A : Metered(DeliveredRows(c), A, windows'[c].start, n)
  <2>1. CASE windows[c] # NoWindow /\ n = windows[c].count /\ windows'[c].start = windows[c].start
    <3>1. Used(c) = n
      BY <1>0, <1>2, <2>1 DEF Used
    <3>2. QED
      BY <1>0, <2>1, <3>1 DEF Meter
  <2>2. CASE /\ n = 0 /\ windows'[c].start = now
             /\ windows[c] # NoWindow => windows[c].start + Window <= now
    <3>1. CASE windows[c] = NoWindow
      <4>1. DeliveredRows(c) = {}
        BY <3>1 DEF Meter
      <4>2. {r \in {} \ {} : r.at > now - Window} = {} /\ Cardinality({}) = 0
        BY FS_EmptySet
      <4>3. Metered({}, {}, now, 0)
        BY <1>0, <4>2 DEF Metered
      <4>4. QED
        BY <1>0, <2>2, <4>1, <4>3
    <3>2. CASE windows[c] # NoWindow
      <4>1. PICK A : Metered(DeliveredRows(c), A, windows[c].start, Used(c))
        BY <3>2 DEF Meter
      <4>2. Used(c) \in Nat /\ Used(c) <= Max /\ windows[c].start \in Nat
        BY <1>0, <3>2 DEF Meter
      <4>3. \A r \in DeliveredRows(c) : r.at <= now
        BY DEF Meter
      <4>4. Metered(DeliveredRows(c), {}, now, 0)
        BY <1>0, <2>2, <3>2, <4>1, <4>2, <4>3, WindowEnds
      <4>5. QED
        BY <1>0, <2>2, <4>4
    <3>3. QED
      BY <3>1, <3>2
  <2>3. QED
    BY <1>3, <2>1, <2>2
<1>7. QED
  BY <1>4, <1>5, <1>6 DEF Meter

\* The request in hand, for chat c, is logged as delivered.
LEMMA MeterRows ==
    ASSUME TypeOK, TypeOK', IsFiniteSet(log \ found), Resolved, NEW c \in Chat, Meter(c),
           LogAttempt, user[1] = c, outcome = "delivered"
    PROVE  Meter(c)'
<1>0. /\ now \in Nat /\ DeliveredRows(c) \in SUBSET Row /\ IsFiniteSet(DeliveredRows(c))
      /\ windows[c] # NoWindow => /\ windows[c].start \in Nat /\ windows[c].count \in 0..Max
                                  /\ Used(c) \in Int /\ Used(c) <= Max
      /\ Max \in Nat /\ Window \in Nat
  BY MeterNumbers
<1> DEFINE new == [req |-> req, user |-> user, outcome |-> outcome, at |-> now]
<1>1. /\ new.user = user /\ new.outcome = outcome /\ new.at = now
      /\ log' = log \cup {new} /\ found' = found /\ pc = "log" /\ pc' = "idle"
      /\ UNCHANGED <<now, windows>>
  BY DEF LogAttempt, ToIdle, limiterVars, historyVars
<1>2. new \in Row
  BY <1>0, <1>1 DEF TypeOK, Resolved, Row
<1> HIDE DEF new
<1>3. DeliveredRows(c)' \in {DeliveredRows(c), DeliveredRows(c) \cup {new}}
  BY <1>1 DEF DeliveredRows
<1>4. InFlight(c) /\ ~InFlight(c)'
  <2>1. user \in Account /\ NoAccount \notin Account
    BY <1>1, ServiceAssumption DEF Resolved
  <2>2. QED
    BY <1>1, <2>1 DEF InFlight
<1>5. windows[c] # NoWindow
  BY <1>4 DEF Meter
<1>6. CASE DeliveredRows(c)' = DeliveredRows(c)
  BY <1>0, <1>1, <1>4, <1>6, MeterStays
<1>7. CASE DeliveredRows(c)' = DeliveredRows(c) \cup {new}
  <2>1. PICK R \in SUBSET Row : R = DeliveredRows(c)
    BY <1>0
  <2>2. PICK s \in Nat : s = windows[c].start /\ s <= now
    BY <1>0, <1>5 DEF Meter
  <2>3. PICK n \in Nat : n = Used(c) /\ n + 1 <= Max /\ Used(c)' = n + 1
    BY <1>0, <1>1, <1>4, <1>5 DEF Meter, Used
  <2>4. PICK A : Metered(R, A, s, n)
    BY <1>5, <2>1, <2>2, <2>3 DEF Meter
  <2>5. Metered(R \cup {new}, A \cup {new}, s, n + 1)
    BY <1>0, <1>1, <1>2, <2>1, <2>2, <2>4, RowOfWindow
  <2>6. R \cup {new} \in SUBSET Row /\ IsFiniteSet(R \cup {new})
    BY <1>0, <1>2, <2>1, FS_AddElement
  <2>7. ASSUME NEW t \in Nat
        PROVE  Cardinality(SpanOf(R \cup {new}, t)) <= 2 * Max
    <3>1. CASE t > s - Window
      BY <2>3, <2>5, <2>6, <3>1, TwoWindows
    <3>2. CASE t <= s - Window
      <4>1. ~(new.at < t + Window)
        BY <1>0, <1>1, <2>2, <3>2
      <4>2. SpanOf(R \cup {new}, t) = SpanOf(R, t)
        BY <4>1 DEF SpanOf
      <4>3. QED
        BY <2>1, <4>2 DEF Meter
    <3>3. QED
      BY <1>0, <3>1, <3>2
  <2>8. \A r \in R \cup {new} : r.at <= now
    BY <1>0, <1>1, <2>1 DEF Meter
  <2>9. n + 1 >= 0
    OBVIOUS
  <2>10. DeliveredRows(c)' = R \cup {new} /\ Used(c)' = n + 1 /\ windows'[c] = windows[c]
         /\ now' = now
    BY <1>1, <1>7, <2>1, <2>3
  <2>11. QED
    BY <1>5, <2>2, <2>5, <2>7, <2>8, <2>9, <2>10 DEF Meter
<1>8. QED
  BY <1>3, <1>6, <1>7

\* Memory is gone, and with it what it stood for.
LEMMA MeterForgets ==
    ASSUME TypeOK', ProcessEnds, NEW c \in Chat
    PROVE  Meter(c)'
<1>1. windows'[c] = NoWindow /\ pc' = "down" /\ DeliveredRows(c)' = {}
  BY DEF ProcessEnds, DeliveredRows
<1>2. \A t : SpanOf({}, t) = {}
  BY DEF SpanOf
<1>3. Cardinality({}) = 0 /\ Max \in Nat
  BY FS_EmptySet, ServiceAssumption DEF Limiter!LimiterAssumption
<1>4. ~InFlight(c)'
  BY <1>1 DEF InFlight
<1>5. QED
  BY <1>1, <1>2, <1>3, <1>4 DEF Meter

LEMMA MeterKept ==
    ASSUME TypeOK, TypeOK', Resolved, IsFiniteSet(log \ found), NEW c \in Chat, Meter(c),
           [Next]_vars
    PROVE  Meter(c)'
<1>0. now \in Nat
  BY MeterNumbers
<1>1. ASSUME windows' = windows, log' = log, found' = found, now' >= now,
             InFlight(c)' => InFlight(c)
      PROVE  Meter(c)'
  BY <1>1, MeterStays DEF DeliveredRows
<1>2. CASE Tick
  BY <1>0, <1>1, <1>2 DEF Tick, Limiter!Tick, InFlight, handleVars, historyVars
<1>3. CASE \/ (\E u \in Account : Register(u)) \/ (\E r \in Request : Submit(r)) \/ Receive
           \/ ResolveFails \/ ResolveUnknown \/ Retry \/ LogFails \/ Cancel \/ Start
           \/ UNCHANGED vars
  <2>1. windows' = windows /\ log' = log /\ found' = found /\ now' = now
    BY <1>3 DEF Register, Submit, Receive, ResolveFails, ResolveUnknown, Retry, LogFails,
                Cancel, Start, vars, limiterVars, historyVars
  <2>2. InFlight(c)' => InFlight(c)
    BY <1>3 DEF Register, Submit, Receive, ResolveFails, ResolveUnknown, Retry, LogFails,
                Cancel, Start, ToIdle, Resolved, InFlight, vars, handleVars
  <2>3. QED
    BY <1>0, <1>1, <2>1, <2>2
<1>4. CASE Send
  <2>1. windows' = windows /\ log' = log /\ found' = found /\ now' = now
    BY <1>4 DEF Send, SendOk, SendFails, limiterVars
  <2>2. InFlight(c)' => InFlight(c)
    BY <1>4 DEF Send, SendOk, SendFails, Finish, ToIdle, InFlight, handleVars
  <2>3. QED
    BY <1>0, <1>1, <2>1, <2>2
<1>5. ASSUME NEW u \in Account, Resolve(u)
      PROVE  Meter(c)'
  <2>1. CASE To[req] = c
    BY <1>5, <2>1, MeterCalls
  <2>2. CASE To[req] # c
    <3>1. To[req] \in Chat /\ Limiter!CheckAndConsume(To[req]) /\ u[1] = To[req] /\ user' = u
          /\ log' = log /\ found' = found
      BY <1>5, ServiceAssumption DEF Resolve, Resolvable, TypeOK, historyVars
    <3>2. windows'[c] = windows[c] /\ now' = now
      BY <2>2, <3>1, CallOfLimiter
    <3>3. ~InFlight(c)'
      BY <2>2, <3>1 DEF InFlight
    <3>4. QED
      BY <1>0, <3>1, <3>2, <3>3, MeterStays DEF DeliveredRows
  <2>3. QED
    BY <2>1, <2>2
<1>6. CASE LogAttempt
  <2>1. CASE user[1] = c /\ outcome = "delivered"
    BY <1>6, <2>1, MeterRows
  <2>2. CASE ~(user[1] = c /\ outcome = "delivered")
    <3> DEFINE new == [req |-> req, user |-> user, outcome |-> outcome, at |-> now]
    <3>1. /\ new.user = user /\ new.outcome = outcome
          /\ log' = log \cup {new} /\ found' = found /\ pc' = "idle"
          /\ UNCHANGED <<now, windows>>
      BY <1>6 DEF LogAttempt, ToIdle, limiterVars, historyVars
    <3> HIDE DEF new
    <3>2. DeliveredRows(c)' = DeliveredRows(c)
      BY <2>2, <3>1 DEF DeliveredRows
    <3>3. ~InFlight(c)'
      BY <3>1 DEF InFlight
    <3>4. QED
      BY <1>0, <3>1, <3>2, <3>3, MeterStays
  <2>3. QED
    BY <2>1, <2>2
<1>7. CASE Stop \/ Crash
  BY <1>7, MeterForgets DEF Stop, Crash
<1>8. QED
  BY <1>2, <1>3, <1>4, <1>5, <1>6, <1>7 DEF Next, Lookup, Write

\* However long Telegram takes and whenever the process dies, no process logs more
\* than twice the maximum as delivered to one chat in any Window ticks (handle,
\* check_and_consume, log_attempt).
THEOREM LoggedAtMostTwiceMax == Spec => []DeliveriesBounded
<1> DEFINE Meters == IsFiniteSet(log \ found) /\ \A c \in Chat : Meter(c)
<1>0. Max \in Nat /\ MaxTime \in Nat
  BY ServiceAssumption DEF Limiter!LimiterAssumption
<1>1. Init => Meters
  <2> SUFFICES ASSUME Init
               PROVE  Meters
    OBVIOUS
  <2>1. log \ found = {} /\ IsFiniteSet({}) /\ Cardinality({}) = 0
    BY FS_EmptySet DEF Init
  <2>2. ASSUME NEW c \in Chat
        PROVE  Meter(c)
    <3>1. windows[c] = NoWindow /\ pc = "down" /\ DeliveredRows(c) = {}
      BY DEF Init, Limiter!Init, DeliveredRows
    <3>2. \A t : SpanOf({}, t) = {}
      BY DEF SpanOf
    <3>3. QED
      BY <1>0, <2>1, <3>1, <3>2 DEF Meter, InFlight
  <2>3. QED
    BY <2>1, <2>2
<1>2. Typed /\ Typed' /\ Meters /\ [Next]_vars => Meters'
  <2> SUFFICES ASSUME TypeOK, TypeOK', Resolved, Meters, [Next]_vars
               PROVE  Meters'
    BY DEF Typed
  <2>1. IsFiniteSet((log \ found)')
    <3>1. CASE LogAttempt
      <4>1. PICK new : log' = log \cup {new} /\ found' = found
        BY <3>1 DEF LogAttempt, historyVars
      <4>2. IsFiniteSet((log \ found) \cup {new})
        BY FS_AddElement
      <4>3. (log \ found)' \in SUBSET ((log \ found) \cup {new})
        BY <4>1
      <4>4. QED
        BY <4>2, <4>3, FS_Subset
    <3>2. CASE Stop \/ Crash
      <4>1. (log \ found)' = {}
        BY <3>2 DEF Stop, Crash, ProcessEnds
      <4>2. QED
        BY <4>1, FS_EmptySet
    <3>3. CASE \/ Tick \/ (\E u \in Account : Register(u)) \/ (\E r \in Request : Submit(r))
               \/ Receive \/ Lookup \/ Send \/ Retry \/ LogFails \/ Cancel \/ Start
               \/ UNCHANGED vars
      BY <3>3 DEF Tick, Register, Submit, Receive, Lookup, ResolveFails, ResolveUnknown, Resolve,
                  Send, SendOk, SendFails, Retry, LogFails, Cancel, Start, vars, historyVars
    <3>4. QED
      BY <3>1, <3>2, <3>3 DEF Next, Write
  <2>2. ASSUME NEW c \in Chat
        PROVE  Meter(c)'
    BY MeterKept
  <2>3. QED
    BY <2>1, <2>2
<1>3. Meters => DeliveriesBounded
  <2> SUFFICES ASSUME \A c \in Chat : Meter(c), NEW c \in Chat, NEW t \in 0..MaxTime
               PROVE  Cardinality(DeliveredSpan(c, t)) <= 2 * Max
    BY DEF DeliveriesBounded
  <2>1. t \in Nat /\ DeliveredSpan(c, t) = SpanOf(DeliveredRows(c), t)
    BY <1>0 DEF DeliveredSpan, SpanOf
  <2>2. QED
    BY <2>1 DEF Meter
<1>4. QED
  BY <1>1, <1>2, <1>3, AlwaysTyped, PTL DEF Spec

-----------------------------------------------------------------------------
(***************************************************************************)
(* The service as the other tasks see it: with all it does to a request    *)
(* hidden it keeps the rules of the channel, which are those the service   *)
(* of module Process has.                                                  *)
(***************************************************************************)
SeenAs == IF pc = "down" THEN "away" ELSE IF pc = "idle" THEN "idle" ELSE "busy"

Channel == INSTANCE NotificationChannel WITH Item <- Request, rough <- MayCrash,
                                             service <- SeenAs

\* A process that is not there has nothing queued and nobody to stop.
Nothing == pc = "down" => queue = << >> /\ ~cancelled

\* Inside a request.
LEMMA RequestUnseen ==
    ASSUME pc \notin {"down", "idle"}, pc' # "down", UNCHANGED <<queue, cancelled>>
    PROVE  [Channel!Next]_(Channel!vars) /\ Nothing'
<1>1. CASE pc' = "idle"
  BY <1>1 DEF Channel!Next, Channel!Done, SeenAs, Nothing
<1>2. CASE pc' # "idle"
  BY <1>2 DEF Channel!vars, SeenAs, Nothing
<1>3. QED
  BY <1>1, <1>2

LEMMA ChannelSteps ==
    ASSUME TypeOK, Nothing, [Next]_vars
    PROVE  [Channel!Next]_(Channel!vars) /\ Nothing'
<1>1. CASE Lookup \/ Send \/ Retry \/ Write
  <2>1. pc \notin {"down", "idle"} /\ pc' # "down" /\ UNCHANGED <<queue, cancelled>>
    BY <1>1 DEF Lookup, ResolveFails, ResolveUnknown, Resolve, Send, SendOk, SendFails, Finish,
                Retry, Write, LogAttempt, LogFails, ToIdle
  <2>2. QED
    BY <2>1, RequestUnseen
<1>2. ASSUME NEW r \in Request, Submit(r)
      PROVE  [Channel!Next]_(Channel!vars) /\ Nothing'
  <2>1. Channel!Send(r)
    BY <1>2 DEF Submit, Channel!Send, SeenAs
  <2>2. QED
    BY <1>2, <2>1 DEF Submit, Nothing, Channel!Next
<1>3. CASE Receive
  <2>1. Channel!Take
    BY <1>3 DEF Receive, Channel!Take, SeenAs
  <2>2. QED
    BY <1>3, <2>1 DEF Receive, Nothing, Channel!Next
<1>4. CASE Cancel
  <2>1. Channel!Cancel
    BY <1>4 DEF Cancel, Channel!Cancel, SeenAs
  <2>2. QED
    BY <1>4, <2>1 DEF Cancel, Nothing, Channel!Next
<1>5. CASE Stop \/ Crash
  <2>1. Channel!End
    BY <1>5 DEF Stop, Crash, ProcessEnds, Channel!End, Channel!MayLeave, SeenAs
  <2>2. QED
    BY <1>5, <2>1 DEF Stop, Crash, ProcessEnds, Nothing, Channel!Next
<1>6. CASE Start
  <2>1. Channel!Begin
    BY <1>6 DEF Start, Nothing, Channel!Begin, SeenAs
  <2>2. QED
    BY <1>6, <2>1 DEF Start, Nothing, Channel!Next
<1>7. CASE Tick \/ (\E u \in Account : Register(u)) \/ UNCHANGED vars
  <2>1. UNCHANGED <<pc, queue, cancelled>>
    BY <1>7 DEF Tick, Register, vars
  <2>2. QED
    BY <2>1 DEF Channel!vars, SeenAs, Nothing
<1>8. QED
  BY <1>1, <1>2, <1>3, <1>4, <1>5, <1>6, <1>7 DEF Next

\* Lookups, limits, retries, failed log rows and crashes: whatever becomes of a
\* request, the service takes the next one only when it is done with it, and leaves
\* the channel only between two of them and only when told to (run, handle).
THEOREM ServiceKeepsChannel == Spec => Channel!Spec
<1>1. Init => Nothing /\ Channel!Init
  BY ServiceAssumption DEF Init, Nothing, Channel!Init, SeenAs
<1>2. TypeOK /\ Nothing /\ [Next]_vars => Nothing' /\ [Channel!Next]_(Channel!vars)
  BY ChannelSteps
<1>3. QED
  BY <1>1, <1>2, TypeCorrect, PTL DEF Spec, Channel!Spec
=============================================================================
