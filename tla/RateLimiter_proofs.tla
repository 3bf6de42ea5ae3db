------------------------- MODULE RateLimiter_proofs -------------------------
(***************************************************************************)
(* RateLimiter for every set of users, every maximum and window length.    *)
(***************************************************************************)
EXTENDS RateLimiter, FiniteSetTheorems, TLAPS

USE DEF LimiterAssumption

\* The entry a call works on: untouched while its window runs, else a new one
\* that starts now (or_insert, reset).
LEMMA FreshMeaning ==
    ASSUME LimiterAssumption, TypeOK, NEW u \in User
    PROVE  LET e == Fresh(windows[u], now) IN
           /\ e \in Entry
           /\ \/ windows[u] # NoWindow /\ e = windows[u] /\ now - e.start < Window
              \/ /\ e = [count |-> 0, start |-> now]
                 /\ windows[u] # NoWindow => windows[u].start + Window <= now
<1>1. CASE windows[u] = NoWindow
  BY <1>1, LimiterAssumption DEF TypeOK, Fresh, Entry, Time
<1>2. CASE windows[u] # NoWindow
  <2>1. windows[u] \in Entry /\ windows[u].start \in Int /\ now \in Int
    BY <1>2 DEF TypeOK, Entry, Time
  <2>2. [count |-> 0, start |-> now] \in Entry
    BY LimiterAssumption DEF TypeOK, Entry, Time
  <2>3. QED
    BY <1>2, <2>1, <2>2, LimiterAssumption DEF Fresh
<1>3. QED
  BY <1>1, <1>2

\* Every step keeps to the types.
LEMMA TypeKept ==
    ASSUME LimiterAssumption, TypeOK, [Next]_vars
    PROVE  TypeOK'
<1>1. CASE Tick
  BY <1>1, LimiterAssumption DEF Tick, TypeOK, Time
<1>2. ASSUME NEW u \in User, CheckAndConsume(u)
      PROVE  TypeOK'
  <2> DEFINE e == Fresh(windows[u], now)
  <2>1. e \in Entry
    BY FreshMeaning
  <2>2. /\ windows' = [windows EXCEPT ![u] = Consumed(e)] /\ now' = now
        /\ Passes(e) => accepted' = accepted \cup {[user |-> u, at |-> now,
                                        start |-> e.start, nth |-> e.count + 1]}
        /\ ~Passes(e) => accepted' = accepted
        /\ refused' \subseteq refused \cup {[user |-> u, at |-> now]}
    BY <1>2 DEF CheckAndConsume, Allows
  <2> HIDE DEF e
  <2>3. Passes(e) => e.count + 1 \in 1..Max
    BY <2>1, LimiterAssumption DEF Passes, Entry
  <2>4. Consumed(e) \in Entry
    BY <2>1, <2>3, LimiterAssumption DEF Consumed, Entry
  <2>5. accepted' \subseteq Call
    BY <2>1, <2>2, <2>3 DEF TypeOK, Call, Entry
  <2>6. QED
    BY <2>2, <2>4, <2>5 DEF TypeOK, Refusal
<1>3. CASE UNCHANGED vars
  BY <1>3 DEF vars, TypeOK
<1>4. QED
  BY <1>1, <1>2, <1>3 DEF Next

\* Types: the count of a window stays within the maximum (check_and_consume).
THEOREM TypeCorrect ==
    ASSUME LimiterAssumption
    PROVE  Spec => []TypeOK
<1>1. Init => TypeOK
  BY LimiterAssumption DEF Init, TypeOK, Time
<1>2. TypeOK /\ [Next]_vars => TypeOK'
  BY TypeKept
<1>3. QED
  BY <1>1, <1>2, PTL DEF Spec

\* A call that begins a window does so after every older one has ended.
LEMMA WindowsKept ==
    ASSUME LimiterAssumption, TypeOK, CallsInWindows, [Next]_vars
    PROVE  CallsInWindows'
<1>1. CASE Tick
  <2>1. now \in Int /\ now' = now + 1 /\ UNCHANGED <<windows, accepted>>
    BY <1>1 DEF Tick, TypeOK, Time
  <2>2. \A u \in User : windows[u] # NoWindow => windows[u].start \in Int
    BY DEF TypeOK, Entry, Time
  <2>3. QED
    BY <2>1, <2>2 DEF CallsInWindows
<1>2. ASSUME NEW u \in User, CheckAndConsume(u)
      PROVE  CallsInWindows'
  <2> DEFINE e == Fresh(windows[u], now)
             new == [user |-> u, at |-> now, start |-> e.start, nth |-> e.count + 1]
  <2>1. /\ e \in Entry
        /\ \/ windows[u] # NoWindow /\ e = windows[u] /\ now - e.start < Window
           \/ /\ e = [count |-> 0, start |-> now]
              /\ windows[u] # NoWindow => windows[u].start + Window <= now
    BY FreshMeaning
  <2>2. /\ windows' = [windows EXCEPT ![u] = Consumed(e)] /\ now' = now
        /\ Passes(e) => accepted' = accepted \cup {new}
        /\ ~Passes(e) => accepted' = accepted
    BY <1>2 DEF CheckAndConsume, Allows
  <2> HIDE DEF e
  <2>3. e.count \in Int /\ e.start \in Int /\ now \in Int /\ Window \in Int /\ Window > 0
    BY <2>1, LimiterAssumption DEF Entry, TypeOK, Time
  <2>4. /\ Consumed(e).start = e.start /\ Consumed(e) # NoWindow
        /\ Consumed(e).count = IF Passes(e) THEN e.count + 1 ELSE e.count
    BY <2>1, <2>3, LimiterAssumption DEF Consumed, Entry, Time
  <2>5. /\ e.start <= now /\ now < e.start + Window
        /\ Passes(e) => e.count + 1 <= Max
    BY <2>1, <2>3, LimiterAssumption DEF CallsInWindows, Passes
  <2>6. \A c \in accepted : /\ c \in Call /\ c.start \in Int /\ c.at \in Int /\ c.nth \in Int
                            /\ c.user \in User /\ c.nth <= Max
    BY DEF TypeOK, Call, Time
  <2>7. windows[u] # NoWindow => windows[u].start \in Int /\ windows[u].count \in Int
    BY DEF TypeOK, Entry, Time
  \* An older call of u, seen from the entry the new call works on.
  <2>8. ASSUME NEW c \in accepted, c.user = u
        PROVE  \/ c.start = e.start /\ c.nth <= e.count
               \/ c.start + Window <= e.start
    <3>1. /\ windows[u] # NoWindow
          /\ \/ c.start = windows[u].start /\ c.nth <= windows[u].count
             \/ c.start + Window <= windows[u].start
      BY <2>8 DEF CallsInWindows
    <3>2. CASE e = windows[u]
      BY <3>1, <3>2
    <3>3. CASE e.start = now /\ windows[u].start + Window <= now
      BY <3>1, <3>3, <2>3, <2>6, <2>7
    <3>4. QED
      BY <3>1, <3>2, <3>3, <2>1
  <2>9. windows'[u] = Consumed(e) /\ \A v \in User : v # u => windows'[v] = windows[v]
    BY <2>2 DEF TypeOK
  <2>10. \A c \in accepted' : c \in accepted \/ (Passes(e) /\ c = new)
    BY <2>2
  <2>11. ASSUME NEW c \in accepted'
         PROVE  /\ c.start <= c.at /\ c.at < c.start + Window /\ c.nth <= Max
                /\ windows'[c.user] # NoWindow
                /\ \/ c.start = windows'[c.user].start /\ c.nth <= windows'[c.user].count
                   \/ c.start + Window <= windows'[c.user].start
    <3>1. CASE c \in accepted /\ c.user # u
      BY <3>1, <2>6, <2>9 DEF CallsInWindows
    <3>2. CASE c \in accepted /\ c.user = u
      <4>1. c.start <= c.at /\ c.at < c.start + Window /\ c.nth <= Max
        BY <3>2 DEF CallsInWindows
      <4>2. \/ c.start = e.start /\ c.nth <= e.count
            \/ c.start + Window <= e.start
        BY <3>2, <2>8
      <4>3. QED
        BY <3>2, <4>1, <4>2, <2>3, <2>4, <2>6, <2>9
    <3>3. CASE Passes(e) /\ c = new
      BY <3>3, <2>3, <2>4, <2>5, <2>9
    <3>4. QED
      BY <3>1, <3>2, <3>3, <2>10
  <2>12. ASSUME NEW c \in accepted', NEW d \in accepted', c.user = d.user
         PROVE  /\ c.start = d.start /\ c.nth = d.nth => c = d
                /\ c.start < d.start => c.start + Window <= d.start
    <3>1. CASE c \in accepted /\ d \in accepted
      BY <3>1, <2>12 DEF CallsInWindows
    <3>2. CASE c \in accepted /\ d = new
      <4>1. \/ c.start = e.start /\ c.nth <= e.count
            \/ c.start + Window <= e.start
        BY <3>2, <2>12, <2>8
      <4>2. QED
        BY <3>2, <4>1, <2>3, <2>6
    <3>3. CASE c = new /\ d \in accepted
      <4>1. \/ d.start = e.start /\ d.nth <= e.count
            \/ d.start + Window <= e.start
        BY <3>3, <2>12, <2>8
      <4>2. QED
        BY <3>3, <4>1, <2>3, <2>6
    <3>4. CASE c = new /\ d = new
      BY <3>4, <2>3
    <3>5. QED
      BY <3>1, <3>2, <3>3, <3>4, <2>10
  <2>13. \A v \in User : windows'[v] # NoWindow => windows'[v].start <= now'
    BY <2>2, <2>4, <2>5, <2>9 DEF CallsInWindows
  <2>14. QED
    BY <2>11, <2>12, <2>13 DEF CallsInWindows
<1>3. CASE UNCHANGED vars
  BY <1>3 DEF vars, CallsInWindows
<1>4. QED
  BY <1>1, <1>2, <1>3 DEF Next

\* The windows of one user follow each other (check_and_consume).
THEOREM WindowsFollow ==
    ASSUME LimiterAssumption
    PROVE  Spec => []CallsInWindows
<1>1. Init => CallsInWindows
  BY DEF Init, CallsInWindows
<1>2. TypeOK /\ CallsInWindows /\ [Next]_vars => CallsInWindows'
  BY WindowsKept
<1>3. QED
  BY <1>1, <1>2, TypeCorrect, PTL DEF Spec

\* The bound config.rs leaves unsaid: because at most two windows overlap any
\* Window ticks, at most twice the maximum of one user's calls pass in them.
THEOREM TwiceMaxPasses ==
    ASSUME LimiterAssumption
    PROVE  Spec => []AtMostTwiceMax
<1>1. TypeOK /\ CallsInWindows => AtMostTwiceMax
  <2> SUFFICES ASSUME TypeOK, CallsInWindows, NEW u \in User, NEW t \in Time
               PROVE  Cardinality(Span(u, t)) <= 2 * Max
    BY DEF AtMostTwiceMax
  <2>1. CASE Span(u, t) = {}
    BY <2>1, FS_EmptySet, LimiterAssumption
  <2>2. ASSUME NEW first \in Span(u, t)
        PROVE  Cardinality(Span(u, t)) <= 2 * Max
    <3> DEFINE place == [c \in Span(u, t) |->
                           IF c.start = first.start THEN c.nth ELSE Max + c.nth]
    <3>1. t \in Int /\ Max \in Nat /\ Window \in Nat
      BY LimiterAssumption DEF Time
    <3>2. ASSUME NEW c \in Span(u, t)
          PROVE  /\ c \in accepted /\ c.user = u /\ t <= c.at /\ c.at < t + Window
                 /\ c.start <= c.at /\ c.at < c.start + Window
                 /\ c.start \in Int /\ c.at \in Int /\ c.nth \in 1..Max
      BY DEF Span, TypeOK, Call, Time, CallsInWindows
    <3>3. \A c \in Span(u, t) : place[c] \in 1..2*Max
      BY <3>1, <3>2
    \* Calls of no more than two windows fit into the span.
    <3>4. ASSUME NEW c \in Span(u, t), NEW d \in Span(u, t),
                 c.start # first.start, d.start # first.start
          PROVE  c.start = d.start
      <4>1. \A x, y \in Span(u, t) : x.start < y.start => x.start + Window <= y.start
        BY <3>2 DEF CallsInWindows
      <4>2. ~(\E x, y, z \in Span(u, t) : x.start < y.start /\ y.start < z.start)
        BY <3>1, <3>2, <4>1
      <4>3. QED
        BY <3>2, <3>4, <4>2
    <3>5. ASSUME NEW c \in Span(u, t), NEW d \in Span(u, t), place[c] = place[d]
          PROVE  c = d
      <4>1. c.start = d.start /\ c.nth = d.nth
        BY <3>1, <3>2, <3>4, <3>5
      <4>2. QED
        BY <3>2, <4>1 DEF CallsInWindows
    <3>6. place \in Injection(Span(u, t), 1..2*Max)
      BY <3>3, <3>5 DEF Injection, IsInjective
    <3>7. IsFiniteSet(1..2*Max) /\ Cardinality(1..2*Max) = 2*Max
      BY <3>1, FS_Interval
    <3>8. QED
      BY <3>6, <3>7, FS_Injection
  <2>3. QED
    BY <2>1, <2>2
<1>2. QED
  BY <1>1, TypeCorrect, WindowsFollow, PTL

-----------------------------------------------------------------------------
(***************************************************************************)
(* Refusals.  Each unit of a window's count is a call that has passed.     *)
(***************************************************************************)
Counted ==
    /\ IsFiniteSet(accepted)
    /\ \A c \in accepted : c.at <= now
    /\ \A u \in User : windows[u] # NoWindow =>
          \A n \in 1..windows[u].count :
             \E c \in accepted : c.user = u /\ c.start = windows[u].start /\ c.nth = n

LEMMA CountedKept ==
    ASSUME LimiterAssumption, TypeOK, Counted, [Next]_vars
    PROVE  Counted'
<1>0. now \in Int /\ \A c \in accepted : c.at \in Int
  BY DEF TypeOK, Call, Time
<1>1. CASE Tick
  BY <1>0, <1>1 DEF Tick, Counted
<1>2. ASSUME NEW u \in User, CheckAndConsume(u)
      PROVE  Counted'
  <2> DEFINE e == Fresh(windows[u], now)
             new == [user |-> u, at |-> now, start |-> e.start, nth |-> e.count + 1]
  <2>1. /\ e \in Entry
        /\ (windows[u] # NoWindow /\ e = windows[u]) \/ e = [count |-> 0, start |-> now]
    BY FreshMeaning
  <2>2. /\ windows' = [windows EXCEPT ![u] = Consumed(e)] /\ now' = now
        /\ Passes(e) => accepted' = accepted \cup {new}
        /\ ~Passes(e) => accepted' = accepted
    BY <1>2 DEF CheckAndConsume, Allows
  <2> HIDE DEF e
  <2>3. e.count \in Nat /\ new.user = u /\ new.at = now /\ new.start = e.start
        /\ new.nth = e.count + 1
    BY <2>1 DEF Entry
  <2> HIDE DEF new
  <2>4. /\ Consumed(e).start = e.start
        /\ Consumed(e).count = IF Passes(e) THEN e.count + 1 ELSE e.count
    BY <2>1, <2>3 DEF Consumed, Entry
  <2>5. IsFiniteSet(accepted') /\ \A c \in accepted' : c.at <= now'
    <3>1. IsFiniteSet(accepted \cup {new})
      BY FS_AddElement DEF Counted
    <3>2. \A c \in accepted \cup {new} : c.at <= now
      BY <1>0, <2>3 DEF Counted
    <3>3. QED
      BY <2>2, <3>1, <3>2 DEF Counted
  <2>6. ASSUME NEW n \in 1..e.count
        PROVE  \E c \in accepted : c.user = u /\ c.start = e.start /\ c.nth = n
    <3>1. e = windows[u] /\ windows[u] # NoWindow
      BY <2>1, <2>6
    <3>2. QED
      BY <3>1 DEF Counted
  <2>7. ASSUME NEW n \in 1..Consumed(e).count
        PROVE  \E c \in accepted' : c.user = u /\ c.start = e.start /\ c.nth = n
    <3>1. CASE n \in 1..e.count
      BY <2>2, <2>6, <3>1
    <3>2. CASE Passes(e) /\ n = e.count + 1
      BY <2>2, <2>3, <3>2
    <3>3. QED
      BY <2>3, <2>4, <3>1, <3>2
  <2>8. windows'[u] = Consumed(e) /\ \A v \in User : v # u => windows'[v] = windows[v]
    BY <2>2 DEF TypeOK
  <2>9. ASSUME NEW v \in User, windows'[v] # NoWindow, NEW n \in 1..windows'[v].count
        PROVE  \E c \in accepted' : c.user = v /\ c.start = windows'[v].start /\ c.nth = n
    <3>1. CASE v = u
      BY <2>4, <2>7, <2>8, <2>9, <3>1
    <3>2. CASE v # u
      BY <2>2, <2>8, <2>9, <3>2 DEF Counted
    <3>3. QED
      BY <3>1, <3>2
  <2>10. QED
    BY <2>5, <2>9 DEF Counted
<1>3. CASE UNCHANGED vars
  BY <1>3 DEF vars, Counted
<1>4. QED
  BY <1>1, <1>2, <1>3 DEF Next

\* A call that is to be refused finds a window that is full of calls no older than
\* Window ticks.
LEMMA RefusalJustified ==
    ASSUME LimiterAssumption, TypeOK, CallsInWindows, Counted,
           NEW u \in User, ~Allows(u)
    PROVE  Cardinality(Span(u, now - Window + 1)) >= Max
<1> DEFINE e == Fresh(windows[u], now)
           span == Span(u, now - Window + 1)
<1>2. /\ e \in Entry
      /\ \/ windows[u] # NoWindow /\ e = windows[u] /\ now - e.start < Window
         \/ e = [count |-> 0, start |-> now]
  BY FreshMeaning
<1>3. ~Passes(e)
  BY DEF Allows
<1> HIDE DEF e
<1>4. e.count = Max /\ Max \in Nat
  BY <1>2, <1>3 DEF Passes, Entry
<1>5. IsFiniteSet(span)
  <2>1. span \subseteq accepted
    BY DEF Span
  <2>2. QED
    BY <2>1, FS_Subset DEF Counted
<1>6. Cardinality(span) \in Nat
  BY <1>5, FS_CardinalityType
<1>7. CASE e = [count |-> 0, start |-> now]
  BY <1>4, <1>6, <1>7
<1>8. CASE windows[u] # NoWindow /\ e = windows[u] /\ now - e.start < Window
  <2>1. ASSUME NEW n \in 1..Max
        PROVE  \E c \in span : c.nth = n
    <3>1. PICK c \in accepted : c.user = u /\ c.start = e.start /\ c.nth = n
      BY <1>4, <1>8, <2>1 DEF Counted
    <3>2. c.start <= c.at /\ c.at <= now /\ c.at \in Int /\ c.start \in Int /\ now \in Int
      BY DEF CallsInWindows, Counted, TypeOK, Call, Time
    <3>3. now - Window + 1 <= c.at /\ c.at < now - Window + 1 + Window /\ Window \in Int
      BY <1>8, <3>1, <3>2
    <3>4. QED
      BY <3>1, <3>3 DEF Span
  <2> DEFINE call == [n \in 1..Max |-> CHOOSE c \in span : c.nth = n]
  <2>2. \A n \in 1..Max : call[n] \in span /\ call[n].nth = n
    BY <2>1
  <2>3. call \in Injection(1..Max, span)
    BY <2>2 DEF Injection, IsInjective
  <2>4. IsFiniteSet(1..Max) /\ Cardinality(1..Max) = Max
    BY <1>4, FS_Interval
  <2>5. QED
    BY <1>4, <1>5, <1>6, <2>3, <2>4, FS_Injection
<1>9. QED
  BY <1>2, <1>7, <1>8

\* The calls accepted later do not take a refusal its reason.
LEMMA RefusalsKept ==
    ASSUME LimiterAssumption, TypeOK, CallsInWindows, Counted, RefusedOnlyWhenFull,
           [Next]_vars
    PROVE  RefusedOnlyWhenFull'
<1>1. /\ accepted \subseteq accepted'
      /\ \A r \in refused' \ refused : r.user \in User /\ r.at = now /\ ~Allows(r.user)
  BY DEF Next, Tick, CheckAndConsume, vars
<1>2. ASSUME NEW r \in refused'
      PROVE  Cardinality(Span(r.user, r.at - Window + 1)) >= Max
  BY <1>1, RefusalJustified DEF RefusedOnlyWhenFull
<1>3. ASSUME NEW u, NEW t
      PROVE  /\ IsFiniteSet(Span(u, t)') /\ Span(u, t) \subseteq Span(u, t)'
             /\ Span(u, t) \subseteq accepted
  <2>1. Span(u, t)' \subseteq accepted' /\ Span(u, t) \subseteq Span(u, t)'
    BY <1>1 DEF Span
  <2>2. IsFiniteSet(accepted')
    BY CountedKept DEF Counted
  <2>3. QED
    BY <2>1, <2>2, FS_Subset DEF Span
<1>4. ASSUME NEW r \in refused'
      PROVE  Cardinality(Span(r.user, r.at - Window + 1)') >= Max
  <2> DEFINE early == Span(r.user, r.at - Window + 1)
             late  == Span(r.user, r.at - Window + 1)'
  <2>1. IsFiniteSet(late) /\ early \subseteq late
    BY <1>3
  <2>2. /\ Cardinality(early) <= Cardinality(late)
        /\ Cardinality(early) \in Nat /\ Cardinality(late) \in Nat
    <3> HIDE DEF early, late
    <3>1. QED
      BY <2>1, FS_Subset, FS_CardinalityType
  <2>3. QED
    BY <1>2, <2>2, LimiterAssumption
<1>5. QED
  BY <1>4 DEF RefusedOnlyWhenFull, Span

\* Every refused call, one that follows another refusal included, had the maximum
\* accepted in the Window ticks that end with its own (check_and_consume).
THEOREM RefusalsAreDue ==
    ASSUME LimiterAssumption
    PROVE  Spec => []RefusedOnlyWhenFull
<1>1. Init => Counted /\ RefusedOnlyWhenFull
  BY FS_EmptySet DEF Init, Counted, RefusedOnlyWhenFull
<1>2. TypeOK /\ Counted /\ [Next]_vars => Counted'
  BY CountedKept
<1>3. TypeOK /\ CallsInWindows /\ Counted /\ RefusedOnlyWhenFull /\ [Next]_vars
        => RefusedOnlyWhenFull'
  BY RefusalsKept
<1>4. QED
  BY <1>1, <1>2, <1>3, TypeCorrect, WindowsFollow, PTL DEF Spec
=============================================================================
