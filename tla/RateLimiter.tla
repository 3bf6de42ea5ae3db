----------------------------- MODULE RateLimiter -----------------------------
(***************************************************************************)
(* The per-user rate limiter (crates/pn-notify/src/rate_limiter.rs): one   *)
(* map entry per user with a count and the start of its window; the whole  *)
(* of check_and_consume runs under the entry's lock, so it is one step.    *)
(* One tick of the clock stands for the second the code truncates to.      *)
(***************************************************************************)
EXTENDS Integers, FiniteSets

CONSTANTS User,       \* telegram ids
          Max,        \* max_per_minute (u32)
          Window,     \* ticks in a window, 60 in the code
          MaxTime,    \* bound on the clock
          NoWindow    \* no entry for the user yet

LimiterAssumption ==
    /\ Max \in Nat
    /\ Window \in Nat \ {0}
    /\ MaxTime \in Nat
    /\ NoWindow \notin [count : Nat, start : Nat]

VARIABLES now,        \* Utc::now()
          windows,    \* the DashMap
          accepted,   \* history: the accepted calls, with their window
          refused     \* history: the refused calls

vars == <<now, windows, accepted, refused>>

Time == 0..MaxTime

\* Mutant: the window is never restarted, only the count is reset.
FreshKeepsStart(entry, t) ==
    IF entry = NoWindow THEN [count |-> 0, start |-> t]
    ELSE [entry EXCEPT !.count = IF t - entry.start >= Window THEN 0 ELSE @]

\* The entry as the call finds it: or_insert((0, now)), and the reset of an
\* expired window.
Fresh(entry, t) ==
    IF entry = NoWindow THEN [count |-> 0, start |-> t]
    ELSE IF t - entry.start >= Window THEN [count |-> 0, start |-> t]
    ELSE entry

\* Is there room in the window?
Passes(entry) == entry.count < Max

\* What a call of u answers now.
Allows(u) == Passes(Fresh(windows[u], now))

\* Mutant: a refused call extends the window.
ConsumedExtends(entry) == IF Passes(entry) THEN [entry EXCEPT !.count = @ + 1]
                          ELSE [entry EXCEPT !.start = now]

\* The entry the call leaves behind.
Consumed(entry) == IF Passes(entry) THEN [entry EXCEPT !.count = @ + 1] ELSE entry

-----------------------------------------------------------------------------
Init == /\ now = 0
        /\ windows = [u \in User |-> NoWindow]
        /\ accepted = {}
        /\ refused = {}

Tick == /\ now < MaxTime
        /\ now' = now + 1
        /\ UNCHANGED <<windows, accepted, refused>>

CheckAndConsume(u) ==
    LET entry == Fresh(windows[u], now) IN
    /\ windows' = [windows EXCEPT ![u] = Consumed(entry)]
    /\ IF Allows(u)
         THEN /\ accepted' = accepted \cup {[user |-> u, at |-> now, start |-> entry.start,
                                             nth |-> entry.count + 1]}
              /\ UNCHANGED refused
         ELSE /\ refused' = refused \cup {[user |-> u, at |-> now]}
              /\ UNCHANGED accepted
    /\ UNCHANGED now

Next == Tick \/ \E u \in User : CheckAndConsume(u)

Spec == Init /\ [][Next]_vars

-----------------------------------------------------------------------------
Entry == [count : 0..Max, start : Time]
Call  == [user : User, at : Time, start : Time, nth : 1..Max]
Refusal == [user : User, at : Time]

\* Types; a window never counts more than the maximum.
TypeOK == /\ now \in Time
          /\ windows \in [User -> Entry \cup {NoWindow}]
          /\ accepted \subseteq Call
          /\ refused \subseteq Refusal

\* The accepted calls of u in the Window ticks from t on.
Span(u, t) == {c \in accepted : c.user = u /\ t <= c.at /\ c.at < t + Window}

\* Each accepted call has a place of its own in a window, one of Max, was made while
\* that window was current, and the windows of a user never overlap.
CallsInWindows ==
    /\ \A c \in accepted :
          /\ c.start <= c.at /\ c.at < c.start + Window /\ c.nth <= Max
          /\ windows[c.user] # NoWindow
          /\ \/ c.start = windows[c.user].start /\ c.nth <= windows[c.user].count
             \/ c.start + Window <= windows[c.user].start
    /\ \A c, d \in accepted : c.user = d.user =>
          /\ c.start = d.start /\ c.nth = d.nth => c = d
          /\ c.start < d.start => c.start + Window <= d.start
    /\ \A u \in User : windows[u] # NoWindow => windows[u].start <= now

\* Whatever the rhythm of the calls, no stretch of Window ticks passes more
\* than twice the maximum: at most two windows overlap it.
AtMostTwiceMax == \A u \in User, t \in Time : Cardinality(Span(u, t)) <= 2 * Max

\* Every call that is refused, the first of a row or a later one, had the maximum of
\* its user's calls accepted in the Window ticks that end with its own: neither
\* other users' calls nor calls that were refused themselves count against a user.
\* (Two refusals of a user in one tick are one record: both see the same ticks.)
RefusedOnlyWhenFull ==
    \A r \in refused : Cardinality(Span(r.user, r.at - Window + 1)) >= Max
=============================================================================
