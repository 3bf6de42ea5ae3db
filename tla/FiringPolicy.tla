---------------------------- MODULE FiringPolicy ----------------------------
(***************************************************************************)
(* What the alert engine promises about repeated firings, with every       *)
(* mechanism (rule cache, dedup map, database, queue, restarts) hidden.    *)
(* A firing is `durable` once its time is on disk.  An alert whose last    *)
(* firing is durable stays silent until its cooldown has run out, whatever *)
(* crashes, restarts or cache refreshes happen in between.  A firing that  *)
(* never became durable constrains nothing: the engine may repeat it.      *)
(***************************************************************************)
EXTENDS Integers

CONSTANTS Alert,      \* alert ids
          Cooldown,   \* minutes that must pass after a durable firing
          Never       \* no firing yet

VARIABLES now,        \* the wall clock
          firedAt,    \* time of the last firing of each alert
          durable     \* is that firing recorded on disk?

vars == <<now, firedAt, durable>>

Init == /\ now = 0
        /\ firedAt = [a \in Alert |-> Never]
        /\ durable = [a \in Alert |-> FALSE]

Fire(a) == /\ durable[a] => now - firedAt[a] > Cooldown
           /\ firedAt' = [firedAt EXCEPT ![a] = now]
           /\ durable' = [durable EXCEPT ![a] = FALSE]
           /\ UNCHANGED now

Confirm(a) == /\ firedAt[a] # Never
              /\ durable' = [durable EXCEPT ![a] = TRUE]
              /\ UNCHANGED <<now, firedAt>>

Tick == now' = now + 1 /\ UNCHANGED <<firedAt, durable>>

Next == Tick \/ \E a \in Alert : Fire(a) \/ Confirm(a)

Spec == Init /\ [][Next]_vars
=============================================================================
