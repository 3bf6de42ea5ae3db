------------------------ MODULE NotificationChannel ------------------------
(***************************************************************************)
(* The bounded channel of notification requests, as the tasks at its       *)
(* sending end and main (crates/poly-notifier/src/main.rs) see it, with    *)
(* everything the notification service does with a request hidden: it      *)
(* takes one request at a time, from the front; it is away before it has   *)
(* started and once it has dropped the receiver, which takes what is       *)
(* queued with it; and it drops it only between two requests, when it has  *)
(* been told to stop - unless the process crashes.                         *)
(*                                                                         *)
(* NotifyService is shown to keep these rules, and so is the little of it  *)
(* that Process has.                                                       *)
(***************************************************************************)
EXTENDS Integers, Sequences

CONSTANTS Item,       \* requests
          QueueCap    \* capacity of the channel

VARIABLES queue,      \* what has been sent and not been taken
          cancelled,  \* the CancellationToken
          service,    \* "away", "idle" or "busy"
          rough       \* may the process crash?

vars == <<queue, cancelled, service, rough>>

Init == /\ queue = << >> /\ cancelled = FALSE
        /\ service = "away"
        /\ rough \in BOOLEAN

Begin == /\ service = "away" /\ queue = << >> /\ ~cancelled
         /\ service' = "idle"
         /\ UNCHANGED <<queue, cancelled, rough>>

\* A sender that found a place; the others wait, or fail when the service is away.
Send(i) == /\ service # "away" /\ Len(queue) < QueueCap
           /\ queue' = Append(queue, i)
           /\ UNCHANGED <<cancelled, service, rough>>

Take == /\ service = "idle" /\ queue # << >>
        /\ queue' = Tail(queue)
        /\ service' = "busy"
        /\ UNCHANGED <<cancelled, rough>>

Done == /\ service = "busy"
        /\ service' = "idle"
        /\ UNCHANGED <<queue, cancelled, rough>>

Cancel == /\ service # "away" /\ ~cancelled
          /\ cancelled' = TRUE
          /\ UNCHANGED <<queue, service, rough>>

MayLeave == service = "idle" /\ cancelled

\* The receiver is dropped; other tasks may still be ending.
Leave == /\ MayLeave
         /\ service' = "away" /\ queue' = << >>
         /\ UNCHANGED <<cancelled, rough>>

\* The process ends, with the service or after it, or crashes.
End == /\ MayLeave \/ (service = "away" /\ cancelled) \/ rough
       /\ service' = "away" /\ queue' = << >> /\ cancelled' = FALSE
       /\ UNCHANGED rough

Next == Begin \/ (\E i \in Item : Send(i)) \/ Take \/ Done \/ Cancel \/ Leave \/ End

Spec == Init /\ [][Next]_vars
=============================================================================
