---------------------------- MODULE MCNotifyRate ----------------------------
(* The notification service at the pace of its rate limiter: every request  *)
(* goes to one chat through one bot, and the clock runs.                    *)
EXTENDS NotifyService, TLC

CONSTANTS r1, r2, r3, r4, r5, c1, b1    \* requests, a chat, a bot

ToOne  == [r \in Request |-> c1]
ViaOne == [r \in Request |-> b1]
Sym    == Permutations(Request)
=============================================================================
