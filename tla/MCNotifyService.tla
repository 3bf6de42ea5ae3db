--------------------------- MODULE MCNotifyService ---------------------------
(* Instances of NotifyService for TLC. *)
EXTENDS NotifyService

CONSTANTS r1, r2, r3, c1, c2, b1, b2

\* Two requests for a chat through different bots, a third for another chat.
ToMixed  == [r \in Request |-> IF r = r3 THEN c2 ELSE c1]
ViaMixed == [r \in Request |-> IF r = r2 THEN b2 ELSE b1]
=============================================================================
