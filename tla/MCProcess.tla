------------------------------ MODULE MCProcess ------------------------------
(* Instances of Process for TLC. *)
EXTENDS Process, TLC

CONSTANTS u1, u2, m1, m2, t1, t2, b1    \* users, markets, tokens, a bot

\* Both outcomes of one market.
OneMarket == [t \in Token |-> m1]

\* Each behaviour is long in one respect and short in the others: market
\* events, the rest of a summary in a full channel, instants of the schedule,
\* bots that are still starting.
Prices    == [ticks |-> 2, feed |-> Token, time |-> 0, pairs |-> {<<u1, m1>>},
              bots |-> FALSE, rough |-> TRUE]
Summaries == [ticks |-> 1, feed |-> {t1}, time |-> 1, pairs |-> {<<u1, m1>>, <<u2, m2>>},
              bots |-> FALSE, rough |-> FALSE]
Instants  == [ticks |-> 0, feed |-> {}, time |-> 3, pairs |-> {<<u2, m2>>},
              bots |-> FALSE, rough |-> TRUE]
Starting  == [ticks |-> 0, feed |-> {}, time |-> 0, pairs |-> {},
              bots |-> TRUE, rough |-> TRUE]

EachInTurn    == {Prices, Summaries, Instants, Starting}
OnlySummaries == {Summaries}
OnlyStarting  == {Starting}
=============================================================================
