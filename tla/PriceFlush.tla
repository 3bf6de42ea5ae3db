----------------------------- MODULE PriceFlush -----------------------------
(***************************************************************************)
(* The price half of the alert engine (crates/pn-alert/src/engine.rs): the *)
(* last price of every outcome is kept in memory and written to            *)
(* markets.last_prices from time to time, one UPDATE per market, for the   *)
(* markets of the map refresh_condition_tokens builds.                     *)
(*                                                                         *)
(* Prices are named by the number of the market event that brought them,   *)
(* so that properties can tell an older price from a newer one; 0 is       *)
(* Decimal::ZERO, which stands for "no price" in memory and in the table.  *)
(***************************************************************************)
EXTENDS Integers, FiniteSets

CONSTANTS
    User, Market,       \* users and markets rows
    Token, MarketOf,    \* CLOB tokens, each of one market (token_ids)
    MaxTick,            \* bound on the market's events
    MayFailDb

FlushAssumption ==
    /\ MarketOf \in [Token -> Market]
    /\ MaxTick \in Nat
    /\ MayFailDb \in BOOLEAN

VARIABLES
    subs,       \* active subscriptions, pairs of a user and a market
    stored,     \* the prices in markets.last_prices, by outcome
    flushed,    \* the markets whose last_prices is not the initial '[]'
    cancelled,  \* the CancellationToken
    tick,       \* number of the last event
    prev,       \* prev_prices
    condition,  \* condition_tokens: the markets a flush writes
    epc,        \* where the engine is
    left,       \* the markets this flush still has to look at
    failed      \* history: markets whose UPDATE failed in this flush

tableVars  == <<subs, stored, flushed>>
memoryVars == <<prev, condition, left, failed>>
vars == <<tableVars, cancelled, tick, memoryVars, epc>>

Tokens(m)  == {t \in Token : MarketOf[t] = m}
Subscribed == {m \in Market : \E u \in User : <<u, m>> \in subs}

Init == /\ subs = {}
        /\ stored = [t \in Token |-> 0] /\ flushed = {}
        /\ cancelled = FALSE
        /\ tick = 0
        /\ prev = [t \in Token |-> 0]
        /\ condition = {} /\ left = {} /\ failed = {}
        /\ epc = "down"

-----------------------------------------------------------------------------
\* run() up to its loop: the first refresh may fail.
Start == /\ epc = "down"
         /\ epc' = "run"
         /\ condition' = Subscribed \/ (MayFailDb /\ condition' = {})
         /\ UNCHANGED <<tableVars, cancelled, tick, prev, left, failed>>

\* The bot adds and removes subscriptions; markets rows stay.
Subscribe(u, m) == /\ subs' = subs \cup {<<u, m>>}
                   /\ UNCHANGED <<stored, flushed, cancelled, tick, memoryVars, epc>>

Unsubscribe(u, m) == /\ subs' = subs \ {<<u, m>>}
                     /\ UNCHANGED <<stored, flushed, cancelled, tick, memoryVars, epc>>

Cancel == /\ epc # "down" /\ ~cancelled
          /\ cancelled' = TRUE
          /\ UNCHANGED <<tableVars, tick, memoryVars, epc>>

\* The select is biased: a cancelled engine does nothing below but its last flush.
Idle == epc = "run" /\ ~cancelled

\* Mutant: markets that are no longer subscribed go, new ones do not come.
RefreshShrinks == /\ Idle
                  /\ condition' = condition \cap Subscribed
                  /\ UNCHANGED <<tableVars, cancelled, tick, prev, left, failed, epc>>

\* refresh_condition_tokens, the last step of refresh_cache.  When a SELECT
\* fails the map stays as it is.
Refresh == /\ Idle
           /\ condition' = Subscribed
           /\ UNCHANGED <<tableVars, cancelled, tick, prev, left, failed, epc>>

\* handle_price_update: the price is stored before any rule is looked at; a rule
\* that fires leaves the engine waiting at the notification channel.
TakePrice(t) ==
    /\ Idle /\ tick < MaxTick
    /\ tick' = tick + 1
    /\ prev' = [prev EXCEPT ![t] = tick + 1]
    /\ epc' \in {"run", "send"}
    /\ UNCHANGED <<tableVars, cancelled, condition, left, failed>>

\* The request is queued, or the channel is closed; another rule of the token may
\* fire next.
Sent == /\ epc = "send"
        /\ epc' \in {"run", "send"}
        /\ UNCHANGED <<tableVars, cancelled, tick, memoryVars>>

\* Mutant: a cancelled engine ends without a last flush.
StartFlushNotLast ==
    /\ epc = "run"
    /\ epc' = IF cancelled THEN "stopped" ELSE "flush"
    /\ left' = condition /\ failed' = {}
    /\ UNCHANGED <<tableVars, cancelled, tick, prev, condition>>

\* The flush timer, or cancellation: "final" is the flush after which run() ends.
StartFlush == /\ epc = "run"
              /\ epc' = IF cancelled THEN "final" ELSE "flush"
              /\ left' = condition /\ failed' = {}
              /\ UNCHANGED <<tableVars, cancelled, tick, prev, condition>>

Flushing == epc \in {"flush", "final"}
Quiet(m) == \A t \in Tokens(m) : prev[t] = 0

\* No price of this market has come in since the start: the row is left alone.
SkipMarket(m) == /\ Flushing /\ m \in left /\ Quiet(m)
                 /\ left' = left \ {m}
                 /\ UNCHANGED <<tableVars, cancelled, tick, prev, condition, epc, failed>>

\* Mutant: the array follows the order of a set, not that of token_ids.
FlushMarketShuffled(m) ==
    /\ Flushing /\ m \in left /\ ~Quiet(m)
    /\ left' = left \ {m}
    /\ \E p \in [Tokens(m) -> Tokens(m)] :
          stored' = [t \in Token |-> IF t \in Tokens(m) THEN prev[p[t]] ELSE stored[t]]
    /\ flushed' = flushed \cup {m}
    /\ UNCHANGED <<subs, cancelled, tick, prev, condition, epc, failed>>

\* One UPDATE per market writes the price of each of its outcomes, zero for one
\* without a price.
FlushMarket(m) ==
    /\ Flushing /\ m \in left /\ ~Quiet(m)
    /\ left' = left \ {m}
    /\ stored' = [t \in Token |-> IF t \in Tokens(m) THEN prev[t] ELSE stored[t]]
    /\ flushed' = flushed \cup {m}
    /\ UNCHANGED <<subs, cancelled, tick, prev, condition, epc, failed>>

\* A failed UPDATE is logged and the next market's turn comes.
FlushFails(m) == /\ MayFailDb /\ Flushing /\ m \in left /\ ~Quiet(m)
                 /\ left' = left \ {m}
                 /\ failed' = failed \cup {m}
                 /\ UNCHANGED <<tableVars, cancelled, tick, prev, condition, epc>>

FlushOver == /\ Flushing /\ left = {}
             /\ epc' = IF epc = "final" THEN "stopped" ELSE "run"
             /\ UNCHANGED <<tableVars, cancelled, tick, memoryVars>>

\* The process ends, by itself or not: memory is gone, the table stays.
ProcessEnds == /\ epc' = "down"
               /\ prev' = [t \in Token |-> 0]
               /\ condition' = {} /\ left' = {} /\ failed' = {}
               /\ cancelled' = FALSE
               /\ UNCHANGED <<tableVars, tick>>

-----------------------------------------------------------------------------
Write(m) == SkipMarket(m) \/ FlushMarket(m) \/ FlushFails(m)

Next == \/ Start
        \/ \E u \in User, m \in Market : Subscribe(u, m) \/ Unsubscribe(u, m)
        \/ Cancel
        \/ Refresh
        \/ \E t \in Token : TakePrice(t)
        \/ Sent
        \/ StartFlush
        \/ \E m \in Market : Write(m)
        \/ FlushOver
        \/ epc # "down" /\ ProcessEnds

Spec == Init /\ [][Next]_vars

-----------------------------------------------------------------------------
\* Types, with what the table may hold: a price some event brought, and none for
\* a market that was never flushed.
TypeOK ==
    /\ subs \subseteq User \X Market
    /\ stored \in [Token -> 0..tick] /\ prev \in [Token -> 0..tick]
    /\ flushed \subseteq Market /\ condition \subseteq Market
    /\ left \subseteq condition /\ failed \subseteq Market
    /\ tick \in 0..MaxTick
    /\ cancelled \in BOOLEAN
    /\ epc \in {"down", "run", "send", "flush", "final", "stopped"}
    /\ \A t \in Token : stored[t] # 0 => MarketOf[t] \in flushed

\* What is in memory is never older than what is stored, unless the process has
\* seen no price of that outcome yet.
MemoryAhead == \A t \in Token : prev[t] = 0 \/ prev[t] >= stored[t]

\* However flushes, refreshes, failed UPDATEs and restarts fall, a stored price is
\* never replaced by an older one.  The one way back is to zero, for an
\* outcome that has not ticked since the process started while another of its
\* market has (flush_prices_to_db, unwrap_or(Decimal::ZERO)).
PricesGoForward ==
    [][\A t \in Token : stored'[t] < stored[t] =>
          /\ stored'[t] = 0 /\ prev[t] = 0
          /\ \E s \in Tokens(MarketOf[t]) : prev[s] # 0]_vars

\* A cancelled engine leaves nothing unsaved that its last flush could save: every
\* price of a market in the map is in the table when run() returns, save those
\* whose UPDATE failed (the cancel arm of run).
LastFlushSaves ==
    [][epc' = "stopped" /\ epc # "stopped" =>
          \A t \in Token : MarketOf[t] \in condition \ failed /\ prev[t] # 0
             => stored[t] = prev[t]]_vars

Unsaved(t) == /\ prev[t] # 0 /\ stored[t] # prev[t] /\ MarketOf[t] \in Subscribed
              /\ epc \notin {"stopped", "down"}

\* While the engine lives, the last price of an outcome of a subscribed market
\* reaches the table or gives way to a newer one, however often an UPDATE or
\* a refresh fails on the way (the refresh and flush arms of run).
PricesCatchUp == []<>(\A t \in Token : ~Unsaved(t))
=============================================================================
