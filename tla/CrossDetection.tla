--------------------------- MODULE CrossDetection ---------------------------
(***************************************************************************)
(* What a cross alert sees of a market: the ticks of its token as          *)
(* handle_price_update (crates/pn-alert/src/engine.rs) takes them, with    *)
(* the price before each.  Ticks may jump (the broadcast channel drops     *)
(* some when the engine lags), the user may move the threshold, and a      *)
(* restart forgets prev_prices.                                            *)
(***************************************************************************)
EXTENDS AlertRules

CONSTANT Price
ASSUME PriceAssumption == Price \subseteq Int

VARIABLES threshold,  \* of the cached rule
          prev,       \* prev_prices[token] of the running process
          side,       \* history: the side of the threshold prices were last on
          hit         \* history: the rule held since `side` was last visited

vars == <<threshold, prev, side, hit>>

CrossRule == [kind |-> "cross", threshold |-> threshold]

\* The strict side of th a price is on; at the threshold, or without a price,
\* the side it came from.
SideOf(p, th, from) == IF p = NoPrice THEN from
                       ELSE IF p < th THEN "below"
                       ELSE IF p > th THEN "above" ELSE from

Init == /\ threshold \in Price
        /\ prev = NoPrice
        /\ side = "none" /\ hit = FALSE

\* Mutant: reaching the threshold from below does not count.
CrossesBeyond(p) == /\ prev # NoPrice
                    /\ \/ prev < threshold /\ p > threshold
                       \/ prev > threshold /\ p <= threshold

\* Mutant: a previous price at the threshold counts as below it.
CrossesFromAt(p) == /\ prev # NoPrice
                    /\ \/ prev <= threshold /\ p >= threshold
                       \/ prev > threshold /\ p <= threshold

\* The cross rule holds for tick p.
Crosses(p) == Evaluate(CrossRule, p, prev)

Tick(p) == /\ prev' = p
           /\ side' = SideOf(p, threshold, side)
           /\ hit' = (p = threshold /\ (hit \/ Crosses(p)))
           /\ UNCHANGED threshold

\* A refresh brings a new threshold; the prices seen so far stay.
Edit(th) == /\ threshold' = th
            /\ side' = SideOf(prev, th, "none")
            /\ hit' = FALSE
            /\ UNCHANGED prev

\* Mutant: a price that is not there is taken for zero.
RestartAtZero == /\ prev' = 0
                 /\ side' = "none" /\ hit' = FALSE
                 /\ UNCHANGED threshold

Restart == /\ prev' = NoPrice
           /\ side' = "none" /\ hit' = FALSE
           /\ UNCHANGED threshold

Next == (\E p \in Price : Tick(p) \/ Edit(p)) \/ Restart

Spec == Init /\ [][Next]_vars

-----------------------------------------------------------------------------
Types == /\ threshold \in Price
         /\ prev \in Price \cup {NoPrice}
         /\ side \in {"none", "below", "above"}
         /\ hit \in BOOLEAN

\* Where the last price is, given the side prices came from: strictly there,
\* or at the threshold after a tick for which the rule held.
SideFollowsPrice ==
    /\ prev = NoPrice => side = "none"
    /\ side = "below" => IF hit THEN prev = threshold ELSE prev < threshold
    /\ side = "above" => IF hit THEN prev = threshold ELSE prev > threshold
    /\ side = "none" => ~hit /\ (prev # NoPrice => prev = threshold)

\* Types, with the place of the last price.
TypeOK == Types /\ SideFollowsPrice

\* However the prices move between two strict sides of the threshold, one tick
\* or many, resting at it or jumping over lost ticks, the rule holds for
\* exactly one of the ticks (AlertRule::evaluate).
CrossedExactlyOnce ==
    [][{side, side'} = {"below", "above"} /\ threshold' = threshold
         => hit # Crosses(prev')]_vars

\* The rule holds for no tick that only leaves or rests at the threshold: each
\* time it holds, the price was strictly on one side just before.
HoldsOnlyOnArrival ==
    [][prev' # NoPrice /\ Crosses(prev')
         => ~hit /\ side # "none"]_vars
=============================================================================
