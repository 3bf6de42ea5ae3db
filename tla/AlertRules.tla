----------------------------- MODULE AlertRules -----------------------------
(***************************************************************************)
(* The decision an alert rule takes on one price tick                      *)
(* (crates/pn-alert/src/rules.rs).  Prices and thresholds are decimals in  *)
(* the program; only their order matters here, so they are integers.       *)
(***************************************************************************)
EXTENDS Integers

CONSTANT NoPrice      \* the `None` of previous_price: no tick seen yet

ASSUME NoPriceAssumption == NoPrice \notin Int

Kind == {"above", "below", "cross"}

\* Was strictly below the threshold, now at or above it.
Upward(threshold, cur, old) == old < threshold /\ cur >= threshold

\* Was strictly above the threshold, now at or below it.
Downward(threshold, cur, old) == old > threshold /\ cur <= threshold

\* AlertRule::evaluate: a cross needs a previous price to compare with.
Evaluate(rule, cur, old) ==
    \/ rule.kind = "above" /\ cur >= rule.threshold
    \/ rule.kind = "below" /\ cur <= rule.threshold
    \/ /\ rule.kind = "cross"
       /\ old # NoPrice
       /\ Upward(rule.threshold, cur, old) \/ Downward(rule.threshold, cur, old)
=============================================================================
