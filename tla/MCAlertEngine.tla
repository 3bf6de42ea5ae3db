--------------------------- MODULE MCAlertEngine ----------------------------
(* Small instances of AlertEngine: values of its constants for the configs. *)
EXTENDS AlertEngine, TLC

CONSTANTS a1, a2, s1, t1

OneSub    == [a \in {a1} |-> s1]
SharedSub == [a \in {a1, a2} |-> s1]
OneToken  == [s \in {s1} |-> t1]

RuleAbove  == {[kind |-> "above", threshold |-> 1]}
RuleMix    == {[kind |-> "above", threshold |-> 1], [kind |-> "cross", threshold |-> 1]}

\* Alerts of one subscription are interchangeable.
Symmetry == Permutations({a1, a2})
=============================================================================
