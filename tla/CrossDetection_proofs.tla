------------------------ MODULE CrossDetection_proofs ------------------------
(***************************************************************************)
(* CrossDetection for every set of prices.                                 *)
(***************************************************************************)
EXTENDS CrossDetection, TLAPS

\* What a cross rule says of one tick, spelled out (AlertRule::evaluate).
LEMMA CrossesMeaning ==
    ASSUME NEW p
    PROVE  Crosses(p) <=> /\ prev # NoPrice
                          /\ \/ prev < threshold /\ p >= threshold
                             \/ prev > threshold /\ p <= threshold
BY DEF Crosses, CrossRule, Evaluate, Upward, Downward

\* The types of the prices, as the arithmetic needs them.
LEMMA PricesAreIntegers ==
    ASSUME Types
    PROVE  /\ threshold \in Int
           /\ prev # NoPrice => prev \in Int
           /\ \A p \in Price : p \in Int /\ p # NoPrice
BY PriceAssumption, NoPriceAssumption DEF Types

\* Types and the place of the last price are kept by every tick, edit and
\* restart (handle_price_update, evaluate).
THEOREM TypeCorrect == Spec => []TypeOK
<1> USE PriceAssumption, NoPriceAssumption
<1>1. Init => TypeOK
  BY DEF Init, TypeOK, Types, SideFollowsPrice
<1>2. TypeOK /\ [Next]_vars => TypeOK'
  <2> SUFFICES ASSUME TypeOK, [Next]_vars
               PROVE  TypeOK'
    OBVIOUS
  <2>1. ASSUME NEW p \in Price, Tick(p)
        PROVE  TypeOK'
    <3>1. /\ p \in Int /\ p # NoPrice /\ threshold \in Int
          /\ prev # NoPrice => prev \in Int
      BY PricesAreIntegers DEF TypeOK
    <3>2. /\ prev' = p /\ threshold' = threshold
          /\ side' = IF p < threshold THEN "below"
                     ELSE IF p > threshold THEN "above" ELSE side
          /\ p # threshold => ~hit'
          /\ p = threshold => hit' = (hit \/ Crosses(p))
          /\ hit' \in BOOLEAN
      BY <2>1, <3>1 DEF Tick, SideOf, TypeOK, Types
    <3>3. Types'
      BY <3>1, <3>2 DEF TypeOK, Types
    <3>4. CASE p # threshold
      BY <3>1, <3>2, <3>3, <3>4 DEF TypeOK, SideFollowsPrice
    <3>5. CASE p = threshold
      <4>1. side' = side /\ prev' = threshold
        BY <3>1, <3>2, <3>5
      <4>2. ASSUME side # "none", ~hit
            PROVE  Crosses(p)
        BY <3>1, <3>5, <4>2, CrossesMeaning DEF TypeOK, Types, SideFollowsPrice
      <4>3. ASSUME side = "none"
            PROVE  ~hit /\ ~Crosses(p)
        BY <3>1, <3>5, <4>3, CrossesMeaning DEF TypeOK, SideFollowsPrice
      <4>4. (side # "none" => hit') /\ (side = "none" => ~hit')
        BY <3>2, <3>5, <4>2, <4>3
      <4>5. QED
        BY <3>1, <3>2, <3>3, <4>1, <4>4 DEF TypeOK, Types, SideFollowsPrice
    <3>6. QED
      BY <3>4, <3>5
  <2>2. ASSUME NEW th \in Price, Edit(th)
        PROVE  TypeOK'
    <3>1. /\ th \in Int /\ threshold' = th /\ prev' = prev /\ ~hit'
          /\ hit' \in BOOLEAN /\ side' = SideOf(prev, th, "none")
          /\ prev # NoPrice => prev \in Int
      BY <2>2, PricesAreIntegers DEF TypeOK, Edit
    <3>2. QED
      BY <3>1 DEF TypeOK, Types, SideFollowsPrice, SideOf
  <2>3. CASE Restart
    BY <2>3 DEF Restart, TypeOK, Types, SideFollowsPrice
  <2>4. CASE UNCHANGED vars
    BY <2>4 DEF vars, TypeOK, Types, SideFollowsPrice
  <2>5. QED
    BY <2>1, <2>2, <2>3, <2>4 DEF Next
<1>3. QED
  BY <1>1, <1>2, PTL DEF Spec

\* Between a strict side and the other the rule holds for exactly one tick.
THEOREM ExactlyOnce == Spec => CrossedExactlyOnce
<1> USE PriceAssumption, NoPriceAssumption
<1>1. TypeOK /\ [Next]_vars
        => [{side, side'} = {"below", "above"} /\ threshold' = threshold
               => hit # Crosses(prev')]_vars
  <2> SUFFICES ASSUME TypeOK, Next, {side, side'} = {"below", "above"},
                      threshold' = threshold
               PROVE  hit # Crosses(prev')
    OBVIOUS
  <2>1. \/ side = "below" /\ side' = "above"
        \/ side = "above" /\ side' = "below"
    OBVIOUS
  <2>2. ASSUME NEW p \in Price, Tick(p)
        PROVE  hit # Crosses(prev')
    <3>1. /\ p \in Int /\ threshold \in Int /\ prev # NoPrice /\ prev \in Int
      BY <2>1, PricesAreIntegers DEF TypeOK, SideFollowsPrice
    <3>2. /\ prev' = p /\ side' = IF p < threshold THEN "below"
                                  ELSE IF p > threshold THEN "above" ELSE side
      BY <2>2, PricesAreIntegers DEF Tick, SideOf, TypeOK
    <3>3. CASE hit
      <4>1. prev = threshold
        BY <2>1, <3>3 DEF TypeOK, SideFollowsPrice
      <4>2. ~Crosses(p)
        BY <3>1, <4>1, CrossesMeaning
      <4>3. QED
        BY <3>2, <3>3, <4>2
    <3>4. CASE ~hit
      <4>1. \/ prev < threshold /\ p > threshold
            \/ prev > threshold /\ p < threshold
        BY <2>1, <3>1, <3>2, <3>4 DEF TypeOK, SideFollowsPrice
      <4>2. Crosses(p)
        BY <3>1, <4>1, CrossesMeaning
      <4>3. QED
        BY <3>2, <3>4, <4>2
    <3>5. QED
      BY <3>3, <3>4
  <2>3. ASSUME NEW th \in Price, Edit(th)
        PROVE  FALSE
    <3>1. /\ th = threshold /\ side' = SideOf(prev, th, "none") /\ threshold \in Int
          /\ prev # NoPrice /\ prev \in Int
      BY <2>1, <2>3, PricesAreIntegers DEF Edit, TypeOK, SideFollowsPrice
    <3>2. QED
      BY <2>1, <3>1 DEF TypeOK, SideFollowsPrice, SideOf
  <2>4. CASE Restart
    BY <2>1, <2>4 DEF Restart
  <2>5. QED
    BY <2>2, <2>3, <2>4 DEF Next
<1>2. QED
  BY <1>1, TypeCorrect, PTL DEF Spec, CrossedExactlyOnce

\* The rule never holds for a tick that only leaves or rests at the threshold.
THEOREM OnlyOnArrival == Spec => HoldsOnlyOnArrival
<1> USE PriceAssumption, NoPriceAssumption
<1>1. TypeOK /\ [Next]_vars
        => [prev' # NoPrice /\ Crosses(prev') => ~hit /\ side # "none"]_vars
  <2> SUFFICES ASSUME TypeOK, Next, prev' # NoPrice, Crosses(prev')
               PROVE  ~hit /\ side # "none"
    OBVIOUS
  <2>1. prev' \in Price
    BY DEF TypeOK, Types, Next, Tick, Edit, Restart
  <2>2. prev # NoPrice /\ prev \in Int /\ threshold \in Int
    BY DEF TypeOK, Types, Crosses, CrossRule, Evaluate
  <2>3. prev # threshold
    BY <2>2, CrossesMeaning
  <2>4. QED
    BY <2>2, <2>3 DEF TypeOK, Types, SideFollowsPrice
<1>2. QED
  BY <1>1, TypeCorrect, PTL DEF Spec, HoldsOnlyOnArrival
=============================================================================
