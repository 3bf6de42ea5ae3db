\* Prices 1..9, so that thresholds have room on both sides (and two have not).
CONSTANTS
    NoPrice = NoPrice
    Price = {1, 2, 3, 4, 5, 6, 7, 8, 9}
SPECIFICATION Spec
INVARIANT TypeOK
PROPERTY CrossedExactlyOnce
PROPERTY HoldsOnlyOnArrival
