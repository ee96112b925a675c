--------------------------- MODULE MCMonthlyClose ---------------------------
(* Model checking of MonthlyClose: concurrent requests on one period. *)
EXTENDS MonthlyClose, TLC

RequestSymmetry == Permutations(Requests)
=============================================================================
