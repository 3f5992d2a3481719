-------------------------- MODULE MCRateLimitPolicy --------------------------
(* A budget of 4 bytes per 3 ms quantum; sends smaller than the budget,    *)
(* one that tops a quantum up past it, and one larger than two budgets, so *)
(* that a full quantum skips one or several periods.                       *)
EXTENDS RateLimitPolicy

MCBufferSizes == {1, 3, 9}
=============================================================================
