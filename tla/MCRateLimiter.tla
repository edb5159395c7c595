---------------------------- MODULE MCRateLimiter ----------------------------
(* Small instances of RateLimiter for TLC. *)
EXTENDS RateLimiter, TLC

CONSTANTS r1, r2

OneRequest == {r1}
TwoRequests == {r1, r2}
RequestSymmetry == Permutations(Requests)

SmallEstimates == {1, 3, 5}  \* 5 does not fit the four tokens of a window
SmallUsages == {0, 2, 4}
InStep == {0}                \* clocks agree and calls take no time
Skewed == {-1, 0, 1}         \* a tick either way, or a call a tick late

\* What the limiter itself keeps: with skewed clocks the history is unbounded,
\* and neither the actions nor ClocksNeverDrain look at it.
WithoutHistory == <<bucket, hold>>
=============================================================================
