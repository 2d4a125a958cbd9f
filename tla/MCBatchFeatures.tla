-------------------------- MODULE MCBatchFeatures --------------------------
(* The batch features for TLC: a day of eight ticks, windows of four that  *)
(* end every two.                                                          *)
EXTENDS BatchFeatures

Payment(c, t) == [card |-> c, time |-> t]

\* Two payments in one first window, on its bound and off it; a later one in
\* the last window of a day.
ThreePayments == {Payment("k1", 17), Payment("k1", 18), Payment("k1", 23)}

TwoPayments == {Payment("k1", 17), Payment("k1", 23)}

=============================================================================
