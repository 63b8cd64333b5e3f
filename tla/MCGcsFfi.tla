------------------------------ MODULE MCGcsFfi ------------------------------
(* Finite instances of GcsFfi for TLC: thread names are model values. *)
EXTENDS GcsFfi

CONSTANTS h1, h2, h3, w1, w2, w3

OneHost == {h1}
TwoHosts == {h1, h2}
ThreeHosts == {h1, h2, h3}
SecondHost == {h2}
ThirdHost == {h3}
NoHosts == {}
OneWorker == {w1}
TwoWorkers == {w1, w2}
ThreeWorkers == {w1, w2, w3}

\* The allocator hands the place of a destroyed session to the next one: every
\* old handle matches.  Or it never does.
SameAddress == [s \in Sessions |-> 1]
OwnAddress  == [s \in Sessions |-> s]
=============================================================================
