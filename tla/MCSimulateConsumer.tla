------------------------ MODULE MCSimulateConsumer ------------------------
(* The load generator for TLC, with two worker threads.                    *)
EXTENDS SimulateConsumer

CONSTANTS w1, w2
TwoWorkers == {w1, w2}

=============================================================================
