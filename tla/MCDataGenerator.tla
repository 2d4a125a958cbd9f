-------------------------- MODULE MCDataGenerator --------------------------
(* The data generator for TLC: the sets of event types the runs draw from. *)
EXTENDS DataGenerator

\* An entity whose rows change, and two event types with one counter.
CustomerEvents == {"customer_details_updated", "device_registered",
                   "login_attempted"}

=============================================================================
