--------------------------- MODULE MCFeatureStore ---------------------------
(* The feature store and the Pinot provisioner for TLC.                    *)
EXTENDS FeatureStore

Record(a, c, t) == [account_id |-> a, card_id |-> c, at |-> t]

\* The batch topic has the windows of a card in the wrong order; of its
\* withdrawals one leaves the window before the second is made.
Topics ==
    [f \in Features |->
        IF f = "payment_6h_batch" THEN <<Record("a1", "k1", 0), Record("a1", "k1", -1)>>
        ELSE <<Record("a1", "k1", -1), Record("a1", "k1", 0)>>]

\* The card with its account, with another account, and without one.
RequestKeys ==
    {[account_id |-> "a1", card_id |-> "k1"], [account_id |-> "a2", card_id |-> "k1"],
     [card_id |-> "k1"]}

TableNames == Features \cup {"obsolete"}

=============================================================================
