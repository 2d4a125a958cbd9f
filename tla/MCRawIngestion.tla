--------------------------- MODULE MCRawIngestion ---------------------------
(* The raw ingestion job for TLC.                                          *)
EXTENDS RawIngestion

TwoTopics == <<"account_opened", "login_attempted">>
OneTopic == <<"customer_details_updated">>

=============================================================================
