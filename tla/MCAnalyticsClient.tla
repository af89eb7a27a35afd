-------------------------- MODULE MCAnalyticsClient --------------------------
(* AnalyticsClient for TLC: the constants are in the .cfg files.            *)
EXTENDS AnalyticsClient
=============================================================================
