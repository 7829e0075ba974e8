------------------------------ MODULE MCRelayStats -----------------------------
EXTENDS RelayStats
================================================================================
