----------------------------- MODULE MCRelayStream ------------------------------
EXTENDS RelayStream
================================================================================
