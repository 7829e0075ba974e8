------------------------------ MODULE MCRelayChain ------------------------------
EXTENDS RelayChain
CONSTANTS r1, r2
OneOrTwoRelays == {<<r1>>, <<r1, r2>>}
================================================================================
