---------------------------- MODULE MCCircuitWriters ---------------------------
EXTENDS CircuitWriters
================================================================================
