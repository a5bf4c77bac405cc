----------------------------- MODULE MCMemory -----------------------------
EXTENDS Memory
===========================================================================
