------------------------------ MODULE MCMemPool ------------------------------
EXTENDS MemPool
=============================================================================
