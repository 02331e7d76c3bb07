----------------------------- MODULE MCAseMmio -----------------------------
EXTENDS AseMmio

CONSTANTS t1, t2
=============================================================================
