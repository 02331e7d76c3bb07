--------------------------- MODULE MCErrorLogger ---------------------------
EXTENDS ErrorLogger

CONSTANTS t1, t2, t3, x1, x2

MCTokens == <<t1, t2, t3>>
\* t3 is a device in none of the tables.
MCTable == (t1 :> <<x1, x2>>) @@ (t2 :> <<x2>>) @@ (t3 :> <<>>)

APTokens == <<t1>>
APTable == (t1 :> <<x1>>)
=============================================================================
