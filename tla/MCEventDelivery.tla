-------------------------- MODULE MCEventDelivery --------------------------
EXTENDS EventDelivery

CONSTANTS h1, h2, e1, e2, o1, o2, t1, t2, x1

MCObjectOf == [h \in Handles |-> IF h = h1 THEN o1 ELSE o2]
MCTokens == <<t1>>
MCTable == (t1 :> <<x1>>)
MCObjectId == (t1 :> o1)
MCCallback == (x1 :> "ERROR")
=============================================================================
