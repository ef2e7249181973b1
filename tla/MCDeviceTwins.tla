--------------------------- MODULE MCDeviceTwins ---------------------------
EXTENDS DeviceTwins

CONSTANTS t1, t2

\* The scalar comes behind the borrowed value: an update that interrupts the
\* handler of t1 finds t2 ahead, one that interrupts the handler of t2 does not.
TwoTwins == <<t1, t2>>
Types == [t \in {t1, t2} |-> IF t = t2 THEN "scalar" ELSE "borrowed"]
=============================================================================
