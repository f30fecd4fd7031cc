--------------------------- MODULE MCAndroidGatt ---------------------------
EXTENDS AndroidGatt

\* Bound: TLC goes no further once a waiter was left behind and the lock was
\* given up, where none of the properties says anything any more.
Telling == ~(unheard /\ abandoned)
=============================================================================
