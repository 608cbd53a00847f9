--------------------------- MODULE MCSpinLockIrq ---------------------------
EXTENDS SpinLockIrq
=============================================================================
