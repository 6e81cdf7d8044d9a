--------------------------- MODULE MCThreadCreate ---------------------------
(* Small instances of ThreadCreate for TLC.                                *)
EXTENDS ThreadCreate

CONSTANTS t0, t1, t2, t3

MCTask4 == {t0, t1, t2, t3}
One     == {t0}
Two     == {t0, t1}
=============================================================================
