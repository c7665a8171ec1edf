----------------------------- MODULE MCProfile -----------------------------
EXTENDS Profile

CONSTANTS t1

MCThemes == {t1}
=============================================================================
