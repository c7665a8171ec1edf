----------------------------- MODULE MCComposer -----------------------------
EXTENDS Composer, TLC

CONSTANTS A, B, photo, doc, t1

MCRooms == {A, B}
MCFiles == {photo, doc}
MCImages == {photo}
MCTexts == {t1}
=============================================================================
