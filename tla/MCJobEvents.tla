---------------------------- MODULE MCJobEvents -----------------------------
EXTENDS JobEvents
=============================================================================
