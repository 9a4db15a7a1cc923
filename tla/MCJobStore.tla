----------------------------- MODULE MCJobStore -----------------------------
EXTENDS JobStore
=============================================================================
