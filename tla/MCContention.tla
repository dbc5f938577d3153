---------------------------- MODULE MCContention ----------------------------
EXTENDS Contention
=============================================================================
