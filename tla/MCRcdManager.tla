---------------------------- MODULE MCRcdManager ----------------------------
EXTENDS RcdManager
=============================================================================
