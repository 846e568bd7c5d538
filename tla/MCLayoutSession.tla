--------------------------- MODULE MCLayoutSession ---------------------------
EXTENDS LayoutSession
=============================================================================
