-------------------------- MODULE MCNativeBoundary --------------------------
EXTENDS NativeBoundary
=============================================================================
