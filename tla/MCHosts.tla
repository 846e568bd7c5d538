------------------------------ MODULE MCHosts ------------------------------
EXTENDS Hosts
=============================================================================
