-------------------------- MODULE MCGrantSchedules --------------------------
EXTENDS GrantSchedules
=============================================================================
