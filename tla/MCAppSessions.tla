---------------------------- MODULE MCAppSessions ----------------------------
EXTENDS AppSessions
=============================================================================
