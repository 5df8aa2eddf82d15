-------------------------- MODULE MCDashboardLink --------------------------
EXTENDS DashboardLink
=============================================================================
