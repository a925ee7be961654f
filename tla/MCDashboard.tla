---------------------------- MODULE MCDashboard ----------------------------
EXTENDS DashboardPage, TLC

Symmetry == Permutations(Requests)
=============================================================================
