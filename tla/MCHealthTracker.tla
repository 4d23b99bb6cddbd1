-------------------------- MODULE MCHealthTracker --------------------------
(* The circuit of health.py at its real proportions: the cooldown unit is  *)
(* BASE_COOLDOWN = 60 s, so the ceiling of 600 s is 10 units.              *)
EXTENDS HealthTracker

CONSTANTS p1, c1, c2, c3, c4

MCProviders == {p1}
MCCallers == {c1, c2, c3, c4}
MCReportCallers == {c1}
=============================================================================
