----------------------------- MODULE MCMetrics -----------------------------
(* Metrics for TLC: the host and one service, two samples to a minute.     *)
EXTENDS Metrics

CONSTANT web

MCServices == {web}

=============================================================================
