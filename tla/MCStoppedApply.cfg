SPECIFICATION Spec
CONSTANTS
    Services = {1}
    Commands = {c1, c2, c3}
    Kinds = {"stop", "deploy", "apply"}
    Defs <- Versions
    None = None
    Drift = Drift
    MaxAccidents = 0
INVARIANT StoppedStaysStopped
