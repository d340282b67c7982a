SPECIFICATION Spec
CONSTANTS
    Services = {1}
    Commands = {c1}
    Kinds = {"remove"}
    Defs <- Versions
    None = None
    Drift = Drift
    MaxAccidents = 0
INVARIANT NoOrphans
