SPECIFICATION Spec
CONSTANTS
    Services = {1}
    Commands = {c1, c2, c3}
    Kinds = {"stop", "deploy", "apply", "put", "delete"}
    Defs <- Changing
    None = None
    Drift = Drift
    MaxAccidents = 2
SYMMETRY Symmetry
INVARIANTS
    TypeOK
    NoOrphans
    RunsWhatIsDeclared
    BareStaysStopped
