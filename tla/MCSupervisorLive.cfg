SPECIFICATION Spec
CONSTANTS
    Services = {1}
    Commands = {c1, c2}
    Kinds = {"start", "restart", "deploy", "remove", "apply", "put"}
    Defs <- Lifecycle
    None = None
    Drift = Drift
    MaxAccidents = 1
PROPERTIES
    Converges
    CommandsAnswer
