SPECIFICATION Spec
CONSTANTS
    e1 = e1 e2 = e2 k1 = k1 r1 = r1 r2 = r2 l1 = l1 l2 = l2 s1 = s1 s2 = s2
    h1 = h1 None = None
    Keys = {k1}
    Hashes = {h1}
    Execs = {e1, e2}
    Policy <- ReplaceablePolicy
    Tokens = {r1}
    Relays = {l1}
    Sweeps = {s1}
    Faults = {"crash"}
    MaxFaults = 1
SYMMETRY Symmetry
INVARIANTS PendingHasEvent
PROPERTIES LifecycleSpec
