SPECIFICATION Spec
CONSTANTS
    e1 = e1 e2 = e2 e3 = e3 k1 = k1 k2 = k2 k3 = k3 k4 = k4 t1 = t1 t2 = t2 c1 = c1 c2 = c2
    h1 = h1 None = None
    Execs = {e1, e2, e3}
    Keys = {k1, k2, k3, k4}
    Policy <- MixedPolicy
    Hashes = {h1}
    Tokens = {t1, t2}
    Callers = {c1, c2}
    MaxTx = 3
SYMMETRY Symmetry
INVARIANTS
    TypeOK RowsAreConsistent AtMostOneRun OneActivePerKey SupersededChain
    RerunOnlyByReplace FinalAnswersAreFinal
PROPERTIES OutcomeIsFinal
CHECK_DEADLOCK FALSE
