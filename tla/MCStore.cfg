CONSTANTS
    a1 = a1  a2 = a2  p1 = p1  b1 = b1  b2 = b2  f1 = f1  f2 = f2  e1 = e1  odd = odd  r0 = r0  r1 = r1  r2 = r2

    None = None
    NodeNames = {"n1", "n2"}
    Algorithms = {a1, a2}
    Pipelines = {p1}
    BuildIds = {b1, b2}
    Requests = {r1, r2}
    Runs = {r0, r1, r2}
    Files = {f1, f2}
    Envs = {e1}
    NotSemver = {odd}
    MaxPart = 1
    ListLimit = 1
    MaxFailures = 1
    First <- MCFirst
    Asked <- MCAsked
SPECIFICATION Spec
INVARIANTS TypeOK StoredCanRun UsedAlgorithmsExist CopyIsOfStored
PROPERTIES VersionsGrow AtomicSpec
CHECK_DEADLOCK FALSE
SYMMETRY Symmetry
