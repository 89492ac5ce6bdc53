CONSTANTS
    e1 = e1
    e2 = e2
    shared = shared
    single = single
    Engines = {e1, e2}
    Callers = {c1, c2}
    Runnables = {shared, single}
    Posts <- SharedAndSingle
    Handlers = {h1, h2, h3}
    NULL = NULL
    Dangling = Dangling
    Nobody = Nobody
SYMMETRY Alike
SPECIFICATION Spec
INVARIANTS TypeOK FreedNeedsTwoEngines ReplaceKeepsOne NoHandlerLost
CHECK_DEADLOCK FALSE
