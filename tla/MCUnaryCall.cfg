SPECIFICATION FairSpec
CONSTANTS
    c1 = c1
    c2 = c2
    None = None
    Calls = {c1, c2}
    Methods = {"m1", "m2"}
    Registrants = {"gen", "lambda"}
    Lambdas = {"lambda"}
    Service <- MCService
    Method <- MCMethod
    Answers = {"answer", "nothing"}
    Fits = TRUE
INVARIANTS OkIsTheAnswer 
PROPERTIES TypedPromise SyncReturns
CHECK_DEADLOCK FALSE
