SPECIFICATION Spec
CONSTANTS
    w1 = w1
    a = a
    b = b
    web = web
    other = other
    cli = cli
    NoOne = NoOne
    Request = {web, other}
    Cli = {}
    Windows = {w1}
    Wsl = {a, b}
    Targets <- MCTargets
    InitDeclared <- MCAll
    Files <- MCFiles
    Reconciles = TRUE
    MaxRequests = 3
    MaxEvents = 0
    MaxFails = 1
PROPERTIES Handled
CHECK_DEADLOCK FALSE
