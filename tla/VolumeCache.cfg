SPECIFICATION Spec
CONSTANTS
    Caller = {c1, c2}
    Volume = {v1}
    What = {list, file}
    NoOne = NoOne
    MaxEdits = 1
INVARIANTS TypeOK FetchOnMiss
PROPERTY KeepsPromise
