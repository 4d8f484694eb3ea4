SPECIFICATION Spec
CONSTANTS
    Call = {c1, c2}
    Id = {i1, i2}
    Account = {"A", "B"}
    Opened = {"A"}
    Amount = {1}
    Initial = 3
    Services = {"uuid2"}
INVARIANTS AtMostOnce
