SPECIFICATION FairSpec
CONSTANTS
    Call = {c1, c2, c3}
    Id = {i1}
    Account = {"A", "B"}
    Opened = {"A"}
    Amount <- Amounts
    Initial = 3
    Services = {"uuid1", "uuid2"}
INVARIANTS TypeOK MoneyIsConserved
PROPERTIES OnlyNegativeOverdraws RetryAfterAnswerIsIdempotent EveryCallIsAnswered
