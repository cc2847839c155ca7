CONSTANTS
    Consumers = {c1, c2}
    Producers = {p1}
    Batch = 5
    InitVar = 2
    None = None
SPECIFICATION FairSpec
INVARIANTS TypeOK Conservation NeverOversold NoStrandedProduct
PROPERTIES AllConsumed
