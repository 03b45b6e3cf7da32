SPECIFICATION Spec
CONSTANTS
    Ips = {ip1}
    None = None
    MaxTokens = 5
    Rate = 2
    Cost = 3
    Cutoff = 3
    RetryAfter = 2
    MaxTime = 9
INVARIANTS
    TypeOK
    WindowBounded
    RetryHonest
