CONSTANTS
    Pages = {p1}
    Files = {f1, f2}
    Requests = {"start", "stop"}
    FileCapacity = 1
    MaxRequests = 4
    MaxPlayer = 0
    MaxRestarts = 0
SPECIFICATION Spec
INVARIANT NeverTogether
