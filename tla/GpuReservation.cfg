CONSTANTS
    Pages = {p1, p2}
    Files = {f1, f2}
    Requests = {"start", "start_airplay", "stop", "watch"}
    FileCapacity = 1
    MaxRequests = 4
    MaxPlayer = 1
    MaxRestarts = 1
SPECIFICATION Spec
INVARIANTS FilesOrLive TokenIsReservation NoLeakedReservation LiveIsReserved
