CONSTANTS
    c1 = c1
    c2 = c2
    listed = listed
    foreign = foreign
    Conns = {c1, c2}
    Hosts = {listed}
    Requests <- MCRequests
    NoRequest = NoRequest
    Cap = 1
    Buffer = 1
    MaxReplies = 1

SPECIFICATION Spec

INVARIANT HeadersStay

CHECK_DEADLOCK FALSE
