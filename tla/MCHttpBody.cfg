CONSTANTS
    c1 = c1
    f = f
    g = g
    noCallback = noCallback
    noRequest = noRequest
    Conn = {c1}
    Callback = {f, g}
    NoCallback = noCallback
    NoRequest = noRequest
    Request <- MCRequest
    Malformed <- MCMalformed
    HeaderOf <- MCHeaderOf
    BodyOf <- MCBodyOf
    Url <- MCUrl
    Path <- MCPath
    PathOf <- MCPathOf
    Wildcard = "*"
    MaxRoutes = 2
    BufSize = 4
    NatRange = 65536
    MaxAsked = 2
    MaxOutstanding = 2
SPECIFICATION Spec
INVARIANT
    OnlyRequests
\* A connection that has ended and a client with nothing left to ask.
CHECK_DEADLOCK FALSE
