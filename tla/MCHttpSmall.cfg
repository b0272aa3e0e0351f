CONSTANTS
    c1 = c1
    f = f
    g = g
    noCallback = noCallback
    noRequest = noRequest
    Conn = {c1}
    Callback = {f, g}
    NoCallback = noCallback
    NoRequest = noRequest
    Request <- MCRequest
    Malformed <- MCMalformed
    HeaderOf <- MCHeaderOf
    BodyOf <- MCBodyOf
    Url <- MCUrl
    Path <- MCPath
    PathOf <- MCPathOf
    Wildcard = "*"
    MaxRoutes = 0
    BufSize = 4
    NatRange = 65536
    MaxAsked = 3
    MaxOutstanding = 2
SPECIFICATION Spec
INVARIANT NoUnderflow
CHECK_DEADLOCK FALSE
