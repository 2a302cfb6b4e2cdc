\* unquote on every short string and parseURL on every URL of the bounds.
CONSTANTS
    Alphabet <- MCAlphabet
    MaxLen = 4
    Hosts <- MCHosts
    Ports <- MCPorts
    Paths <- MCPaths
    BufSize = 4
    Errnos <- MCErrnos
    XrdErrors <- MCXrdErrors
    Bytes <- MCBytes
    Longs <- MCLongs
    Fields <- MCFields
    Requests <- MCRequests
    Times <- MCTimes
    Keys = {k1}
    Hashes <- MCHashes
SPECIFICATION Spec
INVARIANT BuffersInBounds
