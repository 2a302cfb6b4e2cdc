\* Every utility on every input of the bounds; buf scaled to 4 bytes.
CONSTANTS
    Alphabet <- MCAlphabet
    MaxLen = 4
    Hosts <- MCHosts
    Ports <- MCPorts
    Paths <- MCPaths
    BufSize = 4
    Errnos <- MCErrnos
    XrdErrors <- MCXrdErrors
    Bytes <- MCBytes
    Longs <- MCLongs
    Fields <- MCFields
    Requests <- MCRequests
    Times <- MCTimes
    Keys = {k1}
    Hashes <- MCHashes
SPECIFICATION Spec
INVARIANT FromhexDecodes
INVARIANT UnquoteDecodes
INVARIANT EscapeXMLSound
INVARIANT ParseURLSound
INVARIANT ErrorStatusNamed
INVARIANT QuoteUnquoteInverse
