---------------------------- MODULE MC_HttpUtils ----------------------------
(* Inputs for the HttpUtils runs.                                          *)
EXTENDS HttpUtils

\* '%', '4', 'F', 'a', '&', '\'', '<' and ' ': percent escapes with upper
\* and lower case hex digits, bytes that quote and escapeXML replace, and
\* bytes that are not hex digits.
MCAlphabet == {37, 52, 70, 97, 38, 39, 60, 32}

\* Hosts of one to three bytes of 'h' and '1'.
MCHosts == BoundedSeq({104, 49}, 3) \ {<<>>}

\* No port, "1" and "80".
MCPorts == {<<>>, <<49>>, <<56, 48>>}

\* The path after '/': empty or "h".
MCPaths == {<<>>, <<104>>}

\* Every errno that mapErrNoToHttp names, and EBADF for its default.
MCErrnos == {EPERM, ENOENT, EIO, EAGAIN, EACCES, EBUSY, EEXIST, ENOTDIR,
             EISDIR, EINVAL, ENFILE, EMFILE, ENOSPC, ENAMETOOLONG, ENOTSUP,
             ENETDOWN, ENETUNREACH, ECONNRESET, ETIMEDOUT, ECONNREFUSED,
             EHOSTUNREACH, EDQUOT, 9}

\* Every XErrorCode that mapXrdErrToHttp names, and kXR_ServerError for
\* its default.
MCXrdErrors == {"kXR_AuthFailed", "kXR_NotAuthorized", "kXR_NotFound",
                "kXR_Unsupported", "kXR_InvalidRequest", "kXR_FileLocked",
                "kXR_isDirectory", "kXR_ItExists", "kXR_Conflict",
                "kXR_noserver", "kXR_TimerExpired", "kXR_NoSpace",
                "kXR_overQuota", "kXR_ServerError"}

\* Bytes 0, 'a' and 255: all bits clear, mixed and set.
MCBytes == {0, 97, 255}

\* itos: negative, zero, one digit, and the first two- and three-digit
\* values.
MCLongs == {-10, 0, 7, 10, 100}

\* "a" and "aa": strings that run into each other without their NULs.
MCFields == {<<97>>, <<97, 97>>}

\* Request codes whose two bytes differ in order.
MCRequests == {1, 256}

\* Times of one and of two decimal digits.
MCTimes == {7, 10}

\* A null hash, two copies of "ab" at different addresses, and "a".
MCHashes == {[id |-> 0, s |-> <<>>], [id |-> 1, s |-> <<97, 98>>],
             [id |-> 2, s |-> <<97, 98>>], [id |-> 3, s |-> <<97>>]}

=============================================================================
