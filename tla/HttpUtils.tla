------------------------------- MODULE HttpUtils -------------------------------
(***************************************************************************)
(* The string and status utilities of src/src/XrdHttp/XrdHttpUtils.cc as   *)
(* operators over C strings, and a state machine whose every step is one   *)
(* call of one utility on an input drawn from small sets: `fn`, `arg` and  *)
(* `out` are the last call, its argument and its result.  The properties  *)
(* relate `out` to `arg` through reference definitions.                    *)
(*                                                                         *)
(* A C string is the sequence of its bytes (numbers 0..255) without the    *)
(* terminating NUL.  Indices in comments and in At() are 0-based, as in    *)
(* the code; index Len(s) is the NUL, and anything beyond it is outside    *)
(* the string's allocation.                                                *)
(***************************************************************************)
EXTENDS Integers, Sequences, SequencesExt

CONSTANTS
    Alphabet,   \* bytes the strings given to quote, unquote, escapeXML and
                \* Fromhexdigest are made of
    MaxLen,     \* their maximal length
    Hosts,      \* host parts of the URLs given to parseURL
    Ports,      \* port parts: digit strings, or <<>> for no ":port"
    Paths,      \* paths after the first '/' of the URL path
    BufSize,    \* sizeof(buf) in parseURL (256 in the code)
    Errnos,     \* errno values given to mapErrNoToHttp
    XrdErrors,  \* XErrorCode names given to mapXrdErrToHttp
    Bytes,      \* bytes of the data given to Tobase64 (up to MaxLen of them)
    Longs,      \* values given to itos
    Fields,     \* strings for calcHashes' fn and XrdSecEntity fields
    Requests,   \* request codes given to calcHashes
    Times,      \* times (seconds since the epoch) given to calcHashes
    Keys,       \* shared secrets given to calcHashes
    Hashes      \* hashes given to compareHash: [id |-> pointer, 0 for
                \* null, s |-> the string there]

ASSUME /\ Alphabet \subseteq 1..255 /\ Bytes \subseteq 0..255
       /\ Requests \subseteq 0..65535 /\ Times \subseteq Nat
       /\ MaxLen \in Nat /\ BufSize \in Nat \ {0}

NUL == 0
Percent == 37
Slash == 47
Colon == 58

\* The byte at 0-based index k of C string s: the NUL at Len(s) and beyond
\* (a read past the allocation, whose value the build does not fix).
At(s, k) == IF k < Len(s) THEN s[k + 1] ELSE NUL

\* The C string a buffer holds: its bytes up to the first NUL.
CStr(s) == LET k == SelectInSeq(s, LAMBDA c : c = NUL)
           IN IF k = 0 THEN s ELSE SubSeq(s, 1, k - 1)

\* First 0-based index >= from of byte c in C string s, or -1 (strchr).
StrChr(s, c, from) ==
    LET k == SelectInSubSeq(s, from + 1, Len(s), LAMBDA x : x = c)
    IN IF from >= Len(s) \/ k = 0 THEN -1 ELSE k - 1

MinOf(a, b) == IF a <= b THEN a ELSE b

-----------------------------------------------------------------------------
(* char_to_int and Fromhexdigest                                           *)

\* Mutant of CharToInt: no tolower, so upper-case hex digits are refused.
CharToIntNoLower(c) ==
    CASE c \in 48..57 -> c - 48
      [] c \in 97..102 -> c - 97 + 10
      [] OTHER -> -1

\* isdigit, then tolower and 'a'..'f'; -1 for anything else.
CharToInt(c) ==
    LET lc == IF c \in 65..90 THEN c + 32 ELSE c IN
    CASE c \in 48..57 -> c - 48
      [] lc \in 97..102 -> lc - 97 + 10
      [] OTHER -> -1

\* The loop `for (idx = 0; idx < length; idx += 2)`: two digits per output
\* byte, false on the first pair with a non-hex digit.  An odd length makes
\* the last pair read input[length].
RECURSIVE FromHexFrom(_, _)
FromHexFrom(s, idx) ==
    IF idx >= Len(s) THEN [ok |-> TRUE, out |-> <<>>]
    ELSE LET upper == CharToInt(At(s, idx))
             lower == CharToInt(At(s, idx + 1))
         IN IF upper < 0 \/ lower < 0 THEN [ok |-> FALSE, out |-> <<>>]
            ELSE LET rest == FromHexFrom(s, idx + 2)
                 IN [ok |-> rest.ok, out |-> <<upper * 16 + lower>> \o rest.out]

\* Fromhexdigest(input, strlen(input), out): whether it succeeded and the
\* bytes it wrote to out (on failure, those of the pairs before the bad one).
Fromhexdigest(s) == FromHexFrom(s, 0)

-----------------------------------------------------------------------------
(* unquote                                                                 *)

HexValue(c) == CharToInt(c)

\* strtol(w, 0, 16) on the bytes w before its NUL: leading white space, a
\* sign, an optional 0x prefix, then the longest run of hex digits.
Strtol16(w) ==
    LET RECURSIVE Digits(_, _)
        Digits(t, acc) == IF t # <<>> /\ HexValue(Head(t)) >= 0
                            THEN Digits(Tail(t), acc * 16 + HexValue(Head(t)))
                            ELSE acc
        sp == SelectInSeq(w, LAMBDA c : c \notin {9, 10, 11, 12, 13, 32})
        a  == IF sp = 0 THEN <<>> ELSE SubSeq(w, sp, Len(w))
        neg == a # <<>> /\ Head(a) = 45
        b  == IF a # <<>> /\ Head(a) \in {43, 45} THEN Tail(a) ELSE a
        c  == IF Len(b) >= 3 /\ b[1] = 48 /\ b[2] \in {88, 120}
                 /\ HexValue(b[3]) >= 0
                THEN SubSeq(b, 3, Len(b)) ELSE b
    IN IF neg THEN -Digits(c, 0) ELSE Digits(c, 0)

\* The loop of unquote from 0-based index i: a '%' at i sets str[i+3] to
\* NUL, converts str+i+1 with strtol into one char, restores str[i+3] and
\* skips two bytes; any other byte is copied.  `reach` is the highest
\* index of str the loop reads or writes.
\* Mutant of UnquoteFrom: `i += 3` after a '%', one byte too far.
RECURSIVE UnquoteFromSkip(_, _)
UnquoteFromSkip(s, i) ==
    IF i >= Len(s) THEN [out |-> <<>>, reach |-> Len(s)]
    ELSE IF At(s, i) = Percent
      THEN LET w == SubSeq(s, i + 2, MinOf(i + 3, Len(s)))
               rest == UnquoteFromSkip(s, i + 4)
           IN [out |-> <<Strtol16(w) % 256>> \o rest.out,
               reach |-> IF rest.reach > i + 3 THEN rest.reach ELSE i + 3]
      ELSE LET rest == UnquoteFromSkip(s, i + 1)
           IN [out |-> <<At(s, i)>> \o rest.out, reach |-> rest.reach]

RECURSIVE UnquoteFrom(_, _)
UnquoteFrom(s, i) ==
    IF i >= Len(s) THEN [out |-> <<>>, reach |-> Len(s)]
    ELSE IF At(s, i) = Percent
      THEN LET w == SubSeq(s, i + 2, MinOf(i + 3, Len(s)))
               rest == UnquoteFrom(s, i + 3)
           IN [out |-> <<Strtol16(w) % 256>> \o rest.out,
               reach |-> IF rest.reach > i + 3 THEN rest.reach ELSE i + 3]
      ELSE LET rest == UnquoteFrom(s, i + 1)
           IN [out |-> <<At(s, i)>> \o rest.out, reach |-> rest.reach]

\* unquote(str): the new string, read up to its first NUL.
Unquote(s) == CStr(UnquoteFrom(s, 0).out)

-----------------------------------------------------------------------------
(* quote and escapeXML                                                     *)

\* The bytes quote replaces, and the three-byte %XX escapes it writes.
\* Mutant of QuoteEscape: ' ' is written as "%02" (digits swapped).
QuoteEscapeSwapped ==
    [c \in {32, 91, 93, 58, 35, 10, 13, 61} |->
        IF c = 32 THEN <<37, 48, 50>>
        ELSE <<37, 48 + (c \div 16), IF (c % 16) < 10 THEN 48 + (c % 16) ELSE 55 + (c % 16)>>]

QuoteEscape ==
    [c \in {32, 91, 93, 58, 35, 10, 13, 61} |->
        CASE c = 32 -> <<37, 50, 48>>   \* ' '  -> %20
          [] c = 91 -> <<37, 53, 66>>   \* '['  -> %5B
          [] c = 93 -> <<37, 53, 68>>   \* ']'  -> %5D
          [] c = 58 -> <<37, 51, 65>>   \* ':'  -> %3A
          [] c = 35 -> <<37, 50, 51>>   \* '#'  -> %23
          [] c = 10 -> <<37, 48, 65>>   \* '\n' -> %0A
          [] c = 13 -> <<37, 48, 68>>   \* '\r' -> %0D
          [] c = 61 -> <<37, 51, 68>>]  \* '='  -> %3D

\* Each byte's replacement, or the byte itself, in order.
Quote(s) ==
    FlattenSeq([i \in 1..Len(s) |->
                   IF s[i] \in DOMAIN QuoteEscape THEN QuoteEscape[s[i]]
                                                   ELSE <<s[i]>>])

\* The entities escapeXML writes for '"', '&', '<', '>' and '\''.
XmlEntity ==
    [c \in {34, 38, 60, 62, 39} |->
        CASE c = 34 -> <<38, 113, 117, 111, 116, 59>>  \* &quot;
          [] c = 38 -> <<38, 97, 109, 112, 59>>        \* &amp;
          [] c = 60 -> <<38, 108, 116, 59>>            \* &lt;
          [] c = 62 -> <<38, 103, 116, 59>>            \* &gt;
          [] c = 39 -> <<38, 97, 112, 111, 115, 59>>]  \* &apos;

\* Mutant of EscapeXML: the case for '\'' is missing.
EscapeXMLNoApos(s) ==
    FlattenSeq([i \in 1..Len(s) |->
                   IF s[i] \in DOMAIN XmlEntity \ {39} THEN XmlEntity[s[i]]
                                                       ELSE <<s[i]>>])

EscapeXML(s) ==
    FlattenSeq([i \in 1..Len(s) |->
                   IF s[i] \in DOMAIN XmlEntity THEN XmlEntity[s[i]]
                                                ELSE <<s[i]>>])

-----------------------------------------------------------------------------
(* parseURL(url, host, port, path)                                         *)

\* atoi: leading white space, a sign, then decimal digits.
Atoi(w) ==
    LET RECURSIVE Dec(_, _)
        Dec(t, acc) == IF t # <<>> /\ Head(t) \in 48..57
                         THEN Dec(Tail(t), acc * 10 + Head(t) - 48) ELSE acc
        sp == SelectInSeq(w, LAMBDA c : c \notin {9, 10, 11, 12, 13, 32})
        a  == IF sp = 0 THEN <<>> ELSE SubSeq(w, sp, Len(w))
        b  == IF a # <<>> /\ Head(a) \in {43, 45} THEN Tail(a) ELSE a
    IN IF a # <<>> /\ Head(a) = 45 THEN -Dec(b, 0) ELSE Dec(b, 0)

\* Mutant of PortOf: atoi(p) on the ':' itself instead of atoi(p + 1).
PortOfColon(buf, c) == Atoi(SubSeq(buf, c + 1, Len(buf)))

\* The port after the ':' at 0-based index c of buf.
PortOf(buf, c) == Atoi(SubSeq(buf, c + 2, Len(buf)))

\* The result of parseURL: its return value, what it leaves in *host, port
\* and *path, and the index of buf that `buf[l] = '\0'` writes (-1 when it
\* returns before).  On -1, host and port are left as they were (<<>> and
\* 0 here) and *path is null (<<>>).
ParseURL(url) ==
    LET p0 == IndexFirstSubSeq(<<Slash, Slash>>, url) - 1
        found == <<Slash, Slash>> \in SubSeqs(url)
        p == p0 + 2
        p2 == StrChr(url, Slash, p)
        l == MinOf(p2 - p, BufSize)
        buf == SubSeq(url, p + 1, p + l)
        c == StrChr(buf, Colon, 0)
    IN
    IF ~found \/ p2 < 0
      THEN [ret |-> -1, host |-> <<>>, port |-> 0, path |-> <<>>, bufEnd |-> -1]
      ELSE [ret |-> 0,
            host |-> IF c >= 0 THEN SubSeq(buf, 1, c) ELSE buf,
            port |-> IF c >= 0 THEN PortOf(buf, c) ELSE 0,
            path |-> SubSeq(url, p2 + 1, Len(url)),
            bufEnd |-> l]

-----------------------------------------------------------------------------
(* mapErrNoToHttp, mapXrdErrToHttp and httpStatusToString                  *)

\* Linux errno values.
EPERM == 1
ENOENT == 2
EIO == 5
EAGAIN == 11
EACCES == 13
EBUSY == 16
EEXIST == 17
ENOTDIR == 20
EISDIR == 21
EINVAL == 22
ENFILE == 23
EMFILE == 24
ENOSPC == 28
ENAMETOOLONG == 36
ENOTSUP == 95
ENETDOWN == 100
ENETUNREACH == 101
ECONNRESET == 104
ETIMEDOUT == 110
ECONNREFUSED == 111
EHOSTUNREACH == 113
EDQUOT == 122

\* Mutant of MapErrNoToHttp: a full disk or quota is reported as 509
\* (the unofficial "Bandwidth Limit Exceeded") instead of 507.
MapErrNoToHttpBandwidth(err) ==
    CASE err \in {EACCES, EPERM} -> 403
      [] err = ENOENT -> 404
      [] err = EEXIST -> 409
      [] err \in {ENOTDIR, EISDIR} -> 422
      [] err \in {ENOSPC, EDQUOT} -> 509
      [] err = EIO -> 500
      [] err \in {EINVAL, ENAMETOOLONG} -> 400
      [] err = ENOTSUP -> 501
      [] err \in {EMFILE, ENFILE, EBUSY, EAGAIN, ETIMEDOUT} -> 503
      [] err \in {ECONNREFUSED, ECONNRESET, ENETDOWN, ENETUNREACH,
                  EHOSTUNREACH} -> 502
      [] OTHER -> 500

MapErrNoToHttp(err) ==
    CASE err \in {EACCES, EPERM} -> 403
      [] err = ENOENT -> 404
      [] err = EEXIST -> 409
      [] err \in {ENOTDIR, EISDIR} -> 422
      [] err \in {ENOSPC, EDQUOT} -> 507
      [] err = EIO -> 500
      [] err \in {EINVAL, ENAMETOOLONG} -> 400
      [] err = ENOTSUP -> 501
      [] err \in {EMFILE, ENFILE, EBUSY, EAGAIN, ETIMEDOUT} -> 503
      [] err \in {ECONNREFUSED, ECONNRESET, ENETDOWN, ENETUNREACH,
                  EHOSTUNREACH} -> 502
      [] OTHER -> 500

MapXrdErrToHttp(x) ==
    CASE x = "kXR_AuthFailed" -> 403
      [] x = "kXR_NotAuthorized" -> 401
      [] x = "kXR_NotFound" -> 404
      [] x \in {"kXR_Unsupported", "kXR_InvalidRequest"} -> 405
      [] x = "kXR_FileLocked" -> 423
      [] x \in {"kXR_isDirectory", "kXR_ItExists", "kXR_Conflict"} -> 409
      [] x = "kXR_noserver" -> 502
      [] x = "kXR_TimerExpired" -> 504
      [] x \in {"kXR_NoSpace", "kXR_overQuota"} -> 507
      [] OTHER -> 418

\* The HttpStatus values httpStatusToString has a reason phrase for; every
\* other value gets "UNKNOWN".  The enumerators carry the standard codes.
NamedStatuses ==
    {100, 101, 102, 103,
     200, 201, 202, 203, 204, 205, 206, 207, 208, 226,
     300, 301, 302, 303, 304, 305, 307, 308,
     400, 401, 402, 403, 404, 405, 406, 407, 408, 409, 410, 411, 412, 413,
     414, 415, 416, 417, 418, 421, 422, 423, 424, 425, 426, 428, 429, 431,
     451,
     500, 501, 502, 503, 504, 505, 506, 507, 508, 510, 511}

-----------------------------------------------------------------------------
(* Tobase64, itos, mystrchrnul, calcHashes and compareHash                 *)

\* Tobase64(input, length, out): nothing for a null out; out[0] = '\0',
\* and nothing more when BIO_flush fails; else the base64 text OpenSSL's
\* BIO filter wrote, kept as the data it encodes: enc is {} for "" and
\* {d} for the encoding of d.
Tobase64(a) ==
    [written |-> a.out # "null",
     enc |-> IF a.out # "null" /\ a.flush THEN {a.s} ELSE {}]

\* The decimal digits of i >= 0, as sprintf's "%ld" and strftime's "%s"
\* write them.
RECURSIVE Decimal(_)
Decimal(i) ==
    IF i < 10 THEN <<48 + i>> ELSE Decimal(i \div 10) \o <<48 + (i % 10)>>

\* itos(i): sprintf(buf, "%ld", i); 128 bytes hold any long.
Itos(i) == IF i < 0 THEN <<45>> \o Decimal(-i) ELSE Decimal(i)

\* mystrchrnul(s, c): strchr(s, c), or strchr(s, '\0') when that is null;
\* as a 0-based index.
StrChrNul(s, c) ==
    IF c # NUL /\ StrChr(s, c, 0) # -1 THEN StrChr(s, c, 0) ELSE Len(s)

\* A null pointer is the empty set, a string s the set {s}.
Val(p) == CHOOSE s \in p : TRUE

\* What an update with (s, strlen(s) + 1) feeds the MAC: the bytes and NUL.
Field(p) == Val(p) \o <<NUL>>

\* The optional XrdSecEntity fields, in the order calcHashes feeds them.
SecFields == <<"name", "vorg", "host", "moninfo">>

\* The bytes of `request` (kXR_int16, sizeof 2) on a little-endian host.
Le16(r) == <<r % 256, r \div 256>>

\* The message calcHashes MACs: fn, request, each non-null secent field,
\* and the time as "%s".
HashMessage(a) ==
    Field(a.fn) \o Le16(a.request)
      \o FlattenSeq([k \in 1..4 |-> IF a.sec[SecFields[k]] = {} THEN <<>>
                                    ELSE Field(a.sec[SecFields[k]])])
      \o Field({Decimal(a.tim)})

\* calcHashes: nothing for a null hash; "" (hash[0] = '\0') when key, fn or
\* secent is null or the MAC context cannot be made; else base64 of half
\* of HMAC-SHA256(key, message), kept here as the key and the message.
CalcHashes(a, ctxOk) ==
    CASE a.hash = "null" -> [kind |-> "unwritten"]
      [] a.key = {} \/ a.fn = {} \/ ~a.hasSec \/ ~ctxOk -> [kind |-> "empty"]
      [] OTHER -> [kind |-> "mac", key |-> a.key, msg |-> HashMessage(a)]

\* strcmp's sign: bytes compared as unsigned char up to the first NUL.
RECURSIVE StrcmpSign(_, _)
StrcmpSign(s, t) ==
    IF s = <<>> /\ t = <<>> THEN 0
    ELSE IF At(s, 0) # At(t, 0) THEN IF At(s, 0) < At(t, 0) THEN -1 ELSE 1
    ELSE StrcmpSign(Tail(s), Tail(t))

\* compareHash(h1, h2): 0 for the same pointer, 1 when one is null, else
\* strcmp.  A hash is a pointer id (0 for null) and the string there.
CompareHash(h1, h2) ==
    CASE h1.id = h2.id -> 0
      [] h1.id = 0 \/ h2.id = 0 -> 1
      [] OTHER -> StrcmpSign(h1.s, h2.s)

-----------------------------------------------------------------------------
(* Calls                                                                   *)

VARIABLES fn, arg, out

vars == <<fn, arg, out>>

Strings == BoundedSeq(Alphabet, MaxLen)

\* A URL "//host[:port]/path" and the parts it is made of.
Urls == {[url |-> <<Slash, Slash>> \o h
                  \o (IF pt = <<>> THEN <<>> ELSE <<Colon>> \o pt)
                  \o <<Slash>> \o pa,
          host |-> h, port |-> pt, path |-> pa] :
         h \in Hosts, pt \in Ports, pa \in Paths}

Init == fn = "none" /\ arg = <<>> /\ out = <<>>

CallQuote ==
    /\ fn = "none"
    /\ \E s \in Strings :
          fn' = "quote" /\ arg' = s /\ out' = Quote(s)

CallUnquote ==
    /\ fn = "none"
    /\ \E s \in Strings :
          fn' = "unquote" /\ arg' = s /\ out' = Unquote(s)

CallEscapeXML ==
    /\ fn = "none"
    /\ \E s \in Strings :
          fn' = "escapeXML" /\ arg' = s /\ out' = EscapeXML(s)

CallFromhexdigest ==
    /\ fn = "none"
    /\ \E s \in Strings :
          fn' = "Fromhexdigest" /\ arg' = s /\ out' = Fromhexdigest(s)

CallParseURL ==
    /\ fn = "none"
    /\ \E u \in Urls :
          fn' = "parseURL" /\ arg' = u /\ out' = ParseURL(u.url)

CallMapErrNo ==
    /\ fn = "none"
    /\ \E e \in Errnos :
          fn' = "mapErrNoToHttp" /\ arg' = e /\ out' = MapErrNoToHttp(e)

CallMapXrdErr ==
    /\ fn = "none"
    /\ \E x \in XrdErrors :
          fn' = "mapXrdErrToHttp" /\ arg' = x /\ out' = MapXrdErrToHttp(x)

CallTobase64 ==
    /\ fn = "none"
    /\ \E d \in BoundedSeq(Bytes, MaxLen), o \in {"buf", "null"},
          fl \in BOOLEAN :
          LET a == [s |-> d, out |-> o, flush |-> fl] IN
          fn' = "Tobase64" /\ arg' = a /\ out' = Tobase64(a)

CallItos ==
    /\ fn = "none"
    /\ \E i \in Longs : fn' = "itos" /\ arg' = i /\ out' = Itos(i)

CallStrChrNul ==
    /\ fn = "none"
    /\ \E s \in Strings, c \in Alphabet \cup {NUL} :
          fn' = "mystrchrnul" /\ arg' = [s |-> s, c |-> c]
          /\ out' = StrChrNul(s, c)

\* Optional pointers: {} for null, {v} for v.
Opt(S) == {{}} \cup {{v} : v \in S}

\* The XrdSecEntity fields calcHashes reads.
SecEntities == [name : Opt(Fields), vorg : Opt(Fields), host : Opt(Fields),
                moninfo : Opt(Fields)]

\* calcHashes on any inputs; the MAC context allocation may fail.
CallCalcHashes ==
    /\ fn = "none"
    /\ \E a \in [hash : {"buf", "null"}, key : Opt(Keys), fn : Opt(Fields),
                 request : Requests, hasSec : BOOLEAN, sec : SecEntities,
                 tim : Times],
          ctxOk \in BOOLEAN :
          fn' = "calcHashes" /\ arg' = a /\ out' = CalcHashes(a, ctxOk)

CallCompareHash ==
    /\ fn = "none"
    /\ \E h1, h2 \in Hashes :
          fn' = "compareHash" /\ arg' = <<h1, h2>> /\ out' = CompareHash(h1, h2)

\* The call returns; the next one may start.
Return ==
    /\ fn # "none"
    /\ fn' = "none" /\ arg' = <<>> /\ out' = <<>>

Next ==
    \/ Return
    \/ CallQuote \/ CallUnquote \/ CallEscapeXML \/ CallFromhexdigest
    \/ CallParseURL \/ CallMapErrNo \/ CallMapXrdErr
    \/ CallTobase64 \/ CallItos \/ CallStrChrNul \/ CallCalcHashes
    \/ CallCompareHash

Spec == Init /\ [][Next]_vars

-----------------------------------------------------------------------------
(* Properties, against reference definitions                               *)

\* A hex digit's value, by its position in "0123456789abcdef" or
\* "ABCDEF"; -1 for any other byte.
LowerHexDigits == <<48, 49, 50, 51, 52, 53, 54, 55, 56, 57,
                    97, 98, 99, 100, 101, 102>>
UpperHexDigits == <<65, 66, 67, 68, 69, 70>>
HexRef(c) ==
    CASE \E i \in 1..16 : LowerHexDigits[i] = c ->
             CHOOSE v \in 0..15 : LowerHexDigits[v + 1] = c
      [] \E i \in 1..6 : UpperHexDigits[i] = c ->
             CHOOSE v \in 10..15 : UpperHexDigits[v - 9] = c
      [] OTHER -> -1

\* A hex digest decodes iff it has an even number of hex digits; byte k is
\* made of digits 2k-1 and 2k.
HexDecodeRef(s) ==
    IF Len(s) % 2 = 0 /\ \A i \in 1..Len(s) : HexRef(s[i]) >= 0
      THEN [ok |-> TRUE,
            out |-> [k \in 1..(Len(s) \div 2) |->
                        16 * HexRef(s[2 * k - 1]) + HexRef(s[2 * k])]]
      ELSE [ok |-> FALSE, out |-> <<>>]

\* Fromhexdigest accepts exactly the well-formed hex digests, upper or
\* lower case, and decodes them byte for byte; an odd length or a stray
\* byte makes it return false.
FromhexDecodes ==
    fn = "Fromhexdigest" =>
        /\ out.ok = HexDecodeRef(arg).ok
        /\ out.ok => out.out = HexDecodeRef(arg).out

\* A percent-encoded string: every '%' starts a %XX escape of two hex
\* digits that does not encode NUL.
RECURSIVE PctWellFormed(_)
PctWellFormed(s) ==
    IF s = <<>> THEN TRUE
    ELSE IF Head(s) # Percent THEN PctWellFormed(Tail(s))
    ELSE /\ Len(s) >= 3
         /\ HexRef(s[2]) >= 0 /\ HexRef(s[3]) >= 0
         /\ 16 * HexRef(s[2]) + HexRef(s[3]) # 0
         /\ PctWellFormed(SubSeq(s, 4, Len(s)))

\* Percent-decoding of a well-formed string.
RECURSIVE PctDecodeRef(_)
PctDecodeRef(s) ==
    IF s = <<>> THEN <<>>
    ELSE IF Head(s) # Percent THEN <<Head(s)>> \o PctDecodeRef(Tail(s))
    ELSE <<16 * HexRef(s[2]) + HexRef(s[3])>> \o PctDecodeRef(SubSeq(s, 4, Len(s)))

\* unquote decodes every well-formed percent-encoded string: each %XX
\* becomes the byte it names and every other byte is kept, in order.
UnquoteDecodes ==
    fn = "unquote" /\ PctWellFormed(arg) => out = PctDecodeRef(arg)

\* Decoding the XML entities escapeXML writes.
RECURSIVE UnescapeXMLRef(_)
UnescapeXMLRef(t) ==
    IF t = <<>> THEN <<>>
    ELSE IF \E c \in DOMAIN XmlEntity : IsPrefix(XmlEntity[c], t)
      THEN LET c == CHOOSE c \in DOMAIN XmlEntity : IsPrefix(XmlEntity[c], t)
           IN <<c>> \o UnescapeXMLRef(SubSeq(t, Len(XmlEntity[c]) + 1, Len(t)))
      ELSE <<Head(t)>> \o UnescapeXMLRef(Tail(t))

\* escapeXML's result holds no raw '"', '<', '>' or '\'', decodes back to
\* the argument, and fits the l*6+1 bytes malloc gives it.
EscapeXMLSound ==
    fn = "escapeXML" =>
        /\ \A i \in 1..Len(out) : out[i] \notin {34, 39, 60, 62}
        /\ UnescapeXMLRef(out) = arg
        /\ Len(out) + 1 <= Len(arg) * 6 + 1

\* The authority "host[:port]" of a URL of Urls.
Authority(u) == IF u.port = <<>> THEN u.host ELSE u.host \o <<Colon>> \o u.port

\* parseURL splits "//host[:port]/path" into host, decimal port (0 when
\* absent) and the path from its '/', whenever the authority fits in buf
\* with its NUL.
ParseURLSound ==
    fn = "parseURL" /\ Len(Authority(arg)) < BufSize =>
        /\ out.ret = 0
        /\ out.host = arg.host
        /\ out.port = FoldLeft(LAMBDA acc, d : acc * 10 + d - 48, 0, arg.port)
        /\ out.path = <<Slash>> \o arg.path

\* unquote and parseURL read and write only inside their buffers: unquote
\* inside its argument's allocation (the bytes and the NUL), although a
\* '%' among the last two bytes makes it save, clear and restore str[i+3];
\* parseURL inside buf, although `buf[l] = '\0'` has l up to sizeof(buf).
BuffersInBounds ==
    /\ fn = "unquote" => UnquoteFrom(arg, 0).reach <= Len(arg)
    /\ fn = "parseURL" => out.bufEnd < BufSize

\* unquote undoes quote exactly on the strings without '%': quote writes
\* every escape as "%XX" but leaves a '%' of its argument as it is, so
\* unquote then decodes that '%' and the bytes after it.
QuoteUnquoteInverse ==
    fn = "quote" =>
        (Unquote(out) = arg <=> \A i \in 1..Len(arg) : arg[i] # Percent)

\* Every status the errno and XErrorCode mappings produce is an HttpStatus
\* that httpStatusToString names, so no response goes out as "UNKNOWN".
ErrorStatusNamed ==
    fn \in {"mapErrNoToHttp", "mapXrdErrToHttp"} => out \in NamedStatuses

=============================================================================
