------------------------------- MODULE OfsPlugin -------------------------------
(***************************************************************************)
(* The OFS plugin of src/src/XrdOfsPlugin: MyXrdOfsPlugin, the file system *)
(* the server loads through XrdSfsGetFileSystem2, forwards every call to   *)
(* the native file system m_next_sfs; newFile(user, monid) wraps the       *)
(* native file in a FileWrapper, which forwards every call to m_wrapped    *)
(* and retries open until open_verify accepts it.                          *)
(*                                                                         *)
(* The native file system and the server are the environment: the native  *)
(* layer answers each call with any result it may give, and the server    *)
(* creates, opens, uses, closes and deletes file objects in the order the *)
(* SFS interface allows, deleting a file with or without closing it (a    *)
(* client that disconnects).  Logging is left out.                         *)
(***************************************************************************)
EXTENDS FiniteSets

CONSTANTS
    Files,     \* the native file objects m_next_sfs->newFile may return
    ErrTexts   \* what a native call may leave in its XrdOucErrInfo

NoErr == "none"     \* an XrdOucErrInfo nobody has written
NoFile == "none"    \* obs.h of a file-system call

\* SFS_OK, SFS_ERROR and SFS_REDIRECT, the results the calls pass back.
Rcs == {"OK", "ERROR", "REDIRECT"}

\* The forwarded MyXrdOfsPlugin methods (overloads named apart).
FsOps == {"newDir", "newDirEinfo", "chksum", "chmod", "Connect", "Disc",
          "EnvInfo", "exists", "FAttr", "FSctl", "fsctl", "getChkPSize",
          "getStats", "gpFile", "mkdir", "prepare", "rem", "remdir",
          "rename", "statBuf", "statMode", "truncate"}

\* The forwarded FileWrapper methods other than open and close.
FileOps == {"checkpoint", "fctl", "FName", "getMmap", "pgRead", "pgReadAio",
            "pgWrite", "pgWriteAio", "readPre", "read", "readAio", "write",
            "writeAio", "sync", "syncAio", "stat", "truncate", "getCXinfo",
            "SendData"}

VARIABLES
    ofs,      \* the global `ofs`: TRUE once XrdSfsGetFileSystem2 ran
    natSt,    \* each native file: "free" (not handed out yet), "alloc",
              \* "open", "closed" or "deleted"
    natErr,   \* the text in each native file's XrdOucErrInfo
    hKind,    \* what the server holds for native file n: "none", "wrapper"
              \* (a FileWrapper around n) or "raw" (n itself)
    hSt,      \* the server's use of that object: "none", "new", "opening",
              \* "opened", "failed", "closed" or "deleted"
    obs       \* the last call the server made: on which file (h), which
              \* method (op), what reached the native layer (sent), what
              \* it returned (nrc), what the server got back (rc) and the
              \* error text the server then reads from the object (err)

vars == <<ofs, natSt, natErr, hKind, hSt, obs>>

Init ==
    /\ ofs = FALSE
    /\ natSt = [n \in Files |-> "free"]
    /\ natErr = [n \in Files |-> NoErr]
    /\ hKind = [n \in Files |-> "none"]
    /\ hSt = [n \in Files |-> "none"]
    /\ obs = [h |-> NoFile, op |-> "none", sent |-> "none",
              nrc |-> "none", rc |-> "none", err |-> NoErr]

Obs(n, op, sent, nrc, rc, err) ==
    [h |-> n, op |-> op, sent |-> sent, nrc |-> nrc, rc |-> rc, err |-> err]

-----------------------------------------------------------------------------
(* The plugin's translation of each call.                                  *)

\* Each MyXrdOfsPlugin method calls the native method of the same name
\* with the same arguments.
FsTarget(op) == op

\* Each FileWrapper method calls m_wrapped's method of the same name.
FileTarget(op) == op

\* The error object the server reads from the file it holds: a FileWrapper
\* is built with XrdSfsFile(wrapF->error), so its `error` is the wrapped
\* file's.
ErrInfo(n, errs) == errs[n]

\* The error text the server reads from the object it holds for n.
ErrSeen(n, errs) == IF hKind[n] = "wrapper" THEN ErrInfo(n, errs) ELSE errs[n]

\* open_verify returns true before reaching the code that records the
\* failed host.
OpenVerify == TRUE

-----------------------------------------------------------------------------
(* The native layer's answers.                                             *)

\* What a call on native file n may return: an unopened file fails.
NatRcs(n) == IF natSt[n] = "open" THEN {"OK", "ERROR"} ELSE {"ERROR"}

\* A failing native call may leave any text in the file's error object.
SetErr(n, rc) ==
    IF rc = "OK" THEN UNCHANGED natErr
    ELSE \E e \in ErrTexts : natErr' = [natErr EXCEPT ![n] = e]

-----------------------------------------------------------------------------
(* Actions                                                                 *)

\* XrdSfsGetFileSystem2: ofs = new MyXrdOfsPlugin(nativeFS, ...).
Load ==
    /\ ~ofs
    /\ ofs' = TRUE
    /\ UNCHANGED <<natSt, natErr, hKind, hSt, obs>>

\* A MyXrdOfsPlugin method other than newFile and getVersion.
FsCall(op) ==
    /\ ofs
    /\ \E rc \in Rcs : obs' = Obs(NoFile, op, FsTarget(op), rc, rc, NoErr)
    /\ UNCHANGED <<ofs, natSt, natErr, hKind, hSt>>

\* getVersion answers XrdVERSION itself.
GetVersion ==
    /\ ofs
    /\ obs' = Obs(NoFile, "getVersion", "none", "none", "XrdVERSION", NoErr)
    /\ UNCHANGED <<ofs, natSt, natErr, hKind, hSt>>

\* newFile(user, monid) (kind "wrapper") and newFile(einfo) (kind "raw"):
\* the native newFile returns null, passed back as is, or a new file,
\* which the first overload wraps in a FileWrapper and the second returns.
NewFile(kind) ==
    /\ ofs
    /\ LET op == IF kind = "wrapper" THEN "newFile" ELSE "newFileEinfo" IN
       \/ /\ obs' = Obs(NoFile, op, op, "null", "null", NoErr)
          /\ UNCHANGED <<natSt, hKind, hSt>>
       \/ \E n \in Files :
             /\ natSt[n] = "free"
             /\ natSt' = [natSt EXCEPT ![n] = "alloc"]
             /\ hKind' = [hKind EXCEPT ![n] = kind]
             /\ hSt' = [hSt EXCEPT ![n] = "new"]
             /\ obs' = Obs(NoFile, op, op, "file", "file", NoErr)
    /\ UNCHANGED <<ofs, natErr>>

\* The server calls open on a file it got from newFile.
StartOpen(n) ==
    /\ hSt[n] = "new"
    /\ hSt' = [hSt EXCEPT ![n] = "opening"]
    /\ UNCHANGED <<ofs, natSt, natErr, hKind, obs>>

\* One pass of FileWrapper::open's `while (!verified)` loop: the wrapped
\* file's open (which fails on a file already open), then open_verify;
\* once verified, open returns the last rc.  A raw native file opens once.
OpenIter(n) ==
    /\ hSt[n] = "opening"
    /\ \E rc \in (IF natSt[n] = "open" THEN {"ERROR"} ELSE Rcs) :
          /\ natSt' = [natSt EXCEPT ![n] = IF rc = "OK" THEN "open" ELSE @]
          /\ SetErr(n, rc)
          /\ IF hKind[n] = "raw" \/ OpenVerify
               THEN /\ hSt' = [hSt EXCEPT ![n] = IF rc = "OK" THEN "opened"
                                                            ELSE "failed"]
                    /\ obs' = Obs(n, "open", "open", rc, rc,
                                  ErrSeen(n, natErr'))
               ELSE UNCHANGED <<hSt, obs>>
    /\ UNCHANGED <<ofs, hKind>>

\* A forwarded file method on an opened file.
FileCall(n, op) ==
    /\ hSt[n] = "opened"
    /\ \E rc \in NatRcs(n) :
          /\ SetErr(n, rc)
          /\ obs' = Obs(n, op, IF hKind[n] = "wrapper" THEN FileTarget(op)
                                                      ELSE op,
                        rc, rc, ErrSeen(n, natErr'))
    /\ UNCHANGED <<ofs, natSt, hKind, hSt>>

\* close: m_wrapped->close(); the native file is closed whatever it returns.
Close(n) ==
    /\ hSt[n] = "opened"
    /\ \E rc \in NatRcs(n) :
          /\ SetErr(n, rc)
          /\ obs' = Obs(n, "close", "close", rc, rc, ErrSeen(n, natErr'))
    /\ natSt' = [natSt EXCEPT ![n] = "closed"]
    /\ hSt' = [hSt EXCEPT ![n] = "closed"]
    /\ UNCHANGED <<ofs, hKind>>

\* The server deletes the file object, closed or not.  ~FileWrapper only
\* logs: m_wrapped is left as it is.  A raw native file is destroyed (its
\* destructor closes it).
Delete(n) ==
    /\ hSt[n] \in {"new", "opened", "failed", "closed"}
    /\ hSt' = [hSt EXCEPT ![n] = "deleted"]
    /\ natSt' = IF hKind[n] = "raw" THEN [natSt EXCEPT ![n] = "deleted"]
                                    ELSE natSt
    /\ UNCHANGED <<ofs, natErr, hKind, obs>>

Next ==
    \/ Load \/ GetVersion
    \/ \E op \in FsOps : FsCall(op)
    \/ \E kind \in {"wrapper", "raw"} : NewFile(kind)
    \/ \E n \in Files :
          \/ StartOpen(n) \/ OpenIter(n) \/ Close(n) \/ Delete(n)
          \/ \E op \in FileOps : FileCall(n, op)

Spec == Init /\ [][Next]_vars

-----------------------------------------------------------------------------
(* Properties                                                              *)

\* Deleting the object the server holds releases the native file behind
\* it: once a FileWrapper is deleted, so is m_wrapped (closed, and its
\* resources given back).
WrapperReleasesNative ==
    \A n \in Files : hSt[n] = "deleted" => natSt[n] = "deleted"

=============================================================================
