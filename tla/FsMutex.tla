------------------------------ MODULE FsMutex -------------------------------
(***************************************************************************)
(* The pid-file mutex of include/baulk/fsmutex.hpp, as the commands of     *)
(* baulk use it: MakeFsMutex at their start, ~FsMutex at their end.        *)
(*                                                                         *)
(* A process is known by its pid.  One step of the model is one call the   *)
(* code makes to the operating system, so that the calls of several        *)
(* processes interleave.  The file system is the part of Windows the code  *)
(* relies on: the path of the pid file leads to a file object or to        *)
(* nothing; a handle refers to the object, not to the path; CreateFileW    *)
(* and DeleteFileW are refused when the share modes of the handles open on *)
(* the object forbid them; the handles of a dead process are closed.       *)
(***************************************************************************)
CONSTANTS
  Procs,     \* pids that processes may get
  Objs,      \* identities of file objects
  NoObj,     \* no file object
  NoPid      \* the text of a pid file that holds no pid

ASSUME ConstantsAssumption ==
  /\ NoObj \notin Objs
  /\ NoPid \notin Procs

VARIABLES
  pc,        \* what each process is about to do
  path,      \* the object the path of the pid file leads to, or NoObj
  text,      \* the text of each object: a pid, or NoPid when it is empty
  rh,        \* the handle ReadLine has open
  wh,        \* FsMutex::FileHandle
  line,      \* the line ReadLine returned
  cmd        \* "update", then "upgrade": the two halves of `baulk u`;
             \* "single": any other command

vars == <<pc, path, text, rh, wh, line, cmd>>

Labels == {"off", "killed", "foreign", "read", "reading", "check", "create",
           "write", "held", "unlink", "undo", "refused", "failed", "done"}

TypeOK ==
  /\ pc \in [Procs -> Labels]
  /\ path \in Objs \union {NoObj}
  /\ text \in [Objs -> Procs \union {NoPid}]
  /\ rh \in [Procs -> Objs \union {NoObj}]
  /\ wh \in [Procs -> Objs \union {NoObj}]
  /\ line \in [Procs -> Procs \union {NoPid}]
  /\ cmd \in [Procs -> {"single", "update", "upgrade"}]

Init ==
  /\ pc = [p \in Procs |-> "off"]
  /\ path = NoObj
  /\ text = [o \in Objs |-> NoPid]
  /\ rh = [p \in Procs |-> NoObj]
  /\ wh = [p \in Procs |-> NoObj]
  /\ line = [p \in Procs |-> NoPid]
  /\ cmd = [p \in Procs |-> "single"]
-----------------------------------------------------------------------------
(***************************************************************************)
(* The file system.                                                        *)
(***************************************************************************)
\* Slip: the pid file is opened with FILE_SHARE_WRITE too.
WriteShared == FALSE

\* Some handle is open for writing on the object at the path.  MakeFsMutex
\* opens it with share mode FILE_SHARE_READ, so a second such CreateFileW is
\* refused; a reader (bela::io::ReadLine) shares reading and writing.
WriteLocked == \E q \in Procs : wh[q] # NoObj /\ wh[q] = path

\* DeleteFileW is refused while any handle without FILE_SHARE_DELETE is open
\* on the object: neither MakeFsMutex nor ReadLine passes that flag.
DeleteLocked == \E q \in Procs : path \in {wh[q], rh[q]}

\* Slip: the pid file is opened with FILE_SHARE_DELETE.
DeleteShared == path' = IF \E q \in Procs : path = rh[q] THEN path ELSE NoObj

\* DeleteFileW, whose result the code never looks at.
DeleteFile == path' = IF DeleteLocked THEN path ELSE NoObj

Unused(o) == o # path /\ \A q \in Procs : o \notin {wh[q], rh[q]}

\* OpenProcess and GetExitCodeProcess find the process.
Alive(p) == pc[p] \notin {"off", "killed"}
-----------------------------------------------------------------------------
(***************************************************************************)
(* A command.                                                              *)
(***************************************************************************)
\* wmain runs a command that takes the mutex; cmd_uu runs two in a row.
Launch(p) ==
  /\ ~Alive(p)
  /\ pc' = [pc EXCEPT ![p] = "read"]
  /\ \E c \in {"single", "update"} : cmd' = [cmd EXCEPT ![p] = c]
  /\ UNCHANGED <<path, text, rh, wh, line>>

\* ReadLine opens the pid file; without a file MakeFsMutex goes on to create it.
OpenPidFile(p) ==
  /\ pc[p] = "read"
  /\ rh' = [rh EXCEPT ![p] = path]
  /\ pc' = [pc EXCEPT ![p] = IF path = NoObj THEN "create" ELSE "reading"]
  /\ UNCHANGED <<path, text, wh, line, cmd>>

\* ReadLine reads the line and closes the file; SimpleAtoi rejects an empty one.
ReadPid(p) ==
  /\ pc[p] = "reading"
  /\ line' = [line EXCEPT ![p] = text[rh[p]]]
  /\ rh' = [rh EXCEPT ![p] = NoObj]
  /\ pc' = [pc EXCEPT ![p] = IF line'[p] = NoPid THEN "create" ELSE "check"]
  /\ UNCHANGED <<path, text, wh, cmd>>

\* MakeFsMutex returns nothing ("is running. pid=", or an error of CreateFileW
\* or WriteFile); the command, and cmd_uu with it, returns 1.
Refuse(p) == pc' = [pc EXCEPT ![p] = "refused"]

\* Slip: the pid of the file is trusted, the process is not looked for.
CheckPidTrusted(p) ==
  /\ pc[p] = "check"
  /\ Refuse(p)
  /\ UNCHANGED <<path, text, rh, wh, line, cmd>>

\* process_is_running on the pid read.  OpenProcess may also be denied for a
\* live process (of another user, or elevated), never for the caller itself; then
\* it counts as not running.
CheckPid(p) ==
  /\ pc[p] = "check"
  /\ \/ Alive(line[p]) /\ Refuse(p)
     \/ line[p] # p /\ pc' = [pc EXCEPT ![p] = "create"]
  /\ UNCHANGED <<path, text, rh, wh, line, cmd>>

\* CreateFileW(..., FILE_SHARE_READ, CREATE_ALWAYS): a new object, or the one
\* at the path made empty.  It may also fail for a reason that is no lock: the
\* directory is gone or read-only, access is denied, the disk is full.
CreatePidFile(p) ==
  /\ pc[p] = "create"
  /\ \/ /\ WriteLocked
        /\ Refuse(p)
        /\ UNCHANGED <<path, text, wh>>
     \/ /\ pc' = [pc EXCEPT ![p] = "failed"]
        /\ UNCHANGED <<path, text, wh>>
     \/ /\ ~WriteLocked
        /\ \E o \in Objs :
             /\ IF path = NoObj THEN Unused(o) ELSE o = path
             /\ path' = o
             /\ text' = [text EXCEPT ![o] = NoPid]
             /\ wh' = [wh EXCEPT ![p] = o]
        /\ pc' = [pc EXCEPT ![p] = "write"]
  /\ UNCHANGED <<rh, line, cmd>>

\* WriteFile of the pid.  When it fails the handle is closed and the file
\* deleted, in two calls.
WritePid(p) ==
  /\ pc[p] = "write"
  /\ \/ /\ text' = [text EXCEPT ![wh[p]] = p]
        /\ pc' = [pc EXCEPT ![p] = "held"]
        /\ UNCHANGED wh
     \/ /\ wh' = [wh EXCEPT ![p] = NoObj]
        /\ pc' = [pc EXCEPT ![p] = "undo"]
        /\ UNCHANGED text
  /\ UNCHANGED <<path, rh, line, cmd>>

UndoDelete(p) ==
  /\ pc[p] = "undo"
  /\ DeleteFile
  /\ Refuse(p)
  /\ UNCHANGED <<text, rh, wh, line, cmd>>

\* Slip: the closed handle is set to a null that is not INVALID_HANDLE_VALUE.
FreeCloseNull(p) ==
  /\ pc[p] = "held"
  /\ wh' = [wh EXCEPT ![p] = NoPid]
  /\ pc' = [pc EXCEPT ![p] = "unlink"]
  /\ UNCHANGED <<path, text, rh, line, cmd>>

\* ~FsMutex closes the handle first ...
FreeClose(p) ==
  /\ pc[p] = "held"
  /\ wh' = [wh EXCEPT ![p] = NoObj]
  /\ pc' = [pc EXCEPT ![p] = "unlink"]
  /\ UNCHANGED <<path, text, rh, line, cmd>>

\* ... and then deletes the file by its path.  cmd_uu goes on to cmd_upgrade,
\* any other command returns.
FreeDelete(p) ==
  /\ pc[p] = "unlink"
  /\ DeleteFile
  /\ IF cmd[p] = "update"
       THEN /\ cmd' = [cmd EXCEPT ![p] = "upgrade"]
            /\ pc' = [pc EXCEPT ![p] = "read"]
       ELSE /\ pc' = [pc EXCEPT ![p] = "done"]
            /\ UNCHANGED cmd
  /\ line' = [line EXCEPT ![p] = NoPid]
  /\ UNCHANGED <<text, rh, wh>>

\* The process is no more, nor is its memory.
Gone(p, end) ==
  /\ pc' = [pc EXCEPT ![p] = end]
  /\ line' = [line EXCEPT ![p] = NoPid]
  /\ cmd' = [cmd EXCEPT ![p] = "single"]

\* wmain returns and the process ends.
Exit(p) ==
  /\ pc[p] \in {"refused", "failed", "done"}
  /\ Gone(p, "off")
  /\ UNCHANGED <<path, text, rh, wh>>
-----------------------------------------------------------------------------
(***************************************************************************)
(* The environment.                                                        *)
(***************************************************************************)
\* The process is killed; Windows closes its handles and the file stays.
Crash(p) ==
  /\ Alive(p) /\ pc[p] # "foreign"
  /\ Gone(p, "killed")
  /\ rh' = [rh EXCEPT ![p] = NoObj]
  /\ wh' = [wh EXCEPT ![p] = NoObj]
  /\ UNCHANGED <<path, text>>

\* Another program is given a free pid, or ends.
Foreign(p) ==
  /\ \/ ~Alive(p) /\ pc' = [pc EXCEPT ![p] = "foreign"]
     \/ pc[p] = "foreign" /\ pc' = [pc EXCEPT ![p] = "off"]
  /\ UNCHANGED <<path, text, rh, wh, line, cmd>>

\* baulk cleancache, which takes no mutex, deletes the files of the temp
\* directory, where the pid file is.
CleanCache ==
  /\ DeleteFile
  /\ UNCHANGED <<pc, text, rh, wh, line, cmd>>

Command(p) ==
  \/ OpenPidFile(p) \/ ReadPid(p) \/ CheckPid(p) \/ CreatePidFile(p)
  \/ WritePid(p) \/ UndoDelete(p) \/ FreeClose(p) \/ FreeDelete(p)
  \/ Exit(p)

Next ==
  \/ CleanCache
  \/ \E p \in Procs : Launch(p) \/ Command(p) \/ Crash(p) \/ Foreign(p)

Spec == Init /\ [][Next]_vars

\* Windows keeps scheduling a running process.
FairSpec == Spec /\ \A p \in Procs : WF_vars(Command(p))
-----------------------------------------------------------------------------
(***************************************************************************)
(* Properties.                                                             *)
(***************************************************************************)
\* Two processes are never both between a successful MakeFsMutex and the
\* CloseHandle of ~FsMutex, whatever crashes, late deletions and cache
\* cleaning happen around them (fsmutex.hpp, MakeFsMutex and Free).
MutualExclusion ==
  \A p, q \in Procs : pc[p] = "held" /\ pc[q] = "held" => p = q

\* While a process holds the mutex the path leads to the very file it has open
\* and that file carries its pid: the DeleteFileW a former holder issues after
\* its CloseHandle, or a cache cleaning, never takes the new holder's file away
\* (fsmutex.hpp, Free closes before it deletes by path).
PidFileNamesHolder ==
  \A p \in Procs : pc[p] = "held" => path = wh[p] /\ text[path] = p

\* MakeFsMutex turns a process away only when another process is alive at that
\* moment, when the pid file names the process itself, or when the file system
\* fails ("failed", "undo"): a file left behind by a dead process never keeps
\* anyone out (process_is_running in MakeFsMutex).
RefusedOnlyByLive ==
  [][\A p \in Procs :
       pc[p] \in {"check", "create"} /\ pc'[p] = "refused" =>
         line[p] = p \/ \E q \in Procs \ {p} : Alive(q)]_vars

\* The pid file of a crashed process is recovered from: a command that starts
\* when no other process is left gets the mutex, unless another process shows
\* up, it is killed, or CreateFileW or WriteFile fails (MakeFsMutex overwrites a
\* stale file).
Alone(p) == \A q \in Procs \ {p} : ~Alive(q)

StaleLockRecovered ==
  \A p \in Procs :
    pc[p] = "read" /\ Alone(p) /\ (path = NoObj \/ text[path] # p)
      ~> pc[p] \in {"held", "undo", "failed", "killed"} \/ ~Alone(p)

\* The mutex implements the abstract lock: the holders are the processes whose
\* FsMutex has the file open for writing.
Lock == INSTANCE FsLock WITH holders <- {p \in Procs : wh[p] # NoObj}

ImplementsLock == Lock!LockSpec
=============================================================================
