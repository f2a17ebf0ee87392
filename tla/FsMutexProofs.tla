--------------------------- MODULE FsMutexProofs ----------------------------
(***************************************************************************)
(* What FsMutex guarantees for any number of processes.  Every property    *)
(* follows from one inductive invariant: all open handles are on the       *)
(* object the path leads to.  It is what the missing FILE_SHARE_DELETE     *)
(* flags buy, and what makes the share mode of that one object a lock.     *)
(***************************************************************************)
EXTENDS FsMutex, TLAPS

\* The handles agree with the program counters ...
HandlesOfLabels ==
  \A p \in Procs :
    /\ wh[p] # NoObj <=> pc[p] \in {"write", "held"}
    /\ rh[p] # NoObj <=> pc[p] = "reading"
    /\ pc[p] = "check" => line[p] \in Procs

\* ... they are all open on the object at the path ...
HandlesAtPath ==
  \A p \in Procs :
    /\ wh[p] # NoObj => wh[p] = path
    /\ rh[p] # NoObj => rh[p] = path

\* ... and at most one of them is for writing.
OneWriter ==
  \A p, q \in Procs : wh[p] # NoObj /\ wh[q] # NoObj => p = q

HolderWrotePid ==
  \A p \in Procs : pc[p] = "held" => text[wh[p]] = p

IndInv ==
  /\ TypeOK
  /\ HandlesOfLabels
  /\ HandlesAtPath
  /\ OneWriter
  /\ HolderWrotePid
-----------------------------------------------------------------------------
\* Initially no process runs and no file exists.
LEMMA InitIndInv == Init => IndInv
BY ConstantsAssumption
   DEF Init, IndInv, TypeOK, Labels, HandlesOfLabels, HandlesAtPath, OneWriter,
       HolderWrotePid

\* DeleteFileW leaves every open handle on the object at the path: it is
\* refused unless no handle is open there.
LEMMA DeleteKeepsHandles ==
  ASSUME IndInv, DeleteFile, UNCHANGED <<wh, rh>>
  PROVE  HandlesAtPath' /\ path' \in Objs \union {NoObj}
BY DEF IndInv, TypeOK, DeleteFile, DeleteLocked, HandlesAtPath

\* Every step of a command, of the cache cleaner or of Windows preserves the
\* inductive invariant.
LEMMA StepIndInv == IndInv /\ [Next]_vars => IndInv'
<1> SUFFICES ASSUME IndInv, [Next]_vars PROVE IndInv'
  OBVIOUS
<1> USE ConstantsAssumption DEF IndInv, TypeOK, Labels
<1>1. CASE UNCHANGED vars
  BY <1>1 DEF vars, HandlesOfLabels, HandlesAtPath, OneWriter, HolderWrotePid
<1>2. CASE CleanCache
  BY <1>2, DeleteKeepsHandles
     DEF CleanCache, HandlesOfLabels, OneWriter, HolderWrotePid
<1>3. ASSUME NEW p \in Procs, Launch(p) PROVE IndInv'
  BY <1>3 DEF Launch, Alive, HandlesOfLabels, HandlesAtPath, OneWriter,
              HolderWrotePid
<1>4. ASSUME NEW p \in Procs, OpenPidFile(p) PROVE IndInv'
  BY <1>4 DEF OpenPidFile, HandlesOfLabels, HandlesAtPath, OneWriter,
              HolderWrotePid
<1>5. ASSUME NEW p \in Procs, ReadPid(p) PROVE IndInv'
  BY <1>5 DEF ReadPid, HandlesOfLabels, HandlesAtPath, OneWriter, HolderWrotePid
<1>6. ASSUME NEW p \in Procs, CheckPid(p) PROVE IndInv'
  BY <1>6 DEF CheckPid, Refuse, HandlesOfLabels, HandlesAtPath, OneWriter,
              HolderWrotePid
<1>7. ASSUME NEW p \in Procs, CreatePidFile(p) PROVE IndInv'
  <2>1. CASE pc'[p] # "write"
    BY <1>7, <2>1 DEF CreatePidFile, Refuse, HandlesOfLabels, HandlesAtPath,
                      OneWriter, HolderWrotePid
  <2>2. CASE pc'[p] = "write"
    <3>1. \A q \in Procs : wh[q] = NoObj
      BY <1>7, <2>2 DEF CreatePidFile, Refuse, WriteLocked, HandlesAtPath
    <3>2. PICK o \in Objs :
            /\ IF path = NoObj THEN Unused(o) ELSE o = path
            /\ path' = o
            /\ text' = [text EXCEPT ![o] = NoPid]
            /\ wh' = [wh EXCEPT ![p] = o]
      BY <1>7, <2>2 DEF CreatePidFile, Refuse
    <3>3. /\ pc[p] = "create"
          /\ pc' = [pc EXCEPT ![p] = "write"]
          /\ UNCHANGED <<rh, line, cmd>>
      BY <1>7, <2>2 DEF CreatePidFile, Refuse
    <3>4. TypeOK' /\ HandlesOfLabels'
      BY <3>2, <3>3 DEF HandlesOfLabels
    <3>5. HandlesAtPath'
      BY <3>1, <3>2, <3>3 DEF HandlesAtPath
    <3>6. OneWriter' /\ HolderWrotePid'
      BY <3>1, <3>2, <3>3 DEF OneWriter, HolderWrotePid, HandlesOfLabels
    <3> QED BY <3>4, <3>5, <3>6
  <2> QED BY <2>1, <2>2
<1>8. ASSUME NEW p \in Procs, WritePid(p) PROVE IndInv'
  BY <1>8 DEF WritePid, HandlesOfLabels, HandlesAtPath, OneWriter,
              HolderWrotePid
<1>9. ASSUME NEW p \in Procs, UndoDelete(p) PROVE IndInv'
  BY <1>9, DeleteKeepsHandles
     DEF UndoDelete, Refuse, HandlesOfLabels, OneWriter, HolderWrotePid
<1>10. ASSUME NEW p \in Procs, FreeClose(p) PROVE IndInv'
  BY <1>10 DEF FreeClose, HandlesOfLabels, HandlesAtPath, OneWriter,
               HolderWrotePid
<1>11. ASSUME NEW p \in Procs, FreeDelete(p) PROVE IndInv'
  BY <1>11, DeleteKeepsHandles
     DEF FreeDelete, HandlesOfLabels, OneWriter, HolderWrotePid
<1>12. ASSUME NEW p \in Procs, Exit(p) PROVE IndInv'
  BY <1>12 DEF Exit, Gone, HandlesOfLabels, HandlesAtPath, OneWriter,
               HolderWrotePid
<1>13. ASSUME NEW p \in Procs, Crash(p) PROVE IndInv'
  BY <1>13 DEF Crash, Gone, Alive, HandlesOfLabels, HandlesAtPath, OneWriter,
               HolderWrotePid
<1>14. ASSUME NEW p \in Procs, Foreign(p) PROVE IndInv'
  BY <1>14 DEF Foreign, Alive, HandlesOfLabels, HandlesAtPath, OneWriter,
               HolderWrotePid
<1> QED
  BY <1>1, <1>2, <1>3, <1>4, <1>5, <1>6, <1>7, <1>8, <1>9, <1>10, <1>11,
     <1>12, <1>13, <1>14 DEF Next, Command

\* The inductive invariant holds throughout.
LEMMA AlwaysIndInv == Spec => []IndInv
BY InitIndInv, StepIndInv, PTL DEF Spec
-----------------------------------------------------------------------------
\* The variables keep their types.
THEOREM TypeCorrect == Spec => []TypeOK
<1>1. IndInv => TypeOK
  BY DEF IndInv
<1> QED BY <1>1, AlwaysIndInv, PTL

\* At most one process holds the mutex (MakeFsMutex, FsMutex::Free).
THEOREM Exclusion == Spec => []MutualExclusion
<1>1. IndInv => MutualExclusion
  BY DEF IndInv, HandlesOfLabels, OneWriter, MutualExclusion
<1> QED BY <1>1, AlwaysIndInv, PTL

\* The pid file at the path is the holder's own and carries its pid, so a late
\* DeleteFileW has not removed it (FsMutex::Free).
THEOREM HolderKeepsFile == Spec => []PidFileNamesHolder
<1>1. IndInv => PidFileNamesHolder
  BY DEF IndInv, HandlesOfLabels, HandlesAtPath, HolderWrotePid,
         PidFileNamesHolder
<1> QED BY <1>1, AlwaysIndInv, PTL

\* A process is turned away only by another live process, or by a file that
\* names itself (MakeFsMutex, process_is_running).
THEOREM RefusalJustified == Spec => RefusedOnlyByLive
<1> DEFINE Justified ==
      \A p \in Procs :
        pc[p] \in {"check", "create"} /\ pc'[p] = "refused" =>
          line[p] = p \/ \E q \in Procs \ {p} : Alive(q)
<1>1. IndInv /\ [Next]_vars => [Justified]_vars
  <2> SUFFICES ASSUME IndInv, Next, NEW p \in Procs,
                      pc[p] \in {"check", "create"}, pc'[p] = "refused"
               PROVE  line[p] = p \/ \E q \in Procs \ {p} : Alive(q)
    OBVIOUS
  <2>1. \/ CheckPid(p) /\ Alive(line[p])
        \/ CreatePidFile(p) /\ WriteLocked
    BY DEF IndInv, TypeOK, Next, Command, CleanCache, Launch, OpenPidFile, ReadPid,
           CheckPid, CreatePidFile, WritePid, UndoDelete, FreeClose, FreeDelete,
           Exit, Gone, Crash, Foreign, Refuse
  <2>2. CASE CheckPid(p) /\ Alive(line[p])
    BY <2>2 DEF CheckPid, IndInv, HandlesOfLabels
  <2>3. CASE CreatePidFile(p) /\ WriteLocked
    BY <2>3 DEF CreatePidFile, WriteLocked, IndInv, HandlesOfLabels, Alive
  <2> QED BY <2>1, <2>2, <2>3
<1> QED BY <1>1, AlwaysIndInv, PTL DEF Spec, RefusedOnlyByLive

\* The pid file implements the abstract lock: every step leaves the set of
\* writers as it is, adds the first or removes the only one (MakeFsMutex,
\* FsMutex::Free, and the closing of the handles of a dead process).
THEOREM Refinement == Spec => ImplementsLock
<1> DEFINE holders == {p \in Procs : wh[p] # NoObj}
<1>1. Init => Lock!LockInit
  BY DEF Init, Lock!LockInit
<1>2. IndInv /\ [Next]_vars => [Lock!LockNext]_holders
  <2> SUFFICES ASSUME IndInv, Next, holders' # holders PROVE Lock!LockNext
    BY DEF vars
  <2>1. PICK p \in Procs :
          CreatePidFile(p) \/ WritePid(p) \/ FreeClose(p) \/ Crash(p)
    BY DEF Next, Command, CleanCache, Launch, OpenPidFile, ReadPid, CheckPid,
           UndoDelete, FreeDelete, Exit, Foreign
  <2>2. CASE CreatePidFile(p)
    <3>1. ~WriteLocked
      BY <2>2 DEF CreatePidFile
    <3>2. holders = {}
      BY <3>1 DEF WriteLocked, IndInv, HandlesAtPath
    <3>3. holders' = {p}
      BY <2>2, <3>1, <3>2, ConstantsAssumption DEF CreatePidFile, IndInv, TypeOK
    <3> QED BY <3>2, <3>3 DEF Lock!LockNext, Lock!Acquire
  <2>3. CASE WritePid(p) \/ FreeClose(p) \/ Crash(p)
    <3>1. holders' = holders \ {p}
      BY <2>3 DEF WritePid, FreeClose, Crash, IndInv, TypeOK
    <3>2. p \in holders
      BY <3>1
    <3> QED BY <3>1, <3>2 DEF Lock!LockNext, Lock!Release
  <2> QED BY <2>1, <2>2, <2>3
<1> QED
  BY <1>1, <1>2, AlwaysIndInv, PTL DEF Spec, ImplementsLock, Lock!LockSpec
=============================================================================
