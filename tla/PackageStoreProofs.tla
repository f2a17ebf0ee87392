------------------------- MODULE PackageStoreProofs -------------------------
(***************************************************************************)
(* Proofs about PackageStore, for any versions and any bounds on retries   *)
(* and on names of extraction directories.                                 *)
(***************************************************************************)
EXTENDS PackageStore, TLAPS

\* The labels from the first download to the lock file.
Installing == {"download", "expand", "extract", "setAside", "moveIn", "putBack",
               "purge", "setOut", "makeRoot", "copyExe", "putOut", "record"}

\* The version being installed is no older than the recorded one until it is
\* recorded itself.
CurrentNotOlder ==
  /\ pc \in Installing => cur \in Versions /\ lock <= cur
  /\ pc \in {"purgeOut", "links"} => cur \in Versions /\ lock = cur

\* There is an extraction directory only while Expand needs it, under a name
\* that was free, and once extracted it is not being filled.
DestInUse ==
  /\ dest # None => pc \in {"extract", "setAside", "moveIn"}
  /\ pc \in {"extract", "setAside", "moveIn"} => stale[cur] < DestNames
  /\ pc \in {"setAside", "moveIn"} => dest \in {cur, Bad, Partial, None}
  /\ pc = "extract" => dest \in {Growing, Partial, None}

\* What is at pkgRoot between two renames.
RootAt ==
  /\ pc \in {"moveIn", "putBack", "makeRoot"} => root = None
  /\ pc = "copyExe" => root = Partial
  /\ pc \in {"purge", "record", "purgeOut", "links"} => root \in {cur, Bad, Partial}

\* TypeOK in two parts, for provers of two kinds.
DataOK ==
  /\ root \in Trees /\ old \in Trees /\ out \in Trees
  /\ dest \in Trees \union {Growing}
  /\ stale \in [Versions -> 0 .. DestNames]
  /\ arch \in [Versions -> {"none", "good", "bad"}]
  /\ lock \in Versions \union {0}
  /\ pc \in Labels
  /\ cur \in Versions \union {0}
  /\ tries \in 0 .. Attempts
  /\ result \in {"none", "installed", "kept", "removed", "failure"}

FlagsOK == compat \in BOOLEAN /\ aside \in BOOLEAN /\ exe \in BOOLEAN

\* The loop of Install has not run out of attempts.
AttemptsLeft == tries < Attempts

StoreInv == DataOK /\ AttemptsLeft /\ CurrentNotOlder /\ DestInUse /\ RootAt

\* The constants that stand for directories differ from each other and from
\* every version.
LEMMA Distinct ==
  /\ \A v \in Versions : v \in Nat /\ 0 < v
  /\ \A v \in Versions : v # None /\ v # Partial /\ v # Growing /\ v # Bad
  /\ None # Partial /\ None # Growing /\ None # Bad
  /\ Partial # Growing /\ Partial # Bad /\ Growing # Bad
  /\ Attempts \in Nat /\ 0 < Attempts /\ DestNames \in Nat
  BY StoreAssumption DEF Versions

\* The invariant holds when nothing is installed yet.
LEMMA InitStoreInv == Init => StoreInv
<1> SUFFICES ASSUME Init PROVE StoreInv
  OBVIOUS
<1>1. DataOK
  BY Distinct DEF Init, DataOK, Trees, Labels
<1>2. AttemptsLeft /\ CurrentNotOlder /\ DestInUse /\ RootAt
  BY Distinct DEF Init, AttemptsLeft, CurrentNotOlder, DestInUse, RootAt, Installing
<1> QED BY <1>1, <1>2 DEF StoreInv

\* Every call a command makes, succeeding or not, keeps the invariant; so do a
\* crash and a cache cleaning.
LEMMA StepStoreInv == StoreInv /\ [Next]_vars => StoreInv'
<1> SUFFICES ASSUME StoreInv, [Next]_vars PROVE StoreInv'
  OBVIOUS
<1> USE Distinct DEF StoreInv, DataOK, AttemptsLeft, CurrentNotOlder, DestInUse, RootAt,
                 Trees, Labels, Installing, Goto, Finish
<1>1. CASE UNCHANGED vars
  BY <1>1 DEF vars
<1>2. ASSUME NEW v \in Versions, Install(v) PROVE StoreInv'
  BY <1>2 DEF Install, disk
<1>3. CASE Download
  <2>1. pc = "download" /\ cur \in Versions
    BY <1>3 DEF Download
  <2>2. /\ UNCHANGED <<root, old, out, dest, stale, lock>>
        /\ arch' \in [Versions -> {"none", "good", "bad"}]
    BY <1>3, <2>1 DEF Download
  <2>3. /\ tries' \in 0 .. Attempts /\ tries' < Attempts
        /\ \/ pc' = "idle" /\ cur' = 0 /\ result' = "failure"
           \/ pc' \in {"download", "expand"} /\ cur' = cur /\ result' = result
    <3>1. CASE Finish("failure")
      BY <3>1
    <3>2. CASE ~Finish("failure")
      BY <1>3, <2>1, <3>2 DEF Download
    <3> QED BY <3>1, <3>2
  <2> QED BY <2>1, <2>2, <2>3
<1>4. CASE Expand
  BY <1>4 DEF Expand
<1>5. CASE Extract
  BY <1>5 DEF Abandon, Unpacked, Extract
<1>6. CASE SetAside
  BY <1>6 DEF Abandon, SetAside
<1>7. CASE MoveIn
  BY <1>7 DEF Abandon, MoveIn
<1>8. CASE PutBack
  BY <1>8 DEF PutBack
<1>9. CASE Purge
  BY <1>9 DEF Purge
<1>10. CASE SetOut
  BY <1>10 DEF SetOut
<1>11. CASE MakeRoot
  BY <1>11 DEF MakeRoot
<1>12. CASE CopyExe
  BY <1>12 DEF Unpacked, CopyExe
<1>13. CASE PutOut
  BY <1>13 DEF PutOut
<1>14. CASE PurgeOut
  BY <1>14 DEF PurgeOut
<1>15. CASE Record
  BY <1>15 DEF Record
<1>16. CASE MakeLinks
  BY <1>16 DEF MakeLinks, disk
<1>17. CASE Remove
  BY <1>17 DEF Remove, disk
<1>18. CASE Unlock
  BY <1>18 DEF Unlock
<1>19. CASE Wipe
  BY <1>19 DEF Wipe
<1>20. CASE Crash
  BY <1>20 DEF Abandon, Crash
<1>21. CASE CleanCache
  BY <1>21 DEF CleanCache
<1> QED
  BY <1>1, <1>2, <1>3, <1>4, <1>5, <1>6, <1>7, <1>8, <1>9, <1>10, <1>11, <1>12, <1>13, <1>14, <1>15, <1>16, <1>17, <1>18, <1>19, <1>20, <1>21
     DEF Next

\* The flags stay Boolean.
LEMMA FlagsTyped == FlagsOK /\ [Next]_vars => FlagsOK'
<1> SUFFICES ASSUME FlagsOK, [Next]_vars PROVE FlagsOK'
  OBVIOUS
<1> USE DEF FlagsOK, Goto, Finish
<1>1. CASE UNCHANGED vars
  BY <1>1 DEF vars
<1>2. ASSUME NEW v \in Versions, Install(v) PROVE FlagsOK'
  BY <1>2 DEF Install, disk
<1>3. CASE Download
  BY <1>3 DEF Download
<1>4. CASE Expand
  BY <1>4 DEF Expand
<1>5. CASE Extract
  BY <1>5 DEF Extract
<1>6. CASE SetAside
  BY <1>6 DEF SetAside
<1>7. CASE MoveIn
  BY <1>7 DEF MoveIn
<1>8. CASE PutBack
  BY <1>8 DEF PutBack
<1>9. CASE Purge
  BY <1>9 DEF Purge
<1>10. CASE SetOut
  BY <1>10 DEF SetOut
<1>11. CASE MakeRoot
  BY <1>11 DEF MakeRoot
<1>12. CASE CopyExe
  BY <1>12 DEF CopyExe
<1>13. CASE PutOut
  BY <1>13 DEF PutOut
<1>14. CASE PurgeOut
  BY <1>14 DEF PurgeOut
<1>15. CASE Record
  BY <1>15 DEF Record
<1>16. CASE MakeLinks
  BY <1>16 DEF MakeLinks, disk
<1>17. CASE Remove
  BY <1>17 DEF Remove, disk
<1>18. CASE Unlock
  BY <1>18 DEF Unlock
<1>19. CASE Wipe
  BY <1>19 DEF Wipe
<1>20. CASE Crash
  BY <1>20 DEF Crash
<1>21. CASE CleanCache
  BY <1>21 DEF CleanCache
<1> QED
  BY <1>1, <1>2, <1>3, <1>4, <1>5, <1>6, <1>7, <1>8, <1>9, <1>10, <1>11, <1>12, <1>13, <1>14, <1>15, <1>16, <1>17, <1>18, <1>19, <1>20, <1>21
     DEF Next

\* The variables keep their types.  In particular no more extraction directories
\* stay behind than there are names for (make_unqiue_extracted_destination).
THEOREM TypeCorrect == Spec => []TypeOK
<1>1. Init => FlagsOK
  BY DEF Init, FlagsOK
<1>2. DataOK /\ FlagsOK => TypeOK
  BY DEF DataOK, FlagsOK, TypeOK
<1>3. StoreInv => DataOK
  BY DEF StoreInv
<1> QED BY <1>1, <1>2, <1>3, InitStoreInv, StepStoreInv, FlagsTyped, PTL DEF Spec
-----------------------------------------------------------------------------
\* While nobody cleans the cache, what is moved in and recorded is just what the
\* extractor made of the downloaded file.
WholeInv ==
  /\ pc = "extract" => dest = Growing
  /\ pc \in {"setAside", "moveIn"} => dest # Partial /\ (dest = Bad => arch[cur] # "good")
  /\ pc \in {"purge", "record", "purgeOut", "links"} =>
       root # Partial /\ (root = Bad => arch[cur] # "good")

LEMMA StepWholeInv ==
  ASSUME ~Cleaner, StoreInv, WholeInv, [Next]_vars
  PROVE  WholeInv'
<1> USE Distinct DEF StoreInv, DataOK, AttemptsLeft, CurrentNotOlder, DestInUse, RootAt,
                 Trees, Labels, Installing, WholeInv, Goto, Finish
<1>1. CASE UNCHANGED vars
  BY <1>1 DEF vars
<1>2. ASSUME NEW v \in Versions, Install(v) PROVE WholeInv'
  BY <1>2 DEF Install, disk
<1>3. CASE Download
  BY <1>3 DEF Download
<1>4. CASE Expand
  BY <1>4 DEF Expand
<1>5. CASE Extract
  BY <1>5 DEF Abandon, Unpacked, Extract
<1>6. CASE SetAside
  BY <1>6 DEF Abandon, SetAside
<1>7. CASE MoveIn
  BY <1>7 DEF Abandon, MoveIn
<1>8. CASE PutBack
  BY <1>8 DEF PutBack
<1>9. CASE Purge
  BY <1>9 DEF Purge
<1>10. CASE SetOut
  BY <1>10 DEF SetOut
<1>11. CASE MakeRoot
  BY <1>11 DEF MakeRoot
<1>12. CASE CopyExe
  BY <1>12 DEF Unpacked, CopyExe
<1>13. CASE PutOut
  BY <1>13 DEF PutOut
<1>14. CASE PurgeOut
  BY <1>14 DEF PurgeOut
<1>15. CASE Record
  BY <1>15 DEF Record
<1>16. CASE MakeLinks
  BY <1>16 DEF MakeLinks, disk
<1>17. CASE Remove
  BY <1>17 DEF Remove, disk
<1>18. CASE Unlock
  BY <1>18 DEF Unlock
<1>19. CASE Wipe
  BY <1>19 DEF Wipe
<1>20. CASE Crash
  BY <1>20 DEF Abandon, Crash
<1>21. CASE CleanCache
  BY <1>21 DEF CleanCache
<1> QED
  BY <1>1, <1>2, <1>3, <1>4, <1>5, <1>6, <1>7, <1>8, <1>9, <1>10, <1>11, <1>12, <1>13, <1>14, <1>15, <1>16, <1>17, <1>18, <1>19, <1>20, <1>21
     DEF Next

\* WholeInv holds throughout when nobody cleans the cache.
LEMMA AlwaysWhole ==
  ASSUME ~Cleaner
  PROVE  Spec => [](StoreInv /\ WholeInv)
<1>1. Init => WholeInv
  BY DEF Init, WholeInv
<1>2. StoreInv /\ WholeInv /\ [Next]_vars => WholeInv'
  BY StepWholeInv
<1> QED BY <1>1, <1>2, InitStoreInv, StepStoreInv, PTL DEF Spec

\* Nothing but the whole tree of the recorded version, or what became of a file
\* that is not the published one, is recorded, or reported by the command that
\* expanded it, whatever fails and whenever the process is killed, unless
\* cleancache runs beside it (Expand, expand_fallback_exe,
\* PackageLocalMetaWrite).
THEOREM OnlyWholeRecorded ==
  ASSUME ~Cleaner
  PROVE  Spec => []RecordedWhole
<1>1. StoreInv /\ WholeInv => RecordedWhole
  BY DEF StoreInv, CurrentNotOlder, RootAt, Installing, WholeInv, RecordedWhole,
         Unpublished
<1> QED BY <1>1, AlwaysWhole, PTL

\* A step other than the deletion `baulk remove` asks for leaves a whole copy,
\* if there was one and the tree that takes its place came from a published file.
LEMMA StepKeepsCopy ==
  ASSUME StoreInv, WholeInv, ~Cleaner, Next, pc # "wipe", Copy, ~Unpublished
  PROVE  Copy'
<1> USE Distinct DEF StoreInv, DataOK, CurrentNotOlder, DestInUse, RootAt, Trees,
                 Labels, Installing, WholeInv, Goto, Finish, Copy, Unpublished
<1>2. ASSUME NEW v \in Versions, Install(v) PROVE Copy'
  BY <1>2 DEF Install, disk
<1>3. CASE Download
  BY <1>3 DEF Download
<1>4. CASE Expand
  BY <1>4 DEF Expand
<1>5. CASE Extract
  BY <1>5 DEF Abandon, Unpacked, Extract
<1>6. CASE SetAside
  BY <1>6 DEF Abandon, SetAside
<1>7. CASE MoveIn
  BY <1>7 DEF Abandon, MoveIn
<1>8. CASE PutBack
  BY <1>8 DEF PutBack
<1>9. CASE Purge
  BY <1>9 DEF Purge
<1>10. CASE SetOut
  BY <1>10 DEF SetOut
<1>11. CASE MakeRoot
  BY <1>11 DEF MakeRoot
<1>12. CASE CopyExe
  BY <1>12 DEF Unpacked, CopyExe
<1>13. CASE PutOut
  BY <1>13 DEF PutOut
<1>14. CASE PurgeOut
  BY <1>14 DEF PurgeOut
<1>15. CASE Record
  BY <1>15 DEF Record
<1>16. CASE MakeLinks
  BY <1>16 DEF MakeLinks, disk
<1>17. CASE Remove
  BY <1>17 DEF Remove, disk
<1>18. CASE Unlock
  BY <1>18 DEF Unlock
<1>19. CASE Wipe
  BY <1>19 DEF Wipe
<1>20. CASE Crash
  BY <1>20 DEF Abandon, Crash
<1>21. CASE CleanCache
  BY <1>21 DEF CleanCache
<1> QED
  BY <1>2, <1>3, <1>4, <1>5, <1>6, <1>7, <1>8, <1>9, <1>10, <1>11, <1>12, <1>13, <1>14, <1>15, <1>16, <1>17, <1>18, <1>19, <1>20, <1>21
     DEF Next

\* The last whole copy of the installed package is never lost to an install or
\* upgrade, whatever fails and wherever it stops, unless cleancache runs beside
\* it or the file that was downloaded is not the published one (Expand,
\* expand_fallback_exe).
THEOREM CopyNeverLost ==
  ASSUME ~Cleaner
  PROVE  Spec => CopyKept
<1>1. StoreInv /\ WholeInv /\ [Next]_vars
        => [pc # "wipe" /\ Copy => Copy' \/ Unpublished]_vars
  BY StepKeepsCopy
<1> QED BY <1>1, AlwaysWhole, PTL DEF Spec, CopyKept
-----------------------------------------------------------------------------
\* What LockNotAhead needs where it is not about the package directory itself:
\* the directory that has been set aside is no older than the lock file either.
ArchiveInv ==
  /\ exe = FALSE
  /\ aside = TRUE => pc \in {"moveIn", "putBack", "purge", "record", "links"}
  /\ pc \notin {"setOut", "makeRoot", "copyExe", "putOut", "purgeOut"}
  /\ LockNotAhead
  /\ pc = "moveIn" /\ aside = TRUE /\ old \in Versions => lock <= old
  /\ pc = "putBack" /\ old \in Versions => lock <= old

LEMMA StepArchiveInv ==
  ASSUME "exe" \notin Formats, StoreInv, FlagsOK, ArchiveInv, [Next]_vars
  PROVE  ArchiveInv'
<1> USE Distinct DEF StoreInv, DataOK, CurrentNotOlder, DestInUse, RootAt, Trees,
                 Labels, Installing, ArchiveInv, LockNotAhead, Goto, Finish
<1>1. CASE UNCHANGED vars
  BY <1>1 DEF vars
<1>2. ASSUME NEW v \in Versions, Install(v) PROVE ArchiveInv'
  BY <1>2 DEF Install, disk
<1>3. CASE Download
  BY <1>3 DEF Download
<1>4. CASE Expand
  BY <1>4 DEF Expand
<1>5. CASE Extract
  BY <1>5 DEF Abandon, Unpacked, Extract
<1>6. CASE SetAside
  BY <1>6 DEF Abandon, SetAside
<1>7. CASE MoveIn
  BY <1>7 DEF Abandon, MoveIn
<1>8. CASE PutBack
  BY <1>8 DEF PutBack
<1>9. CASE Purge
  BY <1>9 DEF Purge
<1>10. CASE SetOut
  BY <1>10 DEF SetOut
<1>11. CASE MakeRoot
  BY <1>11 DEF MakeRoot
<1>12. CASE CopyExe
  BY <1>12 DEF Unpacked, CopyExe
<1>13. CASE PutOut
  BY <1>13 DEF PutOut
<1>14. CASE PurgeOut
  BY <1>14 DEF PurgeOut
<1>15. CASE Record
  BY <1>15 DEF Record
<1>16. CASE MakeLinks
  BY <1>16 DEF MakeLinks, disk
<1>17. CASE Remove
  BY <1>17 DEF Remove, disk
<1>18. CASE Unlock
  BY <1>18 DEF Unlock
<1>19. CASE Wipe
  BY <1>19 DEF Wipe
<1>20. CASE Crash
  BY <1>20 DEF Abandon, Crash
<1>21. CASE CleanCache
  BY <1>21 DEF CleanCache
<1> QED
  BY <1>1, <1>2, <1>3, <1>4, <1>5, <1>6, <1>7, <1>8, <1>9, <1>10, <1>11, <1>12, <1>13, <1>14, <1>15, <1>16, <1>17, <1>18, <1>19, <1>20, <1>21
     DEF Next

\* For archives the lock file is never ahead of the files, even with cleancache
\* at any time (Expand renames before it records, and puts the old package back
\* before it fails).
THEOREM LockFollowsFiles ==
  ASSUME "exe" \notin Formats
  PROVE  Spec => []LockNotAhead
<1>1. Init => FlagsOK /\ ArchiveInv
  BY DEF Init, FlagsOK, ArchiveInv, LockNotAhead
<1>2. StoreInv /\ FlagsOK /\ ArchiveInv /\ [Next]_vars => ArchiveInv'
  BY StepArchiveInv
<1>3. ArchiveInv => LockNotAhead
  BY DEF ArchiveInv
<1> QED BY <1>1, <1>2, <1>3, InitStoreInv, StepStoreInv, FlagsTyped, PTL DEF Spec
=============================================================================
