---------------------------- MODULE PackageStore ----------------------------
(***************************************************************************)
(* One package on disk, and the commands that install, upgrade and remove  *)
(* it: package::Install, Expand and expand_fallback_exe of                 *)
(* tools/baulk/pkg.cc and remove_package of commands.remove.cc.            *)
(*                                                                         *)
(* The commands hold the pid-file mutex (FsMutex), so at most one is under *)
(* way.  A step is one call to the file system or the network; every call  *)
(* may fail, and between any two of them the process may be killed.        *)
(* `baulk cleancache` takes no mutex and runs beside them when Cleaner.    *)
(*                                                                         *)
(* A directory is abstracted to what it holds: the whole tree of some      *)
(* version; Bad, what an extractor made, with success, of a file that is   *)
(* not the published one, and from which anything may be missing (a cut    *)
(* tar.gz is extracted up to the cut, see TarStream); Partial, what an     *)
(* operation that failed or is under way has left; or nothing at all       *)
(* (there is no such directory).  A lock file can always be read.          *)
(***************************************************************************)
EXTENDS Naturals

CONSTANTS
  MaxVersion,  \* the versions the buckets offer are 1..MaxVersion
  Attempts,    \* downloads Install tries (4 in the code)
  DestNames,   \* names make_unqiue_extracted_destination tries (100)
  Formats,     \* "archive", "exe": what the downloaded files may be
  Hashed,      \* the manifest gives a hash
  Cleaner,     \* `baulk cleancache` may run at any time
  None, Partial, Growing, Bad

Versions == 1 .. MaxVersion

ASSUME StoreAssumption ==
  /\ MaxVersion \in Nat /\ Attempts \in Nat \ {0} /\ DestNames \in Nat
  /\ Formats \subseteq {"archive", "exe"}
  /\ Hashed \in BOOLEAN /\ Cleaner \in BOOLEAN
  /\ None \notin Nat /\ Partial \notin Nat /\ Growing \notin Nat
  /\ Bad \notin Nat
  /\ None # Partial /\ None # Growing /\ None # Bad
  /\ Partial # Growing /\ Partial # Bad /\ Growing # Bad

VARIABLES
  root,    \* packages\<name>
  old,     \* packages\<name>.old
  out,     \* packages\<name>.out
  dest,    \* the directory this command extracts to, under temp
  stale,   \* how many such directories of each version are left behind
  arch,    \* the downloaded file of each version under temp
  lock,    \* the version locks\<name>.json records, 0 without that file
  compat,  \* ... and whether it has MaskCompatibilityMode
  pc,      \* the call the command makes next
  cur,     \* the version being installed
  tries,   \* downloads done
  aside,   \* oldPath is not empty: pkgRoot has been renamed
  exe,     \* in expand_fallback_exe
  result   \* what the last command told the user

disk == <<root, old, out, dest, stale, arch, lock, compat>>
vars == <<root, old, out, dest, stale, arch, lock, compat,
          pc, cur, tries, aside, exe, result>>

Labels == {"idle", "download", "expand", "extract", "setAside", "moveIn",
           "putBack", "purge", "setOut", "makeRoot", "copyExe", "putOut",
           "record", "purgeOut", "links", "relink", "unlock", "wipe"}

Trees == Versions \union {Bad, Partial, None}

TypeOK ==
  /\ root \in Trees /\ old \in Trees /\ out \in Trees
  /\ dest \in Trees \union {Growing}
  /\ stale \in [Versions -> 0 .. DestNames]
  /\ arch \in [Versions -> {"none", "good", "bad"}]
  /\ lock \in Versions \union {0}
  /\ pc \in Labels
  /\ cur \in Versions \union {0}
  /\ tries \in 0 .. Attempts
  /\ compat \in BOOLEAN /\ aside \in BOOLEAN /\ exe \in BOOLEAN
  /\ result \in {"none", "installed", "kept", "removed", "failure"}

Init ==
  /\ root = None /\ old = None /\ out = None /\ dest = None
  /\ stale = [v \in Versions |-> 0]
  /\ arch = [v \in Versions |-> "none"]
  /\ lock = 0 /\ compat = FALSE
  /\ pc = "idle" /\ cur = 0 /\ tries = 0
  /\ aside = FALSE /\ exe = FALSE
  /\ result = "none"

\* What an extractor that reports success has made of the file of version v.
Unpacked(v) == IF arch[v] = "good" THEN v ELSE Bad

\* The command goes on with the call l, or returns and says r.
Goto(l) == pc' = l /\ UNCHANGED <<cur, tries, result>>

Finish(r) ==
  /\ pc' = "idle" /\ cur' = 0 /\ tries' = 0
  /\ aside' = FALSE /\ exe' = FALSE
  /\ result' = r

\* The extraction directory stays behind, under a name no later one may take.
Abandon ==
  /\ dest' = None
  /\ stale' = IF dest = None THEN stale
                             ELSE [stale EXCEPT ![cur] = @ + 1]
-----------------------------------------------------------------------------
(***************************************************************************)
(* Install.                                                                *)
(***************************************************************************)
\* Install is called with the version PackageMetaEx found.  A package that is
\* not newer (of a lower version, or of the same version and no greater
\* weights) only gets its links again; a frozen one is left alone.  Without a
\* URL it fails.  A file of the right hash need not be downloaded, if it can be
\* read.
Install(v) ==
  /\ pc = "idle"
  /\ \/ /\ lock # 0 /\ v <= lock
        /\ IF compat THEN Finish("kept")
           ELSE /\ pc' = "relink" /\ cur' = v /\ result' = "none"
                /\ UNCHANGED <<tries, aside, exe>>
     \/ lock # 0 /\ v >= lock /\ Finish("kept")
     \/ v >= lock /\ Finish("failure")
     \/ /\ v >= lock
        /\ \/ pc' = "download"
           \/ Hashed /\ arch[v] = "good" /\ pc' = "expand"
        /\ cur' = v /\ result' = "none"
        /\ UNCHANGED <<tries, aside, exe>>
  /\ UNCHANGED disk

\* WinGet and the comparison of hashes.  WinGet may return the path of a file
\* it could not replace (Download).  The file of the last attempt goes to Expand
\* even when its hash is wrong.
Download ==
  /\ pc = "download"
  /\ \/ /\ IF tries + 1 = Attempts
             THEN Finish("failure")
             ELSE /\ tries' = tries + 1
                  /\ UNCHANGED <<pc, cur, aside, exe, result>>
        /\ UNCHANGED arch
     \/ \E got \in {"good", "bad", arch[cur]} :
          /\ arch' = [arch EXCEPT ![cur] = got]
          /\ IF got = "good" \/ ~Hashed \/ tries + 1 = Attempts
               THEN tries' = 0 /\ pc' = "expand"
               ELSE tries' = tries + 1 /\ UNCHANGED pc
          /\ UNCHANGED <<cur, aside, exe, result>>
  /\ UNCHANGED <<root, old, out, dest, stale, lock, compat>>

\* Slip: the destination is not looked up among the directories left behind.
ExpandAnyName ==
  /\ pc = "expand"
  /\ dest' = Growing
  /\ Goto("extract")
  /\ UNCHANGED <<root, old, out, stale, arch, lock, compat, aside, exe>>

\* Expand finds the extractor and a free name for the destination.  An
\* executable without an archive in it goes to expand_fallback_exe.
Expand ==
  /\ pc = "expand"
  /\ \/ Finish("failure") /\ UNCHANGED dest
     \/ /\ stale[cur] < DestNames /\ arch[cur] # "none"
        /\ \/ /\ "archive" \in Formats
              /\ dest' = Growing
              /\ Goto("extract") /\ UNCHANGED <<aside, exe>>
           \/ /\ "exe" \in Formats
              /\ exe' = TRUE
              /\ Goto("setOut") /\ UNCHANGED <<dest, aside>>
  /\ UNCHANGED <<root, old, out, stale, arch, lock, compat>>

\* The extractor and MakeFlattened.  MakeFlattened does not look at the results
\* of its two renames: it may report success with the directory gone.
\* extract_exe moves the downloaded file.
Extract ==
  /\ pc = "extract"
  /\ \/ Abandon /\ Finish("failure") /\ UNCHANGED arch
     \/ /\ dest' \in {IF dest = Growing THEN Unpacked(cur) ELSE dest, None}
        /\ arch' \in {arch, [arch EXCEPT ![cur] = "none"]}
        /\ Goto("setAside") /\ UNCHANGED <<stale, aside, exe>>
  /\ UNCHANGED <<root, old, out, lock, compat>>

\* Slip: the package is deleted, not set aside.
SetAsideDelete ==
  /\ pc = "setAside"
  /\ root' = None
  /\ Goto("moveIn")
  /\ UNCHANGED <<old, out, dest, stale, arch, lock, compat, aside, exe>>

\* rename(pkgRoot, pkgRoot.old): a directory is not renamed onto another.
SetAside ==
  /\ pc = "setAside"
  /\ \/ /\ root = None
        /\ Goto("moveIn") /\ UNCHANGED <<root, old, dest, stale, aside, exe>>
     \/ /\ root # None /\ old = None
        /\ old' = root /\ root' = None /\ aside' = TRUE
        /\ Goto("moveIn") /\ UNCHANGED <<dest, stale, exe>>
     \/ /\ root # None
        /\ Abandon /\ Finish("failure") /\ UNCHANGED <<root, old>>
  /\ UNCHANGED <<out, arch, lock, compat>>

\* rename(destination, pkgRoot).
MoveIn ==
  /\ pc = "moveIn"
  /\ \/ /\ dest # None
        /\ root' = dest /\ dest' = None
        /\ Goto(IF aside THEN "purge" ELSE "record")
        /\ UNCHANGED <<stale, aside, exe>>
     \/ /\ Abandon
        /\ IF aside THEN Goto("putBack") /\ UNCHANGED <<aside, exe>>
                    ELSE Finish("failure")
        /\ UNCHANGED root
  /\ UNCHANGED <<old, out, arch, lock, compat>>

\* Slip: Expand goes on after it has put the old package back.
PutBackGoOn ==
  /\ pc = "putBack"
  /\ root' = old /\ old' = None
  /\ Goto("record")
  /\ UNCHANGED <<out, dest, stale, arch, lock, compat, aside, exe>>

\* rename(oldPath, pkgRoot), its result ignored.
PutBack ==
  /\ pc = "putBack"
  /\ \/ root' = old /\ old' = None
     \/ UNCHANGED <<root, old>>
  /\ Finish("failure")
  /\ UNCHANGED <<out, dest, stale, arch, lock, compat>>

\* remove_all(oldPath), which may stop half way; its result is ignored.
Purge ==
  /\ pc = "purge"
  /\ old' \in {None, Partial, old}
  /\ Goto("record")
  /\ UNCHANGED <<root, out, dest, stale, arch, lock, compat, aside, exe>>
-----------------------------------------------------------------------------
(***************************************************************************)
(* expand_fallback_exe.                                                    *)
(***************************************************************************)
\* rename(pkgRoot, pkgRoot.out).
SetOut ==
  /\ pc = "setOut"
  /\ \/ /\ root = None
        /\ Goto("makeRoot") /\ UNCHANGED <<root, out, aside, exe>>
     \/ /\ root # None /\ out = None
        /\ out' = root /\ root' = None
        /\ Goto("makeRoot") /\ UNCHANGED <<aside, exe>>
     \/ root # None /\ Finish("failure") /\ UNCHANGED <<root, out>>
  /\ UNCHANGED <<old, dest, stale, arch, lock, compat>>

\* create_directories(pkgRoot).
MakeRoot ==
  /\ pc = "makeRoot"
  /\ \/ root' = Partial /\ Goto("copyExe")
     \/ Goto("putOut") /\ UNCHANGED root
  /\ UNCHANGED <<old, out, dest, stale, arch, lock, compat, aside, exe>>

\* Slip: the result of copy_file is ignored.
CopyExeUnchecked ==
  /\ pc = "copyExe"
  /\ root' \in {Unpacked(cur), Partial}
  /\ Goto("record")
  /\ UNCHANGED <<old, out, dest, stale, arch, lock, compat, aside, exe>>

\* copy_file(archive_file, pkgRoot\<name>.exe).
CopyExe ==
  /\ pc = "copyExe"
  /\ \/ /\ arch[cur] # "none"
        /\ root' = Unpacked(cur) /\ Goto("record")
     \/ Goto("putOut") /\ UNCHANGED root
  /\ UNCHANGED <<old, out, dest, stale, arch, lock, compat, aside, exe>>

\* rename(oldPath, pkgRoot), its result ignored.  After a failed copy pkgRoot
\* exists, so that the rename is refused.
PutOut ==
  /\ pc = "putOut"
  /\ \/ out # None /\ root = None /\ root' = out /\ out' = None
     \/ UNCHANGED <<root, out>>
  /\ Finish("failure")
  /\ UNCHANGED <<old, dest, stale, arch, lock, compat>>

\* remove_all(oldPath).
PurgeOut ==
  /\ pc = "purgeOut"
  /\ out' \in IF out = None THEN {None} ELSE {None, Partial, out}
  /\ Goto("links")
  /\ UNCHANGED <<root, old, dest, stale, arch, lock, compat, aside, exe>>
-----------------------------------------------------------------------------
(***************************************************************************)
(* The end of both.                                                        *)
(***************************************************************************)
\* PackageLocalMetaWrite, atomic by bela::io::AtomicWriteText.
Record ==
  /\ pc = "record"
  /\ \/ /\ lock' = cur /\ compat' = exe
        /\ Goto(IF exe THEN "purgeOut" ELSE "links") /\ UNCHANGED <<aside, exe>>
     \/ Finish("failure") /\ UNCHANGED <<lock, compat>>
  /\ UNCHANGED <<root, old, out, dest, stale, arch>>

\* package::NewLinks: DropLinks, then links and launchers to the files there
\* are (a missing one is skipped, so that the links of a package that was
\* installed before say nothing of its files).
MakeLinks ==
  /\ pc \in {"links", "relink"}
  /\ Finish("installed") \/ Finish("failure")
  /\ UNCHANGED disk
-----------------------------------------------------------------------------
(***************************************************************************)
(* remove_package, and what else happens.                                  *)
(***************************************************************************)
\* Without a lock the package is removed only by force.
Remove ==
  /\ pc = "idle"
  /\ \/ pc' = "unlock" /\ result' = "none" /\ UNCHANGED <<cur, tries, aside, exe>>
     \/ lock = 0 /\ Finish("failure")
  /\ UNCHANGED disk

\* ForceDeleteFolders(metaLock), its result ignored.
Unlock ==
  /\ pc = "unlock"
  /\ \/ lock' = 0 /\ compat' = FALSE
     \/ UNCHANGED <<lock, compat>>
  /\ Goto("wipe")
  /\ UNCHANGED <<root, old, out, dest, stale, arch, aside, exe>>

\* ForceDeleteFolders(packageRoot).
Wipe ==
  /\ pc = "wipe"
  /\ \/ root' = None /\ Finish(IF root = None THEN "failure" ELSE "removed")
     \/ root # None /\ root' \in {Partial, root} /\ Finish("failure")
  /\ UNCHANGED <<old, out, dest, stale, arch, lock, compat>>

\* The process is killed.
Crash ==
  /\ pc # "idle"
  /\ Abandon /\ Finish("none")
  /\ UNCHANGED <<root, old, out, arch, lock, compat>>

\* cmd_cleancache deletes the directories of temp, and the files that are old
\* (all of them by force).  A directory another command is filling is filled
\* further; one that is full is found empty, or is taken away half deleted.
CleanCache ==
  /\ Cleaner
  /\ stale' = [v \in Versions |-> 0]
  /\ dest' \in CASE dest = None    -> {None}
                 [] dest = Growing -> {Partial}
                 [] OTHER          -> {None, Partial}
  /\ \E keep \in SUBSET Versions :
       arch' = [v \in Versions |-> IF v \in keep THEN arch[v] ELSE "none"]
  /\ UNCHANGED <<root, old, out, lock, compat, pc, cur, tries, aside, exe, result>>

Next ==
  \/ \E v \in Versions : Install(v)
  \/ Download \/ Expand \/ Extract \/ SetAside \/ MoveIn \/ PutBack \/ Purge
  \/ SetOut \/ MakeRoot \/ CopyExe \/ PutOut \/ PurgeOut
  \/ Record \/ MakeLinks
  \/ Remove \/ Unlock \/ Wipe
  \/ Crash \/ CleanCache

Spec == Init /\ [][Next]_vars
-----------------------------------------------------------------------------
(***************************************************************************)
(* Properties.                                                             *)
(***************************************************************************)
\* The package directory is not the whole tree of the version being installed,
\* because the file that was downloaded is not the published one.
Unpublished == root = Bad /\ arch[cur] # "good"

\* What is recorded as installed, and reported so by the command that expanded
\* it, is the whole tree of just the recorded version, or what became of a file
\* that is not the published one: never what a failed step, an earlier command
\* or another version left (Expand renames the destination before
\* PackageLocalMetaWrite, and NewLinks comes last).
RecordedWhole == pc \in {"record", "purgeOut", "links"} => root = cur \/ Unpublished

\* The version in the lock file is never newer than the files it speaks of,
\* wherever an install stopped, so that an older package that is there is not
\* taken for the recorded one (order of rename and PackageLocalMetaWrite, roll
\* back).
LockNotAhead == lock # 0 /\ root \in Versions => lock <= root

\* Some directory holds a whole copy at least as new as the lock file says.
Copy == \E t \in {root, old, out} : t \in Versions /\ lock <= t

\* Nothing but the deletion `baulk remove` asks for takes the last whole copy
\* of the installed package away: not a failed rename, not a crash between two,
\* not the remove_all of a name an earlier command left (Expand,
\* expand_fallback_exe).  It is given up only for what a file that is not the
\* published one was extracted to.
CopyKept == [][pc # "wipe" /\ Copy => Copy' \/ Unpublished]_vars

\* Only files of the hash the manifest gives are installed (HashEqual in
\* Install).
VerifiedOnly == Hashed => root # Bad
=============================================================================
