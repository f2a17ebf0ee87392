------------------------------- MODULE Links --------------------------------
(***************************************************************************)
(* The folder of links of baulk and the file baulk.linkmeta.json beside    *)
(* them: LinkMetaStore, DropLinks, NewSymlinks, NewProxyLaunchers,         *)
(* NewLaunchers and NewLinks of tools/baulk/launcher.cc, as package        *)
(* installation (pkg.cc) and remove_package (commands.remove.cc) call      *)
(* them, for several packages that may ask for the same alias.             *)
(*                                                                         *)
(* The commands hold the pid-file mutex, so at most one is under way.  A   *)
(* step is one file made, deleted or written; every one may fail, and the  *)
(* process may be killed between any two.  A link is abstracted to the     *)
(* package it was made for and its kind: a symlink into the package, a     *)
(* compiled launcher that names a file of it, or a symlink to the proxy    *)
(* baulk-lnk.exe, which looks the package up in the record of the alias.   *)
(*                                                                         *)
(* A package is called by the name the user typed.  Names that differ only *)
(* in case are one folder and one lock file to Windows, but two names to   *)
(* the record, which is searched for the exact one.                        *)
(***************************************************************************)
EXTENDS Naturals

CONSTANTS
  Packages,    \* the names of packages, as users spell them
  Fold,        \* the folder of each: the name with its case ignored
  Aliases,     \* the file names of links
  Packaged,    \* baulk was installed from the Windows Store
  None

Kinds == {"symlink", "proxy", "launcher"}
Link == [by : Packages, kind : Kinds]

ASSUME LinksAssumption ==
  None \notin Packages \union Link /\ Packaged \in BOOLEAN

Folders == {Fold[p] : p \in Packages}

\* What a manifest asks for: the aliases whose file path_reachable_cat finds
\* in the package.  The loops skip the others.
Manifests == [links : SUBSET Aliases, launchers : SUBSET Aliases]
Nothing == [links |-> {}, launchers |-> {}]

VARIABLES
  links,      \* the files of the folder
  meta,       \* baulk.linkmeta.json: the package each alias is recorded for
  installed,  \* the folders of packages there are
  local,      \* the copy of baulk-lnk.exe a packaged baulk makes its proxies of
  pc,         \* the call the command makes next
  cmd, pkg,   \* the command and the package it is for
  want,       \* its manifest
  stage,      \* the kind of links it is making
  todo,       \* the aliases the loop has still to go through
  made,       \* linkmetas: those made, to be recorded
  result,     \* what the last command told the user
  faults,     \* history: the failures the last command did not report
  sound       \* history: the aliases that were sound when it began

disk == <<links, meta, installed, local>>
vars == <<links, meta, installed, local, pc, cmd, pkg, want, stage, todo,
          made, result, faults, sound>>

TypeOK ==
  /\ links \in [Aliases -> Link \union {None}]
  /\ meta \in [Aliases -> Packages \union {None}]
  /\ installed \in SUBSET Folders
  /\ local \in {"none", "current", "stale"}
  /\ pc \in {"idle", "drop", "dropFile", "make", "launchers", "wipe"}
  /\ cmd \in {"none", "install", "remove"}
  /\ pkg \in Packages \union {None}
  /\ want \in Manifests
  /\ stage \in Kinds
  /\ todo \in SUBSET Aliases /\ made \in SUBSET Aliases
  /\ result \in {"none", "success", "failure", "killed"}
  /\ faults \in SUBSET {"undropped", "unrecorded", "compile"}
  /\ sound \in SUBSET Aliases

Init ==
  /\ links = [a \in Aliases |-> None] /\ meta = [a \in Aliases |-> None]
  /\ installed = {} /\ local = "none"
  /\ pc = "idle" /\ cmd = "none" /\ pkg = None
  /\ want = Nothing
  /\ stage = "symlink" /\ todo = {} /\ made = {}
  /\ result = "none" /\ faults = {} /\ sound = {}

\* Nothing is there under the alias and nothing is recorded, or the link and
\* the record are of the same package, whose folder is there.
Sound(a) ==
  \/ links[a] = None /\ meta[a] = None
  \/ /\ links[a] # None
     /\ meta[a] = links[a].by /\ Fold[links[a].by] \in installed

Recorded(p) == {a \in Aliases : meta[a] = p}

\* The process ends.  What it was to do is kept for the properties when it
\* reports success.
Finish(r) ==
  /\ pc' = "idle" /\ result' = r
  /\ stage' = "symlink" /\ todo' = {} /\ made' = {}
  /\ \/ r = "success" /\ UNCHANGED <<cmd, pkg, want, sound>>
     \/ r # "success" /\ cmd' = "none" /\ pkg' = None /\ want' = Nothing /\ sound' = {}

\* The loop over the aliases s begins, to make links of kind k.
Begin(k, s) ==
  /\ pc' = "make" /\ stage' = k /\ todo' = s /\ made' = {}
  /\ UNCHANGED <<cmd, pkg, want, result, sound>>
-----------------------------------------------------------------------------
(***************************************************************************)
(* The commands.  Install is entered with the files of the package in      *)
(* place (PackageStore), Remove with its lock file there or in force mode. *)
(***************************************************************************)
Start(c, p, m) ==
  /\ pc = "idle"
  /\ pc' = "drop" /\ cmd' = c /\ pkg' = p /\ want' = m
  /\ result' = "none" /\ faults' = {}
  /\ sound' = {a \in Aliases : Sound(a)}
  /\ UNCHANGED <<links, meta, local, stage, todo, made>>

Install(p, m) ==
  /\ Start("install", p, m)
  /\ installed' = installed \union {Fold[p]}

Remove(p) ==
  /\ Start("remove", p, Nothing)
  /\ UNCHANGED installed

\* After DropLinks, whose result both callers ignore.  NewLinks makes the
\* symlinks first; for any kind MakeDirectories may fail.
AfterDrop ==
  \/ /\ cmd = "remove"
     /\ pc' = "wipe" /\ todo' = {}
     /\ UNCHANGED <<cmd, pkg, want, stage, made, result, sound>>
  \/ /\ cmd = "install" /\ want.links # {}
     /\ Begin("symlink", want.links) \/ Finish("failure")
  \/ /\ cmd = "install" /\ want.links = {}
     /\ pc' = "launchers" /\ todo' = {}
     /\ UNCHANGED <<cmd, pkg, want, stage, made, result, sound>>

\* remove_package deletes the lock file and the folder of the package.
Wipe ==
  /\ pc = "wipe"
  /\ \/ installed' = installed \ {Fold[pkg]} /\ Finish("success")
     \/ UNCHANGED installed /\ Finish("failure")
  /\ UNCHANGED <<links, meta, local, faults>>
-----------------------------------------------------------------------------
(***************************************************************************)
(* DropLinks compares the recorded names with pkgName exactly.  A record   *)
(* that cannot be read counts as empty.                                    *)
(***************************************************************************)
DropRead ==
  /\ pc = "drop"
  /\ \/ /\ pc' = "dropFile" /\ todo' = Recorded(pkg)
        /\ UNCHANGED <<cmd, pkg, want, stage, made, result, sound, faults>>
     \/ AfterDrop /\ faults' = faults \union {"undropped"}
  /\ UNCHANGED disk

\* A file that cannot be removed stays, and is forgotten all the same.
DropFile(a) ==
  /\ pc = "dropFile" /\ a \in todo
  /\ todo' = todo \ {a}
  /\ \/ links' = [links EXCEPT ![a] = None] /\ UNCHANGED faults
     \/ UNCHANGED links /\ faults' = faults \union {"undropped"}
  /\ UNCHANGED <<meta, installed, local, pc, cmd, pkg, want, stage, made,
                 result, sound>>

\* Slip: the old object is written back.
DropStoreOld ==
  /\ pc = "dropFile" /\ todo = {}
  /\ UNCHANGED <<meta, faults>>
  /\ AfterDrop
  /\ UNCHANGED <<links, installed, local>>

\* Slip: the records of other packages are not copied.
DropStoreAll ==
  /\ pc = "dropFile" /\ todo = {}
  /\ meta' = [a \in Aliases |-> None] /\ UNCHANGED faults
  /\ AfterDrop
  /\ UNCHANGED <<links, installed, local>>

\* The records of the package are left out and the file is written; that it
\* could not be is told to callers that do not look.
DropStore ==
  /\ pc = "dropFile" /\ todo = {}
  /\ \/ /\ meta' = [a \in Aliases |-> IF meta[a] = pkg THEN None ELSE meta[a]]
        /\ UNCHANGED faults
     \/ UNCHANGED meta /\ faults' = faults \union {"undropped"}
  /\ AfterDrop
  /\ UNCHANGED <<links, installed, local>>
-----------------------------------------------------------------------------
(***************************************************************************)
(* NewSymlinks and NewProxyLaunchers: what is there under the alias is     *)
(* deleted, and whether it was is not looked at; when the link cannot be   *)
(* made the function returns, and the links made before are not recorded.  *)
(***************************************************************************)
MakeSymlink(a) ==
  /\ pc = "make" /\ stage \in {"symlink", "proxy"} /\ a \in todo
  /\ \/ /\ links' = [links EXCEPT ![a] = [by |-> pkg, kind |-> stage]]
        /\ todo' = todo \ {a} /\ made' = made \union {a}
        /\ UNCHANGED <<pc, cmd, pkg, want, stage, result, sound>>
     \/ /\ links' = links \/ links' = [links EXCEPT ![a] = None]
        /\ Finish("failure")
  /\ UNCHANGED <<meta, installed, local, faults>>

\* NewLaunchers and Builder::Compile: an alias that fails is passed over.  The
\* compiler fails before the old file is touched; the rename after it is gone.
MakeLauncher(a) ==
  /\ pc = "make" /\ stage = "launcher" /\ a \in todo
  /\ todo' = todo \ {a}
  /\ \/ /\ links' = [links EXCEPT ![a] = [by |-> pkg, kind |-> stage]]
        /\ made' = made \union {a} /\ UNCHANGED faults
     \/ /\ links' = links \/ links' = [links EXCEPT ![a] = None]
        /\ faults' = faults \union {"compile"} /\ UNCHANGED made
  /\ UNCHANGED <<meta, installed, local, pc, cmd, pkg, want, stage, result,
                 sound>>

\* Slip: the record names the alias itself.
StoredMetaOfAlias(base) ==
  [a \in Aliases |-> IF a \in made THEN a ELSE base[a]]

\* Slip: an alias that is recorded already keeps its record.
StoredMetaFirst(base) ==
  [a \in Aliases |-> IF a \in made /\ base[a] = None THEN pkg ELSE base[a]]

\* What LinkMetaStore writes: the aliases made beside the records it read.
StoredMeta(base) ==
  [a \in Aliases |-> IF a \in made THEN pkg ELSE base[a]]

\* LinkMetaStore at the end of the loop.  With nothing made it returns at once;
\* a record it cannot read it takes for empty.
LinkMetaStore ==
  /\ pc = "make" /\ todo = {}
  /\ \/ made = {} /\ UNCHANGED <<meta, faults>>
     \/ made # {} /\ meta' = StoredMeta(meta) /\ UNCHANGED faults
     \/ /\ made # {} /\ meta' = StoredMeta([a \in Aliases |-> None])
        /\ faults' = faults \union {"unrecorded"}
  /\ IF stage = "symlink"
       THEN /\ pc' = "launchers" /\ made' = {}
            /\ UNCHANGED <<cmd, pkg, want, stage, todo, result, sound>>
       ELSE Finish("success")
  /\ UNCHANGED <<links, installed, local>>

StoreFails ==
  /\ pc = "make" /\ todo = {} /\ made # {}
  /\ Finish("failure")
  /\ UNCHANGED <<disk, faults>>

\* FindProxyLauncher returns a launcher: the one baulk came with, or for a
\* packaged baulk a copy of it.  CopyFileW is told to fail if the file exists.
FindProxyLauncher ==
  \/ (Packaged => local = "current") /\ UNCHANGED local
  \/ Packaged /\ local = "none" /\ local' = "current"

\* The second half of NewLinks.  Without a Visual C++ compiler proxies are
\* made; the launcher, the build folder or the links folder may be missing.
NewLaunchers ==
  /\ pc = "launchers"
  /\ \/ want.launchers = {} /\ Finish("success") /\ UNCHANGED local
     \/ /\ want.launchers # {}
        /\ \/ Begin("proxy", want.launchers) /\ FindProxyLauncher
           \/ Begin("launcher", want.launchers) /\ UNCHANGED local
           \/ Finish("failure") /\ (FindProxyLauncher \/ UNCHANGED local)
  /\ UNCHANGED <<links, meta, installed, faults>>
-----------------------------------------------------------------------------
(***************************************************************************)
(* The environment: the process is killed, and the Windows Store replaces  *)
(* baulk by a newer one.                                                   *)
(***************************************************************************)
Killed ==
  /\ pc # "idle" /\ Finish("killed")
  /\ UNCHANGED <<disk, faults>>

BaulkReplaced ==
  /\ Packaged /\ pc = "idle" /\ local = "current" /\ local' = "stale"
  /\ UNCHANGED <<links, meta, installed, pc, cmd, pkg, want, stage, todo, made,
                 result, faults, sound>>

Next ==
  \/ \E p \in Packages, m \in Manifests : Install(p, m)
  \/ \E p \in Packages : Remove(p)
  \/ DropRead \/ DropStore \/ Wipe \/ LinkMetaStore \/ StoreFails
  \/ NewLaunchers
  \/ \E a \in Aliases : DropFile(a) \/ MakeSymlink(a) \/ MakeLauncher(a)
  \/ Killed \/ BaulkReplaced

Spec == Init /\ [][Next]_vars
-----------------------------------------------------------------------------
Done == pc = "idle" /\ result = "success"

\* An install that reports success leaves every alias of the manifest to the
\* package, on disk and in the record, whatever was there before and whatever
\* earlier commands that failed or were killed left behind: the retry that
\* "Your can run 'baulk uninstall' and retry" (launcher.cc:305) advises does
\* help.  Two failures are not reported: a launcher that did not compile, and a
\* record that could not be read when it was to be extended.
SuccessMeansLinked ==
  Done /\ cmd = "install" /\ faults \intersect {"compile", "unrecorded"} = {}
    => \A a \in want.links \union want.launchers :
         Sound(a) /\ meta[a] = pkg

\* The package is removed by a name that is spelled otherwise in the record:
\* its folder goes, and the alias and its record stay.
Misspelt(a) ==
  /\ cmd = "remove" /\ meta[a] \in Packages \ {pkg}
  /\ Fold[meta[a]] = Fold[pkg]

\* A command none of whose steps failed spoils no alias that was sound when it
\* began, be it its own or another package's, shared or not: what DropLinks
\* deletes, what NewLinks makes and what LinkMetaStore records agree.  The
\* exception is a package that is removed by another spelling of its name
\* (launcher.cc:81 compares exactly, commands.remove.cc:13 and :28 do not).
QuietKeepsSound ==
  Done /\ faults = {} => \A a \in sound : Sound(a) \/ Misspelt(a)

\* A command touches only the aliases its manifest asks for and those recorded
\* for its package; the records of others it loses only when it cannot read
\* them (LinkMetaStore, launcher.cc:26).
OthersUntouched ==
  [][\A a \in Aliases \ (want.links \union want.launchers) :
       \/ meta[a] = pkg
       \/ links'[a] = links[a]
          /\ (meta'[a] = meta[a] \/ "unrecorded" \in faults')]_vars
=============================================================================
