----------------------------- MODULE SelfUpdate -----------------------------
(***************************************************************************)
(* baulk-update (tools/baulk-update): it compares the version baulk-exec   *)
(* reports with the latest release, or takes the release it is told to     *)
(* (-S), extracts it into the temp folder, moves its files over the        *)
(* installed ones (apply_baulk_files) and replaces the two programs that   *)
(* may be running, baulk-exec.exe and itself, by renaming them aside       *)
(* first.                                                                  *)
(*                                                                         *)
(* A version is a number, 0 where the file is missing.  Each rename may    *)
(* fail and the process may be killed between any two.                     *)
(***************************************************************************)
EXTENDS Naturals

CONSTANTS
  Files,         \* the files of a release but for the four named below
  MaxVersion,    \* bound: the releases
  UpdateFaults   \* bound: the failed renames, the kills and the runs with -S

ASSUME SelfUpdateAssumption ==
  /\ MaxVersion \in Nat \ {0} /\ UpdateFaults \in Nat
  /\ Files \intersect {"exec", "update", "profile", "env"} = {}

Items == Files \union {"exec", "update", "profile", "env"}

VARIABLES
  latest,   \* the latest release
  prog,     \* the version of each installed file
  dest,     \* the files that are in the folder of the extracted release
  target,   \* its version
  upc, todo,
  stale,    \* history: the files whose last move failed
  older,    \* history: a release older than baulk-exec was taken, and no
            \* run has replaced baulk-exec since
  ufaults

updater == <<latest, prog, dest, target, upc, todo, stale, older, ufaults>>

Versions == 0 .. MaxVersion

UpdateTypeOK ==
  /\ latest \in Versions \ {0} /\ target \in Versions
  /\ prog \in [Items -> Versions]
  /\ dest \subseteq Items /\ todo \subseteq Items /\ stale \subseteq Items
  /\ older \in BOOLEAN
  /\ upc \in {"idle", "apply", "exec", "swapExec", "overExec", "newExec",
              "update", "swapUpdate"}
  /\ ufaults \in 0 .. UpdateFaults

UpdateInit ==
  /\ latest = 1 /\ prog = [i \in Items |-> 1]
  /\ dest = {} /\ target = 0 /\ upc = "idle" /\ todo = {} /\ stale = {}
  /\ older = FALSE /\ ufaults = 0

Release ==
  /\ latest < MaxVersion /\ latest' = latest + 1
  /\ UNCHANGED <<prog, dest, target, upc, todo, stale, older, ufaults>>

\* Slip: filter_paths does not list baulk.env.
filter_pathsNoEnv == {"exec", "update", "profile"}

filter_paths == {"exec", "update", "profile", "env"}

UFault == ufaults < UpdateFaults /\ ufaults' = ufaults + 1

\* latest_download_url, download_file and extract_file for release v.  Without
\* a baulk-exec that runs, no version is detected and nothing is done.
Fetch(v) ==
  /\ upc = "idle" /\ prog["update"] # 0 /\ prog["exec"] # 0
  /\ dest' = Items /\ target' = v
  /\ todo' = Items \ filter_paths /\ upc' = "apply"
  /\ older' = (older \/ v < prog["exec"])
  /\ UNCHANGED <<latest, prog, stale>>

\* baulk-update, which may have nothing to do, with -F, and with -S, which asks
\* for any release there is.
FetchLatest == latest > prog["exec"] /\ Fetch(latest) /\ UNCHANGED ufaults
FetchForced == Fetch(latest) /\ UNCHANGED ufaults
FetchSpecified == \E v \in 1 .. latest : Fetch(v) /\ UFault

\* rename_file of a file of the release over an installed one.
Put(i) ==
  /\ i \in dest /\ dest' = dest \ {i}
  /\ prog' = [prog EXCEPT ![i] = target]
  /\ UNCHANGED ufaults

\* It fails because the file of the release is gone, or for another reason.
PutFails(i) ==
  /\ \/ i \notin dest /\ UNCHANGED ufaults
     \/ UFault
  /\ UNCHANGED <<prog, dest>>

\* checked_move_file: a failure is not looked at.
Move(i) ==
  /\ upc = "apply" /\ i \in todo
  /\ todo' = todo \ {i}
  /\ \/ Put(i) /\ stale' = stale \ {i}
     \/ PutFails(i) /\ stale' = stale \union {i}
  /\ UNCHANGED <<latest, target, upc, older>>

Goto(l) == upc' = l /\ UNCHANGED <<latest, target, todo, stale>>

\* A step that leaves baulk-exec as old as it was.
Leaves(l) == Goto(l) /\ UNCHANGED older

\* Slip: baulk-exec.exe is replaced before the files.
ApplyDoneEarly == upc = "apply" /\ Leaves("exec") /\ UNCHANGED <<prog, dest, ufaults>>

ApplyDone ==
  /\ upc = "apply" /\ todo = {}
  /\ Leaves("exec") /\ UNCHANGED <<prog, dest, ufaults>>

\* rename_file of an installed program to its .del name.
Aside(i, next) ==
  /\ prog' = [prog EXCEPT ![i] = 0] /\ Leaves(next) /\ UNCHANGED <<dest, ufaults>>

\* Slip: the new baulk-exec is only left beside the running one.
ExecAsideNew ==
  /\ upc = "exec" /\ Leaves("update") /\ UNCHANGED <<prog, dest, ufaults>>

ExecAside ==
  /\ upc = "exec"
  /\ \/ Aside("exec", "swapExec")
     \/ UFault /\ Leaves("overExec") /\ UNCHANGED <<prog, dest>>

Replaced == Goto("update") /\ older' = FALSE

\* The rename into the free place, and, when a rename failed, the second one.
ExecPut ==
  \/ /\ upc = "swapExec"
     /\ \/ Put("exec") /\ Replaced
        \/ PutFails("exec") /\ Leaves("overExec")
  \/ /\ upc = "overExec"
     /\ \/ Put("exec") /\ Replaced
        \/ PutFails("exec") /\ Leaves("newExec")

\* At last as baulk-exec.new, which counts as success.
ExecNew ==
  /\ upc = "newExec"
  /\ \/ /\ "exec" \in dest /\ dest' = dest \ {"exec"}
        /\ Leaves("update") /\ UNCHANGED <<prog, ufaults>>
     \/ PutFails("exec") /\ Leaves("idle")

replace_baulk_update ==
  \/ /\ upc = "update"
     /\ \/ Aside("update", "swapUpdate")
        \/ UFault /\ Leaves("idle") /\ UNCHANGED <<prog, dest>>
  \/ /\ upc = "swapUpdate" /\ Leaves("idle")
     /\ Put("update") \/ PutFails("update")

UpdaterKilled ==
  /\ upc # "idle" /\ UFault
  /\ Leaves("idle") /\ UNCHANGED <<prog, dest>>

\* A run goes on.
UpdateStep ==
  \/ ApplyDone \/ ExecAside \/ ExecPut \/ ExecNew \/ replace_baulk_update
  \/ \E i \in Items : Move(i)

-----------------------------------------------------------------------------
\* The version that decides whether there is anything to update, that of
\* baulk-exec, is never ahead of a file whose move did not fail, wherever the
\* updater is killed, as Execute replaces baulk-exec after the files; only an
\* older release (-S) that was not brought to the end may leave it ahead.
ExecNotAhead == older \/ \A f \in Files \ stale : prog[f] >= prog["exec"]
=============================================================================
