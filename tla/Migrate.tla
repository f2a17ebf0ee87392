------------------------------ MODULE Migrate -------------------------------
(***************************************************************************)
(* baulk-migrate (tools/baulk-migrate/migrate.cc): it moves the folders of *)
(* a legacy installation (baulk <= 3) to the places of the portable layout *)
(* (lib/vfs/table.cc) one after the other and then writes baulk.env, the   *)
(* file every tool of baulk chooses its layout by (lib/vfs/vfs.cc).        *)
(*                                                                         *)
(* Each move may fail, which ends the run, and the process may be killed   *)
(* between any two steps; the user may run it again.  Any command of baulk *)
(* creates the folders of the current layout that are missing.             *)
(***************************************************************************)
EXTENDS Naturals, Sequences

CONSTANT MigrateFaults   \* bound: the failed moves and the kills

ASSUME MigrateAssumption == MigrateFaults \in Nat

\* The order of Migrator::Execute.  The legacy temp folder, which holds the
\* pid file of the mutex, lies in the legacy packages folder.
Order == <<"appData", "etc", "vfs", "temp", "packages", "locks", "buckets",
           "appLinks">>
Folders == {"appData", "etc", "vfs", "temp", "packages", "locks", "buckets",
            "appLinks"}

\* The folders whose path is the same in both layouts.
Equivalent == {"buckets"}

VARIABLES
  env,      \* the mode in baulk.env, "torn" when the file is truncated
  data,     \* the layout at whose path the user's data of a folder is
  legacy,   \* the legacy paths that exist
  portable, \* the portable paths that exist
  mpc,      \* what the migrator does next
  at,       \* the move it makes next
  mfaults

layout == <<env, data, legacy, portable>>
migrator == <<mpc, at, mfaults>>

Moves == 1 .. Len(Order)

MigrateTypeOK ==
  /\ env \in {"Legacy", "Portable", "torn"}
  /\ data \in [Folders -> {"legacy", "portable"}]
  /\ legacy \subseteq Folders /\ portable \subseteq Folders
  /\ mpc \in {"idle", "move", "env", "fill"} /\ at \in Moves
  /\ mfaults \in 0 .. MigrateFaults

MigrateInit ==
  /\ env = "Legacy"
  /\ data = [f \in Folders |-> "legacy"]
  /\ legacy = Folders /\ portable = Equivalent
  /\ mpc = "idle" /\ at = 1 /\ mfaults = 0

\* InitializePathFs, which every command of baulk begins with: it fails when
\* baulk.env cannot be parsed.
NewFsPaths ==
  /\ \/ env = "Legacy" /\ legacy' = Folders /\ UNCHANGED portable
     \/ env = "Portable" /\ portable' = Folders /\ UNCHANGED legacy
  /\ UNCHANGED <<env, data, migrator>>

\* The migrator makes its pid file in the temp folder of the legacy layout
\* and deletes it at once.
IsLocked == "temp" \notin legacy

MigrateStart ==
  /\ mpc = "idle" /\ env = "Legacy" /\ ~IsLocked
  /\ mpc' = "move" /\ at' = 1
  /\ UNCHANGED <<layout, mfaults>>

Fault == mfaults < MigrateFaults /\ mfaults' = mfaults + 1

\* A rename moves a folder to a path that does not exist, with what it holds.
Rename(f) ==
  /\ f \in legacy /\ f \notin portable
  /\ data' = [data EXCEPT ![f] = "portable"]
  /\ legacy' = legacy \ (IF f = "packages" THEN {f, "temp"} ELSE {f})
  /\ portable' = portable \union {f}

\* Slip: one move too many.
MoveNextOver ==
  IF at > Len(Order) THEN mpc' = "env" /\ UNCHANGED at
  ELSE at' = at + 1 /\ UNCHANGED mpc

MoveNext ==
  IF at = Len(Order) THEN mpc' = "env" /\ UNCHANGED at
  ELSE at' = at + 1 /\ UNCHANGED mpc

\* Slip: a source that is not there is an error.
moveFolderStrict(f) ==
  \/ f \in Equivalent /\ UNCHANGED layout
  \/ f \notin Equivalent /\ Rename(f) /\ UNCHANGED env

\* moveFolder: nothing to do, or no source, or the rename.
moveFolder(f) ==
  \/ f \in Equivalent /\ UNCHANGED layout
  \/ /\ f \notin legacy
     /\ portable' = portable \union {f} /\ UNCHANGED <<env, data, legacy>>
  \/ f \notin Equivalent /\ Rename(f) /\ UNCHANGED env

MoveFolder ==
  /\ mpc = "move"
  /\ moveFolder(Order[at]) /\ MoveNext /\ UNCHANGED mfaults

\* A folder is not renamed to a path that exists.
MoveFolderRefused ==
  /\ mpc = "move" /\ Order[at] \in (legacy \intersect portable) \ Equivalent
  /\ mpc' = "idle" /\ UNCHANGED <<layout, at, mfaults>>

\* Something in the folder is in use.
MoveFolderFails ==
  /\ mpc = "move" /\ Fault
  /\ mpc' = "idle" /\ UNCHANGED <<layout, at>>

\* InitializePathFs of migrate.cc: WriteText truncates, then writes.
WriteEnv ==
  \/ mpc = "env" /\ env' = "torn" /\ mpc' = "fill"
     /\ UNCHANGED <<data, legacy, portable, at, mfaults>>
  \/ mpc = "fill" /\ env' = "Portable" /\ mpc' = "idle"
     /\ UNCHANGED <<data, legacy, portable, at, mfaults>>

MigratorKilled ==
  /\ mpc # "idle" /\ Fault
  /\ mpc' = "idle" /\ UNCHANGED <<layout, at>>

-----------------------------------------------------------------------------
\* baulk.env says Portable only when the data of every folder is where the
\* portable layout looks for it: Execute writes it after the last move, and
\* an update of baulk itself does not replace it.
PortableMeansMoved == env = "Portable" => \A f \in Folders \ Equivalent : data[f] = "portable"

\* What keeps a migration that was stopped from being run again: it had moved
\* the temp folder, where IsLocked makes its pid file, or a command of baulk
\* has created anew a legacy folder that had been moved, or baulk.env was
\* being written.
Stuck ==
  /\ mpc = "idle"
  /\ \/ env = "torn"
     \/ data["temp"] = "portable"
     \/ legacy \intersect portable # Equivalent

\* Otherwise running it again completes it, however it failed before (Execute
\* takes a folder that is no longer there for moved; docs/help.md:13 calls it the
\* easy migration tool).
MigrationCompletesUnlessStuck == <>(env = "Portable" \/ Stuck)
=============================================================================
