------------------------------- MODULE Upkeep -------------------------------
(***************************************************************************)
(* baulk-migrate and baulk-update at work on one installation, together    *)
(* with other commands of baulk.  They share two things: baulk.env, which  *)
(* the migrator writes and the updater must leave alone, and the temp      *)
(* folder, which the migrator moves away while the updater may have a      *)
(* release extracted there.  Neither holds the mutex while it works.       *)
(***************************************************************************)
EXTENDS Migrate, SelfUpdate

vars == <<layout, migrator, updater>>

Init == MigrateInit /\ UpdateInit

\* Moving the temp folder, or the packages folder around it, takes the
\* extracted release out of the updater's reach, which has its path.
MigratorMoves ==
  /\ MoveFolder
  /\ dest' = IF "temp" \in legacy \ legacy' THEN {} ELSE dest
  /\ UNCHANGED <<latest, prog, target, upc, todo, stale, older, ufaults>>

Migrating ==
  \/ MigratorMoves
  \/ (MigrateStart \/ MoveFolderRefused \/ WriteEnv) /\ UNCHANGED updater

MigratorStops == (MoveFolderFails \/ MigratorKilled) /\ UNCHANGED updater

\* A baulk.env that came with a release says Portable.
EnvOf(step) ==
  /\ step
  /\ env' = IF prog'["env"] # prog["env"] THEN "Portable" ELSE env
  /\ UNCHANGED <<data, legacy, portable, migrator>>

\* A run begins with InitializeFastPathFs, which fails when baulk.env cannot be
\* parsed, and download_file creates the temp folder of the layout (the legacy
\* one with the packages folder around it).
Begins(fetch) ==
  /\ env # "torn" /\ fetch
  /\ legacy' = legacy \union (IF env = "Legacy" THEN {"temp", "packages"} ELSE {})
  /\ portable' = portable \union (IF env = "Portable" THEN {"temp"} ELSE {})
  /\ UNCHANGED <<env, data, migrator>>

Updating == EnvOf(UpdateStep) \/ Begins(FetchLatest)

Next ==
  \/ Migrating \/ MigratorStops
  \/ NewFsPaths /\ UNCHANGED updater
  \/ Updating
  \/ Begins(FetchForced \/ FetchSpecified)
  \/ EnvOf(Release \/ UpdaterKilled)

Spec == Init /\ [][Next]_vars

\* A user who runs each of the two tools until it is done: what they start
\* they run to the end, and they start them again after they stopped.
FairSpec == Spec /\ WF_vars(Migrating) /\ WF_vars(Updating)

TypeOK == MigrateTypeOK /\ UpdateTypeOK

\* What no further run of baulk-update repairs: without baulk-exec it detects
\* no version, without baulk-update there is nothing to run, with a baulk.env
\* that was being written when the migrator was killed every run fails, and
\* the files of an older release beside the latest baulk-exec are taken for up
\* to date.
Lost ==
  /\ upc = "idle"
  /\ \/ prog["exec"] = 0 \/ prog["update"] = 0
     \/ env = "torn"
     \/ older /\ prog["exec"] = latest

\* Otherwise running it again brings every file to the latest release, but
\* for those whose move failed (Execute; the versions are compared in
\* latest_download_url).
UpdateCompletes ==
  []<>(Lost \/ \A i \in (Files \union {"exec"}) \ stale : prog[i] = latest)
=============================================================================
