---------------------------- MODULE UpkeepProofs ----------------------------
(***************************************************************************)
(* Proofs about Upkeep, for any files of a release and any bounds.         *)
(*                                                                         *)
(* Two invariants, one for each tool.  Moved: what has gone from a legacy  *)
(* path is at its portable one, so that the migrator may pass over it, and *)
(* it has passed over everything when it writes baulk.env.  InOrder: the   *)
(* files are at the fetched version when baulk-exec is replaced.           *)
(***************************************************************************)
EXTENDS Upkeep, TLAPS

\* The data of folder f has been moved, or has no need to be.
Settled(f) == f \in Equivalent \/ data[f] = "portable"

Moved ==
  /\ data \in [Folders -> {"legacy", "portable"}]
  /\ at \in Moves
  /\ \A f \in Folders : f \in legacy \/ Settled(f)
  /\ mpc = "move" => \A j \in 1 .. at - 1 : Settled(Order[j])
  /\ mpc \in {"env", "fill"} => \A f \in Folders : Settled(f)
  /\ PortableMeansMoved

\* What comes after apply_baulk_files.
Applied == {"exec", "swapExec", "overExec", "newExec", "update", "swapUpdate"}

InOrder ==
  /\ latest \in Nat \ {0} /\ target \in Nat /\ prog \in [Items -> Nat]
  /\ todo \subseteq Files
  /\ upc \in Applied \union {"idle", "apply"}
  /\ target <= latest /\ prog["exec"] <= latest
  /\ older \in BOOLEAN
  /\ older \/ upc = "idle" \/ prog["exec"] <= target
  /\ upc = "apply" => \A f \in Files \ (stale \union todo) : prog[f] >= target
  /\ upc \in Applied => \A f \in Files \ stale : prog[f] >= target
  /\ ExecNotAhead

\* The order of the moves has every folder in it.
LEMMA Orders ==
  /\ Len(Order) = 8 /\ Moves = 1 .. 8
  /\ \A j \in Moves : Order[j] \in Folders
  /\ \A f \in Folders : \E j \in Moves : f = Order[j]
  /\ \A j \in Moves : Order[j] = "packages" => 4 < j
  /\ Order[4] = "temp"
<1>1. Len(Order) = 8
  BY DEF Order
<1>2. Moves = 1 .. 8
  BY <1>1 DEF Moves
<1>3. /\ Order[1] = "appData" /\ Order[2] = "etc" /\ Order[3] = "vfs"
      /\ Order[4] = "temp" /\ Order[5] = "packages" /\ Order[6] = "locks"
      /\ Order[7] = "buckets" /\ Order[8] = "appLinks"
  BY DEF Order
<1>4. \A j \in 1 .. 8 : j \in {1, 2, 3, 4, 5, 6, 7, 8}
  OBVIOUS
<1>5. \A j \in Moves : Order[j] \in Folders /\ (Order[j] = "packages" => 4 < j)
  BY <1>2, <1>3, <1>4 DEF Folders
<1>6. \A f \in Folders : \E j \in Moves : f = Order[j]
  BY <1>2, <1>3 DEF Folders
<1> QED BY <1>1, <1>2, <1>3, <1>5, <1>6

LEMMA InitOK == Init => Moved /\ InOrder
<1> SUFFICES ASSUME Init PROVE Moved /\ InOrder
  OBVIOUS
<1>1. Moved
  BY Orders DEF Init, MigrateInit, Moved, PortableMeansMoved, Settled
<1>2. prog \in [Items -> Nat] /\ \A i \in Items : prog[i] = 1
  BY DEF Init, UpdateInit
<1>3. Files \subseteq Items /\ "exec" \in Items
  BY DEF Items
<1>4. ExecNotAhead
  BY <1>2, <1>3 DEF ExecNotAhead
<1>5. /\ older \in BOOLEAN /\ upc = "idle" /\ todo = {}
      /\ latest = 1 /\ target = 0
  BY DEF Init, UpdateInit
<1>6. InOrder
  BY <1>2, <1>3, <1>4, <1>5 DEF InOrder, Applied
<1> QED BY <1>1, <1>6

\* The steps of the migrator, and the folders other commands create.
LEMMA MigrateOK ==
  ASSUME Moved,
         \/ NewFsPaths \/ MigrateStart \/ MoveFolder \/ MoveFolderRefused
         \/ WriteEnv \/ MoveFolderFails \/ MigratorKilled
  PROVE  Moved'
<1>1. CASE NewFsPaths
  BY <1>1 DEF NewFsPaths, migrator, Moved, PortableMeansMoved, Settled
<1>2. CASE MigrateStart
  BY <1>2, Orders DEF MigrateStart, layout, Moved, PortableMeansMoved, Settled
<1>3. CASE MoveFolder
  <2>0. PICK f \in Folders : f = Order[at]
    BY Orders DEF Moved
  <2>1. mpc = "move" /\ moveFolder(f) /\ MoveNext /\ env' = env
    BY <1>3, <2>0 DEF MoveFolder, moveFolder, layout, Rename
  <2>2. at \in 1 .. 8
    BY Orders DEF Moved
  <2>3. /\ data' \in [Folders -> {"legacy", "portable"}]
        /\ \A g \in Folders : Settled(g) => Settled(g)'
        /\ Settled(f)'
        /\ \A g \in Folders : g \in legacy' \/ Settled(g)'
    <3>1. CASE f \in Equivalent /\ UNCHANGED layout
      BY <3>1 DEF layout, Moved, Settled
    <3>2. CASE f \notin legacy /\ UNCHANGED <<env, data, legacy>>
      BY <2>2, <3>2 DEF Moved, Settled
    <3>3. CASE f \notin Equivalent /\ Rename(f)
      <4>1. /\ data' = [data EXCEPT ![f] = "portable"]
            /\ legacy' = legacy \ (IF f = "packages" THEN {f, "temp"} ELSE {f})
        BY <3>3 DEF Rename
      <4>2. /\ data' \in [Folders -> {"legacy", "portable"}]
            /\ \A g \in Folders : Settled(g) => Settled(g)'
            /\ Settled(f)'
        BY <2>2, <4>1 DEF Moved, Settled
      <4>3. f = "packages" => Settled("temp")
        <5>1. f = "packages" => 4 \in 1 .. at - 1
          <6>1. at \in Moves /\ (Order[at] = "packages" => 4 < at)
            BY Orders DEF Moved
          <6> QED BY <2>0, <2>2, <6>1
        <5>2. 4 \in 1 .. at - 1 => Settled(Order[4])
          BY <2>1 DEF Moved
        <5> QED BY <5>1, <5>2, Orders
      <4>4. "temp" \in Folders
        BY DEF Folders
      <4>5. ASSUME NEW g \in Folders
            PROVE  g \in legacy' \/ Settled(g)'
        <5>1. CASE g \in legacy /\ g \notin legacy'
          BY <4>1, <4>2, <4>3, <4>4, <5>1
        <5>2. CASE g \notin legacy
          BY <4>2, <5>2 DEF Moved
        <5> QED BY <5>1, <5>2
      <4> QED BY <4>2, <4>5
    <3> QED BY <2>1, <3>1, <3>2, <3>3 DEF moveFolder
  <2>4. \A j \in 1 .. at : Settled(Order[j])'
    <3> SUFFICES ASSUME NEW j \in 1 .. at PROVE Settled(Order[j])'
      OBVIOUS
    <3>1. CASE j = at
      BY <2>0, <2>3, <3>1
    <3>2. CASE j # at
      BY <2>1, <2>2, <2>3, <3>2, Orders DEF Moved
    <3> QED BY <3>1, <3>2
  <2>5. PortableMeansMoved'
    BY <2>1, <2>3 DEF Moved, PortableMeansMoved, Settled
  <2>6. CASE at = 8
    <3>1. mpc' = "env" /\ at' = at
      BY <2>1, <2>6, Orders DEF MoveNext
    <3>2. \A g \in Folders : Settled(g)'
      BY <2>4, <2>6, Orders
    <3> QED BY <2>2, <2>3, <2>5, <3>1, <3>2, Orders DEF Moved
  <2>7. CASE at # 8
    <3>1. mpc' = "move" /\ at' = at + 1
      BY <2>1, <2>7, Orders DEF MoveNext
    <3> QED BY <2>2, <2>3, <2>4, <2>5, <2>7, <3>1, Orders DEF Moved
  <2> QED BY <2>6, <2>7
<1>4. CASE MoveFolderRefused \/ MoveFolderFails \/ MigratorKilled
  BY <1>4 DEF MoveFolderRefused, MoveFolderFails, MigratorKilled, layout, Moved,
              PortableMeansMoved, Settled
<1>5. CASE WriteEnv
  BY <1>5 DEF WriteEnv, Moved, PortableMeansMoved, Settled
<1> QED BY <1>1, <1>2, <1>3, <1>4, <1>5

LEMMA FilesApart ==
  /\ Files \subseteq Items /\ {"exec", "update", "env"} \subseteq Items
  /\ "exec" \notin Files /\ "update" \notin Files /\ "env" \notin Files
  BY SelfUpdateAssumption DEF Items

\* A file of the release takes the place of an ordinary one.
LEMMA MoveOK ==
  ASSUME InOrder, NEW i \in Items, Move(i)
  PROVE  InOrder' /\ prog'["env"] = prog["env"]
<1>1. /\ upc = "apply" /\ upc' = "apply" /\ i \in todo /\ todo' = todo \ {i}
      /\ latest' = latest /\ target' = target /\ older' = older
  BY DEF Move
<1>2. i \in Files /\ i # "exec" /\ i # "env" /\ target \in Nat
  BY <1>1, FilesApart DEF InOrder
<1>3. CASE Put(i) /\ stale' = stale \ {i}
  <2>1. prog' = [prog EXCEPT ![i] = target]
    BY <1>3 DEF Put
  <2>2. /\ prog' \in [Items -> Nat] /\ prog'[i] = target
        /\ \A j \in Items \ {i} : prog'[j] = prog[j]
    BY <1>2, <2>1 DEF InOrder
  <2>3. prog'["exec"] = prog["exec"] /\ prog'["env"] = prog["env"]
    BY <1>2, <2>2, FilesApart
  <2>4. ExecNotAhead'
    BY <1>1, <1>2, <1>3, <2>2, <2>3, FilesApart DEF InOrder, ExecNotAhead
  <2>5. \A f \in Files \ (stale' \union todo') : prog'[f] >= target
    BY <1>1, <1>2, <1>3, <2>2, FilesApart DEF InOrder
  <2> QED BY <1>1, <2>2, <2>3, <2>4, <2>5 DEF InOrder, Applied
<1>4. CASE PutFails(i) /\ stale' = stale \union {i}
  BY <1>1, <1>4 DEF PutFails, InOrder, ExecNotAhead, Applied
<1> QED BY <1>3, <1>4 DEF Move

\* baulk-exec or baulk-update is put aside, put in place or left alone.
LEMMA ReplaceOK ==
  ASSUME InOrder, upc \in Applied, upc' \in Applied \union {"idle"},
         UNCHANGED <<latest, target, todo, stale>>,
         NEW i \in {"exec", "update"}, NEW v \in {0, target},
         \/ prog' \in {prog, [prog EXCEPT ![i] = v]} /\ older' = older
         \/ prog' = [prog EXCEPT !["exec"] = target] /\ older' = FALSE
  PROVE  InOrder' /\ prog'["env"] = prog["env"]
<1>1. v \in Nat /\ v <= target /\ i \in Items /\ i \notin Files /\ i # "env"
  BY FilesApart DEF InOrder
<1>2. /\ prog' \in [Items -> Nat] /\ \A f \in Files : prog'[f] = prog[f]
      /\ prog'["env"] = prog["env"]
      /\ prog'["exec"] \in {prog["exec"], v, target}
      /\ prog'["exec"] \in {v, target} \/ older' = older
  BY <1>1, FilesApart DEF InOrder
<1>3. prog["exec"] \in Nat /\ target \in Nat /\ latest \in Nat /\ older' \in BOOLEAN
  BY FilesApart DEF InOrder, Applied
<1>4. /\ older' \/ prog'["exec"] <= target
      /\ prog'["exec"] <= latest
  BY <1>1, <1>2, <1>3 DEF InOrder, Applied
<1>5. \A f \in Files \ stale : prog'[f] >= target /\ prog'[f] \in Nat
  BY <1>2, FilesApart DEF InOrder
<1>6. ExecNotAhead'
  BY <1>1, <1>2, <1>3, <1>4, <1>5 DEF ExecNotAhead
<1> QED BY <1>2, <1>3, <1>4, <1>5, <1>6 DEF InOrder, Applied

\* The ways a run of baulk-update begins.
Fetches == FetchLatest \/ FetchForced \/ FetchSpecified

LEMMA FetchesOne ==
  ASSUME latest \in Nat \ {0}, Fetches
  PROVE  \E v \in 1 .. latest : Fetch(v)
  BY DEF Fetches, FetchLatest, FetchForced, FetchSpecified

LEMMA UpdateOK ==
  ASSUME InOrder, UpdateStep \/ Release \/ Fetches \/ UpdaterKilled
  PROVE  InOrder' /\ prog'["env"] = prog["env"]
<1>1. CASE Release
  BY <1>1, FilesApart DEF Release, InOrder, ExecNotAhead, Applied
<1>2. CASE Fetches
  <2>1. PICK v \in 1 .. latest : Fetch(v)
    BY <1>2, FetchesOne DEF InOrder
  <2>2. /\ upc' = "apply" /\ target' = v /\ todo' = Items \ filter_paths
        /\ older' = (older \/ v < prog["exec"])
        /\ UNCHANGED <<latest, prog, stale>>
    BY <2>1 DEF Fetch
  <2>3. todo' = Files
    BY <2>2, SelfUpdateAssumption DEF Items, filter_paths
  <2>4. prog["exec"] \in Nat /\ v \in Nat /\ v <= latest /\ older' \in BOOLEAN
    BY <2>2, FilesApart DEF InOrder
  <2>5. older' \/ prog["exec"] <= v
    <3>1. CASE v < prog["exec"]
      BY <2>2, <3>1
    <3>2. CASE ~(v < prog["exec"])
      BY <2>4, <3>2
    <3> QED BY <3>1, <3>2
  <2>6. ExecNotAhead'
    BY <2>2 DEF InOrder, ExecNotAhead
  <2> QED BY <2>2, <2>3, <2>4, <2>5, <2>6 DEF InOrder, Applied
<1>3. ASSUME NEW i \in Items, Move(i)
      PROVE  InOrder' /\ prog'["env"] = prog["env"]
  BY <1>3, MoveOK
<1>4. CASE ApplyDone
  BY <1>4 DEF ApplyDone, Leaves, Goto, InOrder, ExecNotAhead, Applied
<1>5. CASE UpdaterKilled
  BY <1>5 DEF UpdaterKilled, Leaves, Goto, InOrder, ExecNotAhead, Applied
<1>6. CASE ExecAside
  <2>1. /\ upc \in Applied /\ upc' \in Applied /\ UNCHANGED <<latest, target, todo, stale>>
        /\ prog' \in {prog, [prog EXCEPT !["exec"] = 0]} /\ older' = older
    BY <1>6 DEF ExecAside, Aside, Leaves, Goto, Applied
  <2> QED BY <2>1, ReplaceOK
<1>7. CASE ExecPut
  <2>1. /\ upc \in Applied /\ upc' \in Applied /\ UNCHANGED <<latest, target, todo, stale>>
        /\ \/ prog' = prog /\ older' = older
           \/ prog' = [prog EXCEPT !["exec"] = target] /\ older' = FALSE
    BY <1>7 DEF ExecPut, Put, PutFails, Leaves, Replaced, Goto, Applied
  <2> QED BY <2>1, ReplaceOK
<1>8. CASE ExecNew
  <2>1. /\ upc \in Applied /\ upc' \in Applied \union {"idle"}
        /\ UNCHANGED <<latest, target, todo, stale>> /\ prog' = prog
        /\ older' = older
    BY <1>8 DEF ExecNew, PutFails, Leaves, Goto, Applied
  <2> QED BY <2>1, ReplaceOK
<1>9. CASE replace_baulk_update
  <2>1. /\ upc \in Applied /\ upc' \in Applied \union {"idle"}
        /\ UNCHANGED <<latest, target, todo, stale, older>>
    BY <1>9 DEF replace_baulk_update, Aside, Put, PutFails, Leaves, Goto, Applied
  <2>2. \/ prog' \in {prog, [prog EXCEPT !["update"] = 0]}
        \/ prog' \in {prog, [prog EXCEPT !["update"] = target]}
    BY <1>9 DEF replace_baulk_update, Aside, Put, PutFails, Leaves, Goto
  <2> QED BY <2>1, <2>2, ReplaceOK
<1> QED BY <1>1, <1>2, <1>3, <1>4, <1>5, <1>6, <1>7, <1>8, <1>9 DEF UpdateStep

\* What a step of Next is.
LEMMA StepIs ==
  ASSUME Next
  PROVE  \/ Migrating \/ MigratorStops \/ (NewFsPaths /\ UNCHANGED updater)
         \/ EnvOf(UpdateStep) \/ EnvOf(Release \/ UpdaterKilled)
         \/ Begins(Fetches)
  BY DEF Next, Updating, Begins, Fetches

\* The two tools together: the updater leaves baulk.env alone, and what the
\* migrator takes from it is only the extracted release.
LEMMA StepOK == Moved /\ InOrder /\ [Next]_vars => (Moved /\ InOrder)'
<1> SUFFICES ASSUME Moved, InOrder, [Next]_vars PROVE Moved' /\ InOrder'
  OBVIOUS
<1>1. CASE UNCHANGED vars
  BY <1>1 DEF vars, layout, migrator, updater, Moved, PortableMeansMoved, Settled, InOrder,
              ExecNotAhead
<1>2. ASSUME UNCHANGED <<latest, prog, target, upc, todo, stale, older>>
      PROVE  InOrder'
  BY <1>2 DEF InOrder, ExecNotAhead
<1>3. CASE Migrating \/ MigratorStops \/ (NewFsPaths /\ UNCHANGED updater)
  <2>1. \/ NewFsPaths \/ MigrateStart \/ MoveFolder \/ MoveFolderRefused
        \/ WriteEnv \/ MoveFolderFails \/ MigratorKilled
    BY <1>3 DEF Migrating, MigratorMoves, MigratorStops
  <2>2. UNCHANGED <<latest, prog, target, upc, todo, stale, older>>
    BY <1>3 DEF Migrating, MigratorMoves, MigratorStops, updater
  <2> QED BY <1>2, <2>1, <2>2, MigrateOK
<1>4. CASE EnvOf(UpdateStep) \/ EnvOf(Release \/ UpdaterKilled)
  <2>1. /\ UpdateStep \/ Release \/ UpdaterKilled
        /\ env' = IF prog'["env"] # prog["env"] THEN "Portable" ELSE env
        /\ UNCHANGED <<data, legacy, portable, migrator>>
    BY <1>4 DEF EnvOf
  <2>2. InOrder' /\ env' = env
    BY <2>1, UpdateOK
  <2> QED BY <2>1, <2>2 DEF migrator, Moved, PortableMeansMoved, Settled
<1>5. CASE Begins(Fetches)
  <2>1. Fetches /\ legacy \subseteq legacy' /\ UNCHANGED <<env, data, migrator>>
    BY <1>5 DEF Begins
  <2>2. InOrder'
    BY <2>1, UpdateOK
  <2> QED BY <2>1, <2>2 DEF migrator, Moved, PortableMeansMoved, Settled
<1> QED BY <1>1, <1>3, <1>4, <1>5, StepIs

\* baulk.env says Portable only when everything has been moved, however often
\* the migration failed, whatever else ran and whichever release came.
THEOREM PortableAlwaysMoved == Spec => []PortableMeansMoved
<1>1. Moved => PortableMeansMoved
  BY DEF Moved
<1> QED BY <1>1, InitOK, StepOK, PTL DEF Spec

\* The version that decides about the next update is never ahead of a file
\* whose move did not fail, unless an older release that was asked for (-S) has
\* not been brought to the end (replace_baulk_files after apply_baulk_files).
THEOREM ExecNeverAhead == Spec => []ExecNotAhead
<1>1. InOrder => ExecNotAhead
  BY DEF InOrder
<1> QED BY <1>1, InitOK, StepOK, PTL DEF Spec

\* The migrator works on an installation in the legacy layout, and truncates
\* baulk.env only at the end.
Awaited ==
  /\ mpc \in {"move", "env"} => env = "Legacy"
  /\ mpc = "fill" => env = "torn"

\* Once baulk.env says Portable it does for good: no run of the migrator, no
\* update, failure or kill takes an installation back to the other layout
\* (migrate.cc Execute, and filter_paths of baulk-update).
PortableForGood == [][env = "Portable" => env' = "Portable"]_vars

THEOREM PortableStays == Spec => PortableForGood
<1>1. Init => Awaited
  BY DEF Init, MigrateInit, Awaited
<1>2. Awaited /\ InOrder /\ [Next]_vars =>
        Awaited' /\ [env = "Portable" => env' = "Portable"]_vars
  <2> SUFFICES ASSUME Awaited, InOrder, [Next]_vars
               PROVE  Awaited' /\ (env = "Portable" => env' = "Portable")
    OBVIOUS
  <2>1. CASE UNCHANGED vars
    BY <2>1 DEF vars, layout, migrator, Awaited
  <2>2. CASE Migrating \/ MigratorStops \/ (NewFsPaths /\ UNCHANGED updater)
    <3>1. CASE NewFsPaths \/ MigrateStart
      BY <3>1 DEF NewFsPaths, MigrateStart, layout, migrator, Awaited
    <3>2. CASE MoveFolder
      BY <3>2 DEF MoveFolder, moveFolder, MoveNext, Rename, layout, Awaited
    <3>3. CASE MoveFolderRefused \/ MoveFolderFails \/ MigratorKilled
      BY <3>3 DEF MoveFolderRefused, MoveFolderFails, MigratorKilled, layout, Awaited
    <3>4. CASE WriteEnv
      BY <3>4 DEF WriteEnv, Awaited
    <3> QED BY <2>2, <3>1, <3>2, <3>3, <3>4 DEF Migrating, MigratorMoves, MigratorStops
  <2>3. CASE EnvOf(UpdateStep) \/ EnvOf(Release \/ UpdaterKilled) \/ Begins(Fetches)
    <3>1. UNCHANGED migrator /\ env' = env
      BY <2>3, UpdateOK DEF EnvOf, Begins
    <3> QED BY <3>1 DEF migrator, Awaited
  <2> QED BY <2>1, <2>2, <2>3, StepIs
<1> QED BY <1>1, <1>2, InitOK, StepOK, PTL DEF Spec, PortableForGood
-----------------------------------------------------------------------------
(***************************************************************************)
(* Type correctness, which is inductive as it stands.                      *)
(***************************************************************************)
LEMMA MigrateTyped ==
  ASSUME MigrateTypeOK,
         \/ NewFsPaths \/ MigrateStart \/ MoveFolder \/ MoveFolderRefused
         \/ WriteEnv \/ MoveFolderFails \/ MigratorKilled
  PROVE  MigrateTypeOK'
<1> USE DEF MigrateTypeOK
<1>1. CASE NewFsPaths
  BY <1>1 DEF NewFsPaths, migrator
<1>2. CASE MigrateStart \/ MoveFolderRefused
  BY <1>2, Orders DEF MigrateStart, MoveFolderRefused, layout
<1>3. CASE MoveFolder
  <2>1. PICK f \in Folders : f = Order[at]
    BY Orders
  <2>2. moveFolder(f) /\ MoveNext /\ UNCHANGED mfaults /\ mpc = "move"
    BY <1>3, <2>1 DEF MoveFolder, moveFolder, layout, Rename
  <2>3. /\ env' = env /\ data' \in [Folders -> {"legacy", "portable"}]
        /\ legacy' \subseteq Folders /\ portable' \subseteq Folders
    <3>1. CASE UNCHANGED layout
      BY <3>1 DEF layout
    <3>2. CASE portable' = portable \union {f} /\ UNCHANGED <<env, data, legacy>>
      BY <3>2
    <3>3. CASE Rename(f) /\ UNCHANGED env
      BY <3>3 DEF Rename
    <3> QED BY <2>2, <3>1, <3>2, <3>3 DEF moveFolder
  <2>4. mpc' \in {"move", "env"} /\ at' \in Moves
    BY <2>2, Orders DEF MoveNext
  <2> QED BY <2>2, <2>3, <2>4
<1>4. CASE WriteEnv
  BY <1>4 DEF WriteEnv
<1>5. CASE MoveFolderFails \/ MigratorKilled
  <2>1. mfaults' \in 0 .. MigrateFaults
    BY <1>5, MigrateAssumption DEF MoveFolderFails, MigratorKilled, Fault
  <2> QED BY <1>5, <2>1 DEF MoveFolderFails, MigratorKilled, layout
<1> QED BY <1>1, <1>2, <1>3, <1>4, <1>5

LEMMA UpdateTyped ==
  ASSUME UpdateTypeOK, UpdateStep \/ Release \/ Fetches \/ UpdaterKilled
  PROVE  UpdateTypeOK'
<1> USE DEF UpdateTypeOK
<1>1. 0 \in Versions /\ target \in Versions /\ latest \in Versions
  BY SelfUpdateAssumption DEF Versions
<1>2. UFault => ufaults' \in 0 .. UpdateFaults
  BY SelfUpdateAssumption DEF UFault
<1>3. ASSUME NEW i \in Items, Put(i) \/ PutFails(i)
      PROVE  /\ prog' \in [Items -> Versions] /\ dest' \subseteq Items
             /\ ufaults' \in 0 .. UpdateFaults
  BY <1>1, <1>2, <1>3 DEF Put, PutFails
<1>4. CASE Release
  <2>1. latest' \in Versions \ {0}
    BY <1>4, SelfUpdateAssumption DEF Release, Versions
  <2> QED BY <1>4, <2>1 DEF Release
<1>5. CASE Fetches
  <2>1. ufaults' \in 0 .. UpdateFaults
    BY <1>2, <1>5 DEF Fetches, FetchLatest, FetchForced, FetchSpecified
  <2>2. latest \in Nat \ {0} /\ \A v \in 1 .. latest : v \in Versions
    BY <1>1, SelfUpdateAssumption DEF Versions
  <2>3. PICK v \in 1 .. latest : Fetch(v)
    BY <1>5, <2>2, FetchesOne
  <2>4. /\ upc' = "apply" /\ dest' = Items /\ todo' \subseteq Items /\ target' = v
        /\ older' \in BOOLEAN /\ UNCHANGED <<latest, prog, stale>>
    BY <2>3 DEF Fetch
  <2> QED BY <2>1, <2>2, <2>4
<1>6. ASSUME NEW i \in Items, Move(i) PROVE UpdateTypeOK'
  <2>1. Put(i) \/ PutFails(i)
    BY <1>6 DEF Move
  <2> QED BY <1>3, <1>6, <2>1 DEF Move
<1>7. ASSUME NEW l \in Applied \union {"idle"}, Goto(l), older' \in BOOLEAN,
             prog' \in [Items -> Versions], dest' \subseteq Items,
             ufaults' \in 0 .. UpdateFaults
      PROVE  UpdateTypeOK'
  BY <1>7 DEF Goto, Applied
<1>8. \A i \in Items : [prog EXCEPT ![i] = 0] \in [Items -> Versions]
  BY <1>1
<1>9. {"exec", "update"} \subseteq Items
  BY DEF Items
<1>10. CASE ApplyDone \/ UpdaterKilled
  BY <1>2, <1>7, <1>10 DEF ApplyDone, UpdaterKilled, Leaves, Applied
<1>11. CASE ExecAside
  <2>1. /\ Leaves("swapExec") \/ Leaves("overExec")
        /\ prog' \in [Items -> Versions] /\ dest' \subseteq Items
        /\ ufaults' \in 0 .. UpdateFaults
    BY <1>2, <1>8, <1>9, <1>11 DEF ExecAside, Aside
  <2> QED BY <1>7, <2>1 DEF Applied, Leaves
<1>12. CASE ExecPut
  <2>1. /\ Put("exec") \/ PutFails("exec")
        /\ Replaced \/ Leaves("overExec") \/ Leaves("newExec")
    BY <1>12 DEF ExecPut
  <2> QED BY <1>3, <1>7, <1>9, <2>1 DEF Applied, Leaves, Replaced
<1>13. CASE ExecNew
  <2>1. /\ Leaves("update") \/ Leaves("idle")
        /\ PutFails("exec") \/ (dest' = dest \ {"exec"} /\ UNCHANGED <<prog, ufaults>>)
    BY <1>13 DEF ExecNew
  <2> QED BY <1>3, <1>7, <1>9, <2>1 DEF Applied, Leaves, Replaced
<1>14. CASE replace_baulk_update
  <2>1. CASE Aside("update", "swapUpdate")
    BY <1>7, <1>8, <1>9, <2>1 DEF Aside, Leaves, Applied
  <2>2. CASE UFault /\ Leaves("idle") /\ UNCHANGED <<prog, dest>>
    BY <1>2, <1>7, <2>2 DEF Leaves
  <2>3. CASE Leaves("idle") /\ (Put("update") \/ PutFails("update"))
    BY <1>3, <1>7, <1>9, <2>3 DEF Leaves
  <2> QED BY <1>14, <2>1, <2>2, <2>3 DEF replace_baulk_update
<1> QED BY <1>4, <1>5, <1>6, <1>10, <1>11, <1>12, <1>13, <1>14 DEF UpdateStep

\* However the two tools interleave, fail and are killed, every installed file
\* is of a release there was, and the migrator moves only the folders it knows,
\* one after the other.
THEOREM TypeCorrect == Spec => []TypeOK
<1>1. Init => TypeOK
  <2> SUFFICES ASSUME Init PROVE TypeOK
    OBVIOUS
  <2>1. MigrateTypeOK
    BY Orders, MigrateAssumption DEF Init, MigrateInit, MigrateTypeOK, Equivalent, Folders
  <2>2. 0 \in Versions /\ 1 \in Versions /\ 0 \in 0 .. UpdateFaults
    BY SelfUpdateAssumption DEF Versions
  <2>3. /\ older \in BOOLEAN /\ latest = 1 /\ target = 0 /\ upc = "idle" /\ ufaults = 0
        /\ prog = [i \in Items |-> 1] /\ dest = {} /\ todo = {} /\ stale = {}
    BY DEF Init, UpdateInit
  <2>4. UpdateTypeOK
    BY <2>2, <2>3 DEF UpdateTypeOK
  <2> QED BY <2>1, <2>4 DEF TypeOK
<1>2. TypeOK /\ [Next]_vars => TypeOK'
  <2> SUFFICES ASSUME TypeOK, [Next]_vars PROVE TypeOK'
    OBVIOUS
  <2> USE DEF TypeOK
  <2>1. CASE UNCHANGED vars
    BY <2>1 DEF vars, layout, migrator, updater, MigrateTypeOK, UpdateTypeOK
  <2>2. CASE Migrating \/ MigratorStops \/ (NewFsPaths /\ UNCHANGED updater)
    <3>1. \/ NewFsPaths \/ MigrateStart \/ MoveFolder \/ MoveFolderRefused
          \/ WriteEnv \/ MoveFolderFails \/ MigratorKilled
      BY <2>2 DEF Migrating, MigratorMoves, MigratorStops
    <3>2. /\ UNCHANGED <<latest, prog, target, upc, todo, stale, older, ufaults>>
          /\ dest' \in {{}, dest}
      BY <2>2 DEF Migrating, MigratorMoves, MigratorStops, updater
    <3>3. UpdateTypeOK'
      BY <3>2 DEF UpdateTypeOK
    <3> QED BY <3>1, <3>3, MigrateTyped
  <2>3. CASE EnvOf(UpdateStep) \/ EnvOf(Release \/ UpdaterKilled)
    <3>1. /\ UpdateStep \/ Release \/ UpdaterKilled
          /\ env' \in {"Portable", env} /\ UNCHANGED <<data, legacy, portable, migrator>>
      BY <2>3 DEF EnvOf
    <3>2. MigrateTypeOK'
      BY <3>1 DEF migrator, MigrateTypeOK
    <3> QED BY <3>1, <3>2, UpdateTyped
  <2>4. CASE Begins(Fetches)
    <3>1. MigrateTypeOK'
      BY <2>4 DEF Begins, migrator, MigrateTypeOK, Folders
    <3> QED BY <2>4, <3>1, UpdateTyped DEF Begins
  <2> QED BY <2>1, <2>2, <2>3, <2>4, StepIs
<1> QED BY <1>1, <1>2, PTL DEF Spec
=============================================================================
