------------------------------ MODULE Profile -------------------------------
(***************************************************************************)
(* The profile config\baulk.json and the commands that change it or rely   *)
(* on it: `baulk freeze` and `unfreeze` (commands.freeze.cc), `baulk       *)
(* bucket add` and `delete` (commands.bucket.cc), `baulk update` (the      *)
(* BucketUpdater of commands.update.cc) and `baulk upgrade`, run by        *)
(* several processes at once.                                              *)
(*                                                                         *)
(* Every process reads the profile into its Context before it runs its     *)
(* command.  Every change of a file is a read of the whole of it followed  *)
(* by an atomic replacement.  freeze, unfreeze, update and upgrade hold    *)
(* the mutex of FsLock meanwhile, the bucket commands do not.  A process   *)
(* may be killed at any step, and every read and write may fail.  The      *)
(* entries of the profile are as baulk writes them: `bucket add` and       *)
(* `delete` would report success without a write over one that is not.     *)
(***************************************************************************)
EXTENDS FsLock, Naturals

CONSTANTS
  Buckets,
  Official,     \* the bucket of default_content
  Packages,     \* packages, by the names of their lock files
  Names,        \* what a user may type for them
  Fold,         \* the package that a name equals when case is ignored
  MaxCommands,  \* bound: the commands started
  MaxCrashes,   \* bound: the processes killed
  None

ASSUME ProfileAssumption ==
  /\ Official \in Buckets
  /\ Packages \subseteq Names
  /\ Fold \in [Names -> Packages]
  /\ MaxCommands \in Nat /\ MaxCrashes \in Nat
  /\ None \notin Procs \union Buckets \union Names

Content == [bucket : SUBSET Buckets, freeze : SUBSET Names]

default_content == [bucket |-> {Official}, freeze |-> {}]

VARIABLES
  shape,      \* whether the profile is absent, truncated ("torn") or whole
  file,       \* its content, when it is whole
  writer,     \* the process that has it open for writing
  records,    \* buckets.lock.json: the buckets it has an entry for
  dirs,       \* the buckets that have a folder
  upgraded,   \* the packages upgraded to what the buckets offer
  pc, cmd, arg,
  ctx,        \* the Context of a process: the profile as it first read it
  snap,       \* what it read of the file that it is changing
  left,       \* update: the buckets it has still to visit
  updated,    \* update: the buckets brought up to date, BucketUpdater::updated
              \* when there are any
  commands, crashes,
  want,       \* history: the successful edits, applied one after the other
  since,      \* history: the names frozen ever since a process started that
              \* could read the profile
  behind,     \* history: the buckets whose entry an update found behind the
              \* head of the repository, and which were not recorded since
  overlap     \* history: the files changed by two commands at once of which
              \* one did not hold the mutex

files == <<shape, file, writer, records, dirs, upgraded>>
local == <<cmd, arg, ctx, snap, left, updated>>
history == <<commands, crashes, want, since, behind, overlap>>
vars == <<holders, files, pc, local, history>>

Locked == {"freeze", "unfreeze", "update", "upgrade"}
Editing == {"freeze", "unfreeze", "add", "delete"}

TypeOK ==
  /\ holders \subseteq Procs
  /\ shape \in {"absent", "torn", "whole"}
  /\ file \in Content /\ want \in Content
  /\ writer \in Procs \union {None}
  /\ records \subseteq Buckets /\ dirs \subseteq Buckets
  /\ upgraded \subseteq Packages
  /\ pc \in [Procs -> {"idle", "create", "fill", "start", "locked", "apply",
                       "prune", "pruneWrite", "pruneDir", "update", "move"}]
  /\ cmd \in [Procs -> Locked \union Editing \union {"none"}]
  /\ arg \in [Procs -> Buckets \union Names \union {None}]
  /\ ctx \in [Procs -> Content] /\ snap \in [Procs -> Content]
  /\ left \in [Procs -> SUBSET Buckets]
  /\ updated \in [Procs -> SUBSET Buckets]
  /\ commands \in 0 .. MaxCommands /\ crashes \in 0 .. MaxCrashes
  /\ since \in [Procs -> SUBSET Names]
  /\ behind \subseteq Buckets /\ overlap \subseteq {"profile", "records"}

Init ==
  /\ LockInit
  /\ shape \in {"absent", "whole"} /\ file = default_content /\ writer = None
  /\ records = {} /\ dirs = {} /\ upgraded = {}
  /\ pc = [p \in Procs |-> "idle"] /\ cmd = [p \in Procs |-> "none"]
  /\ arg = [p \in Procs |-> None]
  /\ ctx = [p \in Procs |-> default_content] /\ snap = ctx
  /\ left = [p \in Procs |-> {}] /\ updated = [p \in Procs |-> {}]
  /\ commands = 0 /\ crashes = 0 /\ want = default_content
  /\ since = [p \in Procs |-> {}] /\ behind = {} /\ overlap = {}

Goto(p, l) == pc' = [pc EXCEPT ![p] = l]

\* The command returns; its FsMutex, if it has one, is destroyed.
Return(p) ==
  /\ Goto(p, "idle") /\ holders' = holders \ {p}
  /\ cmd' = [cmd EXCEPT ![p] = "none"] /\ arg' = [arg EXCEPT ![p] = None]
  /\ ctx' = [ctx EXCEPT ![p] = default_content]
  /\ snap' = [snap EXCEPT ![p] = default_content]
  /\ left' = [left EXCEPT ![p] = {}] /\ updated' = [updated EXCEPT ![p] = {}]

-----------------------------------------------------------------------------
(* When two commands change one file at once.                              *)

\* The file that a process has read, or found missing, and is to replace.
Changing(p) ==
  CASE pc[p] \in {"create", "fill", "apply"} -> {"profile"}
    [] pc[p] \in {"pruneWrite", "pruneDir", "update", "move"} -> {"records"}
    [] OTHER -> {}

\* p, which holds the mutex or not, is about to change the file f.
Enter(p, f, locked) ==
  overlap' = IF \E q \in Procs \ {p} :
                  f \in Changing(q) /\ ~(locked /\ q \in holders)
             THEN overlap \union {f} ELSE overlap

-----------------------------------------------------------------------------
(* Every process: the Context.                                             *)

\* Slip: upgrade goes through the names of the frozen list.
ArgumentsTyped(c) == IF c \in {"add", "delete"} THEN Buckets ELSE Names

\* What a command works on: upgrade goes through the lock files.
Arguments(c) ==
  CASE c \in {"freeze", "unfreeze"} -> Names
    [] c \in {"add", "delete"} -> Buckets
    [] c = "upgrade" -> Packages
    [] OTHER -> {None}

\* A profile that cannot be read counts as the default one; a missing one is
\* also written.
initializeInternal(p, c, a) ==
  /\ pc[p] = "idle" /\ commands < MaxCommands
  /\ commands' = commands + 1
  /\ cmd' = [cmd EXCEPT ![p] = c] /\ arg' = [arg EXCEPT ![p] = a]
  /\ \/ /\ shape = "whole" /\ ctx' = [ctx EXCEPT ![p] = file]
        /\ since' = [since EXCEPT ![p] = want.freeze]
     \/ /\ ctx' = [ctx EXCEPT ![p] = default_content]
        /\ since' = [since EXCEPT ![p] = {}]
  /\ IF shape = "absent" THEN Goto(p, "create") /\ Enter(p, "profile", FALSE)
     ELSE Goto(p, "start") /\ UNCHANGED overlap
  /\ UNCHANGED <<holders, files, snap, left, updated, crashes, want, behind>>

\* WriteText: CREATE_ALWAYS truncates the file and shares it with readers
\* only; a failure is ignored.
CreateProfile(p) ==
  /\ pc[p] = "create"
  /\ IF writer = None
     THEN Goto(p, "fill") /\ shape' = "torn" /\ writer' = p
     ELSE Goto(p, "start") /\ UNCHANGED <<shape, writer>>
  /\ UNCHANGED <<holders, file, records, dirs, upgraded, local, history>>

FillProfile(p) ==
  /\ pc[p] = "fill"
  /\ Goto(p, "start") /\ writer' = None
  /\ \/ shape' = "whole" /\ file' = default_content
     \/ UNCHANGED <<shape, file>>
  /\ UNCHANGED <<holders, records, dirs, upgraded, local, history>>

-----------------------------------------------------------------------------
(* freeze, unfreeze, bucket add, bucket delete.                            *)

\* Slip: a command that is refused the mutex goes on.
MakeFsMutexIgnored(p) ==
  /\ pc[p] = "start" /\ cmd[p] \in Locked
  /\ Goto(p, "locked")
  /\ Acquire(p) \/ (holders # {} /\ UNCHANGED holders)
  /\ UNCHANGED <<files, local, history>>

MakeFsMutex(p) ==
  /\ pc[p] = "start" /\ cmd[p] \in Locked
  /\ \/ Acquire(p) /\ Goto(p, "locked") /\ UNCHANGED local
     \/ holders # {} /\ Return(p)
  /\ UNCHANGED <<files, history>>

\* parse_json_file(Profile()), or BucketModifier::Initialize.  The command
\* returns when the file cannot be read, and `bucket add` of a bucket that is
\* there does without --replace.
ReadProfile(p) ==
  /\ pc[p] = (IF cmd[p] \in Locked THEN "locked" ELSE "start")
  /\ cmd[p] \in Editing
  /\ \/ /\ shape = "whole"
        /\ snap' = [snap EXCEPT ![p] = file]
        /\ Goto(p, "apply") /\ Enter(p, "profile", cmd[p] \in Locked)
        /\ UNCHANGED <<holders, cmd, arg, ctx, left, updated>>
     \/ Return(p) /\ UNCHANGED overlap
  /\ UNCHANGED <<files, commands, crashes, want, since, behind>>

\* cmd_freeze: a name that is there in another case is not added again.
freeze(c, n) ==
  IF \E m \in c.freeze : Fold[m] = Fold[n] THEN c
  ELSE [c EXCEPT !.freeze = @ \union {n}]

unfreeze(c, n) == [c EXCEPT !.freeze = {m \in @ : Fold[m] # Fold[n]}]

Add(c, b) == [c EXCEPT !.bucket = @ \union {b}]
Del(c, b) == [c EXCEPT !.bucket = @ \ {b}]

Edit(p, c) ==
  CASE cmd[p] = "freeze" -> freeze(c, arg[p])
    [] cmd[p] = "unfreeze" -> unfreeze(c, arg[p])
    [] cmd[p] = "add" -> Add(c, arg[p])
    [] OTHER -> Del(c, arg[p])

\* AtomicWriteText.  A file that another process has open for writing is not
\* replaced, and the write may fail for other reasons.  `bucket delete` with
\* --force goes on with PruneBucket when the bucket was there.
Apply(p) ==
  /\ pc[p] = "apply"
  /\ \/ /\ writer = None
        /\ shape' = "whole" /\ file' = Edit(p, snap[p])
        /\ want' = Edit(p, want)
        /\ since' = [q \in Procs |-> since[q] \intersect want'.freeze]
        /\ \/ Return(p)
           \/ /\ cmd[p] = "delete" /\ arg[p] \in snap[p].bucket
              /\ Goto(p, "prune") /\ UNCHANGED <<holders, local>>
     \/ Return(p) /\ UNCHANGED <<shape, file, want, since>>
  /\ UNCHANGED <<writer, records, dirs, upgraded, commands, crashes, behind,
                 overlap>>

-----------------------------------------------------------------------------
(* PruneBucket: the entry of buckets.lock.json, then the folder.           *)

\* A file that cannot be read or parsed counts as an empty list.
PruneRead(p) ==
  /\ pc[p] = "prune"
  /\ Goto(p, "pruneWrite") /\ Enter(p, "records", FALSE)
  /\ \E b \in {records \ {arg[p]}, {}} : snap' = [snap EXCEPT ![p].bucket = b]
  /\ UNCHANGED <<holders, files, cmd, arg, ctx, left, updated, commands,
                 crashes, want, since, behind>>

\* Slip: the folder goes although the list could not be written.
PruneWriteIgnored(p) ==
  /\ pc[p] = "pruneWrite"
  /\ records' \in {snap[p].bucket, records} /\ Goto(p, "pruneDir")
  /\ UNCHANGED <<holders, shape, file, writer, dirs, upgraded, local, history>>

PruneWrite(p) ==
  /\ pc[p] = "pruneWrite"
  /\ \/ /\ records' = snap[p].bucket /\ Goto(p, "pruneDir")
        /\ UNCHANGED <<holders, local>>
     \/ Return(p) /\ UNCHANGED records
  /\ UNCHANGED <<shape, file, writer, dirs, upgraded, history>>

\* remove_all, whose failure is ignored.
PruneDir(p) ==
  /\ pc[p] = "pruneDir"
  /\ dirs' \in {dirs \ {arg[p]}, dirs} /\ Return(p)
  /\ UNCHANGED <<shape, file, writer, records, upgraded, history>>

-----------------------------------------------------------------------------
(* update and upgrade, which go by the Context.                            *)

BucketUpdaterInitialize(p) ==
  /\ pc[p] = "locked" /\ cmd[p] = "update"
  /\ \/ /\ Goto(p, "update") /\ Enter(p, "records", TRUE)
        /\ snap' = [snap EXCEPT ![p].bucket = records]
        /\ left' = [left EXCEPT ![p] = ctx[p].bucket]
        /\ updated' = [updated EXCEPT ![p] = {}]
        /\ UNCHANGED <<holders, cmd, arg, ctx>>
     \/ Return(p) /\ UNCHANGED overlap
  /\ UNCHANGED <<files, commands, crashes, want, since, behind>>

\* BucketUpdater::Update: the bucket cannot be reached or fetched (a killed
\* git clone leaves a folder) or is up to date; or git brings it up to date; or
\* it is out of date, its archive is there, and BucketUpdate deletes the old
\* folder, as far as it can.  Module BucketSync has the details.
Update(p, b) ==
  /\ pc[p] = "update" /\ b \in left[p]
  /\ left' = [left EXCEPT ![p] = @ \ {b}]
  /\ \/ /\ dirs' \in {dirs, dirs \union {b}}
        /\ UNCHANGED <<pc, arg, snap, updated, behind>>
     \/ /\ dirs' = dirs \union {b}
        /\ snap' = [snap EXCEPT ![p].bucket = @ \union {b}]
        /\ updated' = [updated EXCEPT ![p] = @ \union {b}]
        /\ UNCHANGED <<pc, arg, behind>>
     \/ /\ dirs' \in {dirs \ {b}, dirs}
        /\ behind' = behind \union {b}
        /\ Goto(p, "move") /\ arg' = [arg EXCEPT ![p] = b]
        /\ UNCHANGED <<snap, updated>>
  /\ UNCHANGED <<holders, shape, file, writer, records, upgraded, cmd, ctx,
                 commands, crashes, want, since, overlap>>

\* MoveFileW of the new folder, which fails when the old one is still there
\* and may fail when it is not.
MoveBucket(p) ==
  /\ pc[p] = "move"
  /\ \/ /\ arg[p] \notin dirs /\ dirs' = dirs \union {arg[p]}
        /\ snap' = [snap EXCEPT ![p].bucket = @ \union {arg[p]}]
        /\ updated' = [updated EXCEPT ![p] = @ \union {arg[p]}]
     \/ UNCHANGED <<dirs, snap, updated>>
  /\ Goto(p, "update") /\ arg' = [arg EXCEPT ![p] = None]
  /\ UNCHANGED <<holders, shape, file, writer, records, upgraded, cmd, ctx,
                 left, history>>

\* A write that fails leaves the file as it was.
Immobilized(p) ==
  /\ pc[p] = "update" /\ left[p] = {}
  /\ \/ /\ updated[p] # {}
        /\ records' = snap[p].bucket /\ behind' = behind \ updated[p]
     \/ UNCHANGED <<records, behind>>
  /\ Return(p)
  /\ UNCHANGED <<shape, file, writer, dirs, upgraded, commands, crashes, want,
                 since, overlap>>

\* Slip: the test of find() is the wrong way round.
IsFrozenedInverted(p, x) == x \notin ctx[p].freeze

IsFrozenedPackage(p, x) == x \in ctx[p].freeze

\* cmd_upgrade without --force, for one package that has a newer version.
Upgrade(p) ==
  /\ pc[p] = "locked" /\ cmd[p] = "upgrade"
  /\ IF IsFrozenedPackage(p, arg[p]) THEN UNCHANGED upgraded
     ELSE upgraded' = upgraded \union {arg[p]}
  /\ Return(p)
  /\ UNCHANGED <<shape, file, writer, records, dirs, history>>

-----------------------------------------------------------------------------
Killed(p) ==
  /\ pc[p] # "idle" /\ crashes < MaxCrashes
  /\ crashes' = crashes + 1 /\ Return(p)
  /\ writer' = IF writer = p THEN None ELSE writer
  /\ UNCHANGED <<shape, file, records, dirs, upgraded, commands, want, since,
                 behind, overlap>>

Step(p) ==
  \/ \E c \in Locked \union Editing : \E a \in Arguments(c) :
       initializeInternal(p, c, a)
  \/ CreateProfile(p) \/ FillProfile(p)
  \/ MakeFsMutex(p) \/ ReadProfile(p) \/ Apply(p)
  \/ PruneRead(p) \/ PruneWrite(p) \/ PruneDir(p)
  \/ BucketUpdaterInitialize(p) \/ Immobilized(p)
  \/ \E b \in Buckets : Update(p, b)
  \/ MoveBucket(p)
  \/ Upgrade(p) \/ Killed(p)

Next == \E p \in Procs : Step(p)

Spec == Init /\ [][Next]_vars

-----------------------------------------------------------------------------
\* No edit of the profile that reported success is lost, whatever crashes,
\* as long as no two commands changed the file at once of which one did not
\* hold the mutex: cmd_freeze and cmd_unfreeze read the file again after
\* they took it.
NoEditLost == "profile" \notin overlap /\ shape = "whole" => file = want

\* An entry of buckets.lock.json stands for a folder that is there, or is
\* behind the head of the repository, whatever fails or is killed, as long as
\* no PruneBucket ran while another command was changing the list: Immobilized
\* writes it after the folders, PruneBucket before, and an update that deletes
\* a folder and does not put the new one in its place leaves the old entry.
\* Otherwise update takes a bucket that has no folder for up to date.
RecordedIsThere ==
  "records" \notin overlap => records \subseteq dirs \union behind

\* An upgrade without --force leaves a package alone that has been frozen,
\* by the name of its lock file, since before the upgrade started, provided
\* that it could read the profile.
FrozenIsSkipped ==
  [][\A x \in upgraded' \ upgraded : "profile" \notin overlap =>
       \A p \in Procs : pc[p] # pc'[p] => x \notin since[p]]_vars
=============================================================================
