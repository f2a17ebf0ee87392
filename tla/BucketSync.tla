----------------------------- MODULE BucketSync -----------------------------
(***************************************************************************)
(* `baulk update`: UpdateBucket and BucketUpdater of commands.update.cc,   *)
(* and BucketNewest, BucketUpdate, BucketRepoUpdate of bucket.cc.          *)
(*                                                                         *)
(* The command holds the pid-file mutex, so one is under way at a time.  A *)
(* commit of a bucket is a number that grows.  The archive of a commit has *)
(* one directory at its top, named after the commit; MakeFlattened lifts   *)
(* it when nothing else is there.  A directory is abstracted to the commit *)
(* whose manifests are at its top, where PackageMeta looks for them, and   *)
(* the commits that lie one level too deep.                                *)
(*                                                                         *)
(* Any call may fail and the process may be killed, MaxFaults times in     *)
(* all; `baulk cleancache`, which takes no mutex, runs between two updates *)
(* and, when Cleaner, also beside one.                                     *)
(***************************************************************************)
EXTENDS Naturals

CONSTANTS
  N,           \* the buckets of the profile are 1..N
  GitBuckets,  \* those with BucketObserveMode::Git
  MaxCommit,   \* bound on the commits pushed to a bucket
  MaxFaults,   \* bound on the failures and crashes
  Cleaner      \* `baulk cleancache` may run at any time

Buckets == 1 .. N
Commits == 1 .. MaxCommit

ASSUME BucketAssumption ==
  /\ N \in Nat \ {0} /\ MaxCommit \in Nat \ {0} /\ MaxFaults \in Nat
  /\ GitBuckets \subseteq Buckets
  /\ Cleaner \in BOOLEAN

VARIABLES
  remote,   \* the commit at the head of each bucket
  real,     \* buckets\<name>
  tmp,      \* temp\<name>
  lock,     \* "latest" of each bucket in buckets.lock.json, 0 without one
  status,   \* BucketUpdater::status
  updated,  \* BucketUpdater::updated
  pc,       \* the call the command makes next
  k,        \* the bucket the loop of UpdateBucket is at
  latest,   \* the commit BucketNewest told
  faults,   \* failures so far
  crowded   \* history: the buckets whose last archive was extracted beside a
            \* leftover in temp\<name>

vars == <<remote, real, tmp, lock, status, updated, pc, k, latest, faults,
          crowded>>

Trees == [there : BOOLEAN, top : Commits \union {0}, subs : SUBSET Commits]

Absent == [there |-> FALSE, top |-> 0, subs |-> {}]

\* A directory of which only useless parts are left.
Ruin == [there |-> TRUE, top |-> 0, subs |-> {}]

TypeOK ==
  /\ remote \in [Buckets -> Commits]
  /\ real \in [Buckets -> Trees] /\ tmp \in [Buckets -> Trees]
  /\ lock \in [Buckets -> Commits \union {0}]
  /\ status \in [Buckets -> Commits \union {0}]
  /\ updated \in BOOLEAN
  /\ pc \in {"idle", "newest", "fetch", "unzip", "delete", "move", "store"}
  /\ k \in Buckets
  /\ latest \in Commits \union {0}
  /\ faults \in 0 .. MaxFaults
  /\ crowded \subseteq Buckets

Init ==
  /\ remote = [b \in Buckets |-> 1]
  /\ real = [b \in Buckets |-> Absent] /\ tmp = [b \in Buckets |-> Absent]
  /\ lock = [b \in Buckets |-> 0] /\ status = [b \in Buckets |-> 0]
  /\ updated = FALSE
  /\ pc = "idle" /\ k = 1 /\ latest = 0
  /\ faults = 0 /\ crowded = {}

Fault == faults < MaxFaults /\ faults' = faults + 1

\* The directory with the archive of commit c extracted into it.
Extracted(t, c) == [t EXCEPT !.there = TRUE, !.subs = @ \union {c}]

\* Slip: nothing is lifted.
FlattenedNot(t) == t

\* MakeFlattened lifts the only entry when it is a directory.
Flattened(t) ==
  IF t.top = 0 /\ \E c \in Commits : t.subs = {c}
    THEN [there |-> TRUE, top |-> CHOOSE c \in Commits : t.subs = {c}, subs |-> {}]
    ELSE t

\* Slip: the loop counter is advanced past the last bucket.
NextBucketPast ==
  /\ IF k > N THEN pc' = "store" /\ UNCHANGED k
              ELSE pc' = "newest" /\ k' = k + 1
  /\ latest' = 0

\* Update returns, and the loop of UpdateBucket goes on.
NextBucket ==
  /\ IF k = N THEN pc' = "store" /\ UNCHANGED k
              ELSE pc' = "newest" /\ k' = k + 1
  /\ latest' = 0
-----------------------------------------------------------------------------
\* Initialize reads the lock file.
Start ==
  /\ pc = "idle"
  /\ status' = lock /\ updated' = FALSE
  /\ pc' = "newest" /\ k' = 1
  /\ UNCHANGED <<remote, real, tmp, lock, latest, faults, crowded>>

\* BucketNewest; a bucket whose commit is the recorded one is up to date.
Newest ==
  /\ pc = "newest"
  /\ \/ /\ remote[k] = status[k]
        /\ NextBucket /\ UNCHANGED faults
     \/ /\ remote[k] # status[k]
        /\ latest' = remote[k] /\ pc' = "fetch"
        /\ UNCHANGED <<k, faults>>
     \/ Fault /\ NextBucket
  /\ UNCHANGED <<remote, real, tmp, lock, status, updated, crowded>>

\* BucketUpdate has succeeded.
Updated ==
  /\ status' = [status EXCEPT ![k] = latest] /\ updated' = TRUE
  /\ NextBucket

\* WinGet, tried four times; or git clone or git pull, which fetches the head
\* there is by then.
Fetch ==
  /\ pc = "fetch"
  /\ \/ Fault /\ NextBucket /\ UNCHANGED <<real, status, updated>>
     \/ /\ k \in GitBuckets
        /\ real' = [real EXCEPT ![k] = [there |-> TRUE, top |-> remote[k], subs |-> {}]]
        /\ Updated /\ UNCHANGED faults
     \/ /\ k \notin GitBuckets
        /\ pc' = "unzip"
        /\ UNCHANGED <<real, status, updated, k, latest, faults>>
  /\ UNCHANGED <<remote, tmp, lock, crowded>>

\* extract_zip into temp\<name>, whatever is there already.  It may stop half
\* way.  MakeFlattened ignores a failed rename and then deletes the directory.
Unzip ==
  /\ pc = "unzip"
  /\ \/ /\ tmp' = [tmp EXCEPT ![k] = Flattened(Extracted(@, latest))]
        /\ pc' = "delete" /\ UNCHANGED <<k, latest, faults>>
     \/ /\ Fault
        /\ tmp' = [tmp EXCEPT ![k] = Extracted(@, latest)]
        /\ NextBucket
     \/ /\ Fault
        /\ tmp' = [tmp EXCEPT ![k] = Absent]
        /\ pc' = "delete" /\ UNCHANGED <<k, latest>>
  /\ crowded' = IF tmp[k].there THEN crowded \union {k} ELSE crowded \ {k}
  /\ UNCHANGED <<remote, real, lock, status, updated>>

\* ForceDeleteFolders(bucketReal), whose result is ignored.
DeleteReal ==
  /\ pc = "delete"
  /\ \/ real' = [real EXCEPT ![k] = Absent] /\ UNCHANGED faults
     \/ Fault /\ real[k].there /\ real' \in {real, [real EXCEPT ![k] = Ruin]}
  /\ pc' = "move"
  /\ UNCHANGED <<remote, tmp, lock, status, updated, k, latest, crowded>>

\* Slip: the bucket is marked as updated whether or not MoveFileW worked.
MoveUnchecked ==
  /\ pc = "move"
  /\ \/ /\ tmp[k].there /\ ~real[k].there
        /\ real' = [real EXCEPT ![k] = tmp[k]] /\ tmp' = [tmp EXCEPT ![k] = Absent]
        /\ Updated /\ UNCHANGED faults
     \/ Fault /\ Updated /\ UNCHANGED <<real, tmp>>
  /\ UNCHANGED <<remote, lock, crowded>>

\* MoveFileW(bucketTemp, bucketReal) wants the one there and not the other.
Move ==
  /\ pc = "move"
  /\ \/ /\ tmp[k].there /\ ~real[k].there
        /\ real' = [real EXCEPT ![k] = tmp[k]] /\ tmp' = [tmp EXCEPT ![k] = Absent]
        /\ Updated /\ UNCHANGED faults
     \/ /\ \/ Fault
           \/ (~tmp[k].there \/ real[k].there) /\ UNCHANGED faults
        /\ NextBucket
        /\ UNCHANGED <<real, tmp, status, updated>>
  /\ UNCHANGED <<remote, lock, crowded>>

\* The command is over.
Quit ==
  /\ pc' = "idle" /\ k' = 1 /\ latest' = 0
  /\ status' = [b \in Buckets |-> 0] /\ updated' = FALSE

\* Slip: Immobilized forgets what is new.
ImmobilizedNever ==
  /\ pc = "store"
  /\ Quit
  /\ UNCHANGED <<remote, real, tmp, lock, faults, crowded>>

\* Immobilized writes the lock file, atomically, when a bucket is new.
Immobilized ==
  /\ pc = "store"
  /\ \/ /\ lock' = IF updated THEN status ELSE lock
        /\ UNCHANGED faults
     \/ updated /\ Fault /\ UNCHANGED lock
  /\ Quit
  /\ UNCHANGED <<remote, real, tmp, crowded>>
-----------------------------------------------------------------------------
\* The process is killed, also in the middle of an extraction.
Crash ==
  /\ pc # "idle" /\ Fault
  /\ tmp' \in IF pc = "unzip" THEN {tmp, [tmp EXCEPT ![k] = Extracted(@, latest)]}
                              ELSE {tmp}
  /\ Quit
  /\ UNCHANGED <<remote, real, lock, crowded>>

\* Somebody pushes to a bucket.
Push(b) ==
  /\ remote[b] < MaxCommit
  /\ remote' = [remote EXCEPT ![b] = @ + 1]
  /\ UNCHANGED <<real, tmp, lock, status, updated, pc, k, latest, faults, crowded>>

\* cmd_cleancache deletes the directories of temp.  One that is moved away
\* meanwhile has lost a part.
CleanCache ==
  /\ pc = "idle" \/ Cleaner
  /\ tmp' \in {[b \in Buckets |-> IF b = k THEN t ELSE Absent] :
                t \in {Absent} \union IF pc # "idle" /\ tmp[k].there THEN {Ruin} ELSE {}}
  /\ UNCHANGED <<remote, real, lock, status, updated, pc, k, latest, faults, crowded>>

Update ==
  \/ Start \/ Newest \/ Fetch \/ Unzip \/ DeleteReal \/ Move \/ Immobilized

Next == Update \/ Crash \/ CleanCache \/ \E b \in Buckets : Push(b)

Spec == Init /\ [][Next]_vars

\* The user runs `baulk update` again and again, and Windows runs it.
FairSpec == Spec /\ WF_vars(Update)
-----------------------------------------------------------------------------
(***************************************************************************)
(* Properties.                                                             *)
(***************************************************************************)
\* When the lock file says that a bucket is at the head, so that no update
\* touches it, the files of that commit are in the bucket's directory: no
\* failure or crash between ForceDeleteFolders, MoveFileW and the write of the
\* lock file leaves a bucket that counts as up to date and is not there
\* (BucketUpdate, BucketUpdater::Update and Immobilized).
UpToDateIsThere ==
  \A b \in Buckets :
    lock[b] = remote[b] => lock[b] \in {real[b].top} \union real[b].subs

\* ... and they are at its top, where PackageMeta reads them, unless the archive
\* was extracted beside a leftover of an earlier update: BucketUpdate does not
\* empty temp\<name> first, and MakeFlattened then lifts nothing.
VisibleUnlessLeftover ==
  \A b \in Buckets \ crowded : lock[b] = remote[b] => real[b].top = lock[b]

\* No failure, crash or leftover keeps a bucket behind for good: once failures
\* and pushes have come to an end, repeated updates bring every bucket to its
\* head (UpdateBucket tries each bucket whose commit is not the recorded one).
UpdateConverges == <>[](\A b \in Buckets : lock[b] = remote[b])
=============================================================================
