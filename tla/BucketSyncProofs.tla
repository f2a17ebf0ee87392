-------------------------- MODULE BucketSyncProofs --------------------------
(***************************************************************************)
(* Proofs about BucketSync, for any number of buckets, commits and faults: *)
(* type correctness whatever runs, and that the lock file is honest when   *)
(* `baulk cleancache` does not run beside an update.                       *)
(*                                                                         *)
(* What counts as up to date is decided by the lock file, which is written *)
(* once at the end of the command, while the directories are replaced one  *)
(* by one before.  The invariant follows a bucket through the command: up  *)
(* to its turn its status is the recorded one; during its turn the commit  *)
(* being fetched is newer than both and lies in temp; after its turn the   *)
(* status is honest about the directory.                                   *)
(***************************************************************************)
EXTENDS BucketSync, TLAPS

Working == {"newest", "fetch", "unzip", "delete", "move"}

\* The files of commit c are in the directory t of bucket b, and at its top
\* unless the archive was extracted beside a leftover.
Holds(b, t, c) ==
  /\ c = t.top \/ c \in t.subs
  /\ b \notin crowded => t.top = c

Data ==
  /\ remote \in [Buckets -> Commits]
  /\ real \in [Buckets -> Trees] /\ tmp \in [Buckets -> Trees]
  /\ lock \in [Buckets -> Commits \union {0}]
  /\ status \in [Buckets -> Commits \union {0}]
  /\ k \in Buckets /\ latest \in Commits \union {0}
  /\ pc \in Working \union {"idle", "store"}
  /\ \A b \in Buckets : tmp[b].there \/ tmp[b] = Absent

\* Nothing is recorded that has not been pushed.
NotAhead == \A b \in Buckets : lock[b] <= remote[b] /\ status[b] <= remote[b]

\* A lock file, and a status, at the head tell the truth.
LockHonest == \A b \in Buckets : lock[b] = remote[b] => Holds(b, real[b], lock[b])
StatusHonest == \A b \in Buckets : status[b] = remote[b] => Holds(b, real[b], status[b])

\* The buckets whose turn has not come.
Ahead == pc \in Working => \A b \in k .. N : status[b] = lock[b]

\* The bucket whose turn it is.
Turn ==
  pc \in Working \ {"newest"} =>
    latest \in Commits /\ latest <= remote[k] /\ lock[k] < latest

\* The extracted archive.
Unpacked == pc \in {"delete", "move"} => (tmp[k].there => Holds(k, tmp[k], latest))

IInv == Data /\ NotAhead /\ LockHonest /\ StatusHonest /\ Ahead /\ Turn /\ Unpacked

LEMMA Numbers ==
  /\ N \in Nat /\ 0 < N /\ MaxCommit \in Nat /\ 1 \in Commits /\ 1 \in Buckets
  /\ \A b \in Buckets : b \in Nat /\ 1 <= b /\ b <= N
  /\ \A c \in Commits : c \in Nat /\ 0 < c
  BY BucketAssumption DEF Buckets, Commits

\* MakeFlattened keeps the commit that was extracted, and lifts it out of a
\* directory that was not there before.
LEMMA FlattenedKeeps ==
  ASSUME NEW t \in Trees, NEW c \in Commits
  PROVE  LET e == Extracted(t, c)
             f == Flattened(e)
         IN  /\ e \in Trees /\ e.there
             /\ f \in Trees /\ f.there
             /\ c = f.top \/ c \in f.subs
             /\ t = Absent => f.top = c
<1> DEFINE e == Extracted(t, c)
<1>1. /\ e \in Trees /\ e.there /\ c \in e.subs /\ e.top = t.top
      /\ e.subs = t.subs \union {c}
  BY DEF Extracted, Trees
<1>2. CASE e.top = 0 /\ \E d \in Commits : e.subs = {d}
  <2>1. (CHOOSE d \in Commits : e.subs = {d}) = c
    <3>1. e.subs = {c}
      BY <1>1, <1>2
    <3> QED BY <3>1
  <2>2. Flattened(e) = [there |-> TRUE, top |-> c, subs |-> {}]
    BY <1>2, <2>1 DEF Flattened
  <2> QED BY <1>1, <2>2 DEF Trees
<1>3. CASE ~(e.top = 0 /\ \E d \in Commits : e.subs = {d})
  <2>1. Flattened(e) = e
    BY <1>3 DEF Flattened
  <2>2. t # Absent
    BY <1>1, <1>3 DEF Absent
  <2> QED BY <1>1, <2>1, <2>2
<1> QED BY <1>2, <1>3

LEMMA InitOK == Init => IInv
<1> SUFFICES ASSUME Init PROVE IInv
  OBVIOUS
<1>1. Absent \in Trees
  BY DEF Absent, Trees
<1>2. Data
  BY <1>1, Numbers DEF Init, Data
<1>3. \A b \in Buckets : lock[b] = 0 /\ status[b] = 0 /\ remote[b] = 1
  BY DEF Init
<1>4. NotAhead /\ LockHonest /\ StatusHonest
  BY <1>3 DEF NotAhead, LockHonest, StatusHonest
<1>5. Ahead /\ Turn /\ Unpacked
  BY DEF Init, Ahead, Turn, Unpacked, Working
<1> QED BY <1>2, <1>4, <1>5 DEF IInv

\* The loop goes on with a bucket whose turn has not come.
LEMMA Advance ==
  ASSUME IInv, NextBucket, pc \in Working, lock' = lock,
         \A b \in Buckets \ {k} : status'[b] = status[b]
  PROVE  /\ k' \in Buckets /\ latest' = 0 /\ pc' \in {"newest", "store"}
         /\ Ahead' /\ Turn' /\ Unpacked'
<1>1. k \in Buckets /\ (\A b \in k .. N : status[b] = lock[b])
  BY DEF IInv, Data, Ahead
<1>2. latest' = 0
  BY DEF NextBucket
<1>3. CASE k = N
  BY <1>1, <1>2, <1>3 DEF NextBucket, Ahead, Turn, Unpacked, Working
<1>4. CASE k # N
  <2>1. pc' = "newest" /\ k' = k + 1
    BY <1>4 DEF NextBucket
  <2>2. k' \in Buckets /\ \A b \in k' .. N : b \in Buckets \ {k} /\ b \in k .. N
    BY <1>1, <1>4, <2>1, Numbers DEF Buckets
  <2>3. \A b \in k' .. N : status'[b] = lock[b]
    BY <1>1, <2>2
  <2> QED BY <1>2, <2>1, <2>2, <2>3 DEF Ahead, Turn, Unpacked, Working
<1> QED BY <1>3, <1>4

\* BucketUpdate has put a directory in place that holds the fetched commit.
LEMMA UpdatedOK ==
  ASSUME IInv, Updated, pc \in Working \ {"newest"}, UNCHANGED <<remote, lock, crowded>>,
         NEW t \in Trees, real' = [real EXCEPT ![k] = t],
         latest = remote[k] => Holds(k, t, latest),
         tmp' \in [Buckets -> Trees], \A b \in Buckets : tmp'[b].there \/ tmp'[b] = Absent
  PROVE  IInv'
<1>1. /\ k \in Buckets /\ latest \in Commits /\ latest <= remote[k] /\ lock[k] < latest
      /\ status' = [status EXCEPT ![k] = latest] /\ NextBucket
  BY DEF IInv, Data, Turn, Updated
<1>2. \A b \in Buckets \ {k} : status'[b] = status[b] /\ real'[b] = real[b]
  BY <1>1 DEF IInv, Data
<1>3. status'[k] = latest /\ real'[k] = t
  BY <1>1 DEF IInv, Data
<1>4. /\ k' \in Buckets /\ latest' = 0 /\ pc' \in {"newest", "store"}
      /\ Ahead' /\ Turn' /\ Unpacked'
  BY <1>1, <1>2, Advance
<1>5. Data'
  BY <1>1, <1>4 DEF IInv, Data, Working
<1>6. NotAhead'
  BY <1>1, <1>2, <1>3 DEF IInv, NotAhead
<1>7. LockHonest'
  <2> SUFFICES ASSUME NEW b \in Buckets, lock[b] = remote[b]
               PROVE  Holds(b, real[b], lock[b])'
    BY DEF LockHonest
  <2>1. b # k
    BY <1>1, Numbers DEF IInv, Data
  <2> QED BY <1>2, <2>1 DEF IInv, LockHonest, Holds
<1>8. StatusHonest'
  <2> SUFFICES ASSUME NEW b \in Buckets, status'[b] = remote[b]
               PROVE  Holds(b, real[b], status[b])'
    BY DEF StatusHonest
  <2>1. CASE b = k
    BY <1>3, <2>1 DEF Holds
  <2>2. CASE b # k
    BY <1>2, <2>2 DEF IInv, StatusHonest, Holds
  <2> QED BY <2>1, <2>2
<1> QED BY <1>4, <1>5, <1>6, <1>7, <1>8 DEF IInv

\* The turn of a bucket ends without an update.
LEMMA SkippedOK ==
  ASSUME IInv, NextBucket, pc \in Working, UNCHANGED <<remote, real, lock, status>>,
         tmp' \in [Buckets -> Trees], \A b \in Buckets : tmp'[b].there \/ tmp'[b] = Absent,
         \/ crowded' = crowded
         \/ pc = "unzip" /\ \A b \in Buckets \ {k} : b \in crowded' <=> b \in crowded
  PROVE  IInv'
<1>1. /\ k' \in Buckets /\ latest' = 0 /\ pc' \in {"newest", "store"}
      /\ Ahead' /\ Turn' /\ Unpacked'
  BY Advance
<1>2. Data' /\ NotAhead'
  BY <1>1 DEF IInv, Data, NotAhead, Working
<1>3. LockHonest' /\ StatusHonest'
  <2>1. CASE crowded' = crowded
    BY <2>1 DEF IInv, LockHonest, StatusHonest, Holds
  <2>2. CASE pc = "unzip" /\ \A b \in Buckets \ {k} : b \in crowded' <=> b \in crowded
    <3>1. lock[k] < remote[k] /\ status[k] < remote[k]
      <4>1. k \in Buckets /\ k \in k .. N
        BY Numbers DEF IInv, Data
      <4>2. /\ latest \in Commits /\ latest <= remote[k] /\ lock[k] < latest
            /\ status[k] = lock[k]
        BY <2>2, <4>1 DEF IInv, Turn, Ahead, Working
      <4>3. lock[k] \in Nat /\ remote[k] \in Nat
        BY <4>1, Numbers DEF IInv, Data
      <4> QED BY <4>2, <4>3, Numbers
    <3>2. \A b \in Buckets \ {k} : \A c : Holds(b, real[b], c) => Holds(b, real[b], c)'
      BY <2>2 DEF Holds
    <3>3. lock[k] # remote[k] /\ status[k] # remote[k]
      BY <3>1, Numbers DEF IInv, Data
    <3> QED BY <3>2, <3>3 DEF IInv, LockHonest, StatusHonest
  <2> QED BY <2>1, <2>2
<1> QED BY <1>1, <1>2, <1>3 DEF IInv

\* What the turn of bucket k tells about it.
LEMMA InTurn ==
  ASSUME IInv, pc \in Working \ {"newest"}
  PROVE  /\ k \in Buckets /\ latest \in Commits /\ latest <= remote[k]
         /\ lock[k] # remote[k] /\ status[k] # remote[k]
<1>1. k \in Buckets /\ k \in k .. N
  BY Numbers DEF IInv, Data
<1>2. /\ latest \in Commits /\ latest <= remote[k] /\ lock[k] < latest
      /\ status[k] = lock[k]
  BY <1>1 DEF IInv, Turn, Ahead, Working
<1>3. lock[k] \in Nat /\ remote[k] \in Nat
  BY <1>1, Numbers DEF IInv, Data
<1> QED BY <1>1, <1>2, <1>3, Numbers

\* Only the directory, and the history, of the bucket whose turn it is change.
LEMMA StillHonest ==
  ASSUME IInv, pc \in Working \ {"newest"}, UNCHANGED <<remote, lock, status>>,
         \A b \in Buckets \ {k} : real'[b] = real[b] /\ (b \in crowded' <=> b \in crowded)
  PROVE  NotAhead' /\ LockHonest' /\ StatusHonest'
<1>1. NotAhead'
  BY DEF IInv, NotAhead
<1>2. \A b \in Buckets \ {k} : \A c : Holds(b, real[b], c) => Holds(b, real[b], c)'
  BY DEF Holds
<1> QED BY <1>1, <1>2, InTurn DEF IInv, LockHonest, StatusHonest

LEMMA UnzipOK == IInv /\ Unzip => IInv'
<1> SUFFICES ASSUME IInv, Unzip PROVE IInv'
  OBVIOUS
<1>1. /\ pc = "unzip" /\ pc \in Working \ {"newest"}
      /\ UNCHANGED <<remote, real, lock, status>>
  BY DEF Unzip, Working
<1>2. /\ k \in Buckets /\ latest \in Commits /\ tmp[k] \in Trees
      /\ tmp[k].there \/ tmp[k] = Absent
  BY <1>1, InTurn DEF IInv, Data
<1>3. \A b \in Buckets \ {k} : b \in crowded' <=> b \in crowded
  BY DEF Unzip
<1> DEFINE e == Extracted(tmp[k], latest)
           f == Flattened(e)
<1>4. /\ e \in Trees /\ e.there /\ f \in Trees /\ f.there
      /\ latest = f.top \/ latest \in f.subs
      /\ tmp[k] = Absent => f.top = latest
  BY <1>2, FlattenedKeeps
<1>5. Absent \in Trees /\ ~Absent.there
  BY DEF Absent, Trees
<1>6. ASSUME NEW t \in Trees, t.there \/ t = Absent, tmp' = [tmp EXCEPT ![k] = t]
      PROVE  /\ tmp' \in [Buckets -> Trees] /\ tmp'[k] = t
             /\ \A b \in Buckets : tmp'[b].there \/ tmp'[b] = Absent
  BY <1>2, <1>6 DEF IInv, Data
<1>7. NotAhead' /\ LockHonest' /\ StatusHonest'
  BY <1>1, <1>3, StillHonest
<1>8. ASSUME NEW t \in Trees, t.there \/ t = Absent, tmp' = [tmp EXCEPT ![k] = t],
             t.there => /\ latest = t.top \/ latest \in t.subs
                        /\ k \notin crowded' => t.top = latest,
             pc' = "delete", UNCHANGED <<k, latest>>
      PROVE  IInv'
  <2>1. Data'
    BY <1>1, <1>6, <1>8 DEF IInv, Data, Working
  <2>2. Unpacked'
    BY <1>6, <1>8 DEF Unpacked, Holds
  <2>3. Ahead' /\ Turn'
    BY <1>1, <1>8 DEF IInv, Ahead, Turn, Working
  <2> QED BY <1>7, <2>1, <2>2, <2>3 DEF IInv
<1>9. CASE tmp' = [tmp EXCEPT ![k] = f] /\ pc' = "delete" /\ UNCHANGED <<k, latest>>
  <2>1. k \notin crowded' => tmp[k] = Absent
    BY <1>2 DEF Unzip
  <2> QED BY <1>4, <1>8, <1>9, <2>1
<1>10. CASE tmp' = [tmp EXCEPT ![k] = e] /\ NextBucket
  BY <1>1, <1>3, <1>4, <1>6, <1>10, SkippedOK
<1>11. CASE tmp' = [tmp EXCEPT ![k] = Absent] /\ pc' = "delete" /\ UNCHANGED <<k, latest>>
  BY <1>5, <1>8, <1>11
<1> QED BY <1>9, <1>10, <1>11 DEF Unzip

\* Every step of the command, a crash and a push keep the invariant; so does
\* cleancache between two updates.
LEMMA StepOK == ASSUME ~Cleaner PROVE IInv /\ [Next]_vars => IInv'
<1> SUFFICES ASSUME IInv, [Next]_vars PROVE IInv'
  OBVIOUS
<1>0. /\ tmp \in [Buckets -> Trees] /\ real \in [Buckets -> Trees] /\ k \in Buckets
      /\ \A b \in Buckets : tmp[b].there \/ tmp[b] = Absent
      /\ Absent \in Trees /\ Ruin \in Trees /\ ~Absent.there
  BY DEF IInv, Data, Absent, Ruin, Trees
<1>1. CASE UNCHANGED vars
  BY <1>1 DEF vars, IInv, Data, NotAhead, LockHonest, StatusHonest, Ahead, Turn, Unpacked, Holds
<1>2. CASE Start
  <2>1. /\ UNCHANGED <<remote, real, tmp, lock, latest, crowded>>
        /\ status' = lock /\ pc' = "newest" /\ k' = 1
    BY <1>2 DEF Start
  <2>2. Data' /\ NotAhead' /\ Ahead' /\ Turn' /\ Unpacked'
    BY <2>1, Numbers DEF IInv, Data, NotAhead, Ahead, Turn, Unpacked, Working
  <2>3. LockHonest' /\ StatusHonest'
    BY <2>1 DEF IInv, LockHonest, StatusHonest, Holds
  <2> QED BY <2>2, <2>3 DEF IInv
<1>3. CASE Newest
  <2>1. /\ pc = "newest" /\ pc \in Working
        /\ UNCHANGED <<remote, real, tmp, lock, status, crowded>>
    BY <1>3 DEF Newest, Working
  <2>2. CASE NextBucket
    BY <1>0, <2>1, <2>2, SkippedOK
  <2>3. CASE remote[k] # status[k] /\ latest' = remote[k] /\ pc' = "fetch" /\ k' = k
    <3>1. k \in k .. N /\ status[k] = lock[k] /\ lock[k] <= remote[k]
      BY <1>0, <2>1, Numbers DEF IInv, Ahead, NotAhead
    <3>2. remote[k] \in Commits /\ lock[k] \in Nat /\ remote[k] \in Nat
      BY <1>0, Numbers DEF IInv, Data
    <3>3. Turn' /\ Ahead' /\ Unpacked'
      BY <2>1, <2>3, <3>1, <3>2 DEF IInv, Turn, Ahead, Unpacked, Working
    <3>4. Data' /\ NotAhead' /\ LockHonest' /\ StatusHonest'
      BY <2>1, <2>3, <3>2 DEF IInv, Data, NotAhead, LockHonest, StatusHonest, Holds, Working
    <3> QED BY <3>3, <3>4 DEF IInv
  <2> QED BY <1>3, <2>2, <2>3 DEF Newest
<1>4. CASE Fetch
  <2>1. /\ pc = "fetch" /\ pc \in Working \ {"newest"} /\ pc \in Working
        /\ UNCHANGED <<remote, tmp, lock, crowded>>
    BY <1>4 DEF Fetch, Working
  <2>2. CASE NextBucket /\ UNCHANGED <<real, status>>
    BY <1>0, <2>1, <2>2, SkippedOK
  <2>3. CASE /\ real' = [real EXCEPT ![k] = [there |-> TRUE, top |-> remote[k], subs |-> {}]]
             /\ Updated
    <3> DEFINE t == [there |-> TRUE, top |-> remote[k], subs |-> {}]
    <3>1. t \in Trees /\ (latest = remote[k] => Holds(k, t, latest))
      BY <1>0 DEF IInv, Data, Trees, Holds
    <3> QED BY <1>0, <2>1, <2>3, <3>1, UpdatedOK
  <2>4. CASE pc' = "unzip" /\ UNCHANGED <<real, status, k, latest>>
    BY <2>1, <2>4 DEF IInv, Data, NotAhead, LockHonest, StatusHonest, Ahead, Turn, Unpacked,
                      Holds, Working
  <2> QED BY <1>4, <2>2, <2>3, <2>4 DEF Fetch
<1>5. CASE Unzip
  BY <1>5, UnzipOK
<1>6. CASE DeleteReal
  <2>1. /\ pc = "delete" /\ pc \in Working \ {"newest"} /\ pc' = "move"
        /\ UNCHANGED <<remote, tmp, lock, status, k, latest, crowded>>
    BY <1>6 DEF DeleteReal, Working
  <2>2. real' \in [Buckets -> Trees] /\ \A b \in Buckets \ {k} : real'[b] = real[b]
    BY <1>0, <1>6 DEF DeleteReal
  <2>3. NotAhead' /\ LockHonest' /\ StatusHonest'
    BY <2>1, <2>2, StillHonest
  <2>4. Data' /\ Ahead' /\ Turn' /\ Unpacked'
    BY <2>1, <2>2 DEF IInv, Data, Ahead, Turn, Unpacked, Holds, Working
  <2> QED BY <2>3, <2>4 DEF IInv
<1>7. CASE Move
  <2>1. /\ pc = "move" /\ pc \in Working \ {"newest"} /\ pc \in Working
        /\ UNCHANGED <<remote, lock, crowded>>
    BY <1>7 DEF Move, Working
  <2>2. CASE /\ tmp[k].there /\ real' = [real EXCEPT ![k] = tmp[k]]
             /\ tmp' = [tmp EXCEPT ![k] = Absent] /\ Updated
    <3>1. tmp[k] \in Trees /\ Holds(k, tmp[k], latest)
      BY <1>0, <2>1, <2>2 DEF IInv, Unpacked
    <3>2. /\ tmp' \in [Buckets -> Trees]
          /\ \A b \in Buckets : tmp'[b].there \/ tmp'[b] = Absent
      BY <1>0, <2>2
    <3> QED BY <2>1, <2>2, <3>1, <3>2, UpdatedOK
  <2>3. CASE NextBucket /\ UNCHANGED <<real, tmp, status>>
    BY <1>0, <2>1, <2>3, SkippedOK
  <2> QED BY <1>7, <2>2, <2>3 DEF Move
<1>8. ASSUME Quit, UNCHANGED <<remote, real, crowded>>, lock' \in {lock, status},
             tmp' \in [Buckets -> Trees], \A b \in Buckets : tmp'[b].there \/ tmp'[b] = Absent
      PROVE  IInv'
  <2>1. pc' = "idle" /\ k' = 1 /\ latest' = 0 /\ status' = [b \in Buckets |-> 0]
    BY <1>8 DEF Quit
  <2>2. \A b \in Buckets : remote[b] \in Commits /\ status'[b] = 0 /\ remote[b] # 0 /\ 0 <= remote[b]
    BY <2>1, Numbers DEF IInv, Data
  <2>3. Data' /\ Ahead' /\ Turn' /\ Unpacked'
    BY <1>8, <2>1, Numbers DEF IInv, Data, Ahead, Turn, Unpacked, Working
  <2>4. NotAhead' /\ LockHonest' /\ StatusHonest'
    BY <1>8, <2>2 DEF IInv, NotAhead, LockHonest, StatusHonest, Holds
  <2> QED BY <2>3, <2>4 DEF IInv
<1>9. CASE Immobilized
  <2>1. Quit /\ UNCHANGED <<remote, real, tmp, crowded>> /\ lock' \in {lock, status}
    BY <1>9 DEF Immobilized
  <2> QED BY <1>0, <1>8, <2>1
<1>10. CASE Crash
  <2>1. Quit /\ UNCHANGED <<remote, real, lock, crowded>>
    BY <1>10 DEF Crash
  <2>2. CASE tmp' = tmp
    BY <1>0, <1>8, <2>1, <2>2
  <2>3. CASE pc = "unzip" /\ tmp' = [tmp EXCEPT ![k] = Extracted(@, latest)]
    <3>1. latest \in Commits /\ tmp[k] \in Trees
      BY <1>0, <2>3 DEF IInv, Turn, Working
    <3>2. Extracted(tmp[k], latest) \in Trees /\ Extracted(tmp[k], latest).there
      BY <3>1, FlattenedKeeps
    <3>3. /\ tmp' \in [Buckets -> Trees]
          /\ \A b \in Buckets : tmp'[b].there \/ tmp'[b] = Absent
      BY <1>0, <2>3, <3>2
    <3> QED BY <1>8, <2>1, <3>3
  <2> QED BY <1>10, <2>2, <2>3 DEF Crash
<1>11. ASSUME NEW b \in Buckets, Push(b)
       PROVE  IInv'
  <2>1. /\ UNCHANGED <<real, tmp, lock, status, pc, k, latest, crowded>>
        /\ remote' = [remote EXCEPT ![b] = @ + 1] /\ remote[b] < MaxCommit
    BY <1>11 DEF Push
  <2>2. remote' \in [Buckets -> Commits]
    BY <2>1, Numbers DEF IInv, Data, Commits
  <2>3. /\ \A a \in Buckets : remote[a] \in Nat /\ remote[a] <= remote'[a]
        /\ \A a \in Buckets \ {b} : remote'[a] = remote[a]
        /\ remote'[b] = remote[b] + 1
    BY <2>1, Numbers DEF IInv, Data
  <2>4. \A a \in Buckets : lock[a] \in Nat /\ status[a] \in Nat
    BY Numbers DEF IInv, Data
  <2>5. Data' /\ Ahead' /\ Unpacked'
    BY <2>1, <2>2 DEF IInv, Data, Ahead, Unpacked, Holds
  <2>6. NotAhead' /\ Turn'
    BY <1>0, <2>1, <2>3, <2>4, Numbers DEF IInv, NotAhead, Turn
  <2>7. lock[b] # remote'[b] /\ status[b] # remote'[b]
    BY <2>3, <2>4 DEF IInv, NotAhead
  <2>8. LockHonest' /\ StatusHonest'
    BY <2>1, <2>3, <2>7 DEF IInv, LockHonest, StatusHonest, Holds
  <2> QED BY <2>5, <2>6, <2>8 DEF IInv
<1>12. CASE CleanCache
  <2>1. pc = "idle" /\ UNCHANGED <<remote, real, lock, status, pc, k, latest, crowded>>
    BY <1>12 DEF CleanCache
  <2>2. tmp' = [b \in Buckets |-> Absent]
    BY <1>12, <2>1 DEF CleanCache
  <2> QED BY <1>0, <2>1, <2>2 DEF IInv, Data, NotAhead, LockHonest, StatusHonest, Ahead, Turn,
                                  Unpacked, Holds, Working
<1> QED BY <1>1, <1>2, <1>3, <1>4, <1>5, <1>6, <1>7, <1>9, <1>10, <1>11, <1>12
        DEF Next, Update

\* Whatever fails and wherever the process is killed, a bucket that the lock
\* file calls up to date has the files of that commit: the write of the lock
\* file comes after the rename of every directory it speaks of.
THEOREM UpToDateAlwaysThere == ASSUME ~Cleaner PROVE Spec => []UpToDateIsThere
<1>1. IInv => UpToDateIsThere
  BY DEF IInv, LockHonest, Holds, UpToDateIsThere
<1>2. IInv /\ [Next]_vars => IInv'
  BY StepOK
<1> QED BY <1>1, <1>2, InitOK, PTL DEF Spec

\* ... at the top, where PackageMeta looks for them, when its archive was
\* extracted into a directory that was not there before.
THEOREM VisibleAlways == ASSUME ~Cleaner PROVE Spec => []VisibleUnlessLeftover
<1>1. IInv => VisibleUnlessLeftover
  BY DEF IInv, LockHonest, Holds, VisibleUnlessLeftover
<1>2. IInv /\ [Next]_vars => IInv'
  BY StepOK
<1> QED BY <1>1, <1>2, InitOK, PTL DEF Spec
-----------------------------------------------------------------------------
(***************************************************************************)
(* Type correctness, also with `baulk cleancache` beside an update.        *)
(***************************************************************************)
\* While a bucket is being fetched and put in place, its commit is known.
Typed == TypeOK /\ (pc \in Working \ {"newest"} => latest \in Commits)

\* The loop stays within the profile.
LEMMA LoopTyped ==
  ASSUME k \in Buckets, NextBucket
  PROVE  k' \in Buckets /\ pc' \in {"newest", "store"} /\ latest' = 0
<1>1. k = N \/ k + 1 \in Buckets
  BY Numbers DEF Buckets
<1> QED BY <1>1 DEF NextBucket

LEMMA FaultTyped ==
  ASSUME faults \in 0 .. MaxFaults
  PROVE  Fault => faults' \in 0 .. MaxFaults
  BY BucketAssumption DEF Fault

LEMMA TypedStep == Typed /\ [Next]_vars => Typed'
<1> SUFFICES ASSUME Typed, [Next]_vars PROVE Typed'
  OBVIOUS
<1> USE DEF Typed, TypeOK, Working
<1>0. Absent \in Trees /\ Ruin \in Trees /\ 1 \in Buckets
  BY Numbers DEF Absent, Ruin, Trees
<1>1. CASE UNCHANGED vars
  BY <1>1 DEF vars
<1>2. CASE Start
  BY <1>0, <1>2 DEF Start
<1>3. CASE Newest
  <2>1. CASE NextBucket
    BY <1>3, <2>1, LoopTyped, FaultTyped DEF Newest
  <2>2. CASE latest' = remote[k] /\ pc' = "fetch" /\ UNCHANGED <<k, faults>>
    BY <1>3, <2>2 DEF Newest
  <2> QED BY <1>3, <2>1, <2>2 DEF Newest
<1>4. CASE Fetch
  <2>1. CASE NextBucket /\ UNCHANGED <<real, status, updated>>
    BY <1>4, <2>1, LoopTyped, FaultTyped DEF Fetch
  <2>2. CASE /\ real' = [real EXCEPT ![k] = [there |-> TRUE, top |-> remote[k], subs |-> {}]]
             /\ Updated /\ UNCHANGED faults
    <3>1. [there |-> TRUE, top |-> remote[k], subs |-> {}] \in Trees
      BY DEF Trees
    <3> QED BY <1>4, <2>2, <3>1, LoopTyped DEF Fetch, Updated
  <2>3. CASE pc' = "unzip" /\ UNCHANGED <<real, status, updated, k, latest, faults>>
    BY <1>4, <2>3 DEF Fetch
  <2> QED BY <1>4, <2>1, <2>2, <2>3 DEF Fetch
<1>5. CASE Unzip
  <2>1. /\ Extracted(tmp[k], latest) \in Trees
        /\ Flattened(Extracted(tmp[k], latest)) \in Trees
    BY <1>5, FlattenedKeeps DEF Unzip
  <2>2. tmp' \in [Buckets -> Trees] /\ crowded' \subseteq Buckets
    BY <1>0, <1>5, <2>1 DEF Unzip
  <2>3. CASE NextBucket
    BY <1>5, <2>2, <2>3, LoopTyped, FaultTyped DEF Unzip
  <2>4. CASE pc' = "delete" /\ UNCHANGED <<k, latest>>
    BY <1>5, <2>2, <2>4, FaultTyped DEF Unzip
  <2> QED BY <1>5, <2>3, <2>4 DEF Unzip
<1>6. CASE DeleteReal
  <2>1. real' \in [Buckets -> Trees] /\ faults' \in 0 .. MaxFaults
    BY <1>0, <1>6, FaultTyped DEF DeleteReal
  <2> QED BY <1>6, <2>1 DEF DeleteReal
<1>7. CASE Move
  <2>1. CASE /\ real' = [real EXCEPT ![k] = tmp[k]] /\ tmp' = [tmp EXCEPT ![k] = Absent]
             /\ Updated /\ UNCHANGED faults
    BY <1>0, <1>7, <2>1, LoopTyped DEF Move, Updated
  <2>2. CASE /\ Fault \/ UNCHANGED faults
             /\ NextBucket /\ UNCHANGED <<real, tmp, status, updated>>
    BY <1>7, <2>2, LoopTyped, FaultTyped DEF Move
  <2> QED BY <1>7, <2>1, <2>2 DEF Move
<1>8. CASE Immobilized
  BY <1>0, <1>8, FaultTyped DEF Immobilized, Quit
<1>9. CASE Crash
  <2>1. pc = "unzip" => Extracted(tmp[k], latest) \in Trees
    BY FlattenedKeeps
  <2>2. tmp' \in [Buckets -> Trees]
    <3>1. CASE tmp' = tmp
      BY <3>1
    <3>2. CASE pc = "unzip" /\ tmp' = [tmp EXCEPT ![k] = Extracted(@, latest)]
      BY <2>1, <3>2
    <3> QED BY <1>9, <3>1, <3>2 DEF Crash
  <2> QED BY <1>0, <1>9, <2>2, FaultTyped DEF Crash, Quit
<1>10. CASE CleanCache
  <2>1. PICK t \in {Absent, Ruin} : tmp' = [b \in Buckets |-> IF b = k THEN t ELSE Absent]
    BY <1>10 DEF CleanCache
  <2>2. tmp' \in [Buckets -> Trees]
    BY <1>0, <2>1
  <2> QED BY <1>10, <2>2 DEF CleanCache
<1>11. ASSUME NEW b \in Buckets, Push(b) PROVE Typed'
  <2>1. remote[b] + 1 \in Commits
    BY <1>11, Numbers DEF Push, Commits
  <2> QED BY <1>11, <2>1 DEF Push
<1> QED BY <1>1, <1>2, <1>3, <1>4, <1>5, <1>6, <1>7, <1>8, <1>9, <1>10, <1>11
        DEF Next, Update

LEMMA InitTyped == Init => Typed
<1> SUFFICES ASSUME Init PROVE Typed
  OBVIOUS
<1>1. Absent \in Trees
  BY DEF Absent, Trees
<1>2. 0 \in 0 .. MaxFaults
  BY BucketAssumption
<1>3. remote \in [Buckets -> Commits] /\ k \in Buckets
  BY Numbers DEF Init
<1>4. real \in [Buckets -> Trees] /\ tmp \in [Buckets -> Trees]
  BY <1>1 DEF Init
<1> QED BY <1>2, <1>3, <1>4 DEF Init, Typed, TypeOK, Working

\* Each bucket's directories hold commits that were pushed and the loop of
\* UpdateBucket stays within the profile, whatever fails and whenever `baulk
\* cleancache` runs.
THEOREM TypeCorrect == Spec => []TypeOK
<1>1. Typed => TypeOK
  BY DEF Typed
<1> QED BY <1>1, InitTyped, TypedStep, PTL DEF Spec
-----------------------------------------------------------------------------
(***************************************************************************)
(* The buckets kept by git, also with `baulk cleancache` beside an update. *)
(***************************************************************************)
\* A clone never passes through temp and is never behind what is recorded: git
\* fetches the head there is by then, which may be newer than what BucketNewest
\* told.
Cloned ==
  /\ pc \in {"unzip", "delete", "move"} => k \notin GitBuckets
  /\ latest <= remote[k]
  /\ pc = "idle" => latest = 0
  /\ \A b \in GitBuckets : /\ lock[b] <= real[b].top /\ status[b] <= real[b].top
                           /\ real[b].top <= remote[b]

\* A git bucket the lock file calls up to date has the files of that commit at
\* its top (BucketRepoUpdate).
GitUpToDate ==
  \A b \in GitBuckets : lock[b] = remote[b] => real[b].top = lock[b]

LEMMA Sizes ==
  ASSUME Typed
  PROVE  /\ latest \in Nat /\ remote[k] \in Nat
         /\ \A b \in GitBuckets : /\ b \in Buckets /\ lock[b] \in Nat /\ status[b] \in Nat
                                  /\ remote[b] \in Nat /\ real[b].top \in Nat
  BY BucketAssumption, Numbers DEF Typed, TypeOK, Trees

LEMMA Primed == Typed' => /\ 0 <= remote'[k']
                          /\ \A b \in GitBuckets : b \in Buckets /\ 0 <= real'[b].top
  BY BucketAssumption, Numbers DEF Typed, TypeOK, Trees

LEMMA ClonedStep == Typed /\ Cloned /\ [Next]_vars => Cloned'
<1> SUFFICES ASSUME Typed, Cloned, [Next]_vars PROVE Cloned'
  OBVIOUS
<1> USE Sizes DEF Cloned
<1>0. k \in Buckets /\ Typed'
  BY TypedStep DEF Typed, TypeOK
<1>1. CASE UNCHANGED vars
  BY <1>1 DEF vars
<1>2. CASE Start
  <2>1. latest' = 0 /\ pc' = "newest" /\ UNCHANGED <<remote, real, lock>> /\ status' = lock
    BY <1>2 DEF Start
  <2> QED BY <1>0, <2>1, Primed
<1>3. CASE Newest
  <2>1. CASE NextBucket
    BY <1>0, <1>3, <2>1, LoopTyped, Primed DEF Newest
  <2>2. CASE latest' = remote[k] /\ pc' = "fetch" /\ UNCHANGED k
    BY <1>3, <2>2 DEF Newest
  <2> QED BY <1>3, <2>1, <2>2 DEF Newest
<1>4. CASE Fetch
  <2>1. CASE NextBucket /\ UNCHANGED <<real, status>>
    BY <1>0, <1>4, <2>1, LoopTyped, Primed DEF Fetch
  <2>2. CASE /\ real' = [real EXCEPT ![k] = [there |-> TRUE, top |-> remote[k], subs |-> {}]]
             /\ Updated
    <3>1. /\ latest' = 0 /\ pc' \in {"newest", "store"} /\ UNCHANGED <<remote, lock>>
          /\ status' = [status EXCEPT ![k] = latest]
      BY <1>0, <1>4, <2>2, LoopTyped DEF Fetch, Updated
    <3>2. ASSUME NEW b \in GitBuckets
          PROVE  /\ lock'[b] <= real'[b].top /\ status'[b] <= real'[b].top
                 /\ real'[b].top <= remote'[b]
      <4>1. CASE b = k
        <5>1. /\ real'[b].top = remote[b] /\ status'[b] = latest
          BY <1>0, <2>2, <3>1, <4>1 DEF Typed, TypeOK
        <5>2. lock[b] <= remote[b]
          OBVIOUS
        <5> QED BY <3>1, <4>1, <5>1, <5>2
      <4>2. CASE b # k
        BY <2>2, <3>1, <4>2 DEF Typed, TypeOK
      <4> QED BY <4>1, <4>2
    <3> QED BY <1>0, <3>1, <3>2, Primed
  <2>3. CASE k \notin GitBuckets /\ pc' = "unzip" /\ UNCHANGED <<real, status, k, latest>>
    BY <1>4, <2>3 DEF Fetch
  <2> QED BY <1>4, <2>1, <2>2, <2>3 DEF Fetch
<1>5. CASE Unzip
  <2>1. CASE NextBucket
    BY <1>0, <1>5, <2>1, LoopTyped, Primed DEF Unzip
  <2>2. CASE pc' = "delete" /\ UNCHANGED <<k, latest>>
    BY <1>5, <2>2 DEF Unzip
  <2> QED BY <1>5, <2>1, <2>2 DEF Unzip
<1>6. CASE DeleteReal
  <2>1. \A b \in GitBuckets : real'[b] = real[b]
    BY <1>6 DEF DeleteReal, Typed, TypeOK
  <2> QED BY <1>6, <2>1 DEF DeleteReal
<1>7. CASE Move
  <2>1. \A b \in GitBuckets : real'[b] = real[b] /\ status'[b] = status[b]
    BY <1>7 DEF Move, Updated, Typed, TypeOK
  <2>2. NextBucket /\ UNCHANGED <<remote, lock>>
    BY <1>7 DEF Move, Updated
  <2> QED BY <1>0, <2>1, <2>2, LoopTyped, Primed
<1>8. CASE Immobilized
  <2>1. /\ pc' = "idle" /\ latest' = 0 /\ lock' \in {lock, status}
        /\ status' = [b \in Buckets |-> 0] /\ UNCHANGED <<remote, real>>
    BY <1>8 DEF Immobilized, Quit
  <2> QED BY <1>0, <2>1, Primed
<1>9. CASE Crash
  <2>1. /\ pc' = "idle" /\ latest' = 0 /\ status' = [b \in Buckets |-> 0]
        /\ UNCHANGED <<remote, real, lock>>
    BY <1>9 DEF Crash, Quit
  <2> QED BY <1>0, <2>1, Primed
<1>10. CASE CleanCache
  BY <1>10 DEF CleanCache
<1>11. ASSUME NEW c \in Buckets, Push(c) PROVE Cloned'
  <2>1. \A b \in Buckets : remote[b] <= remote'[b]
    BY <1>11, Numbers DEF Push, Typed, TypeOK
  <2>2. \A b \in Buckets : remote[b] \in Nat /\ remote'[b] \in Nat
    BY <1>0, Numbers DEF Typed, TypeOK
  <2> QED BY <1>0, <1>11, <2>1, <2>2 DEF Push
<1> QED BY <1>1, <1>2, <1>3, <1>4, <1>5, <1>6, <1>7, <1>8, <1>9, <1>10, <1>11
        DEF Next, Update

\* A git bucket that counts as up to date is, whatever fails and whatever else
\* runs: the race of an archive with `baulk cleancache` cannot touch it.
THEOREM GitAlwaysUpToDate == Spec => []GitUpToDate
<1>1. Init => Typed /\ Cloned
  <2> SUFFICES ASSUME Init PROVE Cloned
    BY InitTyped
  <2>1. Typed
    BY InitTyped
  <2> QED BY <2>1, Sizes DEF Init, Cloned, Absent
<1>2. Typed /\ Cloned => GitUpToDate
  BY Sizes DEF Cloned, GitUpToDate
<1> QED BY <1>1, <1>2, TypedStep, ClonedStep, PTL DEF Spec
=============================================================================
