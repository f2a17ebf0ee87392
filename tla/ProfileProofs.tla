---------------------------- MODULE ProfileProofs ---------------------------
(***************************************************************************)
(* Proofs about Profile, for any processes, buckets, names and bounds.     *)
(*                                                                         *)
(* The argument is the same for both files: as long as no two commands     *)
(* changed the file at once of which one did not hold the mutex, at most   *)
(* one process is changing it, and what that process has read is still     *)
(* true when it writes.                                                    *)
(***************************************************************************)
EXTENDS Profile, TLAPS

Shapes ==
  /\ pc \in [Procs -> {"idle", "create", "fill", "start", "locked", "apply",
                       "prune", "pruneWrite", "pruneDir", "update", "move"}]
  /\ cmd \in [Procs -> Locked \union Editing \union {"none"}]
  /\ arg \in [Procs -> Buckets \union Names \union {None}]
  /\ \A p \in Procs : /\ cmd[p] \in {"freeze", "unfreeze"} => arg[p] \in Names
                      /\ cmd[p] = "add" => arg[p] \in Buckets
                      /\ pc[p] = "move" => arg[p] \in Buckets
                      /\ pc[p] \in {"update", "move"} => cmd[p] = "update"
  /\ ctx \in [Procs -> Content] /\ snap \in [Procs -> Content]
  /\ left \in [Procs -> SUBSET Buckets] /\ updated \in [Procs -> SUBSET Buckets]
  /\ since \in [Procs -> SUBSET Names]
  /\ file \in Content /\ want \in Content
  /\ records \subseteq Buckets /\ dirs \subseteq Buckets /\ behind \subseteq Buckets

\* The mutex, and who holds it.
Held ==
  /\ \A p, q \in holders : p = q
  /\ \A p \in Procs : pc[p] \in {"locked", "update", "move"} => p \in holders
  /\ \A p \in Procs : pc[p] = "apply" /\ cmd[p] \in Locked => p \in holders

\* The labels at which a process is changing the profile, or the records.
InProfile == {"create", "fill", "apply"}
InRecords == {"pruneWrite", "pruneDir", "update", "move"}

\* At most one process is at one of the labels S.
Alone(S) == \A p, q \in Procs : pc[p] \in S /\ pc[q] \in S => p = q

ProfileInv ==
  "profile" \notin overlap =>
    /\ Alone(InProfile)
    /\ shape = "whole" => file = want
    /\ shape # "whole" => want = default_content
    /\ \A p \in Procs : pc[p] = "apply" => shape = "whole" /\ snap[p] = want
    /\ \A p \in Procs : pc[p] \in {"create", "fill"} => want = default_content
    /\ \A p \in Procs : pc[p] # "idle" => since[p] \subseteq ctx[p].freeze

\* What an update has read or brought up to date is there or behind; what it
\* brought up to date is there, and is not visited again.
Updating(p) ==
  /\ snap[p].bucket \subseteq dirs \union behind
  /\ updated[p] \subseteq dirs \ left[p]
  /\ pc[p] = "move" => arg[p] \notin left[p] \union updated[p]

RecordsInv ==
  "records" \notin overlap =>
    /\ Alone(InRecords)
    /\ records \subseteq dirs \union behind
    /\ \A p \in Procs :
         /\ pc[p] \in {"update", "move"} => Updating(p)
         /\ pc[p] = "pruneWrite" =>
              snap[p].bucket \subseteq (dirs \union behind) \ {arg[p]}
         /\ pc[p] = "pruneDir" => arg[p] \notin records

IInv == Shapes /\ Held /\ ProfileInv /\ RecordsInv

LEMMA InitOK == Init => IInv
<1> SUFFICES ASSUME Init PROVE IInv
  OBVIOUS
<1>1. default_content \in Content
  BY ProfileAssumption DEF default_content, Content
<1>2. Shapes
  BY <1>1 DEF Init, Shapes, Locked, Editing
<1>3. \A p \in Procs : pc[p] = "idle"
  BY DEF Init
<1>5. Held
  BY <1>3 DEF Init, LockInit, Held
<1>6. ProfileInv /\ RecordsInv
  BY <1>3 DEF Init, ProfileInv, RecordsInv, Alone, InProfile, InRecords
<1> QED BY <1>2, <1>5, <1>6 DEF IInv

\* Enter finds everybody else who is changing the file, holders of the mutex
\* included: p is not one of them, or is the only one.
LEMMA EnterFinds ==
  ASSUME Held, NEW p \in Procs, NEW f, NEW locked \in BOOLEAN, Enter(p, f, locked),
         locked => p \in holders, f \notin overlap'
  PROVE  f \notin overlap /\ \A q \in Procs \ {p} : f \notin Changing(q)
<1>1. \A q \in Procs \ {p} : locked => q \notin holders
  BY DEF Held
<1>2. ~ \E q \in Procs \ {p} : f \in Changing(q) /\ ~(locked /\ q \in holders)
  BY DEF Enter
<1>3. f \notin overlap
  BY DEF Enter
<1> QED BY <1>1, <1>2, <1>3

LEMMA EnterProfile ==
  ASSUME Held, NEW p \in Procs, NEW locked \in BOOLEAN, Enter(p, "profile", locked),
         locked => p \in holders, "profile" \notin overlap'
  PROVE  "profile" \notin overlap /\ \A q \in Procs \ {p} : pc[q] \notin InProfile
  BY EnterFinds DEF Changing, InProfile

LEMMA EnterRecords ==
  ASSUME Held, NEW p \in Procs, NEW locked \in BOOLEAN, Enter(p, "records", locked),
         locked => p \in holders, "records" \notin overlap'
  PROVE  "records" \notin overlap /\ \A q \in Procs \ {p} : pc[q] \notin InRecords
  BY EnterFinds DEF Changing, InRecords

LEMMA EnterOther ==
  ASSUME NEW p \in Procs, NEW f, NEW g, f # g, NEW locked \in BOOLEAN, Enter(p, f, locked)
  PROVE  g \in overlap' <=> g \in overlap
  BY DEF Enter

\* A step of p that neither changes the profile nor sets out to.
LEMMA QuietProfile ==
  ASSUME ProfileInv, NEW p \in Procs, pc[p] # "idle",
         UNCHANGED <<shape, file, want, since>>,
         "profile" \in overlap => "profile" \in overlap',
         \A q \in Procs \ {p} : pc'[q] = pc[q] /\ snap'[q] = snap[q] /\ ctx'[q] = ctx[q],
         ctx'[p] = ctx[p] \/ pc'[p] = "idle",
         pc'[p] \notin InProfile
  PROVE  ProfileInv'
  BY DEF ProfileInv, Alone, InProfile

\* A step of p that neither changes the records or folders nor sets out to.
LEMMA QuietRecords ==
  ASSUME RecordsInv, NEW p \in Procs, UNCHANGED <<records, dirs, behind>>,
         "records" \in overlap => "records" \in overlap',
         \A q \in Procs \ {p} : /\ pc'[q] = pc[q] /\ snap'[q] = snap[q] /\ arg'[q] = arg[q]
                               /\ left'[q] = left[q] /\ updated'[q] = updated[q],
         pc'[p] \notin InRecords
  PROVE  RecordsInv'
  BY DEF RecordsInv, Updating, Alone, InRecords

\* A step of p with the mutex as it was, or given up.
LEMMA QuietHeld ==
  ASSUME Held, NEW p \in Procs, holders' \subseteq holders, holders \subseteq holders' \union {p},
         \A q \in Procs \ {p} : pc'[q] = pc[q] /\ cmd'[q] = cmd[q],
         \/ pc'[p] \notin {"locked", "update", "move", "apply"}
         \/ pc'[p] \in {"update", "move"} /\ p \in holders'
         \/ pc'[p] = "apply" /\ (cmd'[p] \in Locked => p \in holders')
  PROVE  Held'
  BY DEF Held

\* What a process that returns leaves: nothing of its own, and the others' as
\* it was.
LEMMA Returned ==
  ASSUME Shapes, NEW p \in Procs, Return(p)
  PROVE  /\ pc'[p] = "idle" /\ holders' = holders \ {p}
         /\ \A q \in Procs \ {p} :
              /\ pc'[q] = pc[q] /\ cmd'[q] = cmd[q] /\ arg'[q] = arg[q] /\ ctx'[q] = ctx[q]
              /\ snap'[q] = snap[q] /\ left'[q] = left[q] /\ updated'[q] = updated[q]
         /\ since' \in [Procs -> SUBSET Names] /\ file' \in Content /\ want' \in Content
            /\ records' \subseteq Buckets /\ dirs' \subseteq Buckets /\ behind' \subseteq Buckets
              => Shapes'
<1>1. default_content \in Content
  BY ProfileAssumption DEF default_content, Content
<1>2. /\ pc'[p] = "idle" /\ cmd'[p] = "none" /\ holders' = holders \ {p}
      /\ \A q \in Procs \ {p} :
           /\ pc'[q] = pc[q] /\ cmd'[q] = cmd[q] /\ arg'[q] = arg[q] /\ ctx'[q] = ctx[q]
           /\ snap'[q] = snap[q] /\ left'[q] = left[q] /\ updated'[q] = updated[q]
  BY DEF Return, Goto, Shapes
<1>3. /\ pc' \in [Procs -> {"idle", "create", "fill", "start", "locked", "apply",
                            "prune", "pruneWrite", "pruneDir", "update", "move"}]
      /\ cmd' \in [Procs -> Locked \union Editing \union {"none"}]
      /\ arg' \in [Procs -> Buckets \union Names \union {None}]
  BY DEF Return, Goto, Shapes
<1>4. ctx' \in [Procs -> Content] /\ snap' \in [Procs -> Content]
  BY <1>1 DEF Return, Shapes
<1>5. left' \in [Procs -> SUBSET Buckets] /\ updated' \in [Procs -> SUBSET Buckets]
  BY DEF Return, Shapes
<1>6. \A q \in Procs : /\ cmd'[q] \in {"freeze", "unfreeze"} => arg'[q] \in Names
                       /\ cmd'[q] = "add" => arg'[q] \in Buckets
                       /\ pc'[q] = "move" => arg'[q] \in Buckets
                       /\ pc'[q] \in {"update", "move"} => cmd'[q] = "update"
  BY <1>2 DEF Shapes
<1> QED BY <1>2, <1>3, <1>4, <1>5, <1>6 DEF Shapes

\* A step of p that only returns.
LEMMA ReturnOK ==
  ASSUME IInv, NEW p \in Procs, pc[p] # "idle", Return(p),
         UNCHANGED <<shape, file, records, dirs, behind, since, want, overlap>>
  PROVE  IInv'
<1>1. Shapes
  BY DEF IInv
<1>2. Shapes'
  BY <1>1, Returned DEF Shapes
<1>3. Held'
  BY <1>1, Returned, QuietHeld DEF IInv
<1>4. ProfileInv' /\ RecordsInv'
  BY <1>1, Returned, QuietProfile, QuietRecords DEF IInv, InProfile, InRecords
<1> QED BY <1>2, <1>3, <1>4 DEF IInv

-----------------------------------------------------------------------------
(* The steps that have to do with the profile.                             *)

LEMMA StartOK ==
  ASSUME IInv, NEW p \in Procs, NEW c \in Locked \union Editing, NEW a \in Arguments(c),
         initializeInternal(p, c, a)
  PROVE  IInv'
<1>1. /\ pc[p] = "idle"
      /\ UNCHANGED <<holders, shape, file, records, dirs, behind, snap, left, updated, want>>
      /\ cmd' = [cmd EXCEPT ![p] = c] /\ arg' = [arg EXCEPT ![p] = a]
      /\ \/ /\ shape = "whole" /\ ctx' = [ctx EXCEPT ![p] = file]
            /\ since' = [since EXCEPT ![p] = want.freeze]
         \/ /\ ctx' = [ctx EXCEPT ![p] = default_content]
            /\ since' = [since EXCEPT ![p] = {}]
  BY DEF initializeInternal, files
<1>2. /\ a \in Buckets \union Names \union {None}
      /\ c \in {"freeze", "unfreeze"} => a \in Names
      /\ c = "add" => a \in Buckets
  BY ProfileAssumption DEF Arguments, Locked, Editing
<1>3. default_content \in Content /\ want.freeze \in SUBSET Names
  BY ProfileAssumption DEF default_content, Content, IInv, Shapes
<1>4. \/ shape = "absent" /\ pc' = [pc EXCEPT ![p] = "create"] /\ Enter(p, "profile", FALSE)
      \/ shape # "absent" /\ pc' = [pc EXCEPT ![p] = "start"] /\ UNCHANGED overlap
  BY DEF initializeInternal, Goto
<1>5. Shapes'
  <2>1. ctx' \in [Procs -> Content] /\ since' \in [Procs -> SUBSET Names]
    BY <1>1, <1>3 DEF IInv, Shapes
  <2> QED BY <1>1, <1>2, <1>4, <2>1 DEF IInv, Shapes
<1>6. \A q \in Procs \ {p} : /\ pc'[q] = pc[q] /\ snap'[q] = snap[q] /\ arg'[q] = arg[q]
                             /\ cmd'[q] = cmd[q] /\ ctx'[q] = ctx[q] /\ since'[q] = since[q]
  BY <1>1, <1>4 DEF IInv, Shapes
<1>7. /\ pc'[p] \in {"create", "start"}
      /\ pc'[p] = "create" => shape = "absent"
      /\ \/ shape = "whole" /\ ctx'[p] = file /\ since'[p] = want.freeze
         \/ since'[p] = {}
  BY <1>1, <1>4 DEF IInv, Shapes
<1>8. Held'
  BY <1>1, <1>6, <1>7, QuietHeld DEF IInv
<1>9. "records" \in overlap' <=> "records" \in overlap
  BY <1>4, EnterOther
<1>10. RecordsInv'
  BY <1>1, <1>6, <1>7, <1>9, QuietRecords DEF IInv, InRecords
<1>11. ProfileInv'
  <2> SUFFICES ASSUME "profile" \notin overlap' PROVE ProfileInv'
    BY DEF ProfileInv
  <2>1. /\ "profile" \notin overlap
        /\ pc'[p] = "create" => \A q \in Procs \ {p} : pc[q] \notin InProfile
    BY <1>4, <1>7, EnterProfile DEF IInv
  <2>2. Alone(InProfile)'
    BY <1>6, <1>7, <2>1 DEF IInv, ProfileInv, Alone, InProfile
  <2>3. since'[p] \subseteq ctx'[p].freeze
    BY <1>7, <2>1 DEF IInv, ProfileInv
  <2> QED BY <1>1, <1>6, <1>7, <2>1, <2>2, <2>3 DEF IInv, ProfileInv, InProfile
<1> QED BY <1>5, <1>8, <1>10, <1>11 DEF IInv

LEMMA CreateOK ==
  ASSUME IInv, NEW p \in Procs, CreateProfile(p) \/ FillProfile(p)
  PROVE  IInv'
<1>1. /\ pc[p] \in {"create", "fill"}
      /\ UNCHANGED <<holders, records, dirs, behind, cmd, arg, ctx, snap, left, updated,
                     since, want, overlap>>
      /\ pc' \in {[pc EXCEPT ![p] = "fill"], [pc EXCEPT ![p] = "start"]}
  BY DEF CreateProfile, FillProfile, Goto, local, history
<1>2. \/ UNCHANGED <<shape, file>>
      \/ shape' = "torn" /\ file' = file
      \/ shape' = "whole" /\ file' = default_content
  BY DEF CreateProfile, FillProfile
<1>3. default_content \in Content
  BY ProfileAssumption DEF default_content, Content
<1>4. Shapes'
  BY <1>1, <1>2, <1>3 DEF IInv, Shapes
<1>5. pc'[p] \in {"fill", "start"} /\ \A q \in Procs \ {p} : pc'[q] = pc[q]
  BY <1>1 DEF IInv, Shapes
<1>6. Held' /\ RecordsInv'
  BY <1>1, <1>5, QuietHeld, QuietRecords DEF IInv, InRecords
<1>7. ProfileInv'
  <2> SUFFICES ASSUME "profile" \notin overlap PROVE ProfileInv'
    BY <1>1 DEF ProfileInv
  <2>1. want = default_content /\ \A q \in Procs \ {p} : pc[q] \notin InProfile
    BY <1>1 DEF IInv, ProfileInv, Alone, InProfile
  <2> QED BY <1>1, <1>2, <1>5, <2>1 DEF IInv, ProfileInv, Alone, InProfile
<1> QED BY <1>4, <1>6, <1>7 DEF IInv

LEMMA MutexOK ==
  ASSUME IInv, NEW p \in Procs, MakeFsMutex(p)
  PROVE  IInv'
<1>1. /\ pc[p] = "start"
      /\ UNCHANGED <<shape, file, records, dirs, behind, since, want, overlap>>
  BY DEF MakeFsMutex, history, files
<1>2. CASE Return(p)
  BY <1>1, <1>2, ReturnOK
<1>3. CASE /\ holders = {} /\ holders' = {p} /\ pc' = [pc EXCEPT ![p] = "locked"]
           /\ UNCHANGED <<cmd, arg, ctx, snap, left, updated>>
  <2>1. pc'[p] = "locked" /\ \A q \in Procs \ {p} : pc'[q] = pc[q]
    BY <1>3 DEF IInv, Shapes
  <2>2. Shapes'
    BY <1>1, <1>3 DEF IInv, Shapes
  <2>3. Held'
    BY <1>1, <1>3, <2>1 DEF IInv, Held, Shapes
  <2>4. ProfileInv' /\ RecordsInv'
    BY <1>1, <1>3, <2>1, QuietProfile, QuietRecords DEF IInv, InProfile, InRecords
  <2> QED BY <2>2, <2>3, <2>4 DEF IInv
<1> QED BY <1>2, <1>3 DEF MakeFsMutex, Acquire, Goto, local

LEMMA ReadOK ==
  ASSUME IInv, NEW p \in Procs, ReadProfile(p)
  PROVE  IInv'
<1>1. /\ pc[p] \in {"locked", "start"} /\ (cmd[p] \in Locked => pc[p] = "locked")
      /\ UNCHANGED <<shape, file, records, dirs, behind, since, want>>
  BY DEF ReadProfile, files
<1>2. CASE /\ shape = "whole" /\ snap' = [snap EXCEPT ![p] = file]
           /\ pc' = [pc EXCEPT ![p] = "apply"] /\ Enter(p, "profile", cmd[p] \in Locked)
           /\ UNCHANGED <<holders, cmd, arg, ctx, left, updated>>
  <2>1. Shapes'
    BY <1>1, <1>2 DEF IInv, Shapes
  <2>2. /\ pc'[p] = "apply" /\ snap'[p] = file
        /\ \A q \in Procs \ {p} : pc'[q] = pc[q] /\ snap'[q] = snap[q]
    BY <1>2 DEF IInv, Shapes
  <2>3. cmd[p] \in Locked => p \in holders
    BY <1>1 DEF IInv, Held
  <2>4. Held'
    BY <1>1, <1>2, <2>2, <2>3, QuietHeld DEF IInv
  <2>7. PICK locked \in BOOLEAN : (locked => cmd[p] \in Locked) /\ Enter(p, "profile", locked)
    <3>1. CASE cmd[p] \in Locked
      <4>1. Enter(p, "profile", TRUE)
        BY <1>2, <3>1 DEF Enter
      <4> QED BY <3>1, <4>1
    <3>2. CASE cmd[p] \notin Locked
      <4>1. Enter(p, "profile", FALSE)
        BY <1>2, <3>2 DEF Enter
      <4> QED BY <4>1
    <3> QED BY <3>1, <3>2
  <2>8. "records" \in overlap' <=> "records" \in overlap
    BY <2>7, EnterOther
  <2>5. RecordsInv'
    BY <1>1, <1>2, <2>2, <2>8, QuietRecords DEF IInv, InRecords
  <2>6. ProfileInv'
    <3> SUFFICES ASSUME "profile" \notin overlap' PROVE ProfileInv'
      BY DEF ProfileInv
    <3>1. "profile" \notin overlap /\ \A q \in Procs \ {p} : pc[q] \notin InProfile
      BY <2>3, <2>7, EnterProfile DEF IInv
    <3> QED BY <1>1, <1>2, <2>2, <3>1 DEF IInv, ProfileInv, Alone, InProfile
  <2> QED BY <2>1, <2>4, <2>5, <2>6 DEF IInv
<1>3. CASE Return(p) /\ UNCHANGED overlap
  BY <1>1, <1>3, ReturnOK
<1> QED BY <1>2, <1>3 DEF ReadProfile, Goto

\* What an edit makes of a content, by what the content is and no more.
LEMMA EditOK ==
  ASSUME Shapes, NEW p \in Procs, NEW c \in Content
  PROVE  Edit(p, c) \in Content
<1>1. /\ c.bucket \subseteq Buckets /\ c.freeze \subseteq Names
      /\ c = [bucket |-> c.bucket, freeze |-> c.freeze]
  BY DEF Content
<1>2. arg[p] \in Names => freeze(c, arg[p]) \in Content /\ unfreeze(c, arg[p]) \in Content
  BY <1>1 DEF freeze, unfreeze, Content
<1>3. arg[p] \in Buckets => Add(c, arg[p]) \in Content
  BY <1>1 DEF Add, Content
<1>4. Del(c, arg[p]) \in Content
  BY <1>1 DEF Del, Content
<1>5. /\ cmd[p] \in {"freeze", "unfreeze"} => arg[p] \in Names
      /\ cmd[p] = "add" => arg[p] \in Buckets
  BY DEF Shapes
<1> QED BY <1>2, <1>3, <1>4, <1>5 DEF Edit

LEMMA ApplyOK ==
  ASSUME IInv, NEW p \in Procs, Apply(p)
  PROVE  IInv'
<1>1. pc[p] = "apply" /\ UNCHANGED <<records, dirs, behind, overlap>>
  BY DEF Apply
<1>2. CASE Return(p) /\ UNCHANGED <<shape, file, want, since>>
  BY <1>1, <1>2, ReturnOK
<1>3. CASE /\ shape' = "whole" /\ file' = Edit(p, snap[p]) /\ want' = Edit(p, want)
           /\ since' = [q \in Procs |-> since[q] \intersect want'.freeze]
           /\ \/ Return(p)
              \/ /\ pc' = [pc EXCEPT ![p] = "prune"]
                 /\ UNCHANGED <<holders, cmd, arg, ctx, snap, left, updated>>
  <2>1. Shapes /\ snap[p] \in Content /\ want \in Content
    BY DEF IInv, Shapes
  <2>2. /\ pc'[p] \in {"idle", "prune"} /\ holders' \in {holders, holders \ {p}}
        /\ ctx'[p] = ctx[p] \/ pc'[p] = "idle"
        /\ \A q \in Procs \ {p} :
             /\ pc'[q] = pc[q] /\ cmd'[q] = cmd[q] /\ arg'[q] = arg[q] /\ ctx'[q] = ctx[q]
             /\ snap'[q] = snap[q] /\ left'[q] = left[q] /\ updated'[q] = updated[q]
    BY <1>3, <2>1, Returned DEF Shapes
  <2>4. file' \in Content /\ want' \in Content
    BY <1>3, <2>1, EditOK
  <2>5. \A q \in Procs : since'[q] = since[q] \intersect want'.freeze
    BY <1>3
  <2>6. since' \in [Procs -> SUBSET Names]
    BY <1>3 DEF IInv, Shapes
  <2>7. Shapes'
    <3>1. CASE Return(p)
      BY <1>1, <2>1, <2>4, <2>6, <3>1, Returned DEF Shapes
    <3>2. CASE /\ pc' = [pc EXCEPT ![p] = "prune"]
               /\ UNCHANGED <<holders, cmd, arg, ctx, snap, left, updated>>
      BY <1>1, <2>1, <2>4, <2>6, <3>2 DEF Shapes
    <3> QED BY <1>3, <3>1, <3>2
  <2>8. Held'
    BY <2>2, QuietHeld DEF IInv
  <2>9. RecordsInv'
    BY <1>1, <2>2, QuietRecords DEF IInv, InRecords
  <2>10. ProfileInv'
    <3> SUFFICES ASSUME "profile" \notin overlap PROVE ProfileInv'
      BY <1>1 DEF ProfileInv
    <3>1. snap[p] = want /\ \A q \in Procs \ {p} : pc[q] \notin InProfile
      BY <1>1 DEF IInv, ProfileInv, Alone, InProfile
    <3>2. file' = want'
      BY <1>3, <3>1
    <3>3. \A q \in Procs : pc'[q] \notin InProfile
      BY <2>2, <3>1 DEF InProfile
    <3>4. \A q \in Procs : pc'[q] # "idle" => since'[q] \subseteq ctx'[q].freeze
      BY <1>1, <2>2, <2>5 DEF IInv, ProfileInv
    <3> QED BY <1>3, <3>2, <3>3, <3>4 DEF ProfileInv, Alone, InProfile
  <2> QED BY <2>7, <2>8, <2>9, <2>10 DEF IInv
<1> QED BY <1>2, <1>3 DEF Apply, Goto, local

-----------------------------------------------------------------------------
(* The steps that have to do with the records.                             *)

LEMMA PruneReadOK ==
  ASSUME IInv, NEW p \in Procs, PruneRead(p)
  PROVE  IInv'
<1>1. /\ pc[p] = "prune" /\ pc' = [pc EXCEPT ![p] = "pruneWrite"]
      /\ Enter(p, "records", FALSE)
      /\ UNCHANGED <<holders, shape, file, records, dirs, behind, cmd, arg, ctx, left,
                     updated, since, want>>
  BY DEF PruneRead, Goto, files
<1>2. PICK b \in {records \ {arg[p]}, {}} : snap' = [snap EXCEPT ![p].bucket = b]
  BY DEF PruneRead
<1>3. b \subseteq records /\ arg[p] \notin b /\ b \subseteq Buckets
  BY DEF IInv, Shapes
<1>4. /\ pc'[p] = "pruneWrite" /\ snap'[p].bucket = b /\ snap'[p] \in Content
      /\ \A q \in Procs \ {p} : pc'[q] = pc[q] /\ snap'[q] = snap[q]
  BY <1>1, <1>2, <1>3 DEF IInv, Shapes, Content
<1>5. snap' \in [Procs -> Content]
  BY <1>2, <1>3 DEF IInv, Shapes, Content
<1>6. Shapes'
  BY <1>1, <1>5 DEF IInv, Shapes
<1>7. Held'
  BY <1>1, <1>4, QuietHeld DEF IInv
<1>8. "profile" \in overlap' <=> "profile" \in overlap
  BY <1>1, EnterOther
<1>9. ProfileInv'
  BY <1>1, <1>4, <1>8, QuietProfile DEF IInv, InProfile
<1>10. RecordsInv'
  <2> SUFFICES ASSUME "records" \notin overlap' PROVE RecordsInv'
    BY DEF RecordsInv
  <2>1. "records" \notin overlap /\ \A q \in Procs \ {p} : pc[q] \notin InRecords
    BY <1>1, EnterRecords DEF IInv
  <2> QED BY <1>1, <1>3, <1>4, <2>1 DEF IInv, RecordsInv, Alone, InRecords
<1> QED BY <1>6, <1>7, <1>9, <1>10 DEF IInv

LEMMA PruneWriteOK ==
  ASSUME IInv, NEW p \in Procs, PruneWrite(p)
  PROVE  IInv'
<1>1. pc[p] = "pruneWrite" /\ UNCHANGED <<shape, file, dirs, behind, since, want, overlap>>
  BY DEF PruneWrite, history
<1>2. CASE Return(p) /\ UNCHANGED records
  BY <1>1, <1>2, ReturnOK
<1>3. CASE /\ records' = snap[p].bucket /\ pc' = [pc EXCEPT ![p] = "pruneDir"]
           /\ UNCHANGED <<holders, cmd, arg, ctx, snap, left, updated>>
  <2>1. pc'[p] = "pruneDir" /\ \A q \in Procs \ {p} : pc'[q] = pc[q]
    BY <1>3 DEF IInv, Shapes
  <2>2. Shapes'
    BY <1>1, <1>3 DEF IInv, Shapes, Content
  <2>3. Held'
    BY <1>1, <1>3, <2>1, QuietHeld DEF IInv
  <2>4. ProfileInv'
    BY <1>1, <1>3, <2>1, QuietProfile DEF IInv, InProfile
  <2>5. RecordsInv'
    BY <1>1, <1>3, <2>1 DEF IInv, RecordsInv, Updating, Alone, InRecords
  <2> QED BY <2>2, <2>3, <2>4, <2>5 DEF IInv
<1> QED BY <1>2, <1>3 DEF PruneWrite, Goto, local

LEMMA PruneDirOK ==
  ASSUME IInv, NEW p \in Procs, PruneDir(p)
  PROVE  IInv'
<1>1. /\ pc[p] = "pruneDir" /\ dirs' \in {dirs \ {arg[p]}, dirs} /\ Return(p)
      /\ UNCHANGED <<shape, file, records, behind, since, want, overlap>>
  BY DEF PruneDir, history
<1>2. Shapes /\ dirs' \subseteq Buckets
  BY <1>1 DEF IInv, Shapes
<1>3. Shapes'
  BY <1>1, <1>2, Returned DEF Shapes
<1>4. Held'
  BY <1>1, <1>2, Returned, QuietHeld DEF IInv
<1>5. ProfileInv'
  BY <1>1, <1>2, Returned, QuietProfile DEF IInv, InProfile
<1>6. RecordsInv'
  <2> SUFFICES ASSUME "records" \notin overlap PROVE RecordsInv'
    BY <1>1 DEF RecordsInv
  <2>1. arg[p] \notin records /\ \A q \in Procs : pc'[q] \notin InRecords
    BY <1>1, <1>2, Returned DEF IInv, RecordsInv, Alone, InRecords
  <2> QED BY <1>1, <2>1 DEF IInv, RecordsInv, Alone, InRecords
<1> QED BY <1>3, <1>4, <1>5, <1>6 DEF IInv

LEMMA UpdaterOK ==
  ASSUME IInv, NEW p \in Procs, BucketUpdaterInitialize(p)
  PROVE  IInv'
<1>1. /\ pc[p] = "locked" /\ cmd[p] = "update"
      /\ UNCHANGED <<shape, file, records, dirs, behind, since, want>>
  BY DEF BucketUpdaterInitialize, files
<1>2. CASE Return(p) /\ UNCHANGED overlap
  BY <1>1, <1>2, ReturnOK
<1>3. CASE /\ pc' = [pc EXCEPT ![p] = "update"] /\ Enter(p, "records", TRUE)
           /\ snap' = [snap EXCEPT ![p].bucket = records]
           /\ left' = [left EXCEPT ![p] = ctx[p].bucket]
           /\ updated' = [updated EXCEPT ![p] = {}]
           /\ UNCHANGED <<holders, cmd, arg, ctx>>
  <2>1. p \in holders
    BY <1>1 DEF IInv, Held
  <2>2. /\ pc'[p] = "update" /\ snap'[p].bucket = records /\ updated'[p] = {}
        /\ \A q \in Procs \ {p} : pc'[q] = pc[q] /\ snap'[q] = snap[q]
    BY <1>3 DEF IInv, Shapes, Content
  <2>3. snap' \in [Procs -> Content] /\ left' \in [Procs -> SUBSET Buckets]
    BY <1>3 DEF IInv, Shapes, Content
  <2>4. Shapes'
    BY <1>1, <1>3, <2>3 DEF IInv, Shapes
  <2>5. Held'
    BY <1>1, <1>3, <2>1, <2>2, QuietHeld DEF IInv
  <2>6. "profile" \in overlap' <=> "profile" \in overlap
    BY <1>3, EnterOther
  <2>7. ProfileInv'
    BY <1>1, <1>3, <2>2, <2>6, QuietProfile DEF IInv, InProfile
  <2>8. RecordsInv'
    <3> SUFFICES ASSUME "records" \notin overlap' PROVE RecordsInv'
      BY DEF RecordsInv
    <3>1. "records" \notin overlap /\ \A q \in Procs \ {p} : pc'[q] \notin InRecords
      BY <1>3, <2>1, <2>2, EnterRecords DEF IInv
    <3>2. Updating(p)'
      BY <1>1, <2>2, <3>1 DEF IInv, RecordsInv, Updating
    <3> QED BY <1>1, <2>2, <3>1, <3>2 DEF IInv, RecordsInv, Alone, InRecords
  <2> QED BY <2>4, <2>5, <2>7, <2>8 DEF IInv
<1> QED BY <1>2, <1>3 DEF BucketUpdaterInitialize, Goto

\* A step of an update with the list as it was, that changes at most the
\* folder of b and leaves what it says of the buckets true.
LEMMA UpdatingOK ==
  ASSUME IInv, NEW p \in Procs, NEW b \in Buckets,
         pc[p] \in {"update", "move"}, pc'[p] \in {"update", "move"},
         UNCHANGED <<holders, shape, file, records, cmd, ctx, since, want, overlap>>,
         Shapes',
         \A q \in Procs \ {p} : /\ pc'[q] = pc[q] /\ snap'[q] = snap[q] /\ arg'[q] = arg[q]
                               /\ left'[q] = left[q] /\ updated'[q] = updated[q],
         dirs \union behind \subseteq dirs' \union behind',
         "records" \notin overlap => Updating(p)'
  PROVE  IInv'
<1>1. p \in holders
  BY DEF IInv, Held
<1>2. Held'
  BY <1>1, QuietHeld DEF IInv
<1>3. ProfileInv'
  BY QuietProfile DEF IInv, InProfile
<1>4. RecordsInv'
  <2> SUFFICES ASSUME "records" \notin overlap PROVE RecordsInv'
    BY DEF RecordsInv
  <2>1. \A q \in Procs \ {p} : pc'[q] \notin InRecords
    BY DEF IInv, RecordsInv, Alone, InRecords
  <2> QED BY <2>1 DEF IInv, RecordsInv, Alone, InRecords
<1> QED BY <1>2, <1>3, <1>4 DEF IInv

LEMMA UpdateOK ==
  ASSUME IInv, NEW p \in Procs, NEW b \in Buckets, Update(p, b)
  PROVE  IInv'
<1>1. /\ pc[p] = "update" /\ b \in left[p] /\ left' = [left EXCEPT ![p] = @ \ {b}]
      /\ UNCHANGED <<holders, shape, file, records, cmd, ctx, since, want, overlap>>
  BY DEF Update
<1>2. /\ left' \in [Procs -> SUBSET Buckets] /\ left'[p] = left[p] \ {b}
      /\ \A q \in Procs \ {p} : left'[q] = left[q]
  BY <1>1 DEF IInv, Shapes
<1>3. "records" \notin overlap => Updating(p)
  BY <1>1 DEF IInv, RecordsInv
<1>4. CASE /\ dirs' \in {dirs, dirs \union {b}}
           /\ UNCHANGED <<pc, arg, snap, updated, behind>>
  <2>1. Shapes'
    BY <1>1, <1>2, <1>4 DEF IInv, Shapes
  <2>2. "records" \notin overlap => Updating(p)'
    BY <1>1, <1>2, <1>3, <1>4 DEF Updating
  <2> QED BY <1>1, <1>2, <1>4, <2>1, <2>2, UpdatingOK
<1>5. CASE /\ dirs' = dirs \union {b}
           /\ snap' = [snap EXCEPT ![p].bucket = @ \union {b}]
           /\ updated' = [updated EXCEPT ![p] = @ \union {b}]
           /\ UNCHANGED <<pc, arg, behind>>
  <2>1. /\ snap' \in [Procs -> Content] /\ updated' \in [Procs -> SUBSET Buckets]
        /\ snap'[p].bucket = snap[p].bucket \union {b} /\ updated'[p] = updated[p] \union {b}
        /\ \A q \in Procs \ {p} : snap'[q] = snap[q] /\ updated'[q] = updated[q]
    BY <1>5 DEF IInv, Shapes, Content
  <2>2. Shapes'
    BY <1>1, <1>2, <1>5, <2>1 DEF IInv, Shapes
  <2>3. "records" \notin overlap => Updating(p)'
    BY <1>1, <1>2, <1>3, <1>5, <2>1 DEF Updating
  <2> QED BY <1>1, <1>2, <1>5, <2>1, <2>2, <2>3, UpdatingOK
<1>6. CASE /\ dirs' \in {dirs \ {b}, dirs} /\ behind' = behind \union {b}
           /\ pc' = [pc EXCEPT ![p] = "move"] /\ arg' = [arg EXCEPT ![p] = b]
           /\ UNCHANGED <<snap, updated>>
  <2>1. /\ pc'[p] = "move" /\ arg'[p] = b
        /\ \A q \in Procs \ {p} : pc'[q] = pc[q] /\ arg'[q] = arg[q]
    BY <1>6 DEF IInv, Shapes
  <2>2. Shapes'
    <3>1. /\ pc' \in [Procs -> {"idle", "create", "fill", "start", "locked", "apply",
                              "prune", "pruneWrite", "pruneDir", "update", "move"}]
          /\ arg' \in [Procs -> Buckets \union Names \union {None}]
      BY <1>6 DEF IInv, Shapes
    <3>2. cmd[p] \notin {"freeze", "unfreeze"}
      BY <1>1 DEF IInv, Shapes
    <3> QED BY <1>1, <1>2, <1>6, <2>1, <3>1, <3>2 DEF IInv, Shapes
  <2>3. "records" \notin overlap => Updating(p)'
    BY <1>1, <1>2, <1>3, <1>6, <2>1 DEF Updating
  <2> QED BY <1>1, <1>2, <1>6, <2>1, <2>2, <2>3, UpdatingOK
<1> QED BY <1>4, <1>5, <1>6 DEF Update, Goto

LEMMA MoveOK ==
  ASSUME IInv, NEW p \in Procs, MoveBucket(p)
  PROVE  IInv'
<1> DEFINE b == arg[p]
<1>1. /\ pc[p] = "move" /\ b \in Buckets /\ cmd[p] = "update"
      /\ pc' = [pc EXCEPT ![p] = "update"] /\ arg' = [arg EXCEPT ![p] = None]
      /\ UNCHANGED <<holders, shape, file, records, behind, cmd, ctx, left, since, want, overlap>>
  BY DEF MoveBucket, Goto, history, IInv, Shapes
<1>2. /\ pc'[p] = "update"
      /\ \A q \in Procs \ {p} : pc'[q] = pc[q] /\ arg'[q] = arg[q]
  BY <1>1 DEF IInv, Shapes
<1>3. "records" \notin overlap => Updating(p)
  BY <1>1 DEF IInv, RecordsInv
<1>4. /\ pc' \in [Procs -> {"idle", "create", "fill", "start", "locked", "apply",
                            "prune", "pruneWrite", "pruneDir", "update", "move"}]
      /\ arg' \in [Procs -> Buckets \union Names \union {None}]
  BY <1>1 DEF IInv, Shapes
<1>5. CASE UNCHANGED <<dirs, snap, updated>>
  <2>1. Shapes'
    BY <1>1, <1>2, <1>4, <1>5 DEF IInv, Shapes
  <2>2. "records" \notin overlap => Updating(p)'
    BY <1>1, <1>2, <1>3, <1>5 DEF Updating
  <2> QED BY <1>1, <1>2, <1>5, <2>1, <2>2, UpdatingOK
<1>6. CASE /\ dirs' = dirs \union {b}
           /\ snap' = [snap EXCEPT ![p].bucket = @ \union {b}]
           /\ updated' = [updated EXCEPT ![p] = @ \union {b}]
  <2>1. /\ snap' \in [Procs -> Content] /\ updated' \in [Procs -> SUBSET Buckets]
        /\ snap'[p].bucket = snap[p].bucket \union {b} /\ updated'[p] = updated[p] \union {b}
        /\ \A q \in Procs \ {p} : snap'[q] = snap[q] /\ updated'[q] = updated[q]
    BY <1>1, <1>6 DEF IInv, Shapes, Content
  <2>2. Shapes'
    BY <1>1, <1>2, <1>4, <1>6, <2>1 DEF IInv, Shapes
  <2>3. "records" \notin overlap => Updating(p)'
    BY <1>1, <1>2, <1>3, <1>6, <2>1 DEF Updating
  <2> QED BY <1>1, <1>2, <1>6, <2>1, <2>2, <2>3, UpdatingOK
<1> QED BY <1>5, <1>6 DEF MoveBucket

LEMMA ImmobilizedOK ==
  ASSUME IInv, NEW p \in Procs, Immobilized(p)
  PROVE  IInv'
<1>1. /\ pc[p] = "update" /\ Return(p)
      /\ \/ records' = snap[p].bucket /\ behind' = behind \ updated[p]
         \/ UNCHANGED <<records, behind>>
      /\ UNCHANGED <<shape, file, dirs, since, want, overlap>>
  BY DEF Immobilized
<1>2. Shapes /\ records' \subseteq Buckets /\ behind' \subseteq Buckets
  BY <1>1 DEF IInv, Shapes, Content
<1>3. Shapes'
  BY <1>1, <1>2, Returned DEF Shapes
<1>4. Held'
  BY <1>1, <1>2, Returned, QuietHeld DEF IInv
<1>5. ProfileInv'
  BY <1>1, <1>2, Returned, QuietProfile DEF IInv, InProfile
<1>6. RecordsInv'
  <2> SUFFICES ASSUME "records" \notin overlap PROVE RecordsInv'
    BY <1>1 DEF RecordsInv
  <2>1. Updating(p) /\ \A q \in Procs : pc'[q] \notin InRecords
    BY <1>1, <1>2, Returned DEF IInv, RecordsInv, Alone, InRecords
  <2>2. records' \subseteq dirs' \union behind'
    BY <1>1, <2>1 DEF IInv, RecordsInv, Updating
  <2> QED BY <1>1, <2>1, <2>2 DEF RecordsInv, Alone, InRecords
<1> QED BY <1>3, <1>4, <1>5, <1>6 DEF IInv

-----------------------------------------------------------------------------
LEMMA StepOK == IInv /\ [Next]_vars => IInv'
<1> SUFFICES ASSUME IInv, [Next]_vars PROVE IInv'
  OBVIOUS
<1>1. CASE UNCHANGED vars
  BY <1>1 DEF vars, files, local, history, IInv, Shapes, Held, ProfileInv, RecordsInv,
              Updating, Alone
<1>2. ASSUME NEW p \in Procs, Step(p) PROVE IInv'
  <2>1. CASE Upgrade(p)
    BY <2>1, ReturnOK DEF Upgrade, history
  <2>2. CASE Killed(p)
    BY <2>2, ReturnOK DEF Killed
  <2> QED BY <1>2, <2>1, <2>2, StartOK, CreateOK, MutexOK, ReadOK, ApplyOK, PruneReadOK,
             PruneWriteOK, PruneDirOK, UpdaterOK, UpdateOK, MoveOK, ImmobilizedOK DEF Step
<1> QED BY <1>1, <1>2 DEF Next

\* The rest of the state is of its type too: above all, an upgrade is of a
\* package that has a lock file.
Rest ==
  /\ holders \subseteq Procs
  /\ shape \in {"absent", "torn", "whole"}
  /\ writer \in Procs \union {None}
  /\ upgraded \subseteq Packages
  /\ commands \in 0 .. MaxCommands /\ crashes \in 0 .. MaxCrashes
  /\ overlap \subseteq {"profile", "records"}
  /\ \A p \in Procs : cmd[p] = "upgrade" => arg[p] \in Packages

LEMMA RestStep == Shapes /\ Rest /\ [Next]_vars => Rest'
<1> SUFFICES ASSUME Shapes, Rest, [Next]_vars PROVE Rest'
  OBVIOUS
<1> USE DEF Rest, files, local, history
<1>1. CASE UNCHANGED vars
  BY <1>1 DEF vars
<1>2. ASSUME NEW p \in Procs, Step(p) PROVE Rest'
  <2>0. ASSUME NEW f \in {"profile", "records"}, NEW b, Enter(p, f, b)
        PROVE  overlap' \subseteq {"profile", "records"}
    BY <2>0 DEF Enter
  <2>1. ASSUME NEW c \in Locked \union Editing, NEW a \in Arguments(c),
               initializeInternal(p, c, a)
        PROVE  Rest'
    <3>1. commands' \in 0 .. MaxCommands
      BY <2>1, ProfileAssumption DEF initializeInternal
    <3>2. overlap' \subseteq {"profile", "records"}
      BY <2>0, <2>1 DEF initializeInternal
    <3>3. c = "upgrade" => a \in Packages
      BY DEF Arguments
    <3>4. \A q \in Procs : cmd'[q] = "upgrade" => arg'[q] \in Packages
      BY <2>1, <3>3 DEF initializeInternal, Shapes
    <3> QED BY <2>1, <3>1, <3>2, <3>4 DEF initializeInternal
  <2>R. ASSUME Return(p)
        PROVE  /\ holders' \subseteq Procs
               /\ \A q \in Procs : cmd'[q] = "upgrade" => arg'[q] \in Packages
    BY <2>R DEF Return, Shapes
  <2>2. CASE CreateProfile(p) \/ FillProfile(p)
    BY <2>2 DEF CreateProfile, FillProfile
  <2>3. CASE MakeFsMutex(p)
    BY <2>3, <2>R DEF MakeFsMutex, Acquire
  <2>4. CASE ReadProfile(p)
    BY <2>0, <2>4, <2>R DEF ReadProfile
  <2>5. CASE Apply(p)
    BY <2>5, <2>R DEF Apply
  <2>6. CASE PruneRead(p)
    BY <2>0, <2>6 DEF PruneRead
  <2>7. CASE PruneWrite(p) \/ PruneDir(p) \/ Immobilized(p)
    BY <2>7, <2>R DEF PruneWrite, PruneDir, Immobilized
  <2>8. CASE BucketUpdaterInitialize(p)
    <3>1. overlap' \subseteq {"profile", "records"}
      BY <2>0, <2>8 DEF BucketUpdaterInitialize
    <3> QED BY <2>8, <2>R, <3>1 DEF BucketUpdaterInitialize
  <2>9. CASE (\E b \in Buckets : Update(p, b)) \/ MoveBucket(p)
    <3>1. \A q \in Procs : cmd'[q] = "upgrade" => arg'[q] \in Packages
      <4>1. cmd[p] = "update" /\ cmd' = cmd
        BY <2>9 DEF Update, MoveBucket, Shapes
      <4>2. \A q \in Procs \ {p} : arg'[q] = arg[q]
        BY <2>9 DEF Update, MoveBucket, Shapes
      <4> QED BY <4>1, <4>2
    <3> QED BY <2>9, <3>1 DEF Update, MoveBucket
  <2>10. CASE Upgrade(p)
    BY <2>10, <2>R DEF Upgrade
  <2>11. CASE Killed(p)
    <3>1. crashes' \in 0 .. MaxCrashes
      BY <2>11, ProfileAssumption DEF Killed
    <3> QED BY <2>11, <2>R, <3>1 DEF Killed
  <2> QED BY <1>2, <2>1, <2>2, <2>3, <2>4, <2>5, <2>6, <2>7, <2>8, <2>9, <2>10, <2>11
          DEF Step
<1> QED BY <1>1, <1>2 DEF Next

\* Whatever runs at once and is killed, the profile and the list of buckets
\* that a command reads and writes back are such, and upgrade goes through
\* packages that are installed.
THEOREM TypeCorrect == Spec => []TypeOK
<1>1. Init => Rest
  BY ProfileAssumption DEF Init, LockInit, Rest
<1>2. IInv => Shapes
  BY DEF IInv
<1>3. Shapes /\ Rest => TypeOK
  BY DEF Shapes, Rest, TypeOK
<1> QED BY InitOK, StepOK, RestStep, <1>1, <1>2, <1>3, PTL DEF Spec

\* The commands use the mutex as FsLock says, which is what the pid file of
\* FsMutex is shown to implement: taken by one process while nobody has it, and
\* given up by the one that has it, when it returns or dies.
THEOREM UsesLock == Spec => LockSpec
<1>1. Init => LockInit
  BY DEF Init
<1>2. [Next]_vars => [LockNext]_holders
  <2> SUFFICES ASSUME NEW p \in Procs, Step(p) PROVE LockNext \/ holders' = holders
    BY DEF Next, vars
  <2>1. ASSUME Return(p) PROVE LockNext \/ holders' = holders
    <3>1. CASE p \in holders
      BY <2>1, <3>1 DEF Return, LockNext, Release
    <3>2. CASE p \notin holders
      BY <2>1, <3>2 DEF Return
    <3> QED BY <3>1, <3>2
  <2>2. CASE MakeFsMutex(p)
    BY <2>1, <2>2 DEF MakeFsMutex, LockNext
  <2>3. \/ Return(p) \/ holders' = holders \/ MakeFsMutex(p)
    BY DEF Step, initializeInternal, CreateProfile, FillProfile, ReadProfile, Apply, PruneRead,
           PruneWrite, PruneDir, BucketUpdaterInitialize, Update, MoveBucket, Immobilized,
           Upgrade, Killed
  <2> QED BY <2>1, <2>2, <2>3
<1> QED BY <1>1, <1>2, PTL DEF Spec, LockSpec

\* No edit of config\baulk.json that reported success is lost, as long as no
\* two commands changed it at once of which one did not hold the mutex.
THEOREM NoEditEverLost == Spec => []NoEditLost
<1>1. IInv => NoEditLost
  BY DEF IInv, ProfileInv, NoEditLost
<1> QED BY InitOK, StepOK, <1>1, PTL DEF Spec

\* An entry of buckets.lock.json stands for a folder that is there, or is one
\* that an update found behind the head, as long as no PruneBucket ran while
\* another command was changing the list.
THEOREM RecordedAlwaysThere == Spec => []RecordedIsThere
<1>1. IInv => RecordedIsThere
  BY DEF IInv, RecordsInv, RecordedIsThere
<1> QED BY InitOK, StepOK, <1>1, PTL DEF Spec

\* What a single step may upgrade.
LEMMA UpgradeSkips ==
  ASSUME IInv, [Next]_vars, "profile" \notin overlap, NEW x \in upgraded' \ upgraded,
         NEW p \in Procs, pc[p] # pc'[p]
  PROVE  x \notin since[p]
<1>1. ~ UNCHANGED vars
  BY DEF vars, files
<1>2. PICK q \in Procs : Step(q)
  BY <1>1 DEF Next
<1>3. Upgrade(q)
  BY <1>2 DEF Step, initializeInternal, CreateProfile, FillProfile, MakeFsMutex, ReadProfile,
              Apply, PruneRead, PruneWrite, PruneDir, BucketUpdaterInitialize, Update,
              MoveBucket, Immobilized, Killed, files
<1>4. x = arg[q] /\ x \notin ctx[q].freeze /\ pc[q] # "idle" /\ p = q
  BY <1>3 DEF Upgrade, IsFrozenedPackage, Return, Goto, IInv, Shapes
<1> QED BY <1>4 DEF IInv, ProfileInv

\* An upgrade without --force leaves a package alone that has been frozen, by
\* the name of its lock file, since before the upgrade started, provided that
\* it could read the profile.
THEOREM FrozenAlwaysSkipped == Spec => FrozenIsSkipped
<1>1. IInv /\ [Next]_vars =>
        [\A x \in upgraded' \ upgraded : "profile" \notin overlap =>
           \A p \in Procs : pc[p] # pc'[p] => x \notin since[p]]_vars
  BY UpgradeSkips
<1> QED BY InitOK, StepOK, <1>1, PTL DEF Spec, FrozenIsSkipped
=============================================================================
