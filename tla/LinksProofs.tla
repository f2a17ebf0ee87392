----------------------------- MODULE LinksProofs ----------------------------
(***************************************************************************)
(* Proofs about Links, for any packages and aliases.                       *)
(***************************************************************************)
EXTENDS Links, TLAPS

Shapes ==
  /\ links \in [Aliases -> Link \union {None}]
  /\ meta \in [Aliases -> Packages \union {None}]
  /\ pkg \in Packages \union {None}
  /\ pc # "idle" => pkg \in Packages
  /\ cmd \in {"none", "install", "remove"} /\ stage \in Kinds
  /\ want \in Manifests
  /\ todo \in SUBSET Aliases /\ made \in SUBSET Aliases /\ sound \in SUBSET Aliases

\* The alias is a link of the package under way.
Linked(a) == links[a] # None /\ links[a].by = pkg

\* The aliases the loop is about.
Asked == IF stage = "symlink" THEN want.links ELSE want.launchers

\* Where the commands are: what is installed stays so while it is linked, and
\* the loops go through what they are to go through.
Control ==
  /\ pc \in {"make", "launchers"} => cmd = "install"
  /\ pc = "wipe" => cmd = "remove"
  /\ cmd = "install" => Fold[pkg] \in installed
  /\ pc = "dropFile" => todo \subseteq Recorded(pkg)
  /\ pc = "make" =>
       /\ todo \subseteq Asked /\ made \subseteq Asked \ todo
       /\ "compile" \notin faults => Asked \subseteq todo \union made
       /\ \A a \in made : Linked(a)

\* What the symlinks, made first, have come to.
LinksDone ==
  "compile" \notin faults /\ "unrecorded" \notin faults /\
  (pc = "launchers" \/ (pc = "make" /\ stage # "symlink")) =>
    \A a \in want.links : Linked(a) /\ meta[a] = pkg

\* An alias that was sound is so still, or its new link is not recorded yet,
\* or the file is deleted and its record not yet.
StillSound ==
  faults = {} =>
    /\ pc \in {"drop", "launchers", "wipe"} => \A a \in sound : Sound(a)
    /\ pc = "dropFile" => \A a \in sound : Sound(a) \/ (meta[a] = pkg /\ a \notin todo)
    /\ pc = "dropFile" => \A a \in Recorded(pkg) \ todo : links[a] = None
    /\ pc = "make" => \A a \in sound : Sound(a) \/ a \in made
    /\ pc = "wipe" => Recorded(pkg) = {}

IInv == Shapes /\ Control /\ LinksDone /\ StillSound
             /\ SuccessMeansLinked /\ QuietKeepsSound

LEMMA InitOK == Init => IInv
  BY LinksAssumption
     DEF Init, IInv, Shapes, Kinds, Manifests, Nothing, Control, LinksDone, StillSound,
         SuccessMeansLinked, QuietKeepsSound, Done

\* A link of the package is one, and not nothing.
LEMMA LinkOf ==
  ASSUME NEW p \in Packages, NEW k \in Kinds
  PROVE  /\ [by |-> p, kind |-> k] \in Link /\ [by |-> p, kind |-> k] # None
         /\ [by |-> p, kind |-> k].by = p
  BY LinksAssumption DEF Link

\* A command that fails or is killed leaves nothing to show.
LEMMA FailOK ==
  ASSUME IInv, NEW r \in {"failure", "killed"}, Finish(r),
         links' \in [Aliases -> Link \union {None}],
         UNCHANGED <<meta, installed>>
  PROVE  IInv'
<1>1. Shapes'
  BY DEF IInv, Shapes, Finish, Nothing, Kinds, Manifests
<1>2. Control' /\ LinksDone' /\ StillSound'
  BY DEF IInv, Control, LinksDone, StillSound, Finish
<1>3. SuccessMeansLinked' /\ QuietKeepsSound'
  BY DEF Finish, SuccessMeansLinked, QuietKeepsSound, Done
<1> QED BY <1>1, <1>2, <1>3 DEF IInv

LEMMA StartOK ==
  ASSUME IInv, NEW c \in {"install", "remove"}, NEW p \in Packages, NEW m \in Manifests,
         Start(c, p, m), installed \subseteq installed', c = "install" => Fold[p] \in installed'
  PROVE  IInv'
<1>1. Shapes'
  BY DEF IInv, Shapes, Start
<1>2. Control' /\ LinksDone'
  BY DEF IInv, Control, LinksDone, Start
<1>3. StillSound'
  BY DEF StillSound, Start, Sound
<1>4. SuccessMeansLinked' /\ QuietKeepsSound'
  BY DEF Start, SuccessMeansLinked, QuietKeepsSound, Done
<1> QED BY <1>1, <1>2, <1>3, <1>4 DEF IInv

\* After DropLinks, when what was sound is, as far as nothing failed.
LEMMA AfterDropOK ==
  ASSUME IInv, pc \in {"drop", "dropFile"}, AfterDrop, UNCHANGED <<links, installed>>,
         meta' \in [Aliases -> Packages \union {None}],
         faults' = {} => /\ \A a \in sound : Sound(a)'
                         /\ \A a \in Aliases : meta'[a] # pkg
  PROVE  IInv'
<1>1. CASE Finish("failure")
  <2>1. Shapes'
    BY <1>1 DEF IInv, Shapes, Finish, Nothing, Kinds, Manifests
  <2>2. Control' /\ LinksDone' /\ StillSound'
    BY <1>1 DEF IInv, Control, LinksDone, StillSound, Finish
  <2>3. SuccessMeansLinked' /\ QuietKeepsSound'
    BY <1>1 DEF Finish, SuccessMeansLinked, QuietKeepsSound, Done
  <2> QED BY <2>1, <2>2, <2>3 DEF IInv
<1>2. CASE ~Finish("failure")
  <2>1. /\ UNCHANGED <<cmd, pkg, want, result, sound>>
        /\ \/ cmd = "remove" /\ pc' = "wipe" /\ todo' = {} /\ UNCHANGED <<stage, made>>
           \/ /\ cmd = "install" /\ pc' = "make" /\ stage' = "symlink"
              /\ todo' = want.links /\ made' = {}
           \/ /\ cmd = "install" /\ want.links = {} /\ pc' = "launchers" /\ todo' = {}
              /\ UNCHANGED <<stage, made>>
    BY <1>2 DEF AfterDrop, Begin
  <2>2. Shapes'
    BY <2>1 DEF IInv, Shapes, Manifests, Kinds
  <2>3. Control'
    BY <2>1 DEF IInv, Control, Asked
  <2>4. LinksDone'
    BY <2>1 DEF LinksDone
  <2>5. StillSound'
    BY <2>1 DEF StillSound, Recorded
  <2>6. SuccessMeansLinked' /\ QuietKeepsSound'
    BY <2>1 DEF SuccessMeansLinked, QuietKeepsSound, Done
  <2> QED BY <2>2, <2>3, <2>4, <2>5, <2>6 DEF IInv
<1> QED BY <1>1, <1>2

LEMMA DropReadOK ==
  ASSUME IInv, DropRead
  PROVE  IInv'
<1>1. pc = "drop" /\ UNCHANGED <<links, meta, installed>>
  BY DEF DropRead, disk
<1>2. CASE AfterDrop /\ faults' = faults \union {"undropped"}
  <2>1. faults' # {}
    BY <1>2
  <2>2. meta' \in [Aliases -> Packages \union {None}]
    BY <1>1 DEF IInv, Shapes
  <2> QED BY <1>1, <1>2, <2>1, <2>2, AfterDropOK
<1>3. CASE /\ pc' = "dropFile" /\ todo' = Recorded(pkg)
           /\ UNCHANGED <<cmd, pkg, want, stage, made, result, sound, faults>>
  <2>1. Shapes'
    BY <1>1, <1>3 DEF IInv, Shapes, Recorded
  <2>2. Control' /\ LinksDone'
    BY <1>1, <1>3 DEF IInv, Control, LinksDone, Recorded
  <2>3. StillSound'
    BY <1>1, <1>3 DEF IInv, StillSound, Recorded, Sound
  <2>4. SuccessMeansLinked' /\ QuietKeepsSound'
    BY <1>3 DEF SuccessMeansLinked, QuietKeepsSound, Done
  <2> QED BY <2>1, <2>2, <2>3, <2>4 DEF IInv
<1> QED BY <1>2, <1>3 DEF DropRead

LEMMA DropFileOK ==
  ASSUME IInv, NEW a \in Aliases, DropFile(a)
  PROVE  IInv'
<1>1. /\ pc = "dropFile" /\ a \in todo /\ todo' = todo \ {a}
      /\ UNCHANGED <<meta, installed, pc, cmd, pkg, want, stage, made, result, sound>>
      /\ \/ links' = [links EXCEPT ![a] = None] /\ faults' = faults
         \/ links' = links /\ faults' # {}
  BY DEF DropFile
<1>2. meta[a] = pkg
  BY <1>1 DEF IInv, Control, Recorded
<1>3. Shapes'
  BY <1>1 DEF IInv, Shapes
<1>4. Control' /\ LinksDone'
  BY <1>1 DEF IInv, Control, LinksDone, Recorded
<1>5. StillSound'
  <2> SUFFICES ASSUME faults' = {} PROVE StillSound'
    BY DEF StillSound
  <2>1. faults = {} /\ links'[a] = None /\ \A b \in Aliases \ {a} : links'[b] = links[b]
    BY <1>1 DEF IInv, Shapes
  <2>2. \A b \in sound : Sound(b)' \/ (meta'[b] = pkg' /\ b \notin todo')
    BY <1>1, <1>2, <2>1 DEF IInv, Shapes, StillSound, Sound
  <2>3. \A b \in Recorded(pkg)' \ todo' : links'[b] = None
    BY <1>1, <2>1 DEF IInv, StillSound, Recorded
  <2> QED BY <1>1, <2>2, <2>3 DEF StillSound
<1>6. SuccessMeansLinked' /\ QuietKeepsSound'
  BY <1>1 DEF SuccessMeansLinked, QuietKeepsSound, Done
<1> QED BY <1>3, <1>4, <1>5, <1>6 DEF IInv

LEMMA DropStoreOK ==
  ASSUME IInv, DropStore
  PROVE  IInv'
<1>1. /\ pc = "dropFile" /\ todo = {} /\ AfterDrop /\ UNCHANGED <<links, installed>>
      /\ \/ /\ meta' = [a \in Aliases |-> IF meta[a] = pkg THEN None ELSE meta[a]]
            /\ faults' = faults
         \/ meta' = meta /\ faults' # {}
  BY DEF DropStore
<1>2. meta' \in [Aliases -> Packages \union {None}]
  BY <1>1 DEF IInv, Shapes
<1>3. ASSUME faults' = {}
      PROVE  (\A a \in sound : Sound(a)') /\ (\A a \in Aliases : meta'[a] # pkg)
  <2>1. /\ faults = {} /\ pkg # None
        /\ \A a \in Aliases : meta'[a] = IF meta[a] = pkg THEN None ELSE meta[a]
    BY <1>1, <1>3, LinksAssumption DEF IInv, Shapes
  <2>2. \A a \in sound : a \in Aliases /\ (Sound(a) \/ meta[a] = pkg)
    BY <1>1, <2>1 DEF IInv, Shapes, StillSound
  <2>3. \A a \in Aliases : meta[a] = pkg => links[a] = None
    BY <1>1, <2>1 DEF IInv, StillSound, Recorded
  <2> QED BY <1>1, <2>1, <2>2, <2>3 DEF Sound
<1> QED BY <1>1, <1>2, <1>3, AfterDropOK

LEMMA WipeOK ==
  ASSUME IInv, Wipe
  PROVE  IInv'
<1>1. /\ pc = "wipe" /\ UNCHANGED <<links, meta, faults>> /\ cmd = "remove"
  BY DEF Wipe, IInv, Control
<1>2. CASE installed' = installed /\ Finish("failure")
  BY <1>1, <1>2, FailOK DEF IInv, Shapes
<1>3. CASE installed' = installed \ {Fold[pkg]} /\ Finish("success")
  <2>1. Shapes'
    BY <1>1, <1>3 DEF IInv, Shapes, Finish, Kinds
  <2>2. Control' /\ LinksDone' /\ StillSound' /\ SuccessMeansLinked'
    BY <1>1, <1>3 DEF Control, LinksDone, StillSound, SuccessMeansLinked, Finish
  <2>3. QuietKeepsSound'
    <3> SUFFICES ASSUME faults = {}, NEW a \in sound PROVE Sound(a)' \/ Misspelt(a)'
      BY <1>1, <1>3 DEF QuietKeepsSound, Finish
    <3>1. Sound(a) /\ a \in Aliases /\ meta[a] # pkg
      BY <1>1 DEF IInv, StillSound, Shapes, Recorded
    <3>2. CASE links[a] = None /\ meta[a] = None
      BY <1>1, <3>2 DEF Sound
    <3>3. CASE /\ links[a] # None /\ meta[a] = links[a].by
               /\ Fold[meta[a]] \in installed
      <4>1. meta[a] \in Packages
        BY <3>1, <3>3 DEF IInv, Shapes, Link
      <4>2. CASE Fold[meta[a]] = Fold[pkg]
        BY <1>1, <1>3, <3>1, <4>1, <4>2 DEF Misspelt, Finish
      <4>3. CASE Fold[meta[a]] # Fold[pkg]
        BY <1>1, <1>3, <3>3, <4>3 DEF Sound
      <4> QED BY <4>2, <4>3
    <3> QED BY <3>1, <3>2, <3>3 DEF Sound
  <2> QED BY <2>1, <2>2, <2>3 DEF IInv
<1> QED BY <1>2, <1>3 DEF Wipe

\* One more link is made in a loop.
LEMMA MadeOK ==
  ASSUME IInv, NEW a \in Aliases, pc = "make", a \in todo,
         links' = [links EXCEPT ![a] = [by |-> pkg, kind |-> stage]],
         todo' = todo \ {a}, made' = made \union {a},
         UNCHANGED <<meta, installed, pc, cmd, pkg, want, stage, result, faults, sound>>
  PROVE  IInv'
<1>1. pkg \in Packages /\ stage \in Kinds
  BY DEF IInv, Shapes
<1>2. links' \in [Aliases -> Link \union {None}]
  BY <1>1, LinkOf DEF IInv, Shapes
<1>3. links'[a] # None /\ links'[a].by = pkg /\ \A b \in Aliases \ {a} : links'[b] = links[b]
  BY <1>1, LinkOf DEF IInv, Shapes
<1>4. Shapes'
  BY <1>2 DEF IInv, Shapes
<1>5. \A b \in made' : Linked(b)'
  BY <1>3 DEF IInv, Shapes, Control, Linked
<1>6. Control'
  BY <1>5 DEF IInv, Control, Asked
<1>7. LinksDone'
  <2>1. \A b \in want.links : b \in Aliases
    BY DEF IInv, Shapes, Manifests
  <2>2. \A b \in Aliases : Linked(b) => Linked(b)'
    BY <1>3 DEF Linked
  <2> QED BY <2>1, <2>2 DEF IInv, LinksDone
<1>8. StillSound'
  <2>1. \A b \in sound : b \in Aliases
    BY DEF IInv, Shapes
  <2>2. \A b \in Aliases \ {a} : Sound(b) => Sound(b)'
    BY <1>3 DEF Sound
  <2> QED BY <2>1, <2>2 DEF IInv, StillSound
<1>9. SuccessMeansLinked' /\ QuietKeepsSound'
  BY DEF SuccessMeansLinked, QuietKeepsSound, Done
<1> QED BY <1>4, <1>6, <1>7, <1>8, <1>9 DEF IInv

LEMMA MakeSymlinkOK ==
  ASSUME IInv, NEW a \in Aliases, MakeSymlink(a)
  PROVE  IInv'
<1>1. pc = "make" /\ a \in todo /\ UNCHANGED <<meta, installed, faults>>
  BY DEF MakeSymlink
<1>2. CASE /\ links' = links \/ links' = [links EXCEPT ![a] = None]
           /\ Finish("failure")
  <2>1. links' \in [Aliases -> Link \union {None}]
    BY <1>2 DEF IInv, Shapes
  <2> QED BY <1>1, <1>2, <2>1, FailOK
<1>3. CASE /\ links' = [links EXCEPT ![a] = [by |-> pkg, kind |-> stage]]
           /\ todo' = todo \ {a} /\ made' = made \union {a}
           /\ UNCHANGED <<pc, cmd, pkg, want, stage, result, sound>>
  BY <1>1, <1>3, MadeOK
<1> QED BY <1>2, <1>3 DEF MakeSymlink

LEMMA MakeLauncherOK ==
  ASSUME IInv, NEW a \in Aliases, MakeLauncher(a)
  PROVE  IInv'
<1>1. /\ pc = "make" /\ stage = "launcher" /\ a \in todo /\ todo' = todo \ {a}
      /\ UNCHANGED <<meta, installed, pc, cmd, pkg, want, stage, result, sound>>
  BY DEF MakeLauncher
<1>2. CASE /\ links' = [links EXCEPT ![a] = [by |-> pkg, kind |-> stage]]
           /\ made' = made \union {a} /\ UNCHANGED faults
  BY <1>1, <1>2, MadeOK
<1>3. CASE /\ links' = links \/ links' = [links EXCEPT ![a] = None]
           /\ faults' = faults \union {"compile"} /\ UNCHANGED made
  <2>1. links' \in [Aliases -> Link \union {None}]
    BY <1>3 DEF IInv, Shapes
  <2>2. "compile" \in faults' /\ faults' # {}
    BY <1>3
  <2>3. Shapes'
    BY <1>1, <1>3, <2>1 DEF IInv, Shapes
  <2>4. \A b \in made \ {a} : Linked(b)'
    BY <1>1, <1>3 DEF IInv, Shapes, Control, Linked
  <2>5. a \notin made
    BY <1>1 DEF IInv, Control
  <2>6. Control'
    BY <1>1, <1>3, <2>2, <2>4, <2>5 DEF IInv, Control, Asked
  <2>7. LinksDone' /\ StillSound'
    BY <2>2 DEF LinksDone, StillSound
  <2>8. SuccessMeansLinked' /\ QuietKeepsSound'
    BY <1>1 DEF SuccessMeansLinked, QuietKeepsSound, Done
  <2> QED BY <2>3, <2>6, <2>7, <2>8 DEF IInv
<1> QED BY <1>2, <1>3 DEF MakeLauncher

LEMMA LinkMetaStoreOK ==
  ASSUME IInv, LinkMetaStore
  PROVE  IInv'
<1>1. /\ pc = "make" /\ todo = {} /\ UNCHANGED <<links, installed>>
      /\ faults \subseteq faults'
      /\ UNCHANGED <<cmd, pkg, want, sound>> /\ todo' = {} /\ made' = {}
      /\ stage' = "symlink"
      /\ \/ stage = "symlink" /\ pc' = "launchers" /\ result' = result
         \/ stage # "symlink" /\ pc' = "idle" /\ result' = "success"
  BY DEF LinkMetaStore, Finish
<1>2. cmd = "install" /\ pkg \in Packages /\ Fold[pkg] \in installed
  BY <1>1 DEF IInv, Shapes, Control
<1>3. meta' \in [Aliases -> Packages \union {None}]
  BY <1>2 DEF LinkMetaStore, StoredMeta, IInv, Shapes
<1>4. "unrecorded" \notin faults' =>
        \A a \in Aliases : meta'[a] = IF a \in made THEN pkg ELSE meta[a]
  BY DEF LinkMetaStore, StoredMeta, IInv, Shapes
<1>5. Shapes'
  BY <1>1, <1>2, <1>3 DEF IInv, Shapes, Kinds
<1>6. Control'
  BY <1>1, <1>2 DEF Control
<1>7. /\ want.links \subseteq Aliases /\ want.launchers \subseteq Aliases
      /\ made \subseteq Aliases /\ sound \subseteq Aliases
  BY DEF IInv, Shapes, Manifests
<1>8. \A a \in made : Linked(a)'
  BY <1>1 DEF IInv, Control, Linked
<1>9. ASSUME "compile" \notin faults', "unrecorded" \notin faults'
      PROVE  /\ \A a \in want.links : Linked(a)' /\ meta'[a] = pkg
             /\ stage # "symlink" => \A a \in want.launchers : Linked(a)' /\ meta'[a] = pkg
  <2>1. Asked \subseteq made
    BY <1>1, <1>9 DEF IInv, Control
  <2>2. CASE stage = "symlink"
    BY <1>4, <1>7, <1>8, <1>9, <2>1, <2>2 DEF Asked
  <2>3. CASE stage # "symlink"
    <3>1. \A a \in want.launchers : Linked(a)' /\ meta'[a] = pkg
      BY <1>4, <1>7, <1>8, <1>9, <2>1, <2>3 DEF Asked
    <3>2. \A a \in want.links : Linked(a) /\ meta[a] = pkg
      BY <1>1, <1>9, <2>3 DEF IInv, LinksDone
    <3> QED BY <1>1, <1>4, <1>7, <1>9, <3>1, <3>2 DEF Linked
  <2> QED BY <2>2, <2>3
<1>10. ASSUME faults' = {} PROVE \A a \in sound : Sound(a)'
  <2>1. \A a \in sound : Sound(a) \/ a \in made
    BY <1>1, <1>10 DEF IInv, StillSound
  <2>2. \A a \in Aliases : meta'[a] = IF a \in made THEN pkg ELSE meta[a]
    BY <1>4, <1>10
  <2> QED BY <1>1, <1>2, <1>7, <1>8, <2>1, <2>2 DEF Sound, Linked
<1>11. LinksDone'
  BY <1>1, <1>9 DEF LinksDone
<1>12. StillSound' /\ QuietKeepsSound'
  BY <1>1, <1>10 DEF StillSound, QuietKeepsSound
<1>13. SuccessMeansLinked'
  <2> SUFFICES ASSUME pc' = "idle", faults' \intersect {"compile", "unrecorded"} = {},
                      result' = "success", NEW a \in want.links \union want.launchers
               PROVE  Sound(a)' /\ meta'[a] = pkg
    BY <1>1 DEF SuccessMeansLinked, Done
  <2>1. Linked(a)' /\ meta'[a] = pkg
    BY <1>1, <1>9
  <2> QED BY <1>1, <1>2, <2>1 DEF Sound, Linked
<1> QED BY <1>5, <1>6, <1>11, <1>12, <1>13 DEF IInv

LEMMA NewLaunchersOK ==
  ASSUME IInv, NewLaunchers
  PROVE  IInv'
<1>1. pc = "launchers" /\ UNCHANGED <<links, meta, installed, faults>>
  BY DEF NewLaunchers
<1>2. cmd = "install" /\ pkg \in Packages /\ Fold[pkg] \in installed
  BY <1>1 DEF IInv, Shapes, Control
<1>3. CASE Finish("failure")
  BY <1>1, <1>3, FailOK DEF IInv, Shapes
<1>4. CASE want.launchers = {} /\ Finish("success")
  <2>1. /\ pc' = "idle" /\ todo' = {} /\ made' = {}
        /\ stage' = "symlink" /\ UNCHANGED <<cmd, pkg, want, sound>>
    BY <1>4 DEF Finish
  <2>2. Shapes' /\ Control'
    BY <1>1, <1>2, <2>1 DEF IInv, Shapes, Control, Kinds
  <2>3. LinksDone' /\ StillSound'
    BY <2>1 DEF LinksDone, StillSound
  <2>4. SuccessMeansLinked'
    BY <1>1, <1>2, <1>4, <2>1 DEF IInv, LinksDone, SuccessMeansLinked, Sound, Linked
  <2>5. QuietKeepsSound'
    BY <1>1, <2>1 DEF IInv, StillSound, QuietKeepsSound, Sound
  <2> QED BY <2>2, <2>3, <2>4, <2>5 DEF IInv
<1>5. ASSUME NEW k \in {"proxy", "launcher"}, Begin(k, want.launchers) PROVE IInv'
  <2>1. /\ pc' = "make" /\ stage' = k /\ todo' = want.launchers /\ made' = {}
        /\ UNCHANGED <<cmd, pkg, want, result, sound>>
    BY <1>5 DEF Begin
  <2>2. Shapes'
    BY <1>1, <1>2, <2>1 DEF IInv, Shapes, Manifests, Kinds
  <2>3. Control'
    BY <1>1, <1>2, <2>1 DEF Control, Asked
  <2>4. LinksDone' /\ StillSound'
    BY <1>1, <2>1 DEF IInv, LinksDone, StillSound, Sound, Linked
  <2>5. SuccessMeansLinked' /\ QuietKeepsSound'
    BY <2>1 DEF SuccessMeansLinked, QuietKeepsSound, Done
  <2> QED BY <2>2, <2>3, <2>4, <2>5 DEF IInv
<1> QED BY <1>3, <1>4, <1>5 DEF NewLaunchers

-----------------------------------------------------------------------------
LEMMA StepOK == IInv /\ [Next]_vars => IInv'
<1> SUFFICES ASSUME IInv, [Next]_vars PROVE IInv'
  OBVIOUS
<1>1. ASSUME UNCHANGED <<links, meta, installed, pc, cmd, pkg, want, stage, todo, made,
                         result, faults, sound>>
      PROVE  IInv'
  BY <1>1 DEF IInv, Shapes, Control, LinksDone, StillSound, SuccessMeansLinked,
              QuietKeepsSound, Misspelt, Done, Sound, Linked, Asked, Recorded
<1>2. CASE UNCHANGED vars \/ BaulkReplaced
  BY <1>1, <1>2 DEF vars, BaulkReplaced
<1>3. ASSUME NEW p \in Packages, NEW m \in Manifests, Install(p, m) PROVE IInv'
  BY <1>3, StartOK DEF Install
<1>4. ASSUME NEW p \in Packages, Remove(p) PROVE IInv'
  <2>1. Nothing \in Manifests
    BY DEF Manifests, Nothing
  <2> QED BY <1>4, <2>1, StartOK DEF Remove
<1>5. CASE StoreFails \/ Killed
  BY <1>5, FailOK DEF StoreFails, Killed, disk, IInv, Shapes
<1> QED BY <1>2, <1>3, <1>4, <1>5, DropReadOK, DropFileOK, DropStoreOK, WipeOK, MakeSymlinkOK,
           MakeLauncherOK, LinkMetaStoreOK, NewLaunchersOK DEF Next

\* The rest of the state is of its type too.
Rest ==
  /\ installed \in SUBSET Folders
  /\ local \in {"none", "current", "stale"}
  /\ pc \in {"idle", "drop", "dropFile", "make", "launchers", "wipe"}
  /\ result \in {"none", "success", "failure", "killed"}
  /\ faults \in SUBSET {"undropped", "unrecorded", "compile"}

LEMMA RestStep == Rest /\ [Next]_vars => Rest'
<1> SUFFICES ASSUME Rest, [Next]_vars PROVE Rest'
  OBVIOUS
<1> USE DEF Rest, disk
<1>1. CASE UNCHANGED vars \/ BaulkReplaced
  BY <1>1 DEF vars, BaulkReplaced
<1>2. ASSUME NEW p \in Packages, NEW m \in Manifests, Install(p, m) \/ Remove(p)
      PROVE  Rest'
  BY <1>2 DEF Install, Remove, Start, Folders
<1>3. CASE StoreFails \/ Killed \/ Wipe
  BY <1>3 DEF StoreFails, Killed, Wipe, Finish
<1>4. CASE DropRead \/ DropStore
  <2>1. /\ UNCHANGED <<installed, local>>
        /\ faults' \in {faults, faults \union {"undropped"}}
        /\ AfterDrop \/ (pc' = "dropFile" /\ result' = result)
    BY <1>4 DEF DropRead, DropStore
  <2>2. AfterDrop => pc' \in {"wipe", "make", "idle", "launchers"}
                      /\ result' \in {result, "failure"}
    BY DEF AfterDrop, Begin, Finish
  <2> QED BY <2>1, <2>2
<1>5. CASE LinkMetaStore
  BY <1>5 DEF LinkMetaStore, Finish
<1>6. CASE NewLaunchers
  BY <1>6 DEF NewLaunchers, Begin, Finish, FindProxyLauncher
<1>7. ASSUME NEW a \in Aliases, DropFile(a) \/ MakeSymlink(a) \/ MakeLauncher(a)
      PROVE  Rest'
  BY <1>7 DEF DropFile, MakeSymlink, MakeLauncher, Finish
<1>8. Nothing \in Manifests
  BY DEF Manifests, Nothing
<1> QED BY <1>1, <1>2, <1>3, <1>4, <1>5, <1>6, <1>7, <1>8 DEF Next

\* Whatever a command that failed or was killed leaves, the folder of links
\* holds links of packages and its record names packages: what LinkMetaStore
\* and DropLinks read back is what they wrote.
THEOREM TypeCorrect == Spec => []TypeOK
<1>1. Init => Rest
  BY DEF Init, Rest
<1>2. IInv /\ Rest => TypeOK
  BY DEF IInv, Shapes, Rest, TypeOK
<1> QED BY InitOK, StepOK, RestStep, <1>1, <1>2, PTL DEF Spec

\* An install that reports success has linked every alias of its manifest, on
\* disk and in the record, whatever earlier commands left behind, unless a
\* launcher did not compile or the record could not be read.
THEOREM SuccessAlwaysLinked == Spec => []SuccessMeansLinked
<1>1. IInv => SuccessMeansLinked
  BY DEF IInv
<1> QED BY InitOK, StepOK, <1>1, PTL DEF Spec

\* A command none of whose steps failed spoils no alias that was sound, but
\* those recorded under another spelling of the name a package is removed by.
THEOREM SoundAlwaysKept == Spec => []QuietKeepsSound
<1>1. IInv => QuietKeepsSound
  BY DEF IInv
<1> QED BY InitOK, StepOK, <1>1, PTL DEF Spec

\* What a single step does to an alias that is neither asked for nor recorded
\* for the package.
LEMMA StepLeavesOthers ==
  ASSUME IInv, [Next]_vars, NEW a \in Aliases \ (want.links \union want.launchers),
         meta[a] # pkg
  PROVE  links'[a] = links[a] /\ (meta'[a] = meta[a] \/ "unrecorded" \in faults')
<1> USE DEF disk
<1>1. CASE UNCHANGED <<links, meta>>
  BY <1>1
<1>2. ASSUME NEW b \in Aliases, DropFile(b) PROVE a # b
  BY <1>2 DEF DropFile, IInv, Control, Recorded
<1>3. ASSUME NEW b \in Aliases, MakeSymlink(b) \/ MakeLauncher(b) PROVE a # b
  BY <1>3 DEF MakeSymlink, MakeLauncher, IInv, Control, Asked
<1>4. ASSUME NEW b \in Aliases, DropFile(b) \/ MakeSymlink(b) \/ MakeLauncher(b)
      PROVE  links'[a] = links[a] /\ meta' = meta
  <2>1. a # b
    BY <1>2, <1>3, <1>4
  <2> QED BY <1>4, <2>1 DEF DropFile, MakeSymlink, MakeLauncher, IInv, Shapes
<1>5. CASE DropStore
  BY <1>5 DEF DropStore
<1>6. CASE LinkMetaStore
  <2>1. a \notin made
    BY <1>6 DEF LinkMetaStore, IInv, Control, Asked
  <2> QED BY <1>6, <2>1 DEF LinkMetaStore, StoredMeta
<1> QED
  BY <1>1, <1>4, <1>5, <1>6
     DEF Next, vars, Install, Remove, Start, DropRead, Wipe, StoreFails, NewLaunchers, Killed,
         BaulkReplaced

\* A command touches only the aliases its manifest asks for and those recorded
\* for its package, and no record of others unless it could not read them.
THEOREM OthersNeverTouched == Spec => OthersUntouched
<1>1. IInv /\ [Next]_vars =>
        [\A a \in Aliases \ (want.links \union want.launchers) :
           \/ meta[a] = pkg
           \/ links'[a] = links[a]
              /\ (meta'[a] = meta[a] \/ "unrecorded" \in faults')]_vars
  BY StepLeavesOthers
<1> QED BY InitOK, StepOK, <1>1, PTL DEF Spec, OthersUntouched
=============================================================================
