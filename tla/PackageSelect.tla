--------------------------- MODULE PackageSelect ----------------------------
(***************************************************************************)
(* Which bucket a package comes from: the loop of PackageMetaEx (what      *)
(* `baulk install` installs), the loop of PackageUpdatableMeta (what       *)
(* `baulk upgrade` and `baulk update` call upgradable), both of bucket.cc, *)
(* and the comparison at the head of package::Install.                     *)
(*                                                                         *)
(* The two loops are run side by side over the same buckets, in the order  *)
(* of the profile.  A bela::version is a number that orders as it does.    *)
(***************************************************************************)
EXTENDS Integers

CONSTANTS
  N,           \* the buckets are 1..N
  MaxVersion,  \* versions are 0..MaxVersion; 0 is 0.0.0.0
  Weights,     \* the weights buckets may have: any int, `bucket add -W`
  NoOffer      \* the bucket does not have the package

Buckets == 1 .. N
Versions == 0 .. MaxVersion
Metas == [version : Versions, weights : Weights]

ASSUME SelectAssumption ==
  /\ N \in Nat /\ MaxVersion \in Nat
  /\ Weights \subseteq Int
  /\ NoOffer \notin Metas

VARIABLES
  offer,  \* PackageMeta of each bucket, with the weights of the bucket
  local,  \* PackageLocalMeta: version, weights of its bucket (0 if it is gone)
  metaAt, \* PackageMetaEx: the bucket its loop is at ...
  best,   \* ... version and weights of pkg ...
  from,   \* ... and the bucket pkg is from, 0 while it is empty
  updAt,  \* PackageUpdatableMeta: the same, ...
  newest,
  source

selectVars == <<offer, local, metaAt, best, from, updAt, newest, source>>

Locals == [version : Versions, weights : Weights \union {0}]

SelectTypeOK ==
  /\ offer \in [Buckets -> Metas \union {NoOffer}]
  /\ local \in Locals /\ best \in Locals /\ newest \in Locals
  /\ metaAt \in 1 .. N + 1 /\ updAt \in 1 .. N + 1
  /\ from \in 0 .. N /\ source \in 0 .. N

\* A default Package: version 0.0.0.0, weights 0.
Empty == [version |-> 0, weights |-> 0]

\* Slip: the loop of PackageMetaEx starts before the first bucket.
SelectInitBefore ==
  /\ offer \in [Buckets -> Metas \union {NoOffer}]
  /\ local \in Locals
  /\ metaAt = 0 /\ best = Empty /\ from = 0
  /\ updAt = 1 /\ newest = local /\ source = 0

SelectInit ==
  /\ offer \in [Buckets -> Metas \union {NoOffer}]
  /\ local \in Locals
  /\ metaAt = 1 /\ best = Empty /\ from = 0
  /\ updAt = 1 /\ newest = local /\ source = 0

\* Slip: a package of the same version replaces one of the same weights.
NewerOrSame(a, b) ==
  a.version > b.version \/ (a.version = b.version /\ b.weights <= a.weights)

\* newVersion > pkgVersion || (newVersion == pkgVersion && weights < its weights)
Newer(a, b) ==
  a.version > b.version \/ (a.version = b.version /\ b.weights < a.weights)

\* One round of the loop of PackageMetaEx.
MetaExStep ==
  /\ metaAt <= N
  /\ IF offer[metaAt] # NoOffer /\ Newer(offer[metaAt], best)
       THEN best' = offer[metaAt] /\ from' = metaAt
       ELSE UNCHANGED <<best, from>>
  /\ metaAt' = metaAt + 1
  /\ UNCHANGED <<offer, local, updAt, newest, source>>

\* Slip: the weights of the best package so far are not kept.
UpdatableStepOldWeights ==
  /\ updAt <= N
  /\ IF offer[updAt] # NoOffer /\ Newer(offer[updAt], newest)
       THEN newest' = [offer[updAt] EXCEPT !.weights = newest.weights] /\ source' = updAt
       ELSE UNCHANGED <<newest, source>>
  /\ updAt' = updAt + 1
  /\ UNCHANGED <<offer, local, metaAt, best, from>>

\* One round of the loop of PackageUpdatableMeta.
UpdatableStep ==
  /\ updAt <= N
  /\ IF offer[updAt] # NoOffer /\ Newer(offer[updAt], newest)
       THEN newest' = offer[updAt] /\ source' = updAt
       ELSE UNCHANGED <<newest, source>>
  /\ updAt' = updAt + 1
  /\ UNCHANGED <<offer, local, metaAt, best, from>>

\* Install leaves the installed package as it is: pkgVersion < localVersion ||
\* (pkgVersion == localVersion && pkg.weights <= pkgLocal->weights).
Skipped(pkg) ==
  \/ pkg.version < local.version
  \/ pkg.version = local.version /\ pkg.weights <= local.weights

SelectNext == MetaExStep \/ UpdatableStep

SelectSpec == SelectInit /\ [][SelectNext]_selectVars
-----------------------------------------------------------------------------
(***************************************************************************)
(* Properties.                                                             *)
(***************************************************************************)
\* b is the first bucket whose package no other bucket has newer.
FirstBest(b) ==
  /\ b \in Buckets /\ offer[b] # NoOffer
  /\ \A c \in Buckets : offer[c] # NoOffer => ~Newer(offer[c], offer[b])
  /\ \A c \in Buckets : c < b /\ offer[c] # NoOffer => Newer(offer[b], offer[c])

\* PackageMetaEx finds the package in the newest version there is, from the
\* bucket of greatest weights that has that version, the first of those in the
\* profile.  It is left with an empty package only if each one there is has
\* version 0.0.0.0 and comes from a bucket whose weights are not positive.
MetaExFindsBest ==
  metaAt = N + 1 =>
    IF \E b \in Buckets : offer[b] # NoOffer /\ Newer(offer[b], Empty)
      THEN FirstBest(from)
      ELSE from = 0

\* `baulk upgrade` and `baulk install` agree: PackageUpdatableMeta offers an
\* upgrade exactly when Install, given what PackageMetaEx finds, would not skip
\* it, and they take it from the same bucket.
UpgradeAgreesWithInstall ==
  metaAt = N + 1 /\ updAt = N + 1 /\ from # 0 =>
    /\ source # 0 <=> ~Skipped(best)
    /\ source # 0 => source = from
=============================================================================
