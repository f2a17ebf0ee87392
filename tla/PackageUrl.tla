----------------------------- MODULE PackageUrl -----------------------------
(***************************************************************************)
(* After the selection of PackageSelect, where the package is downloaded   *)
(* from: Install skips a package that is not newer, and otherwise asks     *)
(* BestUrl of lib/net/speed.cc for one of the URLs of its manifest.        *)
(*                                                                         *)
(* URLs are numbered as in the manifest.  A URL is dialled once; whether   *)
(* it answers is the network's choice, and one that is malformed does not. *)
(***************************************************************************)
EXTENDS PackageSelect

CONSTANT
  MaxUrls  \* a manifest has at most so many URLs

ASSUME UrlAssumption == MaxUrls \in Nat

VARIABLES
  step,     \* "select", "dial" (the second round of BestUrl) or "done"
  urls,     \* how many URLs the manifest has
  mirror,   \* the first one tagged with the user's locale, 0 if there is none
  at,       \* the URL the second round is at
  pos,      \* the URL to take, 0 for none
  answered  \* history: the URLs that could be connected to

urlVars == <<step, urls, mirror, at, pos, answered>>

UrlInit ==
  /\ SelectInit
  /\ step = "select" /\ urls = 0 /\ mirror = 0
  /\ at = 1 /\ pos = 0 /\ answered = {}

\* The beginning of BestUrlInternal, after the comparison of Install: no URL, a
\* single one, a mirror of the area, or a second round.
BestUrlInternal ==
  /\ step = "select"
  /\ metaAt = N + 1 /\ updAt = N + 1 /\ from # 0 /\ ~Skipped(best)
  /\ \E n \in 0 .. MaxUrls : \E k \in 0 .. n :
       /\ urls' = n /\ mirror' = k
       /\ step' = IF n <= 1 \/ k # 0 THEN "done" ELSE "dial"
       /\ pos' = CASE n <= 1 -> n
                   [] n > 1 /\ k # 0 -> k
                   [] OTHER -> 1
  /\ UNCHANGED <<selectVars, at, answered>>

\* Slip: a connection that could not be made is not told from one that was.
UrlResponseTimeAny ==
  /\ step = "dial"
  /\ answered' \in {answered, answered \union {at}}
  /\ pos' = at
  /\ at' = at + 1
  /\ step' = IF at = urls THEN "done" ELSE "dial"
  /\ UNCHANGED <<selectVars, urls, mirror>>

\* A round of its loop.  The time of a URL that answers is less than elapsed,
\* which is MaximumTime in every round, so that a later one always replaces an
\* earlier one.
UrlResponseTime ==
  /\ step = "dial"
  /\ answered' \in {answered, answered \union {at}}
  /\ pos' = IF at \in answered' THEN at ELSE pos
  /\ at' = at + 1
  /\ step' = IF at = urls THEN "done" ELSE "dial"
  /\ UNCHANGED <<selectVars, urls, mirror>>

UrlNext == (SelectNext /\ UNCHANGED urlVars) \/ BestUrlInternal \/ UrlResponseTime

UrlSpec == UrlInit /\ [][UrlNext]_<<selectVars, urlVars>>
-----------------------------------------------------------------------------
\* What Install downloads is a URL of the manifest, whenever there is one; it
\* has been connected to, unless no URL could be, or it was taken without
\* dialling because it is the only one or a mirror of the area (speed.cc
\* BestUrlInternal).
UrlAnswers ==
  step = "done" =>
    /\ IF urls = 0 THEN pos = 0 ELSE pos \in 1 .. urls
    /\ pos \in answered \/ answered = {}
=============================================================================
