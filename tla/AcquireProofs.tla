--------------------------- MODULE AcquireProofs ----------------------------
(***************************************************************************)
(* Proofs about how a package is obtained: which bucket it is taken from   *)
(* (PackageSelect) and which URL (PackageUrl), for any number of buckets   *)
(* and of URLs, any versions and any weights; and its resumable download   *)
(* (Download, Fetch), for every set of contents of any length.             *)
(***************************************************************************)
EXTENDS PackageUrl, Fetch, TLAPS

(***************************************************************************)
(* PackageSelect.  The two loops keep one invariant, LoopInv, each from    *)
(* what it starts with: nothing, or the installed package.                 *)
(***************************************************************************)
\* What either loop knows at bucket n, having started from package start and
\* now holding package m of bucket b (0: still start).
LoopInv(n, start, m, b) ==
  /\ b < n
  /\ b = 0 => m = start
  /\ b # 0 => offer[b] # NoOffer /\ m = offer[b] /\ Newer(m, start)
  /\ \A c \in Buckets : c < n /\ offer[c] # NoOffer => ~Newer(offer[c], m)
  /\ \A c \in Buckets : c < b /\ offer[c] # NoOffer => Newer(m, offer[c])

MetaExInv == LoopInv(metaAt, Empty, best, from)
UpdatableInv == LoopInv(updAt, local, newest, source)

\* Versions and weights are integers, so that Newer is arithmetic.
LEMMA MetaTypes ==
  /\ \A m \in Metas : m.version \in Int /\ m.weights \in Int
  /\ \A m \in Locals : m.version \in Int /\ m.weights \in Int
  /\ Metas \subseteq Locals
  /\ Empty \in Locals
<1>1. Versions \subseteq Int /\ 0 \in Versions /\ Weights \union {0} \subseteq Int
  BY SelectAssumption DEF Versions
<1>2. \A m \in Metas : m.version \in Int /\ m.weights \in Int
  BY <1>1 DEF Metas
<1>3. \A m \in Locals : m.version \in Int /\ m.weights \in Int
  BY <1>1 DEF Locals
<1>4. Metas \subseteq Locals
  BY DEF Metas, Locals
<1>5. Empty \in Locals
  BY <1>1 DEF Empty, Locals
<1> QED BY <1>2, <1>3, <1>4, <1>5

\* Newer is a strict order in which any two packages of different version or
\* weights compare.
LEMMA NewerOrder ==
  ASSUME NEW a \in Locals, NEW b \in Locals, NEW c \in Locals
  PROVE  /\ ~Newer(a, a)
         /\ Newer(a, b) => ~Newer(b, a)
         /\ Newer(a, b) /\ ~Newer(c, b) => Newer(a, c)
         /\ Newer(a, b) /\ Newer(b, c) => Newer(a, c)
  BY MetaTypes DEF Newer

\* The type invariant: the loops stay in the profile's buckets.
THEOREM SelectTypeCorrect == SelectSpec => []SelectTypeOK
<1>1. SelectInit => SelectTypeOK
  BY SelectAssumption, MetaTypes DEF SelectInit, SelectTypeOK
<1>2. SelectTypeOK /\ [SelectNext]_selectVars => SelectTypeOK'
  <2> SUFFICES ASSUME SelectTypeOK, [SelectNext]_selectVars PROVE SelectTypeOK'
    OBVIOUS
  <2>1. CASE MetaExStep
    BY <2>1, SelectAssumption, MetaTypes DEF MetaExStep, SelectTypeOK, Buckets
  <2>2. CASE UpdatableStep
    BY <2>2, SelectAssumption, MetaTypes DEF UpdatableStep, SelectTypeOK, Buckets
  <2>3. CASE UNCHANGED selectVars
    BY <2>3 DEF selectVars, SelectTypeOK
  <2> QED BY <2>1, <2>2, <2>3 DEF SelectNext
<1> QED BY <1>1, <1>2, PTL DEF SelectSpec

\* A round that meets a package newer than the one it holds takes it; any other
\* round leaves what it holds.  Either way the loop knows as much of one bucket
\* more.
LEMMA LoopRound ==
  ASSUME SelectTypeOK, NEW n \in Buckets, NEW start \in Locals, NEW m \in Locals,
         NEW b \in 0 .. N, LoopInv(n, start, m, b)
  PROVE  IF offer[n] # NoOffer /\ Newer(offer[n], m)
           THEN LoopInv(n + 1, start, offer[n], n)
           ELSE LoopInv(n + 1, start, m, b)
<1> N \in Nat /\ Buckets = 1 .. N
  BY SelectAssumption DEF Buckets
<1>0. \A c \in Buckets : offer[c] # NoOffer => offer[c] \in Locals
  BY MetaTypes DEF SelectTypeOK
<1>1. CASE offer[n] # NoOffer /\ Newer(offer[n], m)
  <2>1. offer[n] \in Locals
    BY <1>0, <1>1
  <2>2. Newer(offer[n], start)
    BY <1>1, <2>1, NewerOrder DEF LoopInv
  <2>3. \A c \in Buckets : c < n /\ offer[c] # NoOffer => Newer(offer[n], offer[c])
    BY <1>0, <1>1, <2>1, NewerOrder DEF LoopInv
  <2>4. \A c \in Buckets : c < n + 1 /\ offer[c] # NoOffer => ~Newer(offer[c], offer[n])
    <3> SUFFICES ASSUME NEW c \in Buckets, c < n + 1, offer[c] # NoOffer
                 PROVE  ~Newer(offer[c], offer[n])
      OBVIOUS
    <3>1. c = n \/ c < n
      OBVIOUS
    <3> QED BY <3>1, <1>0, <2>1, <2>3, NewerOrder
  <2> HIDE DEF Newer
  <2> QED BY <1>1, <2>2, <2>3, <2>4 DEF LoopInv
<1>2. CASE ~(offer[n] # NoOffer /\ Newer(offer[n], m))
  <2>1. \A c \in Buckets : c < n + 1 => c = n \/ c < n
    OBVIOUS
  <2> QED BY <1>2, <2>1 DEF LoopInv
<1> QED BY <1>1, <1>2

\* Both loops keep what they know.
THEOREM LoopsKnow == SelectSpec => [](MetaExInv /\ UpdatableInv)
<1>1. SelectInit => MetaExInv /\ UpdatableInv
  BY SelectAssumption DEF SelectInit, MetaExInv, UpdatableInv, LoopInv, Buckets
<1>2. SelectTypeOK /\ MetaExInv /\ UpdatableInv /\ [SelectNext]_selectVars
        => MetaExInv' /\ UpdatableInv'
  <2> SUFFICES ASSUME SelectTypeOK, MetaExInv, UpdatableInv, [SelectNext]_selectVars
               PROVE  MetaExInv' /\ UpdatableInv'
    OBVIOUS
  <2>1. CASE MetaExStep
    <3>1. metaAt \in Buckets /\ best \in Locals /\ from \in 0 .. N
      BY <2>1, SelectAssumption DEF MetaExStep, SelectTypeOK, Buckets
    <3>2. IF offer[metaAt] # NoOffer /\ Newer(offer[metaAt], best)
            THEN LoopInv(metaAt + 1, Empty, offer[metaAt], metaAt)
            ELSE LoopInv(metaAt + 1, Empty, best, from)
      BY <3>1, LoopRound, MetaTypes DEF MetaExInv
    <3>3. MetaExInv'
      BY <2>1, <3>2 DEF MetaExStep, MetaExInv, LoopInv, Newer, Empty
    <3>4. UpdatableInv'
      BY <2>1 DEF MetaExStep, UpdatableInv, LoopInv, Newer
    <3> QED BY <3>3, <3>4
  <2>2. CASE UpdatableStep
    <3>1. updAt \in Buckets /\ newest \in Locals /\ source \in 0 .. N /\ local \in Locals
      BY <2>2, SelectAssumption DEF UpdatableStep, SelectTypeOK, Buckets
    <3>2. IF offer[updAt] # NoOffer /\ Newer(offer[updAt], newest)
            THEN LoopInv(updAt + 1, local, offer[updAt], updAt)
            ELSE LoopInv(updAt + 1, local, newest, source)
      BY <3>1, LoopRound DEF UpdatableInv
    <3>3. UpdatableInv'
      BY <2>2, <3>2 DEF UpdatableStep, UpdatableInv, LoopInv, Newer
    <3>4. MetaExInv'
      BY <2>2 DEF UpdatableStep, MetaExInv, LoopInv, Newer
    <3> QED BY <3>3, <3>4
  <2>3. CASE UNCHANGED selectVars
    BY <2>3 DEF selectVars, MetaExInv, UpdatableInv, LoopInv, Newer
  <2> QED BY <2>1, <2>2, <2>3 DEF SelectNext
<1> QED BY <1>1, <1>2, SelectTypeCorrect, PTL DEF SelectSpec

\* At the end of its loop, either function holds the first best package if any
\* is newer than what it started from, and what it started from otherwise.
LEMMA LoopEnd ==
  ASSUME SelectTypeOK, NEW start \in Locals, NEW m \in Locals, NEW b \in 0 .. N,
         LoopInv(N + 1, start, m, b)
  PROVE  /\ b # 0 => FirstBest(b)
         /\ b = 0 <=> \A c \in Buckets : offer[c] # NoOffer => ~Newer(offer[c], start)
<1> N \in Nat /\ Buckets = 1 .. N
  BY SelectAssumption DEF Buckets
<1>1. \A c \in Buckets : c < N + 1
  OBVIOUS
<1>2. CASE b = 0
  BY <1>1, <1>2 DEF LoopInv
<1>3. CASE b # 0
  <2>1. b \in Buckets
    BY <1>3
  <2>2. FirstBest(b)
    BY <1>1, <1>3, <2>1 DEF LoopInv, FirstBest
  <2> QED BY <1>3, <2>1, <2>2 DEF LoopInv
<1> QED BY <1>2, <1>3

\* PackageMetaEx finds the newest version from the bucket of greatest weights.
THEOREM MetaExCorrect == SelectSpec => []MetaExFindsBest
<1>1. SelectTypeOK /\ MetaExInv => MetaExFindsBest
  <2> SUFFICES ASSUME SelectTypeOK, MetaExInv, metaAt = N + 1
               PROVE  IF \E b \in Buckets : offer[b] # NoOffer /\ Newer(offer[b], Empty)
                        THEN FirstBest(from)
                        ELSE from = 0
    BY DEF MetaExFindsBest
  <2>1. best \in Locals /\ from \in 0 .. N /\ LoopInv(N + 1, Empty, best, from)
    BY DEF SelectTypeOK, MetaExInv
  <2> QED BY <2>1, LoopEnd, MetaTypes
<1> QED BY <1>1, SelectTypeCorrect, LoopsKnow, PTL

\* No two buckets are both first best.
LEMMA FirstBestUnique ==
  ASSUME SelectTypeOK, NEW b, NEW c, FirstBest(b), FirstBest(c)
  PROVE  b = c
<1> N \in Nat /\ Buckets = 1 .. N
  BY SelectAssumption DEF Buckets
<1> b \in 1 .. N /\ c \in 1 .. N
  BY DEF FirstBest
<1>1. ~(b < c) /\ ~(c < b)
  BY DEF FirstBest
<1> QED BY <1>1

\* `baulk upgrade` upgrades exactly what `baulk install` would, and from the
\* same bucket.
THEOREM UpgradeIsInstall == SelectSpec => []UpgradeAgreesWithInstall
<1>1. SelectTypeOK /\ MetaExInv /\ UpdatableInv => UpgradeAgreesWithInstall
  <2> SUFFICES ASSUME SelectTypeOK, MetaExInv, UpdatableInv, metaAt = N + 1, updAt = N + 1, from # 0
               PROVE  /\ source # 0 <=> ~Skipped(best)
                      /\ source # 0 => source = from
    BY DEF UpgradeAgreesWithInstall
  <2>1. /\ best \in Locals /\ newest \in Locals /\ local \in Locals
        /\ from \in 0 .. N /\ source \in 0 .. N
        /\ LoopInv(N + 1, Empty, best, from) /\ LoopInv(N + 1, local, newest, source)
    BY DEF SelectTypeOK, MetaExInv, UpdatableInv
  <2>2. FirstBest(from) /\ best = offer[from]
    BY <2>1, LoopEnd, MetaTypes DEF LoopInv
  <2>3. Skipped(best) <=> ~Newer(best, local)
    BY <2>1, MetaTypes DEF Skipped, Newer
  <2>4. CASE source = 0
    <3>1. ~Newer(offer[from], local)
      BY <2>1, <2>2, <2>4, LoopEnd DEF FirstBest
    <3> QED BY <2>2, <2>3, <2>4, <3>1
  <2>5. CASE source # 0
    <3>1. FirstBest(source)
      BY <2>1, <2>5, LoopEnd
    <3>2. source = from
      BY <2>2, <3>1, FirstBestUnique
    <3>3. newest = best /\ Newer(newest, local)
      BY <2>1, <2>2, <2>5, <3>2 DEF LoopInv
    <3> QED BY <2>3, <2>5, <3>2, <3>3
  <2> QED BY <2>4, <2>5
<1> QED BY <1>1, SelectTypeCorrect, LoopsKnow, PTL
-----------------------------------------------------------------------------
(***************************************************************************)
(* PackageUrl: the selection, and then BestUrl.                            *)
(***************************************************************************)
\* Choosing a URL does not disturb the selection: with it, PackageMetaEx and
\* PackageUpdatableMeta still do what PackageSelect says, step by step.
THEOREM UrlImplementsSelect == UrlSpec => SelectSpec
<1>1. UrlInit => SelectInit
  BY DEF UrlInit
<1>2. [UrlNext]_<<selectVars, urlVars>> => [SelectNext]_selectVars
  BY DEF UrlNext, BestUrlInternal, UrlResponseTime, selectVars
<1> QED BY <1>1, <1>2, PTL DEF UrlSpec, SelectSpec

\* The package Install asks a URL for is one PackageUpdatableMeta calls an
\* upgrade, from the same bucket, if the package is installed.
THEOREM UrlUpgradeIsInstall == UrlSpec => []UpgradeAgreesWithInstall
BY UrlImplementsSelect, UpgradeIsInstall, PTL

\* The second round of BestUrl is at a URL of the manifest, has dialled only
\* those before it, and holds one that answered unless none has.
UrlIInv ==
  /\ urls \in Nat /\ at \in Nat
  /\ step = "select" => at = 1 /\ answered = {}
  /\ step = "dial" =>
       /\ at \in 1 .. urls /\ pos \in 1 .. urls
       /\ \A u \in answered : u \in 1 .. at - 1
       /\ pos \in answered \/ answered = {}
  /\ UrlAnswers

LEMMA UrlStep == UrlIInv /\ [UrlNext]_<<selectVars, urlVars>> => UrlIInv'
<1> SUFFICES ASSUME UrlIInv, [UrlNext]_<<selectVars, urlVars>> PROVE UrlIInv'
  OBVIOUS
<1>1. CASE UNCHANGED urlVars
  BY <1>1 DEF UrlIInv, UrlAnswers, urlVars
<1>2. CASE BestUrlInternal
  <2>1. PICK n \in 0 .. MaxUrls, k \in 0 .. MaxUrls :
          /\ k <= n
          /\ urls' = n
          /\ step' = IF n <= 1 \/ k # 0 THEN "done" ELSE "dial"
          /\ pos' = CASE n <= 1 -> n
                      [] n > 1 /\ k # 0 -> k
                      [] OTHER -> 1
    BY <1>2, UrlAssumption DEF BestUrlInternal
  <2>2. n \in Nat /\ k \in Nat /\ k <= n
    BY <2>1, UrlAssumption
  <2>3. at' = 1 /\ answered' = {}
    BY <1>2 DEF BestUrlInternal, UrlIInv
  <2>4. IF n = 0 THEN pos' = 0 ELSE pos' \in 1 .. n
    BY <2>1, <2>2
  <2>5. step' = "dial" => n > 1
    BY <2>1, <2>2
  <2>6. step' \in {"dial", "done"}
    BY <2>1
  <2> QED BY <2>1, <2>2, <2>3, <2>4, <2>5, <2>6 DEF UrlIInv, UrlAnswers
<1>3. CASE UrlResponseTime
  <2>1. /\ urls \in Nat /\ at \in 1 .. urls /\ pos \in 1 .. urls
        /\ \A u \in answered : u \in 1 .. at - 1
        /\ pos \in answered \/ answered = {}
        /\ answered' \in {answered, answered \union {at}}
        /\ pos' = IF at \in answered' THEN at ELSE pos
        /\ at' = at + 1 /\ urls' = urls
        /\ step' = IF at = urls THEN "done" ELSE "dial"
    BY <1>3 DEF UrlResponseTime, UrlIInv
  <2>2. pos' \in 1 .. urls'
    BY <2>1
  <2>3. pos' \in answered' \/ answered' = {}
    <3>1. CASE answered' = answered
      BY <2>1, <3>1
    <3>2. CASE answered' = answered \union {at}
      BY <2>1, <3>2
    <3> QED BY <2>1, <3>1, <3>2
  <2>4. \A u \in answered' : u \in 1 .. at' - 1
    BY <2>1
  <2>5. at' \in Nat /\ (step' = "dial" => at' \in 1 .. urls')
    BY <2>1
  <2>6. step' \in {"dial", "done"} /\ urls' \in Nat /\ urls' # 0
    BY <2>1
  <2> QED BY <2>2, <2>3, <2>4, <2>5, <2>6 DEF UrlIInv, UrlAnswers
<1> QED BY <1>1, <1>2, <1>3 DEF UrlNext

\* What Install downloads is a URL of the manifest, and one that answered
\* whenever any did that BestUrlInternal dialled.
THEOREM UrlAlwaysAnswers == UrlSpec => []UrlAnswers
<1>1. UrlInit => UrlIInv
  BY DEF UrlInit, UrlIInv, UrlAnswers
<1>2. UrlIInv => UrlAnswers
  BY DEF UrlIInv
<1> QED BY <1>1, <1>2, UrlStep, PTL DEF UrlSpec
-----------------------------------------------------------------------------
(***************************************************************************)
(* Download.  Neither property is inductive: what makes an overlay honest  *)
(* is that the .part never holds more than current_bytes pieces, and that  *)
(* it holds the right ones whenever it holds that many.                    *)
(***************************************************************************)
Data ==
  /\ data \in Seq(Pieces) /\ file \in Seq(Pieces)
  /\ tail \in {NoTail} \union [hash : Contents, bytes : 1 .. Total]
  /\ current \in 0 .. Total

\* WinGet has the .part open.
Open == pc # "idle"

\* What the .part holds while WinGet runs, whatever writes failed.
InStep ==
  Open => /\ want \in Contents /\ tail = NoTail
          /\ Len(data) <= current
          /\ Len(data) = current => data = Prefix(want, current)

IInv == Data /\ InStep /\ OverlayHonest /\ FullMeansRight

LEMMA PrefixIs ==
  ASSUME NEW c \in Contents, NEW n \in 0 .. Total
  PROVE  Prefix(c, n) \in Seq(Pieces) /\ Len(Prefix(c, n)) = n
<1>1. n \in Nat /\ \A i \in 1 .. n : <<c, i>> \in Pieces
  BY DownloadAssumption DEF Pieces
<1> QED BY <1>1 DEF Prefix

LEMMA PrefixGrows ==
  ASSUME NEW c \in Contents, NEW n \in 0 .. Total, n < Total
  PROVE  Append(Prefix(c, n), <<c, n + 1>>) = Prefix(c, n + 1)
<1>1. n \in Nat /\ n + 1 \in 0 .. Total
  BY DownloadAssumption
<1> DEFINE a == Append(Prefix(c, n), <<c, n + 1>>)
           b == Prefix(c, n + 1)
<1>2. a \in Seq(Pieces) /\ b \in Seq(Pieces)
  BY <1>1, PrefixIs, DownloadAssumption DEF Pieces
<1>3. Len(a) = n + 1 /\ Len(b) = n + 1
  BY <1>1, PrefixIs
<1>4. \A i \in 1 .. n + 1 : a[i] = b[i]
  BY <1>1, PrefixIs DEF Prefix
<1> QED BY <1>2, <1>3, <1>4

LEMMA InitOK == Init => IInv
<1> SUFFICES ASSUME Init PROVE IInv
  OBVIOUS
<1>1. Data
  BY DownloadAssumption DEF Init, Data
<1>2. FullMeansRight
  BY DownloadAssumption DEF Init, FullMeansRight, Prefix
<1> QED BY <1>1, <1>2 DEF IInv, Init, InStep, OverlayHonest, Open

\* Each action of WinGet keeps the .part in step.
LEMMA StepOK == IInv /\ [Next]_vars => IInv'
<1> SUFFICES ASSUME IInv, [Next]_vars PROVE IInv'
  OBVIOUS
<1> USE DownloadAssumption
<1>1. CASE UNCHANGED vars
  BY <1>1 DEF vars, IInv, Data, InStep, OverlayHonest, FullMeansRight, Open, Prefix
<1>2. ASSUME NEW c \in Contents, NEW h \in BOOLEAN, MakeFilePart(c, h)
      PROVE  IInv'
  <2>1. CASE h /\ tail # NoTail /\ tail.hash = c
    <3>1. tail.bytes \in 1 .. Total /\ data = Prefix(c, tail.bytes)
      BY <2>1 DEF IInv, Data, OverlayHonest
    <3>2. current' = tail.bytes /\ data' = data /\ want' = c /\ tail' = NoTail
      BY <1>2, <2>1 DEF MakeFilePart
    <3>3. Len(data) = tail.bytes
      BY <3>1, PrefixIs
    <3>4. Data' /\ InStep'
      BY <1>2, <3>1, <3>2, <3>3 DEF IInv, Data, InStep, Open, MakeFilePart, Prefix
    <3> QED BY <1>2, <3>2, <3>4 DEF MakeFilePart, IInv, OverlayHonest, FullMeansRight, Prefix
  <2>2. CASE ~(h /\ tail # NoTail /\ tail.hash = c)
    <3>1. current' = 0 /\ data' = <<>> /\ want' = c /\ tail' = NoTail
      BY <1>2, <2>2 DEF MakeFilePart
    <3>2. Data' /\ InStep'
      BY <1>2, <3>1 DEF IInv, Data, InStep, Open, MakeFilePart, Prefix
    <3> QED BY <1>2, <3>1, <3>2 DEF MakeFilePart, IInv, OverlayHonest, FullMeansRight, Prefix
  <2> QED BY <2>1, <2>2
<1>3. CASE NoResponse
  BY <1>3 DEF NoResponse, Discard, Return, IInv, Data, InStep, OverlayHonest,
              FullMeansRight, Open, Prefix
<1>4. ASSUME NEW partial \in BOOLEAN, Response(partial)
      PROVE  IInv'
  <2>1. pc = "request" /\ pc' = "body" /\ UNCHANGED <<tail, file, origin, want>>
    BY <1>4 DEF Response
  <2>2. CASE UNCHANGED <<data, current>>
    BY <2>1, <2>2 DEF IInv, Data, InStep, OverlayHonest, FullMeansRight, Open, Prefix
  <2>3. CASE data' = <<>> /\ current' = 0
    <3>1. Data' /\ InStep'
      BY <2>1, <2>3 DEF IInv, Data, InStep, Open, Prefix
    <3> QED BY <2>1, <3>1 DEF IInv, InStep, Open, OverlayHonest, FullMeansRight
  <2> QED BY <1>4, <2>2, <2>3 DEF Response
<1>5. CASE Receive
  <2>1. /\ Open /\ current < Total /\ current' = current + 1
        /\ UNCHANGED <<tail, file, origin, pc, want>>
    BY <1>5 DEF Receive, Open
  <2>2. want \in Contents /\ current \in 0 .. Total /\ <<want, current + 1>> \in Pieces
    BY <2>1 DEF IInv, Data, InStep, Pieces
  <2>3. CASE data' = data
    BY <2>1, <2>2, <2>3 DEF IInv, Data, InStep, OverlayHonest, FullMeansRight, Open, Prefix
  <2>4. CASE data' = Append(data, <<want, current + 1>>)
    <3>1. data' \in Seq(Pieces) /\ Len(data') = Len(data) + 1
      BY <2>2, <2>4 DEF IInv, Data
    <3>2. Len(data') = current' => data' = Prefix(want, current')
      BY <2>1, <2>2, <2>4, <3>1, PrefixGrows DEF IInv, Data, InStep
    <3> QED BY <2>1, <2>2, <3>1, <3>2 DEF IInv, Data, InStep, OverlayHonest, FullMeansRight,
                                          Open, Prefix
  <2> QED BY <1>5, <2>3, <2>4 DEF Receive
<1>6. CASE Broken \/ EndOfBody
  <2>1. pc = "body" /\ pc' # "idle" /\ UNCHANGED <<data, tail, file, origin, want, current>>
    BY <1>6 DEF Broken, EndOfBody
  <2> QED BY <2>1 DEF IInv, Data, InStep, OverlayHonest, FullMeansRight, Open, Prefix
<1>7. CASE SaveOverlayData
  <2>1. pc = "save" /\ pc' = "idle" /\ current' = 0 /\ UNCHANGED <<file, origin>>
    BY <1>7 DEF SaveOverlayData, Return
  <2>2. CASE current # 0 /\ Len(data) = current /\ tail' = [hash |-> want, bytes |-> current]
             /\ data' = data
    BY <2>1, <2>2 DEF IInv, Data, InStep, OverlayHonest, FullMeansRight, Open, Prefix
  <2>3. CASE Discard
    BY <2>1, <2>3 DEF Discard, IInv, Data, InStep, OverlayHonest, FullMeansRight, Open, Prefix
  <2> QED BY <1>7, <2>2, <2>3 DEF SaveOverlayData
<1>8. CASE Solidified
  <2>1. pc = "solidify" /\ pc' = "idle" /\ current' = 0 /\ data' = <<>> /\ tail' = NoTail
    BY <1>8 DEF Solidified, Return, Discard
  <2>2. \/ file' = data /\ origin' = want
        \/ UNCHANGED <<file, origin>>
    BY <1>8 DEF Solidified
  <2>3. Len(data) = Total => data = Prefix(want, Total)
    BY <2>1 DEF IInv, Data, InStep, Open
  <2> QED BY <2>1, <2>2, <2>3 DEF IInv, Data, InStep, OverlayHonest, FullMeansRight, Open, Prefix
<1>9. CASE Crash
  BY <1>9 DEF Crash, Return, IInv, Data, InStep, OverlayHonest, FullMeansRight, Open, Prefix
<1>10. CASE CleanCache
  <2>1. UNCHANGED <<pc, want, current>>
    BY <1>10 DEF CleanCache
  <2>2. CASE pc = "idle" /\ Discard /\ UNCHANGED <<file, origin>>
    BY <2>1, <2>2 DEF Discard, IInv, Data, InStep, OverlayHonest, FullMeansRight, Open, Prefix
  <2>3. CASE file' = <<>> /\ origin' = NoContent /\ UNCHANGED <<data, tail>>
    <3>1. FullMeansRight'
      BY <2>3 DEF FullMeansRight, Prefix
    <3> QED BY <2>1, <2>3, <3>1 DEF IInv, Data, InStep, OverlayHonest, Open, Prefix
  <2> QED BY <1>10, <2>2, <2>3 DEF CleanCache
<1> QED BY <1>1, <1>2, <1>3, <1>4, <1>5, <1>6, <1>7, <1>8, <1>9, <1>10 DEF Next

\* An overlay is only ever written after exactly the pieces it speaks of, so
\* what the next WinGet resumes from is the beginning of its file.
THEOREM OverlayAlwaysHonest == Spec => []OverlayHonest
<1>1. IInv => OverlayHonest
  BY DEF IInv
<1> QED BY <1>1, InitOK, StepOK, PTL DEF Spec

\* A destination of full length holds the content asked for, however many
\* broken calls for whichever contents went through the same .part.
THEOREM FullAlwaysRight == Spec => []FullMeansRight
<1>1. IInv => FullMeansRight
  BY DEF IInv
<1> QED BY <1>1, InitOK, StepOK, PTL DEF Spec

-----------------------------------------------------------------------------
(***************************************************************************)
(* Fetch: WinGet together with its progress bar and the bar's thread.      *)
(***************************************************************************)
Shape ==
  /\ origin \in Contents \union {NoContent} /\ want \in Contents \union {NoContent}
  /\ pc \in {"idle", "request", "body", "save", "solidify"}
  /\ hashed \in BOOLEAN /\ ranges \in BOOLEAN
  /\ length \in {0, Total}

LEMMA ShapeStep == Shape /\ [Next]_vars => Shape'
<1> SUFFICES ASSUME Shape, [Next]_vars PROVE Shape'
  OBVIOUS
<1>1. CASE UNCHANGED vars
  BY <1>1 DEF Shape, vars
<1>2. ASSUME NEW c \in Contents, NEW h \in BOOLEAN, MakeFilePart(c, h)
      PROVE  Shape'
  BY <1>2 DEF MakeFilePart, Shape
<1>3. ASSUME NEW partial \in BOOLEAN, Response(partial)
      PROVE  Shape'
  <2>1. /\ length' \in {0, Total} /\ pc' = "body" /\ UNCHANGED <<origin, want, hashed>>
        /\ ranges' \in IF hashed /\ length' > 0 THEN BOOLEAN ELSE {FALSE}
    BY <1>3 DEF Response
  <2>2. ranges' \in BOOLEAN
    BY <2>1
  <2> QED BY <2>1, <2>2 DEF Shape
<1>4. CASE Receive
  BY <1>4 DEF Receive, Shape
<1>5. CASE Broken \/ EndOfBody
  BY <1>5 DEF Broken, EndOfBody, Shape
<1>6. CASE NoResponse \/ SaveOverlayData \/ Crash
  BY <1>6 DEF NoResponse, SaveOverlayData, Crash, Return, Shape
<1>7. CASE Solidified
  BY <1>7 DEF Solidified, Return, Shape
<1>8. CASE CleanCache
  BY <1>8 DEF CleanCache, Shape
<1> QED BY <1>1, <1>2, <1>3, <1>4, <1>5, <1>6, <1>7, <1>8 DEF Next

LEMMA Typing == Data /\ Shape <=> TypeOK
BY DEF Data, Shape, TypeOK

\* The bar does nothing to the files: WinGet with its bar is a WinGet.
THEOREM FetchImplementsDownload == FetchSpec => Spec
<1>1. FetchInit => Init
  BY DEF FetchInit
<1>2. [FetchNext]_<<vars, bar>> => [Next]_vars
  <2> SUFFICES ASSUME [FetchNext]_<<vars, bar>> PROVE [Next]_vars
    OBVIOUS
  <2>1. CASE \E c \in Contents, h \in BOOLEAN : Call(c, h)
    BY <2>1 DEF Call, Next
  <2>2. CASE WinGet
    BY <2>2 DEF WinGet, Next
  <2>3. CASE Draw
    BY <2>3 DEF Draw
  <2>4. CASE Killed
    BY <2>4 DEF Killed, Next
  <2>5. CASE CleanCache
    BY <2>5 DEF Next
  <2> QED BY <2>1, <2>2, <2>3, <2>4, <2>5 DEF FetchNext
<1> QED BY <1>1, <1>2, PTL DEF FetchSpec, Spec

\* What the next WinGet resumes from is the beginning of its file, also when
\* the process died while the bar was being finished.
THEOREM FetchOverlayHonest == FetchSpec => []OverlayHonest
BY FetchImplementsDownload, OverlayAlwaysHonest, PTL

\* ... and a file of full length that WinGet leaves is the one asked for, however
\* its steps and those of the bar's worker interleave.
THEOREM FetchFullRight == FetchSpec => []FullMeansRight
BY FetchImplementsDownload, FullAlwaysRight, PTL

\* A bar that Finish passes over, because nothing was ever marked, has no worker
\* either: Execute sets the state when it starts one.
BarIInv ==
  /\ Bar!TypeOK /\ BarOutlivesWorker
  /\ state = "Uninitialized" => worker = "none"

\* Finish joins the worker before the bar goes, or there is none to join.
LEMMA BarStep == BarIInv /\ [FetchNext]_<<vars, bar>> => BarIInv'
<1> SUFFICES ASSUME BarIInv, [FetchNext]_<<vars, bar>> PROVE BarIInv'
  OBVIOUS
<1> USE DEF BarIInv, Bar!TypeOK, BarOutlivesWorker
<1>1. CASE UNCHANGED bar
  BY <1>1 DEF bar
<1>2. ASSUME NEW started \in BOOLEAN, Bar!Execute(started) PROVE BarIInv'
  BY <1>2 DEF Bar!Execute
<1>3. ASSUME NEW s \in {"Fault", "Completed"}, Bar!Mark(s) PROVE BarIInv'
  BY <1>3 DEF Bar!Mark
<1>4. CASE Bar!Dies
  BY <1>4 DEF Bar!Dies
<1>5. CASE Bar!Finish
  <2>1. CASE Bar!FinishBegin
    BY <2>1 DEF Bar!FinishBegin, Bar!Destroyed
  <2>2. CASE Bar!Stop \/ Bar!Notify
    BY <2>2 DEF Bar!Stop, Bar!Notify
  <2>3. CASE Bar!Join
    BY <1>4, <2>3 DEF Bar!Join, Bar!Destroyed
  <2> QED BY <1>5, <2>1, <2>2, <2>3 DEF Bar!Finish
<1>6. CASE Bar!Loop
  BY <1>6 DEF Bar!Loop, Bar!Check, Bar!Wait, Bar!Wake, Bar!Draw
<1> QED BY <1>1, <1>2, <1>3, <1>4, <1>5, <1>6
        DEF FetchNext, Call, WinGet, Draw, Killed, bar

LEMMA BarInvariant == FetchSpec => []BarIInv
<1>1. FetchInit => BarIInv
  BY DEF FetchInit, Bar!Init, BarIInv, Bar!TypeOK, BarOutlivesWorker
<1> QED BY <1>1, BarStep, PTL DEF FetchSpec

\* The files, the counters and the bar keep their types in every interleaving
\* of WinGet with the thread of its bar and with `cleancache`.
THEOREM FetchAlwaysTyped == FetchSpec => []FetchTypeOK
<1>1. Init => Shape
  BY DEF Init, Shape
<1>2. Spec => []Shape
  BY <1>1, ShapeStep, PTL DEF Spec
<1>3. Spec => []Data
  <2>1. IInv => Data
    BY DEF IInv
  <2> QED BY <2>1, InitOK, StepOK, PTL DEF Spec
<1>4. Data /\ Shape /\ BarIInv => FetchTypeOK
  BY Typing DEF BarIInv, FetchTypeOK
<1> QED BY <1>2, <1>3, <1>4, FetchImplementsDownload, BarInvariant, PTL

\* No worker draws from the members of a bar that is gone: Finish waits for it
\* on every path, and a dead process has neither.
THEOREM BarAlwaysOutlivesWorker == FetchSpec => []BarOutlivesWorker
<1>1. BarIInv => BarOutlivesWorker
  BY DEF BarIInv
<1> QED BY <1>1, BarInvariant, PTL
=============================================================================
