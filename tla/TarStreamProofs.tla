-------------------------- MODULE TarStreamProofs ---------------------------
(***************************************************************************)
(* Proofs about TarStream, the reader of tar streams of lib/archive whose  *)
(* callers take its answers on trust: for archives of any number of        *)
(* members of any size, delivered in reads of any length.                  *)
(***************************************************************************)
EXTENDS TarStream, WellFoundedInduction, TLAPS

(***************************************************************************)
(* Induction over the naturals, for the set of those a formula holds of.   *)
(***************************************************************************)
\* A set of naturals has a least member.
LEMMA Least ==
  ASSUME NEW T \in SUBSET Nat, T # {}
  PROVE  \E m \in T : \A n \in T : m <= n
<1>1. \E x \in T : \A y \in T : ~ (<<y, x>> \in OpToRel(<, Nat))
  BY NatLessThanWellFounded, WFMin, Zenon
<1>2. PICK x \in T : \A y \in T : ~ (<<y, x>> \in OpToRel(<, Nat))
  BY <1>1, Zenon
<1>3. \A y \in T : ~(y < x)
  BY <1>2 DEF OpToRel
<1> QED BY <1>3

LEMMA Induction ==
  ASSUME NEW S \in SUBSET Nat, 0 \in S, \A n \in S : n + 1 \in S
  PROVE  S = Nat
<1> SUFFICES ASSUME Nat \ S # {} PROVE FALSE
  OBVIOUS
<1>1. PICK m \in Nat \ S : \A n \in Nat \ S : m <= n
  <2>1. Nat \ S \in SUBSET Nat
    OBVIOUS
  <2> QED BY <2>1, Least
<1>2. m # 0 /\ m - 1 \in Nat /\ ~(m <= m - 1)
  BY <1>1
<1>3. m - 1 \in S
  BY <1>1, <1>2
<1>4. (m - 1) + 1 \in S
  BY <1>3
<1> QED BY <1>1, <1>4

-----------------------------------------------------------------------------
(***************************************************************************)
(* TarStream.  That the reader keeps its place rests on the distances      *)
(* between headers: Start is strictly increasing, so a header position     *)
(* names one member.  The invariant says, at each call of Next, that what  *)
(* is left to discard leads to the header of the member after cur, or that *)
(* the stream ended inside cur; and that a body is left to discard only    *)
(* behind a member that has one, which is why Confusing matters.           *)
(***************************************************************************)
\* An archive, whole or not, is a sequence of members of known size.
LEMMA ArchiveIs ==
  ASSUME arch \in Archives
  PROVE  /\ arch \in Seq(Members \union Plain)
         /\ Len(arch) \in Nat /\ DOMAIN arch = 1 .. Len(arch)
         /\ \A i \in 1 .. Len(arch) :
              /\ arch[i].size \in Nat /\ Body(arch[i]) \in Nat
              /\ arch[i].type # "dir" \/ arch[i].size = 0 => Body(arch[i]) = arch[i].size
<1>1. arch \in Seq(Members \union Plain)
  <2>1. CASE \E m \in Plain : arch = <<m>>
    BY <2>1
  <2>2. CASE \E n \in 0 .. MaxMembers : arch \in [1 .. n -> Members]
    BY <2>2, TarAssumption
  <2> QED BY <2>1, <2>2 DEF Archives
<1>2. \A m \in Members \union Plain : m.size \in Nat
  <2>1. \A m \in Members : m.size \in Nat
    BY TarAssumption DEF Members
  <2>2. \A m \in Plain : m.size \in Nat
    BY TarAssumption DEF Plain
  <2> QED BY <2>1, <2>2
<1>3. \A i \in 1 .. Len(arch) : arch[i] \in Members \union Plain
  BY <1>1
<1> QED BY <1>1, <1>2, <1>3 DEF Body

\* The units from one header to the next.
Stride(i) == B + Body(arch[i]) + ((-Body(arch[i])) % B)

LEMMA PaddingIs ==
  ASSUME NEW n \in Nat
  PROVE  /\ (-n) % B \in 0 .. B - 1
         /\ blockPadding(n) = (-n) % B
         /\ blockPadding(n) \in 0 .. B - 1 /\ blockPadding(n) \in Nat
<1>1. (-n) % B \in 0 .. B - 1
  BY TarAssumption
<1>2. \A m \in 0 .. B - 1 : m \in Nat
  BY TarAssumption
<1> QED BY <1>1, <1>2 DEF blockPadding

LEMMA StrideIs ==
  ASSUME arch \in Archives, NEW i \in 1 .. Len(arch)
  PROVE  /\ Stride(i) \in Nat
         /\ Stride(i) >= B + Body(arch[i])
         /\ Stride(i) = B + Body(arch[i]) + blockPadding(Body(arch[i]))
BY ArchiveIs, PaddingIs, TarAssumption DEF Stride, blockPadding

\* The equation that defines Start has a solution: it is built member by member.
LEMMA StartIs ==
  ASSUME arch \in Archives
  PROVE  Start = [i \in 1 .. Len(arch) + 1 |->
                    IF i = 1 THEN 0
                    ELSE Start[i - 1] + B + Body(arch[i - 1]) + ((-Body(arch[i - 1])) % B)]
<1> DEFINE R(g, n) == g = [i \in 1 .. n + 1 |->
                             IF i = 1 THEN 0
                             ELSE g[i - 1] + B + Body(arch[i - 1]) + ((-Body(arch[i - 1])) % B)]
           S == {n \in Nat : \E g : R(g, n)}
<1>1. 0 \in S
  <2>1. R([i \in 1 .. 1 |-> 0], 0)
    OBVIOUS
  <2> QED BY <2>1
<1>2. ASSUME NEW n \in S PROVE n + 1 \in S
  <2>1. PICK g : R(g, n)
    OBVIOUS
  <2> DEFINE h == [i \in 1 .. n + 2 |->
                     IF i <= n + 1 THEN g[i]
                     ELSE g[n + 1] + B + Body(arch[n + 1]) + ((-Body(arch[n + 1])) % B)]
  <2>2. R(h, n + 1)
    BY <2>1
  <2>3. \E f : R(f, n + 1)
    <3> HIDE DEF h, R
    <3> QED BY <2>2
  <2>4. n + 1 \in Nat
    OBVIOUS
  <2> QED BY <2>3, <2>4
<1>3. S = Nat
  <2> HIDE DEF S
  <2>1. S \in SUBSET Nat
    BY DEF S
  <2> QED BY <1>1, <1>2, <2>1, Induction
<1>4. \E g : R(g, Len(arch))
  BY <1>3, ArchiveIs
<1>5. R(Start, Len(arch))
  BY <1>4 DEF Start
<1> QED BY <1>5

LEMMA StartStep ==
  ASSUME arch \in Archives
  PROVE  /\ Start[1] = 0
         /\ \A i \in 1 .. Len(arch) + 1 : Start[i] \in Nat
         /\ \A i \in 1 .. Len(arch) : Start[i + 1] = Start[i] + Stride(i)
<1> USE ArchiveIs
<1>1. Start[1] = 0
  BY StartIs
<1>2. \A i \in 1 .. Len(arch) :
        Start[i + 1] = Start[i] + B + Body(arch[i]) + ((-Body(arch[i])) % B)
  <2> TAKE i \in 1 .. Len(arch)
  <2>1. i + 1 \in 1 .. Len(arch) + 1 /\ i + 1 # 1 /\ (i + 1) - 1 = i
    OBVIOUS
  <2> QED BY <2>1, StartIs
<1>3. \A i \in 1 .. Len(arch) : Start[i] \in Nat => Start[i + 1] = Start[i] + Stride(i)
  <2> TAKE i \in 1 .. Len(arch)
  <2>1. Body(arch[i]) \in Nat /\ (-Body(arch[i])) % B \in Nat /\ B \in Nat
    <3>1. Body(arch[i]) \in Nat
      OBVIOUS
    <3> QED BY <3>1, PaddingIs, TarAssumption
  <2>2. Start[i + 1] = Start[i] + B + Body(arch[i]) + ((-Body(arch[i])) % B)
    BY <1>2
  <2> QED BY <2>1, <2>2 DEF Stride
<1> DEFINE S == {n \in Nat : n <= Len(arch) => Start[n + 1] \in Nat}
<1>4. 0 \in S
  BY <1>1
<1>5. ASSUME NEW n \in S PROVE n + 1 \in S
  <2>1. CASE n + 1 <= Len(arch)
    <3>1. n + 1 \in 1 .. Len(arch) /\ Start[n + 1] \in Nat
      BY <2>1
    <3> QED BY <3>1, <1>3, StrideIs
  <2> QED BY <2>1
<1>6. S = Nat
  <2> HIDE DEF S
  <2>1. S \in SUBSET Nat
    BY DEF S
  <2> QED BY <1>4, <1>5, <2>1, Induction
<1>7. ASSUME NEW i \in 1 .. Len(arch) + 1 PROVE Start[i] \in Nat
  <2>1. i - 1 \in S /\ i - 1 <= Len(arch) /\ (i - 1) + 1 = i
    <3> HIDE DEF S
    <3> QED BY <1>6
  <2> QED BY <2>1
<1> QED BY <1>1, <1>3, <1>7

\* Headers come in the order of their members, a block apart at least.
LEMMA StartGrows ==
  ASSUME arch \in Archives, NEW i \in 1 .. Len(arch) + 1, NEW j \in 1 .. Len(arch) + 1, i < j
  PROVE  Start[i] + Stride(i) <= Start[j]
<1> USE ArchiveIs, StartStep, StrideIs
<1> DEFINE S == {n \in Nat : i + 1 + n <= Len(arch) + 1 => Start[i] + Stride(i) <= Start[i + 1 + n]}
<1>1. i \in 1 .. Len(arch)
  OBVIOUS
<1>2. 0 \in S
  BY <1>1
<1>3. ASSUME NEW n \in S PROVE n + 1 \in S
  <2>1. CASE i + 1 + (n + 1) <= Len(arch) + 1
    <3> DEFINE m == i + 1 + n
    <3>1. m \in 1 .. Len(arch) /\ m + 1 \in 1 .. Len(arch) + 1 /\ i + 1 + (n + 1) = m + 1
      BY <2>1
    <3>2. Start[i] + Stride(i) <= Start[m]
      BY <3>1
    <3>3. Start[m + 1] = Start[m] + Stride(m) /\ Stride(m) \in Nat /\ Start[m] \in Nat
      BY <3>1
    <3>4. Start[i] \in Nat /\ Stride(i) \in Nat
      BY <1>1
    <3>5. Start[i] + Stride(i) <= Start[m + 1]
      <4> HIDE DEF m
      <4> QED BY <3>2, <3>3, <3>4
    <3> QED BY <3>1, <3>5
  <2> QED BY <2>1
<1>4. S = Nat
  <2> HIDE DEF S
  <2>1. S \in SUBSET Nat
    BY DEF S
  <2> QED BY <1>2, <1>3, <2>1, Induction
<1>5. j - (i + 1) \in S
  <2> HIDE DEF S
  <2> QED BY <1>4
<1>6. i + 1 + (j - (i + 1)) = j
  OBVIOUS
<1> QED BY <1>5, <1>6

LEMMA ZerosIs ==
  ASSUME arch \in Archives
  PROVE  /\ Zeros \in Nat /\ Start[Len(arch) + 1] = Zeros
         /\ \A i \in 1 .. Len(arch) :
              /\ Start[i] \in Nat /\ Start[i] + Stride(i) <= Zeros
              /\ Start[i] + B + Body(arch[i]) <= Zeros
<1>1. Zeros \in Nat /\ Start[Len(arch) + 1] = Zeros
  BY ArchiveIs, StartStep DEF Zeros
<1>2. ASSUME NEW i \in 1 .. Len(arch)
      PROVE  /\ Start[i] \in Nat /\ Start[i] + Stride(i) <= Zeros
             /\ Start[i] + B + Body(arch[i]) <= Zeros
  <2>1. i \in 1 .. Len(arch) + 1 /\ Len(arch) + 1 \in 1 .. Len(arch) + 1 /\ i < Len(arch) + 1
    BY ArchiveIs
  <2>2. Start[i] \in Nat /\ Start[i] + Stride(i) <= Zeros
    BY <1>1, <2>1, StartStep, StartGrows
  <2> QED BY <1>1, <2>2, ArchiveIs, StrideIs, TarAssumption
<1> QED BY <1>1, <1>2

\* A step leaves the archive alone, and with it everything said about it.
LEMMA Fixed ==
  ASSUME [TarNext]_tarVars
  PROVE  /\ UNCHANGED input
         /\ Start' = Start /\ Zeros' = Zeros /\ StreamLen' = StreamLen
         /\ IsTar' <=> IsTar
         /\ Regular' = Regular
         /\ failed \subseteq failed'
<1>1. UNCHANGED input /\ failed \subseteq failed'
  BY DEF TarNext, tarVars, input, NextShort, NextEnded, NextNotTar, NextExtension, NextEntry,
         EntrySkipped, EntryWritten, EntryCut, EntryRefused
<1>2. arch' = arch
  BY <1>1 DEF input
<1>3. Start' = Start
  BY <1>2 DEF Start
<1>4. Zeros' = Zeros
  BY <1>2, <1>3 DEF Zeros
<1>5. IsTar' <=> IsTar
  BY <1>2 DEF IsTar
<1>6. StreamLen' = StreamLen
  BY <1>2, <1>4, <1>5 DEF StreamLen
<1> QED BY <1>1, <1>2, <1>3, <1>4, <1>5, <1>6 DEF Regular

-----------------------------------------------------------------------------
Running == stage \in {"next", "entry"}

Codes == {"", "nofilter", "ended", "nottar", "extract", "general"}

(* Where the reader is, whatever it skipped: past the header it read last.  *)
Bounds ==
  /\ index <= cur /\ failed \subseteq 1 .. cur
  /\ cur > 0 => IsTar
  /\ cur > 0 /\ Running => pos >= Start[cur] + B
  /\ stage = "entry" =>
       /\ cur > 0 /\ cur \notin failed
       /\ arch[cur].type \in {"reg", "dir", "other"}
       /\ pos = Start[cur] + B /\ pos <= len
       /\ remainingSize = arch[cur].size
       /\ paddingSize = blockPadding(Body(arch[cur]))

TarTypes == TarTypeOK /\ Bounds

LEMMA FinishIs ==
  ASSUME NEW e \in Codes, Finish(e)
  PROVE  /\ ec' = e /\ stage' = "done"
         /\ result' \in {"ok", "single", "failed"}
         /\ result' = "ok" => e \in {"", "ended"}
BY DEF Finish, Codes

LEMMA AtEndIs ==
  ASSUME NEW e \in Codes, kind \in {"file", "gz", "xz"}
  PROVE  AtEnd(e) \subseteq Codes
BY DEF AtEnd, FileAtEnd, GzAtEnd, BzAtEnd, XzAtEnd, Codes

LEMMA EntryFailedIs ==
  ASSUME NEW e \in Codes, EntryFailed(e), result = "none" \/ result \in {"ok", "single", "failed"}
  PROVE  /\ ec' = e /\ stage' \in {"next", "done"}
         /\ result' \in {"none", "ok", "single", "failed"}
         /\ stage' = "next" => ignore /\ result' = result
         /\ stage' = "done" => (result' = "ok" => e \in {"", "ended"})
BY FinishIs DEF EntryFailed

LEMMA Typed ==
  ASSUME TarTypeOK
  PROVE  /\ arch \in Archives /\ Len(arch) \in Nat /\ DOMAIN arch = 1 .. Len(arch)
         /\ \A i \in 1 .. Len(arch) : arch[i].size \in Nat
         /\ pos \in Nat /\ remainingSize \in Nat /\ paddingSize \in Nat
         /\ HeaderAt = pos + remainingSize + paddingSize
         /\ len \in Nat /\ StreamLen \in Nat /\ len <= StreamLen
         /\ cur \in 0 .. Len(arch) /\ index \in Nat
         /\ B \in Nat /\ B > 0
<1>1. arch \in Archives /\ B \in Nat /\ B > 0
  <2>1. arch \in Archives
    BY DEF TarTypeOK
  <2> QED BY <2>1, TarAssumption
<1>2. StreamLen \in Nat
  <2>1. CASE IsTar
    BY <1>1, <2>1, ZerosIs DEF StreamLen
  <2>2. CASE ~IsTar
    <3>1. 1 \in 1 .. Len(arch)
      BY <1>1, <2>2, ArchiveIs DEF IsTar
    <3> QED BY <1>1, <2>2, <3>1, ArchiveIs DEF StreamLen
  <2> QED BY <2>1, <2>2
<1>3. /\ pos \in Nat /\ remainingSize \in Nat /\ paddingSize \in 0 .. B - 1
      /\ len \in 0 .. StreamLen /\ cur \in 0 .. Len(arch) /\ index \in 0 .. Len(arch)
  BY DEF TarTypeOK
<1> QED BY <1>1, <1>2, <1>3, ArchiveIs DEF HeaderAt

\* A header the reader comes to belongs to a member after the last one.
LEMMA Forward ==
  ASSUME TarTypes, stage = "next", NEW i \in DOMAIN arch, HeaderAt = Start[i]
  PROVE  i \in 1 .. Len(arch) /\ cur < i
<1>1. /\ arch \in Archives /\ i \in 1 .. Len(arch) /\ cur \in 0 .. Len(arch) /\ Len(arch) \in Nat
      /\ B \in Nat /\ B > 0
  BY Typed DEF TarTypes
<1>2. CASE cur = 0
  BY <1>1, <1>2
<1>3. CASE cur > 0
  <2>1. cur \in 1 .. Len(arch) /\ Start[cur] \in Nat /\ Start[i] \in Nat
    BY <1>1, <1>3, ZerosIs
  <2>2. Start[cur] + B <= Start[i]
    <3>1. pos >= Start[cur] + B
      BY <1>3 DEF TarTypes, Bounds, Running
    <3>2. pos \in Nat /\ remainingSize \in Nat /\ paddingSize \in Nat
      BY Typed DEF TarTypes
    <3> QED BY <1>1, <2>1, <3>1, <3>2 DEF HeaderAt
  <2>3. cur # i
    BY <1>1, <2>1, <2>2
  <2>4. ~(i < cur)
    <3> SUFFICES ASSUME i < cur PROVE FALSE
      OBVIOUS
    <3>1. i \in 1 .. Len(arch) + 1 /\ cur \in 1 .. Len(arch) + 1
      BY <1>1, <2>1
    <3>2. Start[i] + Stride(i) <= Start[cur]
      BY <1>1, <3>1, StartGrows
    <3>3. Stride(i) \in Nat
      BY <1>1, StrideIs
    <3> QED BY <1>1, <2>1, <2>2, <3>2, <3>3
  <2> QED BY <1>1, <2>1, <2>3, <2>4
<1> QED BY <1>1, <1>2, <1>3

\* What led the reader astray is not undone.
LEMMA Astray ==
  ASSUME TarTypes, [TarNext]_tarVars, Confusing
  PROVE  Confusing'
<1>1. arch' = arch /\ failed \subseteq failed'
  BY Fixed DEF input
<1>2. cur \in 0 .. Len(arch) /\ Len(arch) \in Nat
  BY Typed DEF TarTypes
<1>3. cur' = cur \/ (cur' \in 1 .. Len(arch) /\ cur < cur')
  <2>1. ASSUME NEW i \in DOMAIN arch, NextExtension(i) \/ NextEntry(i)
        PROVE  cur' \in 1 .. Len(arch) /\ cur < cur'
    <3>1. stage = "next" /\ HeaderAt = Start[i] /\ cur' = i
      BY <2>1 DEF NextExtension, NextEntry
    <3> QED BY <3>1, Forward
  <2> QED BY <2>1 DEF TarNext, tarVars, NextShort, NextEnded, NextNotTar,
                       EntrySkipped, EntryWritten, EntryCut, EntryRefused
<1>4. \A i \in 1 .. cur : i \in 1 .. cur'
  BY <1>2, <1>3
<1> QED BY <1>1, <1>4 DEF Confusing

(* A step of extract_entry.                                                 *)
EntryStep ==
  \/ EntrySkipped \/ EntryWritten \/ EntryCut
  \/ \E k \in {0, 1} : EntryRefused(k)

Size == arch[cur].size

LEMMA AtEntry ==
  ASSUME TarTypes, stage = "entry"
  PROVE  /\ cur \in 1 .. Len(arch) /\ cur \notin failed /\ IsTar
         /\ arch[cur].type \in {"reg", "dir", "other"}
         /\ Size \in Nat /\ remainingSize = Size
         /\ pos \in Nat /\ len \in Nat /\ pos <= len /\ paddingSize \in Nat
         /\ HeaderAt = pos + remainingSize + paddingSize
         /\ arch[cur].type # "dir" \/ Size = 0 =>
              pos + Size <= Zeros /\ HeaderAt = Start[cur + 1]
<1>1. /\ arch \in Archives /\ Len(arch) \in Nat /\ cur \in 0 .. Len(arch) /\ B \in Nat
      /\ pos \in Nat /\ len \in Nat /\ paddingSize \in Nat
      /\ HeaderAt = pos + remainingSize + paddingSize
  BY Typed DEF TarTypes
<1>2. /\ cur > 0 /\ cur \notin failed /\ IsTar
      /\ arch[cur].type \in {"reg", "dir", "other"}
      /\ pos = Start[cur] + B /\ pos <= len
      /\ remainingSize = Size /\ paddingSize = blockPadding(Body(arch[cur]))
  BY DEF TarTypes, Bounds, Size
<1>3. cur \in 1 .. Len(arch)
  <2>1. cur \in 0 .. Len(arch) /\ Len(arch) \in Nat /\ cur > 0
    BY <1>1, <1>2
  <2> QED BY <2>1
<1>4. Size \in Nat
  BY <1>1, <1>3, ArchiveIs DEF Size
<1>5. ASSUME arch[cur].type # "dir" \/ Size = 0
      PROVE  pos + Size <= Zeros /\ HeaderAt = Start[cur + 1]
  <2>1. Body(arch[cur]) = Size
    BY <1>1, <1>3, <1>5, ArchiveIs DEF Size
  <2>2. /\ Start[cur] \in Nat /\ Start[cur] + B + Size <= Zeros
        /\ Start[cur + 1] = Start[cur] + Stride(cur)
        /\ Stride(cur) = B + Size + blockPadding(Size)
    BY <1>1, <1>3, <2>1, ZerosIs, StartStep, StrideIs
  <2>3. pos = Start[cur] + B /\ B \in Nat /\ paddingSize \in Nat /\ paddingSize = blockPadding(Size)
    BY <1>1, <1>2, <2>1
  <2>4. pos + Size <= Zeros /\ pos + Size + paddingSize = Start[cur + 1]
    BY <1>4, <2>2, <2>3
  <2> QED BY <1>1, <1>2, <2>4
<1> QED BY <1>1, <1>2, <1>3, <1>4, <1>5

\* Whatever extract_entry takes of a body, what is left to discard leads to the
\* same place.
LEMMA EntryMoves ==
  ASSUME TarTypes, EntryStep
  PROVE  /\ stage = "entry" /\ UNCHANGED <<paddingSize, index, cur>>
         /\ pos' \in Nat /\ pos' >= pos /\ remainingSize' \in Nat
         /\ HeaderAt' = HeaderAt
<1>1. stage = "entry" /\ UNCHANGED <<paddingSize, index, cur>>
  BY DEF EntryStep, EntrySkipped, EntryWritten, EntryCut, EntryRefused
<1>2. /\ Size \in Nat /\ remainingSize = Size /\ pos \in Nat /\ len \in Nat /\ pos <= len
      /\ paddingSize \in Nat
  BY <1>1, AtEntry
<1>3. pos' \in Nat /\ pos' >= pos /\ remainingSize' \in Nat /\ pos' + remainingSize' = pos + remainingSize
  <2>1. CASE EntrySkipped
    <3>1. pos' = pos /\ remainingSize' = remainingSize
      BY <2>1 DEF EntrySkipped
    <3> QED BY <1>2, <3>1
  <2>2. CASE EntryWritten
    <3>1. pos' = pos + Size /\ remainingSize' = 0
      BY <2>2 DEF EntryWritten, Size
    <3> QED BY <1>2, <3>1
  <2>3. CASE EntryCut
    <3>1. pos + Size > len /\ pos' = len /\ remainingSize' = remainingSize - (len - pos)
      BY <2>3 DEF EntryCut, Size
    <3> QED BY <1>2, <3>1
  <2>4. ASSUME NEW k \in {0, 1}, EntryRefused(k)
        PROVE  /\ pos' \in Nat /\ pos' >= pos /\ remainingSize' \in Nat
               /\ pos' + remainingSize' = pos + remainingSize
    <3>1. (k > 0 => k <= Size) /\ pos' = pos + k /\ remainingSize' = remainingSize - k
      BY <2>4 DEF EntryRefused, Size
    <3>2. k \in Nat /\ k <= Size
      BY <1>2, <3>1
    <3> QED BY <1>2, <3>1, <3>2
  <2> QED BY <2>1, <2>2, <2>3, <2>4 DEF EntryStep
<1>4. HeaderAt' = HeaderAt
  BY <1>1, <1>3 DEF HeaderAt
<1> QED BY <1>1, <1>3, <1>4

LEMMA Appended ==
  ASSUME NEW S, NEW s \in Seq(S), NEW x \in S
  PROVE  /\ Append(s, x) \in Seq(S) /\ Len(Append(s, x)) = Len(s) + 1
         /\ DOMAIN s = 1 .. Len(s) /\ DOMAIN Append(s, x) = 1 .. Len(s) + 1
         /\ \A n \in 1 .. Len(s) : Append(s, x)[n] = s[n]
         /\ Append(s, x)[Len(s) + 1] = x
OBVIOUS

\* The reader only moves forward, and index counts members it has passed.
LEMMA TarTypesStep ==
  ASSUME TarTypes, [TarNext]_tarVars
  PROVE  TarTypes'
<1> DEFINE Rest ==
             /\ pos' \in Nat /\ remainingSize' \in Nat /\ paddingSize' \in 0 .. B - 1
             /\ index' \in 0 .. Len(arch) /\ cur' \in 0 .. Len(arch)
             /\ ec' \in Codes
             /\ out' \in Seq(DOMAIN arch) /\ failed' \subseteq DOMAIN arch
             /\ stage' \in {"next", "entry", "spin", "done"}
             /\ result' \in {"none", "ok", "single", "failed"}
           Where ==
             /\ index' <= cur' /\ failed' \subseteq 1 .. cur'
             /\ cur' > 0 => IsTar
             /\ cur' > 0 /\ stage' \in {"next", "entry"} => pos' >= Start[cur'] + B
             /\ stage' = "entry" =>
                  /\ cur' > 0 /\ cur' \notin failed'
                  /\ arch[cur'].type \in {"reg", "dir", "other"}
                  /\ pos' = Start[cur'] + B /\ pos' <= len
                  /\ remainingSize' = arch[cur'].size
                  /\ paddingSize' = blockPadding(Body(arch[cur']))
<1>1. ASSUME Rest, Where PROVE TarTypes'
  <2>1. /\ arch' = arch /\ len' = len /\ kind' = kind /\ ignore' = ignore
        /\ StreamLen' = StreamLen /\ Start' = Start /\ (IsTar' <=> IsTar)
    BY Fixed DEF input
  <2>2. TarTypeOK'
    BY <1>1, <2>1 DEF TarTypes, TarTypeOK, Codes
  <2>3. Bounds'
    BY <1>1, <2>1 DEF Bounds, Running, blockPadding, Body
  <2> QED BY <2>2, <2>3 DEF TarTypes
<1>2. /\ arch \in Archives /\ Len(arch) \in Nat /\ DOMAIN arch = 1 .. Len(arch)
      /\ pos \in Nat /\ remainingSize \in Nat /\ len \in Nat
      /\ B \in Nat /\ B > 0
      /\ cur \in 0 .. Len(arch) /\ index \in Nat /\ index <= cur
      /\ \A i \in 1 .. Len(arch) :
           Start[i] \in Nat /\ arch[i].size \in Nat /\ Body(arch[i]) \in Nat
  BY Typed, ArchiveIs, ZerosIs DEF TarTypes, Bounds
<1>3. /\ paddingSize \in 0 .. B - 1 /\ index \in 0 .. Len(arch)
      /\ ec \in Codes /\ kind \in {"file", "gz", "xz"}
      /\ out \in Seq(DOMAIN arch) /\ failed \subseteq DOMAIN arch
      /\ result \in {"none", "ok", "single", "failed"}
      /\ failed \subseteq 1 .. cur /\ (cur > 0 => IsTar)
  BY DEF TarTypes, TarTypeOK, Bounds, Codes
<1>4. ASSUME NEW e \in Codes, Finish(e),
             UNCHANGED <<pos, remainingSize, paddingSize, index, cur, out, failed>>
      PROVE  TarTypes'
  <2>1. ec' \in Codes /\ stage' = "done" /\ result' \in {"ok", "single", "failed"}
    BY <1>4, FinishIs
  <2>2. Rest
    BY <1>2, <1>3, <1>4, <2>1
  <2>3. Where
    BY <1>2, <1>3, <1>4, <2>1
  <2> QED BY <1>1, <2>2, <2>3
<1>5. CASE NextShort \/ NextEnded \/ NextNotTar
  <2>1. AtEnd(ec) \subseteq Codes /\ "ended" \in Codes /\ "nottar" \in Codes
    BY <1>3, AtEndIs DEF Codes
  <2>2. \E e \in Codes : Finish(e)
    BY <1>5, <2>1 DEF NextShort, NextEnded, NextNotTar
  <2>3. UNCHANGED <<pos, remainingSize, paddingSize, index, cur, out, failed>>
    BY <1>5 DEF NextShort, NextEnded, NextNotTar
  <2> QED BY <1>4, <2>2, <2>3
<1>6. ASSUME NEW i \in DOMAIN arch, NextExtension(i) PROVE TarTypes'
  <2>1. stage = "next" /\ HeaderAt = Start[i] /\ IsTar
    BY <1>6 DEF NextExtension
  <2>2. i \in 1 .. Len(arch) /\ cur < i
    BY <2>1, Forward
  <2>3. blockPadding(arch[i].size) \in 0 .. B - 1
    BY <1>2, <2>2, PaddingIs
  <2>4. /\ cur' = i /\ paddingSize' = blockPadding(arch[i].size)
        /\ UNCHANGED <<remainingSize, index, out, failed>>
    BY <1>6 DEF NextExtension
  <2>5. failed' \subseteq 1 .. cur'
    BY <1>2, <1>3, <2>2, <2>4
  <2>6. CASE HeaderAt + B + arch[i].size > len
    <3>1. (\E e \in AtEnd(ec) : Finish(e)) /\ pos' = len
      BY <1>6, <2>6 DEF NextExtension
    <3>2. ec' \in Codes /\ stage' = "done" /\ result' \in {"ok", "single", "failed"}
      BY <1>3, <3>1, AtEndIs, FinishIs
    <3>3. Rest
      BY <1>2, <1>3, <2>2, <2>3, <2>4, <3>1, <3>2
    <3>4. Where
      BY <1>2, <2>1, <2>2, <2>4, <2>5, <3>2
    <3> QED BY <1>1, <3>3, <3>4
  <2>7. CASE ~(HeaderAt + B + arch[i].size > len)
    <3>1. pos' = Start[i] + B + arch[i].size /\ UNCHANGED <<ec, stage, result>>
      BY <1>6, <2>1, <2>7 DEF NextExtension
    <3>2. Rest
      <4>1. pos' \in Nat /\ cur' \in 0 .. Len(arch) /\ paddingSize' \in 0 .. B - 1
        BY <1>2, <2>2, <2>3, <2>4, <3>1
      <4>2. /\ ec \in Codes /\ stage \in {"next", "entry", "spin", "done"}
            /\ remainingSize \in Nat /\ index \in 0 .. Len(arch)
            /\ out \in Seq(DOMAIN arch) /\ failed \subseteq DOMAIN arch
            /\ result \in {"none", "ok", "single", "failed"}
        BY <1>2, <1>3, <2>1
      <4> QED BY <2>4, <3>1, <4>1, <4>2
    <3>3. Where
      BY <1>2, <2>1, <2>2, <2>4, <2>5, <3>1
    <3> QED BY <1>1, <3>2, <3>3
  <2> QED BY <2>6, <2>7
<1>7. ASSUME NEW i \in DOMAIN arch, NextEntry(i) PROVE TarTypes'
  <2>1. /\ stage = "next" /\ HeaderAt = Start[i] /\ IsTar /\ ~Short
        /\ arch[i].type \in {"reg", "dir", "other"}
        /\ cur' = i /\ pos' = Start[i] + B /\ paddingSize' = blockPadding(Body(arch[i]))
        /\ remainingSize' = arch[i].size /\ index' = index + 1 /\ stage' = "entry"
        /\ UNCHANGED <<ec, out, failed, result>>
    BY <1>7 DEF NextEntry
  <2>2. i \in 1 .. Len(arch) /\ cur < i
    BY <2>1, Forward
  <2>3. blockPadding(Body(arch[i])) \in 0 .. B - 1
    BY <1>2, <2>2, PaddingIs
  <2>4. pos' <= len
    BY <1>2, <2>1, <2>2 DEF Short
  <2>5. failed' \subseteq 1 .. cur' /\ cur' \notin failed'
    BY <1>2, <1>3, <2>1, <2>2
  <2>6. Rest
    <3>1. /\ pos' \in Nat /\ remainingSize' \in Nat /\ paddingSize' \in 0 .. B - 1
          /\ cur' \in 0 .. Len(arch)
      BY <1>2, <2>1, <2>2, <2>3
    <3>2. index' \in 0 .. Len(arch)
      BY <1>2, <2>1, <2>2
    <3>3. /\ ec \in Codes /\ out \in Seq(DOMAIN arch) /\ failed \subseteq DOMAIN arch
          /\ result \in {"none", "ok", "single", "failed"}
      BY <1>3
    <3> QED BY <2>1, <3>1, <3>2, <3>3
  <2>7. Where
    BY <1>2, <2>1, <2>2, <2>4, <2>5
  <2> QED BY <1>1, <2>6, <2>7
<1>8. CASE EntryStep
  <2>1. /\ stage = "entry" /\ UNCHANGED <<paddingSize, index, cur>>
        /\ pos' \in Nat /\ pos' >= pos /\ remainingSize' \in Nat
    BY <1>8, EntryMoves
  <2>2. cur \in 1 .. Len(arch) /\ cur \in DOMAIN arch /\ IsTar
    BY <1>2, <2>1, AtEntry
  <2>3. failed' \subseteq failed \cup {cur}
    BY <1>8 DEF EntryStep, EntrySkipped, EntryWritten, EntryCut, EntryRefused
  <2>4. out' \in Seq(DOMAIN arch)
    <3>1. out' = out \/ out' = Append(out, cur)
      BY <1>8 DEF EntryStep, EntrySkipped, EntryWritten, EntryCut, EntryRefused
    <3>2. out \in Seq(DOMAIN arch)
      BY <1>3
    <3> QED BY <2>2, <3>1, <3>2, Appended
  <2>5. /\ ec' \in Codes /\ stage' \in {"next", "spin", "done"}
        /\ result' \in {"none", "ok", "single", "failed"}
    <3>1. AtEnd("") \subseteq Codes /\ "" \in Codes /\ "general" \in Codes
      BY <1>3, AtEndIs DEF Codes
    <3>2. CASE EntrySkipped \/ EntryWritten
      BY <1>3, <3>1, <3>2 DEF EntrySkipped, EntryWritten
    <3>3. CASE EntryCut
      <4>1. CASE kind = "file"
        BY <1>3, <3>1, <3>3, <4>1 DEF EntryCut
      <4>2. CASE kind # "file"
        <5>1. PICK e \in AtEnd("") : EntryFailed(e)
          BY <3>3, <4>2 DEF EntryCut
        <5> QED BY <1>3, <3>1, <5>1, EntryFailedIs
      <4> QED BY <4>1, <4>2
    <3>4. ASSUME NEW k \in {0, 1}, EntryRefused(k)
          PROVE  /\ ec' \in Codes /\ stage' \in {"next", "spin", "done"}
                 /\ result' \in {"none", "ok", "single", "failed"}
      <4>1. EntryFailed("general")
        BY <3>4 DEF EntryRefused
      <4> QED BY <1>3, <3>1, <4>1, EntryFailedIs
    <3> QED BY <1>8, <3>2, <3>3, <3>4 DEF EntryStep
  <2>6. failed' \subseteq DOMAIN arch /\ failed' \subseteq 1 .. cur
    <3>1. failed \subseteq DOMAIN arch /\ failed \subseteq 1 .. cur
      BY <1>3
    <3>2. cur \in 1 .. cur
      BY <2>2
    <3> QED BY <2>2, <2>3, <3>1, <3>2
  <2>7. Start[cur] + B <= pos
    <3>1. pos = Start[cur] + B /\ pos \in Nat
      BY <1>2, <2>1 DEF TarTypes, Bounds
    <3> QED BY <3>1
  <2>8. pos' >= Start[cur'] + B
    <3>1. Start[cur] \in Nat /\ B \in Nat /\ pos \in Nat /\ cur' = cur
      BY <1>2, <2>1, <2>2
    <3> QED BY <2>1, <2>7, <3>1
  <2>9. Rest
    BY <1>2, <1>3, <2>1, <2>4, <2>5, <2>6
  <2>10. Where
    BY <1>2, <2>1, <2>2, <2>5, <2>6, <2>8
  <2> QED BY <1>1, <2>9, <2>10
<1>9. CASE UNCHANGED tarVars
  <2>1. /\ stage \in {"next", "entry", "spin", "done"}
        /\ UNCHANGED <<pos, remainingSize, paddingSize, index, cur, ec, out, failed, stage, result>>
    BY <1>9 DEF TarTypes, TarTypeOK, tarVars
  <2>2. Rest
    BY <1>2, <1>3, <2>1
  <2>3. Where
    BY <2>1 DEF TarTypes, Bounds, Running
  <2> QED BY <1>1, <2>2, <2>3
<1> QED BY <1>5, <1>6, <1>7, <1>8, <1>9 DEF TarNext, EntryStep

-----------------------------------------------------------------------------
(* The body of the last entry is still in the stream.                       *)
Left ==
  /\ cur > 0 /\ arch[cur].size > 0
  /\ arch[cur].type = "other" \/ cur \in failed

(* The next header is where the reader will look for it.                    *)
AtHeader ==
  /\ HeaderAt = Start[cur + 1]
  /\ Lists(Seen(cur))
  /\ remainingSize > 0 => Left

(* The stream ended inside the last entry, and the error was ignored.       *)
CutOff ==
  /\ HeaderAt > len /\ kind # "file" /\ len # StreamLen
  /\ Lists(Seen(cur - 1))

InPlace ==
  /\ ec # "nottar"
  /\ stage = "next" => AtHeader \/ CutOff
  /\ stage = "entry" => Lists(Seen(cur - 1))
  /\ ~Running => Lists(Seen(cur)) \/ Lists(Seen(cur - 1))

(* As long as errors are not ignored there is none behind the reader.       *)
Strict == ~ignore /\ (len = StreamLen \/ kind = "xz")
NothingLost ==
  /\ Running => failed = {} /\ result = "none"
  /\ result = "ok" => failed = {} /\ cur = Len(arch) /\ Lists(Seen(cur))

Place == (IsTar /\ ~Confusing) => InPlace /\ (Strict => NothingLost)

TarIInv == TarTypes /\ Place

\* As long as there is a header to read, it is the one of the next member.
LEMMA HeaderHere ==
  ASSUME TarTypes, Place, IsTar, ~Confusing, stage = "next", ~Short
  PROVE  AtHeader
<1>1. HeaderAt \in Nat /\ len \in Nat /\ B \in Nat
  BY Typed DEF TarTypes
<1>2. ~(HeaderAt > len)
  BY <1>1 DEF Short
<1> QED BY <1>2 DEF Place, InPlace, CutOff

LEMMA StartOnce ==
  ASSUME arch \in Archives, NEW i \in 1 .. Len(arch) + 1, NEW j \in 1 .. Len(arch) + 1,
         Start[i] = Start[j]
  PROVE  i = j
<1>1. ASSUME NEW a \in 1 .. Len(arch) + 1, NEW b \in 1 .. Len(arch) + 1, a < b
      PROVE  Start[a] < Start[b]
  <2>1. a \in 1 .. Len(arch)
    BY <1>1, ArchiveIs
  <2>2. Start[a] + Stride(a) <= Start[b] /\ Start[a] \in Nat /\ Start[b] \in Nat
    BY <1>1, StartGrows, StartStep
  <2>3. Stride(a) \in Nat /\ Stride(a) > 0
    BY <2>1, StrideIs, ArchiveIs, TarAssumption
  <2> QED BY <2>2, <2>3
<1>2. Start[i] \in Nat
  BY StartStep
<1>3. ~(i < j) /\ ~(j < i)
  BY <1>1, <1>2
<1> QED BY <1>3, ArchiveIs

LEMMA Adjacent ==
  ASSUME TarTypes, AtHeader, NEW i \in DOMAIN arch, HeaderAt = Start[i]
  PROVE  /\ i = cur + 1 /\ cur + 1 \in 1 .. Len(arch)
<1>1. /\ arch \in Archives /\ Len(arch) \in Nat /\ DOMAIN arch = 1 .. Len(arch)
      /\ cur \in 0 .. Len(arch)
  BY Typed DEF TarTypes
<1>2. i \in 1 .. Len(arch) + 1 /\ cur + 1 \in 1 .. Len(arch) + 1
  BY <1>1
<1>3. Start[i] = Start[cur + 1]
  BY DEF AtHeader
<1>4. i = cur + 1
  BY <1>1, <1>2, <1>3, StartOnce
<1> QED BY <1>1, <1>4

\* A member that is no regular file, or was refused, adds nothing to out.
LEMMA SeenSame ==
  ASSUME TarTypeOK, NEW n \in 1 .. Len(arch), n \notin Regular \ failed
  PROVE  Seen(n) = Seen(n - 1)
<1>1. \A i \in Regular : i \in 1 .. Len(arch)
  BY Typed DEF Regular
<1>2. Len(arch) \in Nat
  BY Typed
<1>3. \A i \in Regular \ failed : i <= n <=> i <= n - 1
  BY <1>1, <1>2
<1> QED BY <1>3 DEF Seen

\* Appending the next regular member keeps the order.
LEMMA ListsMore ==
  ASSUME TarTypeOK, Lists(Seen(cur - 1)), cur \in Regular \ failed,
         out' = Append(out, cur), arch' = arch, cur' = cur, failed' = failed
  PROVE  Lists(Seen(cur))'
<1>1. cur \in 1 .. Len(arch) /\ DOMAIN arch = 1 .. Len(arch) /\ Len(arch) \in Nat
  BY Typed DEF Regular
<1>2. out \in Seq(DOMAIN arch)
  BY DEF TarTypeOK
<1>3. /\ Len(out) \in Nat /\ DOMAIN out = 1 .. Len(out) /\ DOMAIN out' = 1 .. Len(out) + 1
      /\ \A n \in 1 .. Len(out) : out'[n] = out[n]
      /\ out'[Len(out) + 1] = cur
  BY <1>1, <1>2, Appended
<1>4. Regular' = Regular
  BY DEF Regular
<1>5. Seen(cur)' = Seen(cur - 1) \cup {cur}
  <2>1. \A i \in Regular : i \in 1 .. Len(arch)
    BY <1>1 DEF Regular
  <2>2. \A i \in Regular \ failed : i <= cur <=> (i <= cur - 1 \/ i = cur)
    BY <1>1, <2>1
  <2>3. cur <= cur
    BY <1>1
  <2> QED BY <1>4, <2>2, <2>3 DEF Seen
<1>6. {out[n] : n \in DOMAIN out} = Seen(cur - 1)
  BY DEF Lists
<1>7. \A n \in 1 .. Len(out) : out[n] \in Int /\ out[n] < cur
  <2> TAKE n \in 1 .. Len(out)
  <2>1. out[n] \in Seen(cur - 1)
    BY <1>3, <1>6
  <2>2. out[n] \in 1 .. Len(arch) /\ out[n] <= cur - 1
    BY <1>1, <2>1 DEF Seen, Regular
  <2> QED BY <1>1, <2>2
<1>8. {out'[n] : n \in DOMAIN out'} = Seen(cur)'
  <2>1. {out'[n] : n \in DOMAIN out'} = {out[n] : n \in DOMAIN out} \cup {cur}
    BY <1>3
  <2> QED BY <1>5, <1>6, <2>1
<1>9. \A m, n \in DOMAIN out' : m < n => out'[m] < out'[n]
  <2> SUFFICES ASSUME NEW m \in DOMAIN out', NEW n \in DOMAIN out', m < n
               PROVE  out'[m] < out'[n]
    OBVIOUS
  <2>1. m \in 1 .. Len(out)
    BY <1>3
  <2>2. CASE n \in 1 .. Len(out)
    <3>1. out[m] < out[n]
      BY <1>3, <2>1, <2>2 DEF Lists
    <3> QED BY <1>3, <2>1, <2>2, <3>1
  <2>3. CASE n = Len(out) + 1
    BY <1>3, <1>7, <2>1, <2>3
  <2> QED BY <1>3, <2>2, <2>3
<1> QED BY <1>8, <1>9 DEF Lists

LEMMA PlaceStep ==
  ASSUME TarIInv, [TarNext]_tarVars
  PROVE  Place'
<1> TarTypes /\ TarTypeOK /\ Place
  BY DEF TarIInv, TarTypes
<1>1. /\ arch' = arch /\ len' = len /\ kind' = kind /\ ignore' = ignore
      /\ Start' = Start /\ StreamLen' = StreamLen /\ (IsTar' <=> IsTar) /\ Regular' = Regular
      /\ Confusing => Confusing'
  BY Fixed, Astray DEF input
<1> SUFFICES ASSUME IsTar, ~Confusing'
             PROVE  InPlace' /\ (Strict => NothingLost')
  BY <1>1 DEF Place, Strict
<1>2. ~Confusing /\ InPlace /\ (Strict => NothingLost)
  BY <1>1 DEF Place
<1>3. /\ arch \in Archives /\ Len(arch) \in Nat /\ DOMAIN arch = 1 .. Len(arch)
      /\ cur \in 0 .. Len(arch) /\ B \in Nat /\ B > 0
      /\ pos \in Nat /\ remainingSize \in Nat /\ paddingSize \in Nat /\ len \in Nat
      /\ HeaderAt = pos + remainingSize + paddingSize
  BY Typed
<1>4. /\ Zeros \in Nat /\ StreamLen = Zeros + 2 * B
      /\ \A i \in 1 .. Len(arch) :
           /\ Start[i] \in Nat /\ Start[i] + B <= Zeros /\ arch[i].size \in Nat
           /\ arch[i].type = "ext" =>
                /\ Start[i] + B + arch[i].size <= Zeros
                /\ Start[i + 1] = Start[i] + B + arch[i].size + blockPadding(arch[i].size)
  <2>1. Zeros \in Nat /\ StreamLen = Zeros + 2 * B
    BY <1>3, ZerosIs DEF StreamLen
  <2>2. ASSUME NEW i \in 1 .. Len(arch)
        PROVE  /\ Start[i] \in Nat /\ Start[i] + B <= Zeros /\ arch[i].size \in Nat
               /\ arch[i].type = "ext" =>
                    /\ Start[i] + B + arch[i].size <= Zeros
                    /\ Start[i + 1] = Start[i] + B + arch[i].size + blockPadding(arch[i].size)
    <3> DEFINE b == Body(arch[i])
    <3>1. /\ Start[i] \in Nat /\ b \in Nat /\ Start[i] + B + b <= Zeros
          /\ Start[i + 1] = Start[i] + Stride(i)
          /\ Stride(i) = B + b + blockPadding(b)
      BY <1>3, ZerosIs, ArchiveIs, StartStep, StrideIs
    <3>2. arch[i].size \in Nat /\ (arch[i].type = "ext" => b = arch[i].size)
      BY <1>3, ArchiveIs
    <3>3. blockPadding(b) \in Nat
      BY <3>1, PaddingIs
    <3> HIDE DEF b
    <3>4. Start[i] + B <= Zeros /\ Start[i + 1] = Start[i] + B + b + blockPadding(b)
      BY <1>3, <2>1, <3>1, <3>3
    <3> QED BY <3>1, <3>2, <3>4
  <2> QED BY <2>1, <2>2
<1>5. ec \in Codes /\ kind \in {"file", "gz", "xz"}
  BY DEF TarTypeOK, Codes
<1>6. \A e \in AtEnd(ec) : e \in Codes /\ e # "nottar" /\ (kind = "xz" => e = "extract")
  <2>1. AtEnd(ec) \subseteq Codes
    BY <1>5, AtEndIs
  <2> QED BY <1>2, <1>5, <2>1 DEF AtEnd, FileAtEnd, GzAtEnd, BzAtEnd, XzAtEnd, InPlace
<1>7. CASE NextShort
  <2>1. stage = "next" /\ Short /\ UNCHANGED <<cur, out, failed>>
    BY <1>7 DEF NextShort
  <2>2. ec' \in AtEnd(ec) /\ stage' = "done" /\ (result' = "ok" => ec' \in {"", "ended"})
    <3>1. PICK e \in AtEnd(ec) : Finish(e)
      BY <1>7 DEF NextShort
    <3> QED BY <1>6, <3>1, FinishIs
  <2>3. Seen(cur)' = Seen(cur) /\ Seen(cur - 1)' = Seen(cur - 1)
    BY <1>1, <2>1 DEF Seen
  <2>4. InPlace'
    BY <1>2, <1>6, <2>1, <2>2, <2>3 DEF InPlace, Running, AtHeader, CutOff, Lists
  <2>5. ASSUME Strict PROVE result' # "ok"
    <3>1. CASE kind = "xz"
      BY <1>6, <2>2, <3>1
    <3>2. CASE len = StreamLen
      <4>1. HeaderAt = Start[cur + 1]
        BY <1>2, <2>1, <3>2 DEF InPlace, AtHeader, CutOff
      <4>2. Start[cur + 1] \in Nat /\ Start[cur + 1] <= Zeros
        <5>1. CASE cur = Len(arch)
          BY <1>3, <1>4, <5>1 DEF Zeros
        <5>2. CASE cur # Len(arch)
          <6>1. cur + 1 \in 1 .. Len(arch)
            <7>1. cur \in 0 .. Len(arch) /\ Len(arch) \in Nat
              BY <1>3
            <7> QED BY <5>2, <7>1
          <6> QED BY <1>3, <1>4, <6>1
        <5> QED BY <5>1, <5>2
      <4> QED BY <1>3, <1>4, <2>1, <3>2, <4>1, <4>2 DEF Short
    <3> QED BY <2>5, <3>1, <3>2 DEF Strict
  <2> QED BY <2>2, <2>4, <2>5 DEF NothingLost, Running
<1>8. CASE NextEnded
  <2>1. /\ stage = "next" /\ ~Short /\ HeaderAt >= Zeros /\ Finish("ended")
        /\ UNCHANGED <<cur, out, failed>>
    BY <1>8 DEF NextEnded
  <2>2. ec' = "ended" /\ stage' = "done"
    BY <2>1, FinishIs DEF Codes
  <2>3. Seen(cur)' = Seen(cur)
    BY <1>1, <2>1 DEF Seen
  <2>4. AtHeader
    BY <1>2, <2>1, HeaderHere
  <2>5. Lists(Seen(cur))'
    BY <2>1, <2>3, <2>4 DEF AtHeader, Lists
  <2>6. cur = Len(arch)
    <3> SUFFICES ASSUME cur # Len(arch) PROVE FALSE
      OBVIOUS
    <3>1. cur + 1 \in 1 .. Len(arch)
      <4>1. cur \in 0 .. Len(arch) /\ Len(arch) \in Nat
        BY <1>3
      <4> QED BY <4>1
    <3>2. Start[cur + 1] + B <= Zeros /\ Start[cur + 1] \in Nat
      <4> DEFINE j == cur + 1
      <4>1. /\ Start[j] \in Nat /\ Start[j] + B <= Zeros
            /\ B \in Nat /\ Zeros \in Nat
        BY <1>3, <1>4, <3>1
      <4> HIDE DEF j
      <4>2. Start[j] + B <= Zeros /\ Start[j] \in Nat
        BY <4>1
      <4> QED BY <4>2 DEF j
    <3>3. B \in Nat /\ B > 0 /\ Zeros \in Nat
      BY <1>3, <1>4
    <3>4. Start[cur + 1] >= Zeros
      BY <2>1, <2>4 DEF AtHeader
    <3> QED BY <3>2, <3>3, <3>4
  <2>7. Strict => failed = {}
    BY <1>2, <2>1 DEF NothingLost, Running
  <2> QED BY <1>1, <2>1, <2>2, <2>5, <2>6, <2>7 DEF InPlace, NothingLost, Running
<1>9. CASE NextNotTar
  <2>1. /\ stage = "next" /\ ~Short /\ HeaderAt < Zeros
        /\ \A i \in DOMAIN arch : HeaderAt # Start[i]
    BY <1>9 DEF NextNotTar
  <2>2. HeaderAt = Start[cur + 1]
    BY <1>2, <2>1, HeaderHere DEF AtHeader
  <2>3. cur # Len(arch)
    BY <1>4, <2>1, <2>2 DEF Zeros
  <2>4. cur + 1 \in DOMAIN arch
    <3>1. cur \in 0 .. Len(arch) /\ Len(arch) \in Nat
      BY <1>3
    <3>2. cur + 1 \in 1 .. Len(arch)
      BY <2>3, <3>1
    <3> QED BY <1>3, <3>2
  <2> QED BY <2>1, <2>2, <2>4
<1>10. ASSUME NEW i \in DOMAIN arch, NextExtension(i) \/ NextEntry(i)
       PROVE  InPlace' /\ (Strict => NothingLost')
  <2>1. stage = "next" /\ ~Short /\ HeaderAt = Start[i] /\ cur' = i /\ UNCHANGED <<out, failed>>
    BY <1>10 DEF NextExtension, NextEntry
  <2>2. AtHeader
    BY <1>2, <2>1, HeaderHere
  <2>3. i = cur + 1 /\ i \in 1 .. Len(arch)
    BY <2>1, <2>2, Adjacent
  <2>4. i - 1 = cur /\ cur' - 1 = cur
    BY <1>3, <2>1, <2>3
  <2>5. Seen(cur - 1)' = Seen(cur)
    BY <1>1, <2>1, <2>4 DEF Seen
  <2>6. Lists(Seen(cur - 1))'
    BY <2>1, <2>2, <2>5 DEF AtHeader, Lists
  <2>7. Strict => failed = {} /\ result = "none"
    BY <1>2, <2>1 DEF NothingLost, Running
  <2>8. CASE NextEntry(i)
    <3>1. stage' = "entry" /\ UNCHANGED <<ec, result>>
      BY <2>8 DEF NextEntry
    <3> QED BY <1>2, <2>1, <2>6, <2>7, <3>1 DEF InPlace, NothingLost, Running
  <2>9. CASE NextExtension(i)
    <3>1. /\ arch[i].type = "ext" /\ paddingSize' = blockPadding(arch[i].size)
          /\ remainingSize' = remainingSize
      BY <2>9 DEF NextExtension
    <3>2. remainingSize = 0
      <4> SUFFICES ASSUME remainingSize > 0 PROVE FALSE
        BY <1>3
      <4>1. Left
        BY <2>2 DEF AtHeader
      <4>2. cur \in 1 .. Len(arch) - 1
        <5>1. cur > 0 /\ cur \in 0 .. Len(arch) /\ Len(arch) \in Nat
          BY <1>3, <4>1 DEF Left
        <5> QED BY <2>3, <5>1
      <4> QED BY <1>2, <2>3, <3>1, <4>1, <4>2 DEF Left, Confusing
    <3>3. Seen(cur)' = Seen(cur)
      <4>1. i \notin Regular
        BY <3>1 DEF Regular
      <4>2. Seen(i) = Seen(i - 1)
        BY <2>3, <4>1, SeenSame
      <4> QED BY <1>1, <2>1, <2>4, <4>2 DEF Seen
    <3>4. Lists(Seen(cur))'
      BY <2>1, <2>2, <3>3 DEF AtHeader, Lists
    <3>5. CASE HeaderAt + B + arch[i].size > len
      <4>1. PICK e \in AtEnd(ec) : Finish(e)
        BY <2>9, <3>5 DEF NextExtension
      <4>2. ec' \in AtEnd(ec) /\ stage' = "done" /\ (result' = "ok" => ec' \in {"", "ended"})
        BY <1>6, <4>1, FinishIs
      <4>3. len # StreamLen
        BY <1>3, <1>4, <2>1, <2>3, <3>1, <3>5
      <4>4. Strict => result' # "ok"
        BY <1>6, <4>2, <4>3 DEF Strict
      <4> QED BY <1>6, <3>4, <4>2, <4>4 DEF InPlace, NothingLost, Running
    <3>6. CASE ~(HeaderAt + B + arch[i].size > len)
      <4>1. pos' = Start[i] + B + arch[i].size /\ UNCHANGED <<ec, stage, result>>
        BY <2>1, <2>9, <3>6 DEF NextExtension
      <4>2. HeaderAt' = Start'[cur' + 1]
        <5> DEFINE a == Start[i]
                   z == arch[i].size
                   p == blockPadding(arch[i].size)
        <5>1. a \in Nat /\ z \in Nat /\ p \in Nat /\ B \in Nat /\ Start[i + 1] = a + B + z + p
          <6>1. p \in Nat
            BY <1>4, <2>3, PaddingIs
          <6> QED BY <1>3, <1>4, <2>3, <3>1, <6>1
        <5>2. HeaderAt' = (a + B + z) + 0 + p
          BY <3>1, <3>2, <4>1 DEF HeaderAt
        <5> HIDE DEF a, z, p
        <5>3. HeaderAt' = Start[i + 1]
          BY <5>1, <5>2
        <5> QED BY <1>1, <2>1, <5>3
      <4>3. AtHeader'
        BY <3>1, <3>2, <3>4, <4>2 DEF AtHeader
      <4> QED BY <1>2, <2>1, <2>7, <4>1, <4>3 DEF InPlace, NothingLost, Running
    <3> QED BY <3>5, <3>6
  <2> QED BY <1>10, <2>8, <2>9
<1>11. CASE EntryStep
  <2>1. /\ stage = "entry" /\ cur' = cur
        /\ HeaderAt' = HeaderAt /\ pos' \in Nat /\ remainingSize' \in Nat
    BY <1>11, EntryMoves
  <2>2. /\ cur \in 1 .. Len(arch) /\ cur \notin failed
        /\ arch[cur].type \in {"reg", "dir", "other"}
    BY <2>1, AtEntry
  <2>3. /\ Size \in Nat /\ remainingSize = Size /\ pos \in Nat /\ len \in Nat
        /\ pos + Size <= Zeros /\ paddingSize \in Nat
        /\ HeaderAt = pos + remainingSize + paddingSize /\ HeaderAt = Start[cur + 1]
        /\ arch[cur].type = "dir" => Size = 0
    <3>1. Size \in Nat
      BY <2>1, AtEntry
    <3>2. cur \in 1 .. cur
      BY <2>2
    <3>3. arch[cur].type = "dir" => Size = 0
      <4>1. arch[cur].type = "dir" => ~(Size > 0)
        BY <1>2, <3>2 DEF Confusing, Size
      <4> QED BY <3>1, <4>1
    <3> QED BY <2>1, <3>3, AtEntry
  <2>4. HeaderAt' = Start'[cur' + 1]
    BY <1>1, <2>1, <2>3
  <2>5. Lists(Seen(cur - 1))
    BY <1>2, <2>1 DEF InPlace
  <2>6. Strict => failed = {} /\ result = "none"
    BY <1>2, <2>1 DEF NothingLost, Running
  <2>7. CASE EntrySkipped
    <3>1. /\ arch[cur].type # "reg" /\ stage' = "next"
          /\ UNCHANGED <<remainingSize, ec, out, failed, result>>
      BY <2>7 DEF EntrySkipped
    <3>2. Seen(cur)' = Seen(cur - 1)
      <4>1. cur \notin Regular
        BY <3>1 DEF Regular
      <4>2. Seen(cur) = Seen(cur - 1)
        BY <2>2, <4>1, SeenSame
      <4> QED BY <1>1, <2>1, <3>1, <4>2 DEF Seen
    <3>3. Lists(Seen(cur))'
      BY <2>5, <3>1, <3>2 DEF Lists
    <3>4. remainingSize' > 0 => Left'
      <4>1. arch[cur].type = "dir" => arch[cur].size = 0
        BY <2>3 DEF Size
      <4>2. cur > 0 /\ remainingSize' = arch[cur].size
        BY <2>2, <2>3, <3>1 DEF Size
      <4> QED BY <1>1, <2>1, <2>2, <3>1, <4>1, <4>2 DEF Left
    <3> QED BY <1>2, <2>4, <2>6, <3>1, <3>3, <3>4 DEF AtHeader, InPlace, NothingLost, Running
  <2>8. CASE EntryWritten
    <3>1. /\ arch[cur].type = "reg" /\ stage' = "next" /\ ec' = "" /\ remainingSize' = 0
          /\ UNCHANGED <<failed, result>>
      BY <2>8 DEF EntryWritten
    <3>2. out' = Append(out, cur)
      BY <2>8 DEF EntryWritten
    <3>3. cur \in Regular \ failed
      BY <1>3, <2>2, <3>1 DEF Regular
    <3>4. Lists(Seen(cur))'
      BY <1>1, <2>1, <2>5, <3>1, <3>2, <3>3, ListsMore
    <3>5. AtHeader'
      <4>1. ~(remainingSize' > 0)
        <5>1. remainingSize' = 0
          BY <3>1
        <5> QED BY <5>1
      <4> QED BY <2>4, <3>4, <4>1 DEF AtHeader
    <3> QED BY <2>6, <3>1, <3>5 DEF InPlace, NothingLost, Running
  <2>9. CASE EntryCut
    <3>1. pos + Size > len /\ UNCHANGED <<out, failed>>
      BY <2>9 DEF EntryCut, Size
    <3>2. Seen(cur - 1)' = Seen(cur - 1)
      BY <1>1, <2>1, <3>1 DEF Seen
    <3>3. Lists(Seen(cur - 1))'
      BY <2>5, <3>1, <3>2 DEF Lists
    <3>4. len # StreamLen /\ HeaderAt > len
      <4>1. Zeros \in Nat /\ StreamLen = Zeros + 2 * B /\ B \in Nat
        BY <1>3, <1>4
      <4> QED BY <2>3, <3>1, <4>1
    <3>5. HeaderAt' > len'
      BY <1>1, <2>1, <2>3, <3>4
    <3>6. CASE kind = "file"
      <4>1. stage' = "spin" /\ ec' = "" /\ result' = result
        BY <2>9, <3>6 DEF EntryCut
      <4> QED BY <2>6, <3>1, <3>3, <4>1 DEF InPlace, NothingLost, Running
    <3>7. CASE kind # "file"
      <4>1. PICK e \in AtEnd("") : EntryFailed(e)
        BY <2>9, <3>7 DEF EntryCut
      <4>2. e \in Codes /\ e # "nottar" /\ (kind = "xz" => e = "extract")
        BY <1>5, <3>7 DEF AtEnd, GzAtEnd, BzAtEnd, XzAtEnd, Codes
      <4>3. ec' = e /\ stage' \in {"next", "done"}
        BY <4>1, <4>2, EntryFailedIs DEF TarTypeOK
      <4>4. InPlace'
        BY <1>1, <3>3, <3>4, <3>5, <3>7, <4>2, <4>3 DEF InPlace, Running, CutOff
      <4>5. ASSUME Strict PROVE stage' = "done" /\ result' # "ok"
        <5>1. e = "extract"
          BY <3>4, <4>2, <4>5 DEF Strict
        <5>2. Finish("extract")
          BY <4>1, <5>1 DEF EntryFailed
        <5> QED BY <5>2, FinishIs DEF Codes
      <4> QED BY <4>4, <4>5 DEF NothingLost, Running
    <3> QED BY <3>6, <3>7
  <2>10. ASSUME NEW k \in {0, 1}, EntryRefused(k)
         PROVE  InPlace' /\ (Strict => NothingLost')
    <3>1. /\ remainingSize' = remainingSize - k
          /\ failed' = failed \cup {cur} /\ out' = out
          /\ EntryFailed("general")
      BY <2>10 DEF EntryRefused
    <3>2. Seen(cur)' = Seen(cur - 1)
      <4>1. \A i \in Regular : i \in 1 .. Len(arch)
        BY <1>3 DEF Regular
      <4>2. ASSUME NEW i \in Regular
            PROVE  (i \notin failed' /\ i <= cur) <=> (i \notin failed /\ i <= cur - 1)
        <5>1. i \in Int /\ cur \in Int
          BY <2>2, <4>1
        <5>2. i \in failed' <=> (i \in failed \/ i = cur)
          BY <3>1
        <5> QED BY <5>1, <5>2
      <4> QED BY <1>1, <2>1, <3>1, <4>2 DEF Seen
    <3>3. Lists(Seen(cur))'
      BY <2>5, <3>1, <3>2 DEF Lists
    <3>4. remainingSize' > 0 => Left'
      <4>1. remainingSize' = Size - k /\ k \in Nat
        BY <2>3, <3>1
      <4>2. remainingSize' > 0 => Size > 0
        BY <2>3, <4>1
      <4>3. cur > 0 /\ cur \in failed' /\ cur' = cur
        BY <2>1, <2>2, <3>1
      <4> QED BY <1>1, <4>2, <4>3 DEF Left, Size
    <3>5. ec' = "general" /\ stage' \in {"next", "done"} /\ (stage' = "next" => ignore)
          /\ (stage' = "done" => result' # "ok")
      BY <3>1, EntryFailedIs DEF Codes, TarTypeOK
    <3>6. InPlace'
      BY <2>4, <3>3, <3>4, <3>5 DEF InPlace, AtHeader, Running
    <3>7. Strict => NothingLost'
      BY <3>5 DEF Strict, NothingLost, Running
    <3> QED BY <3>6, <3>7
  <2> QED BY <1>11, <2>7, <2>8, <2>9, <2>10 DEF EntryStep
<1>12. CASE UNCHANGED tarVars
  <2>1. UNCHANGED <<arch, len, pos, remainingSize, paddingSize, cur, ec, out, failed, stage, result>>
    BY <1>12 DEF tarVars
  <2>2. Seen(cur)' = Seen(cur) /\ Seen(cur - 1)' = Seen(cur - 1) /\ HeaderAt' = HeaderAt
    BY <1>1, <2>1 DEF Seen, HeaderAt
  <2> QED BY <1>1, <1>2, <2>1, <2>2 DEF InPlace, NothingLost, Running, AtHeader, CutOff, Left, Lists
<1> QED BY <1>7, <1>8, <1>9, <1>10, <1>11, <1>12 DEF TarNext, EntryStep

LEMMA TarInitOK == TarInit => TarIInv
<1> SUFFICES ASSUME TarInit PROVE TarIInv
  OBVIOUS
<1>1. /\ pos = 0 /\ remainingSize = 0 /\ paddingSize = 0 /\ index = 0 /\ cur = 0
      /\ failed = {} /\ stage = "next" /\ result = "none"
  BY DEF TarInit
<1>2. out = <<>>
  BY DEF TarInit
<1>3. arch \in Archives
  BY DEF TarInit
<1>4. /\ len \in 0 .. StreamLen /\ kind \in {"file", "gz", "xz"} /\ ignore \in BOOLEAN
      /\ ec \in {"nofilter", ""}
  BY DEF TarInit
<1>10. Len(arch) \in Nat /\ Start[1] = 0
  BY <1>3, ArchiveIs, StartStep
<1>11. B \in Nat /\ B > 0
  BY TarAssumption
<1>12. DOMAIN out = {} /\ out \in Seq(DOMAIN arch)
  BY <1>2
<1>13. TarTypeOK
  <2>1. /\ pos \in Nat /\ remainingSize \in Nat /\ paddingSize \in 0 .. B - 1
        /\ index \in 0 .. Len(arch) /\ cur \in 0 .. Len(arch)
    BY <1>1, <1>10, <1>11
  <2>2. /\ failed \subseteq DOMAIN arch /\ stage = "next" /\ result = "none"
    BY <1>1
  <2> QED BY <1>3, <1>4, <1>12, <2>1, <2>2 DEF TarTypeOK
<1>5. Bounds
  BY <1>1 DEF Bounds
<1>6. Seen(0) = {}
  <2>1. \A i \in Regular : i \in 1 .. Len(arch)
    BY <1>3, ArchiveIs DEF Regular
  <2>2. \A i \in Regular : ~(i <= 0)
    BY <1>10, <2>1
  <2> QED BY <2>2 DEF Seen
<1>7. Lists(Seen(cur))
  BY <1>1, <1>6, <1>12 DEF Lists
<1>8. AtHeader
  BY <1>1, <1>7, <1>10 DEF AtHeader, HeaderAt
<1>9. Place
  BY <1>1, <1>4, <1>8 DEF Place, InPlace, NothingLost, Running
<1> QED BY <1>5, <1>9, <1>13 DEF TarIInv, TarTypes

LEMMA TarStepOK == TarIInv /\ [TarNext]_tarVars => TarIInv'
BY TarTypesStep, PlaceStep DEF TarIInv

LEMMA TarInvariant == TarSpec => []TarIInv
BY TarInitOK, TarStepOK, PTL DEF TarSpec

\* Reader keeps its counters in range on any stream: WriteTo and Discard never
\* take more than the entry holds, and index counts every entry once.
THEOREM TarAlwaysTyped == TarSpec => []TarTypeOK
<1>1. TarIInv => TarTypeOK
  BY DEF TarIInv, TarTypes
<1> QED BY <1>1, TarInvariant, PTL

\* Reader::Next finds every header where the last entry ended, on streams of
\* any number of members of any size, cut anywhere.
THEOREM AlwaysKeepsItsPlace == TarSpec => []KeepsItsPlace
<1>1. TarIInv => KeepsItsPlace
  <2> SUFFICES ASSUME TarIInv, IsTar, ~Confusing
               PROVE  /\ ec # "nottar"
                      /\ Lists(Seen(cur)) \/ Lists(Seen(cur - 1))
                      /\ stage = "next" /\ len = StreamLen => Lists(Seen(cur))
    BY DEF KeepsItsPlace
  <2>1. InPlace
    BY DEF TarIInv, Place
  <2>2. stage \in {"next", "entry"} \/ ~Running
    BY DEF Running
  <2> QED BY <2>1, <2>2 DEF InPlace, AtHeader, CutOff
<1> QED BY <1>1, TarInvariant, PTL

\* Extract returns true on a complete stream, or behind the reader that reports
\* a missing end, only with every regular member on disk.
THEOREM SuccessAlwaysMeansAll == TarSpec => []SuccessMeansAll
<1>1. TarIInv => SuccessMeansAll
  <2> SUFFICES ASSUME TarIInv, result = "ok", IsTar, len = StreamLen \/ kind = "xz",
                      ~ignore, ~Confusing
               PROVE  Regular \subseteq {out[n] : n \in DOMAIN out}
    BY DEF SuccessMeansAll
  <2>1. failed = {} /\ cur = Len(arch) /\ Lists(Seen(cur))
    BY DEF TarIInv, Place, Strict, NothingLost
  <2>2. \A i \in Regular : i \in 1 .. Len(arch) /\ Len(arch) \in Nat
    BY Typed DEF TarIInv, TarTypes, Regular
  <2>3. \A i \in Regular : i <= cur
    BY <2>1, <2>2
  <2>4. Seen(cur) = Regular
    BY <2>1, <2>3 DEF Seen
  <2> QED BY <2>1, <2>4 DEF Lists
<1> QED BY <1>1, TarInvariant, PTL
-----------------------------------------------------------------------------
(***************************************************************************)
(* Towards termination: how many steps are left, and where the reader may  *)
(* wait for ever.                                                          *)
(***************************************************************************)
(* What is left to do: the members the reader has not come to, and the call *)
(* that is under way.                                                       *)
Call == IF stage = "entry" THEN 2 ELSE IF stage = "next" THEN 1 ELSE 0
Work == 3 * (Len(arch) - cur) + Call

LEMMA WorkIs ==
  ASSUME TarTypes
  PROVE  /\ Len(arch) \in Nat /\ cur \in 0 .. Len(arch) /\ Work \in Nat
         /\ stage \in {"next", "entry", "spin", "done"}
<1>1. Len(arch) \in Nat /\ cur \in 0 .. Len(arch)
  BY Typed DEF TarTypes
<1>2. stage \in {"next", "entry", "spin", "done"}
  BY DEF TarTypes, TarTypeOK
<1>3. Call \in Nat
  BY DEF Call
<1> QED BY <1>1, <1>2, <1>3 DEF Work

\* Either the reader comes to a later member, or a call returns.
LEMMA WorkStep ==
  ASSUME TarTypes, TarNext
  PROVE  \/ cur' \in Int /\ cur < cur'
         \/ cur' = cur /\ stage = "next" /\ stage' = "done"
         \/ cur' = cur /\ stage = "entry" /\ stage' # "entry"
<1>1. CASE NextShort \/ NextEnded \/ NextNotTar
  BY <1>1 DEF NextShort, NextEnded, NextNotTar, Finish
<1>2. ASSUME NEW i \in DOMAIN arch, NextExtension(i) \/ NextEntry(i)
      PROVE  cur' \in Int /\ cur < cur'
  <2>1. stage = "next" /\ HeaderAt = Start[i] /\ cur' = i
    BY <1>2 DEF NextExtension, NextEntry
  <2>2. i \in 1 .. Len(arch) /\ cur < i
    BY <2>1, Forward
  <2> QED BY <2>1, <2>2, WorkIs
<1>3. CASE EntryStep
  <2>1. stage = "entry" /\ cur' = cur
    BY <1>3, EntryMoves
  <2>2. stage' # "entry"
    BY <1>3 DEF EntryStep, EntrySkipped, EntryWritten, EntryCut, EntryRefused, EntryFailed, Finish
  <2> QED BY <2>1, <2>2
<1> QED BY <1>1, <1>2, <1>3 DEF TarNext, EntryStep

\* Extraction of any stream takes finitely many steps: each call of
\* Reader::Next comes to a later member or is the last, and each call of
\* extract_entry leaves less to do.  That a step is possible as long as the
\* loop of Extractor::Extract runs is the part of Terminates left to TLC.
THEOREM LessToDo == TarSpec => [][Work' \in Nat /\ Work' < Work]_tarVars
<1>1. TarIInv /\ TarIInv' /\ [TarNext]_tarVars => [Work' \in Nat /\ Work' < Work]_tarVars
  <2> SUFFICES ASSUME TarTypes, TarTypes', TarNext PROVE Work' \in Nat /\ Work' < Work
    BY DEF TarIInv
  <2>1. Len(arch') = Len(arch) /\ Len(arch) \in Nat /\ cur \in 0 .. Len(arch)
    BY Fixed, WorkIs DEF input
  <2>2. /\ stage' \in {"next", "entry", "spin", "done"} /\ cur' \in 0 .. Len(arch)
        /\ stage \in {"next", "entry"}
    <3>1. TarTypeOK' /\ arch' = arch
      BY Fixed DEF TarTypes, input
    <3>2. stage \in {"next", "entry"}
      BY DEF TarNext, NextShort, NextEnded, NextNotTar, NextExtension, NextEntry,
             EntrySkipped, EntryWritten, EntryCut, EntryRefused
    <3> QED BY <3>1, <3>2 DEF TarTypeOK
  <2>3. CASE cur < cur'
    <3>1. Call \in {1, 2} /\ Call' \in {0, 1, 2}
      BY <2>2 DEF Call
    <3>2. Work = 3 * (Len(arch) - cur) + Call /\ Work' = 3 * (Len(arch) - cur') + Call'
      BY <2>1 DEF Work
    <3>3. ASSUME NEW n \in Nat, NEW a \in 0 .. n, NEW b \in 0 .. n, a < b,
                 NEW c \in {1, 2}, NEW d \in {0, 1, 2}
          PROVE  3 * (n - b) + d \in Nat /\ 3 * (n - b) + d < 3 * (n - a) + c
      BY <3>3
    <3> QED BY <2>1, <2>2, <2>3, <3>1, <3>2, <3>3
  <2>4. CASE cur' = cur /\ stage = "next" /\ stage' = "done"
    BY <2>1, <2>4 DEF Work, Call
  <2>5. CASE cur' = cur /\ stage = "entry" /\ stage' # "entry"
    BY <2>1, <2>2, <2>5 DEF Work, Call
  <2> QED BY <2>3, <2>4, <2>5, WorkStep
<1> QED BY <1>1, TarInvariant, PTL DEF TarSpec

\* FileReader::WriteTo asks for ever, but only for a file that lacks its end.
SpinsOnlyIfCut == stage = "spin" => kind = "file" /\ len < StreamLen

\* A complete stream of any members is extracted without waiting for ever, and
\* so is a cut one behind a decompressor, also where an earlier body was left
\* behind (the WriteTo of tar.cc, gzip.cc and xz.cc).
THEOREM NeverSpins == TarSpec => []SpinsOnlyIfCut
<1>1. TarIInv => TarTypes
  BY DEF TarIInv
<1>2. TarTypes /\ SpinsOnlyIfCut /\ [TarNext]_tarVars => SpinsOnlyIfCut'
  <2> SUFFICES ASSUME TarTypes, SpinsOnlyIfCut, [TarNext]_tarVars, stage' = "spin"
               PROVE  kind' = "file" /\ len' < StreamLen'
    BY DEF SpinsOnlyIfCut
  <2>1. kind' = kind /\ len' = len /\ StreamLen' = StreamLen
    BY Fixed DEF input
  <2>2. CASE stage = "spin"
    BY <2>1, <2>2 DEF SpinsOnlyIfCut
  <2>3. CASE stage # "spin"
    <3>1. EntryCut /\ kind = "file"
      BY <2>3 DEF TarNext, NextShort, NextEnded, NextNotTar, NextExtension, NextEntry,
                  EntrySkipped, EntryWritten, EntryCut, EntryRefused, EntryFailed, Finish, tarVars
    <3>2. stage = "entry" /\ arch[cur].type = "reg" /\ pos + Size > len
      BY <3>1 DEF EntryCut, Size
    <3>3. /\ IsTar /\ Size \in Nat /\ pos \in Nat /\ len \in Nat /\ pos + Size <= Zeros
      BY <3>2, AtEntry
    <3>4. Zeros \in Nat /\ B \in Nat /\ StreamLen = Zeros + 2 * B
      BY <3>3, Typed, ZerosIs DEF TarTypes, StreamLen
    <3>5. len < StreamLen
      BY <3>2, <3>3, <3>4
    <3> QED BY <2>1, <3>1, <3>5
  <2> QED BY <2>2, <2>3
<1>3. TarInit => SpinsOnlyIfCut
  BY DEF TarInit, SpinsOnlyIfCut
<1> QED BY <1>1, <1>2, <1>3, TarInvariant, PTL DEF TarSpec
=============================================================================
