------------------------------ MODULE TarStream ------------------------------
(***************************************************************************)
(* `baulk extract`, `baulk untar` and the Expand step of an install read a *)
(* tar stream through one of several readers: the file itself, or a        *)
(* decompressor stacked on it (lib/archive/tar, tar::Extractor).           *)
(* The stream is a sequence of members, each a header block, a body and    *)
(* the padding up to the next block, closed by two zero blocks.  It may be *)
(* cut anywhere: a download that stopped, a disk that filled up.  The      *)
(* content of a body is abstracted to its size, a block to B units.        *)
(*                                                                         *)
(* Kinds of readers, told apart by what they do where the input ends:      *)
(*   "file"  FileReader: Read returns 0, Discard seeks past the end        *)
(*   "gz"    gzip, bzip2 and zstd: decompress() returns false, no error    *)
(*   "xz"    lzma reports the missing input: ErrExtractGeneral             *)
(***************************************************************************)
EXTENDS Integers, Sequences, FiniteSets

CONSTANTS B,          \* blockSize, in units
          MaxMembers, \* length of the longest archive
          Sizes       \* sizes of the bodies

ASSUME TarAssumption == /\ B \in Nat \ {0}
                        /\ MaxMembers \in Nat
                        /\ Sizes \subseteq Nat

VARIABLES
  arch,          \* the archive: a sequence of members
  len,           \* the units of it that are there
  kind,          \* which reader MakeReader made
  ignore,        \* opts.ignore_error
  pos,           \* what has been consumed of the stream
  remainingSize, \* Reader::remainingSize
  paddingSize,   \* Reader::paddingSize
  index,         \* Reader::index
  cur,           \* the member whose header was read last, 0 before the first
  ec,            \* the error code
  out,           \* the members whose file is whole, in the order written
  failed,        \* the members extract_entry failed on, unless input ended
  stage,
  result         \* what UniversalExtractor::Extract returns

tarVars == <<arch, len, kind, ignore, pos, remainingSize, paddingSize, index, cur,
             ec, out, failed, stage, result>>
input == <<arch, len, kind, ignore>>

(* What a header may announce: a regular file, a directory or link (header *)
(* only), a type the extractor leaves alone but that has a body, or an     *)
(* extension header: PAX, global PAX, GNU long name.  Some writers give    *)
(* the size of what a link points at, so a header-only type has a size too. *)
Members == [type : {"reg", "dir", "other", "ext"}, size : Sizes]

(* A compressed file that holds no tar at all is one member without header. *)
Plain == [type : {"plain"}, size : Sizes]

Archives == {<<m>> : m \in Plain} \cup UNION {[1..n -> Members] : n \in 0..MaxMembers}

IsTar == \A i \in DOMAIN arch : arch[i].type # "plain"

\* Slip: a body that fills its last block is followed by a block of padding.
blockPaddingFull(n) == B - (n % B)
blockPadding(n) == (-n) % B

(* What follows the header of m in the stream: nothing, whatever its size   *)
(* says, when the type is header only.                                      *)
Body(m) == IF m.type = "dir" THEN 0 ELSE m.size

(* Where the header of member i is; for i = Len(arch) + 1 where the zero    *)
(* blocks are.                                                              *)
Start[i \in 1..Len(arch) + 1] ==
  IF i = 1 THEN 0
  ELSE Start[i - 1] + B + Body(arch[i - 1]) + ((-Body(arch[i - 1])) % B)
Zeros == Start[Len(arch) + 1]
StreamLen == IF IsTar THEN Zeros + 2 * B ELSE arch[1].size

TarInit ==
  /\ arch \in Archives
  /\ len \in 0..StreamLen
  /\ kind \in {"file", "gz", "xz"}
  /\ kind = "file" => IsTar   \* a plain file is not detected as an archive
  /\ ignore \in BOOLEAN
  /\ pos = 0 /\ remainingSize = 0 /\ paddingSize = 0 /\ index = 0 /\ cur = 0
  /\ ec = IF kind = "file" THEN "nofilter" ELSE ""   \* what MakeReader leaves
  /\ out = <<>> /\ failed = {}
  /\ stage = "next" /\ result = "none"

(* The error code once the reader has come to the end of its input, where e *)
(* was there before.  A read of 0 bytes is ErrEnded for ReadFull.           *)
FileAtEnd == {"ended"}

(* decompress() gets nothing and leaves ec alone.                           *)
GzAtEnd(e) == {e}

(* The same where the bzip2 file is cut; a complete one says ErrEnded.      *)
BzAtEnd(e) == {e, "ended"}

(* lzma_code is told LZMA_FINISH and does not find the end of its stream.   *)
XzAtEnd == {"extract"}

AtEnd(e) == CASE kind = "file" -> FileAtEnd
              [] kind = "gz" -> GzAtEnd(e) \cup BzAtEnd(e)
              [] kind = "xz" -> XzAtEnd

(* Extractor::Extract after its loop, and UniversalExtractor::Extract:      *)
(* single_file_extract writes whatever the reader delivers, and reports     *)
(* success whether it stopped at the end or at an error.  Without a filter  *)
(* there is nothing to try.                                                 *)
Finish(e) ==
  /\ ec' = e
  /\ stage' = "done"
  /\ IF index = 0 /\ e = "nottar"
     THEN result' \in {"failed"} \cup (IF kind = "file" THEN {} ELSE {"single"})
     ELSE result' = IF e \in {"", "ended"} THEN "ok" ELSE "failed"

(* The units up to which Reader::Next discards before it reads a header.    *)
HeaderAt == pos + remainingSize + paddingSize

(* Next gives up: the discarded bytes, the header or the second zero block  *)
(* are not all there.                                                       *)
Short ==
  \/ HeaderAt > len /\ kind # "file"
  \/ HeaderAt + B > len
  \/ HeaderAt >= Zeros /\ IsTar /\ HeaderAt + 2 * B > len

NextShort ==
  /\ stage = "next"
  /\ Short
  /\ \E e \in AtEnd(ec) : Finish(e)
  /\ UNCHANGED <<input, pos, remainingSize, paddingSize, index, cur, out, failed>>

(* Two zero blocks: the regular end of a tar stream.                        *)
NextEnded ==
  /\ stage = "next"
  /\ ~Short /\ IsTar /\ HeaderAt >= Zeros
  /\ Finish("ended")
  /\ UNCHANGED <<input, pos, remainingSize, paddingSize, index, cur, out, failed>>

(* A block that is no header: the stream is not a tar, or the reader has    *)
(* lost its place in it.  A body may hold zero blocks, and two of them end  *)
(* the stream, if the second can be read.                                   *)
NextNotTar ==
  /\ stage = "next"
  /\ ~Short
  /\ IsTar => HeaderAt < Zeros /\ \A i \in DOMAIN arch : HeaderAt # Start[i]
  /\ \E e \in {"nottar"} \cup (IF HeaderAt + 2 * B > len THEN AtEnd(ec) ELSE {"ended"}) :
       Finish(e)
  /\ UNCHANGED <<input, pos, remainingSize, paddingSize, index, cur, out, failed>>

(* A PAX header or a GNU long name: its body is read and the loop goes on.  *)
(* A global PAX header is returned as an entry nobody extracts, which comes *)
(* to the same.  remainingSize keeps what the previous entry left in it.    *)
NextExtension(i) ==
  /\ stage = "next"
  /\ ~Short /\ IsTar /\ HeaderAt = Start[i]
  /\ arch[i].type = "ext"
  /\ cur' = i
  /\ paddingSize' = blockPadding(arch[i].size)
  /\ IF HeaderAt + B + arch[i].size > len
     THEN (\E e \in AtEnd(ec) : Finish(e)) /\ pos' = len
     ELSE pos' = HeaderAt + B + arch[i].size /\ UNCHANGED <<ec, stage, result>>
  /\ UNCHANGED <<input, remainingSize, index, out, failed>>

(* Any other header is an entry for extract_entry.  The padding is that of  *)
(* the body, remainingSize is what the header says, body or not.            *)
NextEntry(i) ==
  /\ stage = "next"
  /\ ~Short /\ IsTar /\ HeaderAt = Start[i]
  /\ arch[i].type \in {"reg", "dir", "other"}
  /\ cur' = i
  /\ pos' = HeaderAt + B
  /\ paddingSize' = blockPadding(Body(arch[i]))
  /\ remainingSize' = arch[i].size
  /\ index' = index + 1
  /\ stage' = "entry"
  /\ UNCHANGED <<input, ec, out, failed, result>>

(* The loop of Extractor::Extract when extract_entry has failed with e.     *)
(* ErrCanceled, which also ends it, comes from a filter or a progress       *)
(* callback that returns false: the ones baulk passes never do.             *)
\* Slip: the loop goes on after a failed entry, whatever the options say.
EntryFailedIgnored(e) ==
  ec' = e /\ stage' = "next" /\ UNCHANGED result
EntryFailed(e) ==
  IF e \in {"nottar", "extract"} \/ ~ignore
  THEN Finish(e)
  ELSE ec' = e /\ stage' = "next" /\ UNCHANGED result

(* extract_entry of a directory, of a link or of a type it leaves alone,    *)
(* whose body stays in the stream.                                          *)
EntrySkipped ==
  /\ stage = "entry"
  /\ arch[cur].type # "reg"
  /\ stage' = "next"
  /\ UNCHANGED <<input, pos, remainingSize, paddingSize, index, cur, ec, out, failed, result>>

(* The entry cannot be made: its name leaves the destination, the file or   *)
(* the link cannot be created, or the disk refuses the data after k units   *)
(* of it.  What has been read is counted before it is written.              *)
EntryRefused(k) ==
  /\ stage = "entry"
  /\ k > 0 => arch[cur].type = "reg" /\ k <= arch[cur].size /\ pos + k <= len
  /\ pos' = pos + k
  /\ remainingSize' = remainingSize - k
  /\ failed' = failed \cup {cur}
  /\ EntryFailed("general")
  /\ UNCHANGED <<input, paddingSize, index, cur, out>>

(* Reader::WriteTo has the whole body.                                      *)
\* Slip: remainingSize is not reduced by what has been written.
EntryWrittenTwice ==
  /\ stage = "entry"
  /\ arch[cur].type = "reg"
  /\ pos + arch[cur].size <= len
  /\ pos' = pos + arch[cur].size
  /\ out' = Append(out, cur)
  /\ ec' = ""
  /\ stage' = "next"
  /\ UNCHANGED <<input, remainingSize, paddingSize, index, cur, failed, result>>
EntryWritten ==
  /\ stage = "entry"
  /\ arch[cur].type = "reg"
  /\ pos + arch[cur].size <= len
  /\ pos' = pos + arch[cur].size
  /\ remainingSize' = 0
  /\ out' = Append(out, cur)
  /\ ec' = ""
  /\ stage' = "next"
  /\ UNCHANGED <<input, paddingSize, index, cur, failed, result>>

(* The input ends inside the body.  FileReader::WriteTo asks again for ever: *)
(* a read at the end of a file succeeds with 0 bytes.  The decompressors    *)
(* return false, and the file is discarded.                                 *)
\* Slip: every reader takes the end of its input for an empty read.
EntryCutSpins ==
  /\ stage = "entry"
  /\ arch[cur].type = "reg"
  /\ pos + arch[cur].size > len
  /\ pos' = len
  /\ remainingSize' = remainingSize - (len - pos)
  /\ stage' = "spin" /\ ec' = "" /\ UNCHANGED result
  /\ UNCHANGED <<input, paddingSize, index, cur, out, failed>>
EntryCut ==
  /\ stage = "entry"
  /\ arch[cur].type = "reg"
  /\ pos + arch[cur].size > len
  /\ pos' = len
  /\ remainingSize' = remainingSize - (len - pos)
  /\ IF kind = "file"
     THEN stage' = "spin" /\ ec' = "" /\ UNCHANGED result
     ELSE \E e \in AtEnd("") : EntryFailed(e)
  /\ UNCHANGED <<input, paddingSize, index, cur, out, failed>>

TarNext ==
  \/ NextShort \/ NextEnded \/ NextNotTar
  \/ \E i \in DOMAIN arch : NextExtension(i) \/ NextEntry(i)
  \/ EntrySkipped \/ EntryWritten \/ EntryCut
  \/ \E k \in {0, 1} : EntryRefused(k)

TarSpec == TarInit /\ [][TarNext]_tarVars /\ WF_tarVars(TarNext)

-----------------------------------------------------------------------------
TarTypeOK ==
  /\ arch \in Archives
  /\ len \in 0..StreamLen
  /\ kind \in {"file", "gz", "xz"} /\ ignore \in BOOLEAN
  /\ pos \in Nat /\ remainingSize \in Nat /\ paddingSize \in 0..B - 1
  /\ index \in 0..Len(arch) /\ cur \in 0..Len(arch)
  /\ ec \in {"", "nofilter", "ended", "nottar", "extract", "general"}
  /\ out \in Seq(DOMAIN arch) /\ failed \subseteq DOMAIN arch
  /\ stage \in {"next", "entry", "spin", "done"}
  /\ result \in {"none", "ok", "single", "failed"}

Regular == {i \in DOMAIN arch : arch[i].type = "reg"}

(* The regular members up to the n-th that were not refused.                *)
Seen(n) == {i \in Regular \ failed : i <= n}

(* out holds the members in S, each once, in the order of the archive.      *)
Lists(S) ==
  /\ \A m, n \in DOMAIN out : m < n => out[m] < out[n]
  /\ {out[n] : n \in DOMAIN out} = S

(* What makes the reader discard too much: a body left in the stream that   *)
(* is followed by an extension header is discarded once more before the     *)
(* header after that; the body a header-only member announces is discarded  *)
(* although it is not there.                                                *)
Confusing ==
  \/ \E i \in 1..Len(arch) - 1 :
       /\ arch[i].size > 0
       /\ arch[i].type = "other" \/ i \in failed
       /\ arch[i + 1].type = "ext"
  \/ \E i \in 1..cur : arch[i].type = "dir" /\ arch[i].size > 0

(* The reader never loses its place in a tar stream: as long as no skipped  *)
(* body comes right before an extension header, and until a directory or a  *)
(* link with a size is read, the files on disk are exactly the regular      *)
(* members seen so far, whole and in their order, minus the refused one     *)
(* (and the one cut off), and no block is mistaken for a header.  Also when *)
(* the stream is cut, and after an error was ignored.                       *)
\* tar.cc Reader::Next and WriteTo, extractor.hpp extract_entry.
KeepsItsPlace ==
  (IsTar /\ ~Confusing) =>
    /\ ec # "nottar"
    /\ Lists(Seen(cur)) \/ Lists(Seen(cur - 1))
    /\ stage = "next" /\ len = StreamLen => Lists(Seen(cur))

(* `true` means that every regular member is on disk, when the stream is    *)
(* complete or the reader is the one that reports a missing end, unless the *)
(* caller asked to ignore errors or the reader was led astray.              *)
\* extractor.hpp Extractor::Extract, xz.cc decompress.
SuccessMeansAll ==
  (result = "ok" /\ IsTar /\ (len = StreamLen \/ kind = "xz") /\ ~ignore /\ ~Confusing)
    => Regular \subseteq {out[n] : n \in DOMAIN out}

(* Extraction comes to an end on every stream, complete or cut, that goes   *)
(* through a decompressor, and on every complete tar file.                  *)
\* tar.cc FileReader::WriteTo and the WriteTo of the decompressors.
Terminates == (kind # "file" \/ len = StreamLen) => <>(stage = "done")
=============================================================================
