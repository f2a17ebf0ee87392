------------------------------ MODULE Download ------------------------------
(***************************************************************************)
(* HttpClient::WinGet (lib/net/client.cc) and the <file>.part it keeps     *)
(* beside its destination (FilePart, lib/net/file.hpp), over any number of *)
(* calls: a download that breaks leaves the data received, followed by an  *)
(* overlay that says which file it is the beginning of and how long it is; *)
(* the next call for the same hash asks the server for the rest.           *)
(*                                                                         *)
(* Calls for different contents share the .part when their URLs end in the *)
(* same name, as two versions of a package may.  The server sends content  *)
(* c as the pieces <<c, 1>> .. <<c, Total>>; it may refuse, ignore the     *)
(* Range header, leave Content-Length or Accept-Ranges out, or stop early. *)
(* A write of a piece may fail: WinGet does not look.                      *)
(***************************************************************************)
EXTENDS Naturals, Sequences

CONSTANTS
  Contents,   \* the files there are to download, each known by its hash
  Total,      \* their length in pieces
  NoTail,     \* no overlay
  NoContent   \* no file

ASSUME DownloadAssumption ==
  /\ Total \in Nat
  /\ NoContent \notin Contents
  /\ NoTail \notin [hash : Contents, bytes : 1 .. Total]

VARIABLES
  data,     \* the pieces in the .part, <<>> also when there is no such file
  tail,     \* the part_overlay_data at its end
  file,     \* the pieces in the destination file ...
  origin,   \* ... and the content it was downloaded as
  pc,       \* what WinGet does next
  want,     \* the content asked for
  hashed,   \* download_options::hash_value is not empty
  current,  \* current_bytes
  length,   \* total_size; 0 stands for one not known (content_length is -1)
  ranges    \* part_support

vars == <<data, tail, file, origin, pc, want, hashed, current, length, ranges>>

Pieces == Contents \X (1 .. Total)

\* The first n pieces of c.
Prefix(c, n) == [i \in 1 .. n |-> <<c, i>>]

TypeOK ==
  /\ data \in Seq(Pieces) /\ file \in Seq(Pieces)
  /\ tail \in {NoTail} \union [hash : Contents, bytes : 1 .. Total]
  /\ origin \in Contents \union {NoContent}
  /\ pc \in {"idle", "request", "body", "save", "solidify"}
  /\ want \in Contents \union {NoContent}
  /\ hashed \in BOOLEAN /\ ranges \in BOOLEAN
  /\ current \in 0 .. Total
  /\ length \in {0, Total}

Init ==
  /\ data = <<>> /\ tail = NoTail
  /\ file = <<>> /\ origin = NoContent
  /\ pc = "idle" /\ want = NoContent /\ hashed = FALSE
  /\ current = 0 /\ length = 0 /\ ranges = FALSE

\* WinGet returns; ~FilePart deletes the .part unless an overlay was saved.
Return ==
  /\ pc' = "idle"
  /\ hashed' = FALSE /\ current' = 0 /\ length' = 0 /\ ranges' = FALSE

Discard == data' = <<>> /\ tail' = NoTail
-----------------------------------------------------------------------------
\* Slip: the hash of the overlay is not compared.
MakeFilePartAnyHash(c, h) ==
  /\ pc = "idle"
  /\ want' = c /\ hashed' = h
  /\ IF h /\ tail # NoTail
       THEN current' = tail.bytes /\ UNCHANGED data
       ELSE current' = 0 /\ data' = <<>>
  /\ tail' = NoTail
  /\ pc' = "request"
  /\ UNCHANGED <<file, origin, length, ranges>>

\* MakeFilePart: with an overlay for this hash the data before it is kept and
\* the overlay cut off; else the file is truncated.
MakeFilePart(c, h) ==
  /\ pc = "idle"
  /\ want' = c /\ hashed' = h
  /\ IF h /\ tail # NoTail /\ tail.hash = c
       THEN current' = tail.bytes /\ UNCHANGED data
       ELSE current' = 0 /\ data' = <<>>
  /\ tail' = NoTail
  /\ pc' = "request"
  /\ UNCHANGED <<file, origin, length, ranges>>

\* The request fails, or the status is not a success: nothing is saved.
NoResponse ==
  /\ pc = "request"
  /\ Discard /\ Return
  /\ UNCHANGED <<file, origin, want>>

\* Status 206 answers a Range and is followed by the rest, any other success by
\* the whole: then the .part is truncated.
Response(partial) ==
  /\ pc = "request"
  /\ partial => current > 0
  /\ IF partial THEN UNCHANGED <<data, current>>
                ELSE data' = <<>> /\ current' = 0
  /\ length' \in {0, Total}
  /\ ranges' \in IF hashed /\ length' > 0 THEN BOOLEAN ELSE {FALSE}
  /\ pc' = "body"
  /\ UNCHANGED <<tail, file, origin, want, hashed>>

\* WinHttpReadData, and WriteFull whether it works or not.
Receive ==
  /\ pc = "body" /\ current < Total
  /\ current' = current + 1
  /\ data' \in {Append(data, <<want, current + 1>>), data}
  /\ UNCHANGED <<tail, file, origin, pc, want, hashed, length, ranges>>

\* WinHttpQueryDataAvailable or WinHttpReadData fails.
Broken ==
  /\ pc = "body"
  /\ pc' = "save"
  /\ UNCHANGED <<data, tail, file, origin, want, hashed, current, length, ranges>>

\* No more data: the server closed, after all of it or before.
EndOfBody ==
  /\ pc = "body"
  /\ pc' = IF length # 0 /\ current < length THEN "save" ELSE "solidify"
  /\ UNCHANGED <<data, tail, file, origin, want, hashed, current, length, ranges>>

\* Slip: the size of the file is not compared with current_bytes.  The overlay
\* goes to offset current_bytes; what the file lacks before it reads as zeros.
SaveOverlayDataUnsized ==
  /\ pc = "save"
  /\ IF ranges /\ current # 0
       THEN /\ tail' = [hash |-> want, bytes |-> current]
            /\ data' = [i \in 1 .. current |->
                          IF i <= Len(data) THEN data[i] ELSE <<want, 1>>]
       ELSE Discard
  /\ Return
  /\ UNCHANGED <<file, origin, want>>

\* Slip: an overlay is written to a .part without data.
SaveOverlayDataEmpty ==
  /\ pc = "save"
  /\ IF ranges /\ Len(data) = current
       THEN tail' = [hash |-> want, bytes |-> current] /\ UNCHANGED data
       ELSE Discard
  /\ Return
  /\ UNCHANGED <<file, origin, want>>

\* save_part_overlay: SaveOverlayData refuses a file of another size than
\* current_bytes; the write of the overlay may fail.
SaveOverlayData ==
  /\ pc = "save"
  /\ \/ /\ ranges /\ current # 0 /\ Len(data) = current
        /\ tail' = [hash |-> want, bytes |-> current]
        /\ UNCHANGED data
     \/ Discard
  /\ Return
  /\ UNCHANGED <<file, origin, want>>

\* Solidified renames the .part over the destination.  When it cannot, WinGet
\* returns the destination all the same.
Solidified ==
  /\ pc = "solidify"
  /\ \/ file' = data /\ origin' = want
     \/ UNCHANGED <<file, origin>>
  /\ Discard /\ Return
  /\ UNCHANGED want

\* The process is killed: the data stays, without an overlay.
Crash ==
  /\ pc # "idle"
  /\ Return
  /\ UNCHANGED <<data, tail, file, origin, want>>

\* `baulk cleancache --force`, or a user, deletes what nobody has open.
CleanCache ==
  /\ \/ pc = "idle" /\ Discard /\ UNCHANGED <<file, origin>>
     \/ file' = <<>> /\ origin' = NoContent /\ UNCHANGED <<data, tail>>
  /\ UNCHANGED <<pc, want, hashed, current, length, ranges>>

Next ==
  \/ \E c \in Contents, h \in BOOLEAN : MakeFilePart(c, h)
  \/ NoResponse
  \/ \E partial \in BOOLEAN : Response(partial)
  \/ Receive \/ Broken \/ EndOfBody
  \/ SaveOverlayData \/ Solidified
  \/ Crash \/ CleanCache

Spec == Init /\ [][Next]_vars
-----------------------------------------------------------------------------
(***************************************************************************)
(* Properties.                                                             *)
(***************************************************************************)
\* An overlay tells the truth: before it is exactly the first current_bytes of
\* the content with its hash, whatever writes failed, whichever contents went
\* through the same .part and wherever processes died (SaveOverlayData,
\* MakeFilePart, Truncated).
OverlayHonest == tail # NoTail => data = Prefix(tail.hash, tail.bytes)

\* A destination file of full length is the content asked for, piece by piece:
\* resuming never puts a piece at another's place, nor pieces of two contents
\* into one file.  What other faults leave is short, and fails the comparison
\* of hashes at once (WinGet, FilePart).
FullMeansRight == Len(file) = Total => file = Prefix(origin, Total)
=============================================================================
