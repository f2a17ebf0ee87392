-------------------------------- MODULE Fetch -------------------------------
(***************************************************************************)
(* WinGet as a whole: the download (module Download) and the progress bar  *)
(* it makes once the server has answered (module ProgressBar).  The bar is *)
(* finished when WinGet returns, whichever way: the call is over when the  *)
(* worker has been joined.                                                 *)
(***************************************************************************)
EXTENDS Download

VARIABLES user, worker, active, state

Bar == INSTANCE ProgressBar

bar == <<user, worker, active, state>>

FetchTypeOK == TypeOK /\ Bar!TypeOK

FetchInit == Init /\ Bar!Init

Call(c, h) == user = "none" /\ MakeFilePart(c, h) /\ UNCHANGED bar

\* Once the data has arrived the bar is marked and finished.  The .part that is
\* not kept is deleted by ~FilePart, when the bar is gone; here it is deleted
\* before the bar is finished, and a process that dies in between leaves the
\* disk as one that was killed just before.
WinGet ==
  \/ (NoResponse \/ Receive \/ Broken \/ EndOfBody) /\ UNCHANGED bar
  \/ \E partial, started \in BOOLEAN : Response(partial) /\ Bar!Execute(started)
  \/ SaveOverlayData /\ \E s \in {"Fault", "Completed"} : Bar!Mark(s)
  \/ Solidified /\ Bar!Mark("Completed")
  \/ pc = "idle" /\ Bar!Finish /\ UNCHANGED vars

Draw == Bar!Loop /\ UNCHANGED vars

Killed ==
  /\ Crash \/ (pc = "idle" /\ user # "none" /\ UNCHANGED vars)
  /\ Bar!Dies

FetchNext ==
  \/ \E c \in Contents, h \in BOOLEAN : Call(c, h)
  \/ WinGet \/ Draw \/ Killed
  \/ CleanCache /\ UNCHANGED bar

\* Both threads run when they can: the calls to WinHTTP time out, and so does
\* wait_for.
FetchSpec ==
  /\ FetchInit /\ [][FetchNext]_<<vars, bar>>
  /\ WF_<<vars, bar>>(WinGet) /\ WF_<<vars, bar>>(Draw)
-----------------------------------------------------------------------------
\* A bar outlives its worker, which draws from its members: Finish, which ends
\* every way out of WinGet, takes the bar away only when the worker has seen
\* active cleared and has left Loop.
BarOutlivesWorker == user = "none" => worker = "none"

\* WinGet returns, or its process dies, although it waits for the worker and
\* the worker may miss the notification: it looks at active before it takes
\* the mutex (Loop, Finish).
WinGetReturns == (pc # "idle" \/ user # "none") ~> (pc = "idle" /\ user = "none")
=============================================================================
