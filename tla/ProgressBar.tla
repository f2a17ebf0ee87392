---------------------------- MODULE ProgressBar -----------------------------
(***************************************************************************)
(* ProgressBar (include/baulk/indicators.hpp, lib/misc/indicators.cc): the *)
(* thread of a download or an extraction, which marks and finishes the     *)
(* bar, and the worker that draws it.  The mutex is held by Finish for one *)
(* assignment, and by the worker from its lock to wait_for, which gives it *)
(* back; both are one step here.  The worker looks at active without it.   *)
(***************************************************************************)
VARIABLES
  user,    \* what the thread that owns the bar does; "none" without a bar
  worker,  \* where the worker is; "none" if none was started
  active,
  state

bar == <<user, worker, active, state>>

TypeOK ==
  /\ user \in {"none", "running", "stop", "notify", "join"}
  /\ worker \in {"none", "check", "lock", "waiting", "draw", "ended"}
  /\ active \in BOOLEAN
  /\ state \in {"Uninitialized", "Running", "Completed", "Fault"}

Init ==
  /\ user = "none" /\ worker = "none"
  /\ active = TRUE /\ state = "Uninitialized"

\* The process dies, and with it both threads.
Dies ==
  /\ user' = "none" /\ worker' = "none"
  /\ active' = TRUE /\ state' = "Uninitialized"

\* The bar goes out of scope.  A worker that has not ended runs on.
Destroyed ==
  /\ user' = "none"
  /\ worker' = IF worker = "ended" THEN "none" ELSE worker
  /\ active' = TRUE /\ state' = "Uninitialized"

\* The bar is made and Execute called.  It starts no worker when stderr is not
\* a terminal; the extractors do not call it in quiet mode.
Execute(started) ==
  /\ user = "none" /\ user' = "running" /\ UNCHANGED active
  /\ IF started THEN state' = "Running" /\ worker' = "check"
                ELSE UNCHANGED <<state, worker>>

\* MarkFault, MarkCompleted.
Mark(s) ==
  /\ user = "running"
  /\ state' = s /\ UNCHANGED <<user, worker, active>>

-----------------------------------------------------------------------------
(* Finish.                                                                 *)

FinishBegin ==
  /\ user = "running"
  /\ IF state = "Uninitialized" THEN Destroyed
     ELSE user' = "stop" /\ UNCHANGED <<worker, active, state>>

Stop ==
  /\ user = "stop"
  /\ active' = FALSE /\ user' = "notify" /\ UNCHANGED <<worker, state>>

\* notify_all, which nobody hears who is not waiting.
Notify ==
  /\ user = "notify" /\ user' = "join"
  /\ worker' = IF worker = "waiting" THEN "draw" ELSE worker
  /\ UNCHANGED <<active, state>>

\* Slip: the worker is detached.
JoinDetached ==
  /\ user = "join"
  /\ IF worker = "none" THEN Dies ELSE Destroyed

\* worker->join(), which waits for the end of Loop.  Without a worker the pointer
\* is null: the process dies.
Join ==
  /\ user = "join"
  /\ \/ worker = "ended" /\ Destroyed
     \/ worker = "none" /\ Dies

Finish == FinishBegin \/ Stop \/ Notify \/ Join

-----------------------------------------------------------------------------
(* Loop, the worker.                                                       *)

Check ==
  /\ worker = "check"
  /\ worker' = IF active THEN "lock" ELSE "ended"

Wait == worker = "lock" /\ worker' = "waiting"

\* Slip: wait in place of wait_for.
WakeNotified == FALSE /\ worker' = worker

\* wait_for comes to its end after 100 ms.
Wake == worker = "waiting" /\ worker' = "draw"

Draw == worker = "draw" /\ worker' = "check"

Loop == (Check \/ Wait \/ Wake \/ Draw) /\ UNCHANGED <<user, active, state>>

-----------------------------------------------------------------------------
Next ==
  \/ \E started \in BOOLEAN : Execute(started)
  \/ \E s \in {"Completed", "Fault"} : Mark(s)
  \/ Finish \/ Loop

Spec == Init /\ [][Next]_bar

\* Finish joins a worker that was started: an operation that is "more quiet"
\* (docs/help.md:25), or whose messages are redirected to a file, ends as any
\* other does, and not with a null pointer.
JoinsStarted == user = "join" => worker # "none"
=============================================================================
