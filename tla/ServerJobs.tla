------------------------------ MODULE ServerJobs ------------------------------
(***************************************************************************)
(* The server's background job slot: one scan or verification at a time,   *)
(* started by HTTP handlers, run by a detached thread, reported through a  *)
(* mutex-protected record, and waited for at shutdown.                     *)
(*                                                                         *)
(*   src/server/src/jobs.c   mp_jobs_start, job_worker, scan_progress,     *)
(*                           verify_progress, mp_jobs_wait                 *)
(*   src/server/src/http.c   mp_http_serve                                 *)
(*   src/server/src/api.c    handle_library_scan, handle_library_verify    *)
(*                                                                         *)
(* Every critical section of the record's mutex is one step.  Between two  *)
(* of them everybody else may run: mp_jobs_start gives the mutex up before *)
(* it creates the thread, and the thread reads `kind` without it.  What a  *)
(* scan or a verification does to the library is LibraryIndex; here it     *)
(* reports progress, then succeeds or fails.                               *)
(***************************************************************************)
EXTENDS Naturals, FiniteSets

CONSTANTS
  Callers,     \* threads that call mp_jobs_start (the daemon has one)
  Threads,     \* names for the job threads
  None,        \* MP_JOB_NONE
  MaxPackages  \* bound on the packages a job reports, for model checking only

Kinds == {"scan", "verify"}

ASSUME NoneAssumption == None \notin Kinds
ASSUME PackagesAssumption == MaxPackages \in Nat

VARIABLES
  job,       \* the fields of mp_job_state the mutex guards
  starting,  \* kind each caller has claimed the slot for, None when it has not
  answer,    \* what the last request of each caller was answered
  thread,    \* the job threads
  server,    \* the main thread: serving, signalled, closing, draining, stopped
  outcome    \* history: how the last job ended, "none" since a later claim

vars == <<job, starting, answer, thread, server, outcome>>

JobState == [running : BOOLEAN, kind : Kinds \cup {None},
             last_kind : Kinds \cup {None}, failed : BOOLEAN,
             counts : [Kinds -> 0..MaxPackages]]

(* A job thread.  asked is a history variable, the kind it was created     *)
(* for: struct job_arg does not carry it.  work is what it read from       *)
(* job.kind, done its result counter, error that its work failed.          *)
Thread == [pc : {"gone", "opening", "choosing", "working", "failing", "ending"},
           asked : Kinds \cup {None}, work : Kinds \cup {None},
           done : 0..MaxPackages, error : BOOLEAN]

Gone == [pc |-> "gone", asked |-> None, work |-> None, done |-> 0, error |-> FALSE]
Live == {t \in Threads : thread[t].pc # "gone"}
Claims == {c \in Callers : starting[c] # None}

Init ==
  /\ job = [running |-> FALSE, kind |-> None, last_kind |-> None,
            failed |-> FALSE, counts |-> [k \in Kinds |-> 0]]
  /\ starting = [c \in Callers |-> None]
  /\ answer = [c \in Callers |-> "none"]
  /\ thread = [t \in Threads |-> Gone]
  /\ server = "serving"
  /\ outcome = "none"

-----------------------------------------------------------------------------
(* mp_jobs_start, for a POST of library/scan or library/verify.            *)

\* Requests are taken until MHD_stop_daemon is called.
Listening == server \in {"serving", "signalled"}

\* Mutants: the earlier failure is kept; the kind is set only later; another
\* job is looked for by its thread; not at all.
ClaimedKeepsFailed(k) == [job EXCEPT !.running = TRUE, !.kind = k, !.counts[k] = 0]
ClaimedNoKind(k) == [job EXCEPT !.running = TRUE, !.failed = FALSE, !.counts[k] = 0]
SlotFreeOfThreads == Live = {}
SlotUnchecked == TRUE

\* The slot is free: it is claimed under the mutex, before any thread exists.
Claimed(k) == [job EXCEPT !.running = TRUE, !.kind = k, !.failed = FALSE,
                          !.counts[k] = 0]
SlotFree == ~job.running
Claim(c, k) ==
  /\ Listening /\ starting[c] = None
  /\ SlotFree
  /\ job' = Claimed(k)
  /\ starting' = [starting EXCEPT ![c] = k]
  /\ answer' = [answer EXCEPT ![c] = "none"]
  /\ outcome' = "none"
  /\ UNCHANGED <<thread, server>>

Refuse(c) ==
  /\ Listening /\ starting[c] = None
  /\ ~SlotFree
  /\ answer' = [answer EXCEPT ![c] = "409"]
  /\ UNCHANGED <<job, starting, thread, server, outcome>>

Create(c) ==
  /\ starting[c] # None
  /\ \E t \in Threads :
       /\ thread[t].pc = "gone"
       /\ thread' = [thread EXCEPT ![t] = [Gone EXCEPT !.pc = "opening",
                                                       !.asked = starting[c]]]
  /\ starting' = [starting EXCEPT ![c] = None]
  /\ answer' = [answer EXCEPT ![c] = "202"]
  /\ UNCHANGED <<job, server, outcome>>

\* Mutant: the claim is left behind.
UnclaimedKind == [job EXCEPT !.kind = None]

\* malloc or pthread_create fails: the claim is undone.
Unclaimed == [job EXCEPT !.running = FALSE, !.kind = None]
CreateFails(c) ==
  /\ starting[c] # None
  /\ job' = Unclaimed
  /\ starting' = [starting EXCEPT ![c] = None]
  /\ answer' = [answer EXCEPT ![c] = "409"]
  /\ UNCHANGED <<thread, server, outcome>>

-----------------------------------------------------------------------------
(* job_worker.                                                             *)

Open(t) ==
  /\ thread[t].pc = "opening"
  /\ thread' = [thread EXCEPT ![t].pc = "choosing"]
  /\ UNCHANGED <<job, starting, answer, server, outcome>>

\* The database cannot be opened: straight to the end, nothing is reported.
OpenFails(t) ==
  /\ thread[t].pc = "opening"
  /\ thread' = [thread EXCEPT ![t].pc = "ending", ![t].error = TRUE]
  /\ UNCHANGED <<job, starting, answer, server, outcome>>

\* The unlocked read of st->kind; whatever is not a scan is a verification.
Choose(t) ==
  /\ thread[t].pc = "choosing"
  /\ thread' = [thread EXCEPT ![t].pc = "working",
                  ![t].work = IF job.kind = "scan" THEN "scan" ELSE "verify"]
  /\ UNCHANGED <<job, starting, answer, server, outcome>>

\* Mutant: the counters are added up instead of copied.
ProgressAdds(t) ==
  /\ thread[t].pc = "working"
  /\ thread[t].done < MaxPackages
  /\ thread' = [thread EXCEPT ![t].done = @ + 1]
  /\ job' = [job EXCEPT !.counts[thread[t].work] = @ + thread[t].done + 1]
  /\ UNCHANGED <<starting, answer, server, outcome>>

Progress(t) ==
  /\ thread[t].pc = "working"
  /\ thread[t].done < MaxPackages
  /\ thread' = [thread EXCEPT ![t].done = @ + 1]
  /\ job' = [job EXCEPT !.counts[thread[t].work] = thread[t].done + 1]
  /\ UNCHANGED <<starting, answer, server, outcome>>

WorkEnds(t) ==
  /\ thread[t].pc = "working"
  /\ \E error \in BOOLEAN :
       thread' = [thread EXCEPT ![t].error = error,
                                ![t].pc = IF error THEN "failing" ELSE "ending"]
  /\ UNCHANGED <<job, starting, answer, server, outcome>>

ReportFailure(t) ==
  /\ thread[t].pc = "failing"
  /\ job' = [job EXCEPT !.failed = TRUE]
  /\ thread' = [thread EXCEPT ![t].pc = "ending"]
  /\ UNCHANGED <<starting, answer, server, outcome>>

\* Mutant: a failed job does not reach the release.
ReleasedUnlessFailed ==
  [job EXCEPT !.running = job.failed, !.last_kind = job.kind, !.kind = None]

Released == [job EXCEPT !.running = FALSE, !.last_kind = job.kind, !.kind = None]
End(t) ==
  /\ thread[t].pc = "ending"
  /\ job' = Released
  /\ thread' = [thread EXCEPT ![t] = Gone]
  /\ outcome' = IF ~thread[t].error THEN "done"
                ELSE IF thread[t].work = None THEN "unopened" ELSE "failed"
  /\ UNCHANGED <<starting, answer, server>>

ThreadStep(t) == \/ Open(t) \/ OpenFails(t) \/ Choose(t) \/ Progress(t)
                 \/ WorkEnds(t) \/ ReportFailure(t) \/ End(t)

-----------------------------------------------------------------------------
(* mp_http_serve after the daemon started.                                 *)

Signal ==
  /\ server = "serving"
  /\ server' = "signalled"
  /\ UNCHANGED <<job, starting, answer, thread, outcome>>

\* The main loop sees g_stop and calls MHD_stop_daemon: no request is taken
\* from then on, and a handler in mp_jobs_start finishes before it returns.
CallStop ==
  /\ server = "signalled"
  /\ server' = "closing"
  /\ UNCHANGED <<job, starting, answer, thread, outcome>>

DaemonStopped ==
  /\ server = "closing"
  /\ Claims = {}
  /\ server' = "draining"
  /\ UNCHANGED <<job, starting, answer, thread, outcome>>

\* Mutant: the wait is left out.
MayStopAtOnce == Claims = {}

\* mp_jobs_wait finds the slot free, and the process ends.
MayStop == ~job.running
Stop ==
  /\ server = "draining"
  /\ MayStop
  /\ server' = "stopped"
  /\ UNCHANGED <<job, starting, answer, thread, outcome>>

Request(c) == (\E k \in Kinds : Claim(c, k)) \/ Refuse(c)
Started(c) == Create(c) \/ CreateFails(c)
MainStep == CallStop \/ DaemonStopped \/ Stop

Next == \/ \E c \in Callers : Request(c) \/ Started(c)
        \/ \E t \in Threads : ThreadStep(t)
        \/ Signal \/ MainStep

Spec == Init /\ [][Next]_vars

(* A thread that runs is scheduled, and a scan or a verification ends      *)
(* (LibraryIndex: ScanTerminates, VerifyTerminates).  Requests and signals *)
(* need not come.                                                          *)
FairSpec == /\ Spec
            /\ \A c \in Callers : WF_vars(Started(c))
            /\ \A t \in Threads : WF_vars(ThreadStep(t))
            /\ WF_vars(MainStep)

-----------------------------------------------------------------------------
(* Properties.                                                             *)

TypeOK ==
  /\ job \in JobState
  /\ starting \in [Callers -> Kinds \cup {None}]
  /\ answer \in [Callers -> {"none", "202", "409"}]
  /\ thread \in [Threads -> Thread]
  /\ server \in {"serving", "signalled", "closing", "draining", "stopped"}
  /\ outcome \in {"none", "done", "failed", "unopened"}

(* At most one job exists, from the claim of the slot to the release, and  *)
(* `running` says whether one does, so two scans never write the library   *)
(* from one server (jobs.h: "exactly one background job runs at a time").  *)
OneJob ==
  /\ \A c, d \in Claims : c = d
  /\ \A t, u \in Live : t = u
  /\ Claims = {} \/ Live = {}
  /\ job.running <=> (Claims # {} \/ Live # {})

(* A job does the work it was asked for, although its thread reads `kind`  *)
(* without the mutex and after its caller has returned.                    *)
DoesWhatWasAsked ==
  \A t \in Threads : thread[t].work # None => thread[t].work = thread[t].asked

(* Once a scan or a verification has failed and its thread is gone, the    *)
(* status says so until the next job is claimed, and it says so of no      *)
(* other job.                                                              *)
FailureReported == (job.failed /\ ~job.running) <=> (outcome = "failed")

(* The process never ends, closing the library, under a job that runs.     *)
StopsAfterTheJob == server = "stopped" => Live \cup Claims = {}

(* The counters the status page polls never go back while one job runs.    *)
ProgressForward ==
  [][job.running /\ job'.running =>
       \A k \in Kinds : job'.counts[k] >= job.counts[k]]_vars

(* Every job ends and frees the slot, and a signal stops the server.       *)
JobsEnd == job.running ~> ~job.running
SignalStops == server = "signalled" ~> server = "stopped"

(* jobs.h: "failed: last job returned an error".                           *)
FailedIsLastOutcome == outcome \in {"failed", "unopened"} /\ ~job.running => job.failed

(* jobs.h: "-1 if another job is already running (HTTP 409)".              *)
AnotherJob(c) == Live # {} \/ Claims \ {c} # {}
RefusedWhenBusy ==
  [][\A c \in Callers : answer[c] # "409" /\ answer'[c] = "409" => AnotherJob(c)]_vars
=============================================================================
