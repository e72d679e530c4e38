---------------------------- MODULE ServerProofs ----------------------------
(***************************************************************************)
(* Proofs about the server: the job slot (ServerJobs), for any threads     *)
(* that ask for jobs and any job threads; and who its API lets in          *)
(* (LibraryServer), for any tokens, requests and days.                     *)
(*                                                                         *)
(* The inductive invariant of the slot is Slot: a claim and a live thread  *)
(* are the two forms a job takes, there is at most one of them, `running`  *)
(* is set while there is one, and `kind` is what it was asked to do.  The  *)
(* unlocked read of `kind` is sound because nobody but the job itself      *)
(* changes the field while the job lives.                                  *)
(*                                                                         *)
(* That of the callers is ApiInv: the end of every session is its last use *)
(* that could be recorded plus the days a session lasts.                   *)
(***************************************************************************)
EXTENDS ServerJobs, Sequences, TLAPS

CONSTANTS Places, Nowhere, Tokens, SessionDays, MaxSessions, Visits
VARIABLES db, writer, running, writes, tokens, sessions, now, request, reply, wrote, told,
          seen, visit

(* The HTTP API, beside the job slot: both have a variable of the name job *)
(* and one of the name answer.                                             *)
Api == INSTANCE LibraryServer WITH job <- running, answer <- reply

Unique == /\ \A c, d \in Callers : starting[c] # None /\ starting[d] # None => c = d
          /\ \A t, u \in Threads : thread[t].pc # "gone" /\ thread[u].pc # "gone" => t = u
          /\ \A c \in Callers, t \in Threads : starting[c] = None \/ thread[t].pc = "gone"
Holds == /\ \A c \in Callers : starting[c] # None =>
              job.running /\ job.kind = starting[c]
         /\ \A t \in Threads : thread[t].pc # "gone" =>
              job.running /\ job.kind = thread[t].asked /\ thread[t].asked \in Kinds
Used == job.running => \/ \E c \in Callers : starting[c] # None
                       \/ \E t \in Threads : thread[t].pc # "gone"
Works == \A t \in Threads :
           thread[t].work # None => thread[t].work = thread[t].asked
Stopped == server \in {"draining", "stopped"} => \A c \in Callers : starting[c] = None
Ended == server = "stopped" => ~job.running

Slot == TypeOK /\ Unique /\ Holds /\ Used /\ Works /\ Stopped /\ Ended

(* The types of the records a step writes.                                 *)
LEMMA JobFields ==
  ASSUME TypeOK
  PROVE  /\ job.running \in BOOLEAN /\ job.kind \in Kinds \cup {None}
         /\ job.failed \in BOOLEAN /\ job.counts \in [Kinds -> 0..MaxPackages]
         /\ \A k \in Kinds : Claimed(k) \in JobState
         /\ Unclaimed \in JobState /\ Released \in JobState
<1>1. job \in JobState  BY DEF TypeOK
<1>2. /\ job.running \in BOOLEAN /\ job.kind \in Kinds \cup {None}
      /\ job.failed \in BOOLEAN /\ job.counts \in [Kinds -> 0..MaxPackages]
  BY <1>1 DEF JobState
<1>3. ASSUME NEW k \in Kinds PROVE Claimed(k) \in JobState
  <2>1. 0 \in 0..MaxPackages  BY PackagesAssumption
  <2>2. [job.counts EXCEPT ![k] = 0] \in [Kinds -> 0..MaxPackages]  BY <1>2, <2>1
  <2>3. Claimed(k) = [job EXCEPT !.running = TRUE, !.kind = k, !.failed = FALSE,
                                 !.counts = [job.counts EXCEPT ![k] = 0]]
    BY <1>1 DEF Claimed, JobState
  <2> QED  BY <1>1, <2>2, <2>3 DEF JobState
<1>4. Unclaimed \in JobState /\ Released \in JobState
  BY <1>1, <1>2 DEF JobState, Unclaimed, Released
<1> QED  BY <1>2, <1>3, <1>4

LEMMA ThreadFields ==
  ASSUME TypeOK, NEW t \in Threads
  PROVE  thread[t] \in Thread
BY DEF TypeOK

LEMMA CounterRoom ==
  \A n \in 0..MaxPackages : n < MaxPackages => n + 1 \in 0..MaxPackages
BY PackagesAssumption

LEMMA GoneIsThread == Gone \in Thread
<1>1. 0 \in 0..MaxPackages  BY PackagesAssumption
<1> QED  BY <1>1 DEF Gone, Thread

(* TypeOK: the record the status page reads and every thread are well      *)
(* formed in every reachable state; the counters stay within what one job  *)
(* reported.                                                               *)
LEMMA TypeInit == Init => TypeOK
BY PackagesAssumption DEF Init, TypeOK, JobState, Thread, Gone, Kinds

LEMMA TypeStep == ASSUME TypeOK, [Next]_vars PROVE TypeOK'
<1> USE DEF TypeOK
<1>1. ASSUME NEW c \in Callers, NEW k \in Kinds, Claim(c, k) PROVE TypeOK'
  <2>1. job' \in JobState  BY <1>1, JobFields DEF Claim
  <2>2. starting' \in [Callers -> Kinds \cup {None}]  BY <1>1 DEF Claim
  <2> QED  BY <1>1, <2>1, <2>2 DEF Claim
<1>2. ASSUME NEW c \in Callers, Refuse(c) PROVE TypeOK'
  BY <1>2 DEF Refuse
<1>3. ASSUME NEW c \in Callers, Create(c) PROVE TypeOK'
  <2>1. starting[c] \in Kinds \cup {None}  OBVIOUS
  <2>2. [Gone EXCEPT !.pc = "opening", !.asked = starting[c]] \in Thread
    BY <2>1, GoneIsThread DEF Thread
  <2>3. thread' \in [Threads -> Thread]  BY <1>3, <2>2 DEF Create
  <2> QED  BY <1>3, <2>3 DEF Create
<1>4. ASSUME NEW c \in Callers, CreateFails(c) PROVE TypeOK'
  <2>1. job' \in JobState  BY <1>4, JobFields DEF CreateFails
  <2> QED  BY <1>4, <2>1 DEF CreateFails
<1>5. ASSUME NEW t \in Threads, ThreadStep(t) PROVE TypeOK'
  <2>0. thread[t] \in Thread  OBVIOUS
  <2>1. CASE Open(t)
    <3>1. [thread[t] EXCEPT !.pc = "choosing"] \in Thread  BY <2>0 DEF Thread
    <3> QED  BY <2>1, <3>1 DEF Open
  <2>2. CASE OpenFails(t)
    <3>1. [thread[t] EXCEPT !.pc = "ending", !.error = TRUE] \in Thread
      BY <2>0 DEF Thread
    <3> QED  BY <2>2, <3>1 DEF OpenFails
  <2>3. CASE Choose(t)
    <3> DEFINE w == IF job.kind = "scan" THEN "scan" ELSE "verify"
    <3>1. w \in Kinds  BY DEF Kinds
    <3> HIDE DEF w
    <3>2. [thread[t] EXCEPT !.pc = "working", !.work = w] \in Thread
      BY <2>0, <3>1 DEF Thread
    <3>3. thread' = [thread EXCEPT ![t] = [thread[t] EXCEPT !.pc = "working", !.work = w]]
      BY <2>3 DEF Choose, w
    <3>4. thread' \in [Threads -> Thread]  BY <3>2, <3>3
    <3> QED  BY <2>3, <3>4 DEF Choose
  <2>4. CASE Progress(t)
    <3>0. thread[t].done \in 0..MaxPackages /\ thread[t].done < MaxPackages
      BY <2>0, <2>4 DEF Progress, Thread
    <3>1. thread[t].done + 1 \in 0..MaxPackages  BY <3>0, CounterRoom
    <3>2. [thread[t] EXCEPT !.done = @ + 1] \in Thread  BY <2>0, <3>1 DEF Thread
    <3>3. thread' \in [Threads -> Thread]  BY <2>4, <3>2 DEF Progress
    <3>4. job' \in JobState  BY <2>4, <3>1, JobFields DEF Progress, JobState
    <3> QED  BY <2>4, <3>3, <3>4 DEF Progress
  <2>5. CASE WorkEnds(t)
    <3>1. PICK e \in BOOLEAN : thread' = [thread EXCEPT ![t] = [thread[t] EXCEPT
             !.error = e, !.pc = IF e THEN "failing" ELSE "ending"]]
      BY <2>5 DEF WorkEnds
    <3>2. [thread[t] EXCEPT !.error = e, !.pc = IF e THEN "failing" ELSE "ending"] \in Thread
      BY <2>0 DEF Thread
    <3>3. thread' \in [Threads -> Thread]  BY <3>1, <3>2
    <3> QED  BY <2>5, <3>3 DEF WorkEnds
  <2>6. CASE ReportFailure(t)
    <3>1. [thread[t] EXCEPT !.pc = "ending"] \in Thread  BY <2>0 DEF Thread
    <3>2. job' \in JobState  BY <2>6 DEF ReportFailure, JobState
    <3> QED  BY <2>6, <3>1, <3>2 DEF ReportFailure
  <2>7. CASE End(t)
    <3>2. job' \in JobState  BY <2>7, JobFields DEF End
    <3> QED  BY <2>7, GoneIsThread, <3>2 DEF End
  <2> QED  BY <1>5, <2>1, <2>2, <2>3, <2>4, <2>5, <2>6, <2>7 DEF ThreadStep
<1>6. CASE Signal  BY <1>6 DEF Signal
<1>7. CASE MainStep  BY <1>7 DEF MainStep, CallStop, DaemonStopped, Stop
<1>8. CASE UNCHANGED vars  BY <1>8 DEF vars
<1> QED  BY <1>1, <1>2, <1>3, <1>4, <1>5, <1>6, <1>7, <1>8 DEF Next, Request, Started

(* TypeOK, as a theorem of the specification.                              *)
THEOREM JobTypes == Spec => []TypeOK
BY TypeInit, TypeStep, PTL DEF Spec

-----------------------------------------------------------------------------
LEMMA SlotInit == Init => Slot
BY TypeInit, NoneAssumption DEF Init, Slot, Unique, Holds, Used, Works, Stopped, Ended, Gone

(* A step of one thread that leaves it alive, its request and the slot as  *)
(* they were keeps everything but Works.                                   *)
LEMMA LiveStep ==
  ASSUME Slot, TypeOK', NEW t \in Threads, thread[t].pc # "gone",
         thread'[t].pc # "gone", thread'[t].asked = thread[t].asked,
         \A u \in Threads \ {t} : thread'[u] = thread[u],
         job'.running = job.running, job'.kind = job.kind,
         UNCHANGED <<starting, server>>,
         thread'[t].work # None => thread'[t].work = thread'[t].asked
  PROVE  Slot'
<1>1. \A u \in Threads : /\ thread'[u].pc # "gone" <=> thread[u].pc # "gone"
                         /\ thread'[u].asked = thread[u].asked
  OBVIOUS
<1>2. Unique'  BY <1>1 DEF Slot, Unique
<1>3. Holds'  BY <1>1 DEF Slot, Holds
<1>4. Used'  BY <1>1 DEF Slot, Used
<1>5. Works'  BY DEF Slot, Works
<1>6. Stopped' /\ Ended'  BY DEF Slot, Stopped, Ended
<1> QED  BY <1>2, <1>3, <1>4, <1>5, <1>6 DEF Slot

LEMMA SlotStep == ASSUME Slot, [Next]_vars PROVE Slot'
<1>0. TypeOK /\ TypeOK'  BY TypeStep DEF Slot
<1> USE DEF Slot
<1>1. ASSUME NEW c \in Callers, NEW k \in Kinds, Claim(c, k) PROVE Slot'
  <2>1. \A d \in Callers : starting[d] = None  BY <1>1 DEF Claim, SlotFree, Holds
  <2>2. \A t \in Threads : thread[t].pc = "gone"  BY <1>1 DEF Claim, SlotFree, Holds
  <2>3. /\ \A d \in Callers \ {c} : starting'[d] = None
        /\ starting'[c] = k /\ thread' = thread /\ server' = server
    BY <1>0, <1>1, <2>1 DEF Claim, TypeOK
  <2>4. job'.running /\ job'.kind = k
    BY <1>0, <1>1 DEF Claim, Claimed, TypeOK, JobState
  <2>5. server \notin {"draining", "stopped"}  BY <1>1 DEF Claim, Listening
  <2>6. k # None  BY NoneAssumption
  <2>7. Unique'  BY <2>2, <2>3 DEF Unique
  <2>8. Holds'  BY <2>2, <2>3, <2>4 DEF Holds
  <2>9. Used'  BY <2>3, <2>6 DEF Used
  <2>10. Works'  BY <2>3 DEF Works
  <2>11. Stopped' /\ Ended'  BY <2>3, <2>5 DEF Stopped, Ended
  <2> QED  BY <1>0, <2>7, <2>8, <2>9, <2>10, <2>11
<1>2. ASSUME NEW c \in Callers, Refuse(c) PROVE Slot'
  BY <1>0, <1>2 DEF Refuse, Unique, Holds, Used, Works, Stopped, Ended
<1>3. ASSUME NEW c \in Callers, Create(c) PROVE Slot'
  <2>1. PICK t \in Threads :
          /\ thread[t].pc = "gone"
          /\ thread' = [thread EXCEPT ![t] = [Gone EXCEPT !.pc = "opening",
                                                         !.asked = starting[c]]]
    BY <1>3 DEF Create
  <2>2. /\ thread'[t].pc = "opening" /\ thread'[t].asked = starting[c]
        /\ thread'[t].work = None
        /\ \A u \in Threads \ {t} : thread'[u] = thread[u]
    BY <1>0, <2>1 DEF TypeOK, Gone
  <2>3. /\ starting'[c] = None /\ \A d \in Callers \ {c} : starting'[d] = starting[d]
        /\ job' = job /\ server' = server /\ starting[c] # None
    BY <1>0, <1>3 DEF Create, TypeOK
  <2>4. \A d \in Callers \ {c} : starting[d] = None  BY <2>3 DEF Unique
  <2>5. \A u \in Threads : thread[u].pc = "gone"  BY <2>3 DEF Unique
  <2>6. job.running /\ job.kind = starting[c] /\ starting[c] \in Kinds
    BY <1>0, <2>3 DEF Holds, TypeOK
  <2>7. Unique'  BY <2>2, <2>3, <2>4, <2>5 DEF Unique
  <2>8. Holds'  BY <2>2, <2>3, <2>4, <2>5, <2>6 DEF Holds
  <2>9. Used'  BY <2>2 DEF Used
  <2>10. Works'  BY <2>2 DEF Works
  <2>11. Stopped' /\ Ended'  BY <2>3, <2>4 DEF Stopped, Ended
  <2> QED  BY <1>0, <2>7, <2>8, <2>9, <2>10, <2>11
<1>4. ASSUME NEW c \in Callers, CreateFails(c) PROVE Slot'
  <2>1. /\ starting'[c] = None /\ \A d \in Callers \ {c} : starting'[d] = starting[d]
        /\ thread' = thread /\ server' = server /\ starting[c] # None
    BY <1>0, <1>4 DEF CreateFails, TypeOK
  <2>2. \A d \in Callers : starting'[d] = None  BY <2>1 DEF Unique
  <2>3. \A u \in Threads : thread'[u].pc = "gone"  BY <2>1 DEF Unique
  <2>4. ~job'.running  BY <1>0, <1>4 DEF CreateFails, Unclaimed, TypeOK, JobState
  <2>5. Unique' /\ Holds' /\ Used' /\ Stopped' /\ Ended'
    BY <2>2, <2>3, <2>4 DEF Unique, Holds, Used, Stopped, Ended
  <2>6. Works'  BY <2>1 DEF Works
  <2> QED  BY <1>0, <2>5, <2>6
<1>5. ASSUME NEW t \in Threads, ThreadStep(t) PROVE Slot'
  <2>0. thread[t] \in Thread /\ thread \in [Threads -> Thread] /\ job \in JobState
    BY <1>0 DEF TypeOK
  <2>1. CASE Open(t)
    BY <1>0, <2>0, <2>1, LiveStep DEF Open, Thread, Works
  <2>2. CASE OpenFails(t)
    BY <1>0, <2>0, <2>2, LiveStep DEF OpenFails, Thread, Works
  <2>3. CASE Choose(t)
    <3>1. thread[t].pc = "choosing"  BY <2>3 DEF Choose
    <3>2. job.kind = thread[t].asked /\ thread[t].asked \in Kinds  BY <3>1 DEF Holds
    <3>3. (IF job.kind = "scan" THEN "scan" ELSE "verify") = thread[t].asked
      BY <3>2 DEF Kinds
    <3>4. /\ thread'[t].work = thread[t].asked /\ thread'[t].asked = thread[t].asked
          /\ thread'[t].pc = "working"
          /\ \A u \in Threads \ {t} : thread'[u] = thread[u]
          /\ job' = job /\ UNCHANGED <<starting, server>>
      BY <2>0, <2>3, <3>3 DEF Choose, Thread
    <3> QED  BY <1>0, <3>1, <3>4, LiveStep
  <2>4. CASE Progress(t)
    <3>1. job'.running = job.running /\ job'.kind = job.kind
      BY <2>0, <2>4 DEF Progress, JobState
    <3>2. /\ thread'[t].asked = thread[t].asked /\ thread'[t].work = thread[t].work
          /\ thread'[t].pc = "working" /\ thread[t].pc = "working"
          /\ \A u \in Threads \ {t} : thread'[u] = thread[u]
          /\ UNCHANGED <<starting, server>>
      BY <2>0, <2>4 DEF Progress, Thread
    <3>3. thread'[t].work # None => thread'[t].work = thread'[t].asked
      BY <3>2 DEF Works
    <3> QED  BY <1>0, <3>1, <3>2, <3>3, LiveStep
  <2>5. CASE WorkEnds(t)
    <3>1. /\ thread'[t].asked = thread[t].asked /\ thread'[t].work = thread[t].work
          /\ thread'[t].pc \in {"failing", "ending"} /\ thread[t].pc = "working"
          /\ \A u \in Threads \ {t} : thread'[u] = thread[u]
          /\ job' = job /\ UNCHANGED <<starting, server>>
      BY <2>0, <2>5 DEF WorkEnds, Thread
    <3>2. thread'[t].work # None => thread'[t].work = thread'[t].asked
      BY <3>1 DEF Works
    <3> QED  BY <1>0, <3>1, <3>2, LiveStep
  <2>6. CASE ReportFailure(t)
    <3>1. job'.running = job.running /\ job'.kind = job.kind
      BY <2>0, <2>6 DEF ReportFailure, JobState
    <3>2. /\ thread'[t].asked = thread[t].asked /\ thread'[t].work = thread[t].work
          /\ thread'[t].pc = "ending" /\ thread[t].pc = "failing"
          /\ \A u \in Threads \ {t} : thread'[u] = thread[u]
          /\ UNCHANGED <<starting, server>>
      BY <2>0, <2>6 DEF ReportFailure, Thread
    <3>3. thread'[t].work # None => thread'[t].work = thread'[t].asked
      BY <3>2 DEF Works
    <3> QED  BY <1>0, <3>1, <3>2, <3>3, LiveStep
  <2>7. CASE End(t)
    <3>1. /\ thread[t].pc = "ending" /\ thread'[t].pc = "gone" /\ thread'[t].work = None
          /\ \A u \in Threads \ {t} : thread'[u] = thread[u]
          /\ UNCHANGED <<starting, server>>
      BY <2>0, <2>7 DEF End, Gone
    <3>2. \A u \in Threads : thread'[u].pc = "gone"  BY <3>1 DEF Unique
    <3>3. \A c \in Callers : starting'[c] = None  BY <3>1 DEF Unique
    <3>4. ~job'.running  BY <2>0, <2>7 DEF End, Released, JobState
    <3>5. Unique' /\ Holds' /\ Used' /\ Stopped' /\ Ended'
      BY <3>2, <3>3, <3>4 DEF Unique, Holds, Used, Stopped, Ended
    <3>6. Works'  BY <3>1 DEF Works
    <3> QED  BY <1>0, <3>5, <3>6
  <2> QED  BY <1>5, <2>1, <2>2, <2>3, <2>4, <2>5, <2>6, <2>7 DEF ThreadStep
<1>6. CASE Signal
  BY <1>0, <1>6 DEF Signal, Unique, Holds, Used, Works, Stopped, Ended
<1>7. CASE MainStep
  <2>1. UNCHANGED <<job, starting, thread>>
    BY <1>7 DEF MainStep, CallStop, DaemonStopped, Stop
  <2>2. Unique' /\ Holds' /\ Used' /\ Works'
    BY <2>1 DEF Unique, Holds, Used, Works
  <2>3. Stopped' /\ Ended'
    BY <1>7, <2>1 DEF MainStep, CallStop, DaemonStopped, Stop, MayStop, Claims,
                      Stopped, Ended
  <2> QED  BY <1>0, <2>2, <2>3
<1>8. CASE UNCHANGED vars
  BY <1>0, <1>8 DEF vars, Unique, Holds, Used, Works, Stopped, Ended
<1> QED  BY <1>1, <1>2, <1>3, <1>4, <1>5, <1>6, <1>7, <1>8 DEF Next, Request, Started

LEMMA SlotSafe == Spec => []Slot
BY SlotInit, SlotStep, PTL DEF Spec

-----------------------------------------------------------------------------
(* OneJob: two requests never start two jobs, whatever the order of claims,*)
(* thread creations, failures and ends.                                    *)
THEOREM AtMostOneJob == Spec => []OneJob
<1>1. Slot => OneJob
  BY DEF Slot, Unique, Holds, Used, OneJob, Claims, Live
<1> QED  BY <1>1, SlotSafe, PTL

(* DoesWhatWasAsked: the unlocked read of `kind` finds what the request    *)
(* that created the thread wrote.                                          *)
THEOREM JobDoesWhatWasAsked == Spec => []DoesWhatWasAsked
<1>1. Slot => DoesWhatWasAsked
  BY DEF Slot, Works, DoesWhatWasAsked
<1> QED  BY <1>1, SlotSafe, PTL

(* StopsAfterTheJob: the process outlives every job it started.            *)
THEOREM NoJobOutlivesTheServer == Spec => []StopsAfterTheJob
<1>1. Slot => StopsAfterTheJob
  BY DEF Slot, Ended, Holds, StopsAfterTheJob, Live, Claims
<1> QED  BY <1>1, SlotSafe, PTL

-----------------------------------------------------------------------------
(* What the status page says.  Reported: a job that has not reported a     *)
(* failure has left the flag down, and the last outcome waits for the next *)
(* claim.  Counted: the counter of the running job is its own.             *)

Fate(t) ==
  /\ thread[t].pc \in {"opening", "choosing"} =>
       thread[t].work = None /\ ~thread[t].error /\ ~job.failed
  /\ thread[t].pc = "working" =>
       thread[t].work # None /\ ~thread[t].error /\ ~job.failed
  /\ thread[t].pc = "failing" =>
       thread[t].work # None /\ thread[t].error /\ ~job.failed
  /\ thread[t].pc = "ending" =>
       (job.failed <=> thread[t].error /\ thread[t].work # None)
Reported ==
  /\ job.running => outcome = "none"
  /\ ~job.running => (job.failed <=> outcome = "failed")
  /\ \A c \in Callers : starting[c] # None => ~job.failed
  /\ \A t \in Threads : Fate(t)

LEMMA ReportedStep == ASSUME Slot, Reported, [Next]_vars PROVE Reported'
<1>0. TypeOK /\ Unique /\ Holds /\ Used  BY DEF Slot
<1>1. ASSUME NEW c \in Callers, NEW k \in Kinds, Claim(c, k) PROVE Reported'
  <2>1. /\ ~job.running /\ job'.running /\ ~job'.failed /\ outcome' = "none"
        /\ UNCHANGED thread
    BY <1>0, <1>1 DEF Claim, SlotFree, Claimed, TypeOK, JobState
  <2>2. \A t \in Threads : thread[t].pc = "gone"  BY <1>0, <2>1 DEF Holds
  <2>3. \A t \in Threads : Fate(t)'  BY <2>1, <2>2 DEF Fate
  <2> QED  BY <2>1, <2>3 DEF Reported
<1>2. ASSUME NEW c \in Callers, Refuse(c) PROVE Reported'
  BY <1>2 DEF Refuse, Reported, Fate
<1>3. ASSUME NEW c \in Callers, Create(c) PROVE Reported'
  <2>1. PICK t \in Threads :
          thread' = [thread EXCEPT ![t] = [Gone EXCEPT !.pc = "opening",
                                                       !.asked = starting[c]]]
    BY <1>3 DEF Create
  <2>2. ~job.failed /\ UNCHANGED <<job, outcome>>  BY <1>3 DEF Create, Reported
  <2>3. Fate(t)'  BY <1>0, <2>1, <2>2 DEF Fate, TypeOK, Gone
  <2>4. ASSUME NEW u \in Threads, u # t PROVE Fate(u)'
    BY <1>0, <2>1, <2>2, <2>4 DEF Fate, TypeOK, Reported
  <2>5. \A d \in Callers : starting'[d] # None => ~job'.failed
    BY <2>2
  <2> QED  BY <2>2, <2>3, <2>4, <2>5 DEF Reported
<1>4. ASSUME NEW c \in Callers, CreateFails(c) PROVE Reported'
  <2>1. /\ ~job'.running /\ job'.failed = job.failed /\ ~job.failed
        /\ outcome = "none" /\ UNCHANGED <<thread, outcome>>
    BY <1>0, <1>4 DEF CreateFails, Unclaimed, TypeOK, JobState, Reported, Holds
  <2>2. \A t \in Threads : Fate(t)'  BY <2>1 DEF Reported, Fate
  <2> QED  BY <2>1, <2>2 DEF Reported
<1>5. ASSUME NEW t \in Threads, ThreadStep(t) PROVE Reported'
  <2>0. /\ Fate(t) /\ thread \in [Threads -> Thread] /\ thread[t] \in Thread
        /\ job \in JobState /\ job.failed \in BOOLEAN
        /\ thread[t].pc # "gone" => job.running /\ outcome = "none"
        /\ thread[t].pc # "gone" => \A c \in Callers : starting[c] = None
        /\ thread[t].pc # "gone" => \A u \in Threads \ {t} : thread[u].pc = "gone"
    BY <1>0 DEF Reported, TypeOK, JobState, Holds, Unique
  <2>1. CASE Open(t) \/ OpenFails(t) \/ Choose(t) \/ WorkEnds(t)
    <3>1. UNCHANGED <<job, starting, outcome>>
      BY <2>1 DEF Open, OpenFails, Choose, WorkEnds
    <3>2. \A u \in Threads \ {t} : Fate(u)'
      BY <2>0, <2>1, <3>1 DEF Open, OpenFails, Choose, WorkEnds, Fate
    <3>3. CASE Open(t) \/ OpenFails(t)
      BY <2>0, <3>1, <3>2, <3>3 DEF Open, OpenFails, Fate, Thread, Reported
    <3>4. CASE Choose(t)
      <4>1. thread'[t].pc = "working" /\ thread'[t].work \in Kinds
            /\ thread'[t].error = thread[t].error
        BY <2>0, <3>4 DEF Choose, Thread, Kinds
      <4> QED  BY <2>0, <3>1, <3>2, <3>4, <4>1, NoneAssumption DEF Choose, Fate, Reported
    <3>5. CASE WorkEnds(t)
      <4>1. PICK e \in BOOLEAN :
              thread' = [thread EXCEPT ![t].error = e,
                                       ![t].pc = IF e THEN "failing" ELSE "ending"]
        BY <3>5 DEF WorkEnds
      <4>2. /\ thread'[t].pc = IF e THEN "failing" ELSE "ending"
            /\ thread'[t].error = e /\ thread'[t].work = thread[t].work
        BY <2>0, <4>1 DEF Thread
      <4> QED  BY <2>0, <3>1, <3>2, <3>5, <4>2 DEF WorkEnds, Fate, Reported
    <3> QED  BY <2>1, <3>3, <3>4, <3>5
  <2>2. CASE Progress(t)
    <3>1. /\ UNCHANGED <<starting, outcome>> /\ job'.running = job.running
          /\ job'.failed = job.failed
      BY <2>0, <2>2 DEF Progress, JobState
    <3>2. Fate(t)' /\ \A u \in Threads \ {t} : Fate(u)'
      BY <2>0, <2>2, <3>1 DEF Progress, Fate, Thread
    <3> QED  BY <3>1, <3>2 DEF Reported
  <2>3. CASE ReportFailure(t)
    <3>1. /\ UNCHANGED <<starting, outcome>> /\ job'.running /\ job'.failed
      BY <2>0, <2>3 DEF ReportFailure, JobState
    <3>2. Fate(t)' /\ \A u \in Threads \ {t} : Fate(u)'
      BY <2>0, <2>3, <3>1 DEF ReportFailure, Fate, Thread
    <3> QED  BY <2>0, <2>3, <3>1, <3>2 DEF Reported, ReportFailure
  <2>4. CASE End(t)
    <3>1. /\ UNCHANGED starting /\ ~job'.running /\ job'.failed = job.failed
      BY <2>0, <2>4 DEF End, Released, JobState
    <3>2. job.failed <=> thread[t].error /\ thread[t].work # None
      BY <2>0, <2>4 DEF End, Fate
    <3>3. job.failed <=> outcome' = "failed"
      BY <2>4, <3>2 DEF End
    <3>4. \A u \in Threads : Fate(u)'
      BY <2>0, <2>4 DEF End, Fate, Gone
    <3> QED  BY <2>0, <2>4, <3>1, <3>3, <3>4 DEF Reported, End
  <2> QED  BY <1>5, <2>1, <2>2, <2>3, <2>4 DEF ThreadStep
<1>6. CASE Signal
  BY <1>6 DEF Signal, Reported, Fate
<1>7. CASE MainStep
  BY <1>7 DEF MainStep, CallStop, DaemonStopped, Stop, Reported, Fate
<1>8. CASE UNCHANGED vars
  BY <1>8 DEF vars, Reported, Fate
<1> QED  BY <1>1, <1>2, <1>3, <1>4, <1>5, <1>6, <1>7, <1>8 DEF Next, Request, Started

LEMMA ReportedSafe == Spec => []Reported
<1>1. Init => Reported
  BY DEF Init, Reported, Fate, Gone
<1> QED  BY <1>1, ReportedStep, SlotSafe, PTL DEF Spec

(* FailureReported: the flag of the status page is exactly that the last   *)
(* job's work failed, from the release of the slot to the next claim.      *)
THEOREM FailuresAreReported == Spec => []FailureReported
<1>1. Slot /\ Reported => FailureReported
  BY DEF Slot, TypeOK, JobState, Reported, FailureReported
<1> QED  BY <1>1, ReportedSafe, SlotSafe, PTL

-----------------------------------------------------------------------------
(* The counter of the job that runs is what the job has done: it is reset  *)
(* by the claim, and no other job writes it.                               *)

Own(t) ==
  /\ thread[t].work = None => thread[t].done = 0 /\ job.counts[thread[t].asked] = 0
  /\ thread[t].work # None => job.counts[thread[t].work] = thread[t].done
Counted ==
  /\ \A c \in Callers : starting[c] # None => job.counts[starting[c]] = 0
  /\ \A t \in Threads : thread[t].pc # "gone" => Own(t)

LEMMA CountedStep ==
  ASSUME Slot, Reported, Counted, [Next]_vars
  PROVE  Counted' /\ (job.running /\ job'.running =>
                        \A k \in Kinds : job'.counts[k] >= job.counts[k])
<1> DEFINE Forward == job.running /\ job'.running =>
                        \A k \in Kinds : job'.counts[k] >= job.counts[k]
<1>0. TypeOK /\ Unique /\ Holds /\ Works  BY DEF Slot
<1>a. job \in JobState /\ job.counts \in [Kinds -> 0..MaxPackages]
  BY <1>0 DEF TypeOK, JobState
<1>b. \A k \in Kinds : job.counts[k] \in Nat
  BY <1>a, PackagesAssumption
<1>1. ASSUME NEW c \in Callers, NEW k \in Kinds, Claim(c, k) PROVE Counted' /\ Forward
  <2>1. /\ ~job.running /\ job'.counts[k] = 0 /\ UNCHANGED thread
        /\ starting' = [starting EXCEPT ![c] = k]
    BY <1>a, <1>1 DEF Claim, SlotFree, Claimed, JobState
  <2>2. \A t \in Threads : thread[t].pc = "gone"  BY <1>0, <2>1 DEF Holds
  <2>3. \A d \in Callers \ {c} : starting[d] = None  BY <1>0, <2>1 DEF Holds
  <2> QED  BY <1>0, <2>1, <2>2, <2>3 DEF Counted, TypeOK
<1>2. ASSUME NEW c \in Callers, Refuse(c) PROVE Counted' /\ Forward
  BY <1>2, <1>b DEF Refuse, Counted, Own
<1>3. ASSUME NEW c \in Callers, Create(c) PROVE Counted' /\ Forward
  <2>1. PICK t \in Threads : thread[t].pc = "gone" /\
          thread' = [thread EXCEPT ![t] = [Gone EXCEPT !.pc = "opening",
                                                       !.asked = starting[c]]]
    BY <1>3 DEF Create
  <2>2. /\ UNCHANGED job /\ starting' = [starting EXCEPT ![c] = None]
        /\ job.counts[starting[c]] = 0
    BY <1>3 DEF Create, Counted
  <2>3. Own(t)'  BY <1>0, <2>1, <2>2 DEF Own, TypeOK, Gone
  <2>4. \A u \in Threads \ {t} : thread'[u].pc # "gone" => Own(u)'
    BY <1>0, <2>1, <2>2 DEF Own, TypeOK, Counted
  <2>5. \A d \in Callers : starting'[d] # None => job'.counts[starting'[d]] = 0
    BY <1>0, <2>2 DEF Counted, TypeOK
  <2> QED  BY <1>b, <2>2, <2>3, <2>4, <2>5 DEF Counted
<1>4. ASSUME NEW c \in Callers, CreateFails(c) PROVE Counted' /\ Forward
  <2>1. /\ ~job'.running /\ job'.counts = job.counts /\ UNCHANGED thread
        /\ starting' = [starting EXCEPT ![c] = None]
    BY <1>a, <1>4 DEF CreateFails, Unclaimed, JobState
  <2> QED  BY <1>0, <2>1 DEF Counted, Own, TypeOK
<1>5. ASSUME NEW t \in Threads, ThreadStep(t) PROVE Counted' /\ Forward
  <2>0. /\ thread \in [Threads -> Thread] /\ thread[t] \in Thread
        /\ thread[t].pc # "gone" /\ Own(t) /\ thread[t].asked \in Kinds
        /\ job.kind = thread[t].asked
        /\ thread[t].work # None => thread[t].work = thread[t].asked
        /\ UNCHANGED starting
        /\ \A c \in Callers : starting[c] = None
        /\ \A u \in Threads \ {t} : thread[u].pc = "gone"
    BY <1>0, <1>5 DEF TypeOK, Counted, Holds, Works, Unique, ThreadStep, Open, OpenFails,
                      Choose, Progress, WorkEnds, ReportFailure, End
  <2>1. ASSUME job'.counts = job.counts, NEW r, thread' = [thread EXCEPT ![t] = r],
               r.pc = "gone" \/ (r.done = thread[t].done /\ r.asked = thread[t].asked
                                 /\ r.work \in {thread[t].work, thread[t].asked})
        PROVE  Counted' /\ Forward
    <3>1. \A u \in Threads \ {t} : thread'[u].pc = "gone"  BY <2>0, <2>1
    <3>2. thread'[t] = r  BY <2>0, <2>1
    <3>3. r.pc # "gone" => Own(t)'
      BY <2>0, <2>1, <3>2, NoneAssumption DEF Own
    <3> QED  BY <1>b, <2>0, <2>1, <3>1, <3>2, <3>3 DEF Counted
  <2>2. CASE Open(t)
    <3> DEFINE r == [thread[t] EXCEPT !.pc = "choosing"]
    <3>1. job'.counts = job.counts /\ thread' = [thread EXCEPT ![t] = r]
      BY <2>2 DEF Open
    <3>2. r.done = thread[t].done /\ r.asked = thread[t].asked /\ r.work = thread[t].work
      BY <2>0 DEF Thread
    <3> HIDE DEF r
    <3> QED  BY <2>1, <3>1, <3>2
  <2>3. CASE OpenFails(t)
    <3> DEFINE r == [thread[t] EXCEPT !.pc = "ending", !.error = TRUE]
    <3>1. job'.counts = job.counts /\ thread' = [thread EXCEPT ![t] = r]
      BY <2>3 DEF OpenFails
    <3>2. r.done = thread[t].done /\ r.asked = thread[t].asked /\ r.work = thread[t].work
      BY <2>0 DEF Thread
    <3> HIDE DEF r
    <3> QED  BY <2>1, <3>1, <3>2
  <2>4. CASE Choose(t)
    <3> DEFINE w == IF job.kind = "scan" THEN "scan" ELSE "verify"
               r == [thread[t] EXCEPT !.pc = "working", !.work = w]
    <3>1. job'.counts = job.counts /\ thread' = [thread EXCEPT ![t] = r]
      BY <2>4 DEF Choose
    <3>2. w = thread[t].asked  BY <2>0 DEF Kinds
    <3>3. r.done = thread[t].done /\ r.asked = thread[t].asked /\ r.work = w
      BY <2>0 DEF Thread
    <3> HIDE DEF r, w
    <3> QED  BY <2>1, <3>1, <3>2, <3>3
  <2>5. CASE WorkEnds(t)
    <3>1. PICK e \in BOOLEAN : thread' = [thread EXCEPT ![t] = [thread[t] EXCEPT
             !.error = e, !.pc = IF e THEN "failing" ELSE "ending"]]
      BY <2>5 DEF WorkEnds
    <3> DEFINE r == [thread[t] EXCEPT !.error = e, !.pc = IF e THEN "failing" ELSE "ending"]
    <3>2. job'.counts = job.counts  BY <2>5 DEF WorkEnds
    <3>3. r.done = thread[t].done /\ r.asked = thread[t].asked /\ r.work = thread[t].work
      BY <2>0 DEF Thread
    <3>4. thread' = [thread EXCEPT ![t] = r]  BY <3>1
    <3> HIDE DEF r
    <3> QED  BY <2>1, <3>2, <3>3, <3>4
  <2>6. CASE ReportFailure(t)
    <3> DEFINE r == [thread[t] EXCEPT !.pc = "ending"]
    <3>1. job'.counts = job.counts /\ thread' = [thread EXCEPT ![t] = r]
      BY <1>a, <2>6 DEF ReportFailure, JobState
    <3>2. r.done = thread[t].done /\ r.asked = thread[t].asked /\ r.work = thread[t].work
      BY <2>0 DEF Thread
    <3> HIDE DEF r
    <3> QED  BY <2>1, <3>1, <3>2
  <2>7. CASE End(t)
    <3>1. job'.counts = job.counts /\ thread' = [thread EXCEPT ![t] = Gone]
      BY <1>a, <2>7 DEF End, Released, JobState
    <3>2. Gone.pc = "gone"  BY DEF Gone
    <3> QED  BY <2>1, <3>1, <3>2
  <2>8. CASE Progress(t)
    <3> DEFINE n == thread[t].done + 1
               k == thread[t].work
    <3>1. /\ job'.counts = [job.counts EXCEPT ![k] = n]
          /\ thread' = [thread EXCEPT ![t] = [thread[t] EXCEPT !.done = n]]
      BY <1>a, <2>8 DEF Progress, JobState
    <3>2. k \in Kinds /\ k # None /\ thread[t].done \in Nat
      BY <2>0, <2>8, NoneAssumption, PackagesAssumption DEF Progress, Thread, Reported, Fate
    <3>3. job.counts[k] = thread[t].done  BY <2>0, <3>2 DEF Own
    <3>4. \A u \in Threads \ {t} : thread'[u].pc = "gone"  BY <2>0, <3>1
    <3>5. thread'[t].work = k /\ thread'[t].done = n  BY <2>0, <3>1 DEF Thread
    <3>6. job'.counts[k] = n /\ \A j \in Kinds \ {k} : job'.counts[j] = job.counts[j]
      BY <1>a, <3>1, <3>2
    <3>7. n >= thread[t].done  BY <3>2
    <3> HIDE DEF n, k
    <3>8. Own(t)'  BY <3>2, <3>5, <3>6 DEF Own
    <3>9. Forward  BY <1>b, <3>2, <3>3, <3>6, <3>7
    <3> QED  BY <2>0, <3>4, <3>8, <3>9 DEF Counted
  <2> QED  BY <1>5, <2>2, <2>3, <2>4, <2>5, <2>6, <2>7, <2>8 DEF ThreadStep
<1>6. CASE Signal
  BY <1>6, <1>b DEF Signal, Counted, Own
<1>7. CASE MainStep
  BY <1>7, <1>b DEF MainStep, CallStop, DaemonStopped, Stop, Counted, Own
<1>8. CASE UNCHANGED vars
  BY <1>8, <1>b DEF vars, Counted, Own
<1> QED  BY <1>1, <1>2, <1>3, <1>4, <1>5, <1>6, <1>7, <1>8 DEF Next, Request, Started

(* ProgressForward: while one job runs, the counters the status page polls *)
(* never go back.                                                          *)
THEOREM CountersNeverGoBack == Spec => ProgressForward
<1>1. Init => Counted
  BY DEF Init, Counted, Gone
<1>2. Slot /\ Reported /\ Counted /\ [Next]_vars => Counted'
  BY CountedStep
<1>3. Slot /\ Reported /\ Counted /\ [Next]_vars =>
        [job.running /\ job'.running =>
           \A k \in Kinds : job'.counts[k] >= job.counts[k]]_vars
  BY CountedStep
<1> QED  BY <1>1, <1>2, <1>3, SlotSafe, ReportedSafe, PTL DEF Spec, ProgressForward

-----------------------------------------------------------------------------
(* The HTTP API: who is refused, and who is let in.                        *)

(* The end of a session follows its last use, a session is created for a   *)
(* token that exists, and a pending request was admitted from the visit's. *)
SessionRow == [token : Tokens, revoked : BOOLEAN, until : Nat]
SessionsKept ==
  /\ now \in Nat
  /\ sessions \in Seq(SessionRow) /\ seen \in Seq(Nat) /\ Len(seen) = Len(sessions)
  /\ \A i \in 1..Len(sessions) : sessions[i].until = seen[i] + SessionDays
ExchangesNameTokens ==
  request # Api!Idle /\ request.req.path = "session" => request.req.body \in Tokens
ApiInv == visit \in Visits /\ SessionsKept /\ ExchangesNameTokens

(* What a step may say and whom it may let in.                             *)
Justified ==
  /\ reply'.status = 401 => Api!Reason(reply'.req)
  /\ request = Api!Idle /\ request' # Api!Idle => ~Api!Reason(request'.req)

(* Refusing a credential has a reason, accepting it leaves none.           *)
LEMMA AcceptedOrReason ==
  ASSUME Api!DaysAssumption, SessionsKept, NEW req, Api!Protected(req)
  PROVE  Api!Accepted(req) <=> ~Api!Reason(req)
<1>1. req.path # "session"
  BY DEF Api!Protected
<1>2. CASE req.via = "bearer"
  BY <1>1, <1>2 DEF Api!Accepted, Api!Reason
<1>3. CASE req.via = "cookie"
  <2>1. DOMAIN sessions = 1..Len(sessions)
    BY DEF SessionsKept
  <2>2. CASE req.who \notin DOMAIN sessions
    BY <1>1, <1>3, <2>2 DEF Api!Accepted, Api!Reason
  <2>3. CASE req.who \in DOMAIN sessions
    <3>1. sessions[req.who].until = seen[req.who] + SessionDays
      BY <2>1, <2>3 DEF SessionsKept
    <3>2. sessions[req.who].until \in Nat /\ now \in Nat
      <4>1. sessions[req.who] \in SessionRow
        BY <2>1, <2>3 DEF SessionsKept
      <4> QED
        BY <4>1 DEF SessionsKept, SessionRow
    <3>3. ~(sessions[req.who].until >= now) <=> now > seen[req.who] + SessionDays
      BY <3>1, <3>2
    <3>4. Api!Accepted(req) <=>
            /\ ~sessions[req.who].revoked /\ tokens[sessions[req.who].token] = "active"
            /\ sessions[req.who].until >= now
      BY <1>3, <2>3 DEF Api!Accepted
    <3>5. Api!Reason(req) <=>
            \/ sessions[req.who].revoked \/ tokens[sessions[req.who].token] # "active"
            \/ now > seen[req.who] + SessionDays
      BY <1>1, <1>3, <2>3 DEF Api!Reason
    <3> QED
      BY <3>3, <3>4, <3>5
  <2> QED
    BY <2>2, <2>3
<1>4. CASE req.via \notin {"bearer", "cookie"}
  BY <1>1, <1>4 DEF Api!Accepted, Api!Reason
<1> QED
  BY <1>2, <1>3, <1>4

(* What moves when a session is used, logged out or created.               *)
LEMMA SlidKeeps ==
  ASSUME Api!DaysAssumption, SessionsKept, NEW req, Api!Slid(req), now' = now
  PROVE  SessionsKept'
<1>1. CASE req.via = "cookie" /\ Api!Accepted(req) /\ ~writer.open
  <2>1. /\ sessions' = [sessions EXCEPT ![req.who].until = now + SessionDays]
        /\ seen' = [seen EXCEPT ![req.who] = now]
    BY <1>1 DEF Api!Slid
  <2>2. req.who \in 1..Len(sessions)
    BY <1>1 DEF Api!Accepted, SessionsKept
  <2>3. sessions' = [sessions EXCEPT ![req.who] = [sessions[req.who] EXCEPT !.until = now + SessionDays]]
    BY <2>1
  <2>4. PICK row : row = [sessions[req.who] EXCEPT !.until = now + SessionDays]
    OBVIOUS
  <2>5. sessions[req.who] \in SessionRow /\ now + SessionDays \in Nat /\ now \in Nat
    BY <2>2 DEF SessionsKept, Api!DaysAssumption
  <2>6. row \in SessionRow /\ row.until = now + SessionDays
    BY <2>4, <2>5 DEF SessionRow
  <2>7. /\ sessions' = [sessions EXCEPT ![req.who] = row] /\ sessions' \in Seq(SessionRow)
        /\ seen' \in Seq(Nat) /\ Len(sessions') = Len(sessions) /\ Len(seen') = Len(seen)
    BY <2>1, <2>2, <2>3, <2>4, <2>5, <2>6 DEF SessionsKept
  <2>8. ASSUME NEW i \in 1..Len(sessions') PROVE sessions'[i].until = seen'[i] + SessionDays
    <3>1. sessions'[i] = IF i = req.who THEN row ELSE sessions[i]
      BY <2>7 DEF SessionsKept
    <3>2. seen'[i] = IF i = req.who THEN now ELSE seen[i]
      BY <2>1, <2>7 DEF SessionsKept
    <3> QED
      BY <2>6, <2>7, <3>1, <3>2 DEF SessionsKept
  <2> QED
    BY <2>5, <2>7, <2>8 DEF SessionsKept
<1>2. CASE ~(req.via = "cookie" /\ Api!Accepted(req) /\ ~writer.open)
  <2>1. sessions' = sessions /\ seen' = seen
    BY <1>2 DEF Api!Slid
  <2> QED
    BY <2>1 DEF SessionsKept
<1> QED
  BY <1>1, <1>2

LEMMA LogoutKeeps ==
  ASSUME SessionsKept, NEW req, Api!Logout(req)
  PROVE  SessionsKept'
<1>1. now' = now /\ seen' = seen
  BY DEF Api!Logout
<1>2. CASE sessions' = sessions
  BY <1>1, <1>2 DEF SessionsKept
<1>3. CASE /\ req.who \in DOMAIN sessions
           /\ sessions' = [sessions EXCEPT ![req.who].revoked = TRUE]
  <2>1. req.who \in 1..Len(sessions)
    BY <1>3 DEF SessionsKept
  <2>2. sessions' = [sessions EXCEPT ![req.who] = [sessions[req.who] EXCEPT !.revoked = TRUE]]
    BY <1>3
  <2>3. PICK row : row = [sessions[req.who] EXCEPT !.revoked = TRUE]
    OBVIOUS
  <2>4. sessions[req.who] \in SessionRow
    BY <2>1 DEF SessionsKept
  <2>5. row \in SessionRow /\ row.until = sessions[req.who].until
    BY <2>3, <2>4 DEF SessionRow
  <2>6. /\ sessions' = [sessions EXCEPT ![req.who] = row] /\ sessions' \in Seq(SessionRow)
        /\ Len(sessions') = Len(sessions)
    BY <2>1, <2>2, <2>3, <2>5 DEF SessionsKept
  <2>7. ASSUME NEW i \in 1..Len(sessions') PROVE sessions'[i].until = sessions[i].until
    BY <2>5, <2>6, <2>7 DEF SessionsKept
  <2> QED
    BY <1>1, <2>6, <2>7 DEF SessionsKept
<1> QED
  BY <1>2, <1>3 DEF Api!Logout

LEMMA InsertKeeps ==
  ASSUME Api!DaysAssumption, SessionsKept, ExchangesNameTokens, Api!InsertSession
  PROVE  SessionsKept'
<1>1. request.req.body \in Tokens
  BY DEF ExchangesNameTokens, Api!InsertSession, Api!Exchanging
<1>2. PICK row : row = [token |-> request.req.body, revoked |-> FALSE,
                        until |-> now + SessionDays]
  OBVIOUS
<1>3. row \in SessionRow /\ row.until = now + SessionDays
  BY <1>1, <1>2 DEF SessionRow, SessionsKept, Api!DaysAssumption
<1>4. sessions' = Append(sessions, row) /\ seen' = Append(seen, now) /\ now' = now
  BY <1>2 DEF Api!InsertSession
<1> QED
  BY <1>3, <1>4 DEF SessionsKept

(* The steps that answer a caller or let one in.                           *)
LEMMA RequestsAreJustified ==
  ASSUME Api!DaysAssumption, Api!VisitsAssumption, ApiInv, NEW req \in visit.requests,
         \/ Api!Gated(req) \/ Api!Unauthorized(req) \/ Api!Direct(req) \/ Api!Probe(req)
         \/ Api!Logout(req) \/ Api!Exchange(req) \/ Api!Admit(req)
  PROVE  ApiInv' /\ Justified
<1> USE DEF Api!Answered, Api!Unanswered, Api!NoAnswer, Api!Turn
<1>1. CASE Api!Gated(req)
  <2>1. Api!Gate(req) # 401
    BY DEF Api!Gate
  <2> QED
    BY <1>1, <2>1 DEF Api!Gated, Api!AccountsKept, ApiInv, SessionsKept, ExchangesNameTokens,
       Justified
<1>2. CASE Api!Unauthorized(req)
  <2>1. Api!Reason(req)
    BY <1>2, AcceptedOrReason DEF ApiInv, Api!Unauthorized
  <2> QED
    BY <1>2, <2>1 DEF Api!Unauthorized, Api!AccountsKept, ApiInv, SessionsKept,
       ExchangesNameTokens, Justified
<1>3. CASE Api!Direct(req)
  <2>1. Api!Known(req) # 401
    BY DEF Api!Known
  <2>2. SessionsKept'
    BY <1>3, SlidKeeps DEF ApiInv, Api!Direct
  <2> QED
    BY <1>3, <2>1, <2>2 DEF Api!Direct, ApiInv, ExchangesNameTokens, Justified
<1>4. CASE Api!Probe(req)
  <2>1. SessionsKept'
    BY <1>4, SlidKeeps DEF ApiInv, Api!Probe
  <2> QED
    BY <1>4, <2>1 DEF Api!Probe, ApiInv, ExchangesNameTokens, Justified
<1>5. CASE Api!Logout(req)
  <2>1. SessionsKept'
    BY <1>5, LogoutKeeps DEF ApiInv
  <2> QED
    BY <1>5, <2>1 DEF Api!Logout, ApiInv, ExchangesNameTokens, Justified
<1>6. CASE Api!Exchange(req)
  <2>1. req.path = "session" /\ req.method = "POST" /\ Api!Gate(req) = 0
    BY <1>6 DEF Api!Exchange
  <2>2. SessionsKept' /\ visit' = visit
    BY <1>6 DEF Api!Exchange, Api!AccountsKept, ApiInv, SessionsKept
  <2>3. CASE tokens[req.body] = "active"
    <3>1. request' = [step |-> 1, req |-> req, parts |-> <<>>] /\ reply' = [status |-> 0]
      BY <1>6, <2>3 DEF Api!Exchange
    <3>2. req.body # "malformed"
      BY <2>1 DEF Api!Gate
    <3>3. req.body \in Tokens
      BY <2>1, <3>2 DEF Api!VisitsAssumption, ApiInv
    <3>4. ~Api!Reason(req)
      BY <2>1, <2>3 DEF Api!Reason
    <3> QED
      BY <2>2, <3>1, <3>3, <3>4 DEF ApiInv, ExchangesNameTokens, Justified
  <2>4. CASE tokens[req.body] # "active"
    <3>1. request' = request /\ reply'.status = 401 /\ reply'.req = req
      BY <1>6, <2>4 DEF Api!Exchange
    <3>2. Api!Reason(req)
      BY <2>1, <2>4 DEF Api!Reason
    <3> QED
      BY <2>2, <3>1, <3>2 DEF ApiInv, ExchangesNameTokens, Justified
  <2> QED
    BY <2>3, <2>4
<1>7. CASE Api!Admit(req)
  <2>1. ~Api!Reason(req)
    BY <1>7, AcceptedOrReason DEF ApiInv, Api!Admit
  <2>2. SessionsKept'
    BY <1>7, SlidKeeps DEF ApiInv, Api!Admit
  <2>3. /\ request' = [step |-> 1, req |-> req, parts |-> <<>>] /\ reply' = [status |-> 0]
        /\ req.path # "session" /\ visit' = visit
    BY <1>7 DEF Api!Admit, Api!Protected
  <2> QED
    BY <2>1, <2>2, <2>3 DEF ApiInv, ExchangesNameTokens, Justified
<1> QED
  BY <1>1, <1>2, <1>3, <1>4, <1>5, <1>6, <1>7

LEMMA ApiStep ==
  ASSUME Api!DaysAssumption, Api!VisitsAssumption, ApiInv, Api!Next
  PROVE  ApiInv' /\ Justified
<1>1. ASSUME NEW req \in visit.requests,
             \/ Api!Gated(req) \/ Api!Unauthorized(req) \/ Api!Direct(req) \/ Api!Probe(req)
             \/ Api!Logout(req) \/ Api!Exchange(req) \/ Api!Admit(req)
      PROVE  ApiInv' /\ Justified
  BY <1>1, RequestsAreJustified
<1> USE DEF Api!Answered, Api!Unanswered, Api!NoAnswer
<1>2. CASE Api!InsertSession
  <2>1. SessionsKept'
    BY <1>2, InsertKeeps DEF ApiInv
  <2> QED
    BY <1>2, <2>1 DEF Api!InsertSession, ApiInv, ExchangesNameTokens, Justified
<1>3. CASE Api!GiveUp
  BY <1>3 DEF Api!GiveUp, Api!AccountsKept, ApiInv, SessionsKept, ExchangesNameTokens, Justified
<1>4. CASE Api!Fetch
  <2>1. /\ request # Api!Idle /\ request.req.path # "session"
        /\ request' = Api!Idle \/ request'.req = request.req
        /\ reply'.status # 401
    BY <1>4 DEF Api!Fetch, Api!Content
  <2> QED
    BY <1>4, <2>1 DEF Api!Fetch, Api!AccountsKept, ApiInv, SessionsKept, ExchangesNameTokens,
       Justified
<1>5. ASSUME \/ \E place \in Places, m \in visit.manifests, full \in visit.verifying :
                   Api!Begin(place, m, full)
             \/ Api!Commit \/ Api!Rollback \/ Api!Sweep \/ Api!JobEnds
             \/ \E place \in Places : Api!Record(place)
      PROVE  ApiInv' /\ Justified
  <2>1. /\ UNCHANGED <<tokens, sessions, now, seen, request, visit>>
        /\ reply' = [status |-> 0]
    BY <1>5 DEF Api!Begin, Api!Commit, Api!Rollback, Api!Sweep, Api!JobEnds, Api!Record,
       Api!AccountsKept
  <2> QED
    BY <2>1 DEF ApiInv, SessionsKept, ExchangesNameTokens, Justified
<1>6. ASSUME NEW t \in Tokens, Api!TokenCreate(t) \/ Api!TokenRevoke(t)
      PROVE  ApiInv' /\ Justified
  BY <1>6 DEF Api!TokenCreate, Api!TokenRevoke, ApiInv, SessionsKept, ExchangesNameTokens,
     Justified
<1>7. CASE Api!Tick
  BY <1>7 DEF Api!Tick, ApiInv, SessionsKept, ExchangesNameTokens, Justified
<1> QED
  BY <1>1, <1>2, <1>3, <1>4, <1>5, <1>6, <1>7 DEF Api!Next

(* RefusalsHaveReasons: whoever is told 401 has no good credential, and    *)
(* whoever is let in has one, for any tokens and days, whatever a job      *)
(* writes meanwhile.                                                       *)
THEOREM CallersAreJudgedRightly ==
  ASSUME Api!DaysAssumption, Api!VisitsAssumption
  PROVE  Api!Spec => Api!RefusalsHaveReasons
<1>1. Api!Init => ApiInv
  BY DEF Api!Init, Api!DaysAssumption, ApiInv, SessionsKept, ExchangesNameTokens
<1>2. ApiInv /\ [Api!Next]_(Api!vars) => ApiInv'
  <2>1. CASE UNCHANGED Api!vars
    BY <2>1 DEF Api!vars, ApiInv, SessionsKept, ExchangesNameTokens
  <2> QED
    BY <2>1, ApiStep
<1>3. ApiInv /\ [Api!Next]_(Api!vars) => [Justified]_(Api!vars)
  BY ApiStep
<1> QED
  BY <1>1, <1>2, <1>3, PTL DEF Api!Spec, Api!RefusalsHaveReasons, Justified
=============================================================================
