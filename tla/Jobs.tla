--------------------------------- MODULE Jobs ---------------------------------
(***************************************************************************)
(* The background job registry: every submitted job has a thread that runs *)
(* JobManager._run, while any API thread may cancel it by its id.          *)
(*                                                                         *)
(* The thread claims its job in a loop: it looks at the cancel flag        *)
(* without a lock, then at the status under the manager's lock, and goes   *)
(* round once more after it has set the status to RUNNING.  cancel() holds *)
(* both the manager's lock and the job's, so it is one step.  What a job    *)
(* computes is left out but for whether it returns or raises; its answer    *)
(* and its status are two assignments, with the manager's lock held, and a  *)
(* client that reads them one after the other holds no lock.                *)
(***************************************************************************)
EXTENDS Naturals

CONSTANT JobIds

VARIABLES
  status,    \* Job.status, or "absent" before submit()
  cancel,    \* Job._cancel
  finished,  \* Job.finished_at is set
  answer,    \* which of Job.result and Job.error are set
  thread,    \* where the job's thread is in _run
  view       \* what a client has read of a job: one request at a time

vars == <<status, cancel, finished, answer, thread, view>>

Terminal == {"succeeded", "failed", "cancelled"}

\* The two places in _run where a thread has made the first of its two
\* assignments and still holds the manager's lock.
Halfway == {"returned", "raised"}

LockFree == \A j \in JobIds : thread[j] \notin Halfway

Init ==
  /\ status = [j \in JobIds |-> "absent"]
  /\ cancel = [j \in JobIds |-> FALSE]
  /\ finished = [j \in JobIds |-> FALSE]
  /\ answer = [j \in JobIds |-> {}]
  /\ thread = [j \in JobIds |-> "none"]
  /\ view = [at |-> "idle", job |-> "none", status |-> "absent",
             answer |-> {}]

Submit(j) ==
  /\ thread[j] = "none" /\ LockFree
  /\ status' = [status EXCEPT ![j] = "pending"]
  /\ thread' = [thread EXCEPT ![j] = "poll"]
  /\ UNCHANGED <<cancel, finished, answer, view>>

\* Mutant: no look at the status, a job that is through is cancelled too.
RequestCancelAlways(j) ==
  /\ cancel' = [cancel EXCEPT ![j] = TRUE]
  /\ status' = [status EXCEPT ![j] = "cancelled"]
  /\ finished' = [finished EXCEPT ![j] = TRUE]

\* Job.request_cancel
RequestCancel(j) ==
  /\ cancel' = [cancel EXCEPT ![j] = TRUE]
  /\ IF status[j] = "pending"
     THEN /\ status' = [status EXCEPT ![j] = "cancelled"]
          /\ finished' = [finished EXCEPT ![j] = TRUE]
     ELSE UNCHANGED <<status, finished>>

\* JobManager.cancel, also for a job that is through
Cancel(j) ==
  /\ thread[j] # "none" /\ LockFree
  /\ RequestCancel(j)
  /\ UNCHANGED <<answer, thread, view>>

-----------------------------------------------------------------------------
(* The job's thread: JobManager._run *)

Poll(j) ==
  /\ thread[j] = "poll"
  /\ thread' = [thread EXCEPT ![j] = IF cancel[j] THEN "drop" ELSE "claim"]
  /\ UNCHANGED <<status, cancel, finished, answer, view>>

Drop(j) ==
  /\ thread[j] = "drop"
  /\ RequestCancel(j)
  /\ thread' = [thread EXCEPT ![j] = "gone"]
  /\ UNCHANGED <<answer, view>>

\* Mutant: a status other than PENDING ends the thread, although it is the
\* thread itself that has set RUNNING.
ClaimedByOther(j) == "gone"

Claimed(j) == "work"

\* The status is looked at again after it was set: a job cancelled since the
\* poll is not pending either, and goes to work.
Claim(j) ==
  /\ thread[j] = "claim" /\ LockFree
  /\ IF status[j] = "pending"
     THEN /\ status' = [status EXCEPT ![j] = "running"]
          /\ thread' = [thread EXCEPT ![j] = "poll"]
     ELSE /\ thread' = [thread EXCEPT ![j] = Claimed(j)]
          /\ UNCHANGED status
  /\ UNCHANGED <<cancel, finished, answer, view>>

\* Mutant: the finally block is skipped.
AfterAnswerGone == "gone"

AfterAnswer == "stamp"

\* Mutants: the return value is stored as it is, without "or {}"; or the
\* status is set before the answer.
AnsweredAsIs(j, a) == [answer EXCEPT ![j] = @ \cup {"none"}]
StatusFirst == <<"status", "answer">>

Answered(j, a) == [answer EXCEPT ![j] = @ \cup {a}]

\* The order of the two assignments.
Assigned == <<"answer", "status">>

Assign(field, j, a) ==
  \/ /\ field = "answer"
     /\ answer' = Answered(j, a)
     /\ UNCHANGED status
  \/ /\ field = "status"
     /\ status' = [status EXCEPT ![j] =
                      IF a = "result" THEN "succeeded" ELSE "failed"]
     /\ UNCHANGED answer

\* func(job) returns
Succeed(j) ==
  /\ thread[j] = "work" /\ LockFree
  /\ Assign(Assigned[1], j, "result")
  /\ thread' = [thread EXCEPT ![j] = "returned"]
  /\ UNCHANGED <<cancel, finished, view>>

\* func(job) raises
Fail(j) ==
  /\ thread[j] = "work" /\ LockFree
  /\ Assign(Assigned[1], j, "error")
  /\ thread' = [thread EXCEPT ![j] = "raised"]
  /\ UNCHANGED <<cancel, finished, view>>

\* The second assignment, and the lock is released.
Settle(j) ==
  /\ thread[j] \in Halfway
  /\ Assign(Assigned[2], j,
            IF thread[j] = "returned" THEN "result" ELSE "error")
  /\ thread' = [thread EXCEPT ![j] = AfterAnswer]
  /\ UNCHANGED <<cancel, finished, view>>

\* finally: finished_at, under the lock for a second time
Stamp(j) ==
  /\ thread[j] = "stamp" /\ LockFree
  /\ finished' = [finished EXCEPT ![j] = TRUE]
  /\ thread' = [thread EXCEPT ![j] = "gone"]
  /\ UNCHANGED <<status, cancel, answer, view>>

-----------------------------------------------------------------------------
(* A client: _job_out reads the fields one by one, the status first *)

ReadStatus(j) ==
  /\ view.at \in {"idle", "told"} /\ thread[j] # "none"
  /\ view' = [at |-> "result", job |-> j, status |-> status[j], answer |-> {}]
  /\ UNCHANGED <<status, cancel, finished, answer, thread>>

\* A field that is set is read: "result" and then "error".
ReadField(j, field, next) ==
  /\ view.at = field /\ view.job = j
  /\ view' = [view EXCEPT !.at = next,
                          !.answer = @ \cup (answer[j] \cap {field})]
  /\ UNCHANGED <<status, cancel, finished, answer, thread>>

ClientReads(j) ==
  \/ ReadStatus(j)
  \/ ReadField(j, "result", "error")
  \/ ReadField(j, "error", "told")

-----------------------------------------------------------------------------
ThreadStep(j) ==
  \/ Poll(j) \/ Drop(j) \/ Claim(j)
  \/ Succeed(j) \/ Fail(j) \/ Settle(j) \/ Stamp(j)

Next ==
  \E j \in JobIds : Submit(j) \/ Cancel(j) \/ ThreadStep(j) \/ ClientReads(j)

Spec == Init /\ [][Next]_vars

\* The threads are scheduled, and the functions of the jobs return.
FairSpec == Spec /\ \A j \in JobIds : WF_vars(ThreadStep(j))

-----------------------------------------------------------------------------
(* Properties *)

Statuses == {"absent", "pending", "running"} \cup Terminal

\* Every variable has its type.
TypeOK ==
  /\ status \in [JobIds -> Statuses]
  /\ cancel \in [JobIds -> BOOLEAN]
  /\ finished \in [JobIds -> BOOLEAN]
  /\ answer \in [JobIds -> SUBSET {"result", "error"}]
  /\ thread \in [JobIds -> {"none", "poll", "drop", "claim", "work", "stamp",
                            "gone"} \cup Halfway]
  /\ view \in [at : {"idle", "result", "error", "told"},
               job : JobIds \cup {"none"}, status : Statuses,
               answer : SUBSET {"result", "error"}]

\* A job whose thread is through has a final status and a finishing time - or
\* is left "running", which happens only to a job somebody cancelled.
SettledOrAbandoned ==
  \A j \in JobIds : thread[j] = "gone" =>
    \/ status[j] \in Terminal /\ finished[j]
    \/ status[j] = "running" /\ cancel[j]

\* A client that is told "succeeded" is told the result too, one that is told
\* "failed" the error, and nobody is told both; and the lock covers the rest: a
\* job that is not halfway through its two assignments has the answer of its
\* status and no other.  (A client may be told "running" or "cancelled" with a
\* result: it has read the status before the thread was done.)
AnswerFitsStatus ==
  /\ view.at = "told" =>
       /\ view.status = "succeeded" => view.answer = {"result"}
       /\ view.status = "failed" => view.answer = {"error"}
       /\ view.answer # {"result", "error"}
  /\ \A j \in JobIds : thread[j] \notin Halfway =>
       /\ "result" \in answer[j] <=> status[j] = "succeeded"
       /\ "error" \in answer[j] <=> status[j] = "failed"

\* A job that has succeeded or failed stays so, also when it is cancelled
\* afterwards.
OutcomeIsFinal ==
  [][\A j \in JobIds :
       status[j] \in {"succeeded", "failed"} => status'[j] = status[j]]_status

\* A job nobody cancels is run to its end.
JobsEnd ==
  \A j \in JobIds :
    thread[j] # "none" ~> status[j] \in {"succeeded", "failed"} \/ cancel[j]

\* jobs.py, _TERMINAL: "succeeded", "failed" and "cancelled" end a job.
TerminalIsFinal ==
  [][\A j \in JobIds :
       status[j] \in Terminal => status'[j] = status[j]]_status
=============================================================================
