--------------------------- MODULE ServiceControl ---------------------------
(***************************************************************************)
(* NetReplayService (service.py) behind the REST routes: the slots         *)
(* _capture, _replay and _bridge, the controllers put in them and their    *)
(* threads.  The routes are plain functions, so the server runs requests   *)
(* on a thread pool; nothing in the service holds a lock across the steps  *)
(* of a request, and each read or write of the slot is a step here.        *)
(*                                                                         *)
(* The three slots are independent of each other; one behaviour is about   *)
(* one of them, `kind', or about import_pcap, whose controller never gets  *)
(* into a slot.  What a thread does between its start and its end is the   *)
(* business of CapturePipeline, ReplayOut and Bridge.                      *)
(***************************************************************************)
EXTENDS Naturals, FiniteSets

CONSTANTS
    Callers,        \* request threads
    Controllers,    \* controllers that can be built, a set of naturals
    MaxRequests,    \* bound on the requests of a behaviour
    Nobody          \* an empty slot

ASSUME ControlAssumption ==
    Controllers \subseteq Nat /\ MaxRequests \in Nat /\ Nobody \notin Controllers

VARIABLES
    kind,       \* "capture", "replay", "bridge" or "import"
    slot,       \* the controller in the slot
    thread,     \* per controller: unborn, opening, running, ended
    asked,      \* per controller: a stop request is in effect
    spoiled,    \* per controller: it ended with an error
    req,        \* per caller: the request it executes: where, and on whom
    reply,      \* per caller: its last answer
    requests,   \* requests so far
    overlapped, \* two requests were in progress at the same time
    expired     \* controllers whose join timed out

controlVars == <<kind, slot, thread, asked, spoiled, req, reply, requests,
                 overlapped, expired>>

Kinds == {"capture", "replay", "bridge", "import"}
Idle == [at |-> "idle", mine |-> Nobody]
NoReply == [to |-> "none", code |-> 0, running |-> FALSE, about |-> Nobody]

(* is_alive(): the thread exists and has not ended.                         *)
Running(i) == i # Nobody /\ thread[i] \in {"opening", "running"}

ControlInit ==
    /\ kind \in Kinds
    /\ slot = Nobody
    /\ thread = [i \in Controllers |-> "unborn"]
    /\ asked = [i \in Controllers |-> FALSE]
    /\ spoiled = [i \in Controllers |-> FALSE]
    /\ req = [c \in Callers |-> Idle]
    /\ reply = [c \in Callers |-> NoReply]
    /\ requests = 0 /\ overlapped = FALSE /\ expired = {}

Answer(c, to, code, running, about) ==
    /\ reply' = [reply EXCEPT ![c] = [to |-> to, code |-> code,
                                      running |-> running, about |-> about]]
    /\ req' = [req EXCEPT ![c] = Idle]

Go(c, at, mine) == req' = [req EXCEPT ![c] = [at |-> at, mine |-> mine]]

At(c, place) == req[c].at = place

(* A request arrives at an idle pool thread.                                *)
Arrive(c, place) ==
    /\ At(c, "idle") /\ requests < MaxRequests
    /\ Go(c, place, Nobody)
    /\ requests' = requests + 1
    /\ overlapped' = (overlapped \/ \E d \in Callers \ {c} : ~At(d, "idle"))
    /\ UNCHANGED <<kind, slot, thread, asked, spoiled, reply, expired>>

StartRequest(c) == kind # "import" /\ Arrive(c, "check")
StopRequest(c) == kind # "import" /\ Arrive(c, "stop")
ImportRequest(c) == kind = "import" /\ Arrive(c, "create")

-----------------------------------------------------------------------------
(* start_capture, start_replay, start_bridge.                               *)

(* Mutant: a controller in the slot is replaced, running or not.            *)
TakenNever == FALSE
(* The slot is taken while its thread runs.                                 *)
Taken == Running(slot)

(* The slot is read twice, for None and for the thread.                     *)
StartCheck(c) ==
    /\ At(c, "check")
    /\ Go(c, IF slot = Nobody THEN "create" ELSE "compare", Nobody)
    /\ UNCHANGED <<kind, slot, thread, asked, spoiled, reply, requests, overlapped,
                   expired>>

(* "already running" goes out as 409; a stop that emptied the slot since    *)
(* the first read makes it an AttributeError, a 500.                        *)
StartCompare(c) ==
    /\ At(c, "compare")
    /\ \/ slot = Nobody /\ Answer(c, "start", 500, FALSE, Nobody)
       \/ slot # Nobody /\ Taken /\ Answer(c, "start", 409, TRUE, slot)
       \/ slot # Nobody /\ ~Taken /\ Go(c, "create", Nobody) /\ UNCHANGED reply
    /\ UNCHANGED <<kind, slot, thread, asked, spoiled, requests, overlapped, expired>>

Fresh(i) == thread[i] = "unborn" /\ \A j \in Controllers : j < i => thread[j] # "unborn"

(* The constructor and controller.start(): the thread is running when it    *)
(* returns.                                                                 *)
StartCreate(c) ==
    /\ At(c, "create")
    /\ \E i \in Controllers :
          /\ Fresh(i)
          /\ thread' = [thread EXCEPT ![i] = "opening"]
          /\ Go(c, IF kind = "import" THEN "wait" ELSE "assign", i)
    /\ UNCHANGED <<kind, slot, asked, spoiled, reply, requests, overlapped, expired>>

(* No session of that id, a speed that is not one, a file that is no .nrp:  *)
(* the request fails before there is a thread.  A bridge has nothing that   *)
(* can fail there.                                                          *)
StartFails(c) ==
    /\ At(c, "create") /\ kind # "bridge"
    /\ \E code \in IF kind = "replay" THEN {409, 422} ELSE {500} :
          Answer(c, "start", code, FALSE, Nobody)
    /\ UNCHANGED <<kind, slot, thread, asked, spoiled, requests, overlapped, expired>>

StartAssign(c) ==
    /\ At(c, "assign")
    /\ slot' = req[c].mine
    /\ Answer(c, "start", 200, Running(req[c].mine), req[c].mine)
    /\ UNCHANGED <<kind, thread, asked, spoiled, requests, overlapped, expired>>

-----------------------------------------------------------------------------
(* stop_capture, stop_replay, stop_bridge.  The slot is read four times; a  *)
(* read that finds None after the first one is an AttributeError, a 500.    *)

StopCheck(c) ==
    /\ At(c, "stop")
    /\ IF slot = Nobody
       THEN Answer(c, "stop", 200, FALSE, Nobody)
       ELSE Go(c, "ask", Nobody) /\ UNCHANGED reply
    /\ UNCHANGED <<kind, slot, thread, asked, spoiled, requests, overlapped, expired>>

(* Mutant: a replay or bridge forgets a stop before its loop, too.          *)
HeardInLoop(i) == thread[i] = "running"
(* A capture that has not reached backend.start() yet forgets the request:  *)
(* start() sets the flag that stop() cleared.  The other two keep it.       *)
Heard(i) == thread[i] = "running" \/ (kind \in {"replay", "bridge"} /\ thread[i] = "opening")

StopAsk(c) ==
    /\ At(c, "ask")
    /\ IF slot = Nobody
       THEN /\ Answer(c, "stop", 500, FALSE, Nobody)
            /\ UNCHANGED asked
       ELSE /\ asked' = [asked EXCEPT ![slot] = @ \/ Heard(slot)]
            /\ Go(c, "join", slot)
            /\ UNCHANGED reply
    /\ UNCHANGED <<kind, slot, thread, spoiled, requests, overlapped, expired>>

StopJoin(c) ==
    /\ At(c, "join")
    /\ expired' = IF Running(req[c].mine) THEN expired \cup {req[c].mine} ELSE expired
    /\ Go(c, IF kind = "import" THEN "raise" ELSE "status", req[c].mine)
    /\ UNCHANGED <<kind, slot, thread, asked, spoiled, reply, requests, overlapped>>

(* capture_stop answers with this status; the other two only need it to     *)
(* exist.                                                                   *)
StopStatus(c) ==
    /\ At(c, "status")
    /\ IF slot = Nobody
       THEN Answer(c, "stop", 500, FALSE, Nobody)
       ELSE /\ Go(c, IF kind = "capture" /\ Running(slot) THEN "clear_running" ELSE "clear",
                  req[c].mine)
            /\ UNCHANGED reply
    /\ UNCHANGED <<kind, slot, thread, asked, spoiled, requests, overlapped, expired>>

(* The slot is emptied, whoever is in it by now.  The bridge route always   *)
(* answers running=False; the replay route looks at the slot once more.     *)
StopClear(c) ==
    /\ req[c].at \in {"clear", "clear_running"}
    /\ slot' = Nobody
    /\ IF kind = "replay"
       THEN Go(c, "look", req[c].mine) /\ UNCHANGED reply
       ELSE Answer(c, "stop", 200, At(c, "clear_running"), req[c].mine)
    /\ UNCHANGED <<kind, thread, asked, spoiled, requests, overlapped, expired>>

ReplayStopAnswer(c) ==
    /\ At(c, "look")
    /\ Answer(c, "stop", 200, Running(slot), req[c].mine)
    /\ UNCHANGED <<kind, slot, thread, asked, spoiled, requests, overlapped, expired>>

-----------------------------------------------------------------------------
(* import_pcap: wait for the thread; on a timeout stop it, wait once more   *)
(* and raise, whether it has ended by then or not.                          *)

ImportWaited(c) ==
    /\ At(c, "wait")
    /\ LET i == req[c].mine
       IN  IF Running(i)
           THEN /\ asked' = [asked EXCEPT ![i] = @ \/ Heard(i)]
                /\ Go(c, "join", i)
                /\ UNCHANGED reply
           ELSE /\ Answer(c, "import", IF spoiled[i] THEN 500 ELSE 200, FALSE, i)
                /\ UNCHANGED asked
    /\ UNCHANGED <<kind, slot, thread, spoiled, requests, overlapped, expired>>

ImportTimedOut(c) ==
    /\ At(c, "raise")
    /\ Answer(c, "import", 500, Running(req[c].mine), req[c].mine)
    /\ UNCHANGED <<kind, slot, thread, asked, spoiled, requests, overlapped, expired>>

-----------------------------------------------------------------------------
(* The threads.                                                             *)

(* A capture reaches backend.start(), which forgets an earlier stop().      *)
ThreadRuns(i) ==
    /\ thread[i] = "opening"
    /\ thread' = [thread EXCEPT ![i] = "running"]
    /\ asked' = [asked EXCEPT ![i] = @ /\ kind # "capture"]
    /\ UNCHANGED <<kind, slot, spoiled, req, reply, requests, overlapped, expired>>

(* The end of a thread: asked for, out of packets, or an error.             *)
ThreadEnds(i) ==
    /\ Running(i)
    /\ thread' = [thread EXCEPT ![i] = "ended"]
    /\ \E error \in BOOLEAN : spoiled' = [spoiled EXCEPT ![i] = error]
    /\ UNCHANGED <<kind, slot, asked, req, reply, requests, overlapped, expired>>

RequestStep(c) ==
    \/ StartCheck(c) \/ StartCompare(c) \/ StartCreate(c) \/ StartFails(c)
    \/ StartAssign(c)
    \/ StopCheck(c) \/ StopAsk(c) \/ StopJoin(c) \/ StopStatus(c) \/ StopClear(c)
    \/ ReplayStopAnswer(c) \/ ImportWaited(c) \/ ImportTimedOut(c)

ControlNext ==
    \/ \E c \in Callers : StartRequest(c) \/ StopRequest(c) \/ ImportRequest(c)
                          \/ RequestStep(c)
    \/ \E i \in Controllers : ThreadRuns(i) \/ ThreadEnds(i)

(* A thread that was asked to stop and heard it ends: Bridge shows it for   *)
(* the bridge, and a replay has finitely many rows and finite gaps.  It is  *)
(* not assumed of a capture, which waits for one more packet on the link.   *)
ThreadObeys(i) == asked[i] /\ kind \in {"replay", "bridge"} /\ ThreadEnds(i)

ControlFairness == \A i \in Controllers : WF_controlVars(ThreadRuns(i))
                                         /\ WF_controlVars(ThreadObeys(i))

ControlSpec == ControlInit /\ [][ControlNext]_controlVars /\ ControlFairness

-----------------------------------------------------------------------------
(* Properties.                                                              *)

Places == {"idle", "check", "compare", "create", "assign", "stop", "ask", "join",
           "status", "clear", "clear_running", "look", "wait", "raise"}

ControlTypeOK ==
    /\ kind \in Kinds /\ slot \in Controllers \cup {Nobody}
    /\ thread \in [Controllers -> {"unborn", "opening", "running", "ended"}]
    /\ asked \in [Controllers -> BOOLEAN] /\ spoiled \in [Controllers -> BOOLEAN]
    /\ req \in [Callers -> [at : Places, mine : Controllers \cup {Nobody}]]
    /\ reply \in [Callers -> [to : {"none", "start", "stop", "import"},
                              code : {0, 200, 409, 422, 500}, running : BOOLEAN,
                              about : Controllers \cup {Nobody}]]
    /\ requests \in 0..MaxRequests /\ overlapped \in BOOLEAN
    /\ expired \subseteq Controllers

BeingAssigned(i) == \E c \in Callers : req[c] = [at |-> "assign", mine |-> i]

(* A client that waits for each answer before the next request, and whose   *)
(* joins end in time, never has two threads of a kind, and never loses the  *)
(* handle of one that runs.  Overlapping requests and timed-out joins are   *)
(* the only ways to either (service.py 483-491 and 536-542 are not locked). *)
SequentialUseIsSafe ==
    kind # "import" /\ ~overlapped /\ expired = {} =>
        \A i \in Controllers :
            Running(i) => /\ \A j \in Controllers : Running(j) => i = j
                          /\ slot = i \/ BeingAssigned(i)

(* "running: false" as the answer to a stop means that thread has ended:    *)
(* for a capture whenever requests do not overlap, timed out or not, for a  *)
(* replay or a bridge only if the join did not time out.                    *)
StopAnswersTruth ==
    \A c \in Callers :
        LET i == reply[c].about
        IN  /\ ~overlapped
            /\ reply[c].to = "stop" /\ ~reply[c].running /\ i # Nobody
            /\ kind = "capture" \/ i \notin expired
            => thread[i] = "ended"

(* However requests interleave, a start that is answered 200 has built the  *)
(* only controller it answers about, and a pcap import answered with 200    *)
(* left a finished session without error, never one still being written.    *)
SuccessIsComplete ==
    \A c \in Callers :
        reply[c].code = 200 =>
            /\ reply[c].to = "import" => thread[reply[c].about] = "ended"
                                         /\ ~spoiled[reply[c].about]
            /\ reply[c].to = "start" =>
                  \A d \in Callers \ {c} :
                      reply[d].to = "start" /\ reply[d].code = 200
                          => reply[d].about # reply[c].about

(* A stop of a replay or a bridge is never lost, not even one that comes    *)
(* before the thread got to its loop: the flag is not cleared by the start. *)
StopIsNotLost ==
    \A i \in Controllers, c \in Callers :
        kind \in {"replay", "bridge"} /\ req[c] = [at |-> "join", mine |-> i]
            ~> thread[i] = "ended"
=============================================================================
