----------------------------- MODULE MC_Control -----------------------------
(***************************************************************************)
(* Instances for TLC of the parts that run on threads or tasks of their    *)
(* own beside a capture: the service behind the API, replay-out, the live  *)
(* bridge and the live events.  A behaviour is about one of them, `part';  *)
(* the others stay as they are.                                            *)
(***************************************************************************)
EXTENDS ReplayOut, Bridge, ServiceControl, LiveEvents

VARIABLE part

Segment == [len |-> 60, dmac |-> "m1", smac |-> "m2", ether |-> "ipv4",
            version |-> 4, ihl |-> 20, total |-> 46, frag |-> 0, mf |-> FALSE,
            proto |-> "tcp", sip |-> "a", dip |-> "b", ipck |-> "ok",
            sport |-> 1, dport |-> 2, tck |-> "ok", payload |-> "p"]
CutShort == [Segment EXCEPT !.len = 40, !.payload = "cut", !.tck = "bad"]

NoRemap == [mac |-> <<>>, ip |-> <<>>, port |-> <<>>]
SwapEnds == [mac |-> [m1 |-> "m2", m2 |-> "m1"], ip |-> [a |-> "b", b |-> "a"],
             port |-> <<2, 1>>]
Everything == [ids |-> {}, flows |-> {}, start |-> None, end |-> None]
Selections == {Everything, [Everything EXCEPT !.flows = {1}],
               [Everything EXCEPT !.start = 2, !.end = 8]}
TooShort == <<[type |-> "truncate", length |-> 34]>>
Pipelines == {<<>>, TooShort, TooShort \o <<[type |-> "pad", length |-> 60]>>,
              <<[type |-> "replace", old |-> "p", new |-> "q", grow |-> 0]>>}
Plainly == [mode |-> "story", speed |-> 2, maxGap |-> 6, dryRun |-> FALSE,
            offset |-> 0, limit |-> None, selection |-> Everything,
            validate |-> TRUE, remap |-> NoRemap, pipeline |-> <<>>]

(* Every way to pace with every selection, every offset and limit with a    *)
(* selection or none, every transformation validated or not, and a dry run. *)
MCOptions ==
    {[Plainly EXCEPT !.mode = m, !.speed = s, !.selection = x] :
        m \in {"story", "faithful"}, s \in {1, 2, 4}, x \in Selections}
    \cup {[Plainly EXCEPT !.offset = o, !.limit = l, !.selection = x] :
        o \in {-1, 1, 2}, l \in {None, 0, 1, 2},
        x \in {Everything, [Everything EXCEPT !.ids = {1, 3}]}}
    \cup {[Plainly EXCEPT !.validate = v, !.pipeline = p, !.remap = r] :
        v \in BOOLEAN, p \in Pipelines, r \in {NoRemap, SwapEnds}}
    \cup {[Plainly EXCEPT !.dryRun = TRUE, !.pipeline = p] : p \in {<<>>, TooShort}}

Recorded(i, t, f, frame) == [id |-> i, ts |-> t, flow |-> f, frame |-> frame, length |-> 1]
InPlace == <<Recorded(1, 0, 1, Segment), Recorded(2, 4, 2, CutShort), Recorded(3, 4, 1, Segment)>>
ClockStepped == <<Recorded(1, 8, 1, Segment), Recorded(2, 0, 1, Segment), Recorded(3, 16, 2, Segment)>>
MCSessions == {InPlace, ClockStepped}
MCLateRows == {Recorded(0, 8, 1, Segment), Recorded(0, 2, 2, Segment)}

-----------------------------------------------------------------------------
vars == <<part, controlVars, replayVars, bridgeVars, liveVars>>

Init ==
    /\ part \in {"service", "replay", "bridge", "live"}
    /\ ControlInit /\ (part # "service" => kind = "capture")
    /\ ReplayInit /\ (part # "replay" => opts = Request(Plainly) /\ rows = InPlace)
    /\ BridgeInit /\ LiveInit

Next ==
    \/ part = "service" /\ ControlNext /\ UNCHANGED <<part, replayVars, bridgeVars, liveVars>>
    \/ part = "replay" /\ ReplayNext /\ UNCHANGED <<part, controlVars, bridgeVars, liveVars>>
    \/ part = "bridge" /\ BridgeNext /\ UNCHANGED <<part, controlVars, replayVars, liveVars>>
    \/ part = "live" /\ LiveNext /\ UNCHANGED <<part, controlVars, replayVars, bridgeVars>>

Spec == Init /\ [][Next]_vars /\ ControlFairness /\ WF_bridgeVars(BridgeThread)

-----------------------------------------------------------------------------
(* Every variable of the part that runs has its type.                       *)
ControlTypes ==
    /\ part = "service" => ControlTypeOK
    /\ part = "replay" => ReplayTypeOK
    /\ part = "bridge" => BridgeTypeOK
    /\ part = "live" => LiveTypeOK

(* What replay-out puts on the wire is the beginning of what was asked for  *)
(* and, when it ends by itself, all of it, in capture order, valid where    *)
(* validation was asked for, with every row accounted for and the final     *)
(* counters in the answer to stop(); it waits in front of each frame what   *)
(* the schedule says (inject.py 139-206, timing.py 131-168, service.py      *)
(* 350-378).                                                                *)
ReplayAsAsked ==
    part = "replay" => /\ WireMatchesPlan /\ RowsAccounted /\ WireInOrder
                       /\ SentFramesValid /\ PaceMatchesSchedule /\ StopReportsFinal

(* The bridge loses no frame that it does not count, keeps the order of     *)
(* each direction, and ends by itself only for a reason it shows            *)
(* (bridge.py 101-181).                                                     *)
BridgeAccounts == part = "bridge" => BothWaysAccounted /\ EndsWithReason

(* Whatever requests interleave, an answer of success is true; and what     *)
(* the answers say to a client that makes one request at a time is true of  *)
(* the threads (service.py 475-623).                                        *)
AnswersAreTrue ==
    part = "service" => SuccessIsComplete /\ SequentialUseIsSafe /\ StopAnswersTruth

(* The feed of a client is in order, has no gap and no repetition and       *)
(* withholds nothing, but for events during whose broadcast one client came *)
(* and one left; and only a connection that comes or goes during a          *)
(* broadcast ends it (websocket.py 23-31, app.py 76-82).                    *)
LiveFeedHolds == part = "live" => FeedIsContiguous /\ NothingWithheld /\ OnlyChurnKills
=============================================================================
