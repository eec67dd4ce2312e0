---------------------------- MODULE ControlProofs ----------------------------
(***************************************************************************)
(* Proofs, for every set of clients, callers, controllers, options and     *)
(* sessions and for queues of any size, of what MC_Control checks on one   *)
(* instance: StopIsPrompt, LiveFeedHolds, BridgeAccounts, AnswersAreTrue   *)
(* and, with the invariant of ReplayProofs, ControlTypes.  A part that     *)
(* does not run stays in its initial state, so that the invariants below   *)
(* hold whatever `part' is.                                                *)
(***************************************************************************)
EXTENDS ReplayProofs

-----------------------------------------------------------------------------
(* Replay-out: stop() is prompt.                                            *)

(* A frame under preparation once the flag is up is the one stop() found.   *)
PromptInv ==
    /\ \E S : wire \in Seq(S)
    /\ pc = "prepare" /\ stopFlag => owed

(* The wire grows by one frame or is replaced by the empty one: what a step *)
(* of the replay does to PromptInv and to the wire.                         *)
LEMMA PromptStep ==
    ASSUME PromptInv, ReplayNext
    PROVE  /\ PromptInv'
           /\ stopFlag /\ Len(wire') > Len(wire) => owed
<1>0. PICK S : wire \in Seq(S)
  BY DEF PromptInv
<1>1. CASE Start
  <2>1. wire' = <<>> /\ pc' = "next"
    BY <1>1 DEF Start
  <2>2. wire' \in Seq(S) /\ Len(wire) \in Nat /\ Len(wire') = 0
    BY <1>0, <2>1
  <2> QED
    BY <2>1, <2>2 DEF PromptInv
<1>2. CASE SendRow
  <2>1. pc = "prepare" /\ pc' = "next" /\ UNCHANGED stopFlag
    BY <1>2 DEF SendRow
  <2>2. stopFlag => owed
    BY <2>1 DEF PromptInv
  <2>3. PICK e : wire' = wire \/ wire' = Append(wire, e)
    BY <1>2 DEF SendRow
  <2>4. wire' \in Seq(S \cup {e})
    BY <1>0, <2>3
  <2> QED
    BY <2>1, <2>2, <2>4 DEF PromptInv
<1>3. CASE StopCall
  <2>1. wire' = wire /\ Len(wire) \in Nat /\ pc' = pc
    BY <1>0, <1>3 DEF StopCall
  <2>2. pc = "prepare" => owed'
    BY <1>3 DEF StopCall
  <2> QED
    BY <1>0, <2>1, <2>2 DEF PromptInv
<1>4. CASE PaceRow
  <2>1. ~stopFlag /\ UNCHANGED <<wire, stopFlag>>
    BY <1>4 DEF PaceRow
  <2>2. Len(wire) \in Nat
    BY <1>0
  <2> QED
    BY <1>0, <2>1, <2>2 DEF PromptInv
<1>5. CASE Wake
  <2>1. UNCHANGED <<wire, stopFlag, owed>> /\ pc' = AfterSleep
    BY <1>5 DEF Wake
  <2>2. pc' = "prepare" => ~stopFlag
    BY <2>1 DEF AfterSleep
  <2>3. Len(wire) \in Nat
    BY <1>0
  <2> QED
    BY <1>0, <2>1, <2>2, <2>3 DEF PromptInv
<1>6. CASE \/ FetchPage \/ StopSeen \/ StopAtLimit \/ SkipRow \/ FailRow
           \/ SenderRaises \/ Finish \/ StopReturns \/ CaptureCommits
  <2>1. UNCHANGED <<wire, stopFlag, owed>>
    BY <1>6 DEF FetchPage, StopSeen, StopAtLimit, SkipRow, FailRow, SenderRaises,
                Finish, StopReturns, CaptureCommits
  <2>2. pc' = pc \/ pc' # "prepare"
    BY <1>6 DEF FetchPage, StopSeen, StopAtLimit, SkipRow, FailRow, SenderRaises,
                Finish, StopReturns, CaptureCommits
  <2>3. Len(wire) \in Nat
    BY <1>0
  <2> QED
    BY <1>0, <2>1, <2>2, <2>3 DEF PromptInv
<1> QED
  BY <1>1, <1>2, <1>3, <1>4, <1>5, <1>6 DEF ReplayNext, ReplayThread

(* Whatever the options, the session and the rows committed meanwhile: once *)
(* stop() has raised the flag, only the frame that was being prepared at    *)
(* that moment reaches the wire (inject.py 139-206).                        *)
THEOREM StopPrompt == Spec => StopIsPrompt
<1>1. Init => PromptInv
  <2> SUFFICES ASSUME Init PROVE PromptInv
    OBVIOUS
  <2>1. wire = <<>> /\ pc = "idle"
    BY DEF Init, ReplayInit
  <2>2. wire \in Seq({})
    BY <2>1
  <2> QED
    BY <2>1, <2>2 DEF PromptInv
<1>2. PromptInv /\ [Next]_vars
        => PromptInv' /\ [stopFlag /\ Len(wire') > Len(wire) => owed]_replayVars
  <2> SUFFICES ASSUME PromptInv, [Next]_vars
               PROVE  PromptInv' /\ [stopFlag /\ Len(wire') > Len(wire) => owed]_replayVars
    OBVIOUS
  <2>1. CASE ReplayNext
    BY <2>1, PromptStep
  <2>2. CASE UNCHANGED replayVars
    BY <2>2 DEF PromptInv, replayVars
  <2> QED
    BY <2>1, <2>2 DEF Next, vars
<1> QED
  BY <1>1, <1>2, PTL DEF Spec, StopIsPrompt

-----------------------------------------------------------------------------
(* Live events.                                                             *)

ClientStates == {"away", "connected", "broken", "gone"}

(* A broadcast: the size is a number only for a finite set of connections.  *)
TurnShape(t) ==
    t \in [size : {t.size}, left : SUBSET Clients, on : SUBSET Clients,
           stale : SUBSET Clients]

(* LiveTypeOK, and which broadcasts a turn can be.                          *)
LiveShape ==
    /\ taken \in Nat /\ joined \subseteq 1..taken /\ parted \subseteq 1..taken
    /\ conns \subseteq Clients /\ IsFiniteSet(conns)
    /\ client \in [Clients -> ClientStates]
    /\ task \in {"waiting", "sending", "dead"}
    /\ delivered \in [Clients -> Seq(Nat)]
    /\ since \in [Clients -> Nat]
    /\ TurnShape(turn) /\ turn.left \subseteq conns

(* Who is in the set: every working connection, nobody who never came, and  *)
(* only connections that do not work are marked for removal.                *)
MembersInv ==
    /\ \A c \in Clients : client[c] = "connected" => c \in conns
    /\ \A c \in conns \cup turn.on : client[c] # "away"
    /\ \A c \in turn.stale : client[c] \in {"broken", "gone"}
    /\ \A c \in Clients : client[c] = "away" => delivered[c] = <<>>

(* Nobody came or went during the broadcast under way.                      *)
Quiet == taken \notin joined \cup parted

(* How the size of the set differs from what the broadcast began with: only *)
(* one that came in and one that left can make up for each other.           *)
SetInv ==
    /\ task = "dead" => ~Quiet
    /\ task = "sending" =>
          /\ taken > 0 /\ turn.size \in Nat
          /\ Quiet => Cardinality(conns) = turn.size
          /\ taken \in joined \ parted => Cardinality(conns) > turn.size
          /\ taken \in parted \ joined => Cardinality(conns) < turn.size

(* One send at a time, and a turn only while a broadcast is under way.      *)
OneSendInv ==
    /\ task = "sending" => \E c \in Clients : turn.on = {c}
    /\ task # "sending" => turn = NoTurn

(* The last event a client was sent, or the one it connected in.            *)
LastOf(d, z) == IF d = <<>> THEN z ELSE d[Len(d)]
LastSent(c) == LastOf(delivered[c], since[c])

(* What FeedIsContiguous says of two events that follow each other.         *)
Follows(last, this, swapped) ==
    /\ last <= this
    /\ this = last => this \in swapped
    /\ (last + 1)..(this - 1) \subseteq swapped

FeedGoesOn(d, z, swapped) ==
    \A i \in DOMAIN d : Follows(IF i = 1 THEN z ELSE d[i - 1], d[i], swapped)

(* Where the feed of a client is while the task lives: it lacks the event   *)
(* being broadcast as long as its turn is to come, and has it afterwards,   *)
(* unless one came in and one left.                                         *)
FeedOf(c) ==
    client[c] = "connected" /\ task # "dead" =>
        /\ LastSent(c) \in 0..taken
        /\ (LastSent(c) + 1)..(taken - 1) \subseteq Swapped
        /\ task = "waiting" /\ taken \notin Swapped => LastSent(c) = taken
        /\ c \in turn.on /\ taken \notin Swapped => LastSent(c) < taken
        /\ task = "sending" /\ Quiet =>
              /\ c \in turn.left => LastSent(c) < taken /\ c \notin turn.on
              /\ c \notin turn.left \cup turn.on => LastSent(c) = taken

FeedInv ==
    \A c \in Clients : /\ FeedGoesOn(delivered[c], since[c], Swapped)
                       /\ FeedOf(c)

(* A client has what was taken since it joined, but for the event that is   *)
(* still to come to it.                                                     *)
ShareOf(c) ==
    client[c] = "connected" /\ task # "dead" =>
        \A event \in (since[c] + 1)..taken :
            event \in Swapped \/ Got(c, event) \/ (event = taken /\ LastSent(c) < taken)

ShareInv == \A c \in Clients : ShareOf(c)

LiveInv == LiveShape /\ MembersInv /\ SetInv /\ OneSendInv /\ FeedInv /\ ShareInv

(* The events start with nobody connected and nothing taken.                *)
LEMMA LiveInvInit == LiveInit => LiveInv
<1> SUFFICES ASSUME LiveInit PROVE LiveInv
  OBVIOUS
<1> USE DEF LiveInit, NoTurn
<1>1. LiveShape
  <2>1. TurnShape(turn) /\ turn.left \subseteq conns
    BY DEF TurnShape
  <2>2. delivered \in [Clients -> Seq(Nat)] /\ IsFiniteSet(conns)
    BY FS_EmptySet
  <2>3. since \in [Clients -> Nat] /\ client \in [Clients -> ClientStates]
    BY DEF ClientStates
  <2> QED
    BY <2>1, <2>2, <2>3 DEF LiveShape
<1>2. MembersInv /\ SetInv /\ OneSendInv
  BY DEF MembersInv, SetInv, OneSendInv
<1>3. FeedInv /\ ShareInv
  BY DEF FeedInv, ShareInv, FeedOf, FeedGoesOn, ShareOf
<1> QED
  BY <1>1, <1>2, <1>3 DEF LiveInv

(* What one step of the iteration does to the turn, without its guards.     *)
LEMMA NextPeerShape ==
    ASSUME NEW t, TurnShape(t), conns \subseteq Clients, NextPeer(t)
    PROVE  /\ conns' \subseteq conns
           /\ task' \in {"waiting", "sending", "dead"}
           /\ TurnShape(turn')
           /\ task' = "dead" => conns' = conns /\ turn' = NoTurn
                                /\ Cardinality(conns) # t.size
           /\ task' = "waiting" => /\ turn' = NoTurn /\ conns' = conns \ t.stale
                                   /\ Cardinality(conns) = t.size /\ t.left = {}
           /\ task' = "sending" => /\ conns' = conns /\ Cardinality(conns) = t.size
                                   /\ turn'.size = t.size /\ turn'.stale = t.stale
                                   /\ \E c \in t.left :
                                         turn'.on = {c} /\ turn'.left = t.left \ {c}
<1>1. CASE /\ Cardinality(conns) # t.size
           /\ task' = "dead" /\ turn' = NoTurn /\ UNCHANGED conns
  BY <1>1 DEF NoTurn, TurnShape
<1>2. CASE /\ Cardinality(conns) = t.size /\ t.left = {}
           /\ task' = "waiting" /\ turn' = NoTurn /\ conns' = conns \ t.stale
  BY <1>2 DEF NoTurn, TurnShape
<1>3. CASE /\ Cardinality(conns) = t.size
           /\ \E c \in t.left :
                 /\ task' = "sending"
                 /\ turn' = [t EXCEPT !.on = {c}, !.left = @ \ {c}]
           /\ UNCHANGED conns
  <2>1. PICK c \in t.left :
           task' = "sending" /\ turn' = [t EXCEPT !.on = {c}, !.left = @ \ {c}]
    BY <1>3
  <2>2. /\ turn'.size = t.size /\ turn'.stale = t.stale
        /\ turn'.on = {c} /\ turn'.left = t.left \ {c}
        /\ TurnShape(turn')
    BY <2>1 DEF TurnShape
  <2> QED
    BY <1>3, <2>1, <2>2
<1> QED
  BY <1>1, <1>2, <1>3 DEF NextPeer

(* The next event is taken and the first client is visited.                 *)
LEMMA TakeEventKeeps == ASSUME LiveInv, TakeEvent PROVE LiveInv'
<1> DEFINE t == [NoTurn EXCEPT !.size = Cardinality(conns), !.left = conns]
<1>1. LiveShape /\ MembersInv /\ SetInv /\ OneSendInv /\ FeedInv /\ ShareInv
  BY DEF LiveInv
<1>2. /\ task = "waiting" /\ taken' = taken + 1 /\ NextPeer(t)
      /\ UNCHANGED <<client, delivered, since, joined, parted>>
  BY DEF TakeEvent
<1>3. /\ TurnShape(t)
      /\ t.size = Cardinality(conns) /\ t.left = conns /\ t.on = {} /\ t.stale = {}
  BY <1>1 DEF NoTurn, LiveShape, TurnShape
<1>k. Cardinality(conns) \in Nat
  BY <1>1, FS_CardinalityType DEF LiveShape
<1> HIDE DEF t
<1>4. /\ conns' = conns
      /\ task' \in {"waiting", "sending"}
      /\ TurnShape(turn') /\ turn'.left \subseteq conns
      /\ task' = "waiting" => turn' = NoTurn /\ conns = {}
      /\ task' = "sending" => /\ turn'.stale = {}
                              /\ turn'.size = Cardinality(conns)
                              /\ \E c \in conns : turn'.on = {c} /\ turn'.left = conns \ {c}
  <2>1. conns \subseteq Clients
    BY <1>1 DEF LiveShape
  <2>2. /\ task' \in {"waiting", "sending", "dead"} /\ TurnShape(turn')
        /\ task' # "dead"
        /\ task' = "waiting" => turn' = NoTurn /\ conns' = conns /\ conns = {}
        /\ task' = "sending" => /\ conns' = conns /\ turn'.stale = {}
                                /\ turn'.size = Cardinality(conns)
                                /\ \E c \in conns :
                                      turn'.on = {c} /\ turn'.left = conns \ {c}
    BY <1>2, <1>3, <2>1, NextPeerShape
  <2>3. turn'.left \subseteq conns
    BY <2>2 DEF NoTurn
  <2> QED
    BY <2>2, <2>3
<1>q. Quiet' /\ Swapped' = Swapped /\ taken' \notin Swapped /\ taken \in Nat
  BY <1>1, <1>2 DEF Quiet, Swapped, LiveShape
<1>5. LiveShape'
  BY <1>1, <1>2, <1>4 DEF LiveShape
<1>6. MembersInv' /\ SetInv' /\ OneSendInv'
  BY <1>1, <1>2, <1>4, <1>q, <1>k DEF MembersInv, SetInv, OneSendInv, NoTurn, LiveShape, Quiet
<1>7. \A c \in Clients : LastSent(c)' = LastSent(c)
  BY <1>2 DEF LastSent
<1>8. ASSUME NEW c \in Clients, client[c] = "connected"
      PROVE  FeedOf(c)' /\ ShareOf(c)'
  <2>1. /\ LastSent(c) \in 0..taken /\ (LastSent(c) + 1)..(taken - 1) \subseteq Swapped
        /\ taken \notin Swapped => LastSent(c) = taken
    BY <1>1, <1>2, <1>8 DEF FeedInv, FeedOf
  <2>2. \A event \in (since[c] + 1)..taken :
            event \in Swapped \/ Got(c, event) \/ (event = taken /\ LastSent(c) < taken)
    BY <1>1, <1>2, <1>8 DEF ShareInv, ShareOf
  <2>3. c \in conns /\ task' = "sending" /\ c \in turn'.left \cup turn'.on
    BY <1>1, <1>4, <1>8 DEF MembersInv
  <2>4. \/ c \in turn'.left /\ c \notin turn'.on
        \/ c \in turn'.on /\ c \notin turn'.left
    BY <1>4, <2>3
  <2>5. (LastSent(c) + 1)..taken \subseteq Swapped
    BY <1>q, <2>1
  <2>6. FeedOf(c)'
    BY <1>2, <1>7, <1>q, <2>1, <2>3, <2>4, <2>5 DEF FeedOf
  <2>7. since[c] \in Nat /\ \A event : Got(c, event)' = Got(c, event)
    BY <1>1, <1>2 DEF Got, LiveShape
  <2>8. ShareOf(c)'
    BY <1>2, <1>7, <1>q, <2>1, <2>2, <2>7 DEF ShareOf
  <2> QED
    BY <2>6, <2>8
<1>9. FeedInv' /\ ShareInv'
  <2>1. \A c \in Clients : FeedGoesOn(delivered[c], since[c], Swapped)'
    BY <1>1, <1>2, <1>q DEF FeedInv
  <2>2. \A c \in Clients : FeedOf(c)' /\ ShareOf(c)'
    BY <1>2, <1>8 DEF FeedOf, ShareOf
  <2> QED
    BY <2>1, <2>2 DEF FeedInv, ShareInv
<1> QED
  BY <1>5, <1>6, <1>9 DEF LiveInv

(* A feed goes on with an event that follows its last.                      *)
LEMMA FeedAppend ==
    ASSUME NEW s \in Seq(Nat), NEW x \in Nat, NEW z \in Nat, NEW swapped,
           FeedGoesOn(s, z, swapped), Follows(LastOf(s, z), x, swapped)
    PROVE  FeedGoesOn(Append(s, x), z, swapped)
<1> SUFFICES ASSUME NEW i \in DOMAIN Append(s, x)
             PROVE  Follows(IF i = 1 THEN z ELSE Append(s, x)[i - 1],
                            Append(s, x)[i], swapped)
  BY DEF FeedGoesOn
<1>1. /\ Len(s) \in Nat /\ DOMAIN Append(s, x) = 1..(Len(s) + 1)
      /\ DOMAIN s = 1..Len(s) /\ Append(s, x)[Len(s) + 1] = x
  OBVIOUS
<1>2. \A j \in 1..Len(s) : Append(s, x)[j] = s[j]
  OBVIOUS
<1>3. CASE i <= Len(s)
  <2>1. i \in 1..Len(s) /\ (i # 1 => i - 1 \in 1..Len(s))
    BY <1>1, <1>3
  <2> QED
    BY <1>1, <1>2, <2>1 DEF FeedGoesOn
<1>4. CASE i = Len(s) + 1
  <2>1. CASE s = <<>>
    BY <1>1, <1>4, <2>1 DEF LastOf
  <2>2. CASE s # <<>>
    <3>1. i # 1 /\ i - 1 = Len(s) /\ Len(s) \in 1..Len(s)
      BY <1>1, <1>4, <2>2
    <3> QED
      BY <1>1, <1>2, <1>4, <2>2, <3>1 DEF LastOf
  <2> QED
    BY <2>1, <2>2
<1> QED
  BY <1>1, <1>3, <1>4

(* A feed that goes on does so when more broadcasts were disturbed.         *)
LEMMA FeedWeaker ==
    ASSUME NEW s, NEW z, NEW swapped, NEW more, swapped \subseteq more,
           FeedGoesOn(s, z, swapped)
    PROVE  FeedGoesOn(s, z, more)
BY DEF FeedGoesOn, Follows

(* The awaited send returns or raises, and the iteration goes on.           *)
LEMMA SendDoneKeeps == ASSUME LiveInv, SendDone PROVE LiveInv'
<1>1. LiveShape /\ MembersInv /\ SetInv /\ OneSendInv /\ FeedInv /\ ShareInv
  BY DEF LiveInv
<1>2. PICK c \in Clients : turn.on = {c}
  BY <1>1 DEF SendDone, OneSendInv
<1> DEFINE works == client[c] = "connected"
           t == [turn EXCEPT !.on = {}, !.stale = Stale(turn, c)]
<1>3. /\ task = "sending" /\ NextPeer(t)
      /\ delivered' = IF works THEN [delivered EXCEPT ![c] = Append(@, taken)]
                      ELSE delivered
      /\ UNCHANGED <<taken, client, since, joined, parted>>
  BY <1>2 DEF SendDone
<1>4. /\ TurnShape(t)
      /\ t.size = turn.size /\ t.left = turn.left /\ t.on = {}
      /\ t.stale = IF works THEN turn.stale ELSE turn.stale \cup {c}
  BY <1>1, <1>2 DEF LiveShape, TurnShape, Stale
<1>5. client[c] # "away"
  BY <1>1, <1>2 DEF MembersInv
<1>k. Cardinality(conns) \in Nat /\ taken \in Nat
  BY <1>1, FS_CardinalityType DEF LiveShape
<1> HIDE DEF t
<1>6. /\ conns' \subseteq conns /\ task' \in {"waiting", "sending", "dead"}
      /\ TurnShape(turn')
      /\ task' = "dead" => conns' = conns /\ turn' = NoTurn
                           /\ Cardinality(conns) # turn.size
      /\ task' = "waiting" => /\ turn' = NoTurn /\ conns' = conns \ t.stale
                              /\ Cardinality(conns) = turn.size /\ turn.left = {}
      /\ task' = "sending" => /\ conns' = conns /\ Cardinality(conns) = turn.size
                              /\ turn'.size = turn.size /\ turn'.stale = t.stale
                              /\ \E d \in turn.left :
                                    turn'.on = {d} /\ turn'.left = turn.left \ {d}
  <2>1. conns \subseteq Clients
    BY <1>1 DEF LiveShape
  <2> QED
    BY <1>3, <1>4, <2>1, NextPeerShape
<1>q. /\ Quiet' = Quiet /\ Swapped' = Swapped
      /\ task' # "dead" => Quiet \/ taken \in Swapped
  <2>1. Quiet' = Quiet /\ Swapped' = Swapped
    BY <1>3 DEF Quiet, Swapped
  <2>2. ASSUME task' # "dead" PROVE Quiet \/ taken \in Swapped
    <3>1. Cardinality(conns) = turn.size
      BY <1>6, <2>2
    <3>2. taken \notin joined \ parted /\ taken \notin parted \ joined
      BY <1>1, <1>3, <1>k, <3>1 DEF SetInv
    <3> QED
      BY <3>2 DEF Quiet, Swapped
  <2> QED
    BY <2>1, <2>2
<1>7. LiveShape'
  <2>1. IsFiniteSet(conns') /\ turn'.left \subseteq conns'
    BY <1>1, <1>6, FS_Subset DEF LiveShape, NoTurn
  <2>2. delivered' \in [Clients -> Seq(Nat)]
    BY <1>1, <1>3 DEF LiveShape
  <2> QED
    BY <1>1, <1>3, <1>6, <2>1, <2>2 DEF LiveShape
<1>8. MembersInv'
  <2>1. \A d \in t.stale : client[d] \in {"broken", "gone"}
    BY <1>1, <1>4, <1>5 DEF MembersInv, LiveShape, ClientStates
  <2>2. \A d \in Clients : client[d] = "connected" => d \in conns'
    BY <1>1, <1>6, <2>1 DEF MembersInv
  <2>3. \A d \in Clients : client[d] = "away" => delivered'[d] = <<>>
    BY <1>1, <1>3, <1>5 DEF MembersInv, LiveShape
  <2>4. turn'.stale = t.stale \/ turn'.stale = {}
    BY <1>6 DEF NoTurn
  <2>5. conns' \cup turn'.on \subseteq conns
    BY <1>1, <1>6 DEF NoTurn, LiveShape
  <2> QED
    BY <1>1, <1>3, <2>1, <2>2, <2>3, <2>4, <2>5 DEF MembersInv
<1>9. SetInv'
  <2>1. CASE task' = "dead"
    <3>1. ~Quiet
      BY <1>1, <1>3, <1>6, <1>k, <2>1 DEF SetInv
    <3> QED
      BY <1>q, <2>1, <3>1 DEF SetInv
  <2>2. CASE task' # "dead"
    BY <1>1, <1>3, <1>6, <1>q, <2>2 DEF SetInv
  <2> QED
    BY <2>1, <2>2
<1>10. OneSendInv'
  <2>1. turn.left \subseteq Clients
    BY <1>1 DEF LiveShape
  <2> QED
    BY <1>6, <2>1 DEF OneSendInv
<1>11. ASSUME works
       PROVE  /\ LastSent(c) \in 0..taken /\ (LastSent(c) + 1)..(taken - 1) \subseteq Swapped
              /\ taken \notin Swapped => LastSent(c) < taken
              /\ Quiet => c \notin turn.left
  BY <1>1, <1>2, <1>3, <1>11 DEF FeedInv, FeedOf
<1>12. /\ works => LastSent(c)' = taken /\ delivered'[c] = Append(delivered[c], taken)
       /\ \A d \in Clients : ~works \/ d # c => delivered'[d] = delivered[d] /\ LastSent(d)' = LastSent(d)
  <2>1. ASSUME works PROVE LastSent(c)' = taken /\ delivered'[c] = Append(delivered[c], taken)
    <3>1. delivered'[c] = Append(delivered[c], taken) /\ delivered[c] \in Seq(Nat)
      BY <1>1, <1>3, <2>1 DEF LiveShape
    <3>2. delivered'[c] # <<>> /\ delivered'[c][Len(delivered'[c])] = taken
      BY <3>1, <1>k
    <3> QED
      BY <3>1, <3>2 DEF LastSent, LastOf
  <2>2. ASSUME NEW d \in Clients, ~works \/ d # c PROVE delivered'[d] = delivered[d]
    BY <1>1, <1>3, <2>2 DEF LiveShape
  <2> QED
    BY <1>3, <2>1, <2>2 DEF LastSent
<1>13. ASSUME NEW d \in Clients
       PROVE  FeedGoesOn(delivered'[d], since[d], Swapped)
  <2>1. CASE works /\ d = c
    <3>1. Follows(LastSent(c), taken, Swapped)
      BY <1>11, <1>k, <2>1 DEF Follows
    <3>2. delivered[c] \in Seq(Nat) /\ since[c] \in Nat
      BY <1>1 DEF LiveShape
    <3>3. FeedGoesOn(delivered[c], since[c], Swapped)
      BY <1>1 DEF FeedInv
    <3>4. FeedGoesOn(Append(delivered[c], taken), since[c], Swapped)
      BY <1>k, <3>1, <3>2, <3>3, FeedAppend DEF LastSent
    <3> QED
      BY <1>12, <2>1, <3>4
  <2>2. CASE ~works \/ d # c
    BY <1>1, <1>12, <2>2 DEF FeedInv
  <2> QED
    BY <2>1, <2>2
<1>14. ASSUME NEW d \in Clients, client[d] = "connected", task' # "dead"
       PROVE  FeedOf(d)'
  <2>1. /\ LastSent(d)' \in 0..taken /\ (LastSent(d)' + 1)..(taken - 1) \subseteq Swapped
        /\ d = c => LastSent(d)' = taken
    <3>1. CASE d = c
      BY <1>12, <1>14, <1>k, <3>1
    <3>2. CASE d # c
      BY <1>1, <1>3, <1>12, <1>14, <3>2 DEF FeedInv, FeedOf
    <3> QED
      BY <3>1, <3>2
  <2>2. CASE taken \in Swapped
    <3>1. ~Quiet
      BY <2>2 DEF Quiet, Swapped
    <3> QED
      BY <1>3, <1>q, <2>1, <2>2, <3>1 DEF FeedOf
  <2>3. CASE Quiet
    <3>1. /\ d \in turn.left => d # c /\ LastSent(d)' = LastSent(d) /\ LastSent(d) < taken
          /\ d \notin turn.left => LastSent(d)' = taken
      <4>1. /\ d \in turn.left => LastSent(d) < taken /\ d \notin turn.on
            /\ d \notin turn.left \cup turn.on => LastSent(d) = taken
        BY <1>1, <1>3, <1>14, <2>3 DEF FeedInv, FeedOf
      <4> QED
        BY <1>2, <1>12, <2>1, <4>1
    <3>2. CASE task' = "waiting"
      BY <1>3, <1>6, <1>q, <2>1, <3>1, <3>2 DEF FeedOf, NoTurn
    <3>3. CASE task' = "sending"
      <4>1. PICK e \in turn.left : turn'.on = {e} /\ turn'.left = turn.left \ {e}
        BY <1>6, <3>3
      <4>2. /\ d \in turn'.on => d \in turn.left
            /\ d \in turn'.left => d \in turn.left /\ d \notin turn'.on
            /\ d \notin turn'.left \cup turn'.on => d \notin turn.left
        BY <4>1
      <4> QED
        BY <1>3, <1>q, <2>1, <3>1, <3>3, <4>2 DEF FeedOf
    <3> QED
      BY <1>6, <1>14, <3>2, <3>3
  <2> QED
    BY <1>14, <1>q, <2>2, <2>3
<1>15. ASSUME NEW d \in Clients, client[d] = "connected", task' # "dead"
       PROVE  ShareOf(d)'
  <2> SUFFICES ASSUME NEW event \in (since[d] + 1)..taken
               PROVE  \/ event \in Swapped \/ Got(d, event)'
                      \/ event = taken /\ LastSent(d)' < taken
    BY <1>3, <1>q DEF ShareOf
  <2>1. event \in Swapped \/ Got(d, event) \/ (event = taken /\ LastSent(d) < taken)
    BY <1>1, <1>3, <1>15 DEF ShareInv, ShareOf
  <2>2. CASE d = c
    <3>1. delivered'[c] = Append(delivered[c], taken) /\ delivered[c] \in Seq(Nat)
      BY <1>1, <1>12, <1>15, <2>2 DEF LiveShape
    <3>2. /\ \A i \in DOMAIN delivered[c] :
                i \in DOMAIN delivered'[c] /\ delivered'[c][i] = delivered[c][i]
          /\ Len(delivered[c]) + 1 \in DOMAIN delivered'[c]
          /\ delivered'[c][Len(delivered[c]) + 1] = taken
      BY <1>k, <3>1
    <3> QED
      BY <2>1, <2>2, <3>2 DEF Got
  <2>3. CASE d # c
    BY <1>12, <2>1, <2>3 DEF Got
  <2> QED
    BY <2>2, <2>3
<1>16. FeedInv' /\ ShareInv'
  <2>1. \A d \in Clients : FeedGoesOn(delivered[d], since[d], Swapped)'
    BY <1>3, <1>13, <1>q
  <2>2. \A d \in Clients : FeedOf(d)' /\ ShareOf(d)'
    <3> SUFFICES ASSUME NEW d \in Clients PROVE FeedOf(d)' /\ ShareOf(d)'
      OBVIOUS
    <3>1. CASE client[d] = "connected" /\ task' # "dead"
      BY <1>14, <1>15, <3>1
    <3>2. CASE ~(client[d] = "connected" /\ task' # "dead")
      BY <1>3, <3>2 DEF FeedOf, ShareOf
    <3> QED
      BY <3>1, <3>2
  <2> QED
    BY <2>1, <2>2 DEF FeedInv, ShareInv
<1> QED
  BY <1>7, <1>8, <1>9, <1>10, <1>16 DEF LiveInv

(* A client that comes, breaks or goes disturbs no feed but in the event    *)
(* being broadcast.                                                         *)
LEMMA OtherFeedsKept ==
    ASSUME LiveInv, NEW c \in Clients, NEW d \in Clients,
           UNCHANGED <<taken, task, delivered>>, Swapped \subseteq Swapped',
           since'[d] = since[d],
           client'[d] = "connected" => client[d] = "connected",
           turn'.on = turn.on, turn'.left = turn.left \/ ~Quiet',
           Quiet' => Quiet
    PROVE  /\ FeedGoesOn(delivered[d], since[d], Swapped)' /\ FeedOf(d)' /\ ShareOf(d)'
<1>1. FeedInv /\ ShareInv
  BY DEF LiveInv
<1>2. FeedGoesOn(delivered[d], since[d], Swapped)'
  <2>1. FeedGoesOn(delivered[d], since[d], Swapped)
    BY <1>1 DEF FeedInv
  <2>2. FeedGoesOn(delivered[d], since[d], Swapped')
    BY <2>1, FeedWeaker
  <2> QED
    BY <2>2
<1>3. LastSent(d)' = LastSent(d) /\ \A event : Got(d, event)' = Got(d, event)
  BY DEF LastSent, Got
<1>4. FeedOf(d)'
  BY <1>1, <1>3 DEF FeedInv, FeedOf
<1>5. ShareOf(d)'
  BY <1>1, <1>3 DEF ShareInv, ShareOf
<1> QED
  BY <1>2, <1>4, <1>5

(* A client connects: a set that has grown by one.                          *)
LEMMA ConnectKeeps ==
    ASSUME LiveInv, NEW c \in Clients, Connect(c) PROVE LiveInv'
<1>1. LiveShape /\ MembersInv /\ SetInv /\ OneSendInv /\ FeedInv /\ ShareInv
  BY DEF LiveInv
<1>2. /\ client[c] = "away" /\ client' = [client EXCEPT ![c] = "connected"]
      /\ conns' = conns \cup {c} /\ since' = [since EXCEPT ![c] = taken]
      /\ UNCHANGED <<taken, task, delivered, parted>>
      /\ joined' = IF task = "sending" THEN joined \cup {taken} ELSE joined
      /\ turn'.size = turn.size /\ turn'.on = turn.on /\ turn'.stale = turn.stale
      /\ turn'.left \subseteq conns' /\ TurnShape(turn')
      /\ task # "sending" => turn' = turn
  <2>1. TurnShape(turn) /\ conns \subseteq Clients /\ turn.left \subseteq conns
    BY <1>1 DEF LiveShape
  <2>2. CASE task = "sending"
    <3>1. PICK left \in SUBSET conns' : turn' = [turn EXCEPT !.left = left]
      BY <2>2 DEF Connect
    <3>2. /\ turn'.size = turn.size /\ turn'.on = turn.on /\ turn'.stale = turn.stale
          /\ turn'.left = left
      BY <2>1, <3>1 DEF TurnShape
    <3>3. TurnShape(turn')
      BY <2>1, <3>1 DEF TurnShape, Connect
    <3> QED
      BY <2>2, <3>2, <3>3 DEF Connect
  <2>3. CASE task # "sending"
    BY <2>1, <2>3 DEF Connect
  <2> QED
    BY <2>2, <2>3
<1>3. c \notin conns /\ c \notin turn.on /\ delivered[c] = <<>>
  BY <1>1, <1>2 DEF MembersInv
<1>4. /\ IsFiniteSet(conns') /\ Cardinality(conns') = Cardinality(conns) + 1
      /\ Cardinality(conns) \in Nat /\ taken \in Nat
  BY <1>1, <1>2, <1>3, FS_AddElement, FS_CardinalityType DEF LiveShape
<1>5. /\ task = "sending" => taken \in joined' /\ ~Quiet' /\ taken > 0
      /\ task # "sending" => Quiet' = Quiet /\ Swapped' = Swapped
      /\ Swapped \subseteq Swapped' /\ (Quiet' => Quiet)
      /\ joined' \subseteq 1..taken
  BY <1>1, <1>2 DEF Quiet, Swapped, SetInv, LiveShape
<1>6. LiveShape'
  <2>1. client' \in [Clients -> ClientStates] /\ since' \in [Clients -> Nat]
    BY <1>1, <1>2 DEF LiveShape, ClientStates
  <2> QED
    BY <1>1, <1>2, <1>4, <1>5, <2>1 DEF LiveShape
<1>7. MembersInv'
  BY <1>1, <1>2, <1>3 DEF MembersInv, LiveShape
<1>8. SetInv'
  BY <1>1, <1>2, <1>4, <1>5 DEF SetInv, Quiet
<1>9. OneSendInv'
  BY <1>1, <1>2 DEF OneSendInv
<1>10. ASSUME NEW d \in Clients
       PROVE  FeedGoesOn(delivered[d], since[d], Swapped)' /\ FeedOf(d)' /\ ShareOf(d)'
  <2>1. CASE d # c
    <3>1. since'[d] = since[d] /\ client'[d] = client[d]
      BY <1>1, <1>2, <2>1 DEF LiveShape
    <3>2. turn'.left = turn.left \/ ~Quiet'
      BY <1>2, <1>5
    <3> QED
      BY <1>2, <1>5, <3>1, <3>2, OtherFeedsKept
  <2>2. CASE d = c
    <3>1. delivered'[c] = <<>> /\ since'[c] = taken /\ LastSent(c)' = taken
      BY <1>1, <1>2, <1>3 DEF LiveShape, LastSent, LastOf
    <3>2. FeedGoesOn(delivered[c], since[c], Swapped)'
      BY <3>1 DEF FeedGoesOn
    <3>3. FeedOf(c)'
      BY <1>2, <1>3, <1>4, <1>5, <3>1 DEF FeedOf
    <3>4. ShareOf(c)'
      BY <1>2, <1>4, <3>1 DEF ShareOf
    <3> QED
      BY <2>2, <3>2, <3>3, <3>4
  <2> QED
    BY <2>1, <2>2
<1> QED
  BY <1>6, <1>7, <1>8, <1>9, <1>10 DEF LiveInv, FeedInv, ShareInv

(* A client's connection breaks: nobody notices yet.                        *)
LEMMA BreakKeeps ==
    ASSUME LiveInv, NEW c \in Clients, Break(c) PROVE LiveInv'
<1>1. LiveShape /\ MembersInv /\ SetInv /\ OneSendInv /\ FeedInv /\ ShareInv
  BY DEF LiveInv
<1>2. /\ client[c] = "connected" /\ client' = [client EXCEPT ![c] = "broken"]
      /\ UNCHANGED <<conns, since, joined, parted, taken, task, turn, delivered>>
  BY DEF Break
<1>3. LiveShape'
  BY <1>1, <1>2 DEF LiveShape, ClientStates
<1>4. MembersInv' /\ SetInv' /\ OneSendInv'
  BY <1>1, <1>2 DEF MembersInv, LiveShape, SetInv, OneSendInv, Quiet
<1>5. Swapped' = Swapped /\ Quiet' = Quiet
  BY <1>2 DEF Swapped, Quiet
<1>6. ASSUME NEW d \in Clients
      PROVE  FeedGoesOn(delivered[d], since[d], Swapped)' /\ FeedOf(d)' /\ ShareOf(d)'
  <2>1. client'[d] = "connected" => client[d] = "connected"
    BY <1>1, <1>2 DEF LiveShape
  <2> QED
    BY <1>2, <1>5, <2>1, OtherFeedsKept
<1> QED
  BY <1>3, <1>4, <1>6 DEF LiveInv, FeedInv, ShareInv

(* A client leaves: a set that has shrunk by one, if it was still in it.    *)
LEMMA DisconnectKeeps ==
    ASSUME LiveInv, NEW c \in Clients, Disconnect(c) PROVE LiveInv'
<1>1. LiveShape /\ MembersInv /\ SetInv /\ OneSendInv /\ FeedInv /\ ShareInv
  BY DEF LiveInv
<1>2. /\ client[c] \in {"connected", "broken"}
      /\ client' = [client EXCEPT ![c] = "gone"]
      /\ conns' = conns \ {c}
      /\ turn' = [turn EXCEPT !.left = @ \ {c}]
      /\ parted' = IF task = "sending" /\ c \in conns THEN parted \cup {taken} ELSE parted
      /\ UNCHANGED <<since, taken, task, delivered, joined>>
  BY DEF Disconnect
<1>3. /\ turn'.size = turn.size /\ turn'.on = turn.on /\ turn'.stale = turn.stale
      /\ turn'.left = turn.left \ {c} /\ TurnShape(turn')
      /\ turn'.left \subseteq conns'
  BY <1>1, <1>2 DEF LiveShape, TurnShape
<1>4. /\ IsFiniteSet(conns') /\ Cardinality(conns) \in Nat /\ taken \in Nat
      /\ Cardinality(conns')
           = IF c \in conns THEN Cardinality(conns) - 1 ELSE Cardinality(conns)
  <2>1. IsFiniteSet(conns) /\ taken \in Nat
    BY <1>1 DEF LiveShape
  <2> QED
    BY <1>2, <2>1, FS_RemoveElement, FS_CardinalityType
<1>5. /\ task = "sending" /\ c \in conns => taken \in parted' /\ ~Quiet' /\ taken > 0
      /\ ~(task = "sending" /\ c \in conns) =>
            Quiet' = Quiet /\ Swapped' = Swapped /\ parted' = parted
      /\ Swapped \subseteq Swapped' /\ (Quiet' => Quiet)
      /\ parted' \subseteq 1..taken
  BY <1>1, <1>2, <1>4 DEF Quiet, Swapped, SetInv, LiveShape
<1>6. LiveShape'
  BY <1>1, <1>2, <1>3, <1>4, <1>5 DEF LiveShape, ClientStates
<1>7. MembersInv'
  BY <1>1, <1>2, <1>3 DEF MembersInv, LiveShape
<1>8. SetInv'
  <2>1. CASE task = "sending" /\ c \in conns
    BY <1>1, <1>2, <1>3, <1>4, <1>5, <2>1 DEF SetInv, Quiet
  <2>2. CASE ~(task = "sending" /\ c \in conns)
    <3>1. Quiet' = Quiet /\ parted' = parted /\ joined' = joined
      BY <1>2, <1>5, <2>2
    <3>2. c \notin conns => conns' = conns
      BY <1>2
    <3> QED
      BY <1>1, <1>2, <1>3, <2>2, <3>1, <3>2 DEF SetInv
  <2> QED
    BY <2>1, <2>2
<1>9. OneSendInv'
  <2>1. task # "sending" => turn' = turn
    BY <1>1, <1>2, <1>3 DEF OneSendInv, NoTurn
  <2> QED
    BY <1>1, <1>2, <1>3, <2>1 DEF OneSendInv
<1>10. turn'.left = turn.left \/ ~Quiet'
  <2>1. CASE task = "sending" /\ c \in conns
    BY <1>5, <2>1
  <2>2. CASE task # "sending"
    BY <1>1, <1>3, <2>2 DEF OneSendInv, NoTurn
  <2>3. CASE c \notin conns
    BY <1>1, <1>3, <2>3 DEF LiveShape
  <2> QED
    BY <2>1, <2>2, <2>3
<1>11. ASSUME NEW d \in Clients
       PROVE  FeedGoesOn(delivered[d], since[d], Swapped)' /\ FeedOf(d)' /\ ShareOf(d)'
  <2>1. client'[d] = "connected" => client[d] = "connected"
    BY <1>1, <1>2 DEF LiveShape
  <2> QED
    BY <1>2, <1>3, <1>5, <1>10, <2>1, OtherFeedsKept
<1> QED
  BY <1>6, <1>7, <1>8, <1>9, <1>11 DEF LiveInv, FeedInv, ShareInv

(* The invariant of the events is inductive.                                *)
LEMMA LiveInvStep == LiveInv /\ [LiveNext]_liveVars => LiveInv'
<1> SUFFICES ASSUME LiveInv, [LiveNext]_liveVars PROVE LiveInv'
  OBVIOUS
<1>1. CASE Produce \/ UNCHANGED liveVars
  <2>1. UNCHANGED <<taken, conns, client, task, turn, delivered, since, joined, parted>>
    BY <1>1 DEF Produce, liveVars
  <2> QED
    BY <2>1 DEF LiveInv, LiveShape, MembersInv, SetInv, OneSendInv, FeedInv,
                ShareInv, TurnShape, FeedOf, ShareOf, LastSent, Got, Quiet, Swapped
<1>2. CASE Broadcast
  BY <1>2, TakeEventKeeps, SendDoneKeeps DEF Broadcast
<1>3. CASE \E c \in Clients : Connect(c) \/ Break(c) \/ Disconnect(c)
  BY <1>3, ConnectKeeps, BreakKeeps, DisconnectKeeps
<1> QED
  BY <1>1, <1>2, <1>3 DEF LiveNext

(* For any set of clients and any number of events: a client's feed has a   *)
(* gap or a repetition, and an event is withheld, only where a client came  *)
(* in and one left during one broadcast, and the task dies of a connection  *)
(* that came or went during the broadcast only (websocket.py 23-31, app.py  *)
(* 76-82).                                                                  *)
THEOREM LiveFeed == Spec => []LiveFeedHolds
<1>1. Init => LiveInv
  BY LiveInvInit DEF Init
<1>2. LiveInv /\ [Next]_vars => LiveInv'
  BY LiveInvStep DEF Next, vars
<1>3. LiveInv => LiveFeedHolds
  <2> SUFFICES ASSUME LiveInv PROVE FeedIsContiguous /\ NothingWithheld /\ OnlyChurnKills
    BY DEF LiveFeedHolds
  <2>1. FeedIsContiguous
    BY DEF LiveInv, FeedInv, FeedGoesOn, Follows, FeedIsContiguous
  <2>2. OnlyChurnKills
    BY DEF LiveInv, SetInv, OnlyChurnKills, Quiet
  <2>3. NothingWithheld
    <3> SUFFICES ASSUME task # "dead", NEW c \in Clients, client[c] = "connected",
                        NEW event \in (since[c] + 1)
                                        ..(taken - (IF task = "sending" THEN 1 ELSE 0))
                 PROVE  event \in Swapped \/ Got(c, event)
      BY DEF NothingWithheld
    <3>1. taken \in Nat /\ since[c] \in Nat /\ task \in {"waiting", "sending"}
      BY DEF LiveInv, LiveShape
    <3>2. event \in (since[c] + 1)..taken /\ (task = "sending" => event # taken)
      BY <3>1
    <3>3. event \in Swapped \/ Got(c, event) \/ (event = taken /\ LastSent(c) < taken)
      BY <3>2 DEF LiveInv, ShareInv, ShareOf
    <3>4. task = "waiting" /\ taken \notin Swapped => LastSent(c) = taken
      BY DEF LiveInv, FeedInv, FeedOf
    <3> QED
      BY <3>1, <3>2, <3>3, <3>4
  <2> QED
    BY <2>1, <2>2, <2>3
<1> QED
  BY <1>1, <1>2, <1>3, PTL DEF Spec

-----------------------------------------------------------------------------
(* The bridge: counting the numbered frames of a queue.                     *)

Indices(q) == {i \in DOMAIN q : Numbered(q[i])}

(* There are finitely many of them.                                         *)
LEMMA IndicesFinite ==
    ASSUME NEW q \in Seq(0..End)
    PROVE  IsFiniteSet(Indices(q)) /\ Cardinality(Indices(q)) \in Nat
<1>1. IsFiniteSet(1..Len(q))
  BY FS_Interval
<1>2. Indices(q) \in SUBSET (1..Len(q))
  BY DEF Indices
<1> QED
  BY <1>1, <1>2, FS_Subset, FS_CardinalityType

(* A frame put at the end counts once if it is numbered.                    *)
LEMMA IndicesAppend ==
    ASSUME NEW q \in Seq(0..End), NEW e \in 0..End
    PROVE  Cardinality(Indices(Append(q, e)))
             = Cardinality(Indices(q)) + (IF Numbered(e) THEN 1 ELSE 0)
<1>1. /\ Len(Append(q, e)) = Len(q) + 1 /\ Len(q) \in Nat
      /\ \A i \in 1..Len(q) : Append(q, e)[i] = q[i]
      /\ Append(q, e)[Len(q) + 1] = e
      /\ DOMAIN q = 1..Len(q) /\ DOMAIN Append(q, e) = 1..(Len(q) + 1)
  OBVIOUS
<1>2. CASE Numbered(e)
  <2>1. Indices(Append(q, e)) = Indices(q) \cup {Len(q) + 1}
    BY <1>1, <1>2 DEF Indices
  <2>2. Len(q) + 1 \notin Indices(q)
    BY <1>1 DEF Indices
  <2> QED
    BY <1>2, <2>1, <2>2, IndicesFinite, FS_AddElement
<1>3. CASE ~Numbered(e)
  <2>1. Indices(Append(q, e)) = Indices(q)
    BY <1>1, <1>3 DEF Indices
  <2> QED
    BY <1>3, <2>1, IndicesFinite
<1> QED
  BY <1>2, <1>3

(* A frame taken off the front no longer counts.                            *)
LEMMA IndicesTail ==
    ASSUME NEW q \in Seq(0..End), q # <<>>
    PROVE  Cardinality(Indices(q))
             = Cardinality(Indices(Tail(q))) + (IF Numbered(Head(q)) THEN 1 ELSE 0)
<1>1. /\ Len(q) \in Nat /\ Len(q) >= 1 /\ Tail(q) \in Seq(0..End)
      /\ Len(Tail(q)) = Len(q) - 1
      /\ \A i \in 1..(Len(q) - 1) : Tail(q)[i] = q[i + 1]
      /\ DOMAIN q = 1..Len(q) /\ DOMAIN Tail(q) = 1..(Len(q) - 1)
      /\ Head(q) = q[1]
  OBVIOUS
<1> DEFINE rest == Indices(q) \ {1}
           shift == [i \in Indices(Tail(q)) |-> i + 1]
<1>2. /\ shift \in [Indices(Tail(q)) -> rest]
      /\ \A i, j \in Indices(Tail(q)) : i # j => shift[i] # shift[j]
      /\ \A j \in rest : \E i \in Indices(Tail(q)) : shift[i] = j
  <2>1. \A i \in Indices(Tail(q)) : i \in Nat /\ i + 1 \in rest
    BY <1>1 DEF Indices
  <2>2. ASSUME NEW j \in rest PROVE j - 1 \in Indices(Tail(q)) /\ (j - 1) + 1 = j
    <3>1. j \in 2..Len(q) /\ Numbered(q[j])
      BY <1>1, <2>2 DEF Indices
    <3>2. j - 1 \in 1..(Len(q) - 1) /\ (j - 1) + 1 = j
      BY <1>1, <3>1
    <3> QED
      BY <1>1, <3>1, <3>2 DEF Indices
  <2> QED
    BY <2>1, <2>2
<1>3. ExistsBijection(Indices(Tail(q)), rest)
  BY <1>2, ZenonT(60) DEF ExistsBijection, Bijection, Injection, Surjection, IsInjective
<1>4. Cardinality(rest) = Cardinality(Indices(Tail(q)))
  BY <1>1, <1>3, IndicesFinite, FS_Bijection
<1>5. 1 \in Indices(q) <=> Numbered(Head(q))
  BY <1>1 DEF Indices
<1>6. Cardinality(rest)
        = IF 1 \in Indices(q) THEN Cardinality(Indices(q)) - 1 ELSE Cardinality(Indices(q))
  BY IndicesFinite, FS_RemoveElement
<1>7. Cardinality(Indices(q)) \in Nat /\ Cardinality(Indices(Tail(q))) \in Nat
  BY <1>1, IndicesFinite
<1> QED
  BY <1>4, <1>5, <1>6, <1>7

-----------------------------------------------------------------------------
(* One direction: what it carries, and what has become of its frames.       *)

(* Numbered frames are sent, and queued, in order of arrival: what is still *)
(* queued came after everything that was sent.                              *)
OrderInv(s) ==
    /\ \A i, j \in DOMAIN out[s] : i < j => out[s][i] < out[s][j]
    /\ \A i, j \in Indices(queue[s]) : i < j => queue[s][i] < queue[s][j]
    /\ \A i \in DOMAIN out[s], j \in Indices(queue[s]) : out[s][i] < queue[s][j]
    /\ \A i \in DOMAIN out[s] : out[s][i] <= arrived[s]
    /\ \A j \in Indices(queue[s]) : queue[s][j] <= arrived[s]
    /\ \A n \in dropped[s] : n <= arrived[s]

Balanced(all, gone, failed, lost, left) == all = gone + failed + lost + left

(* Every frame that arrived is in one place.                                *)
CountInv(s) ==
    /\ Len(out[s]) = counts[s].forwarded
    /\ Balanced(arrived[s], counts[s].forwarded, counts[s].errors,
                Cardinality(dropped[s]), Cardinality(Indices(queue[s])))

(* The sentinel is the last thing in the queue of a sniffer that has ended; *)
(* a side that is done ended cleanly and left nothing.                      *)
SentinelInv(s) ==
    /\ \A i \in DOMAIN queue[s] : queue[s][i] = End => i = Len(queue[s]) /\ ~sniffing[s]
    /\ done[s] => ~sniffing[s] /\ ~broken[s] /\ queue[s] = <<>>
    /\ broken[s] => ~sniffing[s]
    /\ bpc = "idle" => ~sniffing[s] /\ ~broken[s] /\ ~done[s] /\ queue[s] = <<>>

SideInv(s) == OrderInv(s) /\ CountInv(s) /\ SentinelInv(s)

(* Why the bridge is about to end, or has ended.                            *)
Reason ==
    \/ bstatus.error /\ \E s \in Sides : broken[s]
    \/ ~bstatus.error /\ \A s \in Sides : done[s]

EndInv ==
    /\ bstatus.error => bpc \in {"closing", "ended"}
    /\ bpc = "closing" => bstop \/ Reason
    /\ bpc = "ended" => bstatus.stopped \/ Reason

(* The types BridgeTypeOK gives, without its bounds.                        *)
BridgeShape ==
    /\ queue \in [Sides -> Seq(0..End)] /\ out \in [Sides -> Seq(Nat)]
    /\ sniffing \in [Sides -> BOOLEAN] /\ broken \in [Sides -> BOOLEAN]
    /\ done \in [Sides -> BOOLEAN] /\ arrived \in [Sides -> 0..Tracked]
    /\ dropped \in [Sides -> SUBSET (1..Tracked)]
    /\ counts \in [Sides -> [forwarded : Nat, errors : Nat]]
    /\ bpc \in {"idle", "left", "right", "rest", "closing", "ended"}
    /\ bstatus \in [stopped : BOOLEAN, error : BOOLEAN] /\ bstop \in BOOLEAN

BridgeInv == BridgeShape /\ EndInv /\ \A s \in Sides : SideInv(s)

(* A step that leaves a side alone keeps what is said of it.                *)
LEMMA SideStays ==
    ASSUME NEW s \in Sides, SideInv(s),
           queue'[s] = queue[s], out'[s] = out[s], sniffing'[s] = sniffing[s],
           broken'[s] = broken[s], done'[s] = done[s], arrived'[s] = arrived[s],
           dropped'[s] = dropped[s], counts'[s] = counts[s],
           bpc' = bpc \/ bpc' # "idle"
    PROVE  SideInv(s)'
<1>1. OrderInv(s)'
  BY DEF SideInv, OrderInv
<1>2. CountInv(s)'
  BY DEF SideInv, CountInv
<1>3. SentinelInv(s)'
  BY DEF SideInv, SentinelInv
<1> QED
  BY <1>1, <1>2, <1>3 DEF SideInv

(* Where the frames behind the first one were before it was taken.          *)
LEMMA TailShape ==
    ASSUME NEW q \in Seq(0..End), q # <<>>
    PROVE  /\ Tail(q) \in Seq(0..End) /\ Len(Tail(q)) = Len(q) - 1 /\ Len(q) \in Nat /\ Len(q) >= 1
           /\ Head(q) = q[1] /\ Head(q) \in 0..End
           /\ \A i \in DOMAIN Tail(q) : i + 1 \in DOMAIN q /\ Tail(q)[i] = q[i + 1]
           /\ \A i \in Indices(Tail(q)) :
                 i \in Nat /\ i + 1 > 1 /\ i + 1 \in Indices(q) /\ Tail(q)[i] = q[i + 1]
           /\ Numbered(Head(q)) => 1 \in Indices(q)
<1>1. /\ Len(q) \in Nat /\ Len(q) >= 1 /\ Tail(q) \in Seq(0..End)
      /\ Len(Tail(q)) = Len(q) - 1
      /\ \A i \in 1..(Len(q) - 1) : Tail(q)[i] = q[i + 1]
      /\ DOMAIN q = 1..Len(q) /\ DOMAIN Tail(q) = 1..(Len(q) - 1)
      /\ Head(q) = q[1]
  OBVIOUS
<1>a. Head(q) \in 0..End
  <2>1. 1 \in DOMAIN q
    BY <1>1
  <2>2. q[1] \in 0..End
    BY <1>1, <2>1, ElementOfSeq
  <2> QED
    BY <1>1, <2>2
<1>2. \A i \in DOMAIN Tail(q) : i + 1 \in DOMAIN q /\ Tail(q)[i] = q[i + 1]
  BY <1>1
<1>3. \A i \in Indices(Tail(q)) :
         i \in Nat /\ i + 1 > 1 /\ i + 1 \in Indices(q) /\ Tail(q)[i] = q[i + 1]
  BY <1>1, <1>2 DEF Indices
<1>4. Numbered(Head(q)) => 1 \in Indices(q)
  BY <1>1 DEF Indices
<1> QED
  BY <1>1, <1>a, <1>2, <1>3, <1>4

(* A frame moves from one place to another, or arrives.                     *)
LEMMA Moved ==
    ASSUME NEW a \in Nat, NEW f \in Nat, NEW e \in Nat, NEW d \in Nat, NEW n \in Nat
    PROVE  /\ Balanced(a, f, e, d, n + 1) => Balanced(a, f + 1, e, d, n)
           /\ Balanced(a, f, e, d, n + 1) => Balanced(a, f, e + 1, d, n)
           /\ Balanced(a, f, e, d, n) => Balanced(a + 1, f, e, d, n + 1)
           /\ Balanced(a, f, e, d, n) => Balanced(a + 1, f, e, d + 1, n)
BY DEF Balanced

(* The first frame of a side is sent, lost to an error, or has no number.   *)
LEMMA FrontTaken ==
    ASSUME BridgeShape, NEW s \in Sides, SideInv(s), queue[s] # <<>>,
           queue'[s] = Tail(queue[s]), sniffing'[s] = sniffing[s],
           broken'[s] = broken[s], done'[s] = done[s], arrived'[s] = arrived[s],
           dropped'[s] = dropped[s], bpc' # "idle",
           \/ /\ Numbered(Head(queue[s])) /\ out'[s] = Append(out[s], Head(queue[s]))
              /\ counts'[s].forwarded = counts[s].forwarded + 1
              /\ counts'[s].errors = counts[s].errors
           \/ /\ Numbered(Head(queue[s])) /\ out'[s] = out[s]
              /\ counts'[s].forwarded = counts[s].forwarded
              /\ counts'[s].errors = counts[s].errors + 1
           \/ /\ ~Numbered(Head(queue[s])) /\ out'[s] = out[s] /\ counts'[s] = counts[s]
    PROVE  SideInv(s)'
<1> DEFINE q == queue[s]
<1>0. /\ q \in Seq(0..End) /\ out[s] \in Seq(Nat) /\ arrived[s] \in Nat
      /\ counts[s].forwarded \in Nat /\ counts[s].errors \in Nat
      /\ dropped[s] \in SUBSET (1..Tracked) /\ Tracked \in Nat
  BY BridgeAssumption DEF BridgeShape
<1>1. /\ Tail(q) \in Seq(0..End) /\ Len(Tail(q)) = Len(q) - 1 /\ Len(q) \in Nat /\ Len(q) >= 1
      /\ Head(q) = q[1] /\ Head(q) \in 0..End
      /\ \A i \in DOMAIN Tail(q) : i + 1 \in DOMAIN q /\ Tail(q)[i] = q[i + 1]
      /\ \A i \in Indices(Tail(q)) :
            i \in Nat /\ i + 1 > 1 /\ i + 1 \in Indices(q) /\ Tail(q)[i] = q[i + 1]
      /\ Numbered(Head(q)) => 1 \in Indices(q)
  BY <1>0, TailShape
<1>2. OrderInv(s)
  BY DEF SideInv
<1>3. Head(q) \in Nat /\ \A i \in Indices(q) : q[i] \in Nat /\ i \in Nat
  <2>1. 0..End \subseteq Nat
    BY <1>0 DEF End
  <2>2. \A i \in DOMAIN q : q[i] \in 0..End /\ i \in Nat
    <3>1. \A i \in DOMAIN q : i \in 1..Len(q) /\ i \in Nat
      BY <1>0, <1>1
    <3>2. \A i \in 1..Len(q) : q[i] \in 0..End
      BY <1>0, ElementOfSeq
    <3> QED
      BY <3>1, <3>2
  <2> QED
    BY <1>1, <2>1, <2>2 DEF Indices
<1>4. \A i, j \in Indices(Tail(q)) : i < j => Tail(q)[i] < Tail(q)[j]
  <2> SUFFICES ASSUME NEW i \in Indices(Tail(q)), NEW j \in Indices(Tail(q)), i < j
               PROVE  q[i + 1] < q[j + 1]
    BY <1>1
  <2>1. i + 1 \in Indices(q) /\ j + 1 \in Indices(q) /\ i + 1 < j + 1
    BY <1>1
  <2> QED
    BY <1>2, <2>1 DEF OrderInv
<1>5. OrderInv(s)'
  <2>1. CASE Numbered(Head(q)) /\ out'[s] = Append(out[s], Head(q))
    <3>a. \A o \in Seq(Nat), n \in Nat :
             /\ Len(Append(o, n)) = Len(o) + 1 /\ Len(o) \in Nat
             /\ DOMAIN Append(o, n) = 1..(Len(o) + 1) /\ DOMAIN o = 1..Len(o)
             /\ \A i \in DOMAIN o : Append(o, n)[i] = o[i] /\ o[i] \in Nat
             /\ Append(o, n)[Len(o) + 1] = n
      OBVIOUS
    <3>1. /\ Len(out'[s]) = Len(out[s]) + 1 /\ Len(out[s]) \in Nat
          /\ DOMAIN out'[s] = 1..(Len(out[s]) + 1) /\ DOMAIN out[s] = 1..Len(out[s])
          /\ \A i \in DOMAIN out[s] : out'[s][i] = out[s][i] /\ out[s][i] \in Nat
          /\ out'[s][Len(out[s]) + 1] = Head(q)
      BY <1>0, <1>3, <2>1, <3>a, SMTT(30)
    <3>2. /\ \A i \in DOMAIN out[s] : out[s][i] < Head(q)
          /\ \A j \in Indices(Tail(q)) : Head(q) < Tail(q)[j]
          /\ Head(q) <= arrived[s]
      BY <1>1, <1>2, <2>1 DEF OrderInv
    <3>3. \A i, j \in DOMAIN out'[s] : i < j => out'[s][i] < out'[s][j]
      BY <1>2, <3>1, <3>2, SMTT(30) DEF OrderInv
    <3>4. \A i \in DOMAIN out'[s], j \in Indices(Tail(q)) : out'[s][i] < Tail(q)[j]
      <4> SUFFICES ASSUME NEW i \in DOMAIN out'[s], NEW j \in Indices(Tail(q))
                   PROVE  out'[s][i] < Tail(q)[j]
        OBVIOUS
      <4>1. CASE i = Len(out[s]) + 1
        BY <3>1, <3>2, <4>1
      <4>2. CASE i \in DOMAIN out[s]
        <5>1. out[s][i] < q[j + 1]
          BY <1>1, <1>2, <4>2 DEF OrderInv
        <5> QED
          BY <1>1, <3>1, <4>2, <5>1
      <4>3. i = Len(out[s]) + 1 \/ i \in DOMAIN out[s]
        BY <3>1
      <4> QED
        BY <4>1, <4>2, <4>3
    <3>5. \A i \in DOMAIN out'[s] : out'[s][i] <= arrived[s]
      BY <1>2, <3>1, <3>2 DEF OrderInv
    <3> QED
      BY <1>1, <1>2, <1>4, <3>3, <3>4, <3>5 DEF OrderInv
  <2>2. CASE out'[s] = out[s]
    BY <1>1, <1>2, <1>4, <2>2 DEF OrderInv
  <2> QED
    BY <2>1, <2>2
<1>6. CountInv(s)'
  <2>1. /\ Cardinality(Indices(q)) = Cardinality(Indices(Tail(q)))
                                     + (IF Numbered(Head(q)) THEN 1 ELSE 0)
        /\ Cardinality(Indices(Tail(q))) \in Nat
    BY <1>0, <1>1, IndicesTail, IndicesFinite
  <2>2. Cardinality(dropped[s]) \in Nat
    <3>1. IsFiniteSet(1..Tracked)
      BY <1>0, FS_Interval
    <3> QED
      BY <1>0, <3>1, FS_Subset, FS_CardinalityType
  <2>3. /\ Len(out[s]) = counts[s].forwarded
        /\ Balanced(arrived[s], counts[s].forwarded, counts[s].errors,
                    Cardinality(dropped[s]), Cardinality(Indices(q)))
    BY DEF SideInv, CountInv
  <2>4. out'[s] = Append(out[s], Head(q)) => Len(out'[s]) = Len(out[s]) + 1
    BY <1>0, <1>3
  <2> HIDE DEF q
  <2>5. /\ counts[s].forwarded \in Nat /\ counts[s].errors \in Nat
        /\ Cardinality(Indices(Tail(q))) \in Nat /\ Cardinality(dropped[s]) \in Nat
        /\ arrived[s] \in Nat
    BY <1>0, <2>1, <2>2
  <2>6. /\ Len(out'[s]) = counts'[s].forwarded
        /\ Balanced(arrived[s], counts'[s].forwarded, counts'[s].errors,
                    Cardinality(dropped[s]), Cardinality(Indices(Tail(q))))
    <3>1. CASE /\ Numbered(Head(q)) /\ out'[s] = Append(out[s], Head(q))
               /\ counts'[s].forwarded = counts[s].forwarded + 1
               /\ counts'[s].errors = counts[s].errors
      <4>1. Cardinality(Indices(q)) = Cardinality(Indices(Tail(q))) + 1
        BY <2>1, <3>1
      <4>2. Balanced(arrived[s], counts[s].forwarded, counts[s].errors,
                     Cardinality(dropped[s]), Cardinality(Indices(Tail(q))) + 1)
        BY <2>3, <4>1
      <4>3. Balanced(arrived[s], counts[s].forwarded + 1, counts[s].errors,
                     Cardinality(dropped[s]), Cardinality(Indices(Tail(q))))
        BY <2>5, <4>2, Moved
      <4> QED
        BY <2>3, <2>4, <3>1, <4>3
    <3>2. CASE /\ Numbered(Head(q)) /\ out'[s] = out[s]
               /\ counts'[s].forwarded = counts[s].forwarded
               /\ counts'[s].errors = counts[s].errors + 1
      <4>1. Cardinality(Indices(q)) = Cardinality(Indices(Tail(q))) + 1
        BY <2>1, <3>2
      <4>2. Balanced(arrived[s], counts[s].forwarded, counts[s].errors,
                     Cardinality(dropped[s]), Cardinality(Indices(Tail(q))) + 1)
        BY <2>3, <4>1
      <4>3. Balanced(arrived[s], counts[s].forwarded, counts[s].errors + 1,
                     Cardinality(dropped[s]), Cardinality(Indices(Tail(q))))
        BY <2>5, <4>2, Moved
      <4> QED
        BY <2>3, <3>2, <4>3
    <3>3. CASE ~Numbered(Head(q)) /\ out'[s] = out[s] /\ counts'[s] = counts[s]
      <4>1. Cardinality(Indices(q)) = Cardinality(Indices(Tail(q)))
        BY <2>1, <2>5, <3>3
      <4> QED
        BY <2>3, <3>3, <4>1
    <3> QED
      BY <3>1, <3>2, <3>3 DEF q
  <2> QED
    BY <2>6 DEF CountInv, q
<1>7. SentinelInv(s)'
  <2>1. \A i \in DOMAIN Tail(q) : Tail(q)[i] = End => i = Len(Tail(q)) /\ ~sniffing[s]
    <3> SUFFICES ASSUME NEW i \in DOMAIN Tail(q), q[i + 1] = End
                 PROVE  i = Len(Tail(q)) /\ ~sniffing[s]
      BY <1>1
    <3>1. i + 1 = Len(q) /\ ~sniffing[s]
      BY <1>1 DEF SideInv, SentinelInv
    <3>2. i \in Int
      BY <1>1
    <3> QED
      BY <1>1, <3>1, <3>2
  <2>2. ~done[s] /\ (broken[s] => ~sniffing[s])
    BY DEF SideInv, SentinelInv
  <2> QED
    BY <2>1, <2>2 DEF SentinelInv
<1> QED
  BY <1>5, <1>6, <1>7 DEF SideInv

(* Where the frames are when one more is queued.                            *)
LEMMA AppendShape ==
    ASSUME NEW q \in Seq(0..End), NEW e \in 0..End
    PROVE  /\ Append(q, e) \in Seq(0..End) /\ Len(Append(q, e)) = Len(q) + 1 /\ Len(q) \in Nat
           /\ \A i \in DOMAIN Append(q, e) :
                 \/ i \in DOMAIN q /\ i < Len(q) + 1 /\ Append(q, e)[i] = q[i]
                 \/ i = Len(q) + 1 /\ Append(q, e)[i] = e
           /\ \A i \in Indices(Append(q, e)) :
                 \/ i \in Indices(q) /\ i < Len(q) + 1 /\ Append(q, e)[i] = q[i]
                 \/ i = Len(q) + 1 /\ Append(q, e)[i] = e /\ Numbered(e)
           /\ \A i \in Indices(q) : q[i] \in Nat /\ i \in Nat
<1>1. /\ Len(Append(q, e)) = Len(q) + 1 /\ Len(q) \in Nat
      /\ Append(q, e) \in Seq(0..End)
      /\ \A i \in 1..Len(q) : Append(q, e)[i] = q[i]
      /\ Append(q, e)[Len(q) + 1] = e
      /\ DOMAIN q = 1..Len(q) /\ DOMAIN Append(q, e) = 1..(Len(q) + 1)
  OBVIOUS
<1>2. \A i \in DOMAIN Append(q, e) :
         \/ i \in DOMAIN q /\ i < Len(q) + 1 /\ Append(q, e)[i] = q[i]
         \/ i = Len(q) + 1 /\ Append(q, e)[i] = e
  BY <1>1
<1>3. \A i \in Indices(Append(q, e)) :
         \/ i \in Indices(q) /\ i < Len(q) + 1 /\ Append(q, e)[i] = q[i]
         \/ i = Len(q) + 1 /\ Append(q, e)[i] = e /\ Numbered(e)
  BY <1>2 DEF Indices
<1>4. \A i \in Indices(q) : q[i] \in Nat /\ i \in Nat
  <2>1. \A i \in DOMAIN q : i \in 1..Len(q) /\ i \in Nat
    BY <1>1
  <2> QED
    BY <2>1, BridgeAssumption DEF Indices, Numbered
<1> QED
  BY <1>1, <1>2, <1>3, <1>4

(* The link delivers a frame: queued at the end, or dropped.                *)
LEMMA Delivered ==
    ASSUME BridgeShape, NEW s \in Sides, SideInv(s), Deliver(s)
    PROVE  SideInv(s)'
<1> DEFINE q == queue[s]
           number == IF arrived[s] < Tracked THEN arrived[s] + 1 ELSE 0
<1>0. /\ q \in Seq(0..End) /\ out[s] \in Seq(Nat) /\ arrived[s] \in 0..Tracked
      /\ counts[s].forwarded \in Nat /\ counts[s].errors \in Nat
      /\ dropped[s] \in SUBSET (1..Tracked) /\ Tracked \in Nat
  BY BridgeAssumption DEF BridgeShape
<1>1. /\ UNCHANGED <<out, counts, sniffing, broken, done, bpc>> /\ sniffing[s]
      /\ arrived'[s] = IF number = 0 THEN arrived[s] ELSE number
      /\ \/ queue' = queue /\ dropped'[s] = dropped[s] \cup ({number} \ {0})
         \/ queue'[s] = Append(q, number) /\ dropped' = dropped
  BY DEF Deliver, BridgeShape
<1>2. /\ number \in 0..End /\ number # End /\ arrived[s] \in Nat /\ arrived'[s] \in Nat
      /\ arrived[s] <= arrived'[s] /\ number <= arrived'[s] /\ number \in Nat
      /\ number # 0 => arrived[s] < number /\ arrived'[s] = arrived[s] + 1
      /\ number = 0 => arrived'[s] = arrived[s]
      /\ Numbered(number) <=> number # 0
  BY <1>0, <1>1 DEF End, Numbered
<1> HIDE DEF number
<1>3. /\ \A i \in DOMAIN Append(q, number) :
            \/ i \in DOMAIN q /\ i < Len(q) + 1 /\ Append(q, number)[i] = q[i]
            \/ i = Len(q) + 1 /\ Append(q, number)[i] = number
      /\ \A i \in Indices(Append(q, number)) :
            \/ i \in Indices(q) /\ i < Len(q) + 1 /\ Append(q, number)[i] = q[i]
            \/ i = Len(q) + 1 /\ Append(q, number)[i] = number /\ number # 0
      /\ \A i \in Indices(q) : q[i] \in Nat /\ i \in Nat
      /\ Len(q) \in Nat
      /\ \A i \in Indices(Append(q, number)) : i \in Nat /\ i <= Len(q) + 1
  <2>1. /\ Len(q) \in Nat
        /\ \A i \in DOMAIN Append(q, number) :
              \/ i \in DOMAIN q /\ i < Len(q) + 1 /\ Append(q, number)[i] = q[i]
              \/ i = Len(q) + 1 /\ Append(q, number)[i] = number
        /\ \A i \in Indices(Append(q, number)) :
              \/ i \in Indices(q) /\ i < Len(q) + 1 /\ Append(q, number)[i] = q[i]
              \/ i = Len(q) + 1 /\ Append(q, number)[i] = number /\ Numbered(number)
        /\ \A i \in Indices(q) : q[i] \in Nat /\ i \in Nat
    BY <1>0, <1>2, AppendShape
  <2>2. \A i \in Indices(Append(q, number)) : i \in Nat /\ i <= Len(q) + 1
    BY <2>1
  <2> HIDE DEF q
  <2> QED
    BY <1>2, <2>1, <2>2
<1>4. OrderInv(s)
  BY DEF SideInv
<1>5. /\ \A i \in DOMAIN out[s] : out[s][i] \in Nat /\ out[s][i] <= arrived[s]
      /\ \A j \in Indices(q) : q[j] <= arrived[s]
      /\ \A n \in dropped[s] : n <= arrived[s] /\ n \in Nat
  BY <1>0, <1>4 DEF OrderInv
<1>6. OrderInv(s)'
  <2>1. /\ \A i \in DOMAIN out[s] : out[s][i] <= arrived'[s]
        /\ \A j \in Indices(q) : q[j] <= arrived'[s]
        /\ \A n \in dropped[s] : n <= arrived'[s]
    BY <1>2, <1>3, <1>5
  <2>2. CASE queue' = queue /\ dropped'[s] = dropped[s] \cup ({number} \ {0})
    BY <1>1, <1>2, <1>4, <2>1, <2>2 DEF OrderInv
  <2>3. CASE queue'[s] = Append(q, number) /\ dropped' = dropped
    <3>1. \A i, j \in Indices(Append(q, number)) :
             i < j => Append(q, number)[i] < Append(q, number)[j]
      <4> SUFFICES ASSUME NEW i \in Indices(Append(q, number)),
                          NEW j \in Indices(Append(q, number)), i < j
                   PROVE  Append(q, number)[i] < Append(q, number)[j]
        OBVIOUS
      <4>1. i \in Indices(q) /\ i < Len(q) + 1 /\ Append(q, number)[i] = q[i]
        <5>1. i # Len(q) + 1
          BY <1>3
        <5> QED
          BY <1>3, <5>1
      <4>2. CASE j \in Indices(q) /\ Append(q, number)[j] = q[j]
        BY <1>4, <4>1, <4>2 DEF OrderInv
      <4>3. CASE Append(q, number)[j] = number /\ number # 0
        <5>1. q[i] <= arrived[s] /\ arrived[s] < number /\ q[i] \in Nat
          BY <1>2, <1>3, <1>5, <4>1, <4>3
        <5> QED
          BY <1>2, <4>1, <4>3, <5>1
      <4> QED
        BY <1>3, <4>2, <4>3
    <3>2. \A i \in DOMAIN out[s], j \in Indices(Append(q, number)) :
             out[s][i] < Append(q, number)[j]
      <4> SUFFICES ASSUME NEW i \in DOMAIN out[s], NEW j \in Indices(Append(q, number))
                   PROVE  out[s][i] < Append(q, number)[j]
        OBVIOUS
      <4>2. CASE j \in Indices(q) /\ Append(q, number)[j] = q[j]
        BY <1>4, <4>2 DEF OrderInv
      <4>3. CASE Append(q, number)[j] = number /\ number # 0
        <5>1. out[s][i] <= arrived[s] /\ arrived[s] < number /\ out[s][i] \in Nat
          BY <1>2, <1>5, <4>3
        <5> QED
          BY <1>2, <4>3, <5>1
      <4> QED
        BY <1>3, <4>2, <4>3
    <3>3. \A j \in Indices(Append(q, number)) : Append(q, number)[j] <= arrived'[s]
      BY <1>2, <1>3, <2>1
    <3> QED
      BY <1>1, <1>4, <2>1, <2>3, <3>1, <3>2, <3>3 DEF OrderInv
  <2> QED
    BY <1>1, <2>2, <2>3
<1>7. CountInv(s)'
  <2>1. /\ Len(out[s]) = counts[s].forwarded
        /\ Balanced(arrived[s], counts[s].forwarded, counts[s].errors,
                    Cardinality(dropped[s]), Cardinality(Indices(q)))
    BY DEF SideInv, CountInv
  <2>2. IsFiniteSet(dropped[s]) /\ Cardinality(dropped[s]) \in Nat
    <3>1. IsFiniteSet(1..Tracked)
      BY <1>0, FS_Interval
    <3> QED
      BY <1>0, <3>1, FS_Subset, FS_CardinalityType
  <2>3. Cardinality(Indices(q)) \in Nat
    BY <1>0, IndicesFinite
  <2>4. CASE queue' = queue /\ dropped'[s] = dropped[s] \cup ({number} \ {0})
    <3>1. CASE number = 0
      <4>1. dropped'[s] = dropped[s]
        BY <2>4, <3>1
      <4> QED
        BY <1>1, <1>2, <2>1, <2>4, <3>1, <4>1 DEF CountInv
    <3>2. CASE number # 0
      <4>1. dropped'[s] = dropped[s] \cup {number} /\ number \notin dropped[s]
        BY <1>2, <1>5, <2>4, <3>2
      <4>2. Cardinality(dropped'[s]) = Cardinality(dropped[s]) + 1
        BY <2>2, <4>1, FS_AddElement
      <4>3. Balanced(arrived[s] + 1, counts[s].forwarded, counts[s].errors,
                     Cardinality(dropped[s]) + 1, Cardinality(Indices(q)))
        BY <1>0, <1>2, <2>1, <2>2, <2>3, Moved
      <4> QED
        BY <1>1, <1>2, <2>1, <2>4, <3>2, <4>2, <4>3 DEF CountInv
    <3> QED
      BY <3>1, <3>2
  <2>5. CASE queue'[s] = Append(q, number) /\ dropped' = dropped
    <3>1. Cardinality(Indices(Append(q, number)))
            = Cardinality(Indices(q)) + (IF Numbered(number) THEN 1 ELSE 0)
      BY <1>0, <1>2, IndicesAppend
    <3>2. CASE number = 0
      <4>1. Cardinality(Indices(Append(q, number))) = Cardinality(Indices(q))
        BY <1>2, <2>3, <3>1, <3>2
      <4> QED
        BY <1>1, <1>2, <2>1, <2>5, <3>2, <4>1 DEF CountInv
    <3>3. CASE number # 0
      <4>1. Cardinality(Indices(Append(q, number))) = Cardinality(Indices(q)) + 1
        BY <1>2, <3>1, <3>3
      <4>2. Balanced(arrived[s] + 1, counts[s].forwarded, counts[s].errors,
                     Cardinality(dropped[s]), Cardinality(Indices(q)) + 1)
        BY <1>0, <1>2, <2>1, <2>2, <2>3, Moved
      <4> QED
        BY <1>1, <1>2, <2>1, <2>5, <3>3, <4>1, <4>2 DEF CountInv
    <3> QED
      BY <3>2, <3>3
  <2> QED
    BY <1>1, <2>4, <2>5
<1>8. SentinelInv(s)'
  <2>1. \A i \in DOMAIN q : q[i] # End
    BY <1>1 DEF SideInv, SentinelInv
  <2>2. ~done[s] /\ ~broken[s] /\ bpc # "idle"
    BY <1>1 DEF SideInv, SentinelInv
  <2>3. \A i \in DOMAIN queue'[s] : queue'[s][i] # End
    BY <1>1, <1>2, <1>3, <2>1
  <2> QED
    BY <1>1, <2>2, <2>3 DEF SentinelInv
<1> QED
  BY <1>6, <1>7, <1>8 DEF SideInv

(* A sniffer ends: the sentinel goes behind everything it captured.         *)
LEMMA SentinelQueued ==
    ASSUME BridgeShape, NEW s \in Sides, SideInv(s), SnifferEnds(s)
    PROVE  SideInv(s)'
<1> DEFINE q == queue[s]
<1>0. q \in Seq(0..End) /\ End \in 0..End /\ ~Numbered(End) /\ Tracked \in Nat
  BY BridgeAssumption DEF BridgeShape, End, Numbered
<1>1. /\ UNCHANGED <<out, counts, done, bpc, arrived, dropped>> /\ sniffing[s]
      /\ queue'[s] = Append(q, End) /\ ~sniffing'[s]
  BY DEF SnifferEnds, BridgeShape
<1>3. /\ \A i \in DOMAIN Append(q, End) :
            \/ i \in DOMAIN q /\ i < Len(q) + 1 /\ Append(q, End)[i] = q[i]
            \/ i = Len(q) + 1 /\ Append(q, End)[i] = End
      /\ \A i \in Indices(Append(q, End)) : i \in Indices(q) /\ Append(q, End)[i] = q[i]
      /\ Len(Append(q, End)) = Len(q) + 1
  BY <1>0, AppendShape
<1>4. OrderInv(s)'
  <2>1. OrderInv(s)
    BY DEF SideInv
  <2> QED
    BY <1>1, <1>3, <2>1 DEF OrderInv
<1>5. CountInv(s)'
  <2>1. Cardinality(Indices(Append(q, End))) = Cardinality(Indices(q))
    BY <1>0, IndicesAppend, IndicesFinite
  <2> QED
    BY <1>1, <2>1 DEF SideInv, CountInv
<1>6. SentinelInv(s)'
  <2>1. \A i \in DOMAIN q : q[i] # End
    BY <1>1 DEF SideInv, SentinelInv
  <2>2. ~done[s] /\ bpc # "idle"
    BY <1>1 DEF SideInv, SentinelInv
  <2> QED
    BY <1>1, <1>3, <2>1, <2>2 DEF SentinelInv
<1> QED
  BY <1>4, <1>5, <1>6 DEF SideInv

(* A side that ends cleanly is done, and has nothing left.                  *)
LEMMA SideDone ==
    ASSUME BridgeShape, NEW s \in Sides, SideInv(s), SideEnds(s), ~broken[s]
    PROVE  SideInv(s)'
<1> DEFINE q == queue[s]
<1>0. q \in Seq(0..End) /\ q # <<>> /\ Head(q) = End /\ ~Numbered(End) /\ Tracked \in Nat
  BY BridgeAssumption DEF SideEnds, BridgeShape, End, Numbered
<1>1. /\ UNCHANGED <<sniffing, broken, arrived, dropped, counts, out>>
      /\ queue'[s] = Tail(q) /\ done'[s] /\ bpc' # "idle"
  BY DEF SideEnds, BridgeShape, AfterSide
<1>2. /\ Len(q) \in Nat /\ Len(q) >= 1 /\ Head(q) = q[1] /\ DOMAIN q = 1..Len(q)
      /\ Len(q) = 1 => Tail(q) = <<>>
  <2>1. /\ Len(q) \in Nat /\ Len(q) >= 1 /\ Head(q) = q[1] /\ DOMAIN q = 1..Len(q)
        /\ Tail(q) \in Seq(0..End) /\ Len(Tail(q)) = Len(q) - 1
    <3>1. DOMAIN q = 1..Len(q)
      BY <1>0
    <3> QED
      BY <1>0, <3>1, TailShape
  <2>2. Len(q) = 1 => Len(Tail(q)) = 0
    BY <2>1
  <2>3. Len(q) = 1 => Tail(q) = <<>>
    BY <2>1, <2>2, EmptySeq
  <2> QED
    BY <2>1, <2>3
<1>3. Len(q) = 1 /\ ~sniffing[s]
  <2>1. 1 \in DOMAIN q /\ q[1] = End
    BY <1>0, <1>2
  <2>2. \A i \in DOMAIN q : q[i] = End => i = Len(q) /\ ~sniffing[s]
    BY DEF SideInv, SentinelInv
  <2> QED
    BY <2>1, <2>2
<1>4. queue'[s] = <<>> /\ Indices(<<>>) = {}
  BY <1>1, <1>2, <1>3 DEF Indices
<1>5. OrderInv(s)'
  <2>1. OrderInv(s)
    BY DEF SideInv
  <2> QED
    BY <1>1, <1>4, <2>1 DEF OrderInv
<1>6. CountInv(s)'
  <2>1. Cardinality(Indices(q)) = Cardinality(Indices(Tail(q)))
    <3>1. Tail(q) \in Seq(0..End)
      BY <1>0, TailShape
    <3>2. Cardinality(Indices(q)) = Cardinality(Indices(Tail(q))) + 0
      BY <1>0, IndicesTail
    <3>3. Cardinality(Indices(Tail(q))) \in Nat
      BY <3>1, IndicesFinite
    <3> QED
      BY <3>2, <3>3
  <2> QED
    BY <1>1, <2>1 DEF SideInv, CountInv
<1>7. SentinelInv(s)'
  <2>1. DOMAIN <<>> = {}
    OBVIOUS
  <2>2. ~sniffing'[s] /\ ~broken'[s] /\ queue'[s] = <<>> /\ bpc' # "idle"
    BY <1>1, <1>3, <1>4
  <2> QED
    BY <2>1, <2>2 DEF SentinelInv
<1> QED
  BY <1>5, <1>6, <1>7 DEF SideInv

(* The start finds both sides empty and sets the sniffers going.            *)
LEMMA SideStarts ==
    ASSUME BridgeShape, NEW s \in Sides, SideInv(s), BridgeStart
    PROVE  SideInv(s)'
<1>1. /\ queue[s] = <<>> /\ ~broken[s] /\ ~done[s] /\ bpc' # "idle"
      /\ UNCHANGED <<queue, out, broken, done, arrived, dropped, counts>>
  BY DEF BridgeStart, SideInv, SentinelInv
<1>2. OrderInv(s)'
  BY <1>1 DEF SideInv, OrderInv
<1>3. CountInv(s)'
  BY <1>1 DEF SideInv, CountInv
<1>4. SentinelInv(s)'
  BY <1>1 DEF SentinelInv
<1> QED
  BY <1>2, <1>3, <1>4 DEF SideInv

-----------------------------------------------------------------------------
(* Both directions.                                                         *)

(* The bridge starts with nothing carried.                                  *)
LEMMA BridgeInvInit == BridgeInit => BridgeInv
<1> SUFFICES ASSUME BridgeInit PROVE BridgeInv
  OBVIOUS
<1>0. Tracked \in Nat
  BY BridgeAssumption
<1>1. BridgeShape
  <2>1. <<>> \in Seq(0..End) /\ <<>> \in Seq(Nat)
    OBVIOUS
  <2>2. queue \in [Sides -> Seq(0..End)] /\ out \in [Sides -> Seq(Nat)]
    BY <2>1 DEF BridgeInit
  <2>3. counts \in [Sides -> [forwarded : Nat, errors : Nat]]
    BY DEF BridgeInit
  <2>4. arrived \in [Sides -> 0..Tracked] /\ dropped \in [Sides -> SUBSET (1..Tracked)]
    BY <1>0 DEF BridgeInit
  <2>5. /\ sniffing \in [Sides -> BOOLEAN] /\ broken \in [Sides -> BOOLEAN]
        /\ done \in [Sides -> BOOLEAN] /\ bpc = "idle" /\ bstop = FALSE
        /\ bstatus \in [stopped : BOOLEAN, error : BOOLEAN]
    BY DEF BridgeInit
  <2> QED
    BY <2>2, <2>3, <2>4, <2>5 DEF BridgeShape
<1>2. EndInv
  BY DEF BridgeInit, EndInv
<1>3. ASSUME NEW s \in Sides PROVE SideInv(s)
  <2>1. Indices(<<>>) = {} /\ Cardinality({}) = 0 /\ Len(<<>>) = 0
    BY FS_EmptySet DEF Indices
  <2>2. /\ queue[s] = <<>> /\ out[s] = <<>> /\ arrived[s] = 0 /\ dropped[s] = {}
        /\ counts[s].forwarded = 0 /\ counts[s].errors = 0
        /\ ~sniffing[s] /\ ~broken[s] /\ ~done[s]
    BY DEF BridgeInit
  <2>3. Balanced(0, 0, 0, 0, 0)
    BY DEF Balanced
  <2>4. OrderInv(s)
    BY <2>1, <2>2 DEF OrderInv
  <2>5. CountInv(s)
    BY <2>1, <2>2, <2>3 DEF CountInv
  <2>6. SentinelInv(s)
    BY <2>2 DEF SentinelInv
  <2> QED
    BY <2>4, <2>5, <2>6 DEF SideInv
<1> QED
  BY <1>1, <1>2, <1>3 DEF BridgeInv

(* Every step of the bridge keeps the types.                                *)
LEMMA ShapeStep == BridgeShape /\ BridgeNext => BridgeShape'
<1> SUFFICES ASSUME BridgeShape, BridgeNext PROVE BridgeShape'
  OBVIOUS
<1>0. Tracked \in Nat /\ \A s \in Sides : AfterSide(s) \in {"right", "rest"}
  BY BridgeAssumption DEF AfterSide
<1>1. CASE BridgeStart \/ Rest \/ Close \/ BridgeStop
  BY <1>1 DEF BridgeShape, BridgeStart, Rest, Close, BridgeStop
<1>2. ASSUME NEW s \in Sides, LeaveSide(s) \/ Poll(s) \/ QueueEmpty(s)
      PROVE  BridgeShape'
  BY <1>0, <1>2 DEF BridgeShape, LeaveSide, Poll, QueueEmpty, Draining
<1>3. ASSUME NEW s \in Sides, queue[s] # <<>>, queue' = [queue EXCEPT ![s] = Tail(@)]
      PROVE  queue' \in [Sides -> Seq(0..End)] /\ Head(queue[s]) \in 0..End
  <2>1. queue[s] \in Seq(0..End)
    BY DEF BridgeShape
  <2>2. Tail(queue[s]) \in Seq(0..End) /\ Head(queue[s]) \in 0..End
    BY <1>3, <2>1, TailShape
  <2> QED
    BY <1>3, <2>2 DEF BridgeShape
<1>4. ASSUME NEW s \in Sides, Forward(s) PROVE BridgeShape'
  <2>1. queue' \in [Sides -> Seq(0..End)]
    BY <1>3, <1>4 DEF Forward
  <2>2. counts' \in [Sides -> [forwarded : Nat, errors : Nat]]
    <3>1. counts \in [Sides -> [forwarded : Nat, errors : Nat]]
      BY DEF BridgeShape
    <3>2. [counts EXCEPT ![s].forwarded = @ + 1] \in [Sides -> [forwarded : Nat, errors : Nat]]
      BY <3>1
    <3> QED
      BY <1>4, <3>1, <3>2 DEF Forward
  <2>3. out' \in [Sides -> Seq(Nat)]
    <3>1. Numbered(Head(queue[s])) => Head(queue[s]) \in Nat
      BY <1>0 DEF Numbered
    <3>2. \A n \in Nat : Append(out[s], n) \in Seq(Nat)
      BY DEF BridgeShape
    <3> QED
      BY <1>4, <3>1, <3>2 DEF Forward, BridgeShape
  <2> QED
    BY <1>4, <2>1, <2>2, <2>3 DEF Forward, BridgeShape
<1>5. ASSUME NEW s \in Sides, SendFails(s) PROVE BridgeShape'
  <2>1. queue' \in [Sides -> Seq(0..End)]
    BY <1>3, <1>5 DEF SendFails
  <2>2. counts' \in [Sides -> [forwarded : Nat, errors : Nat]]
    <3>1. counts \in [Sides -> [forwarded : Nat, errors : Nat]]
      BY DEF BridgeShape
    <3>2. [counts EXCEPT ![s].errors = @ + 1] \in [Sides -> [forwarded : Nat, errors : Nat]]
      BY <3>1
    <3> QED
      BY <1>5, <3>1, <3>2 DEF SendFails
  <2> QED
    BY <1>5, <2>1, <2>2 DEF SendFails, BridgeShape
<1>6. ASSUME NEW s \in Sides, SideEnds(s) PROVE BridgeShape'
  <2>1. queue' \in [Sides -> Seq(0..End)]
    BY <1>3, <1>6 DEF SideEnds
  <2> QED
    BY <1>0, <1>6, <2>1 DEF SideEnds, BridgeShape
<1>7. ASSUME NEW s \in Sides, Deliver(s) PROVE BridgeShape'
  <2> DEFINE number == IF arrived[s] < Tracked THEN arrived[s] + 1 ELSE 0
  <2>1. number \in 0..Tracked /\ number \in 0..End /\ {number} \ {0} \subseteq 1..Tracked
    <3>1. arrived[s] \in 0..Tracked
      BY DEF BridgeShape
    <3> QED
      BY <1>0, <3>1 DEF End
  <2>2. Append(queue[s], number) \in Seq(0..End)
    <3>1. queue[s] \in Seq(0..End)
      BY DEF BridgeShape
    <3> QED
      BY <2>1, <3>1, AppendShape
  <2>3. /\ UNCHANGED <<bpc, sniffing, broken, done, counts, out, bstop, bstatus>>
        /\ arrived' = [arrived EXCEPT ![s] = IF number = 0 THEN @ ELSE number]
        /\ \/ queue' = queue /\ dropped' = [dropped EXCEPT ![s] = @ \cup ({number} \ {0})]
           \/ queue' = [queue EXCEPT ![s] = Append(@, number)] /\ dropped' = dropped
    BY <1>7 DEF Deliver
  <2> HIDE DEF number
  <2> QED
    BY <2>1, <2>2, <2>3, ZenonT(60) DEF BridgeShape
<1>8. ASSUME NEW s \in Sides, SnifferEnds(s) PROVE BridgeShape'
  <2>1. Append(queue[s], End) \in Seq(0..End)
    <3>1. queue[s] \in Seq(0..End) /\ End \in 0..End
      BY <1>0 DEF BridgeShape, End
    <3> QED
      BY <3>1, AppendShape
  <2> QED
    BY <1>8, <2>1 DEF SnifferEnds, BridgeShape
<1> QED
  BY <1>1, <1>2, <1>4, <1>5, <1>6, <1>7, <1>8 DEF BridgeNext, BridgeThread

(* Every step keeps the account of both sides.                              *)
LEMMA SidesStep == BridgeInv /\ BridgeNext => \A s \in Sides : SideInv(s)'
<1> SUFFICES ASSUME BridgeInv, BridgeNext, NEW s \in Sides PROVE SideInv(s)'
  OBVIOUS
<1>0. BridgeShape /\ SideInv(s)
  BY DEF BridgeInv
<1>1. CASE BridgeStart
  BY <1>0, <1>1, SideStarts
<1>2. CASE Rest \/ Close \/ BridgeStop
  BY <1>0, <1>2, SideStays DEF Rest, Close, BridgeStop
<1>3. ASSUME NEW t \in Sides, LeaveSide(t) \/ Poll(t) \/ QueueEmpty(t)
      PROVE  SideInv(s)'
  BY <1>0, <1>3, SideStays DEF LeaveSide, Poll, QueueEmpty, Draining, AfterSide
<1>4. ASSUME NEW t \in Sides, t # s,
             Forward(t) \/ SendFails(t) \/ SideEnds(t) \/ Deliver(t) \/ SnifferEnds(t)
      PROVE  SideInv(s)'
  <2>1. /\ queue'[s] = queue[s] /\ out'[s] = out[s] /\ sniffing'[s] = sniffing[s]
        /\ broken'[s] = broken[s] /\ done'[s] = done[s] /\ arrived'[s] = arrived[s]
        /\ dropped'[s] = dropped[s] /\ counts'[s] = counts[s]
        /\ bpc' = bpc \/ bpc' # "idle"
    BY <1>0, <1>4, SMTT(30) DEF BridgeShape, Forward, SendFails, SideEnds, Deliver, SnifferEnds,
                      AfterSide
  <2> QED
    BY <1>0, <2>1, SideStays
<1>5. CASE Forward(s)
  <2>1. /\ UNCHANGED <<bpc, sniffing, broken, done, arrived, dropped>> /\ bpc # "idle"
        /\ queue[s] # <<>> /\ queue'[s] = Tail(queue[s])
    BY <1>0, <1>5 DEF Forward, Draining, BridgeShape, Sides
  <2>2. CASE Numbered(Head(queue[s]))
    <3>1. /\ out'[s] = Append(out[s], Head(queue[s]))
          /\ counts'[s].forwarded = counts[s].forwarded + 1
          /\ counts'[s].errors = counts[s].errors
      BY <1>0, <1>5, <2>2 DEF Forward, BridgeShape
    <3> QED
      BY <1>0, <2>1, <2>2, <3>1, FrontTaken
  <2>3. CASE ~Numbered(Head(queue[s]))
    <3>1. out'[s] = out[s] /\ counts'[s] = counts[s]
      BY <1>5, <2>3 DEF Forward
    <3> QED
      BY <1>0, <2>1, <2>3, <3>1, FrontTaken
  <2> QED
    BY <2>2, <2>3
<1>6. CASE SendFails(s)
  <2>1. /\ UNCHANGED <<bpc, sniffing, broken, done, arrived, dropped, out>> /\ bpc # "idle"
        /\ queue[s] # <<>> /\ queue'[s] = Tail(queue[s]) /\ Numbered(Head(queue[s]))
    BY <1>0, <1>6 DEF SendFails, Draining, BridgeShape, Sides
  <2>2. /\ counts'[s].forwarded = counts[s].forwarded
        /\ counts'[s].errors = counts[s].errors + 1
    BY <1>0, <1>6 DEF SendFails, BridgeShape
  <2> QED
    BY <1>0, <2>1, <2>2, FrontTaken
<1>7. CASE SideEnds(s)
  <2>1. CASE broken[s]
    <3>1. /\ UNCHANGED <<sniffing, broken, done, arrived, dropped, out, counts>>
          /\ bpc' # "idle" /\ queue[s] # <<>> /\ queue'[s] = Tail(queue[s])
      BY <1>0, <1>7, <2>1 DEF SideEnds, BridgeShape
    <3>2. ~Numbered(Head(queue[s]))
      BY <1>7, BridgeAssumption DEF SideEnds, Numbered, End
    <3> QED
      BY <1>0, <3>1, <3>2, FrontTaken
  <2> QED
    BY <1>0, <1>7, <2>1, SideDone
<1>8. CASE Deliver(s)
  BY <1>0, <1>8, Delivered
<1>9. CASE SnifferEnds(s)
  BY <1>0, <1>9, SentinelQueued
<1> QED
  BY <1>1, <1>2, <1>3, <1>4, <1>5, <1>6, <1>7, <1>8, <1>9 DEF BridgeNext, BridgeThread

(* Every step keeps the reason the bridge has, or will have, for its end:   *)
(* a sniffer that ended stays as it ended.                                  *)
LEMMA EndStep == BridgeInv /\ BridgeNext => EndInv'
<1> SUFFICES ASSUME BridgeInv, BridgeNext PROVE EndInv'
  OBVIOUS
<1>0. BridgeShape /\ EndInv /\ \A s \in Sides : SideInv(s)
  BY DEF BridgeInv
<1>1. \A s \in Sides : /\ broken[s] => ~sniffing[s]
                       /\ done[s] => ~sniffing[s] /\ queue[s] = <<>>
  BY <1>0 DEF SideInv, SentinelInv
<1>2. CASE BridgeStart
  BY <1>0, <1>2 DEF BridgeStart, EndInv, BridgeShape
<1>3. CASE Rest
  <2>1. ~bstatus.error
    BY <1>0, <1>3 DEF Rest, EndInv
  <2> QED
    BY <1>0, <1>3, <2>1 DEF Rest, EndInv, Reason, BothDone
<1>4. CASE Close
  BY <1>0, <1>4 DEF Close, EndInv, Reason, BridgeShape
<1>5. CASE BridgeStop
  BY <1>0, <1>5 DEF BridgeStop, EndInv, Reason
<1>6. ASSUME NEW s \in Sides,
             LeaveSide(s) \/ Poll(s) \/ QueueEmpty(s) \/ Forward(s) \/ SendFails(s)
      PROVE  EndInv'
  <2>1. /\ UNCHANGED <<broken, done, bstop, bstatus>> /\ bpc \in {"left", "right"}
        /\ bpc' \in {"left", "right", "rest"}
    BY <1>0, <1>6 DEF LeaveSide, Poll, QueueEmpty, Forward, SendFails, Draining, AfterSide,
                      Sides, BridgeShape
  <2> QED
    BY <1>0, <2>1 DEF EndInv
<1>7. ASSUME NEW s \in Sides, SideEnds(s) PROVE EndInv'
  <2>1. CASE broken[s]
    <3>1. bpc' = "closing" /\ broken' = broken /\ bstatus'.error
      BY <1>0, <1>7, <2>1 DEF SideEnds, BridgeShape
    <3> QED
      BY <2>1, <3>1 DEF EndInv, Reason
  <2>2. CASE ~broken[s]
    <3>1. bpc' \in {"right", "rest"} /\ bstatus' = bstatus /\ bpc \in {"left", "right"}
      BY <1>7, <2>2 DEF SideEnds, AfterSide, Draining, Sides
    <3> QED
      BY <1>0, <3>1 DEF EndInv
  <2> QED
    BY <2>1, <2>2
<1>8. ASSUME NEW s \in Sides, Deliver(s) PROVE EndInv'
  BY <1>0, <1>8 DEF Deliver, EndInv, Reason
<1>9. ASSUME NEW s \in Sides, SnifferEnds(s) PROVE EndInv'
  <2>1. /\ UNCHANGED <<bpc, done, bstop, bstatus>> /\ sniffing[s]
        /\ \A t \in Sides : t # s => broken'[t] = broken[t]
    BY <1>0, <1>9 DEF SnifferEnds, BridgeShape
  <2>2. Reason => Reason'
    BY <1>1, <2>1 DEF Reason
  <2> QED
    BY <1>0, <2>1, <2>2 DEF EndInv
<1> QED
  BY <1>2, <1>3, <1>4, <1>5, <1>6, <1>7, <1>8, <1>9 DEF BridgeNext, BridgeThread

(* The invariant of the bridge is inductive.                                *)
LEMMA BridgeInvStep == BridgeInv /\ [BridgeNext]_bridgeVars => BridgeInv'
<1> SUFFICES ASSUME BridgeInv, [BridgeNext]_bridgeVars PROVE BridgeInv'
  OBVIOUS
<1>1. CASE BridgeNext
  <2>1. BridgeShape'
    BY <1>1, ShapeStep DEF BridgeInv
  <2> QED
    BY <1>1, <2>1, SidesStep, EndStep DEF BridgeInv
<1>2. CASE UNCHANGED bridgeVars
  <2>1. BridgeShape' /\ EndInv'
    BY <1>2 DEF BridgeInv, BridgeShape, EndInv, Reason, bridgeVars
  <2>2. ASSUME NEW s \in Sides PROVE SideInv(s)'
    <3>1. SideInv(s)
      BY DEF BridgeInv
    <3> QED
      BY <1>2, <3>1, SideStays DEF bridgeVars
  <2> QED
    BY <2>1, <2>2 DEF BridgeInv
<1> QED
  BY <1>1, <1>2

(* What the invariant says of a run: every frame accounted for, the order   *)
(* kept, and an end for a reason that shows.                                *)
LEMMA BridgeInvMeans == BridgeInv => BothWaysAccounted /\ EndsWithReason
<1> SUFFICES ASSUME BridgeInv PROVE BothWaysAccounted /\ EndsWithReason
  OBVIOUS
<1>1. BothWaysAccounted
  <2> SUFFICES ASSUME NEW s \in Sides
               PROVE  /\ \A i, j \in DOMAIN out[s] : i < j => out[s][i] < out[s][j]
                      /\ Len(out[s]) = counts[s].forwarded
                      /\ arrived[s] = counts[s].forwarded + counts[s].errors
                                      + Cardinality(dropped[s]) + Cardinality(Queued(s))
    BY DEF BothWaysAccounted
  <2>1. Queued(s) = Indices(queue[s])
    BY DEF Queued, Indices
  <2> QED
    BY <2>1 DEF BridgeInv, SideInv, OrderInv, CountInv, Balanced
<1>2. EndsWithReason
  BY DEF BridgeInv, EndInv, Reason, SideInv, SentinelInv, EndsWithReason
<1> QED
  BY <1>1, <1>2

(* The bridge accounts for every frame of both directions, keeps their      *)
(* order, and ends by itself only for a reason it shows, for any number of  *)
(* frames and any queue (bridge.py 101-181).                                *)
THEOREM BridgeIsAccountable == Spec => []BridgeAccounts
<1>1. Init => BridgeInv
  BY BridgeInvInit DEF Init
<1>2. BridgeInv /\ [Next]_vars => BridgeInv'
  <2>1. [Next]_vars => [BridgeNext]_bridgeVars
    BY DEF Next, vars
  <2> QED
    BY <2>1, BridgeInvStep
<1>3. BridgeInv => BridgeAccounts
  BY BridgeInvMeans DEF BridgeAccounts
<1> QED
  BY <1>1, <1>2, <1>3, PTL DEF Spec

-----------------------------------------------------------------------------
(* Service control.                                                         *)

Born(i) == i \in Controllers /\ thread[i] # "unborn"

(* Where a request can be, and what is known of the controller it is about. *)
PlaceOK(c) ==
    /\ req[c].at \in {"assign", "wait", "join", "status", "clear", "clear_running",
                      "look", "raise"} => Born(req[c].mine)
    /\ kind = "import" => req[c].at \in {"idle", "create", "wait", "join", "raise"}
    /\ kind # "import" => req[c].at \notin {"wait", "raise"}
    /\ req[c].at = "look" => kind = "replay"
    /\ req[c].at \in {"status", "clear", "clear_running", "look"} =>
          req[c].mine \in expired \/ thread[req[c].mine] = "ended"

PlaceInv == (slot # Nobody => Born(slot)) /\ \A c \in Callers : PlaceOK(c)

(* The controller i was built by a start of caller c, answered or about to  *)
(* be.                                                                      *)
Owner(c, i) ==
    \/ req[c].at = "assign" /\ req[c].mine = i
    \/ reply[c].to = "start" /\ reply[c].code = 200 /\ reply[c].about = i

(* A controller has one owner; an import answered with 200 is over.         *)
OwnerInv ==
    /\ \A c \in Callers : \A i : Owner(c, i) => Born(i)
    /\ \A c, d \in Callers : \A i : Owner(c, i) /\ Owner(d, i) => c = d
    /\ \A c \in Callers :
          reply[c].to = "import" /\ reply[c].code = 200 =>
              /\ reply[c].about \in Controllers
              /\ thread[reply[c].about] = "ended" /\ ~spoiled[reply[c].about]

(* Requests that never overlapped: one request at a time, a stop that finds *)
(* in the slot what it asked to stop, and no thread out of the slot's reach.*)
SequentialOK(c) ==
    /\ kind # "import" /\ req[c].at \in {"join", "status", "clear", "clear_running"}
          => slot = req[c].mine
    /\ kind = "capture" /\ req[c].at = "clear" => thread[req[c].mine] = "ended"
    /\ expired = {} /\ kind # "import" =>
          \A i \in Controllers :
              Running(i) => /\ req[c].at # "create"
                            /\ req[c].at = "assign" => req[c].mine = i

SequentialInv ==
    ~overlapped =>
        /\ \A c, d \in Callers : req[c].at # "idle" /\ req[d].at # "idle" => c = d
        /\ \A c \in Callers : SequentialOK(c)
        /\ expired = {} /\ kind # "import" =>
              \A i \in Controllers :
                  Running(i) => \/ slot = i
                                \/ \E c \in Callers : req[c].at = "assign" /\ req[c].mine = i

(* ControlTypeOK in three parts, so that a step opens only what it changes. *)
ReqOK == req \in [Callers -> [at : Places, mine : Controllers \cup {Nobody}]]

ReplyOK == reply \in [Callers -> [to : {"none", "start", "stop", "import"},
                                  code : {0, 200, 409, 422, 500}, running : BOOLEAN,
                                  about : Controllers \cup {Nobody}]]

RestOK ==
    /\ kind \in Kinds /\ slot \in Controllers \cup {Nobody}
    /\ thread \in [Controllers -> {"unborn", "opening", "running", "ended"}]
    /\ asked \in [Controllers -> BOOLEAN] /\ spoiled \in [Controllers -> BOOLEAN]
    /\ requests \in 0..MaxRequests /\ overlapped \in BOOLEAN
    /\ expired \subseteq Controllers

TypeInv == ReqOK /\ ReplyOK /\ RestOK

(* A step of one request thread keeps the types.                            *)
LEMMA TypeStep ==
    ASSUME TypeInv, NEW c \in Callers,
           StartRequest(c) \/ StopRequest(c) \/ ImportRequest(c) \/ RequestStep(c)
    PROVE  TypeInv'
<1>0. /\ ReqOK /\ ReplyOK /\ RestOK /\ slot \in Controllers \cup {Nobody}
      /\ req[c].mine \in Controllers \cup {Nobody} /\ MaxRequests \in Nat
  BY ControlAssumption DEF TypeInv, RestOK, ReqOK
<1>1. CASE StartRequest(c)
  <2>1. ReqOK'
    BY <1>0, <1>1 DEF StartRequest, Arrive, Go, Answer, ReqOK, Idle, Places
  <2>2. ReplyOK'
    BY <1>0, <1>1 DEF StartRequest, Arrive, Answer, ReplyOK, Running
  <2>3. RestOK'
    BY <1>0, <1>1 DEF StartRequest, Arrive, RestOK, Running
  <2> QED
    BY <2>1, <2>2, <2>3 DEF TypeInv
<1>2. CASE StopRequest(c)
  <2>1. ReqOK'
    BY <1>0, <1>2 DEF StopRequest, Arrive, Go, Answer, ReqOK, Idle, Places
  <2>2. ReplyOK'
    BY <1>0, <1>2 DEF StopRequest, Arrive, Answer, ReplyOK, Running
  <2>3. RestOK'
    BY <1>0, <1>2 DEF StopRequest, Arrive, RestOK, Running
  <2> QED
    BY <2>1, <2>2, <2>3 DEF TypeInv
<1>3. CASE ImportRequest(c)
  <2>1. ReqOK'
    BY <1>0, <1>3 DEF ImportRequest, Arrive, Go, Answer, ReqOK, Idle, Places
  <2>2. ReplyOK'
    BY <1>0, <1>3 DEF ImportRequest, Arrive, Answer, ReplyOK, Running
  <2>3. RestOK'
    BY <1>0, <1>3 DEF ImportRequest, Arrive, RestOK, Running
  <2> QED
    BY <2>1, <2>2, <2>3 DEF TypeInv
<1>4. CASE StartCheck(c)
  <2>1. ReqOK'
    BY <1>0, <1>4 DEF StartCheck, Go, ReqOK, Places
  <2>2. ReplyOK' /\ RestOK'
    BY <1>0, <1>4 DEF StartCheck, ReplyOK, RestOK
  <2> QED
    BY <2>1, <2>2 DEF TypeInv
<1>4b. CASE StartCompare(c)
  <2>1. ReqOK'
    BY <1>0, <1>4b DEF StartCompare, Go, Answer, ReqOK, Idle, Places
  <2>2. ReplyOK'
    <3>1. CASE UNCHANGED reply
      BY <1>0, <3>1 DEF ReplyOK
    <3>2. CASE Answer(c, "start", 500, FALSE, Nobody)
      BY <1>0, <3>2 DEF Answer, ReplyOK
    <3>3. CASE Answer(c, "start", 409, TRUE, slot)
      BY <1>0, <3>3 DEF Answer, ReplyOK
    <3> QED
      BY <1>4b, <3>1, <3>2, <3>3 DEF StartCompare
  <2>3. RestOK'
    BY <1>0, <1>4b DEF StartCompare, RestOK
  <2> QED
    BY <2>1, <2>2, <2>3 DEF TypeInv
<1>5. CASE StartCreate(c)
  <2>1. ReqOK'
    BY <1>0, <1>5 DEF StartCreate, Go, Answer, ReqOK, Idle, Places
  <2>2. ReplyOK'
    BY <1>0, <1>5 DEF StartCreate, Answer, ReplyOK, Running
  <2>3. RestOK'
    BY <1>0, <1>5 DEF StartCreate, RestOK, Running
  <2> QED
    BY <2>1, <2>2, <2>3 DEF TypeInv
<1>6. CASE StartFails(c)
  <2>1. ReqOK'
    BY <1>0, <1>6 DEF StartFails, Go, Answer, ReqOK, Idle, Places
  <2>2. ReplyOK'
    BY <1>0, <1>6 DEF StartFails, Answer, ReplyOK, Running
  <2>3. RestOK'
    BY <1>0, <1>6 DEF StartFails, RestOK, Running
  <2> QED
    BY <2>1, <2>2, <2>3 DEF TypeInv
<1>7. CASE StartAssign(c)
  <2>1. ReqOK'
    BY <1>0, <1>7 DEF StartAssign, Go, Answer, ReqOK, Idle, Places
  <2>2. ReplyOK'
    BY <1>0, <1>7 DEF StartAssign, Answer, ReplyOK, Running
  <2>3. RestOK'
    BY <1>0, <1>7 DEF StartAssign, RestOK, Running
  <2> QED
    BY <2>1, <2>2, <2>3 DEF TypeInv
<1>8. CASE StopCheck(c)
  <2>1. ReqOK'
    BY <1>0, <1>8 DEF StopCheck, Go, Answer, ReqOK, Idle, Places
  <2>2. ReplyOK'
    <3>1. CASE slot = Nobody
      <4>1. Answer(c, "stop", 200, FALSE, Nobody)
        BY <1>8, <3>1 DEF StopCheck
      <4> QED
        BY <1>0, <4>1 DEF Answer, ReplyOK, At
    <3>2. CASE ~(slot = Nobody)
      BY <1>0, <1>8, <3>2 DEF StopCheck, ReplyOK
    <3> QED
      BY <3>1, <3>2
  <2>3. RestOK'
    BY <1>0, <1>8 DEF StopCheck, RestOK, Running
  <2> QED
    BY <2>1, <2>2, <2>3 DEF TypeInv
<1>9. CASE StopAsk(c)
  <2>1. ReqOK'
    BY <1>0, <1>9 DEF StopAsk, Go, Answer, ReqOK, Idle, Places
  <2>2. ReplyOK'
    <3>1. CASE slot = Nobody
      <4>1. Answer(c, "stop", 500, FALSE, Nobody)
        BY <1>9, <3>1 DEF StopAsk
      <4> QED
        BY <1>0, <4>1 DEF Answer, ReplyOK, At
    <3>2. CASE ~(slot = Nobody)
      BY <1>0, <1>9, <3>2 DEF StopAsk, ReplyOK
    <3> QED
      BY <3>1, <3>2
  <2>3. RestOK'
    BY <1>0, <1>9 DEF StopAsk, RestOK, Running
  <2> QED
    BY <2>1, <2>2, <2>3 DEF TypeInv
<1>10. CASE StopJoin(c)
  <2>1. ReqOK'
    BY <1>0, <1>10 DEF StopJoin, Go, Answer, ReqOK, Idle, Places
  <2>2. ReplyOK'
    BY <1>0, <1>10 DEF StopJoin, Answer, ReplyOK, Running
  <2>3. RestOK'
    BY <1>0, <1>10 DEF StopJoin, RestOK, Running
  <2> QED
    BY <2>1, <2>2, <2>3 DEF TypeInv
<1>11. CASE StopStatus(c)
  <2>1. ReqOK'
    BY <1>0, <1>11 DEF StopStatus, Go, Answer, ReqOK, Idle, Places
  <2>2. ReplyOK'
    <3>1. CASE slot = Nobody
      <4>1. Answer(c, "stop", 500, FALSE, Nobody)
        BY <1>11, <3>1 DEF StopStatus
      <4> QED
        BY <1>0, <4>1 DEF Answer, ReplyOK, At
    <3>2. CASE ~(slot = Nobody)
      BY <1>0, <1>11, <3>2 DEF StopStatus, ReplyOK
    <3> QED
      BY <3>1, <3>2
  <2>3. RestOK'
    BY <1>0, <1>11 DEF StopStatus, RestOK, Running
  <2> QED
    BY <2>1, <2>2, <2>3 DEF TypeInv
<1>12. CASE StopClear(c)
  <2>1. ReqOK'
    BY <1>0, <1>12 DEF StopClear, Go, Answer, ReqOK, Idle, Places
  <2>2. ReplyOK'
    <3>1. CASE kind = "replay"
      BY <1>0, <1>12, <3>1 DEF StopClear, ReplyOK
    <3>2. CASE ~(kind = "replay")
      <4>1. Answer(c, "stop", 200, At(c, "clear_running"), req[c].mine)
        BY <1>12, <3>2 DEF StopClear
      <4> QED
        BY <1>0, <4>1 DEF Answer, ReplyOK, At
    <3> QED
      BY <3>1, <3>2
  <2>3. RestOK'
    BY <1>0, <1>12 DEF StopClear, RestOK, Running
  <2> QED
    BY <2>1, <2>2, <2>3 DEF TypeInv
<1>13. CASE ReplayStopAnswer(c)
  <2>1. ReqOK'
    BY <1>0, <1>13 DEF ReplayStopAnswer, Go, Answer, ReqOK, Idle, Places
  <2>2. ReplyOK'
    BY <1>0, <1>13 DEF ReplayStopAnswer, Answer, ReplyOK, Running
  <2>3. RestOK'
    BY <1>0, <1>13 DEF ReplayStopAnswer, RestOK, Running
  <2> QED
    BY <2>1, <2>2, <2>3 DEF TypeInv
<1>14. CASE ImportWaited(c)
  <2>1. ReqOK'
    BY <1>0, <1>14 DEF ImportWaited, Go, Answer, ReqOK, Idle, Places
  <2>2. ReplyOK'
    <3>1. CASE Running(req[c].mine)
      BY <1>0, <1>14, <3>1 DEF ImportWaited, ReplyOK
    <3>2. CASE ~(Running(req[c].mine))
      <4>1. \E code \in {200, 500} : Answer(c, "import", code, FALSE, req[c].mine)
        BY <1>14, <3>2, ZenonT(60) DEF ImportWaited
      <4> QED
        BY <1>0, <4>1 DEF Answer, ReplyOK, At
    <3> QED
      BY <3>1, <3>2
  <2>3. RestOK'
    BY <1>0, <1>14 DEF ImportWaited, RestOK, Running
  <2> QED
    BY <2>1, <2>2, <2>3 DEF TypeInv
<1>15. CASE ImportTimedOut(c)
  <2>1. ReqOK'
    BY <1>0, <1>15 DEF ImportTimedOut, Go, Answer, ReqOK, Idle, Places
  <2>2. ReplyOK'
    BY <1>0, <1>15 DEF ImportTimedOut, Answer, ReplyOK, Running
  <2>3. RestOK'
    BY <1>0, <1>15 DEF ImportTimedOut, RestOK, Running
  <2> QED
    BY <2>1, <2>2, <2>3 DEF TypeInv
<1> QED
  BY <1>1, <1>2, <1>3, <1>4, <1>4b, <1>5, <1>6, <1>7, <1>8, <1>9,
     <1>10, <1>11, <1>12, <1>13, <1>14, <1>15 DEF RequestStep

(* A controller's own thread keeps the types.                               *)
LEMMA ThreadTypeStep ==
    ASSUME TypeInv, NEW i \in Controllers, ThreadRuns(i) \/ ThreadEnds(i)
    PROVE  TypeInv'
<1>1. ReqOK' /\ ReplyOK'
  BY DEF TypeInv, ThreadRuns, ThreadEnds, ReqOK, ReplyOK
<1>2. RestOK'
  BY DEF TypeInv, ThreadRuns, ThreadEnds, RestOK
<1> QED
  BY <1>1, <1>2 DEF TypeInv

ClientStep(c) ==
    StartRequest(c) \/ StopRequest(c) \/ ImportRequest(c) \/ RequestStep(c)

(* A request reads and writes its own place and answer only.                *)
LEMMA OthersStay ==
    ASSUME TypeInv, NEW c \in Callers, ClientStep(c)
    PROVE  \A d \in Callers : d # c => req'[d] = req[d] /\ reply'[d] = reply[d]
<1>0. ReqOK /\ ReplyOK
  BY DEF TypeInv
<1>1. CASE StartRequest(c) \/ StopRequest(c) \/ ImportRequest(c)
  BY <1>0, <1>1 DEF StartRequest, StopRequest, ImportRequest, Arrive, Go, ReqOK
<1>2. CASE StartCheck(c) \/ StartCompare(c) \/ StartCreate(c) \/ StartFails(c)
         \/ StartAssign(c)
  BY <1>0, <1>2 DEF StartCheck, StartCompare, StartCreate, StartFails, StartAssign, Go,
                    Answer,
                    ReqOK, ReplyOK
<1>3. CASE StopCheck(c) \/ StopAsk(c) \/ StopJoin(c) \/ StopStatus(c)
  BY <1>0, <1>3 DEF StopCheck, StopAsk, StopJoin, StopStatus, Go, Answer, ReqOK, ReplyOK
<1>4. CASE StopClear(c) \/ ReplayStopAnswer(c) \/ ImportWaited(c) \/ ImportTimedOut(c)
  BY <1>0, <1>4 DEF StopClear, ReplayStopAnswer, ImportWaited, ImportTimedOut, Go,
                    Answer, ReqOK, ReplyOK
<1> QED
  BY <1>1, <1>2, <1>3, <1>4 DEF ClientStep, RequestStep

(* Most steps of a request build nothing and answer no start with 200.      *)
LEMMA QuietSteps ==
    ASSUME TypeInv, NEW c \in Callers, ClientStep(c),
           ~StartCreate(c), ~StartAssign(c), ~ImportWaited(c)
    PROVE  /\ UNCHANGED <<thread, spoiled>>
           /\ req'[c].at # "assign"
           /\ reply'[c] = reply[c] \/ reply'[c].to = "stop" \/ reply'[c].code # 200
<1>0. ReqOK /\ ReplyOK
  BY DEF TypeInv
<1>1. CASE StartRequest(c) \/ StopRequest(c) \/ ImportRequest(c)
  BY <1>0, <1>1 DEF StartRequest, StopRequest, ImportRequest, Arrive, Go, ReqOK
<1>2. CASE StartCheck(c) \/ StartCompare(c) \/ StartFails(c)
  BY <1>0, <1>2 DEF StartCheck, StartCompare, StartFails, Go, Answer, Idle, ReqOK,
                    ReplyOK
<1>3. CASE StopCheck(c) \/ StopAsk(c) \/ StopJoin(c) \/ StopStatus(c)
  BY <1>0, <1>3 DEF StopCheck, StopAsk, StopJoin, StopStatus, Go, Answer, Idle,
                    ReqOK, ReplyOK
<1>4. CASE StopClear(c) \/ ReplayStopAnswer(c) \/ ImportTimedOut(c)
  BY <1>0, <1>4 DEF StopClear, ReplayStopAnswer, ImportTimedOut, Go, Answer, Idle,
                    ReqOK, ReplyOK
<1> QED
  BY <1>1, <1>2, <1>3, <1>4 DEF ClientStep, RequestStep

(* A request leaves every controller with at most one owner.                *)
LEMMA OwnerStep ==
    ASSUME TypeInv, PlaceInv, OwnerInv, NEW c \in Callers, ClientStep(c)
    PROVE  OwnerInv'
<1>0. /\ ReqOK /\ ReplyOK /\ req[c].mine \in Controllers \cup {Nobody}
      /\ thread \in [Controllers -> {"unborn", "opening", "running", "ended"}]
      /\ Nobody \notin Controllers
  BY ControlAssumption DEF TypeInv, ReqOK, RestOK
<1>1. \A d \in Callers : d # c => req'[d] = req[d] /\ reply'[d] = reply[d]
  BY OthersStay
<1>2. CASE ~StartCreate(c) /\ ~StartAssign(c) /\ ~ImportWaited(c)
  <2>1. /\ UNCHANGED <<thread, spoiled>> /\ req'[c].at # "assign"
        /\ reply'[c] = reply[c] \/ reply'[c].to = "stop" \/ reply'[c].code # 200
    BY <1>2, QuietSteps
  <2>2. \A d \in Callers : \A i : Owner(d, i)' => Owner(d, i)
    BY <1>1, <2>1 DEF Owner
  <2> QED
    BY <1>1, <2>1, <2>2 DEF OwnerInv, Born
<1>3. CASE StartAssign(c)
  <2>1. /\ UNCHANGED <<thread, spoiled>> /\ req[c].at = "assign"
        /\ req'[c].at = "idle"
        /\ reply'[c].to = "start" /\ reply'[c].about = req[c].mine
    BY <1>0, <1>3 DEF StartAssign, Answer, At, Idle, ReqOK, ReplyOK
  <2>2. \A d \in Callers : \A i : Owner(d, i)' => Owner(d, i)
    BY <1>1, <2>1 DEF Owner
  <2> QED
    BY <1>1, <2>1, <2>2 DEF OwnerInv, Born
<1>4. CASE StartCreate(c)
  <2>1. PICK i \in Controllers :
           /\ thread[i] = "unborn" /\ thread' = [thread EXCEPT ![i] = "opening"]
           /\ Go(c, IF kind = "import" THEN "wait" ELSE "assign", i)
           /\ UNCHANGED <<reply, spoiled>>
    BY <1>4 DEF StartCreate, Fresh
  <2>2. req'[c].mine = i
    BY <1>0, <2>1 DEF Go, ReqOK
  <2>3. \A d \in Callers : ~Owner(d, i)
    BY <2>1 DEF OwnerInv, Born
  <2>4. \A d \in Callers : \A j : Owner(d, j)' => Owner(d, j) \/ (d = c /\ j = i)
    BY <1>1, <2>1, <2>2 DEF Owner
  <2>5. thread'[i] = "opening" /\ \A j \in Controllers : j # i => thread'[j] = thread[j]
    BY <1>0, <2>1
  <2>6. \A j : Born(j) => Born(j)'
    BY <2>1, <2>5 DEF Born
  <2>7. Born(i)'
    BY <2>5 DEF Born
  <2>8. \A d \in Callers : \A j : Owner(d, j)' => Born(j)'
    BY <2>4, <2>6, <2>7 DEF OwnerInv
  <2>9. \A d, e \in Callers : \A j : Owner(d, j)' /\ Owner(e, j)' => d = e
    BY <2>3, <2>4 DEF OwnerInv
  <2>10. \A d \in Callers :
            reply[d].to = "import" /\ reply[d].code = 200 =>
                thread'[reply[d].about] = "ended"
    BY <2>1, <2>5 DEF OwnerInv
  <2> QED
    BY <2>1, <2>8, <2>9, <2>10 DEF OwnerInv
<1>5. CASE ImportWaited(c)
  <2>1. UNCHANGED <<thread, spoiled>> /\ req[c].at = "wait" /\ Born(req[c].mine)
    BY <1>5 DEF ImportWaited, At, PlaceInv, PlaceOK
  <2>2. CASE Running(req[c].mine)
    <3>1. req'[c].at = "join" /\ reply' = reply
      BY <1>0, <1>5, <2>2 DEF ImportWaited, Go, ReqOK
    <3>2. \A d \in Callers : \A i : Owner(d, i)' => Owner(d, i)
      BY <1>1, <3>1 DEF Owner
    <3> QED
      BY <2>1, <3>1, <3>2 DEF OwnerInv, Born
  <2>3. CASE ~Running(req[c].mine)
    <3> DEFINE code == IF spoiled[req[c].mine] THEN 500 ELSE 200
    <3>1. Answer(c, "import", code, FALSE, req[c].mine)
      BY <1>5, <2>3 DEF ImportWaited
    <3>a. code \in {200, 500} /\ (code = 200 => ~spoiled[req[c].mine])
      OBVIOUS
    <3> HIDE DEF code
    <3>2. /\ req'[c].at = "idle" /\ reply'[c].to = "import"
          /\ reply'[c].code = code /\ reply'[c].about = req[c].mine
      BY <1>0, <3>1, <3>a DEF Answer, Idle, ReqOK, ReplyOK
    <3>3. \A d \in Callers : \A i : Owner(d, i)' => Owner(d, i)
      BY <1>1, <3>2 DEF Owner
    <3>4. thread[req[c].mine] = "ended"
      BY <1>0, <2>1, <2>3 DEF Running, Born
    <3>5. code = 200 => ~spoiled[req[c].mine]
      BY <3>a
    <3> QED
      BY <1>1, <2>1, <3>2, <3>3, <3>4, <3>5 DEF OwnerInv, Born
  <2> QED
    BY <2>2, <2>3
<1> QED
  BY <1>2, <1>3, <1>4, <1>5

(* Controllers stay built, threads stay ended, timeouts stay remembered.    *)
LEMMA NothingComesBack ==
    ASSUME TypeInv, NEW c \in Callers, ClientStep(c)
    PROVE  /\ UNCHANGED <<kind, spoiled>> /\ expired \subseteq expired'
           /\ \A i : Born(i) => Born(i)'
           /\ \A i \in Controllers : thread[i] = "ended" => thread'[i] = "ended"
<1>0. thread \in [Controllers -> {"unborn", "opening", "running", "ended"}]
  BY DEF TypeInv, RestOK
<1>1. CASE StartCreate(c)
  <2>1. PICK i \in Controllers :
           thread[i] = "unborn" /\ thread' = [thread EXCEPT ![i] = "opening"]
    BY <1>1 DEF StartCreate, Fresh
  <2>2. UNCHANGED <<kind, spoiled, expired>>
    BY <1>1 DEF StartCreate
  <2> QED
    BY <1>0, <2>1, <2>2 DEF Born
<1>2. CASE ~StartCreate(c)
  <2>1. UNCHANGED <<kind, thread, spoiled>> /\ expired \subseteq expired'
    BY <1>2 DEF ClientStep, RequestStep, StartRequest, StopRequest, ImportRequest,
                Arrive, StartCheck, StartCompare, StartFails, StartAssign, StopCheck, StopAsk,
                StopJoin, StopStatus, StopClear, ReplayStopAnswer, ImportWaited,
                ImportTimedOut
  <2> QED
    BY <2>1 DEF Born
<1> QED
  BY <1>1, <1>2

(* A request stays where its controller allows it to be.                    *)
LEMMA PlaceStep ==
    ASSUME TypeInv, PlaceInv, NEW c \in Callers, ClientStep(c)
    PROVE  PlaceInv'
<1>0. /\ ReqOK /\ req[c].mine \in Controllers \cup {Nobody}
      /\ slot \in Controllers \cup {Nobody} /\ expired \subseteq Controllers
      /\ thread \in [Controllers -> {"unborn", "opening", "running", "ended"}]
      /\ Nobody \notin Controllers
  BY ControlAssumption DEF TypeInv, ReqOK, RestOK
<1>1. /\ UNCHANGED <<kind, spoiled>> /\ expired \subseteq expired'
      /\ \A i : Born(i) => Born(i)'
      /\ \A i \in Controllers : thread[i] = "ended" => thread'[i] = "ended"
  BY NothingComesBack
<1>2. \A d \in Callers : d # c => req'[d] = req[d]
  BY OthersStay
<1>3. \A d \in Callers : d # c => PlaceOK(d)'
  BY <1>1, <1>2 DEF PlaceInv, PlaceOK, Born
<1>4. (slot # Nobody => Born(slot)) /\ PlaceOK(c)
  BY DEF PlaceInv
<1>5. CASE StartRequest(c) \/ StopRequest(c) \/ ImportRequest(c)
  <2>1. /\ UNCHANGED slot
        /\ req'[c].at \in {"check", "stop", "create"}
        /\ kind = "import" => req'[c].at = "create"
    BY <1>0, <1>5 DEF StartRequest, StopRequest, ImportRequest, Arrive, Go, ReqOK
  <2> QED
    BY <1>1, <1>3, <1>4, <2>1 DEF PlaceInv, PlaceOK
<1>6. CASE StartCreate(c)
  <2>1. PICK i \in Controllers :
           /\ thread' = [thread EXCEPT ![i] = "opening"]
           /\ Go(c, IF kind = "import" THEN "wait" ELSE "assign", i)
           /\ UNCHANGED slot
    BY <1>6 DEF StartCreate
  <2>2. req'[c].mine = i /\ req'[c].at = IF kind = "import" THEN "wait" ELSE "assign"
    BY <1>0, <2>1 DEF Go, ReqOK
  <2>3. Born(i)'
    BY <1>0, <2>1 DEF Born
  <2> QED
    BY <1>1, <1>3, <1>4, <2>1, <2>2, <2>3 DEF PlaceInv, PlaceOK
<1>7. CASE StartCheck(c) \/ StartCompare(c) \/ StartFails(c) \/ StartAssign(c)
         \/ StopCheck(c)
  <2>1. /\ req'[c].at \in {"idle", "compare", "create", "ask"}
        /\ req[c].at \in {"check", "compare", "create", "assign", "stop"}
        /\ req'[c].at # "idle" => req[c].at \in {"check", "compare", "stop"}
        /\ req[c].at = "assign" => slot' = req[c].mine
        /\ req[c].at # "assign" => slot' = slot
    BY <1>0, <1>7 DEF StartCheck, StartCompare, StartFails, StartAssign, StopCheck, At,
                      Go, Answer,
                      Idle, ReqOK
  <2>2. kind = "import" => req'[c].at = "idle"
    BY <1>4, <2>1 DEF PlaceOK
  <2>3. (slot # Nobody => Born(slot))'
    BY <1>0, <1>1, <1>4, <2>1 DEF PlaceOK
  <2> QED
    BY <1>1, <1>3, <2>1, <2>2, <2>3 DEF PlaceInv, PlaceOK
<1>8. CASE StopAsk(c)
  <2>1. /\ UNCHANGED slot /\ req[c].at = "ask"
        /\ \/ req'[c].at = "idle"
           \/ slot # Nobody /\ req'[c].at = "join" /\ req'[c].mine = slot
    BY <1>0, <1>8 DEF StopAsk, At, Go, Answer, Idle, ReqOK
  <2> QED
    BY <1>1, <1>3, <1>4, <2>1 DEF PlaceInv, PlaceOK
<1>9. CASE StopJoin(c)
  <2>1. /\ UNCHANGED <<slot, thread>> /\ req[c].at = "join"
        /\ req'[c].at = IF kind = "import" THEN "raise" ELSE "status"
        /\ req'[c].mine = req[c].mine
        /\ expired' = IF Running(req[c].mine) THEN expired \cup {req[c].mine} ELSE expired
    BY <1>0, <1>9 DEF StopJoin, At, Go, ReqOK
  <2>2. Born(req[c].mine)
    BY <1>4, <2>1 DEF PlaceOK
  <2>3. Running(req[c].mine) \/ thread[req[c].mine] = "ended"
    BY <1>0, <2>2 DEF Running, Born
  <2> QED
    BY <1>1, <1>3, <1>4, <2>1, <2>2, <2>3 DEF PlaceInv, PlaceOK
<1>10. CASE StopStatus(c) \/ StopClear(c) \/ ReplayStopAnswer(c)
  <2>1. /\ slot' \in {slot, Nobody}
        /\ req[c].at \in {"status", "clear", "clear_running", "look"}
        /\ req'[c].at \in {"idle", "clear", "clear_running", "look"}
        /\ req'[c].at = "idle" \/ req'[c].mine = req[c].mine
        /\ req'[c].at = "look" => kind = "replay"
    BY <1>0, <1>10 DEF StopStatus, StopClear, ReplayStopAnswer, At, Go, Answer, Idle,
                       ReqOK
  <2> QED
    BY <1>1, <1>3, <1>4, <2>1 DEF PlaceInv, PlaceOK, Born
<1>11. CASE ImportWaited(c) \/ ImportTimedOut(c)
  <2>1. /\ UNCHANGED slot /\ req[c].at \in {"wait", "raise"}
        /\ \/ req'[c].at = "idle"
           \/ req'[c].at = "join" /\ req'[c].mine = req[c].mine
    BY <1>0, <1>11 DEF ImportWaited, ImportTimedOut, At, Go, Answer, Idle, ReqOK
  <2> QED
    BY <1>1, <1>3, <1>4, <2>1 DEF PlaceInv, PlaceOK
<1> QED
  BY <1>5, <1>6, <1>7, <1>8, <1>9, <1>10, <1>11 DEF ClientStep, RequestStep

(* One request at a time: what SequentialInv says after a step of caller c  *)
(* follows from what it says of c.                                          *)
LEMMA SequentialStep ==
    ASSUME TypeInv, PlaceInv, SequentialInv, NEW c \in Callers, ClientStep(c)
    PROVE  SequentialInv'
<1> SUFFICES ASSUME ~overlapped' PROVE SequentialInv'
  BY DEF SequentialInv
<1>0. /\ ReqOK /\ req[c].mine \in Controllers \cup {Nobody}
      /\ slot \in Controllers \cup {Nobody} /\ expired \subseteq Controllers
      /\ thread \in [Controllers -> {"unborn", "opening", "running", "ended"}]
      /\ overlapped \in BOOLEAN /\ Nobody \notin Controllers
  BY ControlAssumption DEF TypeInv, ReqOK, RestOK
<1>1. /\ UNCHANGED kind /\ expired \subseteq expired'
      /\ \A i \in Controllers : thread[i] = "ended" => thread'[i] = "ended"
  BY NothingComesBack
<1>2. \A d \in Callers : d # c => req'[d] = req[d]
  BY OthersStay
<1>3. /\ ~overlapped
      /\ \A d \in Callers : d # c => req[d].at = "idle" /\ req'[d].at = "idle"
  <2>1. CASE StartRequest(c) \/ StopRequest(c) \/ ImportRequest(c)
    BY <1>2, <2>1 DEF StartRequest, StopRequest, ImportRequest, Arrive, At
  <2>2. CASE RequestStep(c)
    <3>1. req[c].at # "idle" /\ UNCHANGED overlapped
      BY <2>2 DEF RequestStep, At, StartCheck, StartCompare, StartCreate, StartFails,
                  StartAssign,
                  StopCheck, StopAsk, StopJoin, StopStatus, StopClear,
                  ReplayStopAnswer, ImportWaited, ImportTimedOut
    <3> QED
      BY <1>2, <3>1 DEF SequentialInv
  <2> QED
    BY <2>1, <2>2 DEF ClientStep
<1>4. /\ SequentialOK(c)
      /\ expired = {} /\ kind # "import" =>
            \A i \in Controllers :
                Running(i) => slot = i \/ (req[c].at = "assign" /\ req[c].mine = i)
  BY <1>3 DEF SequentialInv
<1>5. (slot # Nobody => Born(slot)) /\ PlaceOK(c)
  BY DEF PlaceInv
<1> DEFINE Reached(i) == slot = i \/ (req[c].at = "assign" /\ req[c].mine = i)
<1>6. SUFFICES /\ SequentialOK(c)'
               /\ expired' = {} /\ kind # "import" =>
                     \A i \in Controllers : Running(i)' => Reached(i)'
  <2>1. \A d \in Callers : d # c => SequentialOK(d)'
    BY <1>3 DEF SequentialOK
  <2> QED
    BY <1>1, <1>3, <1>6, <2>1 DEF SequentialInv
<1>7. CASE StartRequest(c) \/ StopRequest(c) \/ ImportRequest(c)
  <2>1. /\ UNCHANGED <<slot, thread, expired>> /\ req[c].at = "idle"
        /\ req'[c].at \in {"check", "stop", "create"}
        /\ req'[c].at = "create" => kind = "import"
    BY <1>0, <1>7 DEF StartRequest, StopRequest, ImportRequest, Arrive, Go, At, ReqOK
  <2> QED
    BY <1>1, <1>4, <2>1 DEF SequentialOK, Running
<1>8. CASE StartCheck(c) \/ StartCompare(c)
  <2>1. /\ UNCHANGED <<slot, thread, expired>> /\ req[c].at \in {"check", "compare"}
        /\ \/ req'[c].at \in {"idle", "compare"}
           \/ req'[c].at = "create" /\ ~Running(slot)
    BY <1>0, <1>8 DEF StartCheck, StartCompare, Taken, Running, Go, At, Answer, Idle,
                      ReqOK
  <2> QED
    BY <1>1, <1>4, <2>1 DEF SequentialOK, Running
<1>9. CASE StartCreate(c)
  <2>1. PICK i \in Controllers :
           /\ thread' = [thread EXCEPT ![i] = "opening"]
           /\ Go(c, IF kind = "import" THEN "wait" ELSE "assign", i)
           /\ UNCHANGED <<slot, expired>> /\ req[c].at = "create"
    BY <1>9 DEF StartCreate, At
  <2>2. req'[c].mine = i /\ req'[c].at = IF kind = "import" THEN "wait" ELSE "assign"
    BY <1>0, <2>1 DEF Go, ReqOK
  <2>3. \A j \in Controllers : Running(j)' => Running(j) \/ j = i
    BY <1>0, <2>1 DEF Running
  <2> QED
    BY <1>1, <1>4, <2>1, <2>2, <2>3 DEF SequentialOK
<1>10. CASE StartFails(c) \/ StopCheck(c) \/ ReplayStopAnswer(c)
  <2>1. /\ UNCHANGED <<slot, thread, expired>>
        /\ req[c].at \in {"create", "stop", "look"}
        /\ req'[c].at \in {"idle", "ask"}
    BY <1>0, <1>10 DEF StartFails, StopCheck, ReplayStopAnswer, Go, At, Answer, Idle,
                       ReqOK
  <2> QED
    BY <1>1, <1>4, <2>1 DEF SequentialOK, Running
<1>11. CASE StartAssign(c)
  <2>1. /\ UNCHANGED <<thread, expired>> /\ req[c].at = "assign"
        /\ slot' = req[c].mine /\ req'[c].at = "idle"
    BY <1>0, <1>11 DEF StartAssign, Go, At, Answer, Idle, ReqOK
  <2> QED
    BY <1>1, <1>4, <2>1 DEF SequentialOK, Running
<1>12. CASE StopAsk(c)
  <2>1. /\ UNCHANGED <<slot, thread, expired>> /\ req[c].at = "ask"
        /\ \/ req'[c].at = "idle"
           \/ req'[c].at = "join" /\ req'[c].mine = slot
    BY <1>0, <1>12 DEF StopAsk, Go, At, Answer, Idle, ReqOK
  <2> QED
    BY <1>1, <1>4, <2>1 DEF SequentialOK, Running
<1>13. CASE StopJoin(c)
  <2>1. /\ UNCHANGED <<slot, thread>> /\ req[c].at = "join"
        /\ req'[c].at = (IF kind = "import" THEN "raise" ELSE "status")
        /\ req'[c].mine = req[c].mine
    BY <1>0, <1>13 DEF StopJoin, At, Go, ReqOK
  <2> QED
    BY <1>1, <1>4, <2>1 DEF SequentialOK, Running
<1>14. CASE StopStatus(c)
  <2>1. /\ UNCHANGED <<slot, thread, expired>> /\ req[c].at = "status"
        /\ \/ req'[c].at = "idle"
           \/ /\ req'[c].at \in {"clear", "clear_running"}
              /\ req'[c].mine = req[c].mine
              /\ req'[c].at = "clear" /\ kind = "capture" => ~Running(slot)
    BY <1>0, <1>14 DEF StopStatus, Go, At, Answer, Idle, ReqOK
  <2>2. kind = "capture" /\ req'[c].at = "clear" => thread[req[c].mine] = "ended"
    <3> SUFFICES ASSUME kind = "capture", req'[c].at = "clear"
                 PROVE  thread[req[c].mine] = "ended"
      OBVIOUS
    <3>1. slot = req[c].mine
      BY <1>4, <2>1 DEF SequentialOK
    <3>2. Born(slot) /\ ~Running(slot)
      BY <1>5, <2>1, <3>1 DEF PlaceOK
    <3> QED
      BY <1>0, <3>1, <3>2 DEF Running, Born
  <2> QED
    BY <1>1, <1>4, <2>1, <2>2 DEF SequentialOK, Running
<1>15. CASE StopClear(c)
  <2>1. /\ UNCHANGED <<thread, expired>> /\ req[c].at \in {"clear", "clear_running"}
        /\ slot' = Nobody /\ req'[c].at \in {"idle", "look"}
    BY <1>0, <1>15 DEF StopClear, Go, Answer, Idle, ReqOK
  <2>2. expired = {} => thread[req[c].mine] = "ended"
    BY <1>5, <2>1 DEF PlaceOK
  <2>3. expired = {} /\ kind # "import" => \A i \in Controllers : ~Running(i)
    BY <1>4, <2>1, <2>2 DEF SequentialOK, Running
  <2>4. \A i \in Controllers : Running(i)' = Running(i)
    BY <2>1 DEF Running
  <2> QED
    BY <1>1, <2>1, <2>3, <2>4 DEF SequentialOK
<1>16. CASE ImportWaited(c) \/ ImportTimedOut(c)
  <2>1. req[c].at \in {"wait", "raise"} /\ req'[c].at \in {"join", "idle"}
    BY <1>0, <1>16 DEF ImportWaited, ImportTimedOut, Go, At, Answer, Idle, ReqOK
  <2>2. kind = "import"
    BY <1>5, <2>1 DEF PlaceOK
  <2> QED
    BY <1>1, <2>1, <2>2 DEF SequentialOK
<1> QED
  BY <1>7, <1>8, <1>9, <1>10, <1>11, <1>12, <1>13, <1>14, <1>15, <1>16
     DEF ClientStep, RequestStep

(* An answer to stop() that says the thread has ended is given twice.       *)
LEMMA TruthStep ==
    ASSUME TypeInv, PlaceInv, SequentialInv, StopAnswersTruth,
           NEW c \in Callers, ClientStep(c)
    PROVE  StopAnswersTruth'
<1>0. ReqOK /\ ReplyOK /\ overlapped \in BOOLEAN
  BY DEF TypeInv, RestOK
<1>1. /\ UNCHANGED kind /\ expired \subseteq expired'
      /\ \A i \in Controllers : thread[i] = "ended" => thread'[i] = "ended"
  BY NothingComesBack
<1>2. \A d \in Callers : d # c => reply'[d] = reply[d]
  BY OthersStay
<1>3. \A d \in Callers : reply[d].about \in Controllers \cup {Nobody}
  BY <1>0 DEF ReplyOK
<1>4. overlapped => overlapped'
  BY <1>0 DEF ClientStep, RequestStep, StartRequest, StopRequest, ImportRequest,
              Arrive, StartCheck, StartCompare, StartCreate, StartFails, StartAssign, StopCheck,
              StopAsk, StopJoin, StopStatus, StopClear, ReplayStopAnswer,
              ImportWaited, ImportTimedOut
<1>5. CASE ~StopClear(c) /\ ~ReplayStopAnswer(c)
  <2>1. reply'[c] = reply[c] \/ reply'[c].to # "stop" \/ reply'[c].about = Nobody
    <3>1. CASE StartRequest(c) \/ StopRequest(c) \/ ImportRequest(c)
      BY <3>1 DEF StartRequest, StopRequest, ImportRequest, Arrive
    <3>2. CASE StartCheck(c) \/ StartCompare(c) \/ StartCreate(c) \/ StartFails(c)
         \/ StartAssign(c)
      BY <1>0, <3>2 DEF StartCheck, StartCompare, StartCreate, StartFails, StartAssign,
                        Answer, ReplyOK
    <3>3. CASE StopCheck(c) \/ StopAsk(c) \/ StopJoin(c) \/ StopStatus(c)
      BY <1>0, <3>3 DEF StopCheck, StopAsk, StopJoin, StopStatus, Answer, ReplyOK
    <3>4. CASE ImportWaited(c) \/ ImportTimedOut(c)
      BY <1>0, <3>4 DEF ImportWaited, ImportTimedOut, Answer, ReplyOK
    <3> QED
      BY <1>5, <3>1, <3>2, <3>3, <3>4 DEF ClientStep, RequestStep
  <2> QED
    BY <1>1, <1>2, <1>3, <1>4, <2>1 DEF StopAnswersTruth
<1>6. CASE StopClear(c)
  <2>1. /\ UNCHANGED <<thread, expired, overlapped>>
        /\ req[c].at \in {"clear", "clear_running"}
        /\ \/ reply'[c] = reply[c]
           \/ /\ reply'[c].about = req[c].mine
              /\ req[c].at = "clear_running" => reply'[c].running
    <3>1. /\ UNCHANGED <<thread, expired, overlapped>>
          /\ req[c].at \in {"clear", "clear_running"}
      BY <1>6 DEF StopClear
    <3>2. CASE kind = "replay"
      BY <1>6, <3>1, <3>2 DEF StopClear
    <3>3. CASE kind # "replay"
      <4>1. Answer(c, "stop", 200, At(c, "clear_running"), req[c].mine)
        BY <1>6, <3>3 DEF StopClear
      <4>2. reply'[c] = [to |-> "stop", code |-> 200, running |-> At(c, "clear_running"),
                         about |-> req[c].mine]
        BY <1>0, <4>1 DEF Answer, ReplyOK
      <4>3. reply'[c].about = req[c].mine
        BY <4>2
      <4>4. ASSUME req[c].at = "clear_running" PROVE reply'[c].running
        <5>1. At(c, "clear_running") = TRUE
          BY <4>4 DEF At
        <5>2. reply'[c].running = At(c, "clear_running")
          BY <4>2
        <5> QED
          BY <5>1, <5>2, Zenon
      <4> QED
        BY <3>1, <4>3, <4>4
    <3> QED
      BY <3>2, <3>3
  <2>2. req[c].mine \in expired \/ thread[req[c].mine] = "ended"
    BY <2>1 DEF PlaceInv, PlaceOK
  <2>3. ~overlapped /\ kind = "capture" /\ req[c].at = "clear"
          => thread[req[c].mine] = "ended"
    BY DEF SequentialInv, SequentialOK
  <2> SUFFICES ASSUME NEW d \in Callers, ~overlapped, reply'[d].to = "stop",
                      ~reply'[d].running, reply'[d].about # Nobody,
                      kind = "capture" \/ reply'[d].about \notin expired
               PROVE  thread[reply'[d].about] = "ended"
    BY <1>1, <2>1 DEF StopAnswersTruth
  <2>4. CASE reply'[d] = reply[d]
    BY <2>4 DEF StopAnswersTruth
  <2>5. CASE d = c /\ reply'[c] # reply[c]
    BY <2>1, <2>2, <2>3, <2>5
  <2> QED
    BY <1>2, <2>4, <2>5
<1>7. CASE ReplayStopAnswer(c)
  <2>1. /\ UNCHANGED <<thread, expired, overlapped>> /\ req[c].at = "look"
        /\ reply'[c].about = req[c].mine
    BY <1>0, <1>7 DEF ReplayStopAnswer, Answer, At, ReplyOK
  <2>2. /\ kind = "replay"
        /\ req[c].mine \in expired \/ thread[req[c].mine] = "ended"
    BY <2>1 DEF PlaceInv, PlaceOK
  <2> QED
    BY <1>1, <1>2, <2>1, <2>2 DEF StopAnswersTruth
<1> QED
  BY <1>5, <1>6, <1>7

ControlInv == TypeInv /\ PlaceInv /\ OwnerInv /\ SequentialInv /\ StopAnswersTruth

(* A thread gets to its loop or ends.                                       *)
LEMMA ThreadSteps ==
    ASSUME ControlInv, NEW i \in Controllers, ThreadRuns(i) \/ ThreadEnds(i)
    PROVE  ControlInv'
<1>0. /\ TypeInv /\ PlaceInv /\ OwnerInv /\ SequentialInv /\ StopAnswersTruth
      /\ ReplyOK /\ slot \in Controllers \cup {Nobody} /\ expired \subseteq Controllers
      /\ thread \in [Controllers -> {"unborn", "opening", "running", "ended"}]
      /\ spoiled \in [Controllers -> BOOLEAN]
  BY DEF ControlInv, TypeInv, RestOK
<1>1. /\ UNCHANGED <<kind, slot, req, reply, overlapped, expired>>
      /\ thread[i] \in {"opening", "running"}
      /\ thread'[i] \in {"running", "ended"}
      /\ \A j \in Controllers : j # i => thread'[j] = thread[j] /\ spoiled'[j] = spoiled[j]
  BY <1>0 DEF ThreadRuns, ThreadEnds, Running
<1>2. /\ \A j : Born(j)' = Born(j)
      /\ \A j \in Controllers :
            /\ Running(j)' => Running(j)
            /\ thread[j] = "ended" => thread'[j] = "ended" /\ spoiled'[j] = spoiled[j]
  BY <1>0, <1>1 DEF Born, Running
<1>3. TypeInv'
  BY <1>0, ThreadTypeStep
<1>4. PlaceInv'
  BY <1>0, <1>1, <1>2 DEF PlaceInv, PlaceOK, Born
<1>5. OwnerInv'
  <2>1. \A c \in Callers : \A j : Owner(c, j)' = Owner(c, j)
    BY <1>1 DEF Owner
  <2> QED
    BY <1>0, <1>1, <1>2, <2>1 DEF OwnerInv
<1>6. SequentialInv'
  <2>1. \A c \in Callers : kind = "capture" /\ req[c].at = "clear" => req[c].mine \in Controllers
    BY <1>0 DEF PlaceInv, PlaceOK, Born
  <2>2. ~overlapped => \A c \in Callers : SequentialOK(c)'
    BY <1>0, <1>1, <1>2, <2>1 DEF SequentialInv, SequentialOK
  <2> QED
    BY <1>0, <1>1, <1>2, <2>2 DEF SequentialInv
<1>7. StopAnswersTruth'
  BY <1>0, <1>1, <1>2 DEF StopAnswersTruth, ReplyOK
<1> QED
  BY <1>3, <1>4, <1>5, <1>6, <1>7 DEF ControlInv

(* The service starts with no controller and no request.                    *)
LEMMA ControlInvInit == ControlInit => ControlInv
<1> SUFFICES ASSUME ControlInit PROVE ControlInv
  OBVIOUS
<1>0. /\ \A c \in Callers : req[c] = Idle /\ reply[c] = NoReply
      /\ \A i \in Controllers : thread[i] = "unborn"
      /\ slot = Nobody
  BY DEF ControlInit
<1>1. TypeInv
  <2>1. ReqOK /\ ReplyOK
    BY DEF ControlInit, ReqOK, ReplyOK, Idle, NoReply, Places
  <2>2. RestOK
    <3>1. asked \in [Controllers -> BOOLEAN] /\ spoiled \in [Controllers -> BOOLEAN]
      BY DEF ControlInit
    <3>2. thread \in [Controllers -> {"unborn", "opening", "running", "ended"}]
      BY DEF ControlInit
    <3>3. requests \in 0..MaxRequests
      BY ControlAssumption DEF ControlInit
    <3> QED
      BY <3>1, <3>2, <3>3 DEF ControlInit, RestOK
  <2> QED
    BY <2>1, <2>2 DEF TypeInv
<1>2. PlaceInv
  BY <1>0 DEF PlaceInv, PlaceOK, Idle
<1>3. OwnerInv /\ StopAnswersTruth
  BY <1>0 DEF OwnerInv, Owner, StopAnswersTruth, Idle, NoReply
<1>4. SequentialInv
  BY <1>0 DEF SequentialInv, SequentialOK, Running, Idle
<1> QED
  BY <1>1, <1>2, <1>3, <1>4 DEF ControlInv

(* The invariant of the service is inductive.                               *)
LEMMA ControlInvStep == ControlInv /\ [ControlNext]_controlVars => ControlInv'
<1> SUFFICES ASSUME ControlInv, [ControlNext]_controlVars PROVE ControlInv'
  OBVIOUS
<1>1. ASSUME NEW c \in Callers, ClientStep(c) PROVE ControlInv'
  <2>1. TypeInv /\ PlaceInv /\ OwnerInv /\ SequentialInv /\ StopAnswersTruth
    BY DEF ControlInv
  <2> QED
    BY <1>1, <2>1, TypeStep, PlaceStep, OwnerStep, SequentialStep, TruthStep
       DEF ControlInv, ClientStep
<1>2. ASSUME NEW i \in Controllers, ThreadRuns(i) \/ ThreadEnds(i) PROVE ControlInv'
  BY <1>2, ThreadSteps
<1>3. CASE UNCHANGED controlVars
  BY <1>3 DEF controlVars, ControlInv, TypeInv, ReqOK, ReplyOK, RestOK, PlaceInv,
              PlaceOK, Born, OwnerInv, Owner, SequentialInv, SequentialOK, Running,
              StopAnswersTruth
<1> QED
  BY <1>1, <1>2, <1>3 DEF ControlNext, ClientStep

(* For any number of request threads, controllers and requests: a success   *)
(* is never claimed of something else, one request at a time never leaves   *)
(* two threads or one without a handle, and a stop that is said to have     *)
(* ended the thread has (service.py 475-623).                               *)
THEOREM AnswersTrue == Spec => []AnswersAreTrue
<1>1. Init => ControlInv
  BY ControlInvInit DEF Init
<1>2. ControlInv /\ [Next]_vars => ControlInv'
  BY ControlInvStep DEF Next, vars
<1>3. ControlInv => AnswersAreTrue
  <2> SUFFICES ASSUME ControlInv
               PROVE  SuccessIsComplete /\ SequentialUseIsSafe /\ StopAnswersTruth
    BY DEF AnswersAreTrue
  <2>1. TypeInv /\ OwnerInv /\ SequentialInv /\ StopAnswersTruth
    BY DEF ControlInv
  <2>2. SuccessIsComplete
    BY <2>1 DEF SuccessIsComplete, OwnerInv, Owner
  <2>3. SequentialUseIsSafe
    <3> SUFFICES ASSUME kind # "import", ~overlapped, expired = {},
                        NEW i \in Controllers, Running(i)
                 PROVE  /\ \A j \in Controllers : Running(j) => i = j
                        /\ slot = i \/ BeingAssigned(i)
      BY DEF SequentialUseIsSafe
    <3>1. \A j \in Controllers :
             Running(j) => \/ slot = j
                           \/ \E c \in Callers : req[c].at = "assign" /\ req[c].mine = j
      BY <2>1 DEF SequentialInv
    <3>2. \A c \in Callers, j \in Controllers :
             Running(j) /\ req[c].at = "assign" => req[c].mine = j
      BY <2>1 DEF SequentialInv, SequentialOK
    <3>3. \A j \in Controllers : Running(j) => i = j
      BY <3>1, <3>2
    <3>4. \A c \in Callers : req[c].at = "assign" /\ req[c].mine = i
                               => req[c] = [at |-> "assign", mine |-> i]
      BY <2>1 DEF TypeInv, ReqOK
    <3> QED
      BY <3>1, <3>3, <3>4 DEF BeingAssigned
  <2> QED
    BY <2>1, <2>2, <2>3
<1> QED
  BY <1>1, <1>2, <1>3, PTL DEF Spec

-----------------------------------------------------------------------------
(* The types of the four parts.                                             *)

(* What LiveShape leaves out: no event is broadcast before it is produced,  *)
(* and none delivered before it is taken.                                   *)
LiveBounds ==
    /\ produced \in 0..MaxEvents /\ taken \in 0..produced
    /\ task = "sending" => taken > 0
    /\ \A c \in Clients : \A i \in 1..Len(delivered[c]) : delivered[c][i] \in 1..taken

(* A step of the events keeps the bounds.                                   *)
LEMMA LiveBoundsStep == LiveInv /\ LiveBounds /\ LiveNext => LiveBounds'
<1> SUFFICES ASSUME LiveInv, LiveBounds, LiveNext PROVE LiveBounds'
  OBVIOUS
<1>0. LiveShape /\ OneSendInv /\ MaxEvents \in Nat
  BY LiveAssumption DEF LiveInv
<1>1. CASE Produce
  BY <1>0, <1>1 DEF Produce, LiveBounds
<1>3. CASE TakeEvent
  <2>1. taken < produced /\ taken' = taken + 1 /\ UNCHANGED <<produced, delivered>>
    BY <1>3 DEF TakeEvent
  <2>4. produced' \in 0..MaxEvents /\ taken' \in 0..produced' /\ taken' > 0
    BY <1>0, <2>1 DEF LiveBounds
  <2>5. \A c \in Clients : \A i \in 1..Len(delivered[c]) : delivered[c][i] \in 1..(taken + 1)
    BY <1>0 DEF LiveBounds, LiveShape
  <2> QED
    BY <2>1, <2>4, <2>5 DEF LiveBounds
<1>4. CASE SendDone
  <2>1. PICK c \in Clients : turn.on = {c}
    BY <1>0, <1>4 DEF SendDone, OneSendInv
  <2>2. /\ task = "sending" /\ UNCHANGED <<produced, taken>>
        /\ delivered' = [delivered EXCEPT ![c] = Append(@, taken)] \/ delivered' = delivered
    BY <1>4, <2>1 DEF SendDone
  <2>5. taken \in 1..taken /\ taken > 0
    BY <1>0, <2>2 DEF LiveBounds, LiveShape
  <2>6. ASSUME NEW d \in Clients, NEW i \in 1..Len(delivered'[d])
        PROVE  delivered'[d][i] \in 1..taken
    <3>1. delivered[d] \in Seq(Nat) /\ \A j \in 1..Len(delivered[d]) : delivered[d][j] \in 1..taken
      BY <1>0 DEF LiveBounds, LiveShape
    <3>2. delivered'[d] = delivered[d] \/ delivered'[d] = Append(delivered[d], taken)
      BY <1>0, <2>2 DEF LiveShape
    <3> QED
      BY <2>5, <2>6, <3>1, <3>2
  <2> QED
    BY <2>2, <2>5, <2>6 DEF LiveBounds
<1>5. ASSUME NEW c \in Clients, Connect(c) \/ Break(c) \/ Disconnect(c) PROVE LiveBounds'
  <2>1. UNCHANGED <<produced, taken, task, delivered>>
    BY <1>5 DEF Connect, Break, Disconnect
  <2> QED
    BY <2>1 DEF LiveBounds
<1> QED
  BY <1>1, <1>3, <1>4, <1>5 DEF LiveNext, Broadcast

(* LiveTypeOK is what the two say together.                                 *)
LEMMA LiveTyped == LiveInv /\ LiveBounds => LiveTypeOK
<1> SUFFICES ASSUME LiveInv, LiveBounds PROVE LiveTypeOK
  OBVIOUS
<1>1. LiveShape /\ OneSendInv
  BY DEF LiveInv
<1>2. \A c \in Clients : delivered[c] \in Seq(1..taken)
  <2> SUFFICES ASSUME NEW c \in Clients PROVE delivered[c] \in Seq(1..taken)
    OBVIOUS
  <2>1. delivered[c] \in Seq(Nat) /\ \A i \in 1..Len(delivered[c]) : delivered[c][i] \in 1..taken
    BY <1>1 DEF LiveBounds, LiveShape
  <2>2. Len(delivered[c]) \in Nat /\ delivered[c] \in [1..Len(delivered[c]) -> 1..taken]
    BY <2>1
  <2> QED
    BY <2>2, SeqDef
<1>3. turn.on \subseteq Clients /\ (task = "sending") = (turn.on # {})
  <2>1. turn.on \subseteq Clients
    BY <1>1 DEF LiveShape, TurnShape
  <2>2. task # "sending" => turn.on = {}
    BY <1>1 DEF OneSendInv, NoTurn
  <2>3. task = "sending" => turn.on # {}
    BY <1>1 DEF OneSendInv
  <2> QED
    BY <2>1, <2>2, <2>3
<1> QED
  BY <1>1, <1>2, <1>3 DEF LiveTypeOK, LiveShape, ClientStates, LiveBounds

(* What BridgeShape leaves out: a queue takes nothing once it is full.      *)
BridgeBounds ==
    /\ \A s \in Sides : Len(queue[s]) <= QueueSize
    /\ polling \in BOOLEAN /\ senders \in BOOLEAN

(* A step of the bridge keeps the bounds.                                   *)
LEMMA BridgeBoundsStep == BridgeInv /\ BridgeBounds /\ BridgeNext => BridgeBounds'
<1> SUFFICES ASSUME BridgeInv, BridgeBounds, BridgeNext PROVE BridgeBounds'
  OBVIOUS
<1>0. QueueSize \in Nat /\ queue \in [Sides -> Seq(0..End)]
  BY BridgeAssumption DEF BridgeInv, BridgeShape
<1>1. polling' \in BOOLEAN /\ senders' \in BOOLEAN
  BY DEF BridgeBounds, BridgeNext, BridgeThread, BridgeStart, BridgeStop, Rest, Close, LeaveSide,
         Poll, QueueEmpty, Forward, SendFails, SideEnds, Deliver, SnifferEnds
<1>2. CASE UNCHANGED queue
  BY <1>1, <1>2 DEF BridgeBounds
<1>3. ASSUME NEW s \in Sides, queue[s] # <<>>, queue' = [queue EXCEPT ![s] = Tail(@)]
      PROVE  BridgeBounds'
  <2>1. Len(Tail(queue[s])) = Len(queue[s]) - 1 /\ Len(queue[s]) \in Nat
    BY <1>0, <1>3, TailShape
  <2> QED
    BY <1>0, <1>1, <1>3, <2>1 DEF BridgeBounds
<1>4. ASSUME NEW s \in Sides, NEW e, ~Full(s), queue' = [queue EXCEPT ![s] = Append(@, e)]
      PROVE  BridgeBounds'
  <2>1. Len(Append(queue[s], e)) = Len(queue[s]) + 1 /\ Len(queue[s]) \in Nat
    BY <1>0
  <2> QED
    BY <1>0, <1>1, <1>4, <2>1 DEF BridgeBounds, Full
<1> QED
  BY <1>2, <1>3, <1>4
     DEF BridgeNext, BridgeThread, BridgeStart, BridgeStop, Rest, Close, LeaveSide, Poll,
         QueueEmpty, Forward, SendFails, SideEnds, Deliver, SnifferEnds

(* BridgeTypeOK is what the two say together: the counters are bounded by   *)
(* the frames that arrived.                                                 *)
LEMMA BridgeTyped == BridgeInv /\ BridgeBounds => BridgeTypeOK
<1> SUFFICES ASSUME BridgeInv, BridgeBounds PROVE BridgeTypeOK
  OBVIOUS
<1>1. BridgeShape /\ Tracked \in Nat
  BY BridgeAssumption DEF BridgeInv
<1>2. ASSUME NEW s \in Sides PROVE counts[s] \in [forwarded : 0..Tracked, errors : 0..Tracked]
  <2>1. Cardinality(Indices(queue[s])) \in Nat
    BY <1>1, <1>2, IndicesFinite DEF BridgeShape
  <2>2. Cardinality(dropped[s]) \in Nat
    <3>1. dropped[s] \subseteq 1..Tracked /\ IsFiniteSet(1..Tracked)
      BY <1>1, <1>2, FS_Interval DEF BridgeShape
    <3> QED
      BY <3>1, FS_Subset, FS_CardinalityType
  <2>3. /\ counts[s] \in [forwarded : Nat, errors : Nat] /\ arrived[s] \in 0..Tracked
        /\ Balanced(arrived[s], counts[s].forwarded, counts[s].errors,
                    Cardinality(dropped[s]), Cardinality(Indices(queue[s])))
    BY <1>1, <1>2 DEF BridgeShape, BridgeInv, SideInv, CountInv
  <2>4. counts[s].forwarded \in 0..Tracked /\ counts[s].errors \in 0..Tracked
    BY <1>1, <2>1, <2>2, <2>3 DEF Balanced
  <2> QED
    BY <2>3, <2>4
<1> QED
  BY <1>1, <1>2 DEF BridgeTypeOK, BridgeShape, BridgeBounds

(* Every variable of the service, of replay-out, of the bridge and of the   *)
(* events keeps its type and its bound (service.py 475-623, inject.py       *)
(* 139-206, bridge.py 101-181, websocket.py 23-31).                         *)
THEOREM ControlTyped == Spec => []ControlTypes
<1> DEFINE Inv == /\ ControlInv /\ (part = "replay" => ReplayInv)
                  /\ BridgeInv /\ BridgeBounds /\ LiveInv /\ LiveBounds
<1>1. Init => Inv
  <2> SUFFICES ASSUME Init PROVE Inv
    OBVIOUS
  <2>1. ControlInv /\ ReplayInv /\ BridgeInv /\ LiveInv
    BY ControlInvInit, ReplayInvInit, BridgeInvInit, LiveInvInit DEF Init
  <2>2. BridgeBounds
    <3>1. polling \in BOOLEAN /\ senders \in BOOLEAN /\ \A s \in Sides : queue[s] = <<>>
      BY DEF Init, BridgeInit
    <3>2. \A s \in Sides : Len(queue[s]) <= QueueSize
      BY <3>1, BridgeAssumption
    <3> QED
      BY <3>1, <3>2 DEF BridgeBounds
  <2>3. LiveBounds
    <3>1. \A c \in Clients : Len(delivered[c]) = 0
      BY DEF Init, LiveInit
    <3> QED
      BY <3>1, LiveAssumption DEF Init, LiveInit, NoTurn, LiveBounds
  <2> QED
    BY <2>1, <2>2, <2>3
<1>2. Inv /\ [Next]_vars => Inv'
  <2> SUFFICES ASSUME Inv, [Next]_vars PROVE Inv'
    OBVIOUS
  <2>1. /\ [ControlNext]_controlVars /\ [BridgeNext]_bridgeVars /\ [LiveNext]_liveVars
        /\ part' = part /\ (part = "replay" => [ReplayNext]_replayVars)
    BY DEF Next, vars
  <2>2. ControlInv' /\ BridgeInv' /\ LiveInv'
    BY <2>1, ControlInvStep, BridgeInvStep, LiveInvStep
  <2>3. part' = "replay" => ReplayInv'
    BY <2>1, ReplayInvStep
  <2>4. BridgeBounds'
    BY <2>1, BridgeBoundsStep DEF bridgeVars, BridgeBounds
  <2>5. LiveBounds'
    BY <2>1, LiveBoundsStep DEF liveVars, LiveBounds
  <2> QED
    BY <2>2, <2>3, <2>4, <2>5
<1>3. Inv => ControlTypes
  <2> SUFFICES ASSUME Inv PROVE ControlTypes
    OBVIOUS
  <2>1. ControlTypeOK
    BY DEF ControlInv, TypeInv, ReqOK, ReplyOK, RestOK, ControlTypeOK
  <2>2. part = "replay" => ReplayTypeOK
    BY DEF ReplayInv, ReplayTyped
  <2> QED
    BY <2>1, <2>2, BridgeTyped, LiveTyped DEF ControlTypes
<1> QED
  BY <1>1, <1>2, <1>3, PTL DEF Spec
=============================================================================
