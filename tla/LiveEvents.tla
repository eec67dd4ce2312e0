----------------------------- MODULE LiveEvents -----------------------------
(***************************************************************************)
(* Live events: the capture thread's callback puts events on an asyncio    *)
(* queue (routes/capture.py), the broadcast task takes them off one by one *)
(* (app.py) and sends each to the connected WebSockets (websocket.py).     *)
(*                                                                         *)
(* The event loop runs one coroutine at a time; other coroutines get in    *)
(* only where one awaits.  A broadcast awaits in every send_json, in the   *)
(* middle of its iteration over the set of connections.  CPython checks at *)
(* each step of such an iteration that the set has the size it had at the  *)
(* beginning, raises RuntimeError if not, and else goes on in the table at *)
(* its index.  Adding a member may rebuild the table: which members lie    *)
(* behind the index is then anybody's guess, and one that was visited may  *)
(* be visited again, one that was not may be passed over.  Removing one    *)
(* leaves the others where they are.                                       *)
(***************************************************************************)
EXTENDS Naturals, FiniteSets, Sequences

CONSTANTS
    Clients,    \* WebSocket clients
    MaxEvents   \* bound on the events of a behaviour

ASSUME LiveAssumption == MaxEvents \in Nat

VARIABLES
    produced,   \* events the capture handed over: the events are 1..produced
    taken,      \* events the broadcast task has taken off the queue
    conns,      \* manager._connections
    client,     \* per client: away, connected, broken (its sends fail), gone
    task,       \* the broadcast task: waiting, sending, dead
    turn,       \* the broadcast under way: size at its start, the members
                \* behind the index, the one whose send is awaited, stale
    delivered,  \* per client: the events it was sent
    since,      \* per client: events taken when it connected
    joined,     \* history: the events during whose broadcast one came in,
    parted      \* and those during whose broadcast one left

liveVars == <<produced, taken, conns, client, task, turn, delivered, since, joined, parted>>

NoTurn == [size |-> 0, left |-> {}, on |-> {}, stale |-> {}]

(* The events of the broadcasts that can outlive a change of the set.       *)
Swapped == joined \cap parted

LiveInit ==
    /\ produced = 0 /\ taken = 0
    /\ conns = {} /\ client = [c \in Clients |-> "away"]
    /\ task = "waiting" /\ turn = NoTurn
    /\ delivered = [c \in Clients |-> <<>>]
    /\ since = [c \in Clients |-> 0]
    /\ joined = {} /\ parted = {}

(* on_event: call_soon_threadsafe(queue.put_nowait), in order, never blocks.*)
Produce ==
    /\ produced < MaxEvents
    /\ produced' = produced + 1
    /\ UNCHANGED <<taken, conns, client, task, turn, delivered, since, joined, parted>>

(* Mutant: the clients that were reached are taken for stale.               *)
StaleIfReached(t, c) == IF client[c] = "connected" THEN t.stale \cup {c} ELSE t.stale
(* A send that raised marks its client for the end of the broadcast.        *)
Stale(t, c) == IF client[c] = "connected" THEN t.stale ELSE t.stale \cup {c}

(* One step of `for ws in self._connections', from the turn t.              *)
NextPeer(t) ==
    \/ /\ Cardinality(conns) # t.size                     \* RuntimeError
       /\ task' = "dead" /\ turn' = NoTurn
       /\ UNCHANGED conns
    \/ /\ Cardinality(conns) = t.size
       /\ \E c \in t.left :
             /\ task' = "sending"
             /\ turn' = [t EXCEPT !.on = {c}, !.left = @ \ {c}]
       /\ UNCHANGED conns
    \/ /\ Cardinality(conns) = t.size /\ t.left = {}      \* the loop is over
       /\ task' = "waiting" /\ turn' = NoTurn
       /\ conns' = conns \ t.stale

TakeEvent ==
    /\ task = "waiting" /\ taken < produced
    /\ taken' = taken + 1
    /\ NextPeer([NoTurn EXCEPT !.size = Cardinality(conns), !.left = conns])
    /\ UNCHANGED <<produced, client, delivered, since, joined, parted>>

(* The awaited send returns, or raises when the client is broken or gone.   *)
SendDone ==
    /\ task = "sending"
    /\ \E c \in turn.on :
          LET works == client[c] = "connected"
          IN  /\ delivered' = IF works THEN [delivered EXCEPT ![c] = Append(@, taken)]
                              ELSE delivered
              /\ NextPeer([turn EXCEPT !.on = {}, !.stale = Stale(turn, c)])
    /\ UNCHANGED <<produced, taken, client, since, joined, parted>>

(* manager.connect, once accept() has returned.  Without a rebuilt table    *)
(* `left' stays or gains the newcomer; a rebuilt one may leave any members. *)
Connect(c) ==
    /\ client[c] = "away"
    /\ client' = [client EXCEPT ![c] = "connected"]
    /\ conns' = conns \cup {c}
    /\ since' = [since EXCEPT ![c] = taken]
    /\ IF task = "sending"
       THEN /\ joined' = joined \cup {taken}
            /\ \E left \in SUBSET conns' : turn' = [turn EXCEPT !.left = left]
       ELSE UNCHANGED <<joined, turn>>
    /\ UNCHANGED <<produced, taken, task, delivered, parted>>

(* The connection breaks; the endpoint notices later.                       *)
Break(c) ==
    /\ client[c] = "connected"
    /\ client' = [client EXCEPT ![c] = "broken"]
    /\ UNCHANGED <<produced, taken, conns, task, turn, delivered, since, joined, parted>>

(* receive_text raises in the endpoint: manager.disconnect.                 *)
Disconnect(c) ==
    /\ client[c] \in {"connected", "broken"}
    /\ client' = [client EXCEPT ![c] = "gone"]
    /\ conns' = conns \ {c}
    /\ turn' = [turn EXCEPT !.left = @ \ {c}]
    /\ parted' = IF task = "sending" /\ c \in conns THEN parted \cup {taken} ELSE parted
    /\ UNCHANGED <<produced, taken, task, delivered, since, joined>>

Broadcast == TakeEvent \/ SendDone

LiveNext == Produce \/ Broadcast
            \/ \E c \in Clients : Connect(c) \/ Break(c) \/ Disconnect(c)

LiveSpec == LiveInit /\ [][LiveNext]_liveVars /\ WF_liveVars(Broadcast)

-----------------------------------------------------------------------------
(* Properties.                                                              *)

LiveTypeOK ==
    /\ taken \in 0..produced /\ produced \in 0..MaxEvents
    /\ conns \subseteq Clients
    /\ client \in [Clients -> {"away", "connected", "broken", "gone"}]
    /\ task \in {"waiting", "sending", "dead"}
    /\ turn.on \subseteq Clients /\ (task = "sending") = (turn.on # {})
    /\ turn.left \subseteq conns
    /\ joined \subseteq 1..taken /\ parted \subseteq 1..taken
    /\ \A c \in Clients : delivered[c] \in Seq(1..taken)

(* What a client gets from its connection on is in the order of capture; it *)
(* has a gap, a repetition or the event it connected in only where a client *)
(* came in and one left during the broadcast: then the set has its size and *)
(* the iteration goes on, in a table that may have been rebuilt.            *)
FeedIsContiguous ==
    \A c \in Clients : \A i \in DOMAIN delivered[c] :
        LET this == delivered[c][i]
            last == IF i = 1 THEN since[c] ELSE delivered[c][i - 1]
        IN  /\ last <= this
            /\ this = last => this \in Swapped
            /\ (last + 1)..(this - 1) \subseteq Swapped

Got(c, event) == \E i \in DOMAIN delivered[c] : delivered[c][i] = event

(* While the task lives, a client whose connection works has every event    *)
(* taken since it joined, but for the one being broadcast and those during  *)
(* whose broadcast one came in and one left.                                *)
NothingWithheld ==
    task # "dead" =>
        \A c \in Clients : client[c] = "connected" =>
            \A event \in (since[c] + 1)..(taken - (IF task = "sending" THEN 1 ELSE 0)) :
                event \in Swapped \/ Got(c, event)

(* Nothing but a connection that comes or goes during the very broadcast    *)
(* ends the task: failing sends do not, nor a change between two of them.   *)
OnlyChurnKills == task = "dead" => taken \in joined \cup parted
=============================================================================
