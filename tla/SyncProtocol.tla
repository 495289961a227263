---------------------------- MODULE SyncProtocol ----------------------------
(* The browser transport of one note (web/src/editor/sync.ts) against the sync
   socket of the server (mb-server/http.rs, sync.rs): what a tab counts as not
   yet saved, across drops, reconnections and refusals.  The document is a CRDT
   in memory; the server's is durable and serialized by the registry lock. *)
EXTENDS Naturals, Sequences, FiniteSets

CONSTANTS
  Client,      \* browser tabs on the note
  Disk,        \* the author of external edits the server imports
  Erasure,     \* deletions of items every replica starts with
  MaxEdits,    \* bound: insertions of one author
  Slots,       \* bound: sockets of one client the server has not yet forgotten
  Trouble,     \* which mishaps may happen: a subset of TroubleKinds
  MaxTrouble   \* bound: how many of them

TroubleKinds == {"drop", "network", "refuse", "fail_subscribe", "close_room", "reload"}

ASSUME DiskAssumption == Disk \notin Client
ASSUME BoundAssumption == MaxEdits \in Nat /\ Slots \in Nat \ {0} /\ MaxTrouble \in Nat
ASSUME TroubleAssumption == Trouble \subseteq TroubleKinds

Author == Client \cup {Disk}
Vector == [Author -> 0..MaxEdits]
Slot   == 1..Slots

(* A Yjs document: how many insertions of each author it holds (the state
   vector), and its delete set, which adds no clock. *)
Replica == [seen : Vector, gone : SUBSET Erasure]
Empty   == [seen |-> [a \in Author |-> 0], gone |-> {}]

(* An update holds an interval of each author's insertions, and deletions. *)
Update == [from : Vector, to : Vector, gone : SUBSET Erasure]

Contains(d, e) == e.gone \subseteq d.gone /\ \A a \in Author : e.seen[a] <= d.seen[a]
Fits(d, u)     == \A a \in Author : u.from[a] < u.to[a] => u.from[a] <= d.seen[a]
Merge(d, u)    == [seen |-> [a \in Author |-> IF u.to[a] > d.seen[a] THEN u.to[a] ELSE d.seen[a]],
                   gone |-> d.gone \cup u.gone]
State(d)       == [from |-> Empty.seen, to |-> d.seen, gone |-> d.gone]

(* encodeStateAsUpdate(d, v): the insertions v lacks and all of the delete set. *)
Missing(d, v) ==
  [from |-> [a \in Author |-> IF v[a] < d.seen[a] THEN v[a] ELSE d.seen[a]],
   to |-> d.seen, gone |-> d.gone]

HasContent(u) == u.gone # {} \/ \E a \in Author : u.from[a] < u.to[a]

VARIABLES
  client,   \* the provider and the document of each tab
  sock,     \* its sockets, by slot
  log,      \* the server's document, durable
  trouble   \* how many mishaps there have been

vars == <<client, sock, log, trouble>>

(* A socket: its state as the browser and the network know it, whether the
   provider's listeners are on it, whether the server still serves it and has
   its connection in the room, and the frames in either direction. *)
NoSocket == [state |-> "closed", listening |-> FALSE, serving |-> FALSE,
             joined |-> FALSE, up |-> <<>>, down |-> <<>>]

Provider == [doc |-> Empty, pending |-> 0, inFlight |-> <<>>, current |-> 0,
             connected |-> FALSE, admitted |-> FALSE, synced |-> FALSE,
             refresh |-> FALSE, retry |-> FALSE, destroyed |-> FALSE, mine |-> FALSE]

Frame(kind, body) == [kind |-> kind, body |-> body]
Signal(kind)      == [kind |-> kind]

-----------------------------------------------------------------------------
(* The provider's functions.  One tab is single-threaded: an event's listener
   runs to its end on w, the tab's provider and sockets, and leaves the next. *)
Tab(c) == [p |-> client[c], s |-> sock[c]]

Install(c, w) ==
  /\ client' = [client EXCEPT ![c] = w.p]
  /\ sock' = [sock EXCEPT ![c] = w.s]

(* readyState is OPEN: a socket whose network has gone still says so. *)
IsOpen(w) ==
  /\ ~w.p.destroyed /\ ~w.p.refresh /\ w.p.current # 0
  /\ w.s[w.p.current].state \in {"open", "dead"}

Send(w, frame) ==
  IF IsOpen(w) /\ w.s[w.p.current].state = "open"
  THEN [w EXCEPT !.s[w.p.current].up = Append(@, frame)]
  ELSE w

(* sendUpdate: counted always, in flight only once it was handed to a socket. *)
SendUpdate(w, u) ==
  LET counted == [w EXCEPT !.p.doc = Merge(@, u), !.p.pending = @ + 1] IN
  IF ~(IsOpen(w) /\ w.p.admitted) THEN counted
  ELSE Send([counted EXCEPT !.p.inFlight = Append(@, [update |-> u, count |-> 1])],
            Frame("update", u))

Detach(w) ==
  IF w.p.current = 0
  THEN [w EXCEPT !.p.admitted = FALSE, !.p.inFlight = <<>>]
  ELSE [w EXCEPT !.s[w.p.current].listening = FALSE, !.p.current = 0,
                 !.p.admitted = FALSE, !.p.inFlight = <<>>]

(* Leaves the current socket and closes it. *)
DetachAndClose(w) ==
  IF w.p.current = 0 THEN Detach(w)
  ELSE [Detach(w) EXCEPT !.s[w.p.current].state = "closed", !.s[w.p.current].down = <<>>]

ScheduleReconnect(w) ==
  IF w.p.destroyed \/ w.p.refresh THEN w ELSE [w EXCEPT !.p.retry = TRUE]

Offline(w) ==
  IF w.p.destroyed \/ w.p.current = 0 THEN w
  ELSE ScheduleReconnect([DetachAndClose(w) EXCEPT !.p.connected = FALSE])

Terminate(w) ==
  [DetachAndClose([w EXCEPT !.p.refresh = TRUE]) EXCEPT
     !.p.synced = FALSE, !.p.retry = FALSE, !.p.connected = FALSE]

(* attach: any socket slot the server has forgotten will do. *)
FreeSlots(w) == {s \in Slot : w.s[s] = NoSocket}
Attached(w) ==
  IF w.p.destroyed \/ w.p.refresh THEN {w}
  ELSE {[w EXCEPT !.p.current = s, !.s[s].state = "connecting", !.s[s].listening = TRUE] :
          s \in FreeSlots(w)}

(* Mutant of Flush: a difference nobody counted is not counted now either. *)
FlushUncounted(w, missing, before) ==
  IF HasContent(missing)
  THEN Send([w EXCEPT !.p.inFlight = Append(@, [update |-> missing, count |-> before]),
                      !.p.synced = TRUE],
            Frame("update", missing))
  ELSE [w EXCEPT !.p.pending = @ - before, !.p.synced = TRUE]

(* Mutant of Flush: what this page did not count is not sent. *)
FlushCountedOnly(w, missing, before) ==
  IF before > 0
  THEN Send([w EXCEPT !.p.inFlight = Append(@, [update |-> missing, count |-> before]),
                      !.p.synced = TRUE],
            Frame("update", missing))
  ELSE [w EXCEPT !.p.synced = TRUE]

Flush(w, missing, before) ==
  IF HasContent(missing)
  THEN LET count == IF before > 1 THEN before ELSE 1 IN
       Send([w EXCEPT !.p.pending = @ - before + count,
                      !.p.inFlight = Append(@, [update |-> missing, count |-> count]),
                      !.p.synced = TRUE],
            Frame("update", missing))
  ELSE [w EXCEPT !.p.pending = @ - before, !.p.synced = TRUE]

-----------------------------------------------------------------------------
(* What onMessage does with one frame. *)
NextEdit(c, d) ==
  [from |-> d.seen, to |-> [d.seen EXCEPT ![c] = @ + 1], gone |-> {}]

(* An update: the echo of one in flight acknowledges it, any other is merged,
   and one that leaves gaps fails the admission's validation. *)
OnUpdate(w, u) ==
  LET echoes == {i \in DOMAIN w.p.inFlight : w.p.inFlight[i].update = u} IN
  IF echoes # {}
  THEN LET i == CHOOSE j \in echoes : \A k \in echoes : j <= k
           left == w.p.pending - w.p.inFlight[i].count IN
       [w EXCEPT !.p.pending = IF left > 0 THEN left ELSE 0,
                 !.p.inFlight = SubSeq(@, 1, i - 1) \o SubSeq(@, i + 1, Len(@))]
  ELSE IF Fits(w.p.doc, u) THEN [w EXCEPT !.p.doc = Merge(@, u)] ELSE Terminate(w)

(* Mutant of OnSync: what is in flight stays in flight beside the difference. *)
OnSyncKeepsInFlight(c, w, u, normalizes) ==
  LET missing == Missing(w.p.doc, u.to)
      merged  == [w EXCEPT !.p.doc = Merge(@, u)]
      edited  == IF normalizes THEN SendUpdate(merged, NextEdit(c, merged.p.doc)) ELSE merged
  IN  Flush(edited, missing, w.p.pending)

(* The server's whole state.  Merging it may make the editor normalize the
   document, an edit of the tab's own that is sent before the difference. *)
OnSync(c, w, u, normalizes) ==
  LET missing == Missing(w.p.doc, u.to)
      theirs  == [seen |-> u.to, gone |-> u.gone]
      mine    == HasContent(missing) /\ ~Contains(w.p.doc, theirs)
      merged  == [w EXCEPT !.p.inFlight = <<>>, !.p.doc = Merge(@, u), !.p.mine = mine]
      edited  == IF normalizes THEN SendUpdate(merged, NextEdit(c, merged.p.doc)) ELSE merged
  IN  Flush(edited, missing, w.p.pending)

OnFrame(c, w, frame, normalizes) ==
  CASE frame.kind = "admitted" -> [w EXCEPT !.p.admitted = TRUE]
    [] frame.kind = "refresh_required" -> Terminate(w)
    [] frame.kind = "error" -> Offline(w)
    [] frame.kind = "update" -> IF w.p.admitted THEN OnUpdate(w, frame.body) ELSE Terminate(w)
    [] frame.kind = "sync" ->
         IF w.p.admitted THEN OnSync(c, w, frame.body, normalizes) ELSE Terminate(w)

-----------------------------------------------------------------------------
Init ==
  /\ client = [c \in Client |-> [Provider EXCEPT !.current = 1]]
  /\ sock = [c \in Client |-> [s \in Slot |->
       IF s = 1 THEN [NoSocket EXCEPT !.state = "connecting", !.listening = TRUE] ELSE NoSocket]]
  /\ log = Empty
  /\ trouble = 0

Mishap(kind) ==
  /\ kind \in Trouble /\ trouble < MaxTrouble
  /\ trouble' = trouble + 1

(* The document changed under the user's hands. *)
Edit(c) ==
  /\ ~client[c].destroyed /\ client[c].doc.seen[c] < MaxEdits
  /\ Install(c, SendUpdate(Tab(c), NextEdit(c, client[c].doc)))
  /\ UNCHANGED <<log, trouble>>

Erase(c, e) ==
  /\ ~client[c].destroyed /\ e \notin client[c].doc.gone
  /\ LET d == client[c].doc IN
     Install(c, SendUpdate(Tab(c), [from |-> d.seen, to |-> d.seen, gone |-> {e}]))
  /\ UNCHANGED <<log, trouble>>

(* The server accepts the connection; onOpen subscribes on the current socket,
   whichever socket it was that opened. *)
Open(c, s) ==
  LET opened == [Tab(c) EXCEPT !.s[s].state = "open", !.s[s].serving = TRUE] IN
  /\ sock[c][s].state = "connecting"
  /\ Install(c, IF sock[c][s].listening
                THEN Send([opened EXCEPT !.p.connected = TRUE], Signal("subscribe"))
                ELSE opened)
  /\ UNCHANGED <<log, trouble>>

Receive(c, s) ==
  /\ sock[c][s].listening /\ sock[c][s].state = "open" /\ sock[c][s].down # <<>>
  /\ \E normalizes \in BOOLEAN :
       /\ normalizes => client[c].doc.seen[c] < MaxEdits /\ Head(sock[c][s].down).kind = "sync"
       /\ Install(c, OnFrame(c, [Tab(c) EXCEPT !.s[s].down = Tail(@), !.p.mine = FALSE],
                             Head(sock[c][s].down), normalizes))
  /\ UNCHANGED <<log, trouble>>

(* onClose, on whichever of the sockets it is heard: the current one goes. *)
HearClose(c, s) ==
  /\ sock[c][s].listening /\ sock[c][s].state = "dead"
  /\ Install(c, ScheduleReconnect(Detach(
       [Tab(c) EXCEPT !.s[s].state = "closed", !.s[s].listening = FALSE, !.p.connected = FALSE])))
  /\ UNCHANGED <<log, trouble>>

Retry(c) ==
  /\ client[c].retry
  /\ \E w \in Attached([Tab(c) EXCEPT !.p.retry = FALSE]) : Install(c, w)
  /\ UNCHANGED <<log, trouble>>

(* The browser says the network went, or came back. *)
GoOffline(c) ==
  /\ Mishap("network")
  /\ client[c].current # 0 /\ ~client[c].destroyed
  /\ Install(c, Offline(Tab(c)))
  /\ UNCHANGED log

ComeOnline(c) ==
  /\ Mishap("network")
  /\ ~client[c].destroyed /\ ~client[c].refresh /\ ~client[c].connected
  /\ \E w \in Attached([Tab(c) EXCEPT !.p.retry = FALSE]) : Install(c, w)
  /\ UNCHANGED log

(* The page is closed and opened again over the replica IndexedDB kept: every
   socket of the old page closes with it. *)
Reload(c) ==
  /\ Mishap("reload")
  /\ \E w \in Attached([p |-> [Provider EXCEPT !.doc = client[c].doc],
                        s |-> [s \in Slot |->
                                 IF sock[c][s].serving
                                 THEN [sock[c][s] EXCEPT !.state = "closed", !.listening = FALSE, !.down = <<>>]
                                 ELSE NoSocket]]) :
       Install(c, w)
  /\ UNCHANGED log

(* destroy: the note is closed. *)
Destroy(c) ==
  /\ Mishap("reload")
  /\ ~client[c].destroyed
  /\ Install(c, [DetachAndClose([Send(Tab(c), Signal("unsubscribe")) EXCEPT !.p.destroyed = TRUE])
                   EXCEPT !.p.connected = FALSE, !.p.retry = FALSE])
  /\ UNCHANGED log

-----------------------------------------------------------------------------
(* The server: one frame of one socket at a time, under the registry lock. *)
Reply(socks, c, s, frame) ==
  IF socks[c][s].state = "open" THEN [socks EXCEPT ![c][s].down = Append(@, frame)] ELSE socks

(* Mutant of Broadcast: the update goes out without its frame. *)
BroadcastBare(socks, u) ==
  [c \in Client |-> [s \in Slot |->
     IF socks[c][s].joined /\ socks[c][s].state = "open"
     THEN [socks[c][s] EXCEPT !.down = Append(@, u)]
     ELSE socks[c][s]]]

Broadcast(socks, u) ==
  [c \in Client |-> [s \in Slot |->
     IF socks[c][s].joined /\ socks[c][s].state = "open"
     THEN [socks[c][s] EXCEPT !.down = Append(@, Frame("update", u))]
     ELSE socks[c][s]]]

Serves(c, s, kind) ==
  sock[c][s].serving /\ sock[c][s].up # <<>> /\ Head(sock[c][s].up).kind = kind

Taken(c, s) == [sock EXCEPT ![c][s].up = Tail(@)]

(* Mutant of Subscribe: the state is queued before the admission. *)
SubscribeStateFirst(c, s) ==
  /\ Serves(c, s, "subscribe")
  /\ sock' = [Reply(Reply(Taken(c, s), c, s, Frame("sync", State(log))), c, s, Signal("admitted"))
                EXCEPT ![c][s].joined = TRUE]
  /\ UNCHANGED <<client, log, trouble>>

(* subscribe: admission and full state are queued together, then it is a peer. *)
Subscribe(c, s) ==
  /\ Serves(c, s, "subscribe")
  /\ sock' = [Reply(Reply(Taken(c, s), c, s, Signal("admitted")), c, s, Frame("sync", State(log)))
                EXCEPT ![c][s].joined = TRUE]
  /\ UNCHANGED <<client, log, trouble>>

(* Opening or inspecting the note failed: answered as every other refusal. *)
SubscribeFails(c, s) ==
  /\ Serves(c, s, "subscribe") /\ Mishap("fail_subscribe")
  /\ sock' = Reply(Taken(c, s), c, s, Signal("refresh_required"))
  /\ UNCHANGED <<client, log>>

Unsubscribe(c, s) ==
  /\ Serves(c, s, "unsubscribe")
  /\ sock' = [Taken(c, s) EXCEPT ![c][s].joined = FALSE]
  /\ UNCHANGED <<client, log, trouble>>

AcceptUpdate(c, s) ==
  /\ Serves(c, s, "update")
  /\ LET u == Head(sock[c][s].up).body IN
     \/ /\ ~sock[c][s].joined
        /\ sock' = Reply(Taken(c, s), c, s, Signal("refresh_required"))
        /\ UNCHANGED log
     \/ /\ sock[c][s].joined /\ ~Fits(log, u)
        /\ sock' = Reply(Taken(c, s), c, s, Signal("error"))
        /\ UNCHANGED log
     \/ /\ sock[c][s].joined /\ Fits(log, u)
        /\ log' = Merge(log, u)
        /\ sock' = Broadcast(Taken(c, s), u)
  /\ UNCHANGED <<client, trouble>>

(* The role changed, or the append failed: the update is not taken. *)
RefuseUpdate(c, s) ==
  /\ Serves(c, s, "update") /\ sock[c][s].joined /\ Mishap("refuse")
  /\ sock' = Reply(Taken(c, s), c, s, Signal("error"))
  /\ UNCHANGED <<client, log>>

ImportExternal ==
  /\ log.seen[Disk] < MaxEdits
  /\ \E c \in Client, s \in Slot : sock[c][s].joined
  /\ LET u == NextEdit(Disk, log) IN
     /\ log' = Merge(log, u)
     /\ sock' = Broadcast(sock, u)
  /\ UNCHANGED <<client, trouble>>

(* A rename or a deletion takes the room and its peers, who are not told. *)
CloseRoom ==
  /\ Mishap("close_room")
  /\ sock' = [c \in Client |-> [s \in Slot |-> [sock[c][s] EXCEPT !.joined = FALSE]]]
  /\ UNCHANGED <<client, log>>

(* The connection breaks: what was on its way to the tab is lost, what was on
   its way to the server may still be served before the server notices. *)
Break(c, s) ==
  /\ Mishap("drop")
  /\ sock[c][s].state \in {"connecting", "open"}
  /\ sock' = [sock EXCEPT ![c][s].state = IF sock[c][s].listening THEN "dead" ELSE "closed",
                          ![c][s].down = <<>>]
  /\ UNCHANGED <<client, log>>

(* sync_socket ends: the connection leaves every room, its frames are dropped. *)
Disconnect(c, s) ==
  /\ sock[c][s].serving /\ sock[c][s].state \in {"dead", "closed"}
  /\ sock' = [sock EXCEPT ![c][s].serving = FALSE, ![c][s].joined = FALSE, ![c][s].up = <<>>]
  /\ UNCHANGED <<client, log, trouble>>

-----------------------------------------------------------------------------
User(c)       == Edit(c) \/ \E e \in Erasure : Erase(c, e)
Listener(c)   == Retry(c) \/ \E s \in Slot : Open(c, s) \/ Receive(c, s) \/ HearClose(c, s)
Browser(c)    == GoOffline(c) \/ ComeOnline(c) \/ Reload(c) \/ Destroy(c)
Server(c, s)  == Subscribe(c, s) \/ Unsubscribe(c, s) \/ AcceptUpdate(c, s) \/ Disconnect(c, s)
Failure(c, s) == SubscribeFails(c, s) \/ RefuseUpdate(c, s) \/ Break(c, s)

Next ==
  \/ \E c \in Client :
       \/ User(c) \/ Listener(c) \/ Browser(c)
       \/ \E s \in Slot : Server(c, s) \/ Failure(c, s)
  \/ ImportExternal \/ CloseRoom

Spec == Init /\ [][Next]_vars

(* Sockets open, frames and close events arrive, timers fire, the server serves
   what it received; nobody has to edit, and nothing has to go wrong. *)
Fairness ==
  \A c \in Client :
    /\ WF_vars(Retry(c))
    /\ \A s \in Slot :
         /\ WF_vars(Open(c, s)) /\ WF_vars(Receive(c, s)) /\ WF_vars(HearClose(c, s))
         /\ WF_vars(Server(c, s))

FairSpec == Spec /\ Fairness

-----------------------------------------------------------------------------
UpFrames   == [kind : {"subscribe", "unsubscribe"}] \cup [kind : {"update"}, body : Update]
DownFrames == [kind : {"admitted", "refresh_required", "error"}]
                \cup [kind : {"sync", "update"}, body : Update]

(* Every provider, socket and frame is of its type. *)
TypeOK ==
  /\ client \in [Client ->
       [doc : Replica, pending : Nat, current : Slot \cup {0},
        inFlight : Seq([update : Update, count : Nat]),
        connected : BOOLEAN, admitted : BOOLEAN, synced : BOOLEAN, refresh : BOOLEAN,
        retry : BOOLEAN, destroyed : BOOLEAN, mine : BOOLEAN]]
  /\ sock \in [Client -> [Slot ->
       [state : {"closed", "connecting", "open", "dead"}, listening : BOOLEAN,
        serving : BOOLEAN, joined : BOOLEAN, up : Seq(UpFrames), down : Seq(DownFrames)]]]
  /\ log \in Replica
  /\ trouble \in 0..MaxTrouble

(* A tab that says it is synced with nothing pending holds nothing the server
   could still lose: whatever sockets, echoes and refusals there were (pending,
   synced, and the durable dirty flag kept from them). *)
SavedIsDurable ==
  \A c \in Client :
    client[c].synced /\ client[c].pending = 0 => Contains(log, client[c].doc)

(* What the echoes of these updates will take off the count. *)
Total(flight) ==
  LET upTo[i \in 0..Len(flight)] == IF i = 0 THEN 0 ELSE upTo[i - 1] + flight[i].count
  IN  upTo[Len(flight)]

(* An echo never takes more off the count than is on it, so the count reaches
   zero with the last echo and no sooner (the Math.max in onMessage is idle). *)
InFlightIsPending ==
  \A c \in Client : Total(client[c].inFlight) <= client[c].pending

(* Lost sockets, refused updates and reconnections never make a tab of the
   server's own schema revision give up: no frame comes before its admission,
   none leaves a gap, none is sent for a room it is not in (terminateForRefresh). *)
NeverTerminal == \A c \in Client : ~client[c].refresh

(* When the mishaps are over, every open tab comes to show exactly what the
   server has, with nothing pending (the reconnect flush and its echo). *)
Converges ==
  \A c \in Client :
    <>[](\/ client[c].destroyed
         \/ client[c].synced /\ client[c].pending = 0 /\ client[c].doc = log)
=============================================================================
