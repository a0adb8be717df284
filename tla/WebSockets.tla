----------------------------- MODULE WebSockets -----------------------------
(***************************************************************************)
(* The WebSocket server of one process: SubscribeHandler and               *)
(* HeartbeatHandler (api/src/websocket/handlers), the connections and      *)
(* messages they get from SocketController and WebSocketController         *)
(* (api/src/websocket/controllers), and the events of the bus.             *)
(*                                                                         *)
(* The subscriptions are to one collection, whose items are a version      *)
(* number, and have no event filter; each is named by the message that     *)
(* asked for it.  Clients may read the collection and getPayload() reads   *)
(* its items when it is called or later.                                   *)
(***************************************************************************)
EXTENDS Naturals, Sequences, FiniteSets

CONSTANTS
    Clients,     \* connections; each is made once
    Messages,    \* messages of clients, numbered in the order they arrive
    Uids,        \* the uids clients give their subscriptions
    NoUid,       \* what a message without uid has
    None,
    MaxChanges,  \* bound: changes to the collection
    MaxFaults    \* bound: dispatches that get no schema, and their reads that are refused

ASSUME MessagesAssumption == Messages \subseteq Nat
ASSUME NoneAssumption == NoUid \notin Uids /\ None \notin Messages \cup Clients
ASSUME BoundAssumption == MaxChanges \in Nat /\ MaxFaults \in Nat

VARIABLES
    items,       \* the committed version of the collection
    events,      \* the events of the bus under way to this process: versions
    conn,        \* the connections
    msg,         \* the messages, and where their handlers stand
    subs,        \* subscriptions: the messages that asked for them
    dispatches,  \* runs of dispatch() that have not ended
    log,         \* what was sent to each subscription, in order
    pulse,       \* whether the interval of the heartbeat runs
    faults,      \* how many of them there were
    pending,     \* pendingClients of the ping whose timeout is not over
    gap,         \* history: subscriptions that the event of the last change passes by
    late,        \* history: subscriptions registered after their client had gone
    others       \* history: those whose handlers had cleared the uid, at registration

heartVars == <<pulse, pending>>
historyVars == <<gap, late, others>>
vars == <<items, events, conn, msg, subs, dispatches, log, faults, heartVars, historyVars>>

OptUid == Uids \cup {NoUid}
Message == [client : Clients \cup {None}, op : {"none", "subscribe", "unsubscribe"},
            uid : OptUid, data : Nat,
            stage : {"unsent", "received", "schema", "reading", "read", "done"}]
Dispatch == [event : Nat, visited : SUBSET Messages, current : Messages \cup {None},
             data : Nat, stage : {"schema", "reading", "read"}]

TypeOK ==
    /\ items \in Nat
    /\ events \in Seq(Nat)
    /\ conn \in [Clients -> {"none", "open", "closing", "closed"}]
    /\ msg \in [Messages -> Message]
    /\ subs \subseteq {m \in Messages : msg[m].op = "subscribe" /\ msg[m].stage = "done"}
    /\ dispatches \subseteq Dispatch
    /\ log \in [Messages -> Seq([kind : {"init", "event", "error"}, data : Nat])]
    /\ faults \in 0..MaxFaults
    /\ pulse \in BOOLEAN
    /\ pending \subseteq Clients
    /\ gap \subseteq Messages /\ late \subseteq Messages
    /\ others \in [Messages -> SUBSET Messages]

Init ==
    /\ items = 0
    /\ events = <<>>
    /\ conn = [c \in Clients |-> "none"]
    /\ msg = [m \in Messages |-> [client |-> None, op |-> "none", uid |-> NoUid, data |-> 0,
                                  stage |-> "unsent"]]
    /\ subs = {}
    /\ dispatches = {}
    /\ log = [m \in Messages |-> <<>>]
    /\ faults = 0
    /\ pulse = FALSE
    /\ pending = {}
    /\ gap = {} /\ late = {}
    /\ others = [m \in Messages |-> {}]

\* controller.clients: a connection that is being closed is still one of them.
Open == {c \in Clients : conn[c] \in {"open", "closing"}}
Of(c) == {m \in subs : msg[m].client = c}
At(m, stage) == msg[m].stage = stage
Goto(m, stage) == msg' = [msg EXCEPT ![m].stage = stage]
Send(m, kind, data) == log' = [log EXCEPT ![m] = Append(@, [kind |-> kind, data |-> data])]

-----------------------------------------------------------------------------
(* Connections.                                                            *)

\* Mutant of CheckClients: the pulse stops when any connection is gone.
CheckClientsAny == pulse' = (Open' # {} /\ Open \subseteq Open')

\* checkClients(), after a connection was added to or removed from clients.
CheckClients == pulse' = (Open' # {})

\* createClient() and bindEvents().
Connect(c) ==
    /\ conn[c] = "none"
    /\ conn' = [conn EXCEPT ![c] = "open"]
    /\ CheckClients
    /\ UNCHANGED <<items, events, msg, subs, dispatches, log, faults, pending, historyVars>>

\* Mutant of Unsubscribe: only one subscription of the client is removed.
UnsubscribeOne(c, uid) ==
    \/ /\ {m \in Of(c) : uid \in {NoUid, msg[m].uid}} = {}
       /\ UNCHANGED subs
    \/ \E m \in Of(c) : uid \in {NoUid, msg[m].uid} /\ subs' = subs \ {m}

\* unsubscribe(): all subscriptions of the client, or one that has the uid.
Unsubscribe(c, uid) ==
    \/ /\ uid = NoUid
       /\ subs' = subs \ Of(c)
    \/ /\ uid # NoUid
       /\ \E m \in Of(c) : msg[m].uid = uid /\ subs' = subs \ {m}
    \/ /\ uid # NoUid
       /\ \A m \in Of(c) : msg[m].uid # uid
       /\ UNCHANGED subs

\* 'close' and 'error': the connection is off the list of clients before the
\* handlers are told.
Close(c) ==
    /\ c \in Open
    /\ conn' = [conn EXCEPT ![c] = "closed"]
    /\ Unsubscribe(c, NoUid)
    /\ CheckClients
    /\ UNCHANGED <<items, events, msg, dispatches, log, faults, pending, historyVars>>

-----------------------------------------------------------------------------
(* Messages of clients.                                                    *)

\* The message arrives; filters and refreshAccountability() are awaited.
Receive(m, c, op, uid) ==
    /\ At(m, "unsent") /\ c \in Open
    /\ \A n \in Messages : n < m => ~At(n, "unsent")
    /\ msg' = [msg EXCEPT ![m] = [client |-> c, op |-> op, uid |-> uid, data |-> 0,
                                  stage |-> "received"]]
    /\ UNCHANGED <<items, events, conn, subs, dispatches, log, faults, heartVars, historyVars>>

\* messageWatcher: any message will do.  A ping without pending clients is over.
Answers(c) == pending' = pending \ {c}

\* Action 'websocket.message': the heartbeat's watchers, and onMessage(), which
\* awaits the schema of a subscribe and does an unsubscribe at once.
Handle(m) ==
    /\ At(m, "received")
    /\ Answers(msg[m].client)
    /\ \/ /\ msg[m].op = "subscribe"
          /\ Goto(m, "schema")
          /\ UNCHANGED subs
       \/ /\ msg[m].op = "unsubscribe"
          /\ Goto(m, "done")
          /\ Unsubscribe(msg[m].client, msg[m].uid)
    /\ UNCHANGED <<items, events, conn, dispatches, log, faults, pulse, historyVars>>

\* getSchema() throws, or the collection is not accessible: the client is told.
Reject(m) ==
    /\ At(m, "schema")
    /\ Goto(m, "done")
    /\ UNCHANGED <<items, events, conn, subs, dispatches, log, faults, heartVars, historyVars>>

\* Mutant of Prepare: a subscription of the same uid stays.
PrepareOnly(m) ==
    /\ At(m, "schema")
    /\ Goto(m, "reading")
    /\ UNCHANGED <<items, events, conn, subs, dispatches, log, faults, heartVars, historyVars>>

\* A subscription of the same uid is removed, and getPayload() is called.
Prepare(m) ==
    /\ At(m, "schema")
    /\ Goto(m, "reading")
    /\ \/ /\ msg[m].uid # NoUid
          /\ Unsubscribe(msg[m].client, msg[m].uid)
       \/ /\ msg[m].uid = NoUid
          /\ UNCHANGED subs
    /\ UNCHANGED <<items, events, conn, dispatches, log, faults, heartVars, historyVars>>

\* Mutant of ReadItems: the subscription is registered before its payload is there.
ReadItemsRegistered(m) ==
    /\ At(m, "reading")
    /\ msg' = [msg EXCEPT ![m] = [@ EXCEPT !.stage = "read", !.data = items]]
    /\ subs' = subs \cup {m}
    /\ UNCHANGED <<items, events, conn, dispatches, log, faults, heartVars, historyVars>>

\* The payload is read, or is refused and the client told.
ReadItems(m) ==
    /\ At(m, "reading")
    /\ \/ msg' = [msg EXCEPT ![m] = [@ EXCEPT !.stage = "read", !.data = items]]
       \/ Goto(m, "done")
    /\ UNCHANGED <<items, events, conn, subs, dispatches, log, faults, heartVars, historyVars>>

\* subscribe() and the initial response, without an await between them.
Register(m) ==
    /\ At(m, "read")
    /\ Goto(m, "done")
    /\ subs' = subs \cup {m}
    /\ Send(m, "init", msg[m].data)
    /\ late' = IF conn[msg[m].client] = "closed" THEN late \cup {m} ELSE late
    /\ others' = [others EXCEPT ![m] = {o \in Messages \ {m} : At(o, "reading") \/ At(o, "read")}]
    /\ UNCHANGED <<items, events, conn, dispatches, faults, heartVars, gap>>

-----------------------------------------------------------------------------
(* Events.                                                                 *)

\* A mutation, here or in another process, has committed, and its action event
\* is published on the bus.
Change ==
    /\ items < MaxChanges
    /\ items' = items + 1
    /\ events' = Append(events, items + 1)
    /\ gap' = {}
    /\ UNCHANGED <<conn, msg, subs, dispatches, log, faults, heartVars, late, others>>

\* The subscriptions to be whose payload was read before the last change.
Unaware == {m \in Messages : At(m, "read") /\ msg[m].data # items}

\* The event e is over, and nothing of it was sent to ms.
Passes(e, ms) == gap' = IF e = items THEN gap \cup ms ELSE gap

\* dispatch() ends at once where nobody subscribed.
Deliver ==
    /\ events # <<>>
    /\ events' = Tail(events)
    /\ \/ /\ subs = {}
          /\ Passes(Head(events), Unaware)
          /\ UNCHANGED dispatches
       \/ /\ subs # {}
          /\ dispatches' = dispatches \cup {[event |-> Head(events), visited |-> {},
                                current |-> None, data |-> 0, stage |-> "schema"]}
          /\ UNCHANGED gap
    /\ UNCHANGED <<items, conn, msg, subs, log, faults, heartVars, late, others>>

Becomes(d, e) == dispatches' = (dispatches \ {d}) \cup {e}

\* Mutant of GoOn: the loop is left at a client that is gone.
GoOnUntilGone(d, visited) ==
    \/ \E m \in subs \ visited :
        /\ conn[msg[m].client] # "closed"
        /\ Becomes(d, [d EXCEPT !.stage = "reading", !.visited = visited, !.current = m, !.data = 0])
        /\ UNCHANGED gap
    \/ /\ \A m \in subs \ visited : conn[msg[m].client] = "closed"
       /\ dispatches' = dispatches \ {d}
       /\ Passes(d.event, Unaware)

\* The next iteration of the loop.  It is over the set itself: it comes to
\* subscriptions that were added since it began, and to none that was removed.
GoOn(d, visited) ==
    \/ \E m \in subs \ visited :
        /\ Becomes(d, [d EXCEPT !.stage = "reading", !.visited = visited, !.current = m, !.data = 0])
        /\ UNCHANGED gap
    \/ /\ subs \subseteq visited
       /\ dispatches' = dispatches \ {d}
       /\ Passes(d.event, Unaware)

GotSchema(d) ==
    /\ d.stage = "schema"
    /\ GoOn(d, {})
    /\ UNCHANGED <<items, events, conn, msg, subs, log, faults, heartVars, late, others>>

\* It throws outside of the loop's try: nobody awaits dispatch(), and the event
\* is lost for every subscription.
NoSchema(d) ==
    /\ d.stage = "schema" /\ faults < MaxFaults
    /\ faults' = faults + 1
    /\ dispatches' = dispatches \ {d}
    /\ Passes(d.event, subs \cup Unaware)
    /\ UNCHANGED <<items, events, conn, msg, subs, log, heartVars, late, others>>

\* refreshAccountability() and getPayload(), which reads the items as they are.
ReadEvent(d) ==
    /\ d.stage = "reading"
    /\ Becomes(d, [d EXCEPT !.stage = "read", !.data = items])
    /\ UNCHANGED <<items, events, conn, msg, subs, log, faults, heartVars, historyVars>>

\* Or they throw, and the client is told.
Refuse(d) ==
    /\ d.stage = "reading" /\ faults < MaxFaults
    /\ faults' = faults + 1
    /\ Send(d.current, "error", d.event)
    /\ GoOn(d, d.visited \cup {d.current})
    /\ UNCHANGED <<items, events, conn, msg, subs, heartVars, late, others>>

\* The message is sent, also for a subscription that was removed meanwhile.
SendEvent(d) ==
    /\ d.stage = "read"
    /\ Send(d.current, "event", d.data)
    /\ GoOn(d, d.visited \cup {d.current})
    /\ UNCHANGED <<items, events, conn, msg, subs, faults, heartVars, late, others>>

-----------------------------------------------------------------------------
(* The heartbeat.                                                          *)

\* The interval and the timeout have the same period, and the timeout of a ping
\* is set before the interval is set again: it is over when the next ping is due.
PingClients ==
    /\ pulse /\ pending = {}
    /\ pending' = Open
    /\ UNCHANGED <<items, events, conn, msg, subs, dispatches, log, faults, pulse, historyVars>>

\* client.close() for the connections that have not responded; 'close' follows.
Timeout ==
    /\ pending # {}
    /\ conn' = [c \in Clients |-> IF c \in pending \cap Open THEN "closing" ELSE conn[c]]
    /\ pending' = {}
    /\ UNCHANGED <<items, events, msg, subs, dispatches, log, faults, pulse, historyVars>>

-----------------------------------------------------------------------------
(* Specification.                                                          *)

Talk(m) ==
    \/ \E c \in Clients, op \in {"subscribe", "unsubscribe"}, uid \in OptUid : Receive(m, c, op, uid)
    \/ Handle(m) \/ Reject(m) \/ Prepare(m) \/ ReadItems(m) \/ Register(m)

Dispatching(d) == GotSchema(d) \/ NoSchema(d) \/ ReadEvent(d) \/ Refuse(d) \/ SendEvent(d)

Next ==
    \/ \E c \in Clients : Connect(c) \/ Close(c)
    \/ \E m \in Messages : Talk(m)
    \/ Change \/ Deliver
    \/ \E d \in dispatches : Dispatching(d)
    \/ PingClients \/ Timeout

\* Timers fire, and a connection that is being closed is closed (by the close
\* timeout of the library, where the client does not answer).
Fairness ==
    /\ WF_vars(PingClients) /\ WF_vars(Timeout)
    /\ \A c \in Clients : WF_vars(conn[c] = "closing" /\ Close(c))

Spec == Init /\ [][Next]_vars /\ Fairness

-----------------------------------------------------------------------------
(* Properties.                                                             *)

\* A client hears of a subscription first by the response to its subscribe,
\* never by an event of it: onMessage() registers and answers in one step.
InitFirst == \A m \in Messages : log[m] # <<>> => Head(log[m]).kind = "init"

\* A closed connection leaves no subscription, in whatever order its handlers
\* are told, except one whose payload was still being read when it closed:
\* that one is added after unsubscribe() and stays.
ClosedIsRemoved == \A m \in subs : conn[msg[m].client] = "closed" => m \in late

\* A client has two subscriptions of one uid only where two of its subscribes
\* of that uid were between unsubscribe() and subscribe() at the same time.  (A
\* later one removes one of the two and leaves the other.)
SameName(m, n) == msg[m].client = msg[n].client /\ msg[m].uid = msg[n].uid

OnePerUid ==
    \A m, n \in subs :
        m # n /\ SameName(m, n) /\ msg[m].uid # NoUid =>
            \E o, p \in Messages : SameName(m, o) /\ SameName(m, p) /\ o \in others[p]

\* When every event was dispatched, a subscription was sent the items as they
\* are at least once, or an error instead, whatever became of the events before
\* the last, unless that one got no schema, or came between the read of the
\* first payload and the registration.  (The items as they are need not be what
\* was sent last: the runs of dispatch() are not ordered.)
CatchesUp ==
    events = <<>> /\ dispatches = {} =>
        \A m \in subs \ gap :
            \E i \in DOMAIN log[m] : log[m][i].data = items \/ log[m][i].kind = "error"

\* A connection whose client has stopped sending messages is closed: clients
\* have boundedly many of them, so every connection is closed in the end.
SilentClosed == \A c \in Clients : conn[c] = "open" ~> conn[c] = "closed"
=============================================================================
