-------------------------- MODULE WebSocketsProofs --------------------------
(* What holds of WebSockets for every number of connections, messages, uids, *)
(* changes and refused reads.                                                *)
EXTENDS WebSockets, TLAPS

Stages == {"unsent", "received", "schema", "reading", "read", "done"}
Kinds == {"init", "event", "error"}

-----------------------------------------------------------------------------
(* Types.                                                                    *)

\* unsubscribe() only removes.
LEMMA UnsubscribeRemoves ==
    ASSUME NEW c, NEW uid, Unsubscribe(c, uid)
    PROVE  subs' \subseteq subs
  BY DEF Unsubscribe, Of

\* A step of the handler of m moves m on and leaves the other messages alone.
LEMMA GotoType ==
    ASSUME TypeOK, NEW m \in Messages, NEW s \in Stages, Goto(m, s)
    PROVE  /\ msg' \in [Messages -> Message]
           /\ msg'[m].stage = s
           /\ msg'[m].client = msg[m].client /\ msg'[m].uid = msg[m].uid
           /\ msg'[m].op = msg[m].op
           /\ \A n \in Messages \ {m} : msg'[n] = msg[n]
<1>1. msg[m] \in Message /\ msg \in [Messages -> Message]
  BY DEF TypeOK
<1>2. msg'[m] = [msg[m] EXCEPT !.stage = s] /\ \A n \in Messages \ {m} : msg'[n] = msg[n]
  BY <1>1 DEF Goto
<1>3. msg' \in [Messages -> Message]
  BY <1>1 DEF Goto, Message, Stages
<1> QED
  BY <1>1, <1>2, <1>3 DEF Message

\* The step of a handler that has read a payload.
ReadsPayload(m) == msg' = [msg EXCEPT ![m] = [@ EXCEPT !.stage = "read", !.data = items]]

\* It moves m on to "read" and leaves the other messages alone.
LEMMA ReadType ==
    ASSUME TypeOK, NEW m \in Messages, ReadsPayload(m)
    PROVE  /\ msg' \in [Messages -> Message]
           /\ msg'[m].stage = "read"
           /\ msg'[m].client = msg[m].client /\ msg'[m].uid = msg[m].uid
           /\ msg'[m].op = msg[m].op
           /\ \A n \in Messages \ {m} : msg'[n] = msg[n]
<1>1. msg[m] \in Message /\ msg \in [Messages -> Message] /\ items \in Nat
  BY DEF TypeOK
<1>2. /\ msg'[m] = [msg[m] EXCEPT !.stage = "read", !.data = items]
      /\ \A n \in Messages \ {m} : msg'[n] = msg[n]
  BY <1>1 DEF ReadsPayload
<1>3. msg'[m] \in Message
  BY <1>1, <1>2 DEF Message
<1>4. msg' \in [Messages -> Message]
  BY <1>1, <1>3 DEF ReadsPayload
<1> QED
  BY <1>1, <1>2, <1>4 DEF Message

\* What dispatch() goes on with is a run of it.
LEMMA GoOnType ==
    ASSUME TypeOK, NEW d \in dispatches, NEW visited \in SUBSET Messages, GoOn(d, visited)
    PROVE  /\ dispatches' \subseteq Dispatch
           /\ gap' \subseteq Messages
           /\ \A e \in dispatches' : e \in dispatches \/ e.current \in subs \ visited
<1>1. d \in Dispatch /\ dispatches \subseteq Dispatch /\ gap \subseteq Messages
      /\ subs \subseteq Messages
  BY DEF TypeOK
<1>2. ASSUME NEW m \in subs \ visited
      PROVE  LET e == [d EXCEPT !.stage = "reading", !.visited = visited, !.current = m, !.data = 0]
             IN  e \in Dispatch /\ e.current = m
  BY <1>1 DEF Dispatch
<1> QED
  BY <1>1, <1>2 DEF GoOn, Becomes, Passes, Unaware

\* What is sent is appended to the log of one subscription, or of none.
LEMMA SendType ==
    ASSUME TypeOK, NEW m, NEW kind \in Kinds, NEW data \in Nat, Send(m, kind, data)
    PROVE  /\ log' \in [Messages -> Seq([kind : Kinds, data : Nat])]
           /\ m \in Messages => log'[m] = Append(log[m], [kind |-> kind, data |-> data])
           /\ \A n \in Messages \ {m} : log'[n] = log[n]
<1> DEFINE Entries == [kind : Kinds, data : Nat]
<1>1. log \in [Messages -> Seq(Entries)]
  BY DEF TypeOK, Kinds
<1>2. [kind |-> kind, data |-> data] \in Entries
  OBVIOUS
<1> HIDE DEF Entries
<1>3. \A n \in Messages :
        log'[n] = IF n = m THEN Append(log[n], [kind |-> kind, data |-> data]) ELSE log[n]
  BY <1>1 DEF Send
<1>4. \A n \in Messages : Append(log[n], [kind |-> kind, data |-> data]) \in Seq(Entries)
  BY <1>1, <1>2
<1>5. log' = [n \in Messages |-> log'[n]]
  BY <1>1 DEF Send
<1>6. \A n \in Messages : log'[n] \in Seq(Entries)
  BY <1>1, <1>3, <1>4
<1>7. log' \in [Messages -> Seq(Entries)]
  BY <1>5, <1>6
<1> QED
  BY <1>3, <1>7 DEF Entries

\* Only a subscribe has awaits of its own, so that what is registered is one.
Subscribes == \A m \in Messages :
    msg[m].stage \in {"schema", "reading", "read"} => msg[m].op = "subscribe"

\* A run of dispatch() that is past its first await is at a subscription.
Runs == \A d \in dispatches : d.stage # "schema" => d.current \in Messages

TypeInv == TypeOK /\ Subscribes /\ Runs

\* Every variable keeps its type.
LEMMA TypeStep ==
    ASSUME TypeInv, [Next]_vars
    PROVE  TypeInv'
<1>0. TypeOK /\ Subscribes /\ Runs
  BY DEF TypeInv
<1> USE <1>0
<1>1. ASSUME NEW m \in Messages,
             msg' \in [Messages -> Message],
             msg'[m].op = msg[m].op,
             msg[m].stage # "done",
             \A n \in Messages \ {m} : msg'[n] = msg[n],
             subs' \subseteq subs \cup {m},
             m \in subs' => msg[m].op = "subscribe" /\ msg'[m].stage = "done",
             msg'[m].stage \in {"schema", "reading", "read"} => msg[m].op = "subscribe"
      PROVE  /\ subs' \subseteq {n \in Messages : msg'[n].op = "subscribe" /\ msg'[n].stage = "done"}
             /\ Subscribes'
  BY <1>1 DEF TypeOK, Subscribes
<1>2. ASSUME NEW c \in Clients, Connect(c) PROVE TypeInv'
  BY <1>2 DEF TypeInv, Runs, TypeOK, Subscribes, Connect, CheckClients, historyVars
<1>3. ASSUME NEW c \in Clients, Close(c) PROVE TypeInv'
  <2>1. subs' \subseteq subs
    BY <1>3, UnsubscribeRemoves DEF Close
  <2>2. Subscribes'
    BY <1>3 DEF Close, Subscribes
  <2> QED
    BY <1>3, <2>1, <2>2 DEF TypeInv, Runs, TypeOK, Close, CheckClients, historyVars
<1>4. ASSUME NEW m \in Messages, NEW c \in Clients, NEW op \in {"subscribe", "unsubscribe"},
             NEW uid \in OptUid, Receive(m, c, op, uid)
      PROVE  TypeInv'
  <2>1. /\ msg' \in [Messages -> Message]
        /\ msg'[m].stage = "received"
        /\ \A n \in Messages \ {m} : msg'[n] = msg[n]
    BY <1>4 DEF TypeOK, Receive, Message
  <2>2. m \notin subs
    BY <1>4 DEF TypeOK, Receive, At
  <2>3. subs' \subseteq {n \in Messages : msg'[n].op = "subscribe" /\ msg'[n].stage = "done"}
    BY <1>4, <2>1, <2>2 DEF TypeOK, Receive
  <2>4. Subscribes'
    BY <2>1 DEF Subscribes
  <2> QED
    BY <1>4, <2>1, <2>3, <2>4 DEF TypeInv, Runs, TypeOK, Receive, heartVars, historyVars
<1>5. ASSUME NEW m \in Messages, Handle(m) PROVE TypeInv'
  <2>1. PICK s \in {"schema", "done"} : Goto(m, s) /\ (s = "schema" => msg[m].op = "subscribe")
    BY <1>5 DEF Handle
  <2>2. subs' \subseteq subs
    BY <1>5, UnsubscribeRemoves DEF Handle
  <2>3. msg[m].stage # "done" /\ m \notin subs
    BY <1>5 DEF Handle, At, TypeOK
  <2>4. /\ msg' \in [Messages -> Message] /\ msg'[m].op = msg[m].op /\ msg'[m].stage = s
        /\ \A n \in Messages \ {m} : msg'[n] = msg[n]
    BY <2>1, GotoType DEF Stages
  <2>5. /\ subs' \subseteq {n \in Messages : msg'[n].op = "subscribe" /\ msg'[n].stage = "done"}
        /\ Subscribes'
    BY <1>1, <2>1, <2>2, <2>3, <2>4
  <2> QED
    BY <1>5, <2>4, <2>5 DEF TypeInv, Runs, TypeOK, Handle, Answers, historyVars
<1>6. ASSUME NEW m \in Messages, Prepare(m) PROVE TypeInv'
  <2>1. Goto(m, "reading") /\ msg[m].stage = "schema" /\ m \notin subs
    BY <1>6 DEF Prepare, At, TypeOK
  <2>2. subs' \subseteq subs
    BY <1>6, UnsubscribeRemoves DEF Prepare
  <2>3. /\ msg' \in [Messages -> Message] /\ msg'[m].op = msg[m].op
        /\ \A n \in Messages \ {m} : msg'[n] = msg[n]
    BY <2>1, GotoType DEF Stages
  <2>4. msg[m].op = "subscribe"
    BY <2>1 DEF Subscribes
  <2>5. /\ subs' \subseteq {n \in Messages : msg'[n].op = "subscribe" /\ msg'[n].stage = "done"}
        /\ Subscribes'
    BY <1>1, <2>1, <2>2, <2>3, <2>4
  <2> QED
    BY <1>6, <2>3, <2>5 DEF TypeInv, Runs, TypeOK, Prepare, heartVars, historyVars
<1>8. ASSUME NEW m \in Messages, Reject(m) PROVE TypeInv'
  <2>1. Goto(m, "done") /\ msg[m].stage = "schema" /\ subs' = subs /\ m \notin subs
    BY <1>8 DEF Reject, At, TypeOK
  <2>2. /\ msg' \in [Messages -> Message] /\ msg'[m].op = msg[m].op /\ msg'[m].stage = "done"
        /\ \A n \in Messages \ {m} : msg'[n] = msg[n]
    BY <2>1, GotoType DEF Stages
  <2>3. /\ subs' \subseteq {n \in Messages : msg'[n].op = "subscribe" /\ msg'[n].stage = "done"}
        /\ Subscribes'
    BY <1>1, <2>1, <2>2
  <2> QED
    BY <1>8, <2>2, <2>3 DEF TypeInv, Runs, TypeOK, Reject, heartVars, historyVars
<1>7. ASSUME NEW m \in Messages, ReadItems(m) PROVE TypeInv'
  <2>1. ReadsPayload(m) \/ Goto(m, "done")
    BY <1>7 DEF ReadItems, ReadsPayload
  <2>2. /\ msg' \in [Messages -> Message] /\ msg'[m].op = msg[m].op
        /\ \A n \in Messages \ {m} : msg'[n] = msg[n]
    BY <2>1, GotoType, ReadType DEF Stages
  <2>3. subs' = subs /\ msg[m].stage = "reading" /\ m \notin subs
    BY <1>7 DEF ReadItems, At, TypeOK
  <2>4. msg[m].op = "subscribe"
    BY <2>3 DEF Subscribes
  <2>5. /\ subs' \subseteq {n \in Messages : msg'[n].op = "subscribe" /\ msg'[n].stage = "done"}
        /\ Subscribes'
    BY <1>1, <2>2, <2>3, <2>4
  <2> QED
    BY <1>7, <2>2, <2>5 DEF TypeInv, Runs, TypeOK, ReadItems, heartVars, historyVars
<1>9. ASSUME NEW m \in Messages, Register(m) PROVE TypeInv'
  <2>1. Goto(m, "done") /\ msg[m].stage = "read" /\ subs' = subs \cup {m}
    BY <1>9 DEF Register, At
  <2>2. /\ msg' \in [Messages -> Message] /\ msg'[m].op = msg[m].op /\ msg'[m].stage = "done"
        /\ \A n \in Messages \ {m} : msg'[n] = msg[n]
    BY <2>1, GotoType DEF Stages
  <2>3. msg[m].op = "subscribe" /\ msg[m].data \in Nat
    BY <2>1 DEF Subscribes, TypeOK, Message
  <2>4. /\ subs' \subseteq {n \in Messages : msg'[n].op = "subscribe" /\ msg'[n].stage = "done"}
        /\ Subscribes'
    BY <1>1, <2>1, <2>2, <2>3
  <2>5. log' \in [Messages -> Seq([kind : Kinds, data : Nat])]
    BY <1>9, <2>3, SendType DEF Register, Kinds
  <2>6. late' \subseteq Messages /\ others' \in [Messages -> SUBSET Messages]
    BY <1>9 DEF Register, TypeOK
  <2> QED
    BY <1>9, <2>2, <2>4, <2>5, <2>6 DEF TypeInv, Runs, TypeOK, Register, heartVars, Kinds
<1>10. CASE Change
  <2>1. items' \in Nat /\ events' \in Seq(Nat)
    BY <1>10 DEF Change, TypeOK
  <2> QED
    BY <1>10, <2>1 DEF TypeInv, Runs, TypeOK, Subscribes, Change, heartVars
<1>11. CASE Deliver
  <2>1. Head(events) \in Nat /\ events' \in Seq(Nat)
    BY <1>11 DEF Deliver, TypeOK
  <2>2. dispatches' \subseteq Dispatch
    BY <1>11, <2>1 DEF Deliver, TypeOK, Dispatch
  <2>4. Runs'
    BY <1>11 DEF Deliver, Runs
  <2>3. gap' \subseteq Messages
    BY <1>11 DEF Deliver, Passes, Unaware, TypeOK
  <2> QED
    BY <1>11, <2>1, <2>2, <2>3, <2>4 DEF TypeInv, TypeOK, Subscribes, Deliver, heartVars
<1>12. ASSUME NEW d \in dispatches, GotSchema(d) PROVE TypeInv'
  <2>1. dispatches' \subseteq Dispatch /\ gap' \subseteq Messages /\ Runs'
    BY <1>12, GoOnType DEF GotSchema, Runs, TypeOK
  <2> QED
    BY <1>12, <2>1 DEF TypeInv, TypeOK, Subscribes, GotSchema, heartVars
<1>18. ASSUME NEW d \in dispatches, NoSchema(d) PROVE TypeInv'
  <2>1. dispatches' \subseteq Dispatch /\ Runs'
    BY <1>18 DEF NoSchema, Runs, TypeOK
  <2>2. gap' \subseteq Messages
    BY <1>18 DEF NoSchema, Passes, Unaware, TypeOK
  <2>3. faults' \in 0..MaxFaults
    BY <1>18, BoundAssumption DEF NoSchema, TypeOK
  <2> QED
    BY <1>18, <2>1, <2>2, <2>3 DEF TypeInv, TypeOK, Subscribes, NoSchema, heartVars
<1>13. ASSUME NEW d \in dispatches, ReadEvent(d) PROVE TypeInv'
  <2>1. [d EXCEPT !.stage = "read", !.data = items] \in Dispatch
    BY DEF TypeOK, Dispatch
  <2>2. dispatches' \subseteq Dispatch
    BY <1>13, <2>1 DEF ReadEvent, Becomes, TypeOK
  <2>3. Runs'
    BY <1>13 DEF ReadEvent, Becomes, Runs, TypeOK, Dispatch
  <2> QED
    BY <1>13, <2>2, <2>3 DEF TypeInv, TypeOK, Subscribes, ReadEvent, heartVars, historyVars
<1>14. ASSUME NEW d \in dispatches, Refuse(d) PROVE TypeInv'
  <2>1. d.event \in Nat /\ d.visited \cup {d.current} \subseteq Messages
    BY <1>14 DEF TypeOK, Dispatch, Refuse, Runs
  <2>2. log' \in [Messages -> Seq([kind : Kinds, data : Nat])]
    BY <1>14, <2>1, SendType DEF Refuse, Kinds
  <2>3. dispatches' \subseteq Dispatch /\ gap' \subseteq Messages /\ Runs'
    BY <1>14, <2>1, GoOnType DEF Refuse, Runs, TypeOK
  <2>4. faults' \in 0..MaxFaults
    BY <1>14, BoundAssumption DEF Refuse, TypeOK
  <2> QED
    BY <1>14, <2>2, <2>3, <2>4 DEF TypeInv, TypeOK, Subscribes, Refuse, heartVars, Kinds
<1>15. ASSUME NEW d \in dispatches, SendEvent(d) PROVE TypeInv'
  <2>1. d.data \in Nat /\ d.visited \cup {d.current} \subseteq Messages
    BY <1>15 DEF TypeOK, Dispatch, SendEvent, Runs
  <2>2. log' \in [Messages -> Seq([kind : Kinds, data : Nat])]
    BY <1>15, <2>1, SendType DEF SendEvent, Kinds
  <2>3. dispatches' \subseteq Dispatch /\ gap' \subseteq Messages /\ Runs'
    BY <1>15, <2>1, GoOnType DEF SendEvent, Runs, TypeOK
  <2> QED
    BY <1>15, <2>2, <2>3 DEF TypeInv, TypeOK, Subscribes, SendEvent, heartVars, Kinds
<1>16. CASE PingClients \/ Timeout
  BY <1>16 DEF TypeInv, Runs, TypeOK, Subscribes, PingClients, Timeout, Open, historyVars
<1>17. CASE UNCHANGED vars
  BY <1>17 DEF TypeInv, Runs, TypeOK, Subscribes, vars, heartVars, historyVars
<1> QED
  BY <1>2, <1>3, <1>4, <1>5, <1>6, <1>7, <1>8, <1>9, <1>10, <1>11, <1>12, <1>13, <1>14, <1>15,
     <1>16, <1>17, <1>18 DEF Next, Talk, Dispatching

\* Nothing has been received, registered or dispatched at first.
LEMMA TypeInit == Init => TypeInv
<1> SUFFICES ASSUME Init PROVE TypeInv
  OBVIOUS
<1>1. msg \in [Messages -> Message]
  BY DEF Init, Message, OptUid
<1>2. /\ <<>> \in Seq(Nat) /\ <<>> \in Seq([kind : {"init", "event", "error"}, data : Nat])
      /\ 0 \in 0..MaxFaults
  BY BoundAssumption
<1> QED
  BY <1>1, <1>2 DEF Init, TypeInv, TypeOK, Subscribes, Runs

\* Every variable keeps its type, for every value of the constants.
THEOREM TypeCorrect == Spec => []TypeOK
<1>1. TypeInv => TypeOK
  BY DEF TypeInv
<1> QED
  BY <1>1, TypeInit, TypeStep, PTL DEF Spec

-----------------------------------------------------------------------------
(* What a step leaves alone.                                                 *)

\* A message that has arrived keeps its client and uid, is registered by
\* Register and by nothing else, reads after Prepare, and stays done.
LEMMA Frame ==
    ASSUME TypeInv, [Next]_vars, NEW m \in Messages
    PROVE  /\ msg[m].stage # "unsent" =>
                 /\ msg'[m].stage # "unsent"
                 /\ msg'[m].client = msg[m].client /\ msg'[m].uid = msg[m].uid
           /\ msg[m].stage = "unsent" /\ msg'[m].stage # "unsent" => msg'[m].client \in Clients
           /\ msg[m].stage = "done" => msg'[m].stage = "done"
           /\ msg'[m].stage \in {"reading", "read"} =>
                 msg[m].stage \in {"reading", "read"} \/ Prepare(m)
           /\ m \in subs' => m \in subs \/ Register(m)
           /\ others'[m] = others[m] \/ Register(m)
<1> DEFINE Framed ==
        /\ msg[m].stage # "unsent" =>
              /\ msg'[m].stage # "unsent"
              /\ msg'[m].client = msg[m].client /\ msg'[m].uid = msg[m].uid
        /\ msg[m].stage = "unsent" /\ msg'[m].stage # "unsent" => msg'[m].client \in Clients
        /\ msg[m].stage = "done" => msg'[m].stage = "done"
        /\ msg'[m].stage \in {"reading", "read"} =>
              msg[m].stage \in {"reading", "read"} \/ Prepare(m)
        /\ m \in subs' => m \in subs \/ Register(m)
        /\ others'[m] = others[m] \/ Register(m)
<1> SUFFICES Framed
  OBVIOUS
<1>0. TypeOK
  BY DEF TypeInv
<1>1. ASSUME msg' = msg, subs' \subseteq subs, others' = others PROVE Framed
  BY <1>1
<1>2. ASSUME NEW c \in Clients, Connect(c) \/ Close(c) PROVE Framed
  <2>1. subs' \subseteq subs
    BY <1>2, UnsubscribeRemoves DEF Connect, Close
  <2> QED
    BY <1>1, <1>2, <2>1 DEF Connect, Close, historyVars
<1>3. ASSUME NEW n \in Messages, NEW c \in Clients, NEW op \in {"subscribe", "unsubscribe"},
             NEW uid \in OptUid, Receive(n, c, op, uid)
      PROVE  Framed
  BY <1>0, <1>3 DEF Receive, At, TypeOK, historyVars
<1>4. ASSUME NEW n \in Messages, NEW s \in Stages \ {"unsent"}, Goto(n, s),
             msg[n].stage \notin {"unsent", "done"}, s # "reading" \/ Prepare(n), s # "read",
             subs' \subseteq subs \/ (Register(n) /\ subs' = subs \cup {n}),
             Register(n) \/ others' = others,
             \A o \in Messages \ {n} : others'[o] = others[o]
      PROVE  Framed
  <2>1. CASE n = m
    BY <1>0, <1>4, <2>1, GotoType
  <2>2. CASE n # m
    <3>1. msg'[m] = msg[m]
      BY <1>0, <1>4, <2>2, GotoType
    <3> QED
      BY <1>4, <2>2, <3>1
  <2> QED
    BY <2>1, <2>2
<1>5. ASSUME NEW n \in Messages, Handle(n) PROVE Framed
  <2>1. subs' \subseteq subs
    BY <1>5, UnsubscribeRemoves DEF Handle
  <2> QED
    BY <1>4, <1>5, <2>1 DEF Handle, At, Stages, historyVars
<1>6. ASSUME NEW n \in Messages, Prepare(n) PROVE Framed
  <2>1. subs' \subseteq subs
    BY <1>6, UnsubscribeRemoves DEF Prepare
  <2>2. Goto(n, "reading") /\ msg[n].stage = "schema" /\ others' = others
    BY <1>6 DEF Prepare, At, historyVars
  <2> QED
    BY <1>4, <1>6, <2>1, <2>2 DEF Stages
<1>11. ASSUME NEW n \in Messages, Reject(n) PROVE Framed
  BY <1>4, <1>11 DEF Reject, At, Stages, historyVars
<1>7. ASSUME NEW n \in Messages, ReadItems(n) PROVE Framed
  <2>1. msg[n].stage = "reading" /\ subs' = subs /\ others' = others
    BY <1>7 DEF ReadItems, At, historyVars
  <2>2. CASE Goto(n, "done")
    BY <1>4, <2>1, <2>2 DEF Stages
  <2>3. CASE ReadsPayload(n)
    <3>1. CASE n = m
      BY <1>0, <2>1, <2>3, <3>1, ReadType
    <3>2. CASE n # m
      <4>1. msg'[m] = msg[m]
        BY <1>0, <2>3, <3>2, ReadType
      <4> QED
        BY <2>1, <4>1
    <3> QED
      BY <3>1, <3>2
  <2> QED
    BY <1>7, <2>2, <2>3 DEF ReadItems, ReadsPayload
<1>8. ASSUME NEW n \in Messages, Register(n) PROVE Framed
  <2>1. Goto(n, "done") /\ msg[n].stage = "read" /\ subs' = subs \cup {n}
    BY <1>8 DEF Register, At
  <2>2. \A o \in Messages \ {n} : others'[o] = others[o]
    BY <1>0, <1>8 DEF Register, TypeOK
  <2> QED
    BY <1>4, <1>8, <2>1, <2>2 DEF Stages
<1>9. CASE Change \/ Deliver \/ PingClients \/ Timeout \/ UNCHANGED vars
  BY <1>1, <1>9 DEF Change, Deliver, PingClients, Timeout, vars, historyVars
<1>10. ASSUME NEW d \in dispatches, Dispatching(d) PROVE Framed
  BY <1>1, <1>10 DEF Dispatching, GotSchema, NoSchema, ReadEvent, Refuse, SendEvent, historyVars
<1> QED
  BY <1>2, <1>3, <1>5, <1>6, <1>7, <1>8, <1>9, <1>10, <1>11 DEF Next, Talk

-----------------------------------------------------------------------------
(* Closed connections.                                                       *)

\* A message that has arrived is of a connection.
FromClients == \A m \in Messages : msg[m].stage # "unsent" => msg[m].client \in Clients

ClosedInv == TypeInv /\ FromClients /\ ClosedIsRemoved

\* Every step leaves a closed connection without subscriptions, but for those
\* that are registered after it: Close removes all there are.
LEMMA ClosedStep ==
    ASSUME ClosedInv, [Next]_vars
    PROVE  ClosedInv'
<1>0. TypeInv /\ TypeOK /\ subs \subseteq Messages
  BY DEF ClosedInv, TypeInv, TypeOK
<1>a. TypeInv' /\ FromClients'
  BY <1>0, Frame, TypeStep DEF ClosedInv, FromClients
<1> SUFFICES ASSUME NEW m \in subs', conn'[msg'[m].client] = "closed" PROVE m \in late'
  BY <1>a DEF ClosedInv, ClosedIsRemoved
<1>1. m \in Messages
  BY TypeStep, <1>0 DEF TypeInv, TypeOK
<1>2. CASE Register(m)
  <2>1. msg'[m].client = msg[m].client /\ conn' = conn
    BY <1>0, <1>1, <1>2, GotoType DEF Register, Stages
  <2> QED
    BY <1>2, <2>1 DEF Register
<1>3. CASE m \in subs
  <2>1. msg[m].stage # "unsent"
    BY <1>3 DEF ClosedInv, TypeInv, TypeOK
  <2>2. msg'[m].client = msg[m].client
    BY <1>0, <1>1, <2>1, Frame
  <2>3. late \subseteq late'
    BY DEF Next, Talk, Dispatching, Connect, Close, Receive, Handle, Reject, Prepare, ReadItems,
       Register, Change, Deliver, GotSchema, NoSchema, ReadEvent, Refuse, SendEvent, PingClients, Timeout, historyVars,
       vars
  <2>4. CASE conn[msg[m].client] = "closed"
    BY <1>3, <2>3, <2>4 DEF ClosedInv, ClosedIsRemoved
  <2>5. CASE conn[msg[m].client] # "closed"
    <3>1. PICK c \in Clients : Close(c) /\ c = msg[m].client
      <4>1. conn' # conn
        BY <2>2, <2>5
      <4>2. (\E c \in Clients : Connect(c) \/ Close(c)) \/ Timeout
        BY <4>1 DEF Next, Talk, Dispatching, Receive, Handle, Reject, Prepare, ReadItems, Register,
           Change, Deliver, GotSchema, NoSchema, ReadEvent, Refuse, SendEvent, PingClients, vars
      <4>3. conn \in [Clients -> {"none", "open", "closing", "closed"}]
        BY <1>0 DEF TypeOK
      <4>4. ASSUME NEW c \in Clients, Connect(c) PROVE FALSE
        BY <2>2, <2>5, <4>3, <4>4 DEF Connect
      <4>5. ASSUME Timeout PROVE FALSE
        <5>1. conn' = [c \in Clients |-> IF c \in pending \cap Open THEN "closing" ELSE conn[c]]
          BY <4>5 DEF Timeout
        <5>2. msg[m].client \in Clients
          BY <1>1, <2>1 DEF ClosedInv, FromClients
        <5> QED
          BY <2>2, <2>5, <5>1, <5>2
      <4>6. ASSUME NEW c \in Clients, Close(c), c # msg[m].client PROVE FALSE
        BY <2>2, <2>5, <4>3, <4>6 DEF Close
      <4> QED
        BY <4>2, <4>4, <4>5, <4>6
    <3>2. subs' = subs \ Of(c)
      BY <3>1 DEF Close, Unsubscribe
    <3>3. m \in Of(c)
      BY <1>3, <3>1 DEF Of
    <3> QED
      BY <3>2, <3>3
  <2> QED
    BY <2>4, <2>5
<1> QED
  BY <1>0, <1>1, <1>2, <1>3, Frame

\* A closed connection has a subscription only where one was registered after
\* the connection had closed.
THEOREM ClosedAreRemoved == Spec => []ClosedIsRemoved
<1>1. Init => ClosedInv
  BY TypeInit DEF ClosedInv, FromClients, ClosedIsRemoved, Init
<1>2. ClosedInv => ClosedIsRemoved
  BY DEF ClosedInv
<1> QED
  BY <1>1, <1>2, ClosedStep, PTL DEF Spec

-----------------------------------------------------------------------------
(* The first message of a subscription.                                      *)

\* What is registered, or is visited by dispatch(), has been answered.
HeardInv ==
    /\ TypeInv
    /\ InitFirst
    /\ \A m \in subs : log[m] # <<>>
    /\ \A d \in dispatches : d.stage # "schema" => log[d.current] # <<>>

\* What is sent leaves the first message as it is, and makes one where none was.
LEMMA SendKeepsFirst ==
    ASSUME TypeOK, NEW m \in Messages, NEW kind \in Kinds, NEW data \in Nat, Send(m, kind, data)
    PROVE  /\ log'[m] # <<>>
           /\ log[m] = <<>> => Head(log'[m]).kind = kind
           /\ log[m] # <<>> => Head(log'[m]) = Head(log[m])
           /\ \A n \in Messages \ {m} : log'[n] = log[n]
<1> DEFINE Entries == [kind : Kinds, data : Nat]
           e == [kind |-> kind, data |-> data]
<1>1. log'[m] = Append(log[m], e) /\ \A n \in Messages \ {m} : log'[n] = log[n]
  BY SendType
<1>2. log[m] \in Seq(Entries) /\ e \in Entries /\ e.kind = kind
  BY DEF TypeOK, Kinds
<1> HIDE DEF Entries, e
<1>3. /\ Append(log[m], e) # <<>>
      /\ log[m] = <<>> => Head(Append(log[m], e)) = e
      /\ log[m] # <<>> => Head(Append(log[m], e)) = Head(log[m])
  <2> DEFINE l == log[m]
             a == Append(l, e)
  <2>1. /\ l \in Seq(Entries) /\ a \in Seq(Entries)
        /\ Len(l) \in Nat /\ Len(a) = Len(l) + 1
        /\ \A i \in 1..Len(l) : a[i] = l[i]
        /\ a[Len(l) + 1] = e
    BY <1>2
  <2> HIDE DEF l, a
  <2>2. a # <<>> /\ Head(a) = a[1]
    BY <2>1
  <2>3. l = <<>> => Head(a) = e
    BY <2>1, <2>2
  <2>4. l # <<>> => Head(a) = Head(l)
    <3>1. SUFFICES ASSUME l # <<>> PROVE Head(a) = Head(l)
      OBVIOUS
    <3>2. Len(l) >= 1 /\ Head(l) = l[1]
      BY <2>1, <3>1
    <3> QED
      BY <2>1, <2>2, <3>2
  <2> QED
    BY <2>2, <2>3, <2>4 DEF l, a
<1> QED
  BY <1>1, <1>2, <1>3

\* Every step keeps it so: Register answers what it registers in the same step,
\* and events are for what is registered.
LEMMA HeardStep ==
    ASSUME HeardInv, [Next]_vars
    PROVE  HeardInv'
<1>0. TypeInv /\ TypeInv' /\ TypeOK /\ Runs /\ subs \subseteq Messages
  BY TypeStep DEF HeardInv, TypeInv, TypeOK
<1>1. ASSUME log' = log, subs' \subseteq subs,
             \A e \in dispatches' : e.stage # "schema" => log[e.current] # <<>>
      PROVE  HeardInv'
  BY <1>0, <1>1 DEF HeardInv, InitFirst
<1>2. ASSUME NEW d \in dispatches, NEW visited \in SUBSET Messages, GoOn(d, visited),
             NEW e \in dispatches', e.stage # "schema"
      PROVE  e.current \in Messages /\ log[e.current] # <<>>
  <2>1. e \in dispatches \/ e.current \in subs
    BY <1>0, <1>2, GoOnType
  <2> QED
    BY <1>0, <1>2, <2>1 DEF HeardInv, Runs
<1>3. ASSUME NEW m \in Messages, NEW kind \in Kinds, NEW data \in Nat, Send(m, kind, data),
             kind = "init" \/ log[m] # <<>>,
             subs' \subseteq subs \cup {m},
             \A e \in dispatches' : e.stage # "schema" =>
                 e.current \in Messages /\ log[e.current] # <<>>
      PROVE  HeardInv'
  <2>1. /\ log'[m] # <<>>
        /\ log[m] = <<>> => Head(log'[m]).kind = kind
        /\ log[m] # <<>> => Head(log'[m]) = Head(log[m])
        /\ \A n \in Messages \ {m} : log'[n] = log[n]
    BY <1>0, <1>3, SendKeepsFirst
  <2>2. InitFirst'
    BY <1>3, <2>1 DEF HeardInv, InitFirst
  <2>3. \A n \in subs' : log'[n] # <<>>
    BY <1>0, <1>3, <2>1 DEF HeardInv
  <2>4. \A e \in dispatches' : e.stage # "schema" => log'[e.current] # <<>>
    BY <1>3, <2>1
  <2> QED
    BY <1>0, <2>2, <2>3, <2>4 DEF HeardInv
<1>4. ASSUME NEW c \in Clients, Connect(c) \/ Close(c) PROVE HeardInv'
  <2>1. subs' \subseteq subs
    BY <1>4, UnsubscribeRemoves DEF Connect, Close
  <2> QED
    BY <1>1, <1>4, <2>1 DEF Connect, Close, HeardInv
<1>5. ASSUME NEW m \in Messages, Handle(m) \/ Reject(m) \/ Prepare(m) \/ ReadItems(m)
      PROVE  HeardInv'
  <2>1. subs' \subseteq subs
    BY <1>5, UnsubscribeRemoves DEF Handle, Reject, Prepare, ReadItems
  <2> QED
    BY <1>1, <1>5, <2>1 DEF Handle, Reject, Prepare, ReadItems, HeardInv
<1>6. ASSUME NEW m \in Messages, Register(m) PROVE HeardInv'
  <2>1. msg[m].data \in Nat
    BY <1>0 DEF TypeOK, Message
  <2>2. \A e \in dispatches : e.stage # "schema" => e.current \in Messages /\ log[e.current] # <<>>
    BY <1>0 DEF HeardInv, Runs
  <2> QED
    BY <1>3, <1>6, <2>1, <2>2 DEF Register, Kinds
<1>7. ASSUME NEW m \in Messages, NEW c \in Clients, NEW op, NEW uid, Receive(m, c, op, uid)
      PROVE  HeardInv'
  BY <1>1, <1>7 DEF Receive, HeardInv
<1>8. CASE Change \/ PingClients \/ Timeout \/ UNCHANGED vars
  BY <1>1, <1>8 DEF Change, PingClients, Timeout, vars, HeardInv
<1>9. CASE Deliver
  <2>1. \A e \in dispatches' : e \in dispatches \/ e.stage = "schema"
    BY <1>9 DEF Deliver
  <2> QED
    BY <1>1, <1>9, <2>1 DEF Deliver, HeardInv
<1>10. ASSUME NEW d \in dispatches, GotSchema(d) PROVE HeardInv'
  <2>1. GoOn(d, {}) /\ log' = log /\ subs' = subs
    BY <1>10 DEF GotSchema
  <2> QED
    BY <1>1, <1>2, <2>1
<1>14. ASSUME NEW d \in dispatches, NoSchema(d) PROVE HeardInv'
  <2>1. dispatches' \subseteq dispatches /\ log' = log /\ subs' = subs
    BY <1>14 DEF NoSchema
  <2> QED
    BY <1>1, <2>1 DEF HeardInv
<1>11. ASSUME NEW d \in dispatches, ReadEvent(d) PROVE HeardInv'
  <2>1. \A e \in dispatches' : e \in dispatches \/ e.current = d.current
    BY <1>0, <1>11 DEF ReadEvent, Becomes, TypeOK, Dispatch
  <2> QED
    BY <1>1, <1>11, <2>1 DEF ReadEvent, HeardInv
<1>12. ASSUME NEW d \in dispatches, d.stage # "schema" PROVE
             /\ d.current \in Messages /\ log[d.current] # <<>> /\ d.event \in Nat /\ d.data \in Nat
             /\ d.visited \cup {d.current} \in SUBSET Messages
  BY <1>0, <1>12 DEF HeardInv, Runs, TypeOK, Dispatch
<1>13. ASSUME NEW d \in dispatches, Refuse(d) \/ SendEvent(d) PROVE HeardInv'
  <2>1. d.stage # "schema" /\ GoOn(d, d.visited \cup {d.current}) /\ subs' = subs
    BY <1>13 DEF Refuse, SendEvent
  <2>2. Send(d.current, "error", d.event) \/ Send(d.current, "event", d.data)
    BY <1>13 DEF Refuse, SendEvent
  <2>3. \A e \in dispatches' : e.stage # "schema" =>
            e.current \in Messages /\ log[e.current] # <<>>
    BY <1>2, <1>12, <2>1
  <2> QED
    BY <1>3, <1>12, <2>1, <2>2, <2>3 DEF Kinds
<1> QED
  BY <1>4, <1>5, <1>6, <1>7, <1>8, <1>9, <1>10, <1>11, <1>13, <1>14 DEF Next, Talk, Dispatching

\* A client hears of a subscription first by the response to its subscribe.
THEOREM FirstIsInit == Spec => []InitFirst
<1>1. Init => HeardInv
  BY TypeInit DEF HeardInv, InitFirst, Init
<1>2. HeardInv => InitFirst
  BY DEF HeardInv
<1> QED
  BY <1>1, <1>2, HeardStep, PTL DEF Spec

-----------------------------------------------------------------------------
(* The uid of a subscription.                                                *)

\* Two subscribes of the name of m were once past unsubscribe() together.
Overlapped(m) == \E o, p \in Messages : SameName(m, o) /\ SameName(m, p) /\ o \in others[p]

\* What was noted at a registration is of messages that had arrived.
Noted == \A p \in Messages : \A o \in others[p] :
    msg[p].stage = "done" /\ msg[o].stage # "unsent"

Named(m) == msg[m].uid # NoUid

\* m is past unsubscribe(): it is registered, or will be unless it is refused.
Claims(m) == m \in subs \/ msg[m].stage \in {"reading", "read"}

\* A subscription of the name of a message that has claimed it was registered
\* while they overlapped.
UidInv ==
    /\ TypeInv
    /\ Noted
    /\ \A m, n \in Messages :
           m # n /\ SameName(m, n) /\ Named(m) /\ n \in subs /\ Claims(m) => Overlapped(m)

\* Messages that have arrived keep their names, so what overlapped has done so
\* ever after.
LEMMA OverlapStays ==
    ASSUME UidInv, [Next]_vars, NEW m \in Messages, msg[m].stage # "unsent", Overlapped(m)
    PROVE  Overlapped(m)'
<1>1. PICK o \in Messages, p \in Messages : SameName(m, o) /\ SameName(m, p) /\ o \in others[p]
  BY DEF Overlapped
<1>2. msg[p].stage = "done" /\ msg[o].stage # "unsent"
  BY <1>1 DEF UidInv, Noted
<1>3. TypeInv
  BY DEF UidInv
<1>4. SameName(m, o)' /\ SameName(m, p)'
  BY <1>1, <1>2, <1>3, Frame DEF SameName
<1>5. others'[p] = others[p]
  BY <1>2, <1>3, Frame DEF Register, At
<1> QED
  BY <1>1, <1>4, <1>5 DEF Overlapped

\* What a registration notes has arrived, and goes on having arrived.
LEMMA NotedStep ==
    ASSUME UidInv, [Next]_vars
    PROVE  Noted'
<1>1. TypeInv /\ TypeOK
  BY DEF UidInv, TypeInv
<1> SUFFICES ASSUME NEW p \in Messages, NEW o \in others'[p]
             PROVE  msg'[p].stage = "done" /\ msg'[o].stage # "unsent"
  BY DEF Noted
<1>2. CASE Register(p)
  <2>1. msg'[p].stage = "done"
    BY <1>1, <1>2, GotoType DEF Register, Stages
  <2>2. o \in Messages /\ msg[o].stage # "unsent"
    BY <1>1, <1>2 DEF Register, At, TypeOK
  <2> QED
    BY <1>1, <2>1, <2>2, Frame
<1>3. CASE others'[p] = others[p]
  <2>1. msg[p].stage = "done" /\ msg[o].stage # "unsent" /\ o \in Messages
    BY <1>1, <1>3 DEF UidInv, Noted, TypeOK
  <2> QED
    BY <1>1, <2>1, Frame
<1> QED
  BY <1>1, <1>2, <1>3, Frame

\* Every step keeps the invariant: a claim removes the subscription there was,
\* and a registration notes the claims there are.
LEMMA UidStep ==
    ASSUME UidInv, [Next]_vars
    PROVE  UidInv'
<1>1. TypeInv /\ TypeOK /\ TypeInv' /\ Noted'
  BY TypeStep, NotedStep DEF UidInv, TypeInv
<1> SUFFICES ASSUME NEW m \in Messages, NEW n \in Messages, m # n, SameName(m, n)',
                    Named(m)', n \in subs', Claims(m)'
             PROVE  Overlapped(m)'
  BY <1>1 DEF UidInv
<1>2. msg[m].stage # "unsent" /\ msg[n].stage # "unsent"
  <2>1. n \in subs \/ msg[n].stage = "read"
    BY <1>1, Frame DEF Register, At
  <2>2. m \in subs \/ msg[m].stage \in {"reading", "read", "schema"}
    BY <1>1, Frame DEF Claims, Register, Prepare, At
  <2> QED
    BY <1>1, <2>1, <2>2 DEF TypeOK
<1>3. SameName(m, n) /\ Named(m) /\ Named(n)
  BY <1>1, <1>2, Frame DEF SameName, Named
<1>4. ASSUME Overlapped(m) \/ Overlapped(n) PROVE Overlapped(m)'
  <2>1. Overlapped(m)
    BY <1>3, <1>4 DEF Overlapped, SameName
  <2> QED
    BY <1>2, <2>1, OverlapStays
<1>5. CASE n \in subs /\ Claims(m)
  BY <1>3, <1>4, <1>5 DEF UidInv
<1>6. CASE n \notin subs
  <2>1. Register(n)
    BY <1>1, <1>6, Frame
  <2>2. msg[n].stage = "read" /\ subs' = subs \cup {n} /\ others' = [others EXCEPT ![n] =
            {o \in Messages \ {n} : At(o, "reading") \/ At(o, "read")}]
    BY <2>1 DEF Register, At
  <2>3. msg'[m] = msg[m]
    BY <1>1, <2>1, GotoType DEF Register, Stages
  <2>4. CASE m \in subs
    <3>1. SameName(n, m) /\ Claims(n)
      BY <1>3, <2>2 DEF SameName, Claims
    <3>2. Overlapped(n)
      BY <1>3, <2>4, <3>1 DEF UidInv
    <3> QED
      BY <1>4, <3>2
  <2>5. CASE m \notin subs
    <3>1. msg[m].stage \in {"reading", "read"}
      BY <2>2, <2>3, <2>5 DEF Claims
    <3>2. m \in others'[n]
      BY <1>1, <2>2, <3>1 DEF At, TypeOK
    <3> QED
      BY <3>2 DEF Overlapped, SameName
  <2> QED
    BY <2>4, <2>5
<1>7. CASE n \in subs /\ ~Claims(m)
  <2>1. Prepare(m)
    <3>1. ~Register(m)
      BY <1>7 DEF Claims, Register, At
    <3> QED
      BY <1>1, <1>7, <3>1, Frame DEF Claims
  <2>2. Unsubscribe(msg[m].client, msg[m].uid)
    BY <1>3, <2>1 DEF Prepare, Named
  <2>3. n \in Of(msg[m].client) /\ msg[n].uid = msg[m].uid
    BY <1>3, <1>7 DEF Of, SameName
  <2>4. PICK r \in Of(msg[m].client) : msg[r].uid = msg[m].uid /\ subs' = subs \ {r}
    BY <1>3, <2>2, <2>3 DEF Unsubscribe, Named
  <2>5. r \in subs /\ r # n /\ SameName(n, r) /\ r \in Messages
    BY <1>1, <1>3, <2>3, <2>4 DEF Of, SameName, TypeOK
  <2>6. Overlapped(n)
    BY <1>3, <1>7, <2>5 DEF UidInv, Claims
  <2> QED
    BY <1>4, <2>6
<1> QED
  BY <1>5, <1>6, <1>7

\* A client has two subscriptions of one uid only where two of its subscribes
\* of that uid were past unsubscribe() at the same time.
THEOREM UidsAreUnique == Spec => []OnePerUid
<1>1. Init => UidInv
  BY TypeInit DEF UidInv, Noted, Init
<1>2. UidInv => OnePerUid
  <2> SUFFICES ASSUME UidInv, NEW m \in subs, NEW n \in subs, m # n, SameName(m, n),
                      msg[m].uid # NoUid
               PROVE  Overlapped(m)
    BY DEF OnePerUid, Overlapped
  <2>1. m \in Messages /\ n \in Messages
    BY DEF UidInv, TypeInv, TypeOK
  <2> QED
    BY <2>1 DEF UidInv, Named, Claims
<1> QED
  BY <1>1, <1>2, UidStep, PTL DEF Spec

-----------------------------------------------------------------------------
(* What subscriptions are sent.                                              *)

\* The event of version e is under way to this process.
Coming(e) == \E i \in DOMAIN events : events[i] = e

\* Nothing is from the future, and dispatch() is or was at what is registered.
RunInv ==
    /\ \A i \in DOMAIN events : events[i] <= items
    /\ \A m \in Messages : msg[m].data <= items
    /\ \A d \in dispatches :
          /\ d.event <= items
          /\ \A n \in d.visited : At(n, "done")
          /\ d.stage # "schema" => At(d.current, "done")
          /\ d.stage = "read" => d.event <= d.data /\ d.data <= items

\* The event of the last change has not come to m yet.
Owed(m) ==
    Coming(items) \/ \E d \in dispatches : d.event = items /\ m \notin d.visited

Heard(m) == \E i \in DOMAIN log[m] : log[m][i].data = items \/ log[m][i].kind = "error"

\* A subscription was sent the items as they are, or the event comes to it.
SubsHear == \A m \in subs \ gap : Heard(m) \/ Owed(m)

\* So it will be of one whose payload is read, when it is registered.
ReadsHear == \A m \in Messages \ gap : At(m, "read") => msg[m].data = items \/ Owed(m)

CatchInv == TypeInv /\ RunInv /\ SubsHear /\ ReadsHear

\* What changes the items, the events, the runs of dispatch() and the logs.
LEMMA Changes ==
    ASSUME [Next]_vars
    PROVE  /\ items' = items \/ Change
           /\ events' = events \/ Change \/ Deliver
           /\ dispatches' = dispatches \/ Deliver \/ \E d \in dispatches : Dispatching(d)
           /\ log' = log \/ (\E m \in Messages : Register(m)) \/ \E d \in dispatches : Dispatching(d)
           /\ gap \subseteq gap' \/ Change
<1> DEFINE Changed ==
        /\ items' = items \/ Change
        /\ events' = events \/ Change \/ Deliver
        /\ dispatches' = dispatches \/ Deliver \/ \E d \in dispatches : Dispatching(d)
        /\ log' = log \/ (\E m \in Messages : Register(m)) \/ \E d \in dispatches : Dispatching(d)
        /\ gap \subseteq gap' \/ Change
<1> SUFFICES Changed
  OBVIOUS
<1>1. ASSUME NEW c \in Clients, Connect(c) \/ Close(c) PROVE Changed
  BY <1>1 DEF Connect, Close, historyVars
<1>2. ASSUME NEW m \in Messages, Handle(m) \/ Reject(m) \/ Prepare(m) \/ ReadItems(m)
      PROVE  Changed
  BY <1>2 DEF Handle, Reject, Prepare, ReadItems, historyVars
<1>3. ASSUME NEW m \in Messages, NEW c, NEW op, NEW uid, Receive(m, c, op, uid) PROVE Changed
  BY <1>3 DEF Receive, historyVars
<1>4. ASSUME NEW m \in Messages, Register(m) PROVE Changed
  BY <1>4 DEF Register
<1>5. CASE Change \/ PingClients \/ Timeout \/ UNCHANGED vars
  BY <1>5 DEF Change, PingClients, Timeout, vars, historyVars
<1>6. CASE Deliver
  BY <1>6 DEF Deliver, Passes
<1>7. ASSUME NEW d \in dispatches, Dispatching(d) PROVE Changed
  <2>1. gap \subseteq gap' /\ items' = items /\ events' = events
    BY <1>7 DEF Dispatching, GotSchema, NoSchema, ReadEvent, Refuse, SendEvent, GoOn, Passes,
       historyVars
  <2> QED
    BY <1>7, <2>1
<1> QED
  BY <1>1, <1>2, <1>3, <1>4, <1>5, <1>6, <1>7 DEF Next, Talk

\* A payload is read from the items as they are.
LEMMA PayloadStep ==
    ASSUME TypeInv, [Next]_vars, NEW m \in Messages
    PROVE  /\ msg'[m].data \in {msg[m].data, items, 0}
           /\ At(m, "read")' => \/ At(m, "read") /\ msg'[m].data = msg[m].data
                                \/ msg'[m].data = items /\ ~Change
<1> DEFINE Read ==
        /\ msg'[m].data \in {msg[m].data, items, 0}
        /\ msg'[m].stage = "read" => \/ msg[m].stage = "read" /\ msg'[m].data = msg[m].data
                                     \/ msg'[m].data = items /\ ~Change
<1> SUFFICES Read
  BY DEF At
<1>0. TypeOK /\ msg \in [Messages -> Message] /\ items \in Nat
  BY DEF TypeInv, TypeOK
<1>1. ASSUME msg'[m] = msg[m] PROVE Read
  BY <1>1
<1>2. ASSUME NEW n \in Messages, NEW s \in Stages \ {"read"}, Goto(n, s) PROVE Read
  <2>1. msg' = [msg EXCEPT ![n].stage = s] /\ msg[n] \in Message
    BY <1>0, <1>2 DEF Goto
  <2>2. n # m => msg'[m] = msg[m]
    BY <1>0, <2>1
  <2>3. n = m => msg'[m].data = msg[m].data /\ msg'[m].stage = s
    BY <1>0, <2>1 DEF Message
  <2> QED
    BY <1>1, <1>2, <2>2, <2>3
<1>3. ASSUME NEW n \in Messages, Handle(n) \/ Reject(n) \/ Prepare(n) \/ Register(n)
      PROVE  Read
  BY <1>2, <1>3 DEF Handle, Reject, Prepare, Register, Stages
<1>4. ASSUME NEW n \in Messages, ReadItems(n) PROVE Read
  <2>1. CASE Goto(n, "done")
    BY <1>2, <2>1 DEF Stages
  <2>2. CASE ReadsPayload(n)
    <3>1. n # m => msg'[m] = msg[m]
      BY <1>0, <2>2 DEF ReadsPayload
    <3>2. n = m => msg'[m].data = items /\ ~Change
      <4>1. items' = items
        BY <1>4 DEF ReadItems
      <4>2. Change => items' = items + 1
        BY DEF Change
      <4>3. n = m => msg'[m].data = items
        BY <1>0, <2>2 DEF ReadsPayload, Message
      <4> QED
        BY <1>0, <4>1, <4>2, <4>3
    <3> QED
      BY <1>1, <3>1, <3>2
  <2> QED
    BY <1>4, <2>1, <2>2 DEF ReadItems, ReadsPayload
<1>5. ASSUME NEW n \in Messages, NEW c, NEW op, NEW uid, Receive(n, c, op, uid) PROVE Read
  <2>1. n # m => msg'[m] = msg[m]
    BY <1>0, <1>5 DEF Receive
  <2>2. n = m => msg'[m].data = 0 /\ msg'[m].stage = "received"
    BY <1>0, <1>5 DEF Receive
  <2> QED
    BY <1>1, <2>1, <2>2
<1>6. ASSUME NEW c \in Clients, Connect(c) \/ Close(c) PROVE Read
  BY <1>1, <1>6 DEF Connect, Close
<1>7. CASE Change \/ Deliver \/ PingClients \/ Timeout \/ UNCHANGED vars
  BY <1>1, <1>7 DEF Change, Deliver, PingClients, Timeout, vars
<1>8. ASSUME NEW d \in dispatches, Dispatching(d) PROVE Read
  BY <1>1, <1>8 DEF Dispatching, GotSchema, NoSchema, ReadEvent, Refuse, SendEvent
<1> QED
  BY <1>3, <1>4, <1>5, <1>6, <1>7, <1>8 DEF Next, Talk

\* Where runs of dispatch() come from.
LEMMA RunsCome ==
    ASSUME TypeInv, [Next]_vars, NEW e \in dispatches'
    PROVE  \/ e \in dispatches
           \/ /\ events # <<>> /\ e.event = Head(events) /\ e.visited = {} /\ e.stage = "schema"
           \/ \E d \in dispatches :
                 /\ e.event = d.event /\ items' = items
                 /\ \/ /\ e.stage = "read" /\ e.data = items /\ d.stage = "reading"
                       /\ e.visited = d.visited /\ e.current = d.current
                    \/ /\ e.stage = "reading" /\ e.current \in subs
                       /\ \/ e.visited = {}
                          \/ d.stage # "schema" /\ e.visited = d.visited \cup {d.current}
<1>0. dispatches \subseteq Dispatch
  BY DEF TypeInv, TypeOK
<1>1. CASE Deliver
  BY <1>1 DEF Deliver
<1>2. ASSUME NEW d \in dispatches, NEW visited, GoOn(d, visited), e \notin dispatches
      PROVE  e.event = d.event /\ e.stage = "reading" /\ e.current \in subs /\ e.visited = visited
  <2>1. d \in Dispatch
    BY <1>0
  <2>2. PICK m \in subs : e = [d EXCEPT !.stage = "reading", !.visited = visited, !.current = m,
                                        !.data = 0]
    BY <1>2 DEF GoOn, Becomes
  <2> QED
    BY <2>1, <2>2 DEF Dispatch
<1>3. ASSUME NEW d \in dispatches, GotSchema(d), e \notin dispatches
      PROVE  /\ e.event = d.event /\ items' = items
             /\ e.stage = "reading" /\ e.current \in subs /\ e.visited = {}
  BY <1>2, <1>3 DEF GotSchema
<1>4. ASSUME NEW d \in dispatches, Refuse(d) \/ SendEvent(d), e \notin dispatches
      PROVE  /\ e.event = d.event /\ items' = items /\ e.stage = "reading" /\ e.current \in subs
             /\ d.stage # "schema" /\ e.visited = d.visited \cup {d.current}
  BY <1>2, <1>4 DEF Refuse, SendEvent
<1>5. ASSUME NEW d \in dispatches, ReadEvent(d), e \notin dispatches
      PROVE  /\ e.event = d.event /\ items' = items
             /\ e.stage = "read" /\ e.data = items /\ d.stage = "reading"
             /\ e.visited = d.visited /\ e.current = d.current
  <2>1. d \in Dispatch /\ e = [d EXCEPT !.stage = "read", !.data = items]
    BY <1>0, <1>5 DEF ReadEvent, Becomes
  <2> QED
    BY <1>5, <2>1 DEF ReadEvent, Dispatch
<1>6. ASSUME NEW d \in dispatches, NoSchema(d) PROVE e \in dispatches
  BY <1>6 DEF NoSchema
<1> QED
  BY <1>1, <1>3, <1>4, <1>5, <1>6, Changes DEF Dispatching

\* Nothing is from the future.
LEMMA RunStep ==
    ASSUME TypeInv, RunInv, [Next]_vars
    PROVE  RunInv'
<1>0. /\ TypeOK /\ items \in Nat /\ events \in Seq(Nat) /\ dispatches \subseteq Dispatch
      /\ msg \in [Messages -> Message] /\ subs \subseteq Messages /\ Runs
      /\ \A m \in subs : At(m, "done")
  BY DEF TypeInv, TypeOK, At
<1>1. items' \in Nat /\ items <= items'
  BY <1>0, Changes DEF Change
<1>2. \A i \in DOMAIN events' : events'[i] <= items'
  <2>1. CASE events' = events
    <3>1. \A i \in DOMAIN events : events[i] \in Nat
      BY <1>0
    <3> QED
      BY <1>0, <1>1, <2>1, <3>1 DEF RunInv
  <2>2. CASE Change
    <3>1. events' = Append(events, items + 1) /\ items' = items + 1
      BY <2>2 DEF Change
    <3> DEFINE evs == events
    <3>2. evs \in Seq(Nat) /\ \A i \in DOMAIN evs : evs[i] <= items
      BY <1>0 DEF RunInv
    <3> HIDE DEF evs
    <3>3. \A i \in DOMAIN Append(evs, items + 1) : Append(evs, items + 1)[i] <= items + 1
      <4>1. /\ DOMAIN Append(evs, items + 1) = 1 .. Len(evs) + 1 /\ DOMAIN evs = 1 .. Len(evs)
            /\ Len(evs) \in Nat
            /\ \A i \in 1 .. Len(evs) : Append(evs, items + 1)[i] = evs[i] /\ evs[i] \in Nat
            /\ Append(evs, items + 1)[Len(evs) + 1] = items + 1
        BY <1>0, <3>2
      <4>2. \A i \in 1 .. Len(evs) + 1 : i \in 1 .. Len(evs) \/ i = Len(evs) + 1
        BY <4>1
      <4>3. ASSUME NEW i \in 1 .. Len(evs) PROVE evs[i] <= items + 1
        <5>1. evs[i] \in Nat /\ evs[i] <= items
          BY <3>2, <4>1
        <5> QED
          BY <1>0, <5>1
      <4> QED
        BY <1>0, <4>1, <4>2, <4>3
    <3> QED
      BY <3>1, <3>3 DEF evs
  <2>3. CASE Deliver
    <3>1. events # <<>> /\ events' = Tail(events) /\ items' = items
      BY <2>3 DEF Deliver
    <3> DEFINE evs == events
    <3>2. evs \in Seq(Nat) /\ evs # <<>> /\ \A i \in DOMAIN evs : evs[i] <= items
      BY <1>0, <3>1 DEF RunInv
    <3> HIDE DEF evs
    <3>3. \A i \in DOMAIN Tail(evs) : i + 1 \in DOMAIN evs /\ Tail(evs)[i] = evs[i + 1]
      BY <3>2
    <3> QED
      BY <3>1, <3>2, <3>3 DEF evs
  <2> QED
    BY <2>1, <2>2, <2>3, Changes
<1>3. \A m \in Messages : msg'[m].data <= items'
  <2>1. \A m \in Messages : msg[m].data \in Nat /\ msg[m].data <= items
    BY <1>0 DEF RunInv, Message
  <2>2. \A m \in Messages : msg'[m].data \in {msg[m].data, items, 0}
    BY PayloadStep
  <2> QED
    BY <1>0, <1>1, <2>1, <2>2
<1>4. \A m \in Messages : At(m, "done") => At(m, "done")'
  BY Frame DEF At
<1>5. ASSUME NEW e \in dispatches'
      PROVE  /\ e.event <= items'
             /\ \A n \in e.visited : At(n, "done")'
             /\ e.stage # "schema" => At(e.current, "done")'
             /\ e.stage = "read" => e.event <= e.data /\ e.data <= items'
  <2>1. ASSUME NEW d \in dispatches
        PROVE  /\ d.event \in Nat /\ d.data \in Nat /\ d.event <= items /\ d.visited \subseteq Messages
               /\ \A n \in d.visited : At(n, "done")'
               /\ d.stage # "schema" => At(d.current, "done")'
               /\ d.stage = "read" => d.event <= d.data /\ d.data <= items
    <3>1. d \in Dispatch /\ (d.stage # "schema" => d.current \in Messages)
      BY <1>0 DEF Runs
    <3>2. d.event \in Nat /\ d.data \in Nat /\ d.visited \subseteq Messages
      BY <3>1 DEF Dispatch
    <3> QED
      BY <1>4, <3>1, <3>2 DEF RunInv
  <2>2. CASE e \in dispatches
    BY <1>0, <1>1, <2>1, <2>2
  <2>3. CASE events # <<>> /\ e.event = Head(events) /\ e.visited = {} /\ e.stage = "schema"
    <3>1. Head(events) \in Nat /\ Head(events) <= items
      <4>1. 1 \in DOMAIN events /\ Head(events) = events[1] /\ events[1] \in Nat
        BY <1>0, <2>3
      <4> QED
        BY <4>1 DEF RunInv
    <3> QED
      BY <1>0, <1>1, <2>3, <3>1
  <2>4. ASSUME NEW d \in dispatches, e.event = d.event, items' = items, e.stage = "read",
               e.data = items, d.stage = "reading", e.visited = d.visited, e.current = d.current
        PROVE  /\ e.event <= items'
               /\ \A n \in e.visited : At(n, "done")'
               /\ At(e.current, "done")'
               /\ e.event <= e.data /\ e.data <= items'
    BY <1>0, <2>1, <2>4
  <2>5. ASSUME NEW d \in dispatches, e.event = d.event, items' = items, e.current \in subs,
               e.visited = {} \/ (d.stage # "schema" /\ e.visited = d.visited \cup {d.current})
        PROVE  /\ e.event <= items'
               /\ \A n \in e.visited : At(n, "done")'
               /\ At(e.current, "done")'
    BY <1>0, <1>4, <2>1, <2>5
  <2> QED
    BY <2>2, <2>3, <2>4, <2>5, RunsCome
<1> QED
  BY <1>2, <1>3, <1>5 DEF RunInv, At

\* The event e ends, and nothing of it is sent to m.
PassesBy(e, m) ==
    /\ subs' = subs /\ msg' = msg
    /\ (m \notin subs /\ Passes(e, Unaware)) \/ Passes(e, subs \cup Unaware)

\* Where a run of dispatch() goes: on, to m, or to its end.
LEMMA RunGoes ==
    ASSUME TypeInv, [Next]_vars, NEW d \in dispatches, NEW m \in Messages, m \notin d.visited
    PROVE  \/ \E e \in dispatches' : e.event = d.event /\ m \notin e.visited
           \/ d.current = m /\ d.stage = "read" /\ Send(m, "event", d.data)
           \/ d.current = m /\ d.stage = "reading" /\ Send(m, "error", d.event)
           \/ PassesBy(d.event, m)
<1> DEFINE Goes ==
        \/ \E e \in dispatches' : e.event = d.event /\ m \notin e.visited
        \/ d.current = m /\ d.stage = "read" /\ Send(m, "event", d.data)
        \/ d.current = m /\ d.stage = "reading" /\ Send(m, "error", d.event)
        \/ PassesBy(d.event, m)
<1> SUFFICES Goes
  OBVIOUS
<1>0. d \in Dispatch
  BY DEF TypeInv, TypeOK
<1>1. CASE d \in dispatches'
  BY <1>1
<1>2. ASSUME NEW visited, GoOn(d, visited), m \notin visited, subs' = subs, msg' = msg PROVE Goes
  <2>1. CASE subs \subseteq visited /\ Passes(d.event, Unaware)
    BY <1>2, <2>1 DEF PassesBy
  <2>2. ASSUME NEW n \in subs,
               Becomes(d, [d EXCEPT !.stage = "reading", !.visited = visited, !.current = n,
                                    !.data = 0])
        PROVE  Goes
    <3> DEFINE e == [d EXCEPT !.stage = "reading", !.visited = visited, !.current = n, !.data = 0]
    <3>1. e.event = d.event /\ e.visited = visited
      BY <1>0 DEF Dispatch
    <3>2. e \in dispatches'
      BY <2>2 DEF Becomes
    <3> HIDE DEF e
    <3> QED
      BY <1>2, <3>1, <3>2
  <2> QED
    BY <1>2, <2>1, <2>2 DEF GoOn
<1>3. CASE GotSchema(d)
  BY <1>2, <1>3 DEF GotSchema
<1>4. CASE ReadEvent(d)
  <2> DEFINE e == [d EXCEPT !.stage = "read", !.data = items]
  <2>1. e.event = d.event /\ e.visited = d.visited
    BY <1>0 DEF Dispatch
  <2>2. e \in dispatches'
    BY <1>4 DEF ReadEvent, Becomes
  <2> HIDE DEF e
  <2> QED
    BY <2>1, <2>2
<1>5. CASE Refuse(d)
  BY <1>2, <1>5 DEF Refuse
<1>6. CASE SendEvent(d)
  BY <1>2, <1>6 DEF SendEvent
<1>9. CASE NoSchema(d)
  BY <1>9 DEF NoSchema, PassesBy
<1>7. ASSUME NEW o \in dispatches, Dispatching(o), o # d PROVE d \in dispatches'
  BY <1>7 DEF Dispatching, GotSchema, NoSchema, ReadEvent, Refuse, SendEvent, GoOn, Becomes
<1>8. Deliver => d \in dispatches'
  BY DEF Deliver
<1> QED
  BY <1>1, <1>3, <1>4, <1>5, <1>6, <1>7, <1>8, <1>9, Changes DEF Dispatching

\* What was sent stays in the log.
LEMMA HeardStays ==
    ASSUME TypeInv, [Next]_vars, NEW m \in Messages, Heard(m), items' = items
    PROVE  Heard(m)'
<1> DEFINE Entries == [kind : Kinds, data : Nat]
           l == log[m]
<1>0. l \in Seq(Entries) /\ TypeOK /\ Runs
  BY DEF TypeInv, TypeOK, Kinds
<1>1. CASE log'[m] = l
  BY <1>1 DEF Heard
<1>2. ASSUME NEW x \in Entries, log'[m] = Append(l, x) PROVE Heard(m)'
  <2>1. PICK i \in DOMAIN l : l[i].data = items \/ l[i].kind = "error"
    BY DEF Heard
  <2> HIDE DEF Entries, l
  <2>2. i \in DOMAIN Append(l, x) /\ Append(l, x)[i] = l[i]
    BY <1>0
  <2> QED
    BY <1>2, <2>1, <2>2 DEF Heard
<1>3. ASSUME NEW n \in Messages, NEW kind \in Kinds, NEW data \in Nat, Send(n, kind, data)
      PROVE  Heard(m)'
  <2>1. CASE n = m
    <3>1. [kind |-> kind, data |-> data] \in Entries
      OBVIOUS
    <3> QED
      BY <1>0, <1>2, <1>3, <2>1, <3>1, SendType
  <2>2. CASE n # m
    BY <1>0, <1>1, <1>3, <2>2, SendType
  <2> QED
    BY <2>1, <2>2
<1>4. ASSUME NEW n \in Messages, Register(n) PROVE Heard(m)'
  <2>1. msg[n].data \in Nat /\ Send(n, "init", msg[n].data)
    BY <1>0, <1>4 DEF Register, TypeOK, Message
  <2> QED
    BY <1>3, <2>1 DEF Kinds
<1>5. ASSUME NEW d \in dispatches, Dispatching(d) PROVE Heard(m)'
  <2>1. d \in Dispatch /\ d.event \in Nat /\ d.data \in Nat
    BY <1>0 DEF TypeOK, Dispatch
  <2>2. CASE Refuse(d) \/ SendEvent(d)
    <3>1. d.current \in Messages
      BY <1>0, <2>2 DEF Refuse, SendEvent, Runs
    <3> QED
      BY <1>3, <2>1, <2>2, <3>1 DEF Refuse, SendEvent, Kinds
  <2>3. CASE GotSchema(d) \/ NoSchema(d) \/ ReadEvent(d)
    BY <1>1, <2>3 DEF GotSchema, NoSchema, ReadEvent
  <2> QED
    BY <1>5, <2>2, <2>3 DEF Dispatching
<1> QED
  BY <1>1, <1>4, <1>5, Changes

\* What is sent is heard.
LEMMA SendIsHeard ==
    ASSUME TypeInv, NEW m \in Messages, NEW kind \in Kinds, NEW data \in Nat, Send(m, kind, data),
           data = items' \/ kind = "error"
    PROVE  Heard(m)'
<1> DEFINE Entries == [kind : Kinds, data : Nat]
           l == log[m]
           x == [kind |-> kind, data |-> data]
<1>1. l \in Seq(Entries) /\ x \in Entries /\ x.data = data /\ x.kind = kind
  BY DEF TypeInv, TypeOK, Kinds
<1>2. log'[m] = Append(l, x)
  BY SendType DEF TypeInv
<1> HIDE DEF Entries, l, x
<1>3. Len(l) + 1 \in DOMAIN Append(l, x) /\ Append(l, x)[Len(l) + 1] = x
  BY <1>1
<1> QED
  BY <1>1, <1>2, <1>3 DEF Heard

\* What is owed to m is under way until it is sent, or the run ends without m.
LEMMA OwedStep ==
    ASSUME TypeInv, RunInv, [Next]_vars, NEW m \in Messages, Owed(m) \/ Change
    PROVE  \/ Owed(m)'
           \/ Heard(m)' /\ At(m, "done")
           \/ items' = items /\ PassesBy(items, m)
<1>0. /\ TypeOK /\ items \in Nat /\ events \in Seq(Nat) /\ dispatches \subseteq Dispatch
      /\ m \in subs => At(m, "done")
  BY DEF TypeInv, TypeOK, At
<1>1. CASE Change
  <2>1. events' = Append(events, items + 1) /\ items' = items + 1
    BY <1>1 DEF Change
  <2>2. Len(events) + 1 \in DOMAIN events' /\ events'[Len(events) + 1] = items'
    BY <1>0, <2>1
  <2> QED
    BY <2>2 DEF Owed, Coming
<1>2. CASE Coming(items) /\ ~Change
  <2>1. items' = items
    BY <1>2, Changes
  <2>2. PICK i \in DOMAIN events : events[i] = items
    BY <1>2 DEF Coming
  <2>3. CASE events' = events
    BY <1>2, <2>1, <2>3 DEF Owed, Coming
  <2>4. CASE Deliver
    <3>1. events # <<>> /\ events' = Tail(events) /\ msg' = msg /\ subs' = subs
      BY <2>4 DEF Deliver
    <3>2. CASE i = 1
      <4>1. Head(events) = items
        BY <1>0, <2>2, <3>1, <3>2
      <4>2. CASE subs = {}
        <5>1. Passes(items, Unaware)
          BY <2>4, <4>1, <4>2 DEF Deliver
        <5> QED
          BY <2>1, <3>1, <4>2, <5>1 DEF PassesBy
      <4>3. CASE subs # {}
        <5> DEFINE d == [event |-> items, visited |-> {}, current |-> None, data |-> 0,
                         stage |-> "schema"]
        <5>1. d \in dispatches'
          BY <2>4, <4>1, <4>3 DEF Deliver
        <5>2. d.event = items /\ d.visited = {}
          OBVIOUS
        <5> HIDE DEF d
        <5> QED
          BY <2>1, <5>1, <5>2 DEF Owed
      <4> QED
        BY <4>2, <4>3
    <3>3. CASE i # 1
      <4>1. i - 1 \in DOMAIN Tail(events) /\ Tail(events)[i - 1] = events[i]
        BY <1>0, <2>2, <3>1, <3>3
      <4> QED
        BY <2>1, <2>2, <3>1, <4>1 DEF Owed, Coming
    <3> QED
      BY <3>2, <3>3
  <2> QED
    BY <1>2, <2>3, <2>4, Changes
<1>3. ASSUME NEW d \in dispatches, d.event = items, m \notin d.visited, ~Change
      PROVE  \/ Owed(m)'
             \/ Heard(m)' /\ At(m, "done")
             \/ items' = items /\ PassesBy(items, m)
  <2>1. /\ items' = items /\ d.data \in Nat
        /\ d.stage # "schema" => At(d.current, "done")
        /\ d.stage = "read" => d.data = items
    <3>1. d \in Dispatch /\ d.data \in Nat
      BY <1>0 DEF Dispatch
    <3>2. items' = items
      BY <1>3, Changes
    <3>3. d.stage = "read" => d.data = items
      BY <1>0, <1>3, <3>1 DEF RunInv
    <3> QED
      BY <3>1, <3>2, <3>3 DEF RunInv
  <2>2. CASE \E e \in dispatches' : e.event = d.event /\ m \notin e.visited
    BY <1>3, <2>1, <2>2 DEF Owed
  <2>3. CASE d.current = m /\ d.stage = "read" /\ Send(m, "event", d.data)
    BY <2>1, <2>3, SendIsHeard DEF Kinds
  <2>4. CASE d.current = m /\ d.stage = "reading" /\ Send(m, "error", d.event)
    BY <1>0, <1>3, <2>1, <2>4, SendIsHeard DEF Kinds
  <2>5. CASE PassesBy(d.event, m)
    BY <1>3, <2>1, <2>5
  <2> QED
    BY <1>3, <2>2, <2>3, <2>4, <2>5, RunGoes
<1> QED
  BY <1>1, <1>2, <1>3 DEF Owed

\* A subscription is sent what it is owed, and is registered before the event
\* comes, or does not know of it.
LEMMA CatchStep ==
    ASSUME CatchInv, [Next]_vars
    PROVE  CatchInv'
<1>0. /\ TypeInv /\ TypeOK /\ RunInv /\ SubsHear /\ ReadsHear /\ TypeInv' /\ RunInv'
      /\ subs \subseteq Messages /\ subs' \subseteq Messages /\ items \in Nat
  <2>1. TypeInv /\ RunInv /\ TypeInv'
    BY TypeStep DEF CatchInv
  <2> QED
    BY <2>1, RunStep DEF CatchInv, TypeInv, TypeOK
<1>3. ASSUME NEW m \in subs \cup Unaware, PassesBy(items, m) PROVE m \in gap'
  BY <1>3 DEF PassesBy, Passes
<1>1. ASSUME NEW m \in subs' \ gap' PROVE Heard(m)' \/ Owed(m)'
  <2>1. m \in Messages /\ (Change \/ m \notin gap)
    BY <1>0, <1>1, Changes
  <2>2. CASE Register(m)
    <3>1. /\ At(m, "read") /\ Send(m, "init", msg[m].data) /\ items' = items /\ events' = events
          /\ dispatches' = dispatches /\ msg[m].data \in Nat
      BY <1>0, <2>1, <2>2 DEF Register, TypeOK, Message
    <3>2. CASE msg[m].data = items
      BY <1>0, <2>1, <3>1, <3>2, SendIsHeard DEF Kinds
    <3>3. CASE Owed(m)
      BY <3>1, <3>3 DEF Owed, Coming
    <3> QED
      <4>1. ~Change
        BY <1>0, <3>1 DEF Change
      <4> QED
        BY <1>0, <2>1, <3>1, <3>2, <3>3, <4>1 DEF ReadsHear
  <2>3. CASE m \in subs
    <3>1. CASE Change \/ Owed(m)
      BY <1>0, <1>1, <1>3, <2>1, <2>3, <3>1, OwedStep
    <3>2. CASE ~Change /\ Heard(m)
      BY <1>0, <2>1, <3>2, Changes, HeardStays
    <3> QED
      BY <1>0, <2>1, <2>3, <3>1, <3>2 DEF SubsHear
  <2> QED
    BY <1>0, <1>1, <2>1, <2>2, <2>3, Frame
<1>2. ASSUME NEW m \in Messages \ gap', At(m, "read")' PROVE msg'[m].data = items' \/ Owed(m)'
  <2>1. Change \/ m \notin gap
    BY <1>2, Changes
  <2>2. CASE msg'[m].data = items /\ ~Change
    BY <2>2, Changes
  <2>3. ASSUME At(m, "read"), msg'[m].data = msg[m].data, Change \/ Owed(m), msg[m].data # items
        PROVE  Owed(m)'
    <3>1. CASE PassesBy(items, m)
      BY <1>2, <1>3, <2>3, <3>1 DEF Unaware
    <3>2. ~At(m, "done")
      BY <2>3 DEF At
    <3> QED
      BY <1>0, <2>3, <3>1, <3>2, OwedStep
  <2>4. CASE At(m, "read") /\ msg'[m].data = msg[m].data /\ msg[m].data = items /\ Change
    BY <1>0, <2>4, OwedStep DEF At
  <2> QED
    BY <1>0, <1>2, <2>1, <2>2, <2>3, <2>4, PayloadStep DEF ReadsHear
<1> QED
  BY <1>0, <1>1, <1>2 DEF CatchInv, SubsHear, ReadsHear

\* When every event was dispatched, a subscription was sent the items as they
\* are, or an error, unless the last event got no schema, or came between its
\* read and its registration (CatchesUp).
THEOREM SubscriptionsCatchUp == Spec => []CatchesUp
<1>1. Init => CatchInv
  <2>1. SUFFICES ASSUME Init PROVE CatchInv
    OBVIOUS
  <2>2. SubsHear /\ ReadsHear
    BY <2>1 DEF Init, SubsHear, ReadsHear, At
  <2>3. RunInv
    BY <2>1 DEF Init, RunInv
  <2> QED
    BY <2>1, <2>2, <2>3, TypeInit DEF CatchInv
<1>2. CatchInv => CatchesUp
  BY DEF CatchInv, SubsHear, Owed, Coming, Heard, CatchesUp
<1> QED
  BY <1>1, <1>2, CatchStep, PTL DEF Spec
=============================================================================
