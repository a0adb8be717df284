--------------------------- MODULE SessionsProofs ---------------------------
(* What holds of Sessions for every number of requests, all modes, lifetimes *)
(* and numbers of failures.                                                  *)
EXTENDS Sessions, TLAPS

-----------------------------------------------------------------------------
(* Types.                                                                    *)

\* A request for op can stand at pc.
CanStand(op, pc) ==
    \/ op = "none" /\ pc = "idle"
    \/ op = "login" /\ pc \in {"read", "insert", "purgeAll", "done", "failed"}
    \/ op = "session" /\ pc \in {"read", "dismiss", "extend", "claim", "lookup", "insert",
                                 "purgeOwn", "done", "failed"}
    \/ op = "json" /\ pc \in {"read", "dismiss", "move", "purgeOwn", "done", "failed"}
    \/ op = "logout" /\ pc \in {"read", "delete", "done", "failed"}

(* q is what the request r may be: it stands where its op can, nothing was   *)
(* drawn for one that was not made, a session's successor is the request's   *)
(* own token until another is looked up, and a row is moved to a token.      *)
Proper(r, q) ==
    /\ q \in Request
    /\ q.op \in {"none", "login", "logout"} \cup Modes
    /\ CanStand(q.op, q.pc)
    /\ q.op = "none" => q.new = None /\ q.old = None
    /\ q.op = "session" /\ q.pc \in {"claim", "lookup", "insert"} => q.new = r
    /\ q.op = "json" /\ q.pc = "move" => q.new # None

TypeInv == TypeOK /\ \A r \in Requests : Proper(r, req[r])

\* The table after rows were deleted, or one was written.
LEMMA RowsType ==
    ASSUME TypeOK
    PROVE  /\ \A T : Without(T) \in [Stored \ T -> Row] /\ Stored \ T \subseteq Tokens
           /\ \A t \in Tokens, row \in Row :
                 With(t, row) \in [Stored \cup {t} -> Row] /\ Stored \cup {t} \subseteq Tokens
<1>1. Stored \subseteq Tokens /\ rows \in [Stored -> Row]
  BY DEF TypeOK
<1> QED
  BY <1>1 DEF Without, With

\* The table after a row's token was replaced.
LEMMA MoveType ==
    ASSUME TypeOK, NEW r \in Requests, Move(r), req[r].new \in Tokens, req[r].at \in Nat
    PROVE  DOMAIN rows' \subseteq Tokens /\ rows' \in [DOMAIN rows' -> Row]
<1>1. Stored \subseteq Tokens /\ rows \in [Stored -> Row] /\ SessionTTL \in Nat
  BY TimeAssumption DEF TypeOK
<1>2. \A t \in Stored : [rows[t] EXCEPT !.expires = req[r].at + SessionTTL] \in Row
  BY <1>1 DEF Row
<1> QED
  BY <1>1, <1>2 DEF Move, Stored

\* A step of r that leaves r proper leaves every request proper.
LEMMA ProperKept ==
    ASSUME TypeInv, NEW r \in Requests,
           req' = [req EXCEPT ![r] = req'[r]], Proper(r, req'[r])
    PROVE  req' \in [Requests -> Request] /\ \A q \in Requests : Proper(q, req'[q])
<1>1. req \in [Requests -> Request] /\ \A q \in Requests : Proper(q, req[q])
  BY DEF TypeInv, TypeOK
<1>2. req'[r] \in Request
  BY DEF Proper
<1>3. \A q \in Requests \ {r} : req'[q] = req[q]
  BY <1>1
<1> QED
  BY <1>1, <1>2, <1>3

\* Moving r on in its program moves nothing else.
LEMMA GotoType ==
    ASSUME TypeInv, NEW r \in Requests, NEW pc, Goto(r, pc)
    PROVE  /\ req'[r] = [req[r] EXCEPT !.pc = pc]
           /\ req' = [req EXCEPT ![r] = req'[r]]
           /\ req[r] \in Request
           /\ pc \in Pcs => req'[r] \in Request
           /\ req'[r].pc = pc /\ req'[r].op = req[r].op /\ req'[r].new = req[r].new
           /\ req'[r].old = req[r].old
<1>1. req \in [Requests -> Request]
  BY DEF TypeInv, TypeOK
<1>2. req'[r] = [req[r] EXCEPT !.pc = pc]
  BY <1>1 DEF Goto
<1>3. req' = [req EXCEPT ![r] = req'[r]]
  BY <1>1, <1>2 DEF Goto
<1> QED
  BY <1>1, <1>2, <1>3 DEF Request

\* It leaves r proper where it goes to a point where r can stand.
LEMMA GotoProper ==
    ASSUME TypeInv, NEW r \in Requests, NEW pc, Goto(r, pc), CanStand(req[r].op, pc),
           pc \in {"claim", "lookup", "insert"} => req[r].pc \in {"claim", "lookup", "insert"},
           pc # "move"
    PROVE  Proper(r, req'[r]) /\ req' = [req EXCEPT ![r] = req'[r]]
<1>1. Proper(r, req[r]) /\ pc \in Pcs
  BY DEF TypeInv, CanStand, Pcs
<1>2. req'[r].pc = pc /\ req'[r].op = req[r].op /\ req'[r].new = req[r].new
      /\ req'[r].old = req[r].old /\ req'[r] \in Request
  BY <1>1, GotoType
<1> QED
  BY <1>1, <1>2, GotoType DEF Proper, CanStand

\* Every variable keeps its type.
LEMMA TypeStep ==
    ASSUME TypeInv, [Next]_vars
    PROVE  TypeInv'
<1>0. /\ Stored \subseteq Tokens /\ rows \in [Stored -> Row]
      /\ req \in [Requests -> Request] /\ \A r \in Requests : Proper(r, req[r])
      /\ active \in BOOLEAN /\ now \in Nat /\ failures \in Nat /\ ended \subseteq Tokens
  BY DEF TypeInv, TypeOK
<1>a. TypeOK /\ SessionTTL \in Nat /\ GracePeriod \in Nat /\ Modes \subseteq {"session", "json"}
  BY TimeAssumption, ModesAssumption DEF TypeInv
<1>b. ASSUME NEW r \in Requests, Proper(r, req'[r]), req' = [req EXCEPT ![r] = req'[r]],
             (Stored \subseteq Tokens)', (rows \in [Stored -> Row])', ended' \subseteq Tokens,
             active' \in BOOLEAN, now' \in Nat, failures' \in Nat
      PROVE  TypeInv'
  BY <1>b, ProperKept DEF TypeInv, TypeOK
<1>c. ASSUME NEW T, T \subseteq Stored, Purge(T)
      PROVE  (Stored \subseteq Tokens)' /\ (rows \in [Stored -> Row])' /\ ended' \subseteq Tokens
  BY <1>0, <1>c DEF Purge, Without, Stored
<1>d. ASSUME UNCHANGED rows
      PROVE  (Stored \subseteq Tokens)' /\ (rows \in [Stored -> Row])'
  BY <1>0, <1>d DEF Stored
<1>1. ASSUME NEW r \in Requests, Login(r) PROVE TypeInv'
  <2>1. /\ req'[r] = [req[r] EXCEPT !.op = "login", !.pc = "read", !.new = r]
        /\ req' = [req EXCEPT ![r] = req'[r]]
    BY <1>0, <1>1 DEF Login
  <2>2. Proper(r, req'[r])
    BY <1>0, <2>1 DEF Proper, CanStand, Request, Ops, Pcs, OptToken, Tokens
  <2> QED
    BY <1>0, <1>1, <1>b, <1>d, <2>1, <2>2 DEF Login
<1>2. ASSUME NEW r \in Requests, Refresh(r) PROVE TypeInv'
  <2>1. PICK t \in Held, mode \in Modes :
          req' = [req EXCEPT ![r] = [@ EXCEPT !.op = mode, !.pc = "read", !.old = t]]
    BY <1>2 DEF Refresh
  <2>2. /\ req'[r] = [req[r] EXCEPT !.op = mode, !.pc = "read", !.old = t]
        /\ req' = [req EXCEPT ![r] = req'[r]]
    BY <1>0, <2>1
  <2>3. t \in OptToken /\ mode \in {"session", "json"}
    BY <1>0, <1>a DEF Held, Request
  <2>4. Proper(r, req'[r])
    BY <1>0, <2>2, <2>3 DEF Proper, CanStand, Request, Ops, Pcs, OptToken, Tokens
  <2> QED
    BY <1>0, <1>2, <1>b, <1>d, <2>2, <2>4 DEF Refresh
<1>3. ASSUME NEW r \in Requests, Logout(r) PROVE TypeInv'
  <2>1. PICK t \in Held :
          req' = [req EXCEPT ![r] = [@ EXCEPT !.op = "logout", !.pc = "read", !.old = t]]
    BY <1>3 DEF Logout
  <2>2. /\ req'[r] = [req[r] EXCEPT !.op = "logout", !.pc = "read", !.old = t]
        /\ req' = [req EXCEPT ![r] = req'[r]]
    BY <1>0, <2>1
  <2>3. t \in OptToken
    BY <1>0 DEF Held, Request
  <2>4. Proper(r, req'[r])
    BY <1>0, <2>2, <2>3 DEF Proper, CanStand, Request, Ops, Pcs
  <2> QED
    BY <1>0, <1>3, <1>b, <1>d, <2>2, <2>4 DEF Logout
<1>4. ASSUME NEW r \in Requests, ReadUser(r) PROVE TypeInv'
  <2>1. /\ req'[r] = [req[r] EXCEPT !.at = now, !.pc = IF active THEN "insert" ELSE "failed"]
        /\ req' = [req EXCEPT ![r] = req'[r]]
    BY <1>0, <1>4 DEF ReadUser
  <2>2. Proper(r, req'[r])
    BY <1>0, <1>4, <2>1 DEF ReadUser, At, Proper, CanStand, Request, Ops, Pcs
  <2> QED
    BY <1>0, <1>4, <1>b, <1>d, <2>1, <2>2 DEF ReadUser
<1>5. ASSUME NEW r \in Requests, InsertLogin(r) PROVE TypeInv'
  <2>1. Proper(r, req'[r]) /\ req' = [req EXCEPT ![r] = req'[r]]
    BY <1>0, <1>5, GotoProper DEF InsertLogin, At, Proper, CanStand
  <2>2. [expires |-> req[r].at + SessionTTL, next |-> None] \in Row
    BY <1>0, <1>a DEF Row, OptToken, Request
  <2>3. (Stored \subseteq Tokens)' /\ (rows \in [Stored -> Row])'
    BY <1>0, <1>5, <2>2 DEF InsertLogin, With, Stored, Tokens
  <2> QED
    BY <1>0, <1>5, <1>b, <2>1, <2>3 DEF InsertLogin
<1>6. ASSUME NEW r \in Requests, PurgeAll(r) PROVE TypeInv'
  <2>1. Proper(r, req'[r]) /\ req' = [req EXCEPT ![r] = req'[r]]
    BY <1>0, <1>6, GotoProper DEF PurgeAll, At, Proper, CanStand
  <2> QED
    BY <1>0, <1>6, <1>b, <1>c, <2>1 DEF PurgeAll
<1>7. ASSUME NEW r \in Requests, ReadSession(r) PROVE TypeInv'
  <2> DEFINE t == req[r].old
             next == rows[t].next
             new == IF next = None THEN r ELSE next
  <2>1. CASE Goto(r, "failed") \/ Goto(r, "dismiss")
    <3>1. Proper(r, req'[r]) /\ req' = [req EXCEPT ![r] = req'[r]]
      BY <1>0, <1>a, <1>7, <2>1, GotoProper DEF ReadSession, Proper, CanStand
    <3> QED
      BY <1>0, <1>7, <1>b, <1>d, <3>1 DEF ReadSession
  <2>2. CASE Usable(t) /\ ~Goto(r, "failed") /\ ~Goto(r, "dismiss")
    <3>1. next \in OptToken /\ new \in OptToken /\ new # None
      BY <1>0, <2>2, NoneAssumption DEF Usable, Row, OptToken, Tokens
    <3>2. /\ req'[r] = [req[r] EXCEPT
                         !.new = new, !.at = now,
                         !.pc = CASE req[r].op = "json" -> "move"
                                  [] req[r].op = "session" /\ next # None -> "extend"
                                  [] req[r].op = "session" /\ next = None -> "claim"]
          /\ req' = [req EXCEPT ![r] = req'[r]]
      BY <1>0, <1>7, <2>2 DEF ReadSession
    <3>3. req[r].op \in {"session", "json"} /\ req[r] \in Request
          /\ req[r].op \in Modes /\ Proper(r, req[r])
      BY <1>0, <1>a, <1>7 DEF ReadSession
    <3> HIDE DEF next, new
    <3>7. Proper(r, req'[r])
      <4>1. CASE req[r].op = "json"
        <5>1. req'[r] = [req[r] EXCEPT !.new = new, !.at = now, !.pc = "move"]
          BY <3>2, <4>1
        <5> QED
          BY <1>0, <3>1, <3>3, <4>1, <5>1 DEF Proper, CanStand, Request, Pcs
      <4>2. CASE req[r].op = "session" /\ next # None
        <5>1. req'[r] = [req[r] EXCEPT !.new = new, !.at = now, !.pc = "extend"]
          BY <3>2, <4>2
        <5> QED
          BY <1>0, <3>1, <3>3, <4>2, <5>1 DEF Proper, CanStand, Request, Pcs
      <4>3. CASE req[r].op = "session" /\ next = None
        <5>1. req'[r] = [req[r] EXCEPT !.new = new, !.at = now, !.pc = "claim"] /\ new = r
          BY <3>2, <4>3 DEF new
        <5> QED
          BY <1>0, <3>1, <3>3, <4>3, <5>1 DEF Proper, CanStand, Request, Pcs
      <4> QED
        BY <3>3, <4>1, <4>2, <4>3
    <3> QED
      BY <1>0, <1>7, <1>b, <1>d, <3>2, <3>7 DEF ReadSession
  <2> QED
    BY <1>7, <2>1, <2>2 DEF ReadSession
<1>8. ASSUME NEW r \in Requests, Dismiss(r) PROVE TypeInv'
  <2>1. Proper(r, req'[r]) /\ req' = [req EXCEPT ![r] = req'[r]]
    BY <1>0, <1>a, <1>8, GotoProper DEF Dismiss, Proper, CanStand
  <2> QED
    BY <1>0, <1>8, <1>b, <1>c, <2>1 DEF Dismiss
<1>9. ASSUME NEW r \in Requests, Extend(r) PROVE TypeInv'
  <2>1. Proper(r, req'[r]) /\ req' = [req EXCEPT ![r] = req'[r]]
    BY <1>0, <1>9, GotoProper DEF Extend, At, Proper, CanStand
  <2>2. \A u \in Stored : [rows[u] EXCEPT !.expires = req[r].at + SessionTTL] \in Row
    BY <1>0, <1>a DEF Row, Request
  <2>3. (Stored \subseteq Tokens)' /\ (rows \in [Stored -> Row])'
    BY <1>0, <1>9, <2>2 DEF Extend, Stored
  <2> QED
    BY <1>0, <1>9, <1>b, <2>1, <2>3 DEF Extend
<1>10. ASSUME NEW r \in Requests, Claim(r) PROVE TypeInv'
  <2>1. Proper(r, req'[r]) /\ req' = [req EXCEPT ![r] = req'[r]]
    BY <1>0, <1>10, GotoProper DEF Claim, At, Proper, CanStand
  <2>2. [expires |-> req[r].at + GracePeriod, next |-> r] \in Row
    BY <1>0, <1>a DEF Row, Request, OptToken, Tokens
  <2>3. (Stored \subseteq Tokens)' /\ (rows \in [Stored -> Row])'
    BY <1>0, <1>10, <2>2 DEF Claim, Stored
  <2> QED
    BY <1>0, <1>10, <1>b, <2>1, <2>3 DEF Claim
<1>11. ASSUME NEW r \in Requests, Lookup(r) PROVE TypeInv'
  <2>1. CASE req[r].old \in Stored
    <3>1. /\ req'[r] = [req[r] EXCEPT !.new = rows[req[r].old].next, !.pc = "purgeOwn"]
          /\ req' = [req EXCEPT ![r] = req'[r]]
      BY <1>0, <1>11, <2>1 DEF Lookup
    <3>2. rows[req[r].old].next \in OptToken
      BY <1>0, <2>1 DEF Row
    <3>3. Proper(r, req'[r])
      BY <1>0, <1>11, <3>1, <3>2 DEF Lookup, At, Proper, CanStand, Request, Ops, Pcs
    <3> QED
      BY <1>0, <1>11, <1>b, <1>d, <3>1, <3>3 DEF Lookup
  <2>2. CASE req[r].old \notin Stored
    <3>1. Proper(r, req'[r]) /\ req' = [req EXCEPT ![r] = req'[r]]
      BY <1>0, <1>11, <2>2, GotoProper DEF Lookup, At, Proper, CanStand
    <3> QED
      BY <1>0, <1>11, <1>b, <1>d, <3>1 DEF Lookup
  <2> QED
    BY <2>1, <2>2
<1>12. ASSUME NEW r \in Requests, InsertSession(r) PROVE TypeInv'
  <2>1. Proper(r, req'[r]) /\ req' = [req EXCEPT ![r] = req'[r]]
    BY <1>0, <1>12, GotoProper DEF InsertSession, At, Proper, CanStand
  <2>2. [expires |-> req[r].at + SessionTTL, next |-> None] \in Row
    BY <1>0, <1>a DEF Row, OptToken, Request
  <2>3. (Stored \subseteq Tokens)' /\ (rows \in [Stored -> Row])'
    BY <1>0, <1>12, <2>2 DEF InsertSession, With, Stored, Tokens
  <2> QED
    BY <1>0, <1>12, <1>b, <2>1, <2>3 DEF InsertSession
<1>13. ASSUME NEW r \in Requests, Move(r) PROVE TypeInv'
  <2>1. Proper(r, req'[r]) /\ req' = [req EXCEPT ![r] = req'[r]]
    BY <1>0, <1>13, GotoProper DEF Move, At, Proper, CanStand
  <2>2. req[r].new \in Tokens /\ req[r].at \in Nat
    BY <1>0, <1>13 DEF Move, At, Proper, Request, OptToken
  <2>3. (Stored \subseteq Tokens)' /\ (rows \in [Stored -> Row])'
    BY <1>a, <1>13, <2>2, MoveType DEF Stored
  <2>4. ended' \subseteq Tokens
    BY <1>0, <1>13 DEF Move
  <2> QED
    BY <1>0, <1>13, <1>b, <2>1, <2>3, <2>4 DEF Move
<1>14. ASSUME NEW r \in Requests, PurgeOwn(r) PROVE TypeInv'
  <2>1. Proper(r, req'[r]) /\ req' = [req EXCEPT ![r] = req'[r]]
    BY <1>0, <1>a, <1>14, GotoProper DEF PurgeOwn, Proper, CanStand
  <2> QED
    BY <1>0, <1>14, <1>b, <1>c, <2>1 DEF PurgeOwn
<1>15. ASSUME NEW r \in Requests, ReadLogout(r) PROVE TypeInv'
  <2>1. Proper(r, req'[r]) /\ req' = [req EXCEPT ![r] = req'[r]]
    BY <1>0, <1>15, GotoProper DEF ReadLogout, At, Proper, CanStand
  <2> QED
    BY <1>0, <1>15, <1>b, <1>d, <2>1 DEF ReadLogout
<1>16. ASSUME NEW r \in Requests, DeleteSession(r) PROVE TypeInv'
  <2>1. Proper(r, req'[r]) /\ req' = [req EXCEPT ![r] = req'[r]]
    BY <1>0, <1>16, GotoProper DEF DeleteSession, At, Proper, CanStand
  <2> QED
    BY <1>0, <1>16, <1>b, <1>c, <2>1 DEF DeleteSession
<1>17. ASSUME NEW r \in Requests, Die(r) PROVE TypeInv'
  <2>1. Proper(r, req'[r]) /\ req' = [req EXCEPT ![r] = req'[r]]
    BY <1>0, <1>17, GotoProper DEF Die, Proper, CanStand
  <2> QED
    BY <1>0, <1>17, <1>b, <1>d, <2>1 DEF Die
<1>18. CASE SetStatus \/ Tick \/ UNCHANGED vars
  <2>1. /\ rows' = rows /\ req' = req /\ ended' = ended
        /\ active' \in BOOLEAN /\ now' \in Nat /\ failures' \in Nat
    <3>1. CASE SetStatus
      <4>1. active' \in BOOLEAN
        BY <3>1 DEF SetStatus
      <4> QED
        BY <1>0, <3>1, <4>1 DEF SetStatus
    <3>2. CASE Tick \/ UNCHANGED vars
      BY <1>0, <3>2 DEF Tick, vars
    <3> QED
      BY <1>18, <3>1, <3>2
  <2> QED
    BY <1>0, <2>1, <1>d DEF TypeInv, TypeOK
<1> QED
  BY <1>1, <1>2, <1>3, <1>4, <1>5, <1>6, <1>7, <1>8, <1>9, <1>10, <1>11, <1>12, <1>13,
     <1>14, <1>15, <1>16, <1>17, <1>18 DEF Next, Continue

\* Initially every request is idle.
LEMMA InitType == Init => TypeInv
<1>1. SUFFICES ASSUME Init PROVE TypeInv
  OBVIOUS
<1>2. \A r \in Requests : Proper(r, req[r])
  BY <1>1 DEF Init, Proper, CanStand, Request, Ops, Pcs, OptToken
<1> QED
  BY <1>1, <1>2 DEF Init, TypeInv, TypeOK, Stored, Request, Ops, Pcs, OptToken

\* Rows, requests and history keep their types (TypeOK).
THEOREM TypeCorrect == Spec => []TypeOK
<1>1. TypeInv /\ [Next]_vars => TypeInv'
  BY TypeStep
<1>2. TypeInv => TypeOK
  BY DEF TypeInv
<1> QED
  BY <1>1, <1>2, InitType, PTL DEF Spec

-----------------------------------------------------------------------------
(* What a step does to one row and to one request.                           *)

\* The ways t can have a row after a step: it had it, it was inserted, its
\* next_token was claimed, or another row was moved to it.
Kept(t) == t \in Stored /\ rows'[t].next = rows[t].next
InsertedBy(t, r) ==
    /\ InsertLogin(r) \/ (InsertSession(r) /\ t \notin Stored)
    /\ t = r /\ rows'[t].next = None
ClaimedBy(t, r) ==
    /\ Claim(r) /\ req[r].old = t
    /\ t \in Stored /\ rows[t].next = None
    /\ rows'[t].next = r
MovedBy(t, r) ==
    /\ Move(r) /\ req[r].new = t
    /\ t \notin Stored /\ req[r].old \in Stored
    /\ rows'[t].next = rows[req[r].old].next

\* There is no other way.
LEMMA RowsFrame ==
    ASSUME TypeInv, [Next]_vars, NEW t, t \in Stored'
    PROVE  \/ Kept(t)
           \/ \E r \in Requests : InsertedBy(t, r) \/ ClaimedBy(t, r) \/ MovedBy(t, r)
<1>0. Stored \subseteq Tokens /\ rows \in [Stored -> Row]
  BY DEF TypeInv, TypeOK
<1>a. ASSUME UNCHANGED rows PROVE Kept(t)
  BY <1>a DEF Kept, Stored
<1>b. ASSUME NEW T, Purge(T) PROVE Kept(t)
  BY <1>0, <1>b DEF Kept, Purge, Without, Stored
<1>c. ASSUME NEW r, NEW row, rows' = With(r, row), row.next = None
      PROVE  Kept(t) \/ (t = r /\ rows'[t].next = None)
  BY <1>0, <1>c DEF With, Kept, Stored
<1>1. ASSUME NEW r \in Requests, InsertLogin(r)
      PROVE  Kept(t) \/ InsertedBy(t, r)
  <2>1. Kept(t) \/ (t = r /\ rows'[t].next = None)
    BY <1>1, <1>c DEF InsertLogin
  <2> QED
    BY <1>1, <2>1 DEF InsertedBy
<1>2. ASSUME NEW r \in Requests, InsertSession(r)
      PROVE  Kept(t) \/ InsertedBy(t, r)
  <2>1. CASE r \in Stored
    <3>1. UNCHANGED rows
      BY <1>2, <2>1 DEF InsertSession
    <3> QED
      BY <1>a, <3>1
  <2>2. CASE r \notin Stored
    <3>1. Kept(t) \/ (t = r /\ rows'[t].next = None)
      BY <1>2, <1>c, <2>2 DEF InsertSession
    <3> QED
      BY <1>2, <2>2, <3>1 DEF InsertedBy
  <2> QED
    BY <2>1, <2>2
<1>3. ASSUME NEW r \in Requests, Extend(r)
      PROVE  Kept(t)
  BY <1>0, <1>3 DEF Extend, Kept, Stored, Row
<1>4. ASSUME NEW r \in Requests, Claim(r)
      PROVE  Kept(t) \/ ClaimedBy(t, r)
  BY <1>0, <1>4 DEF Claim, Kept, ClaimedBy, Stored, Row
<1>5. ASSUME NEW r \in Requests, Move(r)
      PROVE  Kept(t) \/ MovedBy(t, r)
  <2> DEFINE old == req[r].old
             new == req[r].new
  <2>1. CASE UNCHANGED rows
    BY <1>a, <2>1
  <2>2. CASE old \in Stored /\ ~(new # old /\ new \in Stored)
    <3>1. rows' = [u \in (Stored \ {old}) \cup {new} |->
                      IF u = new THEN [rows[old] EXCEPT !.expires = req[r].at + SessionTTL]
                      ELSE rows[u]]
      BY <1>5, <2>2 DEF Move
    <3>2. [rows[old] EXCEPT !.expires = req[r].at + SessionTTL].next = rows[old].next
      BY <1>0, <2>2 DEF Row
    <3>3. t \in (Stored \ {old}) \cup {new}
      BY <3>1 DEF Stored
    <3> QED
      BY <1>5, <2>2, <3>1, <3>2, <3>3 DEF Kept, MovedBy
  <2> QED
    BY <1>5, <2>1, <2>2 DEF Move
<1>6. ASSUME NEW r \in Requests,
             PurgeAll(r) \/ Dismiss(r) \/ PurgeOwn(r) \/ DeleteSession(r)
      PROVE  Kept(t)
  BY <1>6, <1>b DEF PurgeAll, Dismiss, PurgeOwn, DeleteSession
<1>7. ASSUME NEW r \in Requests,
             \/ Login(r) \/ Refresh(r) \/ Logout(r) \/ ReadUser(r) \/ ReadSession(r)
             \/ Lookup(r) \/ ReadLogout(r) \/ Die(r)
      PROVE  Kept(t)
  BY <1>7, <1>a DEF Login, Refresh, Logout, ReadUser, ReadSession, Lookup, ReadLogout, Die
<1>8. CASE SetStatus \/ Tick \/ UNCHANGED vars
  BY <1>8, <1>a DEF SetStatus, Tick, vars
<1> QED
  BY <1>1, <1>2, <1>3, <1>4, <1>5, <1>6, <1>7, <1>8 DEF Next, Continue

\* t has a row or had one.
Live == Stored \cup ended

\* A row that goes is in the history, and what is there stays.
LEMMA EndedFrame ==
    ASSUME TypeInv, [Next]_vars
    PROVE  /\ ended \subseteq ended'
           /\ \A t \in Stored : t \in Stored' \/ t \in ended'
           /\ \A t \in ended' : t \in ended \/ t \notin Stored'
           /\ \A t \in ended' : t \in Live
<1>0. Stored \subseteq Tokens /\ rows \in [Stored -> Row]
  BY DEF TypeInv, TypeOK
<1> DEFINE Goal == /\ ended \subseteq ended'
                   /\ \A t \in Stored : t \in Stored' \/ t \in ended'
                   /\ \A t \in ended' : t \in ended \/ t \notin Stored'
                   /\ \A t \in ended' : t \in Live
<1>a. ASSUME UNCHANGED ended, Stored \subseteq Stored' PROVE Goal
  BY <1>a DEF Live
<1>b. ASSUME NEW T, T \subseteq Stored, Purge(T) PROVE Goal
  BY <1>0, <1>b DEF Purge, Without, Stored, Live
<1>1. ASSUME NEW r \in Requests,
             InsertLogin(r) \/ InsertSession(r) \/ Extend(r) \/ Claim(r)
      PROVE  UNCHANGED ended /\ Stored \subseteq Stored'
  BY <1>0, <1>1 DEF InsertLogin, InsertSession, Extend, Claim, With, Stored
<1>2. ASSUME NEW r \in Requests, Move(r) PROVE Goal
  BY <1>0, <1>2 DEF Move, Stored, Live
<1>3. ASSUME NEW r \in Requests,
             PurgeAll(r) \/ Dismiss(r) \/ PurgeOwn(r) \/ DeleteSession(r)
      PROVE  Goal
  <2> HIDE DEF Goal
  <2>1. PICK T \in SUBSET Stored : Purge(T)
    BY <1>3 DEF PurgeAll, Dismiss, PurgeOwn, DeleteSession
  <2> QED
    BY <1>b, <2>1
<1>4. ASSUME NEW r \in Requests,
             \/ Login(r) \/ Refresh(r) \/ Logout(r) \/ ReadUser(r) \/ ReadSession(r)
             \/ Lookup(r) \/ ReadLogout(r) \/ Die(r)
      PROVE  UNCHANGED ended /\ Stored \subseteq Stored'
  BY <1>4 DEF Login, Refresh, Logout, ReadUser, ReadSession, Lookup, ReadLogout, Die, Stored
<1>5. ASSUME SetStatus \/ Tick \/ UNCHANGED vars
      PROVE  UNCHANGED ended /\ Stored \subseteq Stored'
  BY <1>5 DEF SetStatus, Tick, vars, Stored
<1> HIDE DEF Goal
<1>6. Goal
  BY <1>a, <1>1, <1>2, <1>3, <1>4, <1>5 DEF Next, Continue
<1> QED
  BY <1>6 DEF Goal

\* A step keeps every token that has or had a row.
LEMMA LiveGrows ==
    ASSUME TypeInv, [Next]_vars
    PROVE  Live \subseteq Live'
  BY EndedFrame DEF Live

\* A step leaves the request u alone or is a step of u.
LEMMA StepsAlone ==
    ASSUME TypeInv, [Next]_vars, NEW u \in Requests
    PROVE  req'[u] = req[u] \/ Login(u) \/ Refresh(u) \/ Logout(u) \/ Continue(u) \/ Die(u)
<1>0. req \in [Requests -> Request]
  BY DEF TypeInv, TypeOK
<1>1. ASSUME NEW r \in Requests, r # u,
             Login(r) \/ Refresh(r) \/ Logout(r) \/ Continue(r) \/ Die(r)
      PROVE  req'[u] = req[u]
  <2>a. ASSUME NEW q, req' = [req EXCEPT ![r] = q] PROVE req'[u] = req[u]
    BY <1>0, <1>1, <2>a
  <2>b. ASSUME NEW pc, Goto(r, pc) PROVE req'[u] = req[u]
    BY <1>0, <1>1, <2>b DEF Goto
  <2>1. CASE Login(r) \/ Refresh(r) \/ Logout(r) \/ ReadUser(r)
    BY <1>0, <1>1, <2>1 DEF Login, Refresh, Logout, ReadUser
  <2>2. CASE ReadSession(r)
    BY <2>2, <2>a, <2>b DEF ReadSession
  <2>3. CASE Lookup(r)
    BY <2>3, <2>a, <2>b DEF Lookup
  <2>4. CASE \/ InsertLogin(r) \/ PurgeAll(r) \/ Dismiss(r) \/ Extend(r) \/ Claim(r)
             \/ InsertSession(r) \/ Move(r) \/ PurgeOwn(r) \/ ReadLogout(r)
             \/ DeleteSession(r) \/ Die(r)
    BY <2>4, <2>b DEF InsertLogin, PurgeAll, Dismiss, Extend, Claim, InsertSession, Move,
       PurgeOwn, ReadLogout, DeleteSession, Die
  <2> QED
    BY <1>1, <2>1, <2>2, <2>3, <2>4 DEF Continue
<1>2. CASE SetStatus \/ Tick \/ UNCHANGED vars
  BY <1>2 DEF SetStatus, Tick, vars
<1>3. ASSUME NEW r \in Requests, r = u,
             Login(r) \/ Refresh(r) \/ Logout(r) \/ Continue(r) \/ Die(r)
      PROVE  Login(u) \/ Refresh(u) \/ Logout(u) \/ Continue(u) \/ Die(u)
  BY <1>3, Zenon
<1> QED
  BY <1>1, <1>2, <1>3 DEF Next

\* r is past the statement that writes a row under its own token.
Wrote(r) ==
    \/ req[r].op = "login" /\ req[r].pc \in {"purgeAll", "done", "failed"}
    \/ req[r].op \in {"session", "json"} /\ req[r].pc \in {"purgeOwn", "done", "failed"}

\* r is past the statement that stores its own token as a next_token.
Promised(r) ==
    req[r].op = "session" /\ req[r].pc \in {"insert", "purgeOwn", "done", "failed"}

\* What a step may do to a request: it is made once, for a token that somebody
\* was given; it goes on and never back; and the token it is going to return
\* is its own or the successor of a row.
LEMMA RequestFrame ==
    ASSUME TypeInv, [Next]_vars, NEW u \in Requests
    PROVE  /\ req[u].op # "none" => req'[u].op = req[u].op /\ req'[u].old = req[u].old
           /\ req[u].op = "none" => \/ req'[u].old = req[u].old
                                    \/ \E q \in Requests : /\ req[q].pc = "done"
                                                           /\ req'[u].old = req[q].new
           /\ Wrote(u) => Wrote(u)'
           /\ Promised(u) => Promised(u)'
           /\ req[u].pc = "failed" => req'[u].pc = "failed"
           /\ \/ req'[u].new = req[u].new
              \/ req'[u].new = u
              \/ req[u].old \in Stored /\ req'[u].new = rows[req[u].old].next
<1>0. /\ req \in [Requests -> Request] /\ Proper(u, req[u])
      /\ Modes \subseteq {"session", "json"}
      /\ req[u].op # "none" <=> req[u].pc # "idle"
  BY ModesAssumption DEF TypeInv, TypeOK, Proper, CanStand
<1> USE <1>0
<1>1. CASE req'[u] = req[u]
  BY <1>1 DEF Wrote, Promised
<1>2. CASE Login(u)
  <2>1. req[u].pc = "idle" /\ req'[u].old = req[u].old /\ req'[u].new = u
    BY <1>2 DEF Login, Request
  <2> QED
    BY <2>1 DEF Wrote, Promised
<1>3. CASE Refresh(u) \/ Logout(u)
  <2>1. PICK t \in Held : /\ req[u].pc = "idle" /\ req'[u].old = t
                          /\ req'[u].new = req[u].new
    BY <1>3 DEF Refresh, Logout, Request
  <2>2. PICK q \in Requests : req[q].pc = "done" /\ req[q].new = t
    BY DEF Held
  <2> QED
    BY <2>1, <2>2 DEF Wrote, Promised
<1>4. CASE ReadUser(u)
  <2>1. req'[u] = [req[u] EXCEPT !.at = now, !.pc = IF active THEN "insert" ELSE "failed"]
    BY <1>4 DEF ReadUser
  <2> QED
    BY <1>4, <2>1 DEF ReadUser, At, Wrote, Promised, Request
<1>5. CASE ReadSession(u)
  <2>1. CASE Goto(u, "failed") \/ Goto(u, "dismiss")
    BY <1>5, <2>1, GotoType DEF ReadSession, Wrote, Promised
  <2>2. CASE Usable(req[u].old) /\ active
    <3> DEFINE next == rows[req[u].old].next
               pc == CASE req[u].op = "json" -> "move"
                       [] req[u].op = "session" /\ next # None -> "extend"
                       [] req[u].op = "session" /\ next = None -> "claim"
    <3>0. req' = [req EXCEPT ![u] = [@ EXCEPT
                     !.new = IF next = None THEN u ELSE next, !.at = now, !.pc = pc]]
      BY <1>5, <2>2 DEF ReadSession
    <3> HIDE DEF next, pc
    <3>1. /\ req[u].pc = "read" /\ req'[u].op = req[u].op /\ req'[u].old = req[u].old
          /\ req'[u].new = u \/ (req[u].old \in Stored /\ req'[u].new = rows[req[u].old].next)
      BY <1>5, <2>2, <3>0 DEF ReadSession, Usable, Request, next
    <3> QED
      BY <3>1 DEF Wrote, Promised
  <2> QED
    BY <1>5, <2>1, <2>2 DEF ReadSession
<1>6. CASE Lookup(u)
  <2>1. CASE Goto(u, "failed")
    BY <1>6, <2>1, GotoType DEF Lookup, At, Wrote, Promised
  <2>2. CASE req[u].old \in Stored
    BY <1>6, <2>2 DEF Lookup, At, Request, Wrote, Promised
  <2> QED
    BY <1>6, <2>1, <2>2 DEF Lookup
<1>7. CASE InsertLogin(u) \/ PurgeAll(u)
  BY <1>7, GotoType DEF InsertLogin, PurgeAll, At, Wrote, Promised
<1>8. CASE Extend(u) \/ Claim(u) \/ InsertSession(u) \/ Move(u)
  BY <1>8, GotoType DEF Extend, Claim, InsertSession, Move, At, Wrote, Promised
<1>9. CASE Dismiss(u) \/ PurgeOwn(u)
  BY <1>9, GotoType DEF Dismiss, PurgeOwn, Wrote, Promised
<1>10. CASE ReadLogout(u) \/ DeleteSession(u)
  BY <1>10, GotoType DEF ReadLogout, DeleteSession, At, Wrote, Promised
<1>11. CASE Die(u)
  BY <1>11, GotoType DEF Die, Wrote, Promised
<1> QED
  BY StepsAlone, <1>1, <1>2, <1>3, <1>4, <1>5, <1>6, <1>7, <1>8, <1>9, <1>10, <1>11
     DEF Continue

-----------------------------------------------------------------------------
(* Where tokens come from.                                                   *)

\* A token that names one row in all its life was written by its request; a
\* next_token is one that a session refresh drew and claimed a row for, and so
\* is what a request returns that is not its own; none refreshes itself.
Origin ==
    /\ \A t \in Live : ComesOnce(t) => Wrote(t)
    /\ \A t \in Stored : rows[t].next # None => Promised(rows[t].next)
    /\ \A r \in Requests : req[r].new \in {None, r} \/ Promised(req[r].new)
    /\ \A r \in Requests : req[r].old # r

\* A token that comes once after a step did so before it.
LEMMA ComesOnceBack ==
    ASSUME TypeInv, [Next]_vars, NEW t \in Requests, ComesOnce(t)'
    PROVE  ComesOnce(t)
  BY RequestFrame DEF ComesOnce

\* A claim promises the token of the request.
LEMMA ClaimPromises ==
    ASSUME TypeInv, NEW t, NEW r \in Requests, ClaimedBy(t, r)
    PROVE  req[r].new = r /\ Promised(r)'
<1>1. /\ req[r].op = "session" /\ req[r].pc = "claim" /\ Goto(r, "insert")
      /\ Proper(r, req[r])
  BY DEF ClaimedBy, Claim, At, TypeInv
<1> QED
  BY <1>1, GotoType DEF Proper, Promised

\* A stateless refresh gives a row its own token, or the next_token that it read.
LEMMA MoveWrites ==
    ASSUME TypeInv, Origin, NEW t, NEW r \in Requests, MovedBy(t, r)
    PROVE  /\ t \in Requests /\ req[r].op = "json"
           /\ \/ t = r /\ Wrote(r)' /\ ~Wrote(r)
              \/ t # r /\ Promised(t) /\ ~ComesOnce(t)
<1>1. /\ req[r].op = "json" /\ req[r].pc = "move" /\ req[r].new = t
      /\ Proper(r, req[r]) /\ Goto(r, "purgeOwn")
  BY DEF MovedBy, Move, At, TypeInv
<1>2. t \in Requests /\ "json" \in Modes
  BY <1>1 DEF Proper, Request, OptToken, Tokens
<1>3. CASE t = r
  BY <1>1, <1>2, <1>3, GotoType DEF Wrote
<1>4. CASE t # r
  BY <1>1, <1>2, <1>4 DEF Origin, Proper, Promised, ComesOnce
<1> QED
  BY <1>1, <1>2, <1>3, <1>4

\* An insertion writes the row of the request.
LEMMA InsertWrites ==
    ASSUME TypeInv, NEW t, NEW r \in Requests, InsertedBy(t, r)
    PROVE  t = r /\ Wrote(r)' /\ ~Wrote(r) /\ req[r].pc = "insert"
<1>1. CASE InsertLogin(r)
  BY <1>1, GotoType DEF InsertedBy, InsertLogin, At, Wrote
<1>2. CASE InsertSession(r) /\ t \notin Stored
  BY <1>2, GotoType DEF InsertedBy, InsertSession, At, Wrote
<1> QED
  BY <1>1, <1>2 DEF InsertedBy

\* Tokens keep coming from where Origin says.
LEMMA OriginStep ==
    ASSUME TypeInv, Origin, [Next]_vars
    PROVE  Origin'
<1>0. /\ TypeInv' /\ Live \subseteq Tokens /\ Live' \subseteq Tokens
      /\ rows \in [Stored -> Row]
  BY TypeStep DEF TypeInv, TypeOK, Live
<1>1. ASSUME NEW t \in Live', ComesOnce(t)' PROVE Wrote(t)'
  <2>1. t \in Requests /\ ComesOnce(t)
    BY <1>0, <1>1, ComesOnceBack DEF Tokens
  <2>2. CASE t \in Live
    BY <2>1, <2>2, RequestFrame DEF Origin
  <2>3. CASE t \notin Live
    <3>1. t \in Stored' /\ ~Kept(t)
      BY <1>1, <2>3, EndedFrame DEF Live, Kept
    <3>2. PICK r \in Requests : InsertedBy(t, r) \/ ClaimedBy(t, r) \/ MovedBy(t, r)
      BY <3>1, RowsFrame
    <3> QED
      BY <2>1, <2>3, <3>2, InsertWrites, MoveWrites DEF ClaimedBy, Live
  <2> QED
    BY <2>2, <2>3
<1>2. ASSUME NEW t \in Stored', NEW u, u = rows'[t].next, u # None PROVE Promised(u)'
  <2>a. ASSUME NEW x \in Stored, rows[x].next = u PROVE Promised(u)'
    <3>1. u \in Requests /\ Promised(u)
      BY <1>0, <1>2, <2>a DEF Origin, Row, OptToken, Tokens
    <3> QED
      BY <3>1, RequestFrame
  <2>1. CASE Kept(t)
    BY <1>2, <2>1, <2>a DEF Kept
  <2>2. ASSUME NEW r \in Requests, InsertedBy(t, r) PROVE FALSE
    BY <1>2, <2>2 DEF InsertedBy
  <2>3. ASSUME NEW r \in Requests, ClaimedBy(t, r) PROVE Promised(u)'
    <3>1. u = r
      BY <1>2, <2>3 DEF ClaimedBy
    <3> QED
      BY <2>3, <3>1, ClaimPromises DEF Promised
  <2>4. ASSUME NEW r \in Requests, MovedBy(t, r) PROVE Promised(u)'
    BY <1>2, <2>4, <2>a DEF MovedBy
  <2> QED
    BY <2>1, <2>2, <2>3, <2>4, RowsFrame
<1>3. ASSUME NEW r \in Requests, NEW u, u = req'[r].new, u \notin {None, r} PROVE Promised(u)'
  <2>1. u \in Requests
    BY <1>0, <1>3 DEF TypeInv, TypeOK, Request, OptToken, Tokens
  <2>2. Promised(u)
    BY <1>0, <1>3, RequestFrame DEF Origin
  <2> QED
    BY <2>1, <2>2, RequestFrame
<1>4. ASSUME NEW r \in Requests PROVE req'[r].old # r
  <2>1. CASE req'[r].old = req[r].old
    BY <2>1 DEF Origin
  <2>2. ASSUME req[r].op = "none", NEW q \in Requests, req[q].pc = "done",
               req'[r].old = req[q].new
        PROVE  req'[r].old # r
    <3>1. Proper(q, req[q]) /\ Proper(r, req[r])
      BY DEF TypeInv
    <3>2. q # r /\ r # None
      BY <2>2, <3>1, NoneAssumption DEF Proper, CanStand
    <3>3. ~Promised(r)
      BY <2>2 DEF Promised
    <3> QED
      BY <2>2, <3>2, <3>3 DEF Origin
  <2> QED
    BY <2>1, <2>2, RequestFrame
<1>5. \A t \in Stored' : rows'[t].next # None
          => req'[rows'[t].next].op = "session"
             /\ req'[rows'[t].next].pc \in {"insert", "purgeOwn", "done", "failed"}
  BY <1>2 DEF Promised
<1>6. \A r \in Requests : req'[r].new \notin {None, r}
          => req'[req'[r].new].op = "session"
             /\ req'[req'[r].new].pc \in {"insert", "purgeOwn", "done", "failed"}
  BY <1>3 DEF Promised
<1> QED
  BY <1>1, <1>4, <1>5, <1>6 DEF Origin, Promised

\* Initially there is no token.
LEMMA InitOrigin == Init => Origin
<1>1. SUFFICES ASSUME Init PROVE Origin
  OBVIOUS
<1>2. Stored = {} /\ ended = {}
  BY <1>1 DEF Init, Stored
<1> QED
  BY <1>1, <1>2, NoneAssumption DEF Init, Origin, Live

\* A token that had a row and comes once gets no row again.
LEMMA StaysGone ==
    ASSUME TypeInv, Origin, [Next]_vars, NEW t \in Live, ComesOnce(t), t \in Stored'
    PROVE  t \in Stored /\ (Kept(t) \/ \E r \in Requests : ClaimedBy(t, r))
<1>1. Wrote(t)
  BY DEF Origin
<1>2. ASSUME NEW r \in Requests, InsertedBy(t, r) PROVE FALSE
  BY <1>1, <1>2, InsertWrites
<1>3. ASSUME NEW r \in Requests, MovedBy(t, r) PROVE FALSE
  BY <1>1, <1>3, MoveWrites
<1> QED
  BY <1>2, <1>3, RowsFrame DEF Kept, ClaimedBy

\* No token whose row was deleted or moved on gets a row again.
LEMMA NoReturnStep ==
    ASSUME TypeInv, Origin, NoReturn, [Next]_vars
    PROVE  NoReturn'
<1>1. SUFFICES ASSUME NEW t \in Stored' \cap ended', ComesOnce(t)' PROVE FALSE
  BY DEF NoReturn
<1>2. t \in Requests /\ TypeInv'
  BY TypeStep DEF TypeInv, TypeOK, Tokens
<1>3. t \in ended
  BY <1>1, EndedFrame
<1>4. t \in Stored
  BY <1>1, <1>2, <1>3, ComesOnceBack, StaysGone DEF Live
<1> QED
  BY <1>1, <1>2, <1>3, <1>4, ComesOnceBack DEF NoReturn

\* Types, and where tokens come from.
SafeInv == TypeInv /\ Origin /\ NoReturn

\* They are inductive.
LEMMA SafeInductive == Spec => []SafeInv
<1>1. Init => SafeInv
  <2>1. Init => NoReturn
    BY DEF Init, NoReturn
  <2> QED
    BY <2>1, InitType, InitOrigin DEF SafeInv
<1>2. SafeInv /\ [Next]_vars => SafeInv'
  BY TypeStep, OriginStep, NoReturnStep DEF SafeInv
<1> QED
  BY <1>1, <1>2, PTL DEF Spec

\* A session that was deleted, or whose token was replaced, does not come back
\* (NoReturn), whatever refreshes of it were under way.
THEOREM DeletedStayDeleted == Spec => []NoReturn
<1>1. SafeInv => NoReturn
  BY DEF SafeInv
<1> QED
  BY <1>1, SafeInductive, PTL

-----------------------------------------------------------------------------
(* Stateless refreshes.                                                      *)

\* The token that a stateless refresh replaced has no row of its own any more.
Rotated == \A r \in Live : req[r].op = "json" => req[r].old \in ended

\* The token of a stateless refresh gets its first row when the row of the
\* token it refreshes is moved to it.
LEMMA FirstRow ==
    ASSUME TypeInv, Origin, [Next]_vars, NEW r \in Live', r \notin Live,
           req'[r].op = "json"
    PROVE  /\ Move(r) /\ req[r].new = r /\ req[r].old \in Stored
           /\ req[r].old \in ended'
           /\ \A q \in Stored' : q # r => q \in Stored
<1>0. TypeInv' /\ rows \in [Stored -> Row] /\ r \in Requests
  BY TypeStep DEF TypeInv, TypeOK, Live, Tokens
<1>1. r \in Stored' /\ r \notin Stored
  BY EndedFrame DEF Live
<1>2. PICK q \in Requests : InsertedBy(r, q) \/ ClaimedBy(r, q) \/ MovedBy(r, q)
  BY <1>1, RowsFrame DEF Kept
<1>3. ~InsertedBy(r, q)
  BY <1>0, RequestFrame DEF InsertedBy, InsertLogin, InsertSession, At
<1>4. MovedBy(r, q)
  BY <1>1, <1>2, <1>3 DEF ClaimedBy
<1>5. q = r
  BY <1>0, <1>4, MoveWrites, RequestFrame DEF Promised
<1>6. Move(r) /\ req[r].new = r /\ req[r].old \in Stored /\ req[r].old # r
  BY <1>0, <1>4, <1>5 DEF MovedBy, Origin
<1>7. /\ rows' = [u \in (Stored \ {req[r].old}) \cup {r} |->
                     IF u = r THEN [rows[req[r].old] EXCEPT !.expires = req[r].at + SessionTTL]
                     ELSE rows[u]]
      /\ req[r].old \in ended'
  BY <1>1, <1>6 DEF Move
<1> QED
  BY <1>6, <1>7 DEF Stored

\* No stateless refresh gets the row of a token twice.
LEMMA RotationStep ==
    ASSUME SafeInv, Rotated, OneRotation, [Next]_vars
    PROVE  Rotated' /\ OneRotation'
<1>0. TypeInv /\ Origin /\ NoReturn /\ TypeInv' /\ Live \subseteq Requests /\ Live' \subseteq Requests
  BY TypeStep DEF SafeInv, TypeInv, TypeOK, Live, Tokens
<1>1. ASSUME NEW r \in Live, req'[r].op = "json"
      PROVE  req[r].op = "json" /\ req'[r].old = req[r].old /\ req[r].old \in ended
  <2>1. req[r].op # "none"
    BY <1>0 DEF Origin, ComesOnce, Wrote
  <2> QED
    BY <1>0, <1>1, <2>1, RequestFrame DEF Rotated
<1>2. ASSUME NEW r \in Live', req'[r].op = "json"
      PROVE  req'[r].old \in ended'
  <2>1. CASE r \in Live
    BY <1>0, <1>1, <1>2, <2>1, EndedFrame
  <2>2. CASE r \notin Live
    <3>1. req[r].op = "json" /\ req[r].old \in ended'
      BY <1>0, <1>2, <2>2, FirstRow DEF Move, At
    <3> QED
      BY <1>0, <3>1, RequestFrame
  <2> QED
    BY <2>1, <2>2
<1>3. ASSUME NEW r \in Live', req'[r].op = "json"
      PROVE  req[r].op = "json" /\ req'[r].old = req[r].old
  <2>1. CASE r \in Live
    BY <1>1, <1>3, <2>1
  <2>2. CASE r \notin Live
    <3>1. req[r].op = "json"
      BY <1>0, <1>3, <2>2, FirstRow DEF Move, At
    <3> QED
      BY <1>0, <3>1, RequestFrame
  <2> QED
    BY <2>1, <2>2
<1>4. ASSUME NEW r \in Live', NEW q \in Live', r # q,
             req'[r].op = "json", req'[q].op = "json",
             req'[r].old = req'[q].old, NEW t, t = req'[r].old, ComesOnce(t)'
      PROVE  FALSE
  <2>1. t \in ended' /\ t \in Requests
    BY <1>0, <1>2, <1>4 DEF TypeInv, TypeOK, Tokens
  <2>2. ComesOnce(t) /\ req[r].old = t /\ req[q].old = t
    BY <1>0, <1>3, <1>4, <2>1, ComesOnceBack
  <2>3. CASE r \in Live /\ q \in Live
    BY <1>0, <1>3, <1>4, <2>2, <2>3 DEF OneRotation, Live
  <2>4. ASSUME NEW x \in Live', NEW y \in Live', x \notin Live, y \in Live,
               req'[x].op = "json", req[y].op = "json",
               req[x].old = t, req[y].old = t
        PROVE  FALSE
    <3>1. t \in Stored
      BY <1>0, <2>4, FirstRow
    <3>2. t \in ended
      BY <2>4 DEF Rotated
    <3> QED
      BY <1>0, <2>2, <3>1, <3>2 DEF NoReturn
  <2>5. CASE r \notin Live /\ q \notin Live
    <3>1. q \in Stored' /\ q \notin Stored
      BY <1>0, <1>4, <2>5, EndedFrame DEF Live
    <3> QED
      BY <1>0, <1>4, <2>5, <3>1, FirstRow
  <2> QED
    BY <1>3, <1>4, <2>2, <2>3, <2>4, <2>5
<1>5. Rotated'
  BY <1>2 DEF Rotated
<1>6. OneRotation'
  <2>1. SUFFICES ASSUME NEW r \in Requests, NEW q \in Requests, r # q,
                        req'[r].op = "json", req'[q].op = "json",
                        req'[r].old = req'[q].old,
                        "json" \notin Modes \/ req'[req'[r].old].op # "session",
                        r \in Live', q \in Live'
                 PROVE  FALSE
    BY DEF OneRotation, ComesOnce, Live
  <2>2. \A x : x = req'[r].old => ("json" \notin Modes \/ req'[x].op # "session")
    BY <2>1
  <2> QED
    BY <1>4, <2>1, <2>2 DEF ComesOnce
<1> QED
  BY <1>5, <1>6

\* Of the stateless refreshes of one token, one at most gets the session
\* (OneRotation), however their reads and updates interleave.
THEOREM RefreshTokenRotatesOnce == Spec => []OneRotation
<1>1. Init => Rotated /\ OneRotation
  <2>1. SUFFICES ASSUME Init PROVE Rotated /\ OneRotation
    OBVIOUS
  <2>2. Live = {}
    BY <2>1 DEF Init, Live, Stored
  <2> QED
    BY <2>2 DEF Rotated, OneRotation, Live
<1>2. SafeInv /\ Rotated /\ OneRotation /\ [Next]_vars => Rotated' /\ OneRotation'
  BY RotationStep
<1> QED
  BY <1>1, <1>2, SafeInductive, PTL DEF Spec

-----------------------------------------------------------------------------
(* Session refreshes.                                                        *)

\* r refreshes a session that it found, ...
Reading(r) ==
    /\ req[r].op = "session"
    /\ req[r].pc \in {"extend", "claim", "lookup", "insert", "purgeOwn", "done"}

\* ... and has settled which token it will return.
Answering(r) ==
    req[r].op = "session" /\ req[r].pc \in {"extend", "insert", "purgeOwn", "done"}

\* The ways a refresh settles what it returns: the session it read has a
\* successor, it claimed the session, or it reads the one that was faster.
ReadsNext(r) ==
    /\ At(r, "session", "read")
    /\ req[r].old \in Stored /\ rows[req[r].old].next # None
    /\ req'[r].new = rows[req[r].old].next
    /\ UNCHANGED rows
Claims(r) ==
    /\ Claim(r) /\ req[r].new = r /\ req'[r].new = r /\ req'[r].pc = "insert"
    /\ ReturnsRows => ClaimedBy(req[r].old, r)
LooksUp(r) ==
    /\ At(r, "session", "lookup")
    /\ req[r].old \in Stored /\ req'[r].new = rows[req[r].old].next
    /\ UNCHANGED rows

\* There is no other way, and what was settled stays.
LEMMA AnswerFrame ==
    ASSUME TypeInv, [Next]_vars, NEW u \in Requests, req'[u].op = "session"
    PROVE  /\ Reading(u)' => \/ Reading(u)
                             \/ At(u, "session", "read") /\ req[u].old \in Stored
           /\ Answering(u)' => \/ Answering(u) /\ req'[u].new = req[u].new
                               \/ ReadsNext(u) \/ Claims(u) \/ LooksUp(u)
           /\ req'[u].pc = "insert" => req[u].pc = "insert" \/ Claims(u)
           /\ At(u, "session", "lookup")' =>
                \/ At(u, "session", "lookup")
                \/ /\ At(u, "session", "claim") /\ UNCHANGED rows
                   /\ req[u].old \in Stored => rows[req[u].old].next # None
<1>0. /\ req \in [Requests -> Request] /\ Proper(u, req[u]) /\ rows \in [Stored -> Row]
      /\ ReturnsRows \in BOOLEAN
  BY ModesAssumption DEF TypeInv, TypeOK
<1> USE <1>0
<1>1. CASE req'[u] = req[u]
  BY <1>1 DEF Reading, Answering, At
<1>2. CASE Login(u) \/ Refresh(u) \/ Logout(u)
  BY <1>2 DEF Login, Refresh, Logout, Reading, Answering, At, Request
<1>3. ASSUME ReadUser(u) \/ InsertLogin(u) \/ PurgeAll(u) PROVE FALSE
  <2>1. req[u].op = "login"
    BY <1>3 DEF ReadUser, InsertLogin, PurgeAll, At
  <2> QED
    BY <2>1, RequestFrame
<1>4. CASE ReadSession(u)
  <2>1. CASE Goto(u, "failed") \/ Goto(u, "dismiss")
    <3>1. req'[u].pc \in {"failed", "dismiss"}
      BY <2>1, GotoType
    <3> QED
      BY <3>1 DEF Reading, Answering, At
  <2>2. CASE Usable(req[u].old) /\ active
    <3> DEFINE next == rows[req[u].old].next
               new == IF next = None THEN u ELSE next
               pc == CASE req[u].op = "json" -> "move"
                       [] req[u].op = "session" /\ next # None -> "extend"
                       [] req[u].op = "session" /\ next = None -> "claim"
    <3>1. /\ req' = [req EXCEPT ![u] = [@ EXCEPT !.new = new, !.at = now, !.pc = pc]]
          /\ req[u].pc = "read" /\ req[u].old \in Stored /\ UNCHANGED rows
      BY <1>4, <2>2 DEF ReadSession, Usable
    <3> HIDE DEF next
    <3>2. CASE next # None
      <4>1. req[u].op = "session" => pc = "extend"
        BY <3>2
      <4> HIDE DEF pc
      <4>2. req'[u].pc = pc /\ req'[u].new = next /\ req[u].op = "session"
        BY <3>1, <3>2 DEF Request
      <4> QED
        BY <3>1, <3>2, <4>1, <4>2 DEF next, Reading, Answering, ReadsNext, At
    <3>3. CASE next = None
      <4>1. req[u].op = "session" => pc = "claim"
        BY <3>3
      <4> HIDE DEF pc
      <4>2. req'[u].pc = pc /\ req[u].op = "session"
        BY <3>1, <3>3 DEF Request
      <4> QED
        BY <3>1, <4>1, <4>2 DEF Reading, Answering, At
    <3> QED
      BY <3>2, <3>3
  <2> QED
    BY <1>4, <2>1, <2>2 DEF ReadSession
<1>5. CASE Claim(u)
  <2>1. /\ At(u, "session", "claim") /\ req[u].new = u
        /\ req'[u].pc \in {"insert", "lookup"} /\ req'[u].new = req[u].new
    BY <1>5, GotoType DEF Claim, At, Proper
  <2> DEFINE matches == req[u].old \in Stored /\ rows[req[u].old].next = None
  <2>2. CASE matches
    <3>1. req'[u].pc = "insert" /\ rows'[req[u].old].next = u
      BY <1>5, <2>2, GotoType DEF Claim, At
    <3> QED
      BY <1>5, <2>1, <2>2, <3>1 DEF Reading, Answering, Claims, ClaimedBy, At
  <2>3. CASE ~matches /\ ReturnsRows
    <3>1. req'[u].pc = "lookup" /\ UNCHANGED rows
      BY <1>5, <2>3, GotoType DEF Claim, At
    <3> QED
      BY <2>1, <2>3, <3>1 DEF Reading, Answering, At
  <2>4. CASE ~matches /\ ~ReturnsRows
    <3>1. req'[u].pc = "insert"
      BY <1>5, <2>4, GotoType DEF Claim, At
    <3> QED
      BY <1>5, <2>1, <2>4, <3>1 DEF Reading, Answering, Claims, At
  <2> QED
    BY <2>2, <2>3, <2>4
<1>6. CASE Lookup(u)
  <2>1. CASE Goto(u, "failed")
    <3>1. req'[u].pc \in {"failed", "dismiss"}
      BY <2>1, GotoType
    <3> QED
      BY <3>1 DEF Reading, Answering, At
  <2>2. CASE /\ req[u].old \in Stored
             /\ req' = [req EXCEPT ![u] = [@ EXCEPT !.new = rows[req[u].old].next,
                                                    !.pc = "purgeOwn"]]
    <3>1. req'[u].pc = "purgeOwn" /\ req'[u].new = rows[req[u].old].next
          /\ At(u, "session", "lookup") /\ UNCHANGED rows
      BY <1>6, <2>2 DEF Lookup, Request
    <3> QED
      BY <2>2, <3>1 DEF Reading, Answering, LooksUp, At
  <2> QED
    BY <1>6, <2>1, <2>2 DEF Lookup
<1>7. CASE Extend(u) \/ InsertSession(u) \/ PurgeOwn(u)
  <2>1. /\ req[u].pc \in {"extend", "insert", "purgeOwn"}
        /\ req'[u].pc \in {"purgeOwn", "done", "failed"}
        /\ req[u].op = "session" /\ req'[u].new = req[u].new
    <3>1. CASE Extend(u)
      BY <3>1, GotoType DEF Extend, At
    <3>2. CASE InsertSession(u)
      BY <3>2, GotoType DEF InsertSession, At
    <3>3. CASE PurgeOwn(u)
      BY <3>3, GotoType DEF PurgeOwn
    <3> QED
      BY <1>7, <3>1, <3>2, <3>3
  <2> QED
    BY <2>1 DEF Reading, Answering, At
<1>8. CASE Move(u) \/ ReadLogout(u) \/ DeleteSession(u) \/ Dismiss(u) \/ Die(u)
  BY <1>8, GotoType DEF Move, ReadLogout, DeleteSession, Dismiss, Die, Reading, Answering, At
<1> QED
  BY StepsAlone, <1>1, <1>2, <1>3, <1>4, <1>5, <1>6, <1>7, <1>8 DEF Continue

\* A claim is not taken back: the next_token of a row stays while the row does.
LEMMA NextStays ==
    ASSUME SafeInv, [Next]_vars, NEW t \in Live, ComesOnce(t), t \in Stored'
    PROVE  /\ t \in Stored
           /\ rows[t].next # None => rows'[t].next = rows[t].next
           /\ \/ rows'[t].next = rows[t].next
              \/ \E r \in Requests : ClaimedBy(t, r)
  BY StaysGone DEF SafeInv, Kept, ClaimedBy

\* A refresh that has read its session read one that was there, returns a
\* token, and finds a claimed session claimed.
ReadInv ==
    /\ \A r \in Requests : Reading(r) => req[r].old \in Live
    /\ \A r \in Requests : Answering(r) /\ ComesOnce(req[r].old) => req[r].new # None
    /\ \A r \in Requests : At(r, "session", "lookup") /\ ComesOnce(req[r].old)
                              /\ req[r].old \in Stored => rows[req[r].old].next # None

\* The session a refresh has read is the one it read before.
LEMMA OldFrame ==
    ASSUME SafeInv, ReadInv, [Next]_vars, NEW u \in Requests, Reading(u)'
    PROVE  /\ req[u].op = "session" /\ req'[u].old = req[u].old
           /\ req[u].old \in Live /\ req[u].old \in Requests
           /\ \A t : t = req[u].old /\ ComesOnce(t)' => ComesOnce(t)
<1>1. TypeInv /\ Live \subseteq Requests /\ req'[u].op = "session"
  BY DEF SafeInv, TypeInv, TypeOK, Live, Tokens, Reading
<1>2. Reading(u) \/ (At(u, "session", "read") /\ req[u].old \in Stored)
  BY <1>1, AnswerFrame
<1>3. req[u].op = "session" /\ req[u].old \in Live
  BY <1>2 DEF ReadInv, Reading, At, Live
<1> QED
  BY <1>1, <1>3, RequestFrame, ComesOnceBack

\* Refreshes keep reading what is there.
LEMMA ReadStep ==
    ASSUME SafeInv, ReadInv, [Next]_vars
    PROVE  ReadInv'
<1>0. TypeInv /\ (\A r \in Requests : r # None)
  BY NoneAssumption DEF SafeInv
<1>1. ASSUME NEW r \in Requests, Reading(r)' PROVE req'[r].old \in Live'
  BY <1>0, <1>1, OldFrame, LiveGrows
<1>2. ASSUME NEW r \in Requests, Answering(r)', NEW t, t = req'[r].old, ComesOnce(t)'
      PROVE  req'[r].new # None
  <2>1. Reading(r)' /\ req'[r].op = "session"
    BY <1>2 DEF Reading, Answering
  <2>2. t = req[r].old /\ ComesOnce(t)
    BY <1>2, <2>1, OldFrame
  <2>3. CASE Answering(r) /\ req'[r].new = req[r].new
    BY <2>2, <2>3 DEF ReadInv
  <2>4. CASE ReadsNext(r) \/ Claims(r)
    BY <1>0, <2>4 DEF ReadsNext, Claims
  <2>5. CASE LooksUp(r)
    BY <2>2, <2>5 DEF ReadInv, LooksUp
  <2> QED
    BY <1>0, <1>2, <2>1, <2>3, <2>4, <2>5, AnswerFrame
<1>3. ASSUME NEW r \in Requests, At(r, "session", "lookup")', NEW t, t = req'[r].old,
             ComesOnce(t)', t \in Stored'
      PROVE  rows'[t].next # None
  <2>1. Reading(r)' /\ req'[r].op = "session"
    BY <1>3 DEF Reading, At
  <2>2. t = req[r].old /\ ComesOnce(t) /\ t \in Live
    BY <1>3, <2>1, OldFrame
  <2>3. CASE At(r, "session", "lookup")
    <3>1. t \in Stored /\ rows[t].next # None
      BY <1>3, <2>2, <2>3, NextStays DEF ReadInv
    <3> QED
      BY <1>3, <2>2, <3>1, NextStays
  <2>4. CASE UNCHANGED rows /\ (t \in Stored => rows[t].next # None)
    BY <1>3, <2>4 DEF Stored
  <2> QED
    BY <1>0, <1>3, <2>1, <2>2, <2>3, <2>4, AnswerFrame
<1> QED
  <2>1. \A r \in Requests : \A t : t = req'[r].old /\ Answering(r)' /\ ComesOnce(t)' => req'[r].new # None
    BY <1>2
  <2>2. \A r \in Requests : \A t : /\ t = req'[r].old /\ At(r, "session", "lookup")'
                                   /\ ComesOnce(t)' /\ t \in Stored'
                                   => rows'[t].next # None
    BY <1>3
  <2> QED
    BY <1>1, <2>1, <2>2 DEF ReadInv, ComesOnce

\* u has a row or had one, or its request is about to insert one or died.
Backed(u) == u \in Live \/ req[u].pc \in {"insert", "failed"}

\* A token stays backed.
LEMMA BackedStays ==
    ASSUME TypeInv, [Next]_vars, NEW u \in Requests, Backed(u)
    PROVE  Backed(u)'
<1>0. TypeInv' /\ req \in [Requests -> Request] /\ rows \in [Stored -> Row]
  BY TypeStep DEF TypeInv, TypeOK
<1>1. CASE u \in Live
  BY <1>1, LiveGrows DEF Backed
<1>2. CASE req[u].pc = "failed"
  BY <1>2, RequestFrame DEF Backed
<1>3. CASE req[u].pc = "insert"
  <2>1. CASE req'[u] = req[u]
    BY <1>3, <2>1 DEF Backed
  <2>2. CASE InsertLogin(u)
    BY <1>0, <2>2 DEF InsertLogin, With, Backed, Live, Stored
  <2>3. CASE InsertSession(u)
    BY <1>0, <2>3 DEF InsertSession, With, Backed, Live, Stored
  <2>4. CASE Die(u)
    BY <2>4, GotoType DEF Die, Backed
  <2>5. ~Continue(u) \/ InsertLogin(u) \/ InsertSession(u)
    BY <1>3 DEF Continue, ReadUser, PurgeAll, ReadSession, Dismiss, Extend, Claim, Lookup,
       Move, PurgeOwn, ReadLogout, DeleteSession, At
  <2>6. ~Login(u) /\ ~Refresh(u) /\ ~Logout(u)
    BY <1>3 DEF Login, Refresh, Logout
  <2> QED
    BY <2>1, <2>2, <2>3, <2>4, <2>5, <2>6, StepsAlone
<1> QED
  BY <1>1, <1>2, <1>3 DEF Backed

\* Every next_token is backed, and so is what a refresh returns.
BackedInv ==
    /\ \A t \in Stored : rows[t].next # None => Backed(rows[t].next)
    /\ \A r \in Requests : Answering(r) /\ ComesOnce(req[r].old) => Backed(req[r].new)

\* They stay so.
LEMMA BackedStep ==
    ASSUME SafeInv, ReadInv, BackedInv, [Next]_vars
    PROVE  BackedInv'
<1>0. /\ TypeInv /\ ReadInv' /\ Origin /\ TypeInv'
      /\ \A t \in Stored : rows[t].next \in OptToken
      /\ \A r \in Requests : req[r].new \in OptToken
  BY ReadStep, TypeStep DEF SafeInv, TypeInv, TypeOK, Row, Request
<1>1. ASSUME NEW t \in Stored, NEW u, u = rows[t].next, u # None PROVE Backed(u)'
  BY <1>0, <1>1, BackedStays DEF BackedInv, OptToken, Tokens
<1>2. ASSUME NEW t, NEW r \in Requests, ClaimedBy(t, r) PROVE Backed(r)'
  BY <1>0, <1>2, GotoType DEF ClaimedBy, Claim, Backed
<1>3. ASSUME NEW t \in Stored', NEW u, u = rows'[t].next, u # None PROVE Backed(u)'
  <2>1. CASE Kept(t)
    BY <1>1, <1>3, <2>1 DEF Kept
  <2>2. ASSUME NEW r \in Requests, InsertedBy(t, r) PROVE FALSE
    BY <1>3, <2>2 DEF InsertedBy
  <2>3. ASSUME NEW r \in Requests, ClaimedBy(t, r) PROVE Backed(u)'
    <3>1. u = r
      BY <1>3, <2>3 DEF ClaimedBy
    <3> QED
      BY <1>2, <2>3, <3>1 DEF Backed
  <2>4. ASSUME NEW r \in Requests, MovedBy(t, r) PROVE Backed(u)'
    BY <1>1, <1>3, <2>4 DEF MovedBy
  <2> QED
    BY <1>0, <2>1, <2>2, <2>3, <2>4, RowsFrame
<1>4. ASSUME NEW r \in Requests, Answering(r)', NEW t, t = req'[r].old, ComesOnce(t)',
             NEW u, u = req'[r].new
      PROVE  Backed(u)'
  <2>1. Reading(r)' /\ req'[r].op = "session"
    BY <1>4 DEF Reading, Answering
  <2>2. t = req[r].old /\ ComesOnce(t)
    BY <1>4, <2>1, OldFrame
  <2>3. CASE Answering(r) /\ u = req[r].new
    <3>1. Backed(u) /\ u \in Requests
      BY <1>0, <2>2, <2>3 DEF ReadInv, BackedInv, OptToken, Tokens
    <3> QED
      BY <1>0, <3>1, BackedStays
  <2>4. CASE ReadsNext(r) \/ LooksUp(r)
    <3>1. req[r].old \in Stored /\ u = rows[req[r].old].next
      BY <1>4, <2>4 DEF ReadsNext, LooksUp
    <3>2. u # None
      BY <2>2, <2>4, <3>1 DEF ReadsNext, LooksUp, ReadInv
    <3> QED
      BY <1>1, <3>1, <3>2
  <2>5. CASE Claims(r)
    BY <1>4, <2>5 DEF Claims, Backed
  <2> QED
    BY <1>0, <1>4, <2>1, <2>3, <2>4, <2>5, AnswerFrame
<1> QED
  <2>1. \A t \in Stored' : \A u : u = rows'[t].next /\ u # None => Backed(u)'
    BY <1>3
  <2>2. \A r \in Requests : \A t, u : /\ t = req'[r].old /\ u = req'[r].new
                                      /\ Answering(r)' /\ ComesOnce(t)'
                                      => Backed(u)'
    BY <1>4
  <2> QED
    BY <2>1, <2>2 DEF BackedInv, Backed, ComesOnce

\* A token that a refresh returns has a row or will have one, unless the session
\* was deleted or the request that makes it died (ReturnedIsBacked), also where
\* UPDATE returns no rows.
THEOREM ReturnedAreBacked == Spec => []ReturnedIsBacked
<1>1. Init => ReadInv /\ BackedInv
  <2>1. SUFFICES ASSUME Init PROVE ReadInv /\ BackedInv
    OBVIOUS
  <2>2. Stored = {} /\ \A r \in Requests : ~Reading(r) /\ ~Answering(r) /\ ~At(r, "session", "lookup")
    BY <2>1 DEF Init, Stored, Reading, Answering, At
  <2> QED
    BY <2>2 DEF ReadInv, BackedInv
<1>2. SafeInv /\ ReadInv /\ BackedInv /\ [Next]_vars => ReadInv' /\ BackedInv'
  BY ReadStep, BackedStep
<1>3. BackedInv => ReturnedIsBacked
  BY DEF BackedInv, ReturnedIsBacked, Refreshed, Answering, Backed, Live
<1> QED
  BY <1>1, <1>2, <1>3, SafeInductive, PTL DEF Spec

\* Where UPDATE returns rows, the refreshes of one session agree with each other
\* and with its row.
AgreeInv ==
    /\ \A r \in Requests : /\ Answering(r) /\ ComesOnce(req[r].old)
                           /\ req[r].old \in Stored
                           => rows[req[r].old].next = req[r].new
    /\ \A r, q \in Requests : /\ Answering(r) /\ Answering(q)
                              /\ req[r].old = req[q].old /\ ComesOnce(req[r].old)
                              => req[r].new = req[q].new

\* They stay in agreement: who settles an answer reads or writes the row of the
\* session, and who claims it is the first to answer.
LEMMA AgreeStep ==
    ASSUME ReturnsRows, SafeInv, ReadInv, AgreeInv, [Next]_vars
    PROVE  AgreeInv'
<1>0. TypeInv /\ rows \in [Stored -> Row]
  BY DEF SafeInv, TypeInv, TypeOK
<1>1. ASSUME NEW r \in Requests, Answering(r)', NEW t, t = req'[r].old, ComesOnce(t)'
      PROVE  /\ t = req[r].old /\ ComesOnce(t) /\ t \in Live /\ t \in Requests
             /\ \/ Answering(r) /\ req'[r].new = req[r].new
                \/ ReadsNext(r) \/ Claims(r) \/ LooksUp(r)
  <2>1. Reading(r)' /\ req'[r].op = "session"
    BY <1>1 DEF Reading, Answering
  <2> QED
    BY <1>0, <1>1, <2>1, OldFrame, AnswerFrame
\* A settled answer is the successor that the row has after the step.
<1>2. ASSUME NEW r \in Requests, Answering(r)', NEW t, t = req'[r].old, ComesOnce(t)',
             t \in Stored'
      PROVE  rows'[t].next = req'[r].new
  <2>1. CASE Answering(r) /\ req'[r].new = req[r].new
    <3>1. t \in Stored /\ rows[t].next = req[r].new /\ req[r].new # None
      BY <1>1, <1>2, <2>1, NextStays DEF AgreeInv, ReadInv
    <3> QED
      BY <1>1, <1>2, <2>1, <3>1, NextStays
  <2>2. CASE ReadsNext(r) \/ LooksUp(r)
    BY <1>1, <1>2, <2>2 DEF ReadsNext, LooksUp
  <2>3. CASE Claims(r)
    BY <1>1, <1>2, <2>3 DEF Claims, ClaimedBy
  <2> QED
    BY <1>1, <1>2, <2>1, <2>2, <2>3
\* Two answers to a session whose row is there agree through the row; to one
\* whose row is gone both were settled before.
<1>3. ASSUME NEW r \in Requests, NEW q \in Requests, Answering(r)', Answering(q)',
             NEW t, t = req'[r].old, t = req'[q].old, ComesOnce(t)'
      PROVE  req'[r].new = req'[q].new
  <2>1. CASE t \in Stored'
    BY <1>2, <1>3, <2>1
  <2>2. CASE t \notin Stored'
    <3>1. ASSUME NEW x \in Requests, t = req[x].old,
                 ReadsNext(x) \/ Claims(x) \/ LooksUp(x)
          PROVE  FALSE
      <4>1. CASE ReadsNext(x) \/ LooksUp(x)
        BY <2>2, <3>1, <4>1 DEF ReadsNext, LooksUp, Stored
      <4>2. CASE Claims(x)
        BY <1>0, <2>2, <3>1, <4>2 DEF Claims, ClaimedBy, Claim, Stored
      <4> QED
        BY <3>1, <4>1, <4>2
    <3>2. Answering(r) /\ req'[r].new = req[r].new /\ t = req[r].old /\ ComesOnce(t)
      BY <1>1, <1>3, <3>1
    <3>3. Answering(q) /\ req'[q].new = req[q].new /\ t = req[q].old
      BY <1>1, <1>3, <3>1
    <3> QED
      BY <3>2, <3>3 DEF AgreeInv
  <2> QED
    BY <2>1, <2>2
<1> QED
  <2>1. \A r \in Requests : \A t : /\ t = req'[r].old /\ Answering(r)' /\ ComesOnce(t)'
                                   /\ t \in Stored'
                                   => rows'[t].next = req'[r].new
    BY <1>2
  <2>2. \A r, q \in Requests : \A t : /\ t = req'[r].old /\ t = req'[q].old
                                      /\ Answering(r)' /\ Answering(q)' /\ ComesOnce(t)'
                                      => req'[r].new = req'[q].new
    BY <1>3
  <2> QED
    BY <2>1, <2>2 DEF AgreeInv, ComesOnce

\* The token of u is known outside of its request, or u claimed a session for it.
Known(u) ==
    \/ u \in Live
    \/ \E t \in Stored : rows[t].next = u
    \/ \E q \in Requests : q # u /\ req[q].new = u
    \/ req[u].pc = "insert"

\* A token that a session refresh drew is known only once the session it
\* refreshes was claimed for it.
KnownInv ==
    \A u \in Requests : Known(u) /\ req[u].op = "session" =>
        /\ req[u].old \in Live
        /\ ComesOnce(req[u].old) /\ req[u].old \in Stored => rows[req[u].old].next = u

\* A token becomes known by the claim of its request.
LEMMA BecomesKnown ==
    ASSUME ReturnsRows, SafeInv, [Next]_vars, NEW u \in Requests, Known(u)',
           req'[u].op = "session"
    PROVE  /\ req[u].op = "session" /\ req'[u].old = req[u].old
           /\ Known(u) \/ ClaimedBy(req[u].old, u)
<1>0. /\ TypeInv /\ Origin /\ u # None
      /\ \A q \in Requests : req[q] \in Request
  BY NoneAssumption DEF SafeInv, TypeInv, TypeOK
<1>1. ASSUME u \in Live', u \notin Live PROVE Known(u) \/ ClaimedBy(req[u].old, u)
  <2>1. PICK r \in Requests : InsertedBy(u, r) \/ ClaimedBy(u, r) \/ MovedBy(u, r)
    BY <1>0, <1>1, EndedFrame, RowsFrame DEF Live, Kept
  <2>2. CASE InsertedBy(u, r)
    BY <1>0, <2>2, InsertWrites DEF Known
  <2>3. CASE MovedBy(u, r)
    <3>1. req[r].op = "json" /\ req[r].new = u
      BY <1>0, <2>3, MoveWrites DEF MovedBy
    <3>2. r # u
      BY <1>0, <3>1, RequestFrame
    <3> QED
      BY <3>1, <3>2 DEF Known
  <2> QED
    BY <1>1, <2>1, <2>2, <2>3 DEF ClaimedBy, Live
<1>2. ASSUME NEW t \in Stored', rows'[t].next = u
      PROVE  Known(u) \/ ClaimedBy(req[u].old, u)
  <2>1. CASE Kept(t)
    BY <1>2, <2>1 DEF Kept, Known
  <2>2. ASSUME NEW r \in Requests, InsertedBy(t, r) PROVE FALSE
    BY <1>0, <1>2, <2>2 DEF InsertedBy
  <2>3. ASSUME NEW r \in Requests, ClaimedBy(t, r) PROVE ClaimedBy(req[u].old, u)
    BY <1>2, <2>3 DEF ClaimedBy
  <2>4. ASSUME NEW r \in Requests, MovedBy(t, r) PROVE Known(u)
    BY <1>2, <2>4 DEF MovedBy, Known
  <2> QED
    BY <1>0, <2>1, <2>2, <2>3, <2>4, RowsFrame
<1>3. ASSUME NEW q \in Requests, q # u, req'[q].new = u PROVE Known(u)
  BY <1>0, <1>3, RequestFrame DEF Known
<1>4. ASSUME req'[u].pc = "insert", req[u].pc # "insert"
      PROVE  Known(u) \/ ClaimedBy(req[u].old, u)
  BY <1>0, <1>4, AnswerFrame DEF Claims
<1>5. Known(u) \/ ClaimedBy(req[u].old, u)
  BY <1>1, <1>2, <1>3, <1>4 DEF Known
<1>6. req[u].op = "session"
  <2>1. CASE Known(u)
    <3>1. CASE req[u].op = "none"
      <4>1. ~Promised(u) /\ ~Wrote(u) /\ ComesOnce(u) /\ req[u].pc = "idle"
        BY <1>0, <3>1 DEF Promised, Wrote, ComesOnce, TypeInv, Proper, CanStand
      <4> QED
        BY <1>0, <2>1, <4>1 DEF Known, Origin
    <3> QED
      BY <1>0, <3>1, RequestFrame
  <2>2. CASE ClaimedBy(req[u].old, u)
    BY <2>2 DEF ClaimedBy, Claim, At
  <2> QED
    BY <1>5, <2>1, <2>2
<1> QED
  BY <1>0, <1>5, <1>6, RequestFrame

\* It stays claimed for it.
LEMMA KnownStep ==
    ASSUME ReturnsRows, SafeInv, KnownInv, [Next]_vars
    PROVE  KnownInv'
<1>0. TypeInv /\ Live \subseteq Requests /\ \A u \in Requests : u # None
  BY NoneAssumption DEF SafeInv, TypeInv, TypeOK, Live, Tokens
<1>1. ASSUME NEW u \in Requests, Known(u)', req'[u].op = "session", NEW t, t = req'[u].old
      PROVE  /\ t \in Live'
             /\ ComesOnce(t)' /\ t \in Stored' => rows'[t].next = u
  <2>1. req[u].op = "session" /\ t = req[u].old
    BY <1>1, BecomesKnown
  <2>2. CASE Known(u)
    <3>1. t \in Live /\ (ComesOnce(t) /\ t \in Stored => rows[t].next = u)
      BY <2>1, <2>2 DEF KnownInv
    <3>2. ASSUME ComesOnce(t)', t \in Stored' PROVE rows'[t].next = u
      <4>1. ComesOnce(t)
        BY <1>0, <3>1, <3>2, ComesOnceBack
      <4>2. t \in Stored /\ rows[t].next = u
        BY <3>1, <3>2, <4>1, NextStays
      <4> QED
        BY <1>0, <3>1, <3>2, <4>1, <4>2, NextStays
    <3> QED
      BY <1>0, <3>1, <3>2, LiveGrows
  <2>3. CASE ClaimedBy(t, u)
    BY <1>0, <2>3, LiveGrows DEF ClaimedBy, Live
  <2> QED
    BY <1>1, <2>1, <2>2, <2>3, BecomesKnown
<1> QED
  <2>1. \A u \in Requests : \A t : t = req'[u].old /\ Known(u)' /\ req'[u].op = "session" =>
          /\ t \in Live'
          /\ ComesOnce(t)' /\ t \in Stored' => rows'[t].next = u
    BY <1>1
  <2> QED
    BY <2>1 DEF KnownInv, ComesOnce

\* Where UPDATE returns rows, refreshes of one session that succeed return the
\* same new token, however their statements interleave (RefreshesAgree).
THEOREM ConcurrentRefreshesAgree == ReturnsRows => (Spec => []RefreshesAgree)
<1>0. SUFFICES ASSUME ReturnsRows PROVE Spec => []RefreshesAgree
  OBVIOUS
<1>1. Init => ReadInv /\ AgreeInv
  <2>1. SUFFICES ASSUME Init PROVE ReadInv /\ AgreeInv
    OBVIOUS
  <2>2. \A r \in Requests : ~Reading(r) /\ ~Answering(r) /\ ~At(r, "session", "lookup")
    BY <2>1 DEF Init, Reading, Answering, At
  <2> QED
    BY <2>2 DEF ReadInv, AgreeInv
<1>2. SafeInv /\ ReadInv /\ AgreeInv /\ [Next]_vars => ReadInv' /\ AgreeInv'
  BY <1>0, ReadStep, AgreeStep
<1>3. AgreeInv => RefreshesAgree
  BY DEF AgreeInv, RefreshesAgree, Refreshed, Answering
<1> QED
  BY <1>1, <1>2, <1>3, SafeInductive, PTL DEF Spec

\* Where UPDATE returns rows, a session leads to one other session at most
\* (NoFork).
THEOREM SessionsDoNotFork == ReturnsRows => (Spec => []NoFork)
<1>0. SUFFICES ASSUME ReturnsRows PROVE Spec => []NoFork
  OBVIOUS
<1>1. Init => KnownInv
  BY DEF Init, KnownInv
<1>2. SafeInv /\ KnownInv /\ [Next]_vars => KnownInv'
  BY <1>0, KnownStep
<1>3. SafeInv /\ KnownInv => NoFork
  BY DEF SafeInv, TypeInv, TypeOK, Tokens, KnownInv, Known, Live, NoFork
<1> QED
  BY <1>1, <1>2, <1>3, SafeInductive, PTL DEF Spec

=============================================================================
