------------------------------ MODULE Sessions ------------------------------
(***************************************************************************)
(* The sessions of one user: login, refresh and logout of                  *)
(* AuthenticationService (api/src/services/authentication.ts) on the table *)
(* directus_sessions, every statement an SQL statement of its own, outside *)
(* of any transaction.                                                     *)
(*                                                                         *)
(* A token is random and drawn by one request, so it bears that request's  *)
(* name.  A row is its expiry and its next_token.  In mode "session" the   *)
(* token is in a session cookie and a refresh leaves the old row for a     *)
(* grace period, in mode "json" it is a refresh token and is replaced.     *)
(***************************************************************************)
EXTENDS Integers, FiniteSets

CONSTANTS
    Requests,     \* requests to the API; each is made once
    None,         \* SQL NULL, and undefined
    Modes,        \* the modes refreshes are made in
    ReturnsRows,  \* whether UPDATE returns rows (not so on MySQL)
    SessionTTL,   \* how long a row lives after it was written
    GracePeriod,  \* SESSION_REFRESH_GRACE_PERIOD
    MaxTime,      \* bound: the clock stops at MaxTime
    MaxFailures   \* bound: requests that die between two statements

ASSUME NoneAssumption == None \notin Requests
ASSUME ModesAssumption == Modes \subseteq {"session", "json"} /\ ReturnsRows \in BOOLEAN
ASSUME TimeAssumption ==
    /\ SessionTTL \in Nat /\ GracePeriod \in Nat
    /\ MaxTime \in Nat /\ MaxFailures \in Nat

VARIABLES
    rows,      \* directus_sessions: a function from tokens to rows
    req,       \* where each request stands
    active,    \* whether the user's status is 'active'
    now,       \* the clock
    failures,  \* how many requests died so far
    ended      \* history: the tokens whose row was deleted or moved on

vars == <<rows, req, active, now, failures, ended>>

Tokens == Requests
OptToken == Tokens \cup {None}

Row == [expires : Nat, next : OptToken]

Ops == {"none", "login", "session", "json", "logout"}
Pcs == {"idle", "read", "insert", "purgeAll", "dismiss", "extend", "claim", "lookup",
        "move", "purgeOwn", "delete", "done", "failed"}

(* op: what is asked; old: the token sent; new: the one to be returned;    *)
(* at: when Date.now() was read for the expiry of what it will write.      *)
Request == [op : Ops, pc : Pcs, old : OptToken, new : OptToken, at : Nat]

Stored == DOMAIN rows
At(r, op, pc) == req[r].op = op /\ req[r].pc = pc
Goto(r, pc) == req' = [req EXCEPT ![r].pc = pc]

\* The tokens clients were given.
Held == {req[r].new : r \in {q \in Requests : req[q].pc = "done" /\ req[q].op # "logout"}}

Expired(t) == rows[t].expires < now
Usable(t) == t \in Stored /\ ~Expired(t)
Without(T) == [t \in Stored \ T |-> rows[t]]
With(t, row) == [u \in Stored \cup {t} |-> IF u = t THEN row ELSE rows[u]]

Init ==
    /\ rows = [t \in {} |-> [expires |-> 0, next |-> None]]
    /\ req = [r \in Requests |-> [op |-> "none", pc |-> "idle", old |-> None,
                                  new |-> None, at |-> 0]]
    /\ active = TRUE
    /\ now = 0
    /\ failures = 0
    /\ ended = {}

-----------------------------------------------------------------------------
(* login.                                                                  *)

Login(r) ==
    /\ req[r].pc = "idle"
    /\ req' = [req EXCEPT ![r] = [@ EXCEPT !.op = "login", !.pc = "read", !.new = r]]
    /\ UNCHANGED <<rows, active, now, failures, ended>>

\* The user is read; one who is not active is refused.  The expiry of the new
\* session is computed before the filters run, long before the row is written.
ReadUser(r) ==
    /\ At(r, "login", "read")
    /\ req' = [req EXCEPT ![r] = [@ EXCEPT
                  !.at = now, !.pc = IF active THEN "insert" ELSE "failed"]]
    /\ UNCHANGED <<rows, active, now, failures, ended>>

\* Mutant of InsertLogin: a wrong sign.
InsertLoginExpired(r) ==
    /\ At(r, "login", "insert")
    /\ rows' = With(r, [expires |-> req[r].at - SessionTTL, next |-> None])
    /\ Goto(r, "purgeAll")
    /\ UNCHANGED <<active, now, failures, ended>>

InsertLogin(r) ==
    /\ At(r, "login", "insert")
    /\ rows' = With(r, [expires |-> req[r].at + SessionTTL, next |-> None])
    /\ Goto(r, "purgeAll")
    /\ UNCHANGED <<active, now, failures, ended>>

Purge(T) ==
    /\ rows' = Without(T)
    /\ ended' = ended \cup T

\* Every expired session is deleted, whoever's it is.
PurgeAll(r) ==
    /\ At(r, "login", "purgeAll")
    /\ Purge({t \in Stored : Expired(t)})
    /\ Goto(r, "done")
    /\ UNCHANGED <<active, now, failures>>

-----------------------------------------------------------------------------
(* refresh.                                                                *)

Refresh(r) ==
    /\ req[r].pc = "idle"
    /\ \E t \in Held, mode \in Modes :
        req' = [req EXCEPT ![r] = [@ EXCEPT !.op = mode, !.pc = "read", !.old = t]]
    /\ UNCHANGED <<rows, active, now, failures, ended>>

\* The session and its user are read in one query, and the expiry of what
\* will be written is computed.
ReadSession(r) ==
    LET t == req[r].old
        next == rows[t].next
        new == IF next = None THEN r ELSE next
    IN
    /\ req[r].op \in Modes /\ req[r].pc = "read"
    /\ \/ ~Usable(t) /\ Goto(r, "failed")
       \/ Usable(t) /\ ~active /\ Goto(r, "dismiss")
       \/ /\ Usable(t) /\ active
          /\ req' = [req EXCEPT ![r] = [@ EXCEPT
                        !.new = new, !.at = now,
                        !.pc = CASE req[r].op = "json" -> "move"
                                 [] req[r].op = "session" /\ next # None -> "extend"
                                 [] req[r].op = "session" /\ next = None -> "claim"]]
    /\ UNCHANGED <<rows, active, now, failures, ended>>

\* The user was not active: the session is deleted, the refresh refused.
Dismiss(r) ==
    /\ req[r].op \in Modes /\ req[r].pc = "dismiss"
    /\ Purge({req[r].old} \cap Stored)
    /\ Goto(r, "failed")
    /\ UNCHANGED <<active, now, failures>>

\* Mutant of Extend: an upsert.
ExtendUpsert(r) ==
    /\ At(r, "session", "extend")
    /\ rows' = With(req[r].new, [expires |-> req[r].at + SessionTTL, next |-> None])
    /\ Goto(r, "purgeOwn")
    /\ UNCHANGED <<active, now, failures, ended>>

\* Already refreshed: the session it refers to lives longer, if there.
Extend(r) ==
    LET new == req[r].new IN
    /\ At(r, "session", "extend")
    /\ rows' = IF new \in Stored
               THEN [rows EXCEPT ![new].expires = req[r].at + SessionTTL] ELSE rows
    /\ Goto(r, "purgeOwn")
    /\ UNCHANGED <<active, now, failures, ended>>

\* Mutants of Claim: without "AND next_token IS NULL" ...
ClaimAgain(r) ==
    LET t == req[r].old IN
    /\ At(r, "session", "claim")
    /\ rows' = IF t \in Stored
               THEN [rows EXCEPT ![t] = [expires |-> req[r].at + GracePeriod, next |-> r]]
               ELSE rows
    /\ Goto(r, IF t \in Stored THEN "insert" ELSE "lookup")
    /\ UNCHANGED <<active, now, failures, ended>>

\* ... and with the new session's row left out.
ClaimOnly(r) ==
    LET t == req[r].old
        matches == t \in Stored /\ rows[t].next = None
    IN
    /\ At(r, "session", "claim")
    /\ rows' = IF matches
               THEN [rows EXCEPT ![t] = [expires |-> req[r].at + GracePeriod, next |-> r]]
               ELSE rows
    /\ Goto(r, IF matches THEN "purgeOwn" ELSE "lookup")
    /\ UNCHANGED <<active, now, failures, ended>>

\* UPDATE ... WHERE token = old AND next_token IS NULL.  Where UPDATE returns
\* no rows, `updatedSession.length === 0` is false whatever it matched.
Claim(r) ==
    LET t == req[r].old
        matches == t \in Stored /\ rows[t].next = None
    IN
    /\ At(r, "session", "claim")
    /\ rows' = IF matches
               THEN [rows EXCEPT ![t] = [expires |-> req[r].at + GracePeriod, next |-> r]]
               ELSE rows
    /\ Goto(r, IF matches \/ ~ReturnsRows THEN "insert" ELSE "lookup")
    /\ UNCHANGED <<active, now, failures, ended>>

\* Mutant of Lookup: the request returns the token it drew itself.
LookupOwn(r) ==
    /\ At(r, "session", "lookup")
    /\ Goto(r, IF req[r].old \in Stored THEN "purgeOwn" ELSE "failed")
    /\ UNCHANGED <<rows, active, now, failures, ended>>

\* Somebody else refreshed in between: return the next_token they stored; a
\* row that is gone makes the destructuring throw.
Lookup(r) ==
    LET t == req[r].old IN
    /\ At(r, "session", "lookup")
    /\ \/ /\ t \in Stored
          /\ req' = [req EXCEPT ![r] = [@ EXCEPT !.new = rows[t].next, !.pc = "purgeOwn"]]
       \/ t \notin Stored /\ Goto(r, "failed")
    /\ UNCHANGED <<rows, active, now, failures, ended>>

\* The new session is inserted under the new token, the primary key: a row
\* that a stateless refresh moved there makes it fail.
InsertSession(r) ==
    /\ At(r, "session", "insert")
    /\ rows' = IF r \in Stored THEN rows
               ELSE With(r, [expires |-> req[r].at + SessionTTL, next |-> None])
    /\ Goto(r, IF r \in Stored THEN "failed" ELSE "purgeOwn")
    /\ UNCHANGED <<active, now, failures, ended>>

\* Mutant of Move: a new row when there is none to update.
MoveOrInsert(r) ==
    LET t == req[r].old IN
    /\ At(r, "json", "move")
    /\ rows' = [u \in (Stored \ {t}) \cup {req[r].new} |->
                   IF u = req[r].new
                   THEN [expires |-> req[r].at + SessionTTL, next |-> None] ELSE rows[u]]
    /\ ended' = ended \cup ({t} \cap Stored)
    /\ Goto(r, "purgeOwn")
    /\ UNCHANGED <<active, now, failures>>

\* Stateless: the row's token is replaced.  The token is the primary key: one
\* that is taken fails.  Without a row nothing is updated.
Move(r) ==
    LET t == req[r].old
        new == req[r].new
        conflict == t \in Stored /\ new # t /\ new \in Stored
    IN
    /\ At(r, "json", "move")
    /\ rows' = IF t \in Stored /\ ~conflict
               THEN [u \in (Stored \ {t}) \cup {new} |->
                        IF u = new THEN [rows[t] EXCEPT !.expires = req[r].at + SessionTTL]
                        ELSE rows[u]]
               ELSE rows
    /\ ended' = IF t \in Stored /\ ~conflict THEN ended \cup ({t} \ {new}) ELSE ended
    /\ Goto(r, IF conflict THEN "failed" ELSE "purgeOwn")
    /\ UNCHANGED <<active, now, failures>>

\* The user's expired sessions are deleted and the token is returned.
PurgeOwn(r) ==
    /\ req[r].op \in Modes /\ req[r].pc = "purgeOwn"
    /\ Purge({t \in Stored : Expired(t)})
    /\ Goto(r, "done")
    /\ UNCHANGED <<active, now, failures>>

-----------------------------------------------------------------------------
(* logout.                                                                 *)

Logout(r) ==
    /\ req[r].pc = "idle"
    /\ \E t \in Held :
        req' = [req EXCEPT ![r] = [@ EXCEPT !.op = "logout", !.pc = "read", !.old = t]]
    /\ UNCHANGED <<rows, active, now, failures, ended>>

\* The session's user is read, expired or not; none means nothing to do.
ReadLogout(r) ==
    /\ At(r, "logout", "read")
    /\ Goto(r, IF req[r].old \in Stored THEN "delete" ELSE "done")
    /\ UNCHANGED <<rows, active, now, failures, ended>>

DeleteSession(r) ==
    /\ At(r, "logout", "delete")
    /\ Purge({req[r].old} \cap Stored)
    /\ Goto(r, "done")
    /\ UNCHANGED <<active, now, failures>>

-----------------------------------------------------------------------------
(* The surroundings.                                                       *)

\* A statement fails or the process dies: the request ends where it stands.
Die(r) ==
    /\ req[r].pc \notin {"idle", "done", "failed"}
    /\ failures < MaxFailures
    /\ failures' = failures + 1
    /\ Goto(r, "failed")
    /\ UNCHANGED <<rows, active, now, ended>>

\* An administrator suspends or reactivates the user.
SetStatus ==
    /\ active' = ~active
    /\ UNCHANGED <<rows, req, now, failures, ended>>

Tick ==
    /\ now < MaxTime
    /\ now' = now + 1
    /\ UNCHANGED <<rows, req, active, failures, ended>>

Continue(r) ==
    \/ ReadUser(r) \/ InsertLogin(r) \/ PurgeAll(r)
    \/ ReadSession(r) \/ Dismiss(r) \/ Extend(r) \/ Claim(r) \/ Lookup(r) \/ InsertSession(r)
    \/ Move(r) \/ PurgeOwn(r)
    \/ ReadLogout(r) \/ DeleteSession(r)

Next ==
    \/ \E r \in Requests : Login(r) \/ Refresh(r) \/ Logout(r) \/ Continue(r) \/ Die(r)
    \/ SetStatus
    \/ Tick

Spec == Init /\ [][Next]_vars

(* A request that was accepted runs on: each of its statements returns.    *)
FairSpec == Spec /\ \A r \in Requests : WF_vars(Continue(r))

-----------------------------------------------------------------------------
(* Properties.                                                             *)

TypeOK ==
    /\ Stored \subseteq Tokens /\ rows \in [Stored -> Row]
    /\ req \in [Requests -> Request]
    /\ active \in BOOLEAN /\ now \in Nat /\ failures \in Nat
    /\ ended \subseteq Tokens

\* r has returned a token for a refresh in the given mode.
Refreshed(r, mode) == req[r].op = mode /\ req[r].pc = "done"

(* t names one row in all its life.  Not so a token that a session refresh *)
(* stored as a next_token where sessions are refreshed in both modes: a    *)
(* stateless refresh moves the old row to it, before its own is inserted   *)
(* or after that was deleted.                                              *)
ComesOnce(t) == "json" \notin Modes \/ req[t].op # "session"

(* Refreshes of one session that succeed return the same new token, in     *)
(* whatever order their statements interleave: no tab of a browser is left *)
(* on a session of its own.                                                *)
RefreshesAgree ==
    \A r, q \in Requests :
        /\ Refreshed(r, "session") /\ Refreshed(q, "session")
        /\ req[r].old = req[q].old /\ ComesOnce(req[r].old)
        => req[r].new = req[q].new

(* A session leads to one other session at most: the row of a refreshed    *)
(* session refers to every row that was made from it.                      *)
NoFork ==
    \A r \in Stored :
        req[r].op = "session" /\ req[r].old \in Stored /\ ComesOnce(req[r].old)
            => rows[req[r].old].next = r

(* A session that was deleted, or whose token was replaced, does not come  *)
(* back.                                                                   *)
NoReturn == \A t \in Stored \cap ended : ~ComesOnce(t)

(* Of the stateless refreshes of one token, one at most gets the session.  *)
OneRotation ==
    \A r, q \in Requests :
        /\ r # q /\ req[r].op = "json" /\ req[q].op = "json"
        /\ req[r].old = req[q].old /\ ComesOnce(req[r].old)
        => ~({r, q} \subseteq Stored \cup ended)

(* A token that a refresh returns has a row or will have one, unless the   *)
(* session was deleted or the request that makes it died.                  *)
ReturnedIsBacked ==
    \A r \in Requests : Refreshed(r, "session") /\ ComesOnce(req[r].old) =>
        \/ req[r].new \in Stored \cup ended
        \/ req[req[r].new].pc \in {"insert", "failed"}

(* The next_token of a session gets a row of its own, unless the request   *)
(* that makes it died.                                                     *)
SuccessorAppears ==
    \A t, u \in Tokens :
        (t \in Stored /\ rows[t].next = u)
            ~> (u \in Stored \cup ended \/ req[u].pc = "failed")

(* The grace period is there "preventing race conditions in refresh        *)
(* calls": a token that a refresh returns is one that can be used.         *)
ReturnedWorks ==
    \A r \in Requests :
        Refreshed(r, "session") => req[r].new \in Stored \cup ended
=============================================================================
