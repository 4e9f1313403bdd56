------------------------------- MODULE Accounts -------------------------------
(***************************************************************************)
(* Users and sessions: internal/models/users.go and sessions.go, the       *)
(* middleware of internal/auth that turns a token into a user, and the     *)
(* handlers that log in and out, change a password and manage users.       *)
(*                                                                         *)
(* Each statement of the database is one action, and the statements of     *)
(* concurrent requests interleave: no handler holds a transaction.  Of a   *)
(* password we keep how often it was changed.  User ids and tokens are     *)
(* never given out twice.                                                  *)
(***************************************************************************)
EXTENDS Integers, FiniteSets

CONSTANTS
    Users, Tokens, Handlers, None,
    TTL,          \* lifetime of a session
    Zone,         \* offset of the server's local time from UTC
    Horizon,      \* bound: the last moment considered
    MaxRequests,  \* bound: requests in a behaviour
    MaxChanges,   \* bound: password changes of a user
    MaxFaults     \* bound: failed statements whose error is ignored

\* The rows of the sessions table: when a session was opened and ends, and the
\* password of its user at that time.
Sessions == [user : Users, born : Int, expires : Int, pw : 0 .. MaxChanges]

ASSUME AccountsAssumption ==
    /\ IsFiniteSet(Users)
    /\ None \notin Users \cup Tokens \cup Sessions
    /\ TTL \in Nat \ {0} /\ Zone \in Int
    /\ Horizon \in Nat /\ MaxRequests \in Nat /\ MaxChanges \in Nat /\ MaxFaults \in Nat

VARIABLES
    clock,
    user,      \* the users table
    sess,      \* the sessions table, by token
    issued,    \* the tokens given out
    req,       \* what each handler is doing
    requests, faults,
    kept,      \* history: the token that the user's last change kept
    excused,   \* history: sessions of logins that a change overtook, or that
               \*   a failed statement left
    shaken     \* history: handlers whose view of the admins is out of date or
               \*   that failed to read the role

vars == <<clock, user, sess, issued, req, requests, faults, kept, excused, shaken>>

-----------------------------------------------------------------------------
Roles == {"admin", "viewer"}
UserRows == [life : {"none", "on", "gone"}, role : Roles, pw : 0 .. MaxChanges]
Ops == {"change", "count", "setrole", "create"}
PCs == {"idle", "login", "user", "revoke", "role", "delete"} \cup Ops

\* A request: its token, its user (who), the user it is about, what it has
\* read of the passwords or the admins, and the operation it comes to.
Idle == [pc |-> "idle", op |-> "change", token |-> None, who |-> None,
         target |-> None, seen |-> 0]

On(u) == user[u].life = "on"
Admins == {u \in Users : On(u) /\ user[u].role = "admin"}
Live == {t \in Tokens : sess[t] # None}
Of(u) == {t \in Live : sess[t].user = u}

\* CreateSession stores local time, which is read back as UTC.
Expires(t) == t + TTL + Zone
Expired_late(t) == clock > sess[t].expires + 1
Expired(t) == clock > sess[t].expires

Init ==
    /\ clock = 0
    /\ user \in [Users -> [life : {"none", "on"}, role : Roles, pw : {0}]]
    /\ Admins # {}
    /\ sess \in [Tokens -> {None} \cup
                    [user : {u \in Users : On(u)}, born : {0}, expires : {Expires(0)}, pw : {0}]]
    /\ issued = Live
    /\ req = [h \in Handlers |-> Idle]
    /\ requests = 0 /\ faults = 0
    /\ kept = [u \in Users |-> None]
    /\ excused = {} /\ shaken = {}

-----------------------------------------------------------------------------
Accept(h) ==
    /\ req[h].pc = "idle"
    /\ requests < MaxRequests
    /\ requests' = requests + 1

Goto(h, pc) == req' = [req EXCEPT ![h].pc = pc]
Done(h) == req' = [req EXCEPT ![h] = Idle]

\* The sessions in S are deleted.
Delete(S) == sess' = [t \in Tokens |-> IF t \in S THEN None ELSE sess[t]]

Tick ==
    /\ clock < Horizon
    /\ clock' = clock + 1
    /\ UNCHANGED <<user, sess, issued, req, requests, faults, kept, excused, shaken>>

\* handleLogin reads the user and finds the password right.
Login(h, u) ==
    /\ Accept(h)
    /\ On(u)
    /\ req' = [req EXCEPT ![h] = [Idle EXCEPT !.pc = "login", !.who = u, !.seen = user[u].pw]]
    /\ UNCHANGED <<clock, user, sess, issued, faults, kept, excused, shaken>>

\* A session refers to its user; it is refused when that is gone.
Refused(u) == ~On(u)

\* CreateSession.
LoginInsert(h) == LET u == req[h].who IN
    /\ req[h].pc = "login"
    /\ \/ Refused(u) /\ UNCHANGED <<sess, issued, excused>>
       \/ \E t \in Tokens \ issued :
            /\ ~Refused(u)
            /\ sess' = [sess EXCEPT ![t] = [user |-> u, born |-> clock,
                                            expires |-> Expires(clock), pw |-> req[h].seen]]
            /\ issued' = issued \cup {t}
            /\ excused' = IF req[h].seen # user[u].pw THEN excused \cup {t} ELSE excused
    /\ Done(h)
    /\ UNCHANGED <<clock, user, requests, faults, kept, shaken>>

\* handleLogout needs no valid session.
Logout(h, t) ==
    /\ Accept(h)
    /\ Delete({t})
    /\ UNCHANGED <<clock, user, issued, req, faults, kept, excused, shaken>>

\* ValidateSession reads the row of the token, and deletes it if it is over.
Authenticate(h, t, op) ==
    /\ Accept(h)
    /\ t \in Live
    /\ IF Expired(t)
       THEN Delete({t}) /\ UNCHANGED req
       ELSE /\ req' = [req EXCEPT ![h] = [Idle EXCEPT !.pc = "user", !.op = op, !.token = t,
                                                      !.who = sess[t].user]]
            /\ UNCHANGED sess
    /\ UNCHANGED <<clock, user, issued, faults, kept, excused, shaken>>

\* Then it reads the user.  All but the change of one's own password is for
\* admins: the role is taken from the claims, not read again.
GetUserByID(h) == LET u == req[h].who IN
    /\ req[h].pc = "user"
    /\ IF On(u) /\ (req[h].op # "change" => user[u].role = "admin")
       THEN Goto(h, req[h].op)
       ELSE Done(h)
    /\ UNCHANGED <<clock, user, sess, issued, requests, faults, kept, excused, shaken>>

\* handleChangePassword, first statement.  It changes nothing if the user is gone.
UpdateUserPassword(h) == LET u == req[h].who IN
    /\ req[h].pc = "change"
    /\ user[u].pw < MaxChanges
    /\ user' = IF On(u) THEN [user EXCEPT ![u].pw = @ + 1] ELSE user
    /\ Goto(h, "revoke")
    /\ UNCHANGED <<clock, sess, issued, requests, faults, kept, excused, shaken>>

\* The sessions that a change of u's password, asked for with token t, ends.
Others_equal(u, t) == Of(u) \cap {t}
Others(u, t) == Of(u) \ {t}

\* Second statement; its error is ignored.
RevokeOtherUserSessions(h) == LET u == req[h].who IN
    /\ req[h].pc = "revoke"
    /\ Delete(Others(u, req[h].token))
    /\ kept' = [kept EXCEPT ![u] = req[h].token]
    /\ excused' = {t \in excused : t \in Live /\ sess[t].user # u}
    /\ Done(h)
    /\ UNCHANGED <<clock, user, issued, requests, faults, shaken>>

RevokeFails(h) ==
    /\ req[h].pc = "revoke"
    /\ faults < MaxFaults
    /\ faults' = faults + 1
    /\ excused' = excused \cup Of(req[h].who)
    /\ Done(h)
    /\ UNCHANGED <<clock, user, sess, issued, requests, kept, shaken>>

-----------------------------------------------------------------------------
(* The management of users.                                                *)

\* history: those who are about to act on what they have read of the admins.
Shake(h) ==
    shaken' = IF Admins' = Admins THEN shaken \ {h}
              ELSE (shaken \ {h}) \cup {g \in Handlers \ {h} : req[g].pc \in {"role", "delete"}}

\* DeleteUser counts the admins, then reads the role of the user, and deletes.
\* The errors of both reads are ignored: without a count there are none, and
\* without a role the user is no admin.
CountAdmins(h) == \E u \in Users :
    /\ req[h].pc = "count"
    /\ \/ /\ req' = [req EXCEPT ![h].pc = "role", ![h].target = u,
                                ![h].seen = Cardinality(Admins)]
          /\ UNCHANGED faults
       \/ /\ faults < MaxFaults
          /\ faults' = faults + 1
          /\ req' = [req EXCEPT ![h].pc = "role", ![h].target = u, ![h].seen = 0]
    /\ UNCHANGED <<clock, user, sess, issued, requests, kept, excused, shaken>>

LastAdmin_off(h) == req[h].target \in Admins /\ req[h].seen < 1
LastAdmin(h) == req[h].target \in Admins /\ req[h].seen <= 1

ReadRole(h) ==
    /\ req[h].pc = "role"
    /\ IF LastAdmin(h)
       THEN Done(h) /\ shaken' = shaken \ {h}
       ELSE Goto(h, "delete") /\ UNCHANGED shaken
    /\ UNCHANGED <<clock, user, sess, issued, requests, faults, kept, excused>>

ReadRoleFails(h) ==
    /\ req[h].pc = "role"
    /\ faults < MaxFaults
    /\ faults' = faults + 1
    /\ Goto(h, "delete")
    /\ shaken' = shaken \cup {h}
    /\ UNCHANGED <<clock, user, sess, issued, requests, kept, excused>>

\* The sessions of the user go with the row.
DeleteUser(h) == LET u == req[h].target IN
    /\ req[h].pc = "delete"
    /\ user' = IF On(u) THEN [user EXCEPT ![u].life = "gone"] ELSE user
    /\ Delete(Of(u))
    /\ Shake(h)
    /\ Done(h)
    /\ UNCHANGED <<clock, issued, requests, faults, kept, excused>>

UpdateUserRole(h) == \E u \in Users, role \in Roles :
    /\ req[h].pc = "setrole"
    /\ user' = IF On(u) THEN [user EXCEPT ![u].role = role] ELSE user
    /\ Shake(h)
    /\ Done(h)
    /\ UNCHANGED <<clock, sess, issued, requests, faults, kept, excused>>

CreateUser(h) == \E u \in Users, role \in Roles :
    /\ req[h].pc = "create"
    /\ user[u].life = "none"
    /\ user' = [user EXCEPT ![u] = [life |-> "on", role |-> role, pw |-> 0]]
    /\ Shake(h)
    /\ Done(h)
    /\ UNCHANGED <<clock, sess, issued, requests, faults, kept, excused>>

\* The hourly pruner.
PruneExpiredSessions ==
    /\ Delete({t \in Live : Expired(t)})
    /\ UNCHANGED <<clock, user, issued, req, requests, faults, kept, excused, shaken>>

-----------------------------------------------------------------------------
HandlerStep(h) ==
    \/ \E u \in Users : Login(h, u)
    \/ \E t \in Tokens : Logout(h, t) \/ \E op \in Ops : Authenticate(h, t, op)
    \/ LoginInsert(h) \/ GetUserByID(h)
    \/ UpdateUserPassword(h) \/ RevokeOtherUserSessions(h) \/ RevokeFails(h)
    \/ CountAdmins(h) \/ ReadRole(h) \/ ReadRoleFails(h) \/ DeleteUser(h)
    \/ UpdateUserRole(h) \/ CreateUser(h)

Next == Tick \/ PruneExpiredSessions \/ \E h \in Handlers : HandlerStep(h)

Spec == Init /\ [][Next]_vars

-----------------------------------------------------------------------------
(* Properties.                                                             *)

TypeOK ==
    /\ clock \in 0 .. Horizon
    /\ user \in [Users -> UserRows]
    /\ sess \in [Tokens -> Sessions \cup {None}]
    /\ Live \subseteq issued /\ issued \subseteq Tokens
    /\ req \in [Handlers -> [pc : PCs, op : Ops, token : Tokens \cup {None},
                             who : Users \cup {None}, target : Users \cup {None}, seen : Nat]]
    /\ \A h \in Handlers :
          /\ req[h].pc # "idle" => req[h].who # None
          /\ req[h].pc \in {"role", "delete"} => req[h].target # None
    /\ requests \in 0 .. MaxRequests /\ faults \in 0 .. MaxFaults
    /\ kept \in [Users -> Tokens \cup {None}]
    /\ excused \subseteq issued /\ shaken \subseteq Handlers

\* A session that was opened with an earlier password of its user.
Old(t) == sess[t].pw < user[sess[t].user].pw
Changing(u) == \E h \in Handlers : req[h].pc = "revoke" /\ req[h].who = u

\* README.md:45, "Password change revokes all other sessions but keeps the
\* current browser logged in": once a change is complete, the only session that
\* is left from before is the one it was asked for with, whatever requests cross
\* each other, unless a login was between checking the old password and opening
\* its session, or the revocation failed.
OldSessionsRevoked ==
    \A t \in Live \ excused : Old(t) => Changing(sess[t].user) \/ kept[sess[t].user] = t

\* users.go:103, "cannot delete last admin": no deletion of an admin leaves
\* none, unless the set of admins changed since the deletion counted them, or
\* the role of the user could not be read.
Deletes(h) == req[h].pc = "delete" /\ req[h].target \in Admins /\ req'[h].pc = "idle"
CountedAdminStays == [][\A h \in Handlers \ shaken : Deletes(h) => Admins' # {}]_vars

\* Session t ends at the wish of a user: by logout (a request with a valid token
\* removes its session in no other way), password change, deletion of the user.
Ends(t) == \E h \in Handlers :
    \/ Logout(h, t) /\ ~Expired(t)
    \/ req[h].pc = "revoke" /\ req[h].who = sess[t].user
    \/ req[h].pc = "delete" /\ req[h].target = sess[t].user

\* README.md:43, "24h lifetime", as the server keeps it: longer by its offset
\* from UTC to the east, and shorter to the west.  For that time a session is
\* accepted, and not after; and it does not end before, unless somebody ends it,
\* whatever requests and pruners cross each other.
OverAt(t) == sess[t].born + TTL + Zone

SessionLifetime ==
    [][/\ \A h \in Handlers :
             req[h].pc = "idle" /\ req'[h].pc = "user" => clock <= OverAt(req'[h].token)
       /\ \A t \in Live : sess'[t] = None => clock > OverAt(t) \/ Ends(t)]_vars
=============================================================================
