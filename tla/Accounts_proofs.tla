--------------------------- MODULE Accounts_proofs ---------------------------
(* Proofs about Accounts: its types, that a change of the password leaves no *)
(* other session, that the last administrator stays, and how long a session  *)
(* lives, for any users, tokens and concurrent requests.                     *)
EXTENDS Accounts, FiniteSetTheorems, TLAPS

-----------------------------------------------------------------------------
(* Types.                                                                  *)

Requests == [pc : PCs, op : Ops, token : Tokens \cup {None},
             who : Users \cup {None}, target : Users \cup {None}, seen : Nat]

\* There are finitely many administrators.
LEMMA AdminsFinite == IsFiniteSet(Admins) /\ Cardinality(Admins) \in Nat
<1>1. Admins \subseteq Users
  BY DEF Admins
<1>. QED
  BY <1>1, AccountsAssumption, FS_Subset, FS_CardinalityType

LEMMA IdleTyped == Idle \in Requests
BY DEF Idle, Requests, PCs, Ops

LEMMA InitType == Init => TypeOK
<1>. SUFFICES ASSUME Init
              PROVE  TypeOK
  OBVIOUS
<1>1. user \in [Users -> UserRows]
  BY AccountsAssumption DEF Init, UserRows, Roles
<1>2. sess \in [Tokens -> Sessions \cup {None}]
  BY AccountsAssumption DEF Init, Sessions, Expires
<1>3. req \in [Handlers -> Requests]
  BY IdleTyped DEF Init
<1>4. \A h \in Handlers : req[h].pc = "idle"
  BY DEF Init, Idle
<1>. QED
  BY <1>1, <1>2, <1>3, <1>4, AccountsAssumption DEF Init, TypeOK, Requests, Live

\* Deleting sessions adds none.
LEMMA DeleteType ==
  ASSUME TypeOK, NEW S, Delete(S)
  PROVE  /\ sess' \in [Tokens -> Sessions \cup {None}]
         /\ Live' = Live \ S
         /\ \A t \in Live' : sess'[t] = sess[t]
BY DEF TypeOK, Delete, Live

\* What an action of a handler does to the requests.
LEMMA RequestType ==
  ASSUME TypeOK, NEW h \in Handlers, NEW r \in Requests,
         req' = [req EXCEPT ![h] = r],
         r.pc # "idle" => r.who # None,
         r.pc \in {"role", "delete"} => r.target # None
  PROVE  /\ req' \in [Handlers -> Requests]
         /\ \A g \in Handlers :
               /\ req'[g].pc # "idle" => req'[g].who # None
               /\ req'[g].pc \in {"role", "delete"} => req'[g].target # None
BY DEF TypeOK, Requests

LEMMA DoneType ==
  ASSUME TypeOK, NEW h \in Handlers, Done(h)
  PROVE  /\ req' \in [Handlers -> Requests]
         /\ \A g \in Handlers :
               /\ req'[g].pc # "idle" => req'[g].who # None
               /\ req'[g].pc \in {"role", "delete"} => req'[g].target # None
BY IdleTyped, RequestType DEF Done, Idle

\* A login remembers a password that the user has had.
LoginSeen == \A h \in Handlers : req[h].pc = "login" => req[h].seen \in 0 .. MaxChanges

TypeInv == TypeOK /\ LoginSeen

\* The part of the types that an action which leaves the requests alone, or
\* sets the one of h, keeps.
Requested ==
    /\ req \in [Handlers -> Requests]
    /\ \A h \in Handlers :
          /\ req[h].pc # "idle" => req[h].who # None
          /\ req[h].pc \in {"role", "delete"} => req[h].target # None
    /\ LoginSeen

LEMMA RequestKept ==
  ASSUME TypeInv, NEW h \in Handlers, NEW r \in Requests,
         req' = [req EXCEPT ![h] = r],
         r.pc # "idle" => r.who # None,
         r.pc \in {"role", "delete"} => r.target # None,
         r.pc = "login" => r.seen \in 0 .. MaxChanges
  PROVE  Requested'
BY RequestType DEF TypeInv, TypeOK, LoginSeen, Requested, Requests

LEMMA DoneKept ==
  ASSUME TypeInv, NEW h \in Handlers, Done(h)
  PROVE  Requested'
BY IdleTyped, RequestKept DEF Done, Idle

LEMMA GotoKept ==
  ASSUME TypeInv, NEW h \in Handlers, NEW pc \in PCs, Goto(h, pc),
         pc \notin {"idle", "login"}, req[h].pc # "idle",
         pc \in {"role", "delete"} => req[h].target # None
  PROVE  Requested'
<1>. DEFINE r == [req[h] EXCEPT !.pc = pc]
<1>1. req[h] \in Requests /\ req[h].who # None
  BY DEF TypeInv, TypeOK, Requests
<1>2. /\ r \in Requests /\ r.pc = pc
      /\ r.who = req[h].who /\ r.target = req[h].target
  BY <1>1 DEF Requests
<1>3. req' = [req EXCEPT ![h] = r]
  BY DEF Goto, TypeInv, TypeOK
<1>. HIDE DEF r
<1>. QED
  BY <1>1, <1>2, <1>3, RequestKept

LEMMA RequestsAlone == TypeInv /\ UNCHANGED req => Requested'
BY DEF TypeInv, TypeOK, LoginSeen, Requested, Requests

\* The rest of the types.
Stored ==
    /\ clock \in 0 .. Horizon
    /\ user \in [Users -> UserRows]
    /\ sess \in [Tokens -> Sessions \cup {None}]
    /\ Live \subseteq issued /\ issued \subseteq Tokens
    /\ requests \in 0 .. MaxRequests /\ faults \in 0 .. MaxFaults
    /\ kept \in [Users -> Tokens \cup {None}]
    /\ excused \subseteq issued /\ shaken \subseteq Handlers

LEMMA TypeParts == TypeInv <=> Stored /\ Requested
BY DEF TypeInv, TypeOK, Stored, Requested, Requests

LEMMA DeleteStored ==
  ASSUME TypeInv, NEW S, Delete(S)
  PROVE  sess' \in [Tokens -> Sessions \cup {None}] /\ Live' \subseteq issued
BY DeleteType DEF TypeInv, TypeOK

LEMMA ShakeTyped ==
  ASSUME TypeInv, NEW h \in Handlers, Shake(h)
  PROVE  shaken' \subseteq Handlers
BY DEF Shake, TypeInv, TypeOK

LEMMA NextType == TypeInv /\ [Next]_vars => TypeInv'
<1>. SUFFICES ASSUME TypeInv, [Next]_vars
              PROVE  Stored' /\ Requested'
  BY DEF TypeInv, TypeOK, Stored, Requested, Requests
<1>0. Stored /\ Requested
  BY TypeParts
<1>1. CASE Tick
  BY <1>0, <1>1, RequestsAlone, AccountsAssumption DEF Tick, Stored, Live
<1>2. CASE PruneExpiredSessions
  BY <1>0, <1>2, RequestsAlone, DeleteStored DEF PruneExpiredSessions, Stored
<1>3. ASSUME NEW h \in Handlers, NEW u \in Users, Login(h, u)
      PROVE  Stored' /\ Requested'
  <2>. DEFINE r == [Idle EXCEPT !.pc = "login", !.who = u, !.seen = user[u].pw]
  <2>1. user[u].pw \in 0 .. MaxChanges /\ user[u].pw \in Nat
    BY <1>0, AccountsAssumption DEF Stored, UserRows
  <2>2. r \in Requests
    BY <2>1, IdleTyped DEF Idle, Requests, PCs
  <2>3. r.pc = "login" /\ r.who = u /\ r.seen = user[u].pw
    BY IdleTyped DEF Requests
  <2>4. req' = [req EXCEPT ![h] = r] /\ u # None
    BY <1>3, AccountsAssumption DEF Login
  <2>. HIDE DEF r
  <2>5. Requested'
    BY <2>1, <2>2, <2>3, <2>4, RequestKept
  <2>. QED
    BY <1>0, <1>3, <2>5, AccountsAssumption DEF Login, Accept, Stored, Live
<1>4. ASSUME NEW h \in Handlers, NEW t \in Tokens, Logout(h, t)
      PROVE  Stored' /\ Requested'
  <2>1. sess' \in [Tokens -> Sessions \cup {None}] /\ Live' \subseteq issued
    BY <1>4, DeleteStored DEF Logout
  <2>. QED
    BY <1>0, <1>4, <2>1, RequestsAlone, AccountsAssumption DEF Logout, Accept, Stored
<1>5. ASSUME NEW h \in Handlers, NEW t \in Tokens, NEW op \in Ops, Authenticate(h, t, op)
      PROVE  Stored' /\ Requested'
  <2>1. t \in Live /\ sess[t] \in Sessions
    BY <1>0, <1>5 DEF Authenticate, Stored, Live
  <2>2. sess' \in [Tokens -> Sessions \cup {None}] /\ Live' \subseteq issued
    BY <1>0, <1>5, DeleteStored DEF Authenticate, Stored, Live
  <2>. DEFINE r == [Idle EXCEPT !.pc = "user", !.op = op, !.token = t, !.who = sess[t].user]
  <2>3. r \in Requests /\ r.pc = "user" /\ r.who # None
    BY <2>1, IdleTyped, AccountsAssumption DEF Idle, Requests, PCs, Sessions
  <2>4. UNCHANGED req \/ req' = [req EXCEPT ![h] = r]
    BY <1>5 DEF Authenticate
  <2>. HIDE DEF r
  <2>5. Requested'
    BY <2>3, <2>4, RequestKept, RequestsAlone
  <2>. QED
    BY <1>0, <1>5, <2>2, <2>5, AccountsAssumption DEF Authenticate, Accept, Stored
<1>6. ASSUME NEW h \in Handlers, LoginInsert(h)
      PROVE  Stored' /\ Requested'
  <2>1. req[h].who \in Users /\ req[h].seen \in 0 .. MaxChanges /\ Requested'
    BY <1>0, <1>6, DoneKept DEF LoginInsert, Requested, LoginSeen, Requests
  <2>2. CASE UNCHANGED <<sess, issued, excused>>
    BY <1>0, <1>6, <2>1, <2>2 DEF LoginInsert, Stored, Live
  <2>3. ASSUME NEW t \in Tokens \ issued, NEW row \in Sessions,
               sess' = [sess EXCEPT ![t] = row], issued' = issued \cup {t},
               excused' \in {excused, excused \cup {t}}
        PROVE  Stored'
    BY <1>0, <1>6, <2>3 DEF LoginInsert, Stored, Live
  <2>4. clock \in Int /\ Expires(clock) \in Int
    BY <1>0, AccountsAssumption DEF Stored, Expires
  <2>5. [user |-> req[h].who, born |-> clock, expires |-> Expires(clock),
         pw |-> req[h].seen] \in Sessions
    BY <2>1, <2>4 DEF Sessions
  <2>. QED
    BY <1>6, <2>1, <2>2, <2>3, <2>5 DEF LoginInsert
<1>7. ASSUME NEW h \in Handlers, GetUserByID(h)
      PROVE  Stored' /\ Requested'
  <2>1. req[h].op \in PCs /\ req[h].op \notin {"idle", "login", "role", "delete"}
    BY <1>0 DEF Requested, Requests, PCs, Ops
  <2>2. Requested'
    BY <1>7, <2>1, GotoKept, DoneKept DEF GetUserByID
  <2>. QED
    BY <1>0, <1>7, <2>2 DEF GetUserByID, Stored, Live
<1>8. ASSUME NEW h \in Handlers, UpdateUserPassword(h)
      PROVE  Stored' /\ Requested'
  <2>1. Requested' /\ req[h].who \in Users
    BY <1>0, <1>8, GotoKept DEF UpdateUserPassword, PCs, Requested, Requests
  <2>2. user' \in [Users -> UserRows]
    BY <1>0, <1>8, <2>1, AccountsAssumption DEF UpdateUserPassword, Stored, UserRows
  <2>. QED
    BY <1>0, <1>8, <2>1, <2>2 DEF UpdateUserPassword, Stored, Live
<1>9. ASSUME NEW h \in Handlers, RevokeOtherUserSessions(h)
      PROVE  Stored' /\ Requested'
  <2>1. Requested' /\ req[h].who \in Users /\ req[h].token \in Tokens \cup {None}
    BY <1>0, <1>9, DoneKept DEF RevokeOtherUserSessions, Requested, Requests
  <2>2. sess' \in [Tokens -> Sessions \cup {None}] /\ Live' \subseteq issued
    BY <1>9, DeleteStored DEF RevokeOtherUserSessions
  <2>. QED
    BY <1>0, <1>9, <2>1, <2>2 DEF RevokeOtherUserSessions, Stored
<1>10. ASSUME NEW h \in Handlers, RevokeFails(h)
       PROVE  Stored' /\ Requested'
  BY <1>0, <1>10, DoneKept, AccountsAssumption DEF RevokeFails, Stored, Live, Of
<1>11. ASSUME NEW h \in Handlers, CountAdmins(h)
       PROVE  Stored' /\ Requested'
  <2>1. PICK u \in Users, n \in Nat :
             req' = [req EXCEPT ![h].pc = "role", ![h].target = u, ![h].seen = n]
    BY <1>11, AdminsFinite DEF CountAdmins
  <2>. DEFINE r == [req[h] EXCEPT !.pc = "role", !.target = u, !.seen = n]
  <2>2. r \in Requests /\ r.pc = "role" /\ r.target # None /\ r.who = req[h].who
    BY <1>0, <2>1, AccountsAssumption DEF Requested, Requests, PCs
  <2>3. req[h].who # None
    BY <1>0, <1>11 DEF CountAdmins, Requested
  <2>4. req' = [req EXCEPT ![h] = r]
    BY <1>0, <2>1 DEF Requested
  <2>. HIDE DEF r
  <2>5. Requested'
    BY <2>2, <2>3, <2>4, RequestKept
  <2>. QED
    BY <1>0, <1>11, <2>5, AccountsAssumption DEF CountAdmins, Stored, Live
<1>12. ASSUME NEW h \in Handlers, ReadRole(h) \/ ReadRoleFails(h)
       PROVE  Stored' /\ Requested'
  <2>1. Requested'
    BY <1>0, <1>12, GotoKept, DoneKept DEF ReadRole, ReadRoleFails, PCs, Requested
  <2>. QED
    BY <1>0, <1>12, <2>1, AccountsAssumption DEF ReadRole, ReadRoleFails, Stored, Live
<1>13. ASSUME NEW h \in Handlers, DeleteUser(h)
       PROVE  Stored' /\ Requested'
  <2>1. Requested' /\ req[h].target \in Users /\ shaken' \subseteq Handlers
    BY <1>0, <1>13, DoneKept, ShakeTyped DEF DeleteUser, Requested, Requests
  <2>2. sess' \in [Tokens -> Sessions \cup {None}] /\ Live' \subseteq issued
    BY <1>13, DeleteStored DEF DeleteUser
  <2>3. user' \in [Users -> UserRows]
    BY <1>0, <1>13, <2>1, SMTT(30) DEF DeleteUser, Stored, UserRows
  <2>. QED
    BY <1>0, <1>13, <2>1, <2>2, <2>3 DEF DeleteUser, Stored
<1>14. ASSUME NEW h \in Handlers, UpdateUserRole(h) \/ CreateUser(h)
       PROVE  Stored' /\ Requested'
  <2>1. Requested' /\ shaken' \subseteq Handlers
    BY <1>14, DoneKept, ShakeTyped DEF UpdateUserRole, CreateUser
  <2>2. user' \in [Users -> UserRows]
    BY <1>0, <1>14, AccountsAssumption DEF UpdateUserRole, CreateUser, Stored, UserRows
  <2>. QED
    BY <1>0, <1>14, <2>1, <2>2 DEF UpdateUserRole, CreateUser, Stored, Live
<1>15. CASE UNCHANGED vars
  BY <1>0, <1>15, RequestsAlone DEF vars, Stored, Live
<1>. QED
  BY <1>1, <1>2, <1>3, <1>4, <1>5, <1>6, <1>7, <1>8, <1>9, <1>10, <1>11,
     <1>12, <1>13, <1>14, <1>15 DEF Next, HandlerStep

LEMMA TypeInvariant == Spec => []TypeInv
<1>1. Init => TypeInv
  BY InitType DEF TypeInv, LoginSeen, Init, Idle
<1>. QED
  BY <1>1, NextType, PTL DEF Spec

\* Every table, request and history of Accounts keeps its type, for any users,
\* tokens and number of concurrent requests: every live session is of a token
\* that was issued, and every request under way knows whom it is about.
THEOREM TypeCorrect == Spec => []TypeOK
BY TypeInvariant, PTL DEF TypeInv

-----------------------------------------------------------------------------
(* A change of the password.                                               *)

OldInv == TypeInv /\ OldSessionsRevoked

\* The requests of the other handlers are left as they are.
OthersWait(h) == \A g \in Handlers \ {h} : req'[g] = req[g]

\* A change of a password stays under way until its own handler moves on.
LEMMA ChangingKept ==
  ASSUME NEW h \in Handlers, OthersWait(h), NEW u,
         Changing(u), req[h].pc = "revoke" => req[h].who # u
  PROVE  Changing(u)'
BY DEF OthersWait, Changing

\* An action that opens no session, raises no password and ends no change.
LEMMA NoNewOld ==
  ASSUME OldInv, TypeInv', kept' = kept,
         \A t \in Live' : t \in Live /\ sess'[t] = sess[t],
         Live' \cap excused \subseteq excused',
         \A u \in Users : user'[u].pw <= user[u].pw,
         \A u \in Users : Changing(u) => Changing(u)'
  PROVE  OldSessionsRevoked'
<1>. SUFFICES ASSUME NEW t \in (Live \ excused)', Old(t)'
              PROVE  Changing(sess[t].user)' \/ kept'[sess'[t].user] = t
  BY DEF OldSessionsRevoked
<1>1. t \in Live \ excused /\ sess'[t] = sess[t] /\ sess[t] \in Sessions
  BY DEF OldInv, TypeInv, TypeOK, Live
<1>2. sess[t].user \in Users /\ sess[t].pw \in Int
  BY <1>1, AccountsAssumption DEF Sessions
<1>3. \A u \in Users : user[u].pw \in Int /\ user'[u].pw \in Int
  BY AccountsAssumption DEF OldInv, TypeInv, TypeOK, UserRows
<1>4. Old(t)
  BY <1>1, <1>2, <1>3 DEF Old
<1>5. Changing(sess[t].user) \/ kept[sess[t].user] = t
  BY <1>1, <1>4 DEF OldInv, OldSessionsRevoked
<1>. QED
  BY <1>1, <1>2, <1>5

\* Every handler's action leaves the others' requests.
LEMMA OneAtATime ==
  ASSUME TypeInv, NEW h \in Handlers, HandlerStep(h)
  PROVE  OthersWait(h)
BY DEF TypeInv, TypeOK, OthersWait, HandlerStep, Login, Logout, Authenticate, LoginInsert,
       GetUserByID, UpdateUserPassword, RevokeOtherUserSessions, RevokeFails, CountAdmins,
       ReadRole, ReadRoleFails, DeleteUser, UpdateUserRole, CreateUser, Goto, Done

LEMMA NextOld == OldInv /\ [Next]_vars => OldInv'
<1>. SUFFICES ASSUME OldInv, [Next]_vars
              PROVE  OldSessionsRevoked'
  BY NextType DEF OldInv
<1>0. TypeInv /\ TypeInv'
  BY NextType DEF OldInv
<1>a. \A u \in Users : user[u].pw \in Nat /\ user[u].life \in {"none", "on", "gone"}
  BY <1>0, AccountsAssumption DEF TypeInv, TypeOK, UserRows
<1>b. ASSUME UNCHANGED <<user, req, kept, excused>>, NEW S, Delete(S)
      PROVE  OldSessionsRevoked'
  <2>1. \A u \in Users : Changing(u) => Changing(u)'
    BY <1>b DEF Changing
  <2>. QED
    BY <1>0, <1>a, <1>b, <2>1, DeleteType, NoNewOld DEF TypeInv
<1>1. CASE Tick \/ UNCHANGED vars
  <2>1. UNCHANGED <<user, sess, req, kept, excused>>
    BY <1>1 DEF Tick, vars
  <2>2. \A u \in Users : Changing(u) => Changing(u)'
    BY <2>1 DEF Changing
  <2>. QED
    BY <1>0, <1>a, <2>1, <2>2, NoNewOld DEF Live
<1>2. CASE PruneExpiredSessions
  BY <1>2, <1>b DEF PruneExpiredSessions
<1>3. ASSUME NEW h \in Handlers, NEW t \in Tokens, Logout(h, t)
      PROVE  OldSessionsRevoked'
  BY <1>3, <1>b DEF Logout
<1>c. ASSUME NEW h \in Handlers, HandlerStep(h), req[h].pc # "revoke",
             kept' = kept, excused' = excused,
             \A t \in Live' : t \in Live /\ sess'[t] = sess[t],
             \A u \in Users : user'[u].pw <= user[u].pw
      PROVE  OldSessionsRevoked'
  <2>1. \A u \in Users : Changing(u) => Changing(u)'
    BY <1>0, <1>c, OneAtATime, ChangingKept
  <2>. QED
    BY <1>0, <1>c, <2>1, NoNewOld
<1>4. ASSUME NEW h \in Handlers, HandlerStep(h), kept' = kept, excused' = excused,
             UNCHANGED <<user, sess>>, req[h].pc # "revoke"
      PROVE  OldSessionsRevoked'
  BY <1>a, <1>c, <1>4 DEF Live
<1>5. ASSUME NEW h \in Handlers, NEW u \in Users, Login(h, u)
      PROVE  OldSessionsRevoked'
  BY <1>4, <1>5 DEF Login, Accept, HandlerStep
<1>6. ASSUME NEW h \in Handlers, NEW t \in Tokens, NEW op \in Ops, Authenticate(h, t, op)
      PROVE  OldSessionsRevoked'
  <2>1. \A s \in Live' : s \in Live /\ sess'[s] = sess[s]
    BY <1>0, <1>6, DeleteType DEF Authenticate, TypeInv, Live
  <2>2. HandlerStep(h)
    BY <1>6 DEF HandlerStep
  <2>. QED
    BY <1>a, <1>c, <1>6, <2>1, <2>2 DEF Authenticate, Accept
<1>7. ASSUME NEW h \in Handlers,
             GetUserByID(h) \/ CountAdmins(h) \/ ReadRole(h) \/ ReadRoleFails(h)
      PROVE  OldSessionsRevoked'
  <2>1. HandlerStep(h)
    BY <1>7 DEF HandlerStep
  <2>. QED
    BY <1>4, <1>7, <2>1 DEF GetUserByID, CountAdmins, ReadRole, ReadRoleFails
<1>8. ASSUME NEW h \in Handlers, LoginInsert(h)
      PROVE  OldSessionsRevoked'
  <2>1. CASE UNCHANGED <<sess, issued, excused>>
    BY <1>4, <1>8, <2>1 DEF LoginInsert, HandlerStep
  <2>2. ASSUME NEW t \in Tokens \ issued, NEW row \in Sessions,
               sess' = [sess EXCEPT ![t] = row], row.user = req[h].who, row.pw = req[h].seen,
               excused' = IF req[h].seen # user[req[h].who].pw THEN excused \cup {t}
                                                               ELSE excused
        PROVE  OldSessionsRevoked'
    <3>1. SUFFICES ASSUME NEW s \in (Live \ excused)', Old(s)'
                   PROVE  Changing(sess[s].user)' \/ kept'[sess'[s].user] = s
      BY DEF OldSessionsRevoked
    <3>2. CASE s = t
      <4>1. sess'[s] = row /\ user' = user
        BY <1>0, <1>8, <2>2, <3>2 DEF LoginInsert, TypeInv, TypeOK
      <4>2. req[h].seen = user[req[h].who].pw
        BY <2>2, <3>1, <3>2
      <4>3. req[h].who \in Users
        BY <2>2 DEF Sessions
      <4>. QED
        BY <1>a, <2>2, <3>1, <4>1, <4>2, <4>3 DEF Old
    <3>3. CASE s # t
      <4>1. s \in Live \ excused /\ sess'[s] = sess[s] /\ UNCHANGED <<user, kept>>
        BY <1>0, <1>8, <2>2, <3>1, <3>3 DEF LoginInsert, TypeInv, TypeOK, Live
      <4>2. Changing(sess[s].user) \/ kept[sess[s].user] = s
        BY <3>1, <4>1 DEF OldInv, OldSessionsRevoked, Old
      <4>3. \A u \in Users : Changing(u) => Changing(u)'
        BY <1>0, <1>8, OneAtATime, ChangingKept DEF LoginInsert, HandlerStep
      <4>4. sess[s].user \in Users
        BY <1>0, <4>1 DEF TypeInv, TypeOK, Live, Sessions
      <4>. QED
        BY <4>1, <4>2, <4>3, <4>4
    <3>. QED
      BY <3>2, <3>3
  <2>3. req[h].who \in Users /\ req[h].seen \in 0 .. MaxChanges
        /\ clock \in Int /\ Expires(clock) \in Int
    BY <1>0, <1>8, AccountsAssumption DEF LoginInsert, TypeInv, TypeOK, LoginSeen, Expires
  <2>. DEFINE row == [user |-> req[h].who, born |-> clock,
                      expires |-> Expires(clock), pw |-> req[h].seen]
  <2>4. row \in Sessions /\ row.user = req[h].who /\ row.pw = req[h].seen
    BY <2>3 DEF Sessions
  <2>. HIDE DEF row
  <2>5. UNCHANGED <<sess, issued, excused>>
        \/ \E t \in Tokens \ issued :
              /\ sess' = [sess EXCEPT ![t] = row]
              /\ excused' = IF req[h].seen # user[req[h].who].pw THEN excused \cup {t}
                                                                ELSE excused
    BY <1>8 DEF LoginInsert, row
  <2>. QED
    BY <2>1, <2>2, <2>4, <2>5
<1>9. ASSUME NEW h \in Handlers, UpdateUserPassword(h)
      PROVE  OldSessionsRevoked'
  <2>0. PICK u \in Users : u = req[h].who
    BY <1>0, <1>9 DEF UpdateUserPassword, TypeInv, TypeOK
  <2>1. /\ req'[h].pc = "revoke" /\ req'[h].who = u
        /\ UNCHANGED <<sess, kept, excused>>
    BY <1>0, <1>9, <2>0 DEF UpdateUserPassword, Goto, TypeInv, TypeOK
  <2>2. Changing(u)'
    BY <2>1 DEF Changing
  <2>3. \A v \in Users \ {u} : user'[v] = user[v]
    BY <1>0, <1>9, <2>0 DEF UpdateUserPassword, TypeInv, TypeOK
  <2>4. \A v \in Users : Changing(v) => Changing(v)'
    BY <1>0, <1>9, OneAtATime, ChangingKept DEF UpdateUserPassword, HandlerStep
  <2>5. SUFFICES ASSUME NEW t \in (Live \ excused)', Old(t)'
                 PROVE  Changing(sess[t].user)' \/ kept'[sess'[t].user] = t
    BY DEF OldSessionsRevoked
  <2>6. t \in Live \ excused /\ sess'[t] = sess[t] /\ sess[t].user \in Users
    BY <1>0, <2>1, <2>5 DEF TypeInv, TypeOK, Live, Sessions
  <2>7. CASE sess[t].user = u
    BY <2>2, <2>6, <2>7
  <2>8. CASE sess[t].user # u
    BY <2>1, <2>3, <2>4, <2>5, <2>6, <2>8 DEF Old, OldInv, OldSessionsRevoked
  <2>. QED
    BY <2>7, <2>8
<1>10. ASSUME NEW h \in Handlers, RevokeOtherUserSessions(h)
       PROVE  OldSessionsRevoked'
  <2>. DEFINE u == req[h].who
  <2>1. SUFFICES ASSUME NEW t \in (Live \ excused)', Old(t)'
                 PROVE  Changing(sess[t].user)' \/ kept'[sess'[t].user] = t
    BY DEF OldSessionsRevoked
  <2>2. /\ t \in Live \ Others(u, req[h].token)
        /\ sess'[t] = sess[t] /\ UNCHANGED user
        /\ u \in Users
    BY <1>0, <1>10, <2>1, DeleteType DEF RevokeOtherUserSessions, TypeInv, TypeOK
  <2>3. CASE sess[t].user = u
    <3>1. t = req[h].token
      BY <2>2, <2>3 DEF Others, Of
    <3>. QED
      BY <1>0, <1>10, <2>2, <2>3, <3>1 DEF RevokeOtherUserSessions, TypeInv, TypeOK
  <2>4. CASE sess[t].user # u
    <3>1. t \notin excused /\ Old(t)
      BY <1>10, <2>1, <2>2, <2>4 DEF RevokeOtherUserSessions, Old
    <3>2. Changing(sess[t].user) \/ kept[sess[t].user] = t
      BY <2>2, <3>1 DEF OldInv, OldSessionsRevoked
    <3>3. Changing(sess[t].user) => Changing(sess[t].user)'
      BY <1>0, <1>10, <2>2, <2>4, OneAtATime, ChangingKept DEF HandlerStep
    <3>4. kept'[sess[t].user] = kept[sess[t].user]
      BY <1>0, <1>10, <2>2, <2>4 DEF RevokeOtherUserSessions, TypeInv, TypeOK, Live, Sessions
    <3>. QED
      BY <2>2, <3>2, <3>3, <3>4
  <2>. QED
    BY <2>3, <2>4
<1>11. ASSUME NEW h \in Handlers, RevokeFails(h)
       PROVE  OldSessionsRevoked'
  <2>1. SUFFICES ASSUME NEW t \in (Live \ excused)', Old(t)'
                 PROVE  Changing(sess[t].user)' \/ kept'[sess'[t].user] = t
    BY DEF OldSessionsRevoked
  <2>2. /\ UNCHANGED <<user, sess, kept>>
        /\ t \in Live \ excused /\ sess[t].user # req[h].who
    BY <1>11, <2>1 DEF RevokeFails, Live, Of
  <2>3. Changing(sess[t].user) => Changing(sess[t].user)'
    BY <1>0, <1>11, <2>2, OneAtATime, ChangingKept DEF HandlerStep
  <2>. QED
    BY <2>1, <2>2, <2>3 DEF OldInv, OldSessionsRevoked, Old
<1>12. ASSUME NEW h \in Handlers, DeleteUser(h)
       PROVE  OldSessionsRevoked'
  <2>1. \A t \in Live' : t \in Live /\ sess'[t] = sess[t]
    BY <1>0, <1>12, DeleteType DEF DeleteUser, TypeInv
  <2>2. \A u \in Users : user'[u].pw <= user[u].pw
    BY <1>0, <1>a, <1>12 DEF DeleteUser, TypeInv, TypeOK, UserRows
  <2>. QED
    BY <1>c, <1>12, <2>1, <2>2 DEF DeleteUser, HandlerStep
<1>13. ASSUME NEW h \in Handlers, UpdateUserRole(h) \/ CreateUser(h)
       PROVE  OldSessionsRevoked'
  <2>1. \A u \in Users : user'[u].pw <= user[u].pw
    BY <1>0, <1>a, <1>13 DEF UpdateUserRole, CreateUser, TypeInv, TypeOK, UserRows
  <2>2. \A t \in Live' : t \in Live /\ sess'[t] = sess[t]
    BY <1>13 DEF UpdateUserRole, CreateUser, Live
  <2>. QED
    BY <1>c, <1>13, <2>1, <2>2 DEF UpdateUserRole, CreateUser, HandlerStep
<1>. QED
  BY <1>1, <1>2, <1>3, <1>5, <1>6, <1>7, <1>8, <1>9, <1>10, <1>11, <1>12, <1>13
  DEF Next, HandlerStep

\* README.md:45: once a change of a password is complete, no session from before
\* is left but the one it was asked for with, for any number of users, sessions
\* and requests that cross each other.
THEOREM OldSessionsGone == Spec => []OldSessionsRevoked
<1>1. Init => OldInv
  <2>. SUFFICES ASSUME Init
                PROVE  OldSessionsRevoked /\ LoginSeen
    BY InitType DEF OldInv, TypeInv
  <2>1. \A t \in Live : sess[t].user \in Users /\ sess[t].pw = 0
    BY DEF Init, Live
  <2>2. \A u \in Users : user[u].pw = 0
    BY DEF Init
  <2>. QED
    BY <2>1, <2>2 DEF OldSessionsRevoked, Old, LoginSeen, Init, Idle
<1>2. OldInv => OldSessionsRevoked
  BY DEF OldInv
<1>. QED
  BY <1>1, <1>2, NextOld, PTL DEF Spec

-----------------------------------------------------------------------------
(* The last administrator.                                                 *)

\* What a handler that is not shaken has found out about the administrators:
\* their number, or nothing; and, when it is to delete one, that there is another.
Known(h) ==
    /\ req[h].pc = "role" => req[h].seen \in {0, Cardinality(Admins)}
    /\ req[h].pc = "delete" /\ req[h].target \in Admins => Cardinality(Admins) > 1
CountInv == TypeInv /\ \A h \in Handlers \ shaken : Known(h)

\* Only the management of users changes who is an administrator.
LEMMA AdminsKept ==
  ASSUME TypeInv, [Next]_vars
  PROVE  Admins' = Admins \/ \E h \in Handlers : Shake(h) /\ Done(h)
<1>. USE DEF Admins, On
<1>1. CASE \E h \in Handlers : UpdateUserPassword(h)
  <2>1. PICK h \in Handlers : UpdateUserPassword(h)
    BY <1>1
  <2>2. \A u \in Users : user'[u].life = user[u].life /\ user'[u].role = user[u].role
    BY <2>1 DEF UpdateUserPassword, TypeInv, TypeOK, UserRows
  <2>. QED
    BY <2>2
<1>2. CASE \E h \in Handlers : DeleteUser(h) \/ UpdateUserRole(h) \/ CreateUser(h)
  BY <1>2 DEF DeleteUser, UpdateUserRole, CreateUser
<1>3. CASE ~(\E h \in Handlers : \/ UpdateUserPassword(h) \/ DeleteUser(h)
                                 \/ UpdateUserRole(h) \/ CreateUser(h))
  BY <1>3 DEF Next, HandlerStep, Tick, PruneExpiredSessions, Login, Logout, Authenticate,
              LoginInsert, GetUserByID, RevokeOtherUserSessions, RevokeFails, CountAdmins,
              ReadRole, ReadRoleFails, vars
<1>. QED
  BY <1>1, <1>2, <1>3

LEMMA NextCount == CountInv /\ [Next]_vars => CountInv'
<1>. SUFFICES ASSUME CountInv, [Next]_vars, NEW g \in (Handlers \ shaken)'
              PROVE  Known(g)'
  BY NextType DEF CountInv
<1>0. TypeInv /\ g \in Handlers
  BY DEF CountInv
<1>a. ASSUME UNCHANGED <<user, shaken>>, req'[g] = req[g]
      PROVE  Known(g)'
  BY <1>0, <1>a DEF CountInv, Known, Admins, On
<1>1. CASE \E h \in Handlers : Shake(h) /\ Done(h)
  <2>1. PICK h \in Handlers : Shake(h) /\ Done(h)
    BY <1>1
  <2>2. CASE g = h
    BY <1>0, <2>1, <2>2 DEF Done, Idle, Known, TypeInv, TypeOK
  <2>3. CASE g # h
    <3>1. req'[g] = req[g]
      BY <1>0, <2>1, <2>3 DEF Done, TypeInv, TypeOK
    <3>2. CASE Admins' = Admins
      <4>1. g \notin shaken
        BY <2>1, <2>3, <3>2 DEF Shake
      <4>. QED
        BY <1>0, <3>1, <3>2, <4>1 DEF CountInv, Known
    <3>3. CASE Admins' # Admins
      BY <1>0, <2>1, <2>3, <3>1, <3>3 DEF Shake, Known
    <3>. QED
      BY <3>2, <3>3
  <2>. QED
    BY <2>2, <2>3
<1>2. CASE ~\E h \in Handlers : Shake(h) /\ Done(h)
  <2>1. Admins' = Admins
    BY <1>0, <1>2, AdminsKept
  <2>2. ASSUME NEW h \in Handlers, CountAdmins(h)
        PROVE  Known(g)'
    <3>1. CASE g = h
      BY <1>0, <2>1, <2>2, <3>1 DEF CountAdmins, Known, TypeInv, TypeOK
    <3>2. CASE g # h
      BY <1>0, <2>1, <2>2, <3>2 DEF CountAdmins, Known, CountInv, TypeInv, TypeOK
    <3>. QED
      BY <3>1, <3>2
  <2>3. ASSUME NEW h \in Handlers, ReadRole(h)
        PROVE  Known(g)'
    <3>1. CASE g = h /\ LastAdmin(h)
      BY <1>0, <2>3, <3>1 DEF ReadRole, Done, Idle, Known, TypeInv, TypeOK
    <3>2. CASE g = h /\ ~LastAdmin(h)
      <4>1. req'[h] = [req[h] EXCEPT !.pc = "delete"] /\ h \notin shaken
        BY <1>0, <2>3, <3>2 DEF ReadRole, Goto, TypeInv, TypeOK
      <4>2. req'[h].pc = "delete" /\ req'[h].target = req[h].target
        BY <1>0, <4>1 DEF TypeInv, TypeOK
      <4>3. req[h].seen \in {0, Cardinality(Admins)}
        BY <1>0, <2>3, <3>2, <4>1 DEF ReadRole, CountInv, Known
      <4>. QED
        BY <2>1, <3>2, <4>2, <4>3, AdminsFinite DEF Known, LastAdmin
    <3>3. CASE g # h
      BY <1>0, <2>1, <2>3, <3>3 DEF ReadRole, Goto, Done, Known, CountInv, TypeInv, TypeOK
    <3>. QED
      BY <3>1, <3>2, <3>3
  <2>4. ASSUME NEW h \in Handlers, ReadRoleFails(h)
        PROVE  Known(g)'
    BY <1>0, <2>1, <2>4 DEF ReadRoleFails, Goto, Known, CountInv, TypeInv, TypeOK
  <2>5. ASSUME NEW h \in Handlers, shaken' = shaken,
               h # g \/ req'[g] = req[g] \/ req'[g].pc \notin {"role", "delete"},
               OthersWait(h)
        PROVE  Known(g)'
    BY <1>0, <2>1, <2>5 DEF OthersWait, CountInv, Known
  <2>6. ASSUME NEW h \in Handlers, HandlerStep(h)
        PROVE  Known(g)'
    <3>1. OthersWait(h)
      BY <1>0, <2>6, OneAtATime
    <3>2. CASE \E u \in Users : Login(h, u)
      BY <1>0, <2>5, <3>1, <3>2 DEF Login, TypeInv, TypeOK, Idle
    <3>3. CASE \E t \in Tokens : Logout(h, t) \/ \E op \in Ops : Authenticate(h, t, op)
      <4>1. CASE UNCHANGED req
        BY <2>5, <3>1, <3>3, <4>1 DEF Logout, Authenticate
      <4>2. CASE ~UNCHANGED req
        <5>1. PICK t \in Tokens, op \in Ops : Authenticate(h, t, op)
          BY <3>3, <4>2 DEF Logout
        <5>2. req'[h].pc = "user"
          BY <1>0, <4>2, <5>1, ZenonT(60) DEF Authenticate, TypeInv, TypeOK, Idle
        <5>. QED
          BY <2>5, <3>1, <5>1, <5>2 DEF Authenticate
      <4>. QED
        BY <4>1, <4>2
    <3>4. CASE LoginInsert(h) \/ RevokeOtherUserSessions(h) \/ RevokeFails(h)
      BY <1>0, <2>5, <3>1, <3>4
      DEF LoginInsert, RevokeOtherUserSessions, RevokeFails, Done, TypeInv, TypeOK, Idle
    <3>5. CASE GetUserByID(h)
      BY <1>0, <2>5, <3>1, <3>5 DEF GetUserByID, Goto, Done, Ops, TypeInv, TypeOK, Idle
    <3>6. CASE UpdateUserPassword(h)
      BY <1>0, <2>5, <3>1, <3>6 DEF UpdateUserPassword, Goto, TypeInv, TypeOK
    <3>7. CASE DeleteUser(h) \/ UpdateUserRole(h) \/ CreateUser(h)
      BY <1>2, <3>7 DEF DeleteUser, UpdateUserRole, CreateUser
    <3>. QED
      BY <2>2, <2>3, <2>4, <2>6, <3>2, <3>3, <3>4, <3>5, <3>6, <3>7 DEF HandlerStep
  <2>7. CASE Tick \/ PruneExpiredSessions \/ UNCHANGED vars
    BY <1>a, <2>7 DEF Tick, PruneExpiredSessions, vars
  <2>. QED
    BY <2>6, <2>7 DEF Next
<1>. QED
  BY <1>1, <1>2

\* Deleting one of several administrators leaves one.
LEMMA AnotherAdmin ==
  ASSUME TypeInv, NEW h \in Handlers, DeleteUser(h),
         req[h].target \in Admins, Cardinality(Admins) > 1
  PROVE  Admins' # {}
<1>. DEFINE u == req[h].target
<1>1. u \in Users /\ On(u)
  BY DEF Admins
<1>2. \A v \in Users \ {u} : user'[v] = user[v]
  BY <1>1 DEF DeleteUser, TypeInv, TypeOK
<1>3. Admins \ {u} \subseteq Admins'
  BY <1>2 DEF Admins, On
<1>4. Cardinality(Admins \ {u}) = Cardinality(Admins) - 1
  BY AdminsFinite, FS_RemoveElement
<1>5. Admins \ {u} # {}
  BY <1>4, AdminsFinite, FS_EmptySet
<1>. QED
  BY <1>3, <1>5

LEMMA OnlyDeleteUser ==
  ASSUME TypeInv, [Next]_vars, NEW h \in Handlers, Deletes(h)
  PROVE  DeleteUser(h)
<1>1. req[h].pc = "delete" /\ req'[h].pc = "idle"
  BY DEF Deletes
<1>2. ASSUME NEW g \in Handlers, HandlerStep(g)
      PROVE  g = h
  BY <1>1, <1>2, OneAtATime DEF OthersWait
<1>3. ~(Tick \/ PruneExpiredSessions \/ UNCHANGED vars)
  BY <1>1 DEF Tick, PruneExpiredSessions, vars
<1>4. HandlerStep(h)
  BY <1>2, <1>3 DEF Next
<1>5. req[h].pc \notin {"idle", "user", "role", "login", "change", "revoke", "count",
                        "setrole", "create"}
  BY <1>1
<1>6. ~\E t \in Tokens : Logout(h, t) \/ \E op \in Ops : Authenticate(h, t, op)
  BY <1>5 DEF Logout, Authenticate, Accept
<1>7. ~\E u \in Users : Login(h, u)
  BY <1>5 DEF Login, Accept
<1>. QED
  BY <1>4, <1>5, <1>6, <1>7
  DEF HandlerStep, LoginInsert, GetUserByID, UpdateUserPassword, RevokeOtherUserSessions,
      RevokeFails, CountAdmins, ReadRole, ReadRoleFails, UpdateUserRole, CreateUser

LEMMA CountStep ==
  CountInv /\ [Next]_vars => [\A h \in Handlers \ shaken : Deletes(h) => Admins' # {}]_vars
<1>. SUFFICES ASSUME CountInv, [Next]_vars, NEW h \in Handlers \ shaken, Deletes(h)
              PROVE  Admins' # {}
  OBVIOUS
<1>1. DeleteUser(h)
  BY OnlyDeleteUser DEF CountInv
<1>2. req[h].target \in Admins /\ Cardinality(Admins) > 1
  BY DEF CountInv, Known, Deletes
<1>. QED
  BY <1>1, <1>2, AnotherAdmin DEF CountInv

\* users.go:103: the last administrator cannot be deleted, for any number of
\* users and of concurrent deletions, role changes and creations.
THEOREM LastAdminStays == Spec => CountedAdminStays
<1>1. Init => CountInv
  BY InitType DEF CountInv, Known, TypeInv, LoginSeen, Init, Idle
<1>. QED
  BY <1>1, NextCount, CountStep, PTL DEF Spec, CountedAdminStays

-----------------------------------------------------------------------------
(* The lifetime of a session.                                              *)

\* A session ends a lifetime after it was opened, and the offset of the zone.
Lifetimes == \A t \in Live : sess[t].expires = Expires(sess[t].born)
LifeInv == TypeInv /\ Lifetimes

LEMMA NextLife == LifeInv /\ [Next]_vars => LifeInv'
<1>. SUFFICES ASSUME LifeInv, [Next]_vars, NEW t \in Live'
              PROVE  sess'[t].expires = Expires(sess'[t].born)
  BY NextType DEF LifeInv, Lifetimes, Expires
<1>0. TypeInv
  BY DEF LifeInv
<1>1. CASE t \in Live /\ sess'[t] = sess[t]
  BY <1>1 DEF LifeInv, Lifetimes
<1>2. ASSUME NEW S, Delete(S)
      PROVE  sess'[t].expires = Expires(sess'[t].born)
  BY <1>0, <1>1, <1>2, DeleteType DEF TypeInv
<1>3. CASE UNCHANGED sess
  BY <1>1, <1>3 DEF Live
<1>4. ASSUME NEW h \in Handlers, LoginInsert(h)
      PROVE  sess'[t].expires = Expires(sess'[t].born)
  <2>1. PICK s \in Tokens :
             \/ UNCHANGED sess
             \/ sess' = [sess EXCEPT ![s] = [user |-> req[h].who, born |-> clock,
                                             expires |-> Expires(clock), pw |-> req[h].seen]]
    BY <1>3, <1>4 DEF LoginInsert, Live
  <2>2. CASE s = t
    BY <1>0, <1>3, <2>1, <2>2 DEF TypeInv, TypeOK
  <2>3. CASE s # t
    BY <1>0, <1>1, <1>3, <2>1, <2>3 DEF TypeInv, TypeOK, Live
  <2>. QED
    BY <2>2, <2>3
<1>. QED
  BY <1>2, <1>3, <1>4, ZenonT(60)
  DEF Next, HandlerStep, Tick, PruneExpiredSessions, Login, Logout, Authenticate, GetUserByID,
      UpdateUserPassword, RevokeOtherUserSessions, RevokeFails, CountAdmins, ReadRole,
      ReadRoleFails, DeleteUser, UpdateUserRole, CreateUser, vars

\* A request that has just had its token accepted was authenticated.
LEMMA OnlyAuthenticate ==
  ASSUME TypeInv, [Next]_vars, NEW h \in Handlers,
         req[h].pc = "idle", req'[h].pc = "user"
  PROVE  \E t \in Live : \E op \in Ops : Authenticate(h, t, op) /\ ~Expired(t) /\ req'[h].token = t
<1>1. HandlerStep(h)
  <2>1. ASSUME NEW g \in Handlers, HandlerStep(g)
        PROVE  g = h
    BY <2>1, OneAtATime DEF OthersWait
  <2>2. ~(Tick \/ PruneExpiredSessions \/ UNCHANGED vars)
    BY DEF Tick, PruneExpiredSessions, vars
  <2>. QED
    BY <2>1, <2>2 DEF Next
<1>2. ~\E u \in Users : Login(h, u)
  BY ZenonT(60) DEF Login, TypeInv, TypeOK, Idle
<1>3. ~\E t \in Tokens : Logout(h, t)
  BY DEF Logout
<1>4. PICK t \in Tokens, op \in Ops : Authenticate(h, t, op)
  BY <1>1, <1>2, <1>3
  DEF HandlerStep, LoginInsert, GetUserByID, UpdateUserPassword, RevokeOtherUserSessions,
      RevokeFails, CountAdmins, ReadRole, ReadRoleFails, DeleteUser, UpdateUserRole, CreateUser
<1>5. ~Expired(t) /\ t \in Live /\ req'[h] =
          [Idle EXCEPT !.pc = "user", !.op = op, !.token = t, !.who = sess[t].user]
  BY <1>4 DEF Authenticate, TypeInv, TypeOK
<1>6. req'[h].token = t
  BY <1>5, IdleTyped DEF Requests
<1>. QED
  BY <1>4, <1>5, <1>6

LEMMA LifeStep ==
  ASSUME LifeInv, [Next]_vars
  PROVE  /\ \A h \in Handlers :
               req[h].pc = "idle" /\ req'[h].pc = "user" => clock <= OverAt(req'[h].token)
         /\ \A t \in Live : sess'[t] = None => clock > OverAt(t) \/ Ends(t)
<1>0. TypeInv /\ clock \in Int /\ TTL \in Int /\ Zone \in Int
  BY AccountsAssumption DEF LifeInv, TypeInv, TypeOK
<1>1. \A t \in Live : /\ sess[t].born \in Int /\ sess[t].user \in Users
                      /\ OverAt(t) \in Int /\ (Expired(t) <=> clock > OverAt(t))
  BY <1>0 DEF LifeInv, TypeInv, TypeOK, Live, Sessions, Lifetimes, Expires, Expired, OverAt
<1>2. ASSUME NEW h \in Handlers, req[h].pc = "idle", req'[h].pc = "user"
      PROVE  clock <= OverAt(req'[h].token)
  BY <1>0, <1>1, <1>2, OnlyAuthenticate
<1>3. ASSUME NEW t \in Live, sess'[t] = None
      PROVE  clock > OverAt(t) \/ Ends(t)
  <2>1. \A S : Delete(S) => t \in S
    BY <1>3 DEF Delete, Live
  <2>2. CASE PruneExpiredSessions
    BY <1>1, <2>1, <2>2 DEF PruneExpiredSessions
  <2>3. ASSUME NEW h \in Handlers, NEW s \in Tokens, Logout(h, s)
        PROVE  Expired(t) \/ Ends(t)
    BY <2>1, <2>3 DEF Logout, Ends
  <2>4. ASSUME NEW h \in Handlers, NEW s \in Tokens, NEW op \in Ops, Authenticate(h, s, op)
        PROVE  Expired(t)
    BY <1>3, <2>1, <2>4 DEF Authenticate, Live
  <2>5. ASSUME NEW h \in Handlers, RevokeOtherUserSessions(h) \/ DeleteUser(h)
        PROVE  Ends(t)
    BY <2>1, <2>5 DEF RevokeOtherUserSessions, DeleteUser, Others, Of, Ends
  <2>6. ASSUME NEW h \in Handlers, LoginInsert(h)
        PROVE  FALSE
    <3>1. sess[t] # None /\ t \in issued
      BY <1>0 DEF Live, TypeInv, TypeOK
    <3>. QED
      BY <1>0, <1>3, <2>6, <3>1 DEF LoginInsert, TypeInv, TypeOK
  <2>7. ~UNCHANGED sess
    BY <1>3 DEF Live
  <2>8. /\ ~Tick /\ ~UNCHANGED vars
        /\ \A h \in Handlers :
              /\ \A u \in Users : ~Login(h, u)
              /\ ~GetUserByID(h) /\ ~UpdateUserPassword(h) /\ ~RevokeFails(h)
              /\ ~CountAdmins(h) /\ ~ReadRole(h) /\ ~ReadRoleFails(h)
              /\ ~UpdateUserRole(h) /\ ~CreateUser(h)
    <3>1. ~Tick /\ ~UNCHANGED vars
      BY <2>7 DEF Tick, vars
    <3>2. ASSUME NEW h \in Handlers
          PROVE  /\ \A u \in Users : ~Login(h, u)
                 /\ ~GetUserByID(h) /\ ~UpdateUserPassword(h) /\ ~RevokeFails(h)
      BY <2>7 DEF Login, GetUserByID, UpdateUserPassword, RevokeFails
    <3>3. ASSUME NEW h \in Handlers
          PROVE  /\ ~CountAdmins(h) /\ ~ReadRole(h) /\ ~ReadRoleFails(h)
                 /\ ~UpdateUserRole(h) /\ ~CreateUser(h)
      BY <2>7 DEF CountAdmins, ReadRole, ReadRoleFails, UpdateUserRole, CreateUser
    <3>. QED
      BY <3>1, <3>2, <3>3
  <2>9. Next
    BY <2>8
  <2>10. ASSUME NEW h \in Handlers, HandlerStep(h)
         PROVE  Expired(t) \/ Ends(t)
    BY <2>3, <2>4, <2>5, <2>6, <2>8, <2>10 DEF HandlerStep
  <2>11. Expired(t) => clock > OverAt(t)
    BY <1>1
  <2>. QED
    BY <2>2, <2>8, <2>9, <2>10, <2>11 DEF Next
<1>. QED
  BY <1>2, <1>3

\* README.md:43: a token is accepted exactly until the lifetime of its session,
\* shifted by the offset of the server's time, is over; and the session stays
\* until then unless somebody ends it: for any offset, and any number of
\* sessions and requests.
THEOREM SessionLivesItsTime == Spec => SessionLifetime
<1>1. Init => LifeInv
  <2>1. Init => Lifetimes
    BY AccountsAssumption DEF Init, Lifetimes, Live
  <2>. QED
    BY <2>1, InitType DEF LifeInv, TypeInv, LoginSeen, Init, Idle
<1>2. LifeInv /\ [Next]_vars =>
         [/\ \A h \in Handlers :
                req[h].pc = "idle" /\ req'[h].pc = "user" => clock <= OverAt(req'[h].token)
          /\ \A t \in Live : sess'[t] = None => clock > OverAt(t) \/ Ends(t)]_vars
  BY LifeStep
<1>. QED
  BY <1>1, <1>2, NextLife, PTL DEF Spec, SessionLifetime
=============================================================================
