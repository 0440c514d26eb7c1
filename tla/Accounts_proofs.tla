-------------------------- MODULE Accounts_proofs --------------------------
(* Proofs about Accounts, for any number of users, addresses and requests: *)
(* its types, what the tables keep whatever the order of the statements,   *)
(* and how roles are lost.                                                 *)
EXTENDS Accounts, TLAPS

----------------------------------------------------------------------------
(* Types, with what each operation has in its local state.                 *)

OpTyped(q) ==
  /\ q.op \in Newcomers /\ q.pc = "insert" => q.arg \in Emails
  /\ q.pc = "reread" => q.who \in Ids
  /\ q.op = "profile" => q.who \in Ids /\ q.row \in Standing
  /\ q.op \in OnStatus \cup OnSenior \cup OnFeature => q.who \in Ids /\ q.target \in Ids
  /\ q.op = "role" => q.arg \in Role

Typed == TypeOK /\ \A r \in Requests : OpTyped(req[r])

LEMMA EndedTyped ==
  /\ Ended \in Request /\ OpTyped(Ended)
  /\ [Ended EXCEPT !.pc = "start"] \in Request /\ OpTyped([Ended EXCEPT !.pc = "start"])
BY DEF Ended, Request, Step, OpTyped, Newcomers, OnStatus, OnSenior, OnFeature

LEMMA RowsTyped ==
  ASSUME Typed, NEW u \in Ids, Exists(u)
  PROVE  users[u] \in Row /\ Of(users[u]) \in Standing
BY DEF Typed, TypeOK, Exists, Row, Of, Standing

LEMMA TypeInit == Init => Typed
<1> SUFFICES ASSUME Init PROVE Typed
  OBVIOUS
<1>1. users \in [Ids -> Row \cup {Unused, Gone}]
  BY DEF Init, Row, Role, Status
<1>2. decided \in [Ids -> Standing]
  BY DEF Init, Standing, Role, Status
<1> QED BY <1>1, <1>2, EndedTyped DEF Init, Typed, TypeOK

\* A request that ends, goes on, or dies with the process stays typed.
LEMMA ReqTyped ==
  ASSUME Typed
  PROVE  /\ \A r \in Requests : End(r) => req' \in [Requests -> Request]
                                          /\ \A q \in Requests : OpTyped(req'[q])
         /\ Panic => req' \in [Requests -> Request] /\ \A q \in Requests : OpTyped(req'[q])
         /\ \A r \in Requests, pc \in {"actor", "target", "write"} :
              Goto(r, pc) => req' \in [Requests -> Request]
                             /\ \A q \in Requests : OpTyped(req'[q])
<1>1. ASSUME NEW r \in Requests, End(r)
      PROVE  req' \in [Requests -> Request] /\ \A q \in Requests : OpTyped(req'[q])
  BY <1>1, EndedTyped DEF Typed, TypeOK, End
<1>2. ASSUME Panic
      PROVE  req' \in [Requests -> Request] /\ \A q \in Requests : OpTyped(req'[q])
  BY <1>2, EndedTyped DEF Typed, TypeOK, Panic
<1>3. ASSUME NEW r \in Requests, NEW pc \in {"actor", "target", "write"}, Goto(r, pc)
      PROVE  req' \in [Requests -> Request] /\ \A q \in Requests : OpTyped(req'[q])
  <2>1. [req[r] EXCEPT !.pc = pc] \in Request /\ OpTyped([req[r] EXCEPT !.pc = pc])
    <3>1. req[r] \in Request /\ OpTyped(req[r])
      BY DEF Typed, TypeOK
    <3> QED BY <3>1 DEF Request, Step, OpTyped
  <2> QED BY <1>3, <2>1 DEF Typed, TypeOK, Goto
<1> QED BY <1>1, <1>2, <1>3

\* So does one that begins with what is typed.
LEMMA BeginTyped ==
  ASSUME Typed, NEW r \in Requests, NEW q \in Request, OpTyped(q), Begin(r, q)
  PROVE  req' \in [Requests -> Request] /\ \A p \in Requests : OpTyped(req'[p])
BY DEF Typed, TypeOK, Begin

\* The statements keep the tables typed.
LEMMA TablesTyped ==
  ASSUME Typed, NEW u \in Ids
  PROVE  /\ \A s \in Standing : Stand(u, s) => users' \in [Ids -> Row \cup {Unused, Gone}]
         /\ \A role \in Role : Grants(u, role) => tokens' \in [Ids -> Role \cup {NoRow}]
<1>1. ASSUME NEW s \in Standing, Stand(u, s)
      PROVE  users' \in [Ids -> Row \cup {Unused, Gone}]
  <2>1. CASE Exists(u)
    <3>1. [email |-> users[u].email, role |-> s.role, status |-> s.status] \in Row
      BY <2>1, RowsTyped DEF Row, Standing
    <3> QED BY <1>1, <2>1, <3>1 DEF Typed, TypeOK, Stand
  <2> QED BY <1>1, <2>1 DEF Typed, TypeOK, Stand
<1>2. ASSUME NEW role \in Role, Grants(u, role)
      PROVE  tokens' \in [Ids -> Role \cup {NoRow}]
  BY <1>2 DEF Typed, TypeOK, Grants
<1> QED BY <1>1, <1>2

LEMMA StatusTyped ==
  ASSUME Typed, NEW u \in Ids, NEW status \in Status, UpdateStatus(u, status)
  PROVE  users' \in [Ids -> Row \cup {Unused, Gone}] /\ decided' \in [Ids -> Standing]
<1>1. CASE Exists(u)
  <2>1. [role |-> users[u].role, status |-> status] \in Standing
        /\ [decided[u] EXCEPT !.status = status] \in Standing
    BY <1>1, RowsTyped DEF Row, Standing, Typed, TypeOK
  <2> QED BY <1>1, <2>1, TablesTyped DEF UpdateStatus, Typed, TypeOK
<1> QED BY <1>1 DEF UpdateStatus, Typed, TypeOK

LEMMA RoleTyped ==
  ASSUME Typed, NEW u \in Ids, NEW role \in Role, UpdateRole(u, role)
  PROVE  users' \in [Ids -> Row \cup {Unused, Gone}] /\ decided' \in [Ids -> Standing]
<1>1. CASE Exists(u)
  <2>1. [role |-> role, status |-> users[u].status] \in Standing
        /\ [decided[u] EXCEPT !.role = role] \in Standing
    BY <1>1, RowsTyped DEF Row, Standing, Typed, TypeOK
  <2> QED BY <1>1, <2>1, TablesTyped DEF UpdateRole, Typed, TypeOK
<1> QED BY <1>1 DEF UpdateRole, Typed, TypeOK

LEMMA TypeNewcomes ==
  ASSUME Typed, NEW r \in Requests, Newcomes(r)
  PROVE  Typed'
<1>1. ASSUME NEW op \in Newcomers, NEW e \in Emails, FindByEmail(r, op, e) PROVE Typed'
  <2> DEFINE q == [Ended EXCEPT !.op = op, !.pc = "insert", !.arg = e]
  <2>1. q \in Request /\ OpTyped(q)
    BY DEF Ended, Request, Step, OpTyped, Newcomers, OnStatus, OnSenior, OnFeature
  <2> QED BY <1>1, <2>1, BeginTyped DEF FindByEmail, Typed, TypeOK
<1>2. ASSUME NEW u \in Ids, Commit(r, u) PROVE Typed'
  <2>1. req[r] \in Request /\ OpTyped(req[r]) /\ req[r].op \in Newcomers /\ req[r].arg \in Emails
    BY <1>2 DEF Typed, TypeOK, OpTyped, Commit, At
  <2> DEFINE q == [req[r] EXCEPT !.pc = "reread", !.who = u]
  <2>2. q \in Request /\ OpTyped(q)
    BY <2>1 DEF Request, Step, OpTyped, Newcomers, OnStatus, OnSenior, OnFeature
  <2>3. req' \in [Requests -> Request] /\ \A p \in Requests : OpTyped(req'[p])
    BY <1>2, <2>2 DEF Typed, TypeOK, Commit
  <2>4. [email |-> req[r].arg, role |-> "user", status |-> "active"] \in Row
        /\ Newcomer \in Standing
    BY <2>1 DEF Row, Role, Status, Standing, Newcomer
  <2> QED BY <1>2, <2>3, <2>4 DEF Commit, Insert, Typed, TypeOK
<1>3. CASE CommitFails(r)
  BY <1>3, ReqTyped DEF CommitFails, Typed, TypeOK
<1>4. CASE Registered(r)
  BY <1>4, ReqTyped DEF Registered, Typed, TypeOK
<1>5. CASE GoogleEnters(r)
  <2>1. req[r].who \in Ids
    BY <1>5 DEF GoogleEnters, At, Typed, OpTyped
  <2>2. tokens' \in [Ids -> Role \cup {NoRow}]
    <3>1. MayEnter(req[r].who) => users[req[r].who].role \in Role
      BY <2>1, RowsTyped DEF MayEnter, Row
    <3> QED BY <1>5, <2>1, <3>1, TablesTyped DEF GoogleEnters, Typed, TypeOK
  <2>3. req' \in [Requests -> Request] /\ \A q \in Requests : OpTyped(req'[q])
    BY <1>5, ReqTyped DEF GoogleEnters
  <2> QED BY <1>5, <2>2, <2>3 DEF GoogleEnters, Typed, TypeOK
<1> QED BY <1>1, <1>2, <1>3, <1>4, <1>5 DEF Newcomes

LEMMA TypeEdits ==
  ASSUME Typed, NEW r \in Requests, Edits(r)
  PROVE  Typed'
<1>1. ASSUME NEW u \in Ids, ReadProfile(r, u) PROVE Typed'
  <2> DEFINE q == [Ended EXCEPT !.op = "profile", !.pc = "write", !.who = u, !.row = Of(users[u])]
  <2>1. Of(users[u]) \in Standing
    BY <1>1, RowsTyped DEF ReadProfile
  <2>2. q \in Request /\ OpTyped(q)
    BY <2>1 DEF Ended, Request, Step, OpTyped, Newcomers, OnStatus, OnSenior, OnFeature
  <2> QED BY <1>1, <2>2, BeginTyped DEF ReadProfile, Typed, TypeOK
<1>2. CASE WriteProfile(r)
  <2>1. req[r] \in Request /\ OpTyped(req[r]) /\ req[r].op = "profile"
    BY <1>2 DEF WriteProfile, At, Typed, TypeOK
  <2>2. req[r].who \in Ids /\ req[r].row \in Standing
    BY <2>1 DEF OpTyped
  <2>3. [req[r] EXCEPT !.pc = "reread"] \in Request /\ OpTyped([req[r] EXCEPT !.pc = "reread"])
    BY <2>1, <2>2 DEF Request, Step, OpTyped
  <2>4. req' \in [Requests -> Request] /\ \A p \in Requests : OpTyped(req'[p])
    BY <1>2, <2>3 DEF WriteProfile, Goto, Typed, TypeOK
  <2> QED BY <1>2, <2>2, <2>4, TablesTyped DEF WriteProfile, Typed, TypeOK
<1>3. CASE RereadProfile(r)
  BY <1>3, ReqTyped DEF RereadProfile, Typed, TypeOK
<1> QED BY <1>1, <1>2, <1>3 DEF Edits

LEMMA TypeAdministers ==
  ASSUME Typed, NEW r \in Requests, Administers(r)
  PROVE  Typed'
<1>1. ASSUME NEW op \in OnStatus, NEW a \in Ids, NEW t \in Ids, FindTarget(r, op, a, t)
      PROVE  Typed'
  <2>1. ASSUME NEW pc \in {"actor", "write"}
        PROVE  LET q == [Ended EXCEPT !.op = op, !.who = a, !.target = t,
                                      !.found = Of(users[t]), !.pc = pc]
               IN  q \in Request /\ OpTyped(q)
    <3>1. Of(users[t]) \in Standing BY <1>1, RowsTyped DEF FindTarget
    <3> QED
      BY <3>1 DEF Ended, Request, Step, OpTyped, Newcomers, OnStatus, OnSenior, OnFeature
  <2> QED BY <1>1, <2>1, BeginTyped DEF FindTarget, Typed, TypeOK
<1>2. ASSUME NEW op \in OnSenior, NEW a \in Ids, NEW t \in Ids, NEW role \in Role \cup {NoRow},
             op = "role" => role \in Role, FindActor(r, op, a, t, role)
      PROVE  Typed'
  <2> DEFINE q == [Ended EXCEPT !.op = op, !.pc = "target", !.who = a, !.target = t, !.arg = role,
                                !.row = Of(users[a])]
  <2>0. Of(users[a]) \in Standing
    BY <1>2, RowsTyped DEF FindActor, IsSuperAdmin, SuperAdmins
  <2>1. q \in Request /\ OpTyped(q)
    BY <1>2, <2>0 DEF Ended, Request, Step, OpTyped, Newcomers, OnStatus, OnSenior, OnFeature
  <2> QED BY <1>2, <2>1, BeginTyped DEF FindActor, Typed, TypeOK
<1>3. CASE CheckActor(r) \/ CheckTarget(r) \/ CheckStandard(r)
  <2>1. CASE CheckActor(r) /\ IsSuperAdmin(req[r].who)
    <3> DEFINE q == [req[r] EXCEPT !.pc = "write", !.row = Of(users[req[r].who])]
    <3>1. req[r] \in Request /\ OpTyped(req[r]) BY DEF Typed, TypeOK
    <3>2. Of(users[req[r].who]) \in Standing
      BY <2>1, RowsTyped DEF IsSuperAdmin, SuperAdmins
    <3>3. q \in Request /\ OpTyped(q)
      BY <2>1, <3>1, <3>2 DEF CheckActor, At, Request, Step, OpTyped
    <3>4. req' = [req EXCEPT ![r] = q] BY <2>1 DEF CheckActor, Typed, TypeOK
    <3> HIDE DEF q
    <3>5. req' \in [Requests -> Request] /\ \A p \in Requests : OpTyped(req'[p])
      BY <3>3, <3>4 DEF Typed, TypeOK
    <3> QED BY <2>1, <3>5 DEF CheckActor, Typed, TypeOK
  <2> QED BY <1>3, <2>1, ReqTyped DEF CheckActor, CheckTarget, CheckStandard, Typed, TypeOK
<1>4. CASE WriteStatus(r)
  <2>1. req[r].target \in Ids
    BY <1>4 DEF WriteStatus, At, Typed, OpTyped
  <2> QED BY <1>4, <2>1, StatusTyped, ReqTyped DEF WriteStatus, Status, Typed, TypeOK
<1>5. CASE WriteRole(r)
  <2>1. req[r].target \in Ids /\ req[r].arg \in Role
    BY <1>5 DEF WriteRole, At, Typed, OpTyped, OnSenior
  <2> QED BY <1>5, <2>1, RoleTyped, ReqTyped DEF WriteRole, Typed, TypeOK
<1>6. CASE DeleteUser(r)
  <2>1. users' \in [Ids -> Row \cup {Unused, Gone}] /\ override' \in [Ids -> Ids \cup {NoRow}]
    BY <1>6 DEF DeleteUser, Remove, Typed, TypeOK
  <2> QED BY <1>6, <2>1, ReqTyped DEF DeleteUser, Typed, TypeOK
<1>7. ASSUME NEW op \in OnFeature, NEW a \in Ids, NEW t \in Ids, FindAdmin(r, op, a, t)
      PROVE  Typed'
  <2> DEFINE q == [Ended EXCEPT !.op = op, !.pc = "target", !.who = a, !.target = t,
                                !.row = Of(users[a])]
  <2>1. Of(users[a]) \in Standing
    BY <1>7, RowsTyped DEF FindAdmin
  <2>2. q \in Request /\ OpTyped(q)
    BY <2>1 DEF Ended, Request, Step, OpTyped, Newcomers, OnStatus, OnSenior, OnFeature
  <2> QED BY <1>7, <2>2, BeginTyped DEF FindAdmin, Typed, TypeOK
<1>8. CASE SetOverride(r) \/ DeleteOverride(r)
  <2>1. req[r].who \in Ids
    BY <1>8 DEF SetOverride, DeleteOverride, At, Typed, OpTyped, OnFeature
  <2>2. override' \in [Ids -> Ids \cup {NoRow}]
    BY <1>8, <2>1 DEF SetOverride, DeleteOverride, Typed, TypeOK
  <2> QED BY <1>8, <2>2, ReqTyped DEF SetOverride, DeleteOverride, Typed, TypeOK
<1> QED
  BY <1>1, <1>2, <1>3, <1>4, <1>5, <1>6, <1>7, <1>8 DEF Administers, OnSenior

LEMMA TypeNext == Typed /\ [Next]_vars => Typed'
<1> SUFFICES ASSUME Typed, [Next]_vars PROVE Typed'
  OBVIOUS
<1>1. ASSUME NEW u \in Ids, Login(u) PROVE Typed'
  <2>1. users[u].role \in Role
    BY <1>1, RowsTyped DEF Login, MayEnter, Row
  <2> QED BY <1>1, <2>1, TablesTyped DEF Login, Typed, TypeOK
<1>2. CASE UNCHANGED vars
  BY <1>2 DEF vars, Typed, TypeOK
<1> QED BY <1>1, <1>2, TypeNewcomes, TypeEdits, TypeAdministers DEF Next

\* Every variable keeps its type, and every request the local state its
\* operation needs.
THEOREM AccountTypes == Spec => []TypeOK
BY TypeInit, TypeNext, PTL DEF Spec, Typed

----------------------------------------------------------------------------
(* What a step does to the rows of users.                                  *)

LEMMA UnusedIsNoRow == \A row \in Row : row \notin {Unused, Gone}
BY AccountsAssumption

\* An UPDATE leaves the address, and makes or removes no row.
LEMMA StandKeeps ==
  ASSUME Typed, NEW u \in Ids, NEW s \in Standing, Exists(u), Stand(u, s)
  PROVE  /\ \A v \in Ids : Exists(v)' <=> Exists(v)
         /\ \A v \in Ids : Exists(v) => users'[v].email = users[v].email
         /\ users'[u].role = s.role /\ users'[u].status = s.status
         /\ \A v \in Ids \ {u} : users'[v] = users[v]
<1> DEFINE row == [email |-> users[u].email, role |-> s.role, status |-> s.status]
<1>1. users' = [users EXCEPT ![u] = row] /\ users \in [Ids -> Row \cup {Unused, Gone}]
  BY DEF Stand, Typed, TypeOK
<1>2. row \in Row
  BY RowsTyped DEF Row, Standing
<1>3. Exists(u)'
  BY <1>1, <1>2, UnusedIsNoRow DEF Exists
<1> QED BY <1>1, <1>3 DEF Exists

\* A step updates a row, inserts one, removes one, or leaves the table alone.
LEMMA RowSteps ==
  ASSUME Typed, [Next]_vars
  PROVE  \/ UNCHANGED users
         \/ \E u \in Ids, s \in Standing : Exists(u) /\ Stand(u, s)
         \/ \E r \in Requests, u \in Ids : Commit(r, u)
         \/ \E r \in Requests : DeleteUser(r) /\ Remove(req[r].target)
<1>1. ASSUME NEW r \in Requests, Newcomes(r)
      PROVE  UNCHANGED users \/ \E u \in Ids : Commit(r, u)
  BY <1>1 DEF Newcomes, FindByEmail, CommitFails, Registered, GoogleEnters
<1>2. ASSUME NEW u \in Ids, NEW s \in Standing, Stand(u, s), ~Exists(u)
      PROVE  UNCHANGED users
  BY <1>2 DEF Stand, Typed, TypeOK
<1>3. ASSUME NEW r \in Requests, Edits(r)
      PROVE  UNCHANGED users \/ \E u \in Ids, s \in Standing : Exists(u) /\ Stand(u, s)
  <2>1. CASE WriteProfile(r)
    <3>1. req[r].who \in Ids /\ req[r].row \in Standing
      BY <2>1 DEF WriteProfile, At, Typed, OpTyped
    <3> QED BY <2>1, <3>1, <1>2 DEF WriteProfile
  <2> QED BY <1>3, <2>1 DEF Edits, ReadProfile, RereadProfile
<1>4. ASSUME NEW r \in Requests, WriteStatus(r) \/ WriteRole(r)
      PROVE  UNCHANGED users \/ \E u \in Ids, s \in Standing : Exists(u) /\ Stand(u, s)
  <2>1. CASE WriteStatus(r)
    <3> DEFINE u == req[r].target
               status == IF req[r].op = "suspend" THEN "suspended" ELSE "active"
    <3>1. u \in Ids /\ status \in Status /\ UpdateStatus(u, status)
      BY <2>1 DEF WriteStatus, At, Typed, OpTyped, Status
    <3>2. Exists(u) => [role |-> users[u].role, status |-> status] \in Standing
      BY <3>1, RowsTyped DEF Row, Standing
    <3> HIDE DEF status
    <3> QED BY <3>1, <3>2 DEF UpdateStatus
  <2>2. CASE WriteRole(r)
    <3> DEFINE u == req[r].target
    <3>1. u \in Ids /\ req[r].arg \in Role /\ UpdateRole(u, req[r].arg)
      BY <2>2 DEF WriteRole, At, Typed, OpTyped, OnSenior
    <3>2. Exists(u) => [role |-> req[r].arg, status |-> users[u].status] \in Standing
      BY <3>1, RowsTyped DEF Row, Standing
    <3> QED BY <3>1, <3>2 DEF UpdateRole
  <2> QED BY <1>4, <2>1, <2>2
<1>5. ASSUME NEW r \in Requests, Administers(r), ~WriteStatus(r), ~WriteRole(r)
      PROVE  UNCHANGED users \/ (DeleteUser(r) /\ Remove(req[r].target))
  BY <1>5 DEF Administers, FindTarget, FindActor, CheckActor, CheckTarget, DeleteUser,
              FindAdmin, CheckStandard, SetOverride, DeleteOverride
<1> QED BY <1>1, <1>3, <1>4, <1>5 DEF Next, Login, vars

----------------------------------------------------------------------------
(* The address.                                                            *)

LEMMA EmailInit == Init => OneAccountPerEmail
<1> SUFFICES ASSUME Init, NEW u \in Ids, NEW v \in Ids, Exists(u), Exists(v),
                    users[u].email = users[v].email
             PROVE  u = v
  BY DEF OneAccountPerEmail
<1>1. u \in Founders /\ v \in Founders
  BY DEF Init, Exists
<1> QED BY <1>1 DEF Init

LEMMA EmailNext == Typed /\ OneAccountPerEmail /\ [Next]_vars => OneAccountPerEmail'
<1> SUFFICES ASSUME Typed, OneAccountPerEmail, [Next]_vars PROVE OneAccountPerEmail'
  OBVIOUS
<1>1. CASE UNCHANGED users
  BY <1>1 DEF OneAccountPerEmail, Exists
<1>2. ASSUME NEW u \in Ids, NEW s \in Standing, Exists(u), Stand(u, s)
      PROVE  OneAccountPerEmail'
  BY <1>2, StandKeeps DEF OneAccountPerEmail
<1>3. ASSUME NEW r \in Requests, NEW u \in Ids, Commit(r, u) PROVE OneAccountPerEmail'
  <2>1. /\ users' = [users EXCEPT ![u] = [email |-> req[r].arg, role |-> "user", status |-> "active"]]
        /\ users[u] = Unused
        /\ \A v \in Ids : Exists(v) => users[v].email # req[r].arg
    BY <1>3 DEF Commit, Insert, Unique, Taken
  <2>2. \A v \in Ids \ {u} : (Exists(v)' <=> Exists(v)) /\ users'[v] = users[v]
    BY <2>1 DEF Exists, Typed, TypeOK
  <2>3. users'[u].email = req[r].arg
    BY <2>1 DEF Typed, TypeOK
  <2> QED BY <2>1, <2>2, <2>3 DEF OneAccountPerEmail
<1>4. ASSUME NEW r \in Requests, Remove(req[r].target) PROVE OneAccountPerEmail'
  <2>1. \A v \in Ids : Exists(v)' => Exists(v) /\ users'[v] = users[v]
    BY <1>4 DEF Remove, Exists, Typed, TypeOK
  <2> QED BY <2>1 DEF OneAccountPerEmail
<1> QED BY <1>1, <1>2, <1>3, <1>4, RowSteps

\* No two accounts ever have the same address: the check for it is not what
\* guarantees it, the unique index is.
THEOREM OneAccount == Spec => []OneAccountPerEmail
BY TypeInit, TypeNext, EmailInit, EmailNext, PTL DEF Spec

----------------------------------------------------------------------------
(* The rows a request reads again.                                         *)

LEMMA UsedStaysUsed ==
  ASSUME Typed, [Next]_vars, NEW u \in Ids, users[u] # Unused
  PROVE  users'[u] # Unused
<1>1. ASSUME NEW v \in Ids, NEW s \in Standing, Exists(v), Stand(v, s)
      PROVE  users'[u] # Unused
  BY <1>1, StandKeeps DEF Exists
<1>2. ASSUME NEW r \in Requests, NEW v \in Ids, Commit(r, v) PROVE users'[u] # Unused
  BY <1>2 DEF Commit, Insert, Typed, TypeOK
<1>3. ASSUME NEW r \in Requests, Remove(req[r].target) PROVE users'[u] # Unused
  BY <1>3, AccountsAssumption DEF Remove, Typed, TypeOK
<1> QED BY <1>1, <1>2, <1>3, RowSteps

\* A request that comes to its second read has committed, or found the user.
Found == \A r \in Requests :
  req[r].pc = "reread" \/ req[r].op = "profile" => users[req[r].who] # Unused

LEMMA FoundNext == Typed /\ Found /\ [Next]_vars => Found'
<1> SUFFICES ASSUME Typed, Found, [Next]_vars, NEW r \in Requests,
                    req'[r].pc = "reread" \/ req'[r].op = "profile"
             PROVE  users'[req'[r].who] # Unused
  BY DEF Found
<1>1. CASE req'[r].who = req[r].who /\ (req[r].pc = "reread" \/ req[r].op = "profile")
  BY <1>1, UsedStaysUsed DEF Found, Typed, OpTyped
<1>2. CASE ~(req'[r].who = req[r].who /\ (req[r].pc = "reread" \/ req[r].op = "profile"))
  <2> USE DEF Typed, TypeOK, Ended
  <2>1. ASSUME NEW q \in Requests, NEW u \in Ids, Commit(q, u) PROVE users'[req'[r].who] # Unused
    <3>1. CASE q = r
      <4>1. req'[r].who = u
        BY <2>1, <3>1 DEF Commit
      <4>2. users'[u] = [email |-> req[r].arg, role |-> "user", status |-> "active"]
        BY <2>1, <3>1 DEF Commit, Insert
      <4>3. users'[u] \in Row
        BY <4>2, <2>1, <3>1 DEF Commit, At, OpTyped, Row, Role, Status
      <4> QED BY <4>1, <4>3, UnusedIsNoRow
    <3>2. CASE q # r
      BY <1>2, <2>1, <3>2 DEF Commit
    <3> QED BY <3>1, <3>2
  <2>2. ASSUME NEW q \in Requests, NEW u \in Ids, ReadProfile(q, u)
        PROVE  users'[req'[r].who] # Unused
    BY <1>2, <2>2 DEF ReadProfile, Begin, Exists
  <2> DEFINE Other(p) == req'[p] = req[p] \/ (req'[p].pc # "reread" /\ req'[p].op # "profile")
                         \/ (req'[p].who = req[p].who /\ req[p].op = "profile")
  <2>3. ASSUME NEW q \in Requests, Newcomes(q), \A u \in Ids : ~Commit(q, u) PROVE Other(r)
    <3>1. ASSUME NEW op \in Newcomers, NEW e \in Emails, FindByEmail(q, op, e) PROVE Other(r)
      BY <3>1 DEF FindByEmail, Begin, Newcomers
    <3>2. End(q) \/ Panic => Other(r)
      BY DEF End, Panic
    <3> QED BY <2>3, <3>1, <3>2 DEF Newcomes, CommitFails, Registered, GoogleEnters
  <2>4. ASSUME NEW q \in Requests, WriteProfile(q) \/ RereadProfile(q) PROVE Other(r)
    <3>1. CASE WriteProfile(q)
      BY <3>1 DEF WriteProfile, Goto, At
    <3>2. CASE RereadProfile(q)
      BY <3>2 DEF RereadProfile, End, Panic
    <3> QED BY <2>4, <3>1, <3>2
  <2>5. ASSUME NEW q \in Requests, Administers(q) PROVE Other(r)
    <3>1. ASSUME NEW op \in OnStatus, NEW a \in Ids, NEW t \in Ids, FindTarget(q, op, a, t)
          PROVE  Other(r)
      BY <3>1 DEF FindTarget, Begin, OnStatus
    <3>2. ASSUME NEW op \in OnSenior, NEW a \in Ids, NEW t \in Ids, NEW role \in Role \cup {NoRow},
                 FindActor(q, op, a, t, role)
          PROVE  Other(r)
      BY <3>2 DEF FindActor, Begin, OnSenior
    <3>3. ASSUME NEW op \in OnFeature, NEW a \in Ids, NEW t \in Ids, FindAdmin(q, op, a, t)
          PROVE  Other(r)
      BY <3>3 DEF FindAdmin, Begin, OnFeature
    <3>4. End(q) => Other(r)
      BY DEF End
    <3>5. ASSUME NEW pc \in {"target", "write"}, Goto(q, pc), req[q].op # "profile"
          PROVE  Other(r)
      BY <3>5 DEF Goto
    <3>6. CASE CheckActor(q) /\ ~End(q)
      <4>1. /\ req' = [req EXCEPT ![q].pc = "write", ![q].row = Of(users[req[q].who])]
            /\ req[q] \in Request /\ req[q].op \in OnStatus
        BY <3>6 DEF CheckActor, At
      <4>2. req'[q].pc = "write" /\ req'[q].op # "profile" /\ (r # q => req'[r] = req[r])
        BY <4>1 DEF Request, OnStatus
      <4> QED BY <4>2
    <3>7. CheckTarget(q) => End(q) \/ (Goto(q, "write") /\ req[q].op # "profile")
      BY DEF CheckTarget, At, OnSenior
    <3>8. CheckStandard(q) => End(q) \/ (Goto(q, "write") /\ req[q].op # "profile")
      BY DEF CheckStandard, At, OnFeature
    <3>9. WriteStatus(q) \/ WriteRole(q) \/ DeleteUser(q) \/ SetOverride(q) \/ DeleteOverride(q)
            => End(q)
      BY DEF WriteStatus, WriteRole, DeleteUser, SetOverride, DeleteOverride
    <3> HIDE DEF Other
    <3> QED
      BY <2>5, <3>1, <3>2, <3>3, <3>4, <3>5, <3>6, <3>7, <3>8, <3>9 DEF Administers, OnSenior
  <2>6. ~Other(r)
    BY <1>2
  <2> HIDE DEF Other
  <2> QED BY <1>2, <2>1, <2>2, <2>3, <2>4, <2>5, <2>6 DEF Next, Edits, Login, vars
<1> QED BY <1>1, <1>2

\* A handler that panics over a missing row had its user deleted meanwhile.
THEOREM NilIsDeleted == Spec => []NilMeansDeleted
<1>1. Init => Found
  BY DEF Init, Found, Ended
<1>2. Found => NilMeansDeleted
  BY DEF Found, NilMeansDeleted
<1> QED BY <1>1, <1>2, TypeInit, TypeNext, FoundNext, PTL DEF Spec

----------------------------------------------------------------------------
(* Overrides.                                                              *)

LEMMA BackedNext == Typed /\ OverridesAreBacked /\ [Next]_vars => OverridesAreBacked'
<1> SUFFICES ASSUME Typed, OverridesAreBacked, [Next]_vars PROVE OverridesAreBacked'
  OBVIOUS
<1> USE DEF Typed, TypeOK
<1>1. ASSUME NEW r \in Requests, DeleteUser(r) PROVE OverridesAreBacked'
  <2> DEFINE u == req[r].target
  <2>1. u \in Ids
    BY <1>1 DEF DeleteUser, At, OpTyped, OnSenior
  <2>2. CASE \E v \in Ids \ {u} : override[v] = u
    BY <1>1, <2>2 DEF DeleteUser, OverridesAreBacked, Exists
  <2>3. CASE \A v \in Ids \ {u} : override[v] # u
    <3>1. Remove(u)
      BY <1>1, <2>3 DEF DeleteUser
    <3>3. \A v \in Ids : override'[v] = IF v = u THEN NoRow ELSE override[v]
      BY <3>1, <2>1 DEF Remove
    <3>4. ASSUME NEW v \in Ids, override'[v] # NoRow
          PROVE  /\ users'[v] \notin {Unused, Gone}
                 /\ users'[override'[v]] \notin {Unused, Gone}
      <4>1. v # u /\ override'[v] = override[v] /\ override[v] # u /\ override[v] \in Ids
        BY <3>3, <3>4, <2>3
      <4>2. Exists(v) /\ Exists(override[v])
        BY <3>4, <4>1 DEF OverridesAreBacked
      <4> QED BY <3>1, <4>1, <4>2 DEF Remove, Exists
    <3>5. \A v \in Ids : (override[v] # NoRow => Exists(v) /\ Exists(override[v]))'
      BY <3>4 DEF Exists
    <3> QED BY <3>5 DEF OverridesAreBacked
  <2> QED BY <2>2, <2>3
<1>2. ASSUME NEW r \in Requests, SetOverride(r) \/ DeleteOverride(r) PROVE OverridesAreBacked'
  <2>1. CASE SetOverride(r)
    BY <2>1, AccountsAssumption DEF SetOverride, OverridesAreBacked, Exists
  <2>2. CASE DeleteOverride(r)
    BY <2>2 DEF DeleteOverride, OverridesAreBacked, Exists
  <2> QED BY <1>2, <2>1, <2>2
<1>3. CASE UNCHANGED override /\ \A u \in Ids : Exists(u) => Exists(u)'
  BY <1>3, AccountsAssumption DEF OverridesAreBacked, Exists
<1>4. ASSUME ~\E r \in Requests : DeleteUser(r) \/ SetOverride(r) \/ DeleteOverride(r)
      PROVE  UNCHANGED override
  BY <1>4 DEF Next, vars, Login, Newcomes, FindByEmail, Commit, CommitFails, Registered,
     GoogleEnters, Edits, ReadProfile, WriteProfile, RereadProfile, Administers, FindTarget,
     FindActor, CheckActor, WriteStatus, CheckTarget, WriteRole, FindAdmin, CheckStandard
<1>5. ASSUME NEW u \in Ids, Exists(u), ~\E r \in Requests : DeleteUser(r) PROVE Exists(u)'
  <2>1. ASSUME NEW r \in Requests, NEW v \in Ids, Commit(r, v) PROVE Exists(u)'
    <3>1. u # v
      BY <1>5, <2>1 DEF Commit, Exists
    <3> QED BY <1>5, <2>1, <3>1 DEF Commit, Insert, Exists
  <2>2. CASE UNCHANGED users
    BY <1>5, <2>2 DEF Exists
  <2> QED BY <1>5, <2>1, <2>2, RowSteps, StandKeeps
<1> QED BY <1>1, <1>2, <1>3, <1>4, <1>5

\* A feature override always has its user and its creator.
THEOREM OverridesBacked == Spec => []OverridesAreBacked
<1>1. Init => OverridesAreBacked
  BY DEF Init, OverridesAreBacked
<1> QED BY <1>1, TypeInit, TypeNext, BackedNext, PTL DEF Spec

----------------------------------------------------------------------------
(* Role and status.                                                        *)

\* What the steps write to a row, and to its history.
LEMMA StandingSteps ==
  ASSUME Typed, [Next]_vars
  PROVE  \/ UNCHANGED <<users, decided>>
         \/ \E r \in Requests, u \in Ids : Commit(r, u)
         \/ \E r \in Requests : WriteProfile(r) \/ WriteStatus(r) \/ WriteRole(r) \/ DeleteUser(r)
BY DEF Next, vars, Login, Newcomes, FindByEmail, CommitFails, Registered,
   GoogleEnters, Edits, ReadProfile, RereadProfile, Administers, FindTarget,
   FindActor, CheckActor, CheckTarget, FindAdmin, CheckStandard, SetOverride, DeleteOverride

LEMMA DriftStep ==
  ASSUME Typed, [Next]_vars, NEW u \in Ids, Stands(u), ~Stands(u)'
  PROVE  \E r \in Requests : Outdated(r, u)
<1> USE DEF Typed, TypeOK
<1>1. Exists(u)' /\ Of(users'[u]) # decided'[u]
  BY DEF Stands, Exists, Of
<1>2. CASE UNCHANGED <<users, decided>>
  BY <1>1, <1>2 DEF Stands, Exists
<1>3. ASSUME NEW r \in Requests, NEW v \in Ids, Commit(r, v) PROVE FALSE
  <2>1. CASE u = v
    <3>1. users'[u] = [email |-> req[r].arg, role |-> "user", status |-> "active"]
          /\ decided'[u] = Newcomer
      BY <1>3, <2>1 DEF Commit, Insert
    <3> QED BY <1>1, <3>1 DEF Of, Newcomer
  <2>2. CASE u # v
    <3>1. users'[u] = users[u] /\ decided'[u] = decided[u]
      BY <1>3, <2>2 DEF Commit, Insert
    <3> QED BY <1>1, <3>1 DEF Stands, Exists
  <2> QED BY <2>1, <2>2
<1>4. ASSUME NEW r \in Requests, WriteStatus(r) \/ WriteRole(r) PROVE FALSE
  <2> DEFINE v == req[r].target
  <2>1. v \in Ids
    BY <1>4 DEF WriteStatus, WriteRole, At, OpTyped, OnSenior
  <2>2. CASE ~Exists(v) \/ u # v
    <3>1. users'[u] = users[u] /\ decided'[u] = decided[u]
      BY <1>4, <2>1, <2>2 DEF WriteStatus, WriteRole, UpdateStatus, UpdateRole, Stand
    <3> QED BY <1>1, <3>1 DEF Stands, Exists
  <2>3. CASE Exists(v) /\ u = v
    <3>1. decided[u] = [role |-> users[u].role, status |-> users[u].status]
      BY <2>3 DEF Stands, Of
    <3>2. CASE WriteStatus(r)
      <4> DEFINE status == IF req[r].op = "suspend" THEN "suspended" ELSE "active"
      <4>1. status \in Status /\ [role |-> users[u].role, status |-> status] \in Standing
        BY <2>3, RowsTyped DEF Status, Standing, Row
      <4>2. Stand(u, [role |-> users[u].role, status |-> status])
            /\ decided' = [decided EXCEPT ![u].status = status]
        BY <3>2, <2>3 DEF WriteStatus, UpdateStatus
      <4>3. decided'[u] = [role |-> users[u].role, status |-> status]
        BY <4>2, <3>1
      <4>4. users'[u].role = users[u].role /\ users'[u].status = status
        BY <4>1, <4>2, <2>3, StandKeeps
      <4> QED BY <1>1, <4>3, <4>4 DEF Of
    <3>3. CASE WriteRole(r)
      <4> DEFINE role == req[r].arg
      <4>1. role \in Role /\ [role |-> role, status |-> users[u].status] \in Standing
        BY <3>3, <2>3, RowsTyped DEF WriteRole, At, OpTyped, Standing, Row
      <4>2. Stand(u, [role |-> role, status |-> users[u].status])
            /\ decided' = [decided EXCEPT ![u].role = role]
        BY <3>3, <2>3 DEF WriteRole, UpdateRole
      <4>3. decided'[u] = [role |-> role, status |-> users[u].status]
        BY <4>2, <3>1
      <4>4. users'[u].role = role /\ users'[u].status = users[u].status
        BY <4>1, <4>2, <2>3, StandKeeps
      <4> QED BY <1>1, <4>3, <4>4 DEF Of
    <3> QED BY <1>4, <3>2, <3>3
  <2> QED BY <2>2, <2>3
<1>5. ASSUME NEW r \in Requests, DeleteUser(r) PROVE FALSE
  <2>1. decided' = decided /\ (users'[u] = users[u] \/ users'[u] = Gone)
    BY <1>5 DEF DeleteUser, Remove
  <2> QED BY <1>1, <2>1 DEF Stands, Exists
<1>6. ASSUME NEW r \in Requests, WriteProfile(r) PROVE Outdated(r, u)
  <2> DEFINE v == req[r].who
  <2>1. v \in Ids /\ req[r].row \in Standing /\ Stand(v, req[r].row) /\ decided' = decided
        /\ At(r, {"profile"}, "write")
    BY <1>6 DEF WriteProfile, At, OpTyped
  <2>2. CASE ~Exists(v) \/ u # v
    <3>1. users'[u] = users[u]
      BY <2>1, <2>2 DEF Stand
    <3> QED BY <1>1, <2>1, <3>1 DEF Stands, Exists
  <2>3. CASE Exists(v) /\ u = v
    <3>1. users'[u].role = req[r].row.role /\ users'[u].status = req[r].row.status
      BY <2>1, <2>3, StandKeeps
    <3>2. Of(users'[u]) = req[r].row
      BY <2>1, <3>1 DEF Of, Standing
    <3>3. Of(users[u]) = decided[u]
      BY <2>3 DEF Stands
    <3> QED BY <1>1, <2>1, <2>3, <3>2, <3>3 DEF Outdated
  <2> QED BY <2>2, <2>3
<1> QED BY <1>2, <1>3, <1>4, <1>5, <1>6, StandingSteps

\* Only an outdated profile update takes a user from the role and the status
\* an administrator has given him.
THEOREM Drift == Spec => DriftOnlyByOldProfile
<1>1. Typed /\ [Next]_vars =>
        [\A u \in Ids : Stands(u) /\ ~Stands(u)' => \E r \in Requests : Outdated(r, u)]_vars
  BY DriftStep
<1> QED BY <1>1, TypeInit, TypeNext, PTL DEF Spec, DriftOnlyByOldProfile

----------------------------------------------------------------------------
(* The last active super admin.                                            *)

\* What a request that may take the last one has found of actor and target:
\* nobody changes his own role or deletes himself, and who acts on a super
\* admin is one, or that super admin himself.
Judged(q) ==
  /\ q.op \in OnSenior => q.who # q.target /\ q.row # NoRow /\ q.row.role = "super_admin"
  /\ q.op \in OnStatus /\ q.pc = "actor" => q.who # q.target
  /\ q.op \in OnStatus /\ q.pc = "write" =>
       \/ q.who = q.target
       \/ q.found.role # "super_admin"
       \/ q.row # NoRow /\ q.row.role = "super_admin"
AllJudged == \A r \in Requests : Judged(req[r])

LEMMA JudgedBegun ==
  /\ Judged(Ended) /\ Judged([Ended EXCEPT !.pc = "start"])
  /\ \A q \in Request : q.op \in Newcomers \cup OnFeature \cup {"profile", "none"} => Judged(q)
BY DEF Judged, Ended, Request, OnSenior, OnStatus, OnFeature, Newcomers

LEMMA JudgedNext == Typed /\ AllJudged /\ [Next]_vars => AllJudged'
<1> SUFFICES ASSUME Typed, AllJudged, [Next]_vars, NEW r \in Requests
             PROVE  Judged(req'[r])
  BY DEF AllJudged
<1>0. req \in [Requests -> Request] /\ Judged(req[r]) /\ Typed'
  BY TypeNext DEF Typed, TypeOK, AllJudged
<1> DEFINE Plain == req'[r] \in {req[r], Ended}
                    \/ req'[r].op \in Newcomers \cup OnFeature \cup {"profile", "none"}
           Goal  == Judged(req'[r])
<1>1. Plain => Goal
  <2>1. req'[r] \in Request BY <1>0 DEF Typed, TypeOK
  <2> QED BY <1>0, <2>1, JudgedBegun
<1>2. ASSUME NEW q \in Requests, Newcomes(q) PROVE Plain
  <2>1. ASSUME NEW op \in Newcomers, NEW e \in Emails, FindByEmail(q, op, e) PROVE Plain
    BY <1>0, <2>1 DEF FindByEmail, Begin, Ended
  <2>2. ASSUME NEW u \in Ids, Commit(q, u) PROVE Plain
    BY <1>0, <2>2 DEF Commit, At
  <2>3. End(q) \/ Panic => Plain
    BY <1>0 DEF End, Panic
  <2> HIDE DEF Plain
  <2> QED BY <1>2, <2>1, <2>2, <2>3 DEF Newcomes, CommitFails, Registered, GoogleEnters
<1>3. ASSUME NEW q \in Requests, Edits(q) PROVE Plain
  <2>1. ASSUME NEW u \in Ids, ReadProfile(q, u) PROVE Plain
    BY <1>0, <2>1 DEF ReadProfile, Begin, Ended
  <2>2. CASE WriteProfile(q)
    BY <1>0, <2>2 DEF WriteProfile, Goto, At
  <2>3. End(q) \/ Panic => Plain
    BY <1>0 DEF End, Panic
  <2> HIDE DEF Plain
  <2> QED BY <1>3, <2>1, <2>2, <2>3 DEF Edits, RereadProfile
<1>4. ASSUME NEW q \in Requests, Administers(q) PROVE Plain \/ Goal
  <2>1. ASSUME NEW op \in OnStatus, NEW a \in Ids, NEW t \in Ids, FindTarget(q, op, a, t)
        PROVE  Plain \/ Goal
    <3> DEFINE p == [Ended EXCEPT !.op = op, !.who = a, !.target = t, !.found = Of(users[t]),
                       !.pc = IF users[t].role = "super_admin" /\ a # t
                              THEN "actor" ELSE "write"]
    <3>1. req'[r] = p \/ req'[r] = req[r]
      BY <1>0, <2>1 DEF FindTarget, Begin
    <3>2. /\ p.op = op /\ p.who = a /\ p.target = t /\ p.found.role = users[t].role
          /\ p.pc = IF users[t].role = "super_admin" /\ a # t THEN "actor" ELSE "write"
      BY DEF Ended, Of
    <3> HIDE DEF p
    <3>3. Judged(p)
      BY <3>2 DEF Judged, OnStatus, OnSenior
    <3> QED BY <3>1, <3>3
  <2>2. ASSUME NEW op \in OnSenior, NEW a \in Ids, NEW t \in Ids, NEW role \in Role \cup {NoRow},
               FindActor(q, op, a, t, role)
        PROVE  Plain \/ Goal
    <3> DEFINE p == [Ended EXCEPT !.op = op, !.pc = "target", !.who = a, !.target = t,
                                  !.arg = role, !.row = Of(users[a])]
    <3>1. req'[r] = p \/ req'[r] = req[r]
      BY <1>0, <2>2 DEF FindActor, Begin
    <3>2. /\ p.op = op /\ p.who = a /\ p.target = t /\ p.row = Of(users[a])
          /\ Of(users[a]).role = users[a].role
      BY DEF Ended, Of
    <3>3. users[a].role = "super_admin" /\ a # t /\ Of(users[a]) \in Standing
      BY <2>2, RowsTyped DEF FindActor, NotSelf, IsSuperAdmin, SuperAdmins
    <3>4. Of(users[a]) # NoRow BY <3>3, AccountsAssumption
    <3> HIDE DEF p
    <3>5. Judged(p)
      BY <3>2, <3>3, <3>4 DEF Judged, OnStatus, OnSenior
    <3> QED BY <3>1, <3>5
  <2>3. ASSUME NEW op \in OnFeature, NEW a \in Ids, NEW t \in Ids, FindAdmin(q, op, a, t)
        PROVE  Plain
    BY <1>0, <2>3 DEF FindAdmin, Begin, Ended
  <2>4. End(q) => Plain
    BY <1>0 DEF End
  <2>5. ASSUME CheckActor(q), IsSuperAdmin(req[q].who) PROVE Plain \/ Goal
    <3> DEFINE p == [req[q] EXCEPT !.pc = "write", !.row = Of(users[req[q].who])]
    <3>1. req'[r] = p \/ req'[r] = req[r]
      BY <1>0, <2>5 DEF CheckActor
    <3>2. /\ req[q] \in Request /\ p.op = req[q].op /\ req[q].op \in OnStatus
          /\ p.row = Of(users[req[q].who]) /\ p.pc = "write"
      BY <1>0, <2>5 DEF CheckActor, At, Request
    <3>3. Of(users[req[q].who]).role = "super_admin" /\ Of(users[req[q].who]) \in Standing
      BY <2>5, RowsTyped DEF IsSuperAdmin, SuperAdmins, Of
    <3>4. Of(users[req[q].who]) # NoRow BY <3>3, AccountsAssumption
    <3> HIDE DEF p
    <3>5. Judged(p)
      BY <3>2, <3>3, <3>4 DEF Judged, OnStatus, OnSenior
    <3> QED BY <3>1, <3>5
  <2>6. ASSUME CheckTarget(q) \/ CheckStandard(q), Goto(q, "write") PROVE Plain \/ Goal
    <3> DEFINE p == [req[q] EXCEPT !.pc = "write"]
    <3>1. req'[r] = p \/ req'[r] = req[r]
      BY <1>0, <2>6 DEF Goto
    <3>2. /\ req[q] \in Request /\ p.op = req[q].op /\ p.who = req[q].who
          /\ p.target = req[q].target /\ p.row = req[q].row /\ Judged(req[q])
          /\ req[q].op \in OnSenior \cup OnFeature
      BY <1>0, <2>6 DEF CheckTarget, CheckStandard, At, Request, AllJudged
    <3> HIDE DEF p
    <3>3. Judged(p)
      BY <3>2 DEF Judged, OnStatus, OnSenior, OnFeature
    <3> QED BY <3>1, <3>3
  <2>7. WriteStatus(q) \/ WriteRole(q) \/ DeleteUser(q) \/ SetOverride(q) \/ DeleteOverride(q)
          => End(q)
    BY DEF WriteStatus, WriteRole, DeleteUser, SetOverride, DeleteOverride
  <2>8. CheckActor(q) /\ ~IsSuperAdmin(req[q].who) => End(q)
    BY DEF CheckActor
  <2>9. CheckTarget(q) \/ CheckStandard(q) => End(q) \/ Goto(q, "write")
    BY DEF CheckTarget, CheckStandard
  <2>10. (\E a \in Ids, t \in Ids, role \in Role : FindActor(q, "role", a, t, role))
           \/ (\E a \in Ids, t \in Ids : FindActor(q, "delete", a, t, NoRow)) => Plain \/ Goal
    BY <2>2 DEF OnSenior
  <2> HIDE DEF Plain, Goal
  <2> QED BY <1>4, <2>1, <2>3, <2>4, <2>5, <2>6, <2>7, <2>8, <2>9, <2>10 DEF Administers
<1>5. UNCHANGED req => Plain
  OBVIOUS
<1> HIDE DEF Plain, Goal
<1>6. Goal BY <1>1, <1>2, <1>3, <1>4, <1>5 DEF Next, Login, vars
<1> QED BY <1>6 DEF Goal

LEMMA LastStep ==
  ASSUME Typed, AllJudged, [Next]_vars, ActiveSupers # {}, ActiveSupers' = {}
  PROVE  \E r \in Requests :
           \/ Writing(r) /\ (Himself(r) \/ Overtaken(r) \/ Promoted(r))
           \/ req'[r] # req[r] /\ \E u \in ActiveSupers : Outdated(r, u)
<1> USE DEF Typed, TypeOK
<1>1. PICK u \in ActiveSupers : u \in Ids /\ Exists(u) /\ users[u].role = "super_admin"
                                /\ users[u].status = "active"
  BY DEF ActiveSupers, SuperAdmins
<1>2. \A v \in Ids : ~(Exists(v)' /\ users'[v].role = "super_admin" /\ users'[v].status = "active")
  BY DEF ActiveSupers, SuperAdmins, Exists
<1>3. CASE UNCHANGED users
  BY <1>1, <1>2, <1>3 DEF Exists
<1>4. ASSUME NEW r \in Requests, NEW v \in Ids, Commit(r, v) PROVE FALSE
  <2>1. u # v
    BY <1>1, <1>4 DEF Commit, Exists
  <2>2. users'[u] = users[u]
    BY <1>1, <1>4, <2>1 DEF Commit, Insert
  <2> QED BY <1>1, <1>2, <2>2 DEF Exists
<1>5. ASSUME NEW r \in Requests, WriteProfile(r) PROVE req'[r] # req[r] /\ Outdated(r, u)
  <2> DEFINE v == req[r].who
  <2>1. v \in Ids /\ req[r].row \in Standing /\ Stand(v, req[r].row)
        /\ At(r, {"profile"}, "write")
    BY <1>5 DEF WriteProfile, At, OpTyped
  <2>2. CASE v # u
    BY <1>1, <1>2, <2>1, <2>2 DEF Stand, Exists
  <2>3. CASE v = u
    <3>1. Exists(u)' /\ users'[u].role = req[r].row.role /\ users'[u].status = req[r].row.status
      BY <1>1, <2>1, <2>3, StandKeeps
    <3>2. req[r].row # Of(users[u])
      BY <1>1, <1>2, <3>1 DEF Of
    <3>3. req'[r].pc = "reread" /\ req[r].pc = "write"
      BY <1>5, <2>1 DEF WriteProfile, Goto, At, Request
    <3> QED BY <1>1, <2>1, <2>3, <3>2, <3>3 DEF Outdated
  <2> QED BY <2>2, <2>3
<1>6. ASSUME NEW r \in Requests, WriteStatus(r) \/ WriteRole(r) \/ DeleteUser(r)
      PROVE  req'[r] # req[r]
  <2>1. End(r) /\ req[r].pc = "write" BY <1>6 DEF WriteStatus, WriteRole, DeleteUser, At
  <2>2. req'[r].pc = "done" BY <2>1 DEF End, Ended
  <2> QED BY <2>1, <2>2
<1>7. ASSUME NEW r \in Requests, WriteStatus(r)
      PROVE  Writing(r) /\ (Himself(r) \/ Overtaken(r) \/ Promoted(r))
  <2> DEFINE v == req[r].target
             a == req[r].who
             status == IF req[r].op = "suspend" THEN "suspended" ELSE "active"
  <2>1. /\ v \in Ids /\ a \in Ids /\ UpdateStatus(v, status) /\ status \in Status
        /\ At(r, OnStatus, "write") /\ Judged(req[r])
    BY <1>7 DEF WriteStatus, At, OpTyped, Status, AllJudged
  <2>2. \A w \in Ids : w # v => users'[w] = users[w]
    BY <2>1 DEF UpdateStatus, Stand
  <2>3. v = u
    BY <1>1, <1>2, <2>2 DEF Exists
  <2>4. Exists(u)' /\ users'[u].role = users[u].role /\ users'[u].status = status
    <3>1. [role |-> users[u].role, status |-> status] \in Standing
      BY <1>1, <2>1, RowsTyped DEF Row, Standing
    <3>2. Stand(u, [role |-> users[u].role, status |-> status])
      BY <1>1, <2>1, <2>3 DEF UpdateStatus
    <3> QED BY <1>1, <3>1, <3>2, StandKeeps
  <2>5. req[r].op = "suspend"
    BY <1>1, <1>2, <2>4
  <2>6. Writing(r) BY <1>6, <1>7, <2>1, <2>5 DEF Writing, At
  <2>7. a # v => a \notin ActiveSupers
    BY <1>2, <2>1, <2>2 DEF ActiveSupers, SuperAdmins, Exists
  <2> QED BY <1>1, <2>1, <2>3, <2>5, <2>6, <2>7
          DEF Judged, At, Himself, Overtaken, Promoted, OnStatus
\* The actor is still there, and an active super admin, unless the request is
\* overtaken.
<1>8. ASSUME NEW r \in Requests, WriteRole(r) \/ DeleteUser(r)
      PROVE  Writing(r) /\ Overtaken(r)
  <2> DEFINE a == req[r].who
             v == req[r].target
  <2>1. /\ a \in Ids /\ v \in Ids /\ At(r, OnSenior, "write") /\ Judged(req[r])
    BY <1>8 DEF WriteRole, DeleteUser, At, OpTyped, OnSenior, AllJudged
  <2>2. a # v /\ req[r].row # NoRow /\ req[r].row.role = "super_admin"
    BY <2>1 DEF Judged, At
  <2>3. users'[a] = users[a]
    BY <1>8, <2>1, <2>2 DEF WriteRole, UpdateRole, Stand, DeleteUser, Remove
  <2>4. a \notin ActiveSupers
    BY <1>2, <2>1, <2>3 DEF ActiveSupers, SuperAdmins, Exists
  <2>5. Writing(r) BY <1>6, <1>8, <2>1 DEF Writing, At
  <2> QED BY <2>2, <2>4, <2>5 DEF Overtaken
<1> QED BY <1>1, <1>3, <1>4, <1>5, <1>7, <1>8, StandingSteps

\* However requests overlap, the last active super admin is lost only when he
\* suspends himself, by an actor who is no active super admin any more, by one
\* who found the target without the role, or by an old profile.
THEOREM LastOne == Spec => LastActiveLost
<1>1. Init => AllJudged
  BY JudgedBegun DEF Init, AllJudged
<1>2. Typed /\ AllJudged /\ [Next]_vars =>
        [ActiveSupers # {} /\ ActiveSupers' = {} =>
           \E r \in Requests :
             \/ Writing(r) /\ (Himself(r) \/ Overtaken(r) \/ Promoted(r))
             \/ req'[r] # req[r] /\ \E u \in ActiveSupers : Outdated(r, u)]_vars
  BY LastStep
<1> QED BY <1>1, <1>2, TypeInit, TypeNext, JudgedNext, PTL DEF Spec, LastActiveLost

=============================================================================
