------------------------------ MODULE Accounts ------------------------------
(***************************************************************************)
(* User accounts: registration, login with a password or with Google, the  *)
(* profile, and what administrators do to other users.  Each request reads *)
(* rows, decides, and writes with statements of its own; every statement   *)
(* is an action, so that requests interleave between them.                 *)
(*                                                                         *)
(* A token names a user and the role the user had at login, and is not     *)
(* compared with the database again.  Its expiry, passwords and names are  *)
(* left out; so is the audit record, which is written last and whose       *)
(* failure is ignored.  No statement changes the address of an account.    *)
(***************************************************************************)
EXTENDS FiniteSets

CONSTANTS
  Ids,       \* user IDs
  Founders,  \* super admins made by hand: nothing in the code makes the first
  Emails,    \* addresses of newcomers; a founder's ID stands for his address
  Requests,  \* bound: the requests of the run
  Unused,    \* an ID not given yet
  Gone,      \* the ID of a deleted account
  NoRow      \* a request has not read the row

VARIABLES
  users,    \* table users
  override, \* table user_plan_overrides: who set the user's override
  tokens,   \* the highest role in a user's tokens
  decided,  \* history: role and status an administrator last gave
  req       \* local state of each request

vars == <<users, override, tokens, decided, req>>

----------------------------------------------------------------------------
Role     == {"user", "admin", "super_admin"}
Status   == {"active", "suspended"}
Standing == [role : Role, status : Status]
Row      == [email : Emails \cup Founders, role : Role, status : Status]

ASSUME AccountsAssumption ==
  /\ Founders \subseteq Ids
  /\ NoRow \notin Ids \cup Standing
  /\ Unused # Gone /\ {Unused, Gone} \cap Row = {}

Exists(u) == users[u] \notin {Unused, Gone}

Of(row)   == [role |-> row.role, status |-> row.status]
Staff     == {"admin", "super_admin"}
SuperAdmins == {u \in Ids : Exists(u) /\ users[u].role = "super_admin"}

Newcomers == {"register", "google"}
OnStatus  == {"suspend", "unsuspend"}
OnSenior  == {"role", "delete"}
OnFeature == {"override", "restore"}
Step      == {"start", "insert", "reread", "actor", "target", "write", "done"}

\* who: the user a newcomer or a profile becomes, or the acting administrator;
\* arg: the address, or the role to give; row and found: role and status of
\* who and of the target, as read.
Request == [op : Newcomers \cup OnStatus \cup OnSenior \cup OnFeature \cup {"profile", "none"},
            pc : Step, who : Ids \cup {NoRow}, target : Ids \cup {NoRow},
            arg : Emails \cup Role \cup {NoRow}, row : Standing \cup {NoRow},
            found : Standing \cup {NoRow}]

Ended == [op |-> "none", pc |-> "done", who |-> NoRow, target |-> NoRow,
          arg |-> NoRow, row |-> NoRow, found |-> NoRow]

At(r, ops, pc) == req[r].op \in ops /\ req[r].pc = pc
Goto(r, pc)    == req' = [req EXCEPT ![r].pc = pc]
End(r)         == req' = [req EXCEPT ![r] = Ended]
Begin(r, q)    == req[r].pc = "start" /\ req' = [req EXCEPT ![r] = q]

\* The handler uses the row it did not find: the process ends, and every
\* request in flight with it.
Panic == req' = [q \in Requests |-> IF req[q].pc = "start" THEN req[q] ELSE Ended]

----------------------------------------------------------------------------
(* Statements on the table.                                                *)

Taken(email) == \E u \in Ids : Exists(u) /\ users[u].email = email

Unique(email) == ~Taken(email)

Newcomer == [role |-> "user", status |-> "active"]

Insert(u, email) ==
  /\ users' = [users EXCEPT ![u] = [email |-> email, role |-> "user", status |-> "active"]]
  /\ decided' = [decided EXCEPT ![u] = Newcomer]

\* An UPDATE of a row that is gone changes nothing.
Stand(u, s) ==
  users' = [users EXCEPT ![u] = IF Exists(u)
              THEN [email |-> @.email, role |-> s.role, status |-> s.status] ELSE @]

UpdateStatus(u, status) ==
  IF Exists(u)
  THEN /\ Stand(u, [role |-> users[u].role, status |-> status])
       /\ decided' = [decided EXCEPT ![u].status = status]
  ELSE UNCHANGED <<users, decided>>

\* Mutant of UpdateRole: a new role lifts a suspension.
UpdateRoleActive(u, role) ==
  IF Exists(u)
  THEN /\ Stand(u, [role |-> role, status |-> "active"])
       /\ decided' = [decided EXCEPT ![u].role = role]
  ELSE UNCHANGED <<users, decided>>

UpdateRole(u, role) ==
  IF Exists(u)
  THEN /\ Stand(u, [role |-> role, status |-> users[u].status])
       /\ decided' = [decided EXCEPT ![u].role = role]
  ELSE UNCHANGED <<users, decided>>

Remove(u) ==
  /\ users' = [users EXCEPT ![u] = IF Exists(u) THEN Gone ELSE @]
  /\ override' = [override EXCEPT ![u] = NoRow]

----------------------------------------------------------------------------
(* Login and tokens.                                                       *)

Grants(u, role) ==
  tokens' = [tokens EXCEPT ![u] = IF @ \in Staff THEN @ ELSE role]

MayEnter(u) == Exists(u) /\ users[u].status # "suspended"

Login(u) ==
  /\ MayEnter(u)
  /\ Grants(u, users[u].role)
  /\ UNCHANGED <<users, override, decided, req>>

HasToken(u)   == tokens[u] # NoRow
HasRole(u)    == tokens[u] \in Staff

----------------------------------------------------------------------------
(* Registration.  The transaction that inserts the user also inserts the   *)
(* free subscription, and is one step.                                     *)

FindByEmail(r, op, email) ==
  /\ ~Taken(email)
  /\ Begin(r, [Ended EXCEPT !.op = op, !.pc = "insert", !.arg = email])
  /\ UNCHANGED <<users, override, tokens, decided>>

Commit(r, u) ==
  /\ At(r, Newcomers, "insert")
  /\ users[u] = Unused
  /\ Unique(req[r].arg)
  /\ Insert(u, req[r].arg)
  /\ req' = [req EXCEPT ![r].pc = "reread", ![r].who = u]
  /\ UNCHANGED <<override, tokens>>

\* The index refuses the address, or the database is down.
CommitFails(r) ==
  /\ At(r, Newcomers, "insert")
  /\ End(r)
  /\ UNCHANGED <<users, override, tokens, decided>>

Registered(r) ==
  /\ At(r, {"register"}, "reread")
  /\ IF Exists(req[r].who) THEN End(r) ELSE Panic
  /\ UNCHANGED <<users, override, tokens, decided>>

GoogleEnters(r) ==
  LET u == req[r].who IN
  /\ At(r, {"google"}, "reread")
  /\ IF Exists(u) THEN End(r) ELSE Panic
  /\ IF MayEnter(u) THEN Grants(u, users[u].role) ELSE UNCHANGED tokens
  /\ UNCHANGED <<users, override, decided>>

----------------------------------------------------------------------------
(* The profile: the row is read, and written back with its role and status.*)

ReadProfile(r, u) ==
  /\ HasToken(u) /\ Exists(u)
  /\ Begin(r, [Ended EXCEPT !.op = "profile", !.pc = "write",
                            !.who = u, !.row = Of(users[u])])
  /\ UNCHANGED <<users, override, tokens, decided>>

WriteProfile(r) ==
  /\ At(r, {"profile"}, "write")
  /\ Stand(req[r].who, req[r].row)
  /\ Goto(r, "reread")
  /\ UNCHANGED <<override, tokens, decided>>

RereadProfile(r) ==
  /\ At(r, {"profile"}, "reread")
  /\ IF Exists(req[r].who) THEN End(r) ELSE Panic
  /\ UNCHANGED <<users, override, tokens, decided>>

----------------------------------------------------------------------------
(* Administration.  The route asks for an administrator's token.           *)

\* A super admin's status is changed only by a super admin or by himself.
FindTarget(r, op, actor, target) ==
  /\ HasRole(actor) /\ Exists(target)
  /\ Begin(r, [Ended EXCEPT !.op = op, !.who = actor, !.target = target,
       !.found = Of(users[target]),
       !.pc = IF users[target].role = "super_admin" /\ actor # target
              THEN "actor" ELSE "write"])
  /\ UNCHANGED <<users, override, tokens, decided>>

IsSuperAdmin(u) == u \in SuperAdmins

CheckActor(r) ==
  /\ At(r, OnStatus, "actor")
  /\ IF IsSuperAdmin(req[r].who)
     THEN req' = [req EXCEPT ![r].pc = "write", ![r].row = Of(users[req[r].who])]
     ELSE End(r)
  /\ UNCHANGED <<users, override, tokens, decided>>

\* Mutant of WriteStatus: the request's verb is stored, not the status.
WriteVerb(r) ==
  /\ At(r, OnStatus, "write")
  /\ UpdateStatus(req[r].target, req[r].op)
  /\ End(r)
  /\ UNCHANGED <<override, tokens>>

WriteStatus(r) ==
  /\ At(r, OnStatus, "write")
  /\ UpdateStatus(req[r].target, IF req[r].op = "suspend" THEN "suspended" ELSE "active")
  /\ End(r)
  /\ UNCHANGED <<override, tokens>>

\* Mutant of NotSelf: the actor may name himself.
Anyone(actor, target) == TRUE

NotSelf(actor, target) == actor # target

\* Roles are given, and users deleted, by super admins, never to themselves.
FindActor(r, op, actor, target, role) ==
  /\ HasRole(actor) /\ NotSelf(actor, target) /\ IsSuperAdmin(actor)
  /\ Begin(r, [Ended EXCEPT !.op = op, !.pc = "target", !.who = actor,
                            !.target = target, !.arg = role, !.row = Of(users[actor])])
  /\ UNCHANGED <<users, override, tokens, decided>>

CheckTarget(r) ==
  /\ At(r, OnSenior, "target")
  /\ IF Exists(req[r].target) THEN Goto(r, "write") ELSE End(r)
  /\ UNCHANGED <<users, override, tokens, decided>>

WriteRole(r) ==
  /\ At(r, {"role"}, "write")
  /\ UpdateRole(req[r].target, req[r].arg)
  /\ End(r)
  /\ UNCHANGED <<override, tokens>>

\* The creator of an override cannot be deleted; the user's own goes with him.
DeleteUser(r) ==
  LET u == req[r].target IN
  /\ At(r, {"delete"}, "write")
  /\ IF \E v \in Ids \ {u} : override[v] = u
     THEN UNCHANGED <<users, override>>
     ELSE Remove(u)
  /\ End(r)
  /\ UNCHANGED <<tokens, decided>>

\* Feature overrides: administrators set those of users, super admins any.
FindAdmin(r, op, actor, target) ==
  /\ HasRole(actor) /\ Exists(actor)
  /\ Begin(r, [Ended EXCEPT !.op = op, !.pc = "target", !.who = actor,
                            !.target = target, !.row = Of(users[actor])])
  /\ UNCHANGED <<users, override, tokens, decided>>

MayOverride(senior, actor, target) ==
  senior \/ (actor # target /\ users[target].role = "user")

CheckStandard(r) ==
  LET q == req[r] IN
  /\ At(r, OnFeature, "target")
  /\ IF Exists(q.target) /\ MayOverride(q.row.role = "super_admin", q.who, q.target)
     THEN Goto(r, "write") ELSE End(r)
  /\ UNCHANGED <<users, override, tokens, decided>>

SetOverride(r) ==
  LET u == req[r].target  a == req[r].who IN
  /\ At(r, {"override"}, "write")
  /\ override' = IF Exists(u) /\ Exists(a) THEN [override EXCEPT ![u] = a] ELSE override
  /\ End(r)
  /\ UNCHANGED <<users, tokens, decided>>

DeleteOverride(r) ==
  /\ At(r, {"restore"}, "write")
  /\ override' = [override EXCEPT ![req[r].target] = NoRow]
  /\ End(r)
  /\ UNCHANGED <<users, tokens, decided>>

----------------------------------------------------------------------------
Init ==
  /\ users = [u \in Ids |-> IF u \in Founders
        THEN [email |-> u, role |-> "super_admin", status |-> "active"] ELSE Unused]
  /\ override = [u \in Ids |-> NoRow]
  /\ tokens = [u \in Ids |-> NoRow]
  /\ decided = [u \in Ids |-> [role |-> IF u \in Founders THEN "super_admin" ELSE "user",
                               status |-> "active"]]
  /\ req = [r \in Requests |-> [Ended EXCEPT !.pc = "start"]]

Newcomes(r) ==
  \/ \E op \in Newcomers, e \in Emails : FindByEmail(r, op, e)
  \/ \E u \in Ids : Commit(r, u)
  \/ CommitFails(r) \/ Registered(r) \/ GoogleEnters(r)

Edits(r) == (\E u \in Ids : ReadProfile(r, u)) \/ WriteProfile(r) \/ RereadProfile(r)

Administers(r) ==
  \/ \E op \in OnStatus, a \in Ids, t \in Ids : FindTarget(r, op, a, t)
  \/ \E a \in Ids, t \in Ids, role \in Role : FindActor(r, "role", a, t, role)
  \/ \E a \in Ids, t \in Ids : FindActor(r, "delete", a, t, NoRow)
  \/ CheckActor(r) \/ WriteStatus(r) \/ CheckTarget(r) \/ WriteRole(r) \/ DeleteUser(r)
  \/ \E op \in OnFeature, a \in Ids, t \in Ids : FindAdmin(r, op, a, t)
  \/ CheckStandard(r) \/ SetOverride(r) \/ DeleteOverride(r)

Next ==
  \/ \E u \in Ids : Login(u)
  \/ \E r \in Requests : Newcomes(r) \/ Edits(r) \/ Administers(r)

Spec == Init /\ [][Next]_vars

----------------------------------------------------------------------------
(* Properties.                                                             *)

\* Every variable keeps its type.
TypeOK ==
  /\ users \in [Ids -> Row \cup {Unused, Gone}]
  /\ override \in [Ids -> Ids \cup {NoRow}]
  /\ tokens \in [Ids -> Role \cup {NoRow}]
  /\ decided \in [Ids -> Standing]
  /\ req \in [Requests -> Request]

\* No two accounts have the same address, though the check and the insertion
\* are apart and a password and a Google registration may race (Register,
\* LoginOrRegisterGoogle).
OneAccountPerEmail ==
  \A u, v \in Ids : Exists(u) /\ Exists(v) /\ users[u].email = users[v].email => u = v

\* A request that no longer finds its own user, and so ends the process, had
\* the user deleted under it; it never looks before its own commit (Register,
\* LoginOrRegisterGoogle, UpdateProfile).
NilMeansDeleted ==
  \A r \in Requests : req[r].pc = "reread" => users[req[r].who] # Unused

\* Role and status stay as an administrator last gave them, unless a profile
\* update writes back what it read before (UpdateProfile, WriteProfile).
Stands(u)  == Exists(u) => Of(users[u]) = decided[u]
Outdated(r, u) ==
  At(r, {"profile"}, "write") /\ req[r].who = u /\ Exists(u) /\ req[r].row # Of(users[u])
DriftOnlyByOldProfile ==
  [][\A u \in Ids : Stands(u) /\ ~Stands(u)' => \E r \in Requests : Outdated(r, u)]_vars

\* The last active super admin stops being one only when he suspends himself,
\* when someone acts who was found to be super admin but is none by now, or a
\* suspended one, when someone suspends him who found him without the role, or
\* when he writes back an old profile (SuspendUser, ChangeUserRole, DeleteUser,
\* UpdateProfile).
ActiveSupers == {u \in SuperAdmins : users[u].status = "active"}
Writing(r)   == At(r, OnSenior \cup {"suspend"}, "write") /\ req'[r] # req[r]
Himself(r)   == req[r].op = "suspend" /\ req[r].who = req[r].target
Overtaken(r) == /\ req[r].who \notin ActiveSupers \cup {req[r].target}
                /\ req[r].row # NoRow /\ req[r].row.role = "super_admin"
Promoted(r)  == /\ req[r].op = "suspend" /\ req[r].target \in ActiveSupers
                /\ req[r].found.role # "super_admin"
LastActiveLost ==
  [][ActiveSupers # {} /\ ActiveSupers' = {} =>
       \E r \in Requests :
         \/ Writing(r) /\ (Himself(r) \/ Overtaken(r) \/ Promoted(r))
         \/ req'[r] # req[r] /\ \E u \in ActiveSupers : Outdated(r, u)]_vars

\* An override has its user and its creator, also when one of the two is being
\* deleted while it is set (OverrideUserFeature, DeleteUser).
OverridesAreBacked ==
  \A u \in Ids : override[u] # NoRow => Exists(u) /\ Exists(override[u])

=============================================================================
