-------------------------- MODULE Submission_proofs --------------------------
(* Proofs about Resources and Submission, for any number of requests,      *)
(* clients, recipients, names and plans: how far a plan's limit may be     *)
(* exceeded, what verifies a domain, what a revoked key still sends, and   *)
(* who has been served when a message fails in the middle.                 *)
EXTENDS Submission, FiniteSetTheorems, TLAPS

----------------------------------------------------------------------------
(* Types, with what the fields of a request and of a session hold.         *)

\* The argument of a request, by what it does.
Shaped(q) ==
  /\ q.op = "domain" => q.arg \in Names /\ (q.pc = "insert" => q.id \in Ids)
  /\ q.op = "key" => q.arg \in Ids \cup {None}
  /\ q.op \in {"verify", "delete"} => q.arg \in Ids

Tables(rows) ==
  /\ rows = [k \in Kinds |-> rows[k]]
  /\ rows["domain"] \in [Ids -> Domain \cup {None}]
  /\ rows["key"] \in [Ids -> Key \cup {None}]
  /\ rows["webhook"] \in [Ids -> Hook \cup {None}]

Serving(c) == client[c].pc \in {"domain", "plan", "quota", "insert", "enqueue"}

Keyed(s) ==
  /\ s.pc # "closed" => s.key \in Ids
  /\ s.pc \in {"plan", "quota", "insert", "enqueue"} => s.domain \in Ids

Sessions == \A c \in Clients : Keyed(client[c])

Typed ==
  /\ TypeOK /\ Tables(row) /\ Sessions
  /\ \A r \in Requests : Shaped(req[r])

LEMMA Constants ==
  /\ MaxRows \in Nat /\ Rcpts \in Nat \ {0} /\ MaxData \in Nat
  /\ None \notin Ids /\ None \notin Domain /\ None \notin Key /\ None # "webhook"
  /\ Limit \in [Plans -> [Kinds -> Nat \cup {Unlimited}]]
BY ResourcesAssumption, RowAssumption, SubmissionAssumption DEF Hook

LEMMA EndedTyped ==
  /\ Ended \in Request /\ Shaped(Ended) /\ Ended.op = "none" /\ Ended.pc = "done"
BY DEF Ended, Request, Shaped, Kinds, Verdict, Step, Ops

\* What a step of a request leaves of the requests.
LEMMA RequestTyped ==
  ASSUME Typed, NEW r \in Requests, NEW q, q \in Request, Shaped(q), req' = [req EXCEPT ![r] = q]
  PROVE  req' \in [Requests -> Request] /\ \A s \in Requests : Shaped(req'[s])
BY DEF Typed, TypeOK, ResourcesTypes

LEMMA PanicTyped ==
  ASSUME Typed, Panic
  PROVE  req' \in [Requests -> Request] /\ \A s \in Requests : Shaped(req'[s])
BY EndedTyped DEF Typed, TypeOK, ResourcesTypes, Panic

LEMMA GotoTyped ==
  ASSUME Typed, NEW r \in Requests, NEW pc \in Step \ {"insert"}, Goto(r, pc)
  PROVE  req' \in [Requests -> Request] /\ \A s \in Requests : Shaped(req'[s])
<1>1. req[r] \in Request /\ Shaped(req[r]) /\ req' = [req EXCEPT ![r] = [req[r] EXCEPT !.pc = pc]]
  BY DEF Typed, TypeOK, ResourcesTypes, Goto
<1>2. [req[r] EXCEPT !.pc = pc] \in Request
  BY <1>1 DEF Request
<1>3. Shaped([req[r] EXCEPT !.pc = pc])
  BY <1>1 DEF Request, Shaped
<1> QED BY <1>1, <1>2, <1>3, RequestTyped

LEMMA EndTyped ==
  ASSUME Typed, NEW r \in Requests, End(r)
  PROVE  req' \in [Requests -> Request] /\ \A s \in Requests : Shaped(req'[s])
BY EndedTyped, RequestTyped DEF End

\* A row is inserted.
LEMMA InsertTyped ==
  ASSUME Typed, NEW k \in Kinds, NEW i \in Ids, NEW value, Insert(k, i, value),
         \/ k = "domain" /\ value \in Domain
         \/ k = "key" /\ value \in Key
         \/ k = "webhook" /\ value = "webhook"
  PROVE  /\ Tables(row') /\ row'[k][i] = value
         /\ \A l \in Kinds, j \in Ids : l # k \/ j # i => row'[l][j] = row[l][j]
<1>1. Tables(row) /\ row' = [row EXCEPT ![k] = [row[k] EXCEPT ![i] = value]]
  BY DEF Typed, Insert
<1>2. row = [l \in Kinds |-> row[l]]
  BY <1>1 DEF Tables
<1>3. /\ row' = [l \in Kinds |-> row'[l]]
      /\ row'[k] = [row[k] EXCEPT ![i] = value] /\ \A l \in Kinds : l # k => row'[l] = row[l]
  BY <1>1, <1>2
<1>4. /\ row["domain"] \in [Ids -> Domain \cup {None}] /\ row["key"] \in [Ids -> Key \cup {None}]
      /\ row["webhook"] \in [Ids -> Hook \cup {None}]
  BY <1>1 DEF Tables
<1>5. "domain" \in Kinds /\ "key" \in Kinds /\ "webhook" \in Kinds
  BY DEF Kinds
<1>6. /\ row'["domain"] \in [Ids -> Domain \cup {None}] /\ row'["key"] \in [Ids -> Key \cup {None}]
      /\ row'["webhook"] \in [Ids -> Hook \cup {None}]
  BY <1>3, <1>4, <1>5 DEF Hook
<1>7. row'[k][i] = value /\ \A j \in Ids : j # i => row'[k][j] = row[k][j]
  BY <1>3, <1>4 DEF Kinds
<1> QED BY <1>3, <1>6, <1>7 DEF Tables

\* A verdict is written, or a row deleted.
LEMMA StatusTyped ==
  ASSUME Typed, NEW d \in Owned("domain"), NEW status \in Verdict,
         row' = [row EXCEPT !["domain"][d].status = status]
  PROVE  /\ Tables(row') /\ row'["domain"][d] = [row["domain"][d] EXCEPT !.status = status]
         /\ \A l \in Kinds, j \in Ids : l # "domain" \/ j # d => row'[l][j] = row[l][j]
<1>1. Tables(row) /\ row = [l \in Kinds |-> row[l]] /\ "domain" \in Kinds
  BY DEF Typed, Tables, Kinds
<1> DEFINE v == [row["domain"][d] EXCEPT !.status = status]
<1>2. row["domain"][d] \in Domain /\ d \in Ids
  BY <1>1 DEF Owned, Tables
<1>3. v \in Domain
  BY <1>2 DEF Domain
<1>4. row' = [row EXCEPT !["domain"] = [row["domain"] EXCEPT ![d] = v]]
  OBVIOUS
<1>5. Insert("domain", d, v)
  BY <1>4 DEF Insert
<1> HIDE DEF v
<1>6. Tables(row') /\ row'["domain"][d] = v
      /\ \A l \in Kinds, j \in Ids : l # "domain" \/ j # d => row'[l][j] = row[l][j]
  BY <1>1, <1>2, <1>3, <1>5, InsertTyped
<1> QED BY <1>6 DEF v

LEMMA DeleteTyped ==
  ASSUME Typed, NEW r \in Requests, DeleteRow(r)
  PROVE  /\ Tables(row')
         /\ req[r].kind \in Kinds /\ req[r].arg \in Ids
         /\ \A l \in Kinds, j \in Ids :
              /\ row'[l][j] # None => row[l][j] # None
              /\ row'[l][j] # None /\ l = "domain" => row'[l][j] = row[l][j]
<1> DEFINE k == req[r].kind  i == req[r].arg
<1>1. k \in Kinds /\ i \in Ids
  BY DEF DeleteRow, At, Typed, TypeOK, ResourcesTypes, Request, Shaped
<1>2. row' = IF k = "domain"
            THEN [row EXCEPT !["domain"][i] = None,
                             !["key"] = [j \in Ids |-> Unbound(i, row["key"][j])]]
            ELSE [row EXCEPT ![k][i] = None]
  BY DEF DeleteRow
<1> HIDE DEF k, i
<1>3. Tables(row) /\ row = [l \in Kinds |-> row[l]]
  BY DEF Typed, Tables
<1>4. "domain" \in Kinds /\ "key" \in Kinds /\ "webhook" \in Kinds
  BY DEF Kinds
<1>5. /\ row["domain"] \in [Ids -> Domain \cup {None}] /\ row["key"] \in [Ids -> Key \cup {None}]
      /\ row["webhook"] \in [Ids -> Hook \cup {None}]
  BY <1>3 DEF Tables
<1>6. row' = [l \in Kinds |-> row'[l]]
  BY <1>2, <1>3
<1>7. CASE k = "domain"
  <2> DEFINE keys == [j \in Ids |-> Unbound(i, row["key"][j])]
  <2>1. \A j \in Ids : /\ Unbound(i, row["key"][j]) \in Key \cup {None}
                       /\ Unbound(i, row["key"][j]) # None => row["key"][j] # None
    BY <1>5 DEF Unbound, Key
  <2>2. row' = [[row EXCEPT !["domain"][i] = None] EXCEPT !["key"] = keys]
    BY <1>2, <1>7
  <2>3. row'["key"] = keys
    BY <1>3, <1>4, <2>2
  <2>4. row'["domain"] = [row["domain"] EXCEPT ![i] = None]
    BY <1>3, <1>4, <2>2
  <2>5. row'["webhook"] = row["webhook"]
    BY <1>3, <1>4, <2>2
  <2>6. Tables(row')
    <3>1. keys \in [Ids -> Key \cup {None}]
      BY <2>1
    <3>2. row'["domain"] \in [Ids -> Domain \cup {None}]
      BY <1>5, <2>4
    <3> HIDE DEF keys
    <3> QED BY <1>5, <1>6, <2>3, <2>5, <3>1, <3>2 DEF Tables
  <2> QED BY <1>1, <1>5, <2>1, <2>3, <2>4, <2>5, <2>6 DEF Kinds, k, i
<1>8. CASE k # "domain"
  <2>1. row' = [row EXCEPT ![k][i] = None]
    BY <1>2, <1>8
  <2>2. row'[k] = [row[k] EXCEPT ![i] = None] /\ \A l \in Kinds : l # k => row'[l] = row[l]
    BY <1>1, <1>3, <1>4, <2>1
  <2>3. Tables(row')
    BY <1>1, <1>4, <1>5, <1>6, <2>2 DEF Tables
  <2>4. ASSUME NEW l \in Kinds, NEW j \in Ids, row'[l][j] # None
        PROVE  row[l][j] # None /\ (l = "domain" => row'[l][j] = row[l][j])
    <3>1. CASE l = k
      BY <1>1, <1>5, <1>8, <2>2, <2>4, <3>1 DEF Kinds
    <3>2. CASE l # k
      BY <2>2, <2>4, <3>2
    <3> QED BY <3>1, <3>2
  <2> QED BY <1>1, <2>3, <2>4 DEF k, i
<1> QED BY <1>7, <1>8

\* Which fields a step of a request writes.
LEMMA CreatesTyped ==
  ASSUME Typed, NEW r \in Requests, Creates(r)
  PROVE  /\ Tables(row') /\ made' \in [Kinds -> 0..MaxRows] /\ UNCHANGED <<plan, dns, found>>
         /\ req' \in [Requests -> Request] /\ \A s \in Requests : Shaped(req'[s])
<1> USE DEF At
<1>1. /\ plan \in Plans /\ made \in [Kinds -> 0..MaxRows] /\ Tables(row)
      /\ req[r] \in Request /\ Shaped(req[r])
  BY DEF Typed, TypeOK, ResourcesTypes
<1>2. /\ "domain" \in Kinds /\ "key" \in Kinds /\ "webhook" \in Kinds
      /\ "check" \in Step \ {"insert"}
  BY DEF Kinds, Step
<1>3. ASSUME NEW k \in Kinds, NEW arg \in Names \cup Ids \cup {None}, ReadLimit(r, k, arg),
             k = "domain" => arg \in Names, k = "key" => arg \in Ids \cup {None}
      PROVE  /\ req' \in [Requests -> Request] /\ \A s \in Requests : Shaped(req'[s])
             /\ UNCHANGED <<plan, made, row, dns, found>>
  <2> DEFINE limit == Limit[plan][k]
             q == [Ended EXCEPT !.op = k, !.pc = "count", !.arg = arg, !.limit = limit]
  <2>1. limit \in Nat \cup {Unlimited}
    BY <1>1, Constants
  <2>2. req' = [req EXCEPT ![r] = q] /\ UNCHANGED <<plan, made, row, dns, found>>
    BY <1>3 DEF ReadLimit, Begin
  <2> HIDE DEF limit
  <2>3. q.op = k /\ q.pc = "count" /\ q.arg = arg
    BY EndedTyped DEF Request
  <2>4. q \in Request
    BY <2>1, EndedTyped DEF Request, Step
  <2>5. Shaped(q)
    BY <2>3, <1>3 DEF Shaped, Kinds
  <2> HIDE DEF q
  <2> QED BY <2>2, <2>4, <2>5, RequestTyped
<1>4. CASE \/ \E name \in Names : ReadLimit(r, "domain", name)
           \/ \E d \in Ids \cup {None} : ReadLimit(r, "key", d)
           \/ ReadLimit(r, "webhook", None)
  BY <1>1, <1>2, <1>3, <1>4
<1>5. ASSUME NEW k \in Kinds, Count(r, k)
      PROVE  /\ req' \in [Requests -> Request] /\ \A s \in Requests : Shaped(req'[s])
             /\ UNCHANGED <<plan, made, row, dns, found>>
  BY <1>2, <1>5, GotoTyped, EndTyped DEF Count
<1>6. CASE CheckName(r)
  <2>1. CASE HasName(req[r].arg)
    BY <1>1, <1>6, <2>1, EndTyped DEF CheckName
  <2>2. CASE ~HasName(req[r].arg)
    <3> DEFINE q == [req[r] EXCEPT !.pc = "insert", !.id = NewId("domain")]
    <3>1. /\ req' = [req EXCEPT ![r] = q] /\ Number("domain") /\ req[r].op = "domain"
          /\ UNCHANGED <<plan, row, dns, found>>
      BY <1>6, <2>2 DEF CheckName
    <3>2. NewId("domain") \in Ids /\ made' \in [Kinds -> 0..MaxRows]
      BY <1>1, <1>2, <3>1, Constants DEF Number, NewId, Ids
    <3>3. q \in Request
      BY <1>1, <3>2 DEF Request, Step
    <3>4. Shaped(q)
      BY <1>1, <3>1, <3>2 DEF Request, Shaped
    <3> HIDE DEF q
    <3> QED BY <1>1, <3>1, <3>2, <3>3, <3>4, RequestTyped
  <2> QED BY <2>1, <2>2
<1>7. CASE InsertDomain(r)
  <2>1. End(r) /\ UNCHANGED <<plan, made, dns, found>> /\ req[r].arg \in Names /\ req[r].id \in Ids
    BY <1>1, <1>7 DEF InsertDomain, Shaped
  <2>2. [name |-> req[r].arg, status |-> "pending"] \in Domain
    BY <2>1 DEF Domain, Verdict
  <2>3. Tables(row')
    BY <1>1, <1>2, <1>7, <2>1, <2>2, InsertTyped DEF InsertDomain
  <2> QED BY <1>1, <2>1, <2>3, EndTyped
<1>8. CASE CheckBinding(r)
  <2>1. "insert" \in Step /\ req[r].op = "key"
    BY <1>8 DEF Step, CheckBinding
  <2>2. CASE End(r)
    BY <1>1, <1>8, <2>2, EndTyped DEF CheckBinding
  <2>3. CASE Goto(r, "insert")
    <3> DEFINE q == [req[r] EXCEPT !.pc = "insert"]
    <3>1. q \in Request
      BY <1>1, <2>1 DEF Request
    <3>2. Shaped(q)
      BY <1>1, <2>1 DEF Request, Shaped
    <3>3. req' = [req EXCEPT ![r] = q]
      BY <2>3 DEF Goto
    <3> HIDE DEF q
    <3> QED BY <1>1, <1>8, <3>1, <3>2, <3>3, RequestTyped DEF CheckBinding
  <2> QED BY <1>8, <2>2, <2>3 DEF CheckBinding
<1>9. ASSUME NEW k \in Kinds, Number(k)
      PROVE  NewId(k) \in Ids /\ made' \in [Kinds -> 0..MaxRows]
  BY <1>1, <1>9, Constants DEF Number, NewId, Ids
<1>10. CASE InsertKey(r)
  <2>1. End(r) /\ UNCHANGED <<plan, dns, found>> /\ req[r].arg \in Ids \cup {None}
    BY <1>1, <1>10 DEF InsertKey, Shaped
  <2>2. CASE UNCHANGED <<made, row>>
    BY <1>1, <2>1, <2>2, EndTyped
  <2>3. CASE Number("key") /\ Insert("key", NewId("key"), [domain |-> req[r].arg])
    <3>1. [domain |-> req[r].arg] \in Key
      BY <2>1 DEF Key
    <3>2. Tables(row')
      BY <1>2, <1>9, <2>3, <3>1, InsertTyped
    <3> QED BY <1>2, <1>9, <2>1, <2>3, <3>2, EndTyped
  <2> QED BY <1>10, <2>2, <2>3 DEF InsertKey
<1>11. CASE InsertWebhook(r)
  <2>1. /\ End(r) /\ UNCHANGED <<plan, dns, found>> /\ Number("webhook")
        /\ Insert("webhook", NewId("webhook"), "webhook")
    BY <1>11 DEF InsertWebhook
  <2>2. Tables(row')
    BY <1>2, <1>9, <2>1, InsertTyped
  <2> QED BY <1>2, <1>9, <2>1, <2>2, EndTyped
<1> QED BY <1>1, <1>3, <1>4, <1>5, <1>6, <1>7, <1>8, <1>10, <1>11 DEF Creates

LEMMA VerifiesTyped ==
  ASSUME Typed, NEW r \in Requests, Verifies(r)
  PROVE  /\ Tables(row') /\ found' \subseteq Ids /\ UNCHANGED <<plan, made, dns>>
         /\ req' \in [Requests -> Request] /\ \A s \in Requests : Shaped(req'[s])
<1> USE DEF At
<1>1. /\ found \subseteq Ids /\ Tables(row) /\ req[r] \in Request /\ Shaped(req[r])
      /\ dns \in [Names -> Records]
  BY DEF Typed, TypeOK, ResourcesTypes
<1>2. ASSUME NEW d \in Ids, FindDomain(r, d)
      PROVE  /\ req' \in [Requests -> Request] /\ \A s \in Requests : Shaped(req'[s])
             /\ UNCHANGED <<plan, made, row, dns, found>>
  <2> DEFINE q == [Ended EXCEPT !.op = "verify", !.pc = "lookup", !.arg = d]
  <2>1. req' = [req EXCEPT ![r] = q] /\ UNCHANGED <<plan, made, row, dns, found>>
    BY <1>2 DEF FindDomain, Begin
  <2>2. q \in Request /\ q.op = "verify" /\ q.arg = d
    BY EndedTyped DEF Request, Step, Ops
  <2>3. Shaped(q)
    BY <2>2 DEF Shaped
  <2> HIDE DEF q
  <2> QED BY <2>1, <2>2, <2>3, RequestTyped
<1>3. CASE VerifyDNS(r)
  <2> DEFINE d == req[r].arg
  <2>1. d \in Ids /\ req[r].op = "verify" /\ UNCHANGED <<plan, made, row, dns>>
    BY <1>1, <1>3 DEF VerifyDNS, Shaped
  <2>2. CASE d \notin Owned("domain")
    BY <1>1, <1>3, <2>1, <2>2, EndTyped DEF VerifyDNS
  <2>3. CASE d \in Owned("domain")
    <3>1. PICK spf \in BOOLEAN, dkim \in BOOLEAN, dmarc \in BOOLEAN :
            /\ req' = [req EXCEPT ![r].pc = "write",
                         ![r].status = StatusOf(row["domain"][d].name \in TestNames, spf, dkim, dmarc)]
            /\ found' = IF spf /\ dkim /\ dmarc THEN found \cup {d} ELSE found
      BY <1>3, <2>3 DEF VerifyDNS
    <3> DEFINE status == StatusOf(row["domain"][d].name \in TestNames, spf, dkim, dmarc)
               q == [req[r] EXCEPT !.pc = "write", !.status = status]
    <3>2. status \in Verdict
      BY DEF StatusOf, Verdict
    <3>3. req' = [req EXCEPT ![r] = q]
      BY <3>1
    <3> HIDE DEF status
    <3>4. q \in Request /\ Shaped(q)
      BY <1>1, <2>1, <3>2 DEF Request, Step, Shaped
    <3> HIDE DEF q
    <3>5. req' \in [Requests -> Request] /\ \A s \in Requests : Shaped(req'[s])
      BY <3>3, <3>4, RequestTyped
    <3>6. found' \subseteq Ids
      BY <1>1, <2>1, <3>1
    <3> QED BY <1>1, <2>1, <3>5, <3>6
  <2> QED BY <2>2, <2>3
<1>4. CASE UpdateVerificationStatus(r)
  <2>1. /\ Goto(r, "reread") /\ UNCHANGED <<plan, made, dns, found>>
        /\ row' = IF req[r].arg \in Owned("domain")
                  THEN [row EXCEPT !["domain"][req[r].arg].status = req[r].status] ELSE row
    BY <1>4 DEF UpdateVerificationStatus
  <2>2. "reread" \in Step \ {"insert"} /\ req[r].status \in Verdict
    BY <1>1 DEF Step, Request
  <2>3. Tables(row')
    BY <1>1, <2>1, <2>2, StatusTyped
  <2> QED BY <1>1, <2>1, <2>2, <2>3, GotoTyped
<1>5. CASE Verified(r)
  BY <1>1, <1>5, EndTyped, PanicTyped DEF Verified
<1> QED BY <1>1, <1>2, <1>3, <1>4, <1>5 DEF Verifies

LEMMA DeletesTyped ==
  ASSUME Typed, NEW r \in Requests, Deletes(r)
  PROVE  /\ Tables(row') /\ UNCHANGED <<plan, made, dns, found>>
         /\ req' \in [Requests -> Request] /\ \A s \in Requests : Shaped(req'[s])
<1>1. ASSUME NEW k \in Kinds, NEW i \in Ids, FindRow(r, k, i)
      PROVE  /\ req' \in [Requests -> Request] /\ \A s \in Requests : Shaped(req'[s])
             /\ UNCHANGED <<plan, made, row, dns, found>>
  <2> DEFINE q == [Ended EXCEPT !.op = "delete", !.pc = "delete", !.kind = k, !.arg = i]
  <2>1. req' = [req EXCEPT ![r] = q] /\ UNCHANGED <<plan, made, row, dns, found>>
    BY <1>1 DEF FindRow, Begin
  <2>2. q \in Request /\ q.op = "delete" /\ q.arg = i
    BY EndedTyped DEF Request, Step, Ops
  <2>3. Shaped(q)
    BY <2>2 DEF Shaped
  <2> HIDE DEF q
  <2> QED BY <2>1, <2>2, <2>3, RequestTyped
<1>2. CASE DeleteRow(r)
  <2>1. End(r) /\ UNCHANGED <<plan, made, dns, found>>
    BY <1>2 DEF DeleteRow
  <2> QED BY <1>2, <2>1, DeleteTyped, EndTyped
<1> QED BY <1>1, <1>2 DEF Deletes, Typed

LEMMA TypeResources ==
  ASSUME Typed, ResourcesNext, UNCHANGED submission
  PROVE  Typed'
<1>1. /\ plan \in Plans /\ made \in [Kinds -> 0..MaxRows] /\ Tables(row)
      /\ dns \in [Names -> Records] /\ found \subseteq Ids
      /\ req \in [Requests -> Request] /\ \A r \in Requests : Shaped(req[r])
      /\ client \in [Clients -> Session] /\ late \in [Clients -> [Ids -> Nat]]
      /\ copies \in [Clients -> [1..Rcpts -> Nat]] /\ Sessions
  BY DEF Typed, TypeOK, ResourcesTypes
<1>2. ASSUME plan' \in Plans, made' \in [Kinds -> 0..MaxRows], Tables(row'),
             dns' \in [Names -> Records], found' \subseteq Ids,
             req' \in [Requests -> Request], \A r \in Requests : Shaped(req'[r])
      PROVE  Typed'
  <2>1. ResourcesTypes'
    BY <1>2 DEF ResourcesTypes, Tables
  <2>2. TypeOK' /\ Sessions'
    BY <1>1, <2>1 DEF TypeOK, submission, Sessions, Keyed
  <2>3. Tables(row)'
    BY <1>2 DEF Tables
  <2>4. \A r \in Requests : Shaped(req[r])'
    BY <1>2 DEF Shaped
  <2> QED BY <2>1, <2>2, <2>3, <2>4 DEF Typed
<1>3. ASSUME NEW r \in Requests, Creates(r) PROVE Typed'
  BY <1>1, <1>2, <1>3, CreatesTyped
<1>4. ASSUME NEW r \in Requests, Verifies(r) PROVE Typed'
  BY <1>1, <1>2, <1>4, VerifiesTyped
<1>5. ASSUME NEW r \in Requests, Deletes(r) PROVE Typed'
  BY <1>1, <1>2, <1>5, DeletesTyped
<1>6. ASSUME NEW r \in Requests, Fails(r) PROVE Typed'
  BY <1>1, <1>2, <1>6, EndTyped DEF Fails
<1>7. ASSUME NEW name \in Names, NEW records \in Records, Publish(name, records) PROVE Typed'
  BY <1>1, <1>2, <1>7 DEF Publish
<1>8. ASSUME NEW p \in Plans, ChangePlan(p) PROVE Typed'
  BY <1>1, <1>2, <1>8 DEF ChangePlan
<1> QED BY <1>3, <1>4, <1>5, <1>6, <1>7, <1>8 DEF ResourcesNext

\* A step of a client writes his session; an answer ends what it was doing.
LEMMA AfterTyped ==
  ASSUME NEW s \in Session, Keyed(s), s.pc # "closed", NEW answer \in {"ok", "error"}
  PROVE  After(s, answer) \in Session /\ Keyed(After(s, answer))
<1> DEFINE pc == IF s.via = "smtp" THEN "ready" ELSE "closed"
           key == IF s.via = "smtp" THEN s.key ELSE None
<1>1. After(s, answer) = [s EXCEPT !.answer = answer, !.domain = None, !.pc = pc, !.key = key]
  BY DEF After
<1>2. /\ pc \in {"ready", "closed"} /\ key \in Ids \cup {None}
      /\ pc = "ready" => key \in Ids
  BY DEF Session, Keyed
<1> HIDE DEF pc, key
<1> QED BY <1>1, <1>2 DEF Session, Keyed

LEMMA RefuseTyped ==
  ASSUME Typed, NEW c \in Clients, client[c].pc # "closed", Refuse(c)
  PROVE  \E q \in Session : Keyed(q) /\ client' = [client EXCEPT ![c] = q]
<1>1. client[c] \in Session /\ Keyed(client[c])
  BY DEF Typed, TypeOK, Sessions
<1>2. client' = [client EXCEPT ![c] = After(client[c], "error")]
  BY DEF Refuse
<1> QED BY <1>1, <1>2, AfterTyped

LEMMA SubmitsTyped ==
  ASSUME Typed, NEW c \in Clients, Submits(c)
  PROVE  /\ \E q \in Session : Keyed(q) /\ client' = [client EXCEPT ![c] = q]
         /\ late' \in [Clients -> [Ids -> Nat]] /\ copies' \in [Clients -> [1..Rcpts -> Nat]]
         /\ UNCHANGED resources
<1> USE DEF Is
<1>1. /\ client[c] \in Session /\ Keyed(client[c])
      /\ late \in [Clients -> [Ids -> Nat]] /\ copies \in [Clients -> [1..Rcpts -> Nat]]
  BY DEF Typed, TypeOK, Sessions
<1>2. 1 \in 1..Rcpts /\ Rcpts \in Nat /\ MaxData \in Nat
  BY Constants
<1>3. ASSUME Refuse(c), client[c].pc # "closed", UNCHANGED <<resources, copies, late>>
      PROVE  /\ \E q \in Session : Keyed(q) /\ client' = [client EXCEPT ![c] = q]
             /\ late' \in [Clients -> [Ids -> Nat]] /\ copies' \in [Clients -> [1..Rcpts -> Nat]]
             /\ UNCHANGED resources
  BY <1>1, <1>3, RefuseTyped
<1>4. ASSUME NEW pc \in {"quota", "insert", "enqueue"}, Go(c, pc),
             client[c].pc \in {"plan", "quota", "insert"}
      PROVE  \E q \in Session : Keyed(q) /\ client' = [client EXCEPT ![c] = q]
  <2> DEFINE q == [client[c] EXCEPT !.pc = pc]
  <2>1. q \in Session /\ Keyed(q)
    BY <1>1, <1>4 DEF Session, Keyed
  <2>2. client' = [client EXCEPT ![c] = q]
    BY <1>4 DEF Go
  <2> QED BY <2>1, <2>2
<1>5. ASSUME NEW via \in {"smtp", "http"}, NEW k \in Ids, Authenticate(c, via, k)
      PROVE  \E q \in Session : Keyed(q) /\ client' = [client EXCEPT ![c] = q]
  <2> DEFINE q == [client[c] EXCEPT !.pc = "ready", !.via = via, !.key = k]
  <2>1. q \in Session /\ Keyed(q)
    BY <1>1 DEF Session, Keyed
  <2>2. client' = [client EXCEPT ![c] = q]
    BY <1>5 DEF Authenticate
  <2> QED BY <2>1, <2>2
<1>6. CASE \E via \in {"smtp", "http"}, k \in Ids : Authenticate(c, via, k)
  BY <1>1, <1>5, <1>6 DEF Authenticate
<1>7. CASE Data(c)
  <2> DEFINE n == client[c].tries + 1
             q == [client[c] EXCEPT !.pc = "domain", !.rcpt = 1, !.tries = n, !.answer = "none"]
  <2>1. n \in 0..MaxData
    BY <1>1, <1>2, <1>7 DEF Data, Session
  <2>2. client' = [client EXCEPT ![c] = q] /\ client[c].pc = "ready"
        /\ UNCHANGED <<resources, copies, late>>
    BY <1>7 DEF Data
  <2> HIDE DEF n
  <2>3. q \in Session /\ Keyed(q)
    BY <1>1, <1>2, <2>1, <2>2 DEF Session, Keyed
  <2> QED BY <1>1, <2>2, <2>3
<1>8. ASSUME NEW name \in Names, SenderDomain(c, name)
      PROVE  \/ Refuse(c)
             \/ \E q \in Session : Keyed(q) /\ client' = [client EXCEPT ![c] = q]
  <2>1. CASE \E d \in Owned("domain") : client' = [client EXCEPT ![c].pc = "plan", ![c].domain = d]
    <3>1. PICK d \in Ids : client' = [client EXCEPT ![c].pc = "plan", ![c].domain = d]
      BY <2>1 DEF Owned
    <3> DEFINE q == [client[c] EXCEPT !.pc = "plan", !.domain = d]
    <3>2. q \in Session /\ Keyed(q)
      BY <1>1, <1>8 DEF Session, Keyed, SenderDomain
    <3> QED BY <3>1, <3>2
  <2> QED BY <1>8, <2>1 DEF SenderDomain
<1>9. CASE \E name \in Names : SenderDomain(c, name)
  BY <1>1, <1>3, <1>8, <1>9 DEF SenderDomain
<1>10. CASE EnsureDomainWithinPlanLimit(c)
  BY <1>1, <1>3, <1>4, <1>10 DEF EnsureDomainWithinPlanLimit
<1>11. CASE CheckQuota(c)
  BY <1>1, <1>3, <1>4, <1>11 DEF CheckQuota
<1>12. CASE CreateLog(c)
  BY <1>1, <1>3, <1>4, <1>12 DEF CreateLog
<1>13. CASE Enqueue(c)
  <2>1. client[c].pc = "enqueue" /\ copies' = [copies EXCEPT ![c][client[c].rcpt] = @ + 1]
        /\ UNCHANGED resources /\ client[c].rcpt \in 1..Rcpts /\ client[c].key \in Ids
    BY <1>1, <1>13 DEF Enqueue, Session, Keyed
  <2>2. copies' \in [Clients -> [1..Rcpts -> Nat]]
    <3>1. PICK i \in 1..Rcpts : client[c].rcpt = i
      BY <2>1
    <3> DEFINE Places == 1..Rcpts
               m == [copies[c] EXCEPT ![i] = copies[c][i] + 1]
    <3> HIDE DEF Places
    <3>2. copies[c] \in [Places -> Nat] /\ i \in Places
      BY <1>1 DEF Places
    <3>3. m \in [Places -> Nat]
      BY <3>2
    <3>4. copies' = [copies EXCEPT ![c] = m]
      BY <2>1, <3>1
    <3> HIDE DEF m
    <3> QED BY <1>1, <3>3, <3>4 DEF Places
  <2>5. late' \in [Clients -> [Ids -> Nat]]
    <3> DEFINE m == [late[c] EXCEPT ![client[c].key] = late[c][client[c].key] + 1]
    <3>1. m \in [Ids -> Nat]
      BY <1>1, <2>1
    <3>2. late' = late \/ late' = [late EXCEPT ![c] = m]
      BY <1>13 DEF Enqueue
    <3> HIDE DEF m
    <3> QED BY <1>1, <3>1, <3>2
  <2>6. CASE Refuse(c)
    BY <1>1, <2>1, <2>2, <2>5, <2>6, RefuseTyped
  <2>3. CASE Further(client[c]) /\ ~Refuse(c)
    <3> DEFINE n == client[c].rcpt + 1
               q == [client[c] EXCEPT !.rcpt = n, !.pc = "domain"]
    <3>1. n \in 1..Rcpts
      <4>1. client[c].rcpt < Rcpts /\ client[c].rcpt \in 1..Rcpts
        BY <2>1, <2>3 DEF Further, Last
      <4> QED BY <1>2, <4>1
    <3>2. client' = [client EXCEPT ![c] = q]
      BY <1>13, <2>3 DEF Enqueue, NextRcpt
    <3> HIDE DEF n
    <3>3. q \in Session /\ Keyed(q)
      BY <1>1, <2>1, <3>1 DEF Session, Keyed
    <3> QED BY <1>1, <2>1, <2>2, <2>5, <3>2, <3>3
  <2>4. CASE ~Further(client[c]) /\ ~Refuse(c)
    <3>1. client' = [client EXCEPT ![c] = After(client[c], "ok")]
      BY <1>13, <2>4 DEF Enqueue
    <3> QED BY <1>1, <2>1, <2>2, <2>5, <3>1, AfterTyped
  <2> QED BY <2>3, <2>4, <2>6
<1>14. CASE Errs(c)
  BY <1>1, <1>3, <1>14 DEF Errs
<1>15. CASE Breaks(c)
  <2> DEFINE q == [client[c] EXCEPT !.pc = "closed", !.key = None, !.domain = None]
  <2>1. q \in Session /\ Keyed(q)
    BY <1>1 DEF Session, Keyed
  <2>2. client' = [client EXCEPT ![c] = q] /\ UNCHANGED <<resources, copies, late>>
    BY <1>15 DEF Breaks
  <2> QED BY <1>1, <2>1, <2>2
<1> QED BY <1>6, <1>7, <1>9, <1>10, <1>11, <1>12, <1>13, <1>14, <1>15 DEF Submits

LEMMA TypeInit == Init => Typed
<1> SUFFICES ASSUME Init PROVE Typed
  OBVIOUS
<1>1. "domain" \in Kinds /\ "key" \in Kinds /\ "webhook" \in Kinds
  BY DEF Kinds
<1>2. /\ plan \in Plans /\ made \in [Kinds -> 0..MaxRows]
  <2>1. 0 \in 0..MaxRows /\ 1 \in 0..MaxRows
    BY Constants DEF Init, ResourcesInit
  <2> QED BY <2>1 DEF Init, ResourcesInit
<1>3. PICK name \in Names : row =
       [k \in Kinds |-> [i \in Ids |->
          CASE k = "domain" /\ i = 1 -> [name |-> name, status |-> "pending"]
            [] k = "key" /\ i = 1    -> [domain |-> None]
            [] OTHER                 -> None]]
  BY DEF Init, ResourcesInit
<1>4. [name |-> name, status |-> "pending"] \in Domain /\ [domain |-> None] \in Key
  BY DEF Domain, Key, Verdict
<1>5. Tables(row)
  <2>1. row = [k \in Kinds |-> row[k]]
    BY <1>3
  <2>2. row["domain"] = [i \in Ids |-> IF i = 1 THEN [name |-> name, status |-> "pending"] ELSE None]
    BY <1>1, <1>3
  <2>3. row["key"] = [i \in Ids |-> IF i = 1 THEN [domain |-> None] ELSE None]
    BY <1>1, <1>3
  <2>4. row["webhook"] = [i \in Ids |-> None]
    BY <1>1, <1>3
  <2>5. /\ row["domain"] \in [Ids -> Domain \cup {None}] /\ row["key"] \in [Ids -> Key \cup {None}]
        /\ row["webhook"] \in [Ids -> Hook \cup {None}]
    BY <1>4, <2>2, <2>3, <2>4
  <2> QED BY <2>1, <2>5 DEF Tables
<1>6. dns \in [Names -> Records] /\ found \subseteq Ids
  BY DEF Init, ResourcesInit, Records, NoRecords
<1>7. req \in [Requests -> Request] /\ \A r \in Requests : Shaped(req[r])
  <2>1. [Ended EXCEPT !.pc = "start"] \in Request
    BY EndedTyped DEF Request, Step
  <2>2. [Ended EXCEPT !.pc = "start"].op = "none"
    BY EndedTyped DEF Request
  <2>3. Shaped([Ended EXCEPT !.pc = "start"])
    BY <2>2 DEF Shaped
  <2> DEFINE s == [Ended EXCEPT !.pc = "start"]
  <2>4. req = [r \in Requests |-> s]
    BY DEF Init, ResourcesInit
  <2> HIDE DEF s
  <2>5. s \in Request /\ Shaped(s)
    BY <2>1, <2>3 DEF s
  <2> QED BY <2>4, <2>5
<1>8. 1 \in 1..Rcpts /\ 0 \in 0..MaxData
  BY Constants
<1>9. /\ client \in [Clients -> Session] /\ late \in [Clients -> [Ids -> Nat]]
      /\ copies \in [Clients -> [1..Rcpts -> Nat]]
  BY <1>8 DEF Init, Session
<1>10. Sessions
  BY DEF Init, Sessions, Keyed
<1> QED BY <1>2, <1>5, <1>6, <1>7, <1>9, <1>10 DEF Typed, TypeOK, ResourcesTypes, Tables

LEMMA TypeNext == Typed /\ [Next]_vars => Typed'
<1> SUFFICES ASSUME Typed, [Next]_vars PROVE Typed'
  OBVIOUS
<1>1. CASE ResourcesNext /\ UNCHANGED submission
  BY <1>1, TypeResources
<1>2. ASSUME NEW c \in Clients, Submits(c) PROVE Typed'
  <2>1. PICK q \in Session : Keyed(q) /\ client' = [client EXCEPT ![c] = q]
    BY <1>2, SubmitsTyped
  <2>2. /\ late' \in [Clients -> [Ids -> Nat]] /\ copies' \in [Clients -> [1..Rcpts -> Nat]]
        /\ UNCHANGED resources
    BY <1>2, SubmitsTyped
  <2>3. client' \in [Clients -> Session] /\ Sessions'
    BY <2>1 DEF Typed, TypeOK, Sessions, Keyed
  <2>4. ResourcesTypes' /\ Tables(row)' /\ \A r \in Requests : Shaped(req[r])'
    BY <2>2 DEF resources, Typed, TypeOK, ResourcesTypes, Tables, Shaped
  <2> QED BY <2>2, <2>3, <2>4 DEF Typed, TypeOK
<1>3. CASE UNCHANGED vars
  BY <1>3 DEF vars, resources, submission, Typed, TypeOK, ResourcesTypes, Tables, Shaped,
       Sessions, Keyed
<1> QED BY <1>1, <1>2, <1>3 DEF Next

LEMMA TypedHolds == Spec => []Typed
BY TypeInit, TypeNext, PTL DEF Spec

\* Every variable of Resources and Submission keeps its type.
THEOREM SubmissionTypes == Spec => []TypeOK
<1>1. Typed => TypeOK
  BY DEF Typed
<1> QED BY <1>1, TypedHolds, PTL

----------------------------------------------------------------------------
(* A revoked key.                                                          *)

\* Keys are numbered as they are made.
Issued == \A k \in Owned("key") : k <= made["key"]

\* An e-mail enqueued under a revoked key is the only one, and no other is
\* logged.
Silenced(c) ==
  /\ client[c].key \in Ids => client[c].key <= made["key"]
  /\ \A k \in Ids : late[c][k] > 0 =>
       /\ late[c][k] = 1
       /\ k <= made["key"] /\ k \notin Owned("key")
       /\ Is(c, "enqueue") => client[c].key # k

\* The customer's requests revoke keys and make new ones, never one that was
\* there before.
KeysAge ==
  /\ made["key"] <= made'["key"]
  /\ \A k \in Ids : row'["key"][k] # None =>
       k \in Owned("key") \/ (made["key"] < k /\ k <= made'["key"])

LEMMA NumberAges ==
  ASSUME Typed, NEW k \in Kinds, Number(k)
  PROVE  /\ made'["key"] = IF k = "key" THEN made["key"] + 1 ELSE made["key"]
         /\ made["key"] \in Nat
BY DEF Number, Typed, TypeOK, ResourcesTypes, Kinds

LEMMA CreatesAge ==
  ASSUME Typed, NEW r \in Requests, Creates(r)
  PROVE  KeysAge
<1>1. made["key"] \in Nat /\ "key" \in Kinds /\ "domain" \in Kinds /\ "webhook" \in Kinds
  BY DEF Typed, TypeOK, ResourcesTypes, Kinds
<1>2. CASE UNCHANGED <<made, row>>
  BY <1>1, <1>2 DEF KeysAge, Owned
<1>3. CASE CheckName(r)
  BY <1>1, <1>2, <1>3, NumberAges DEF CheckName, KeysAge, Owned
<1>4. CASE InsertDomain(r)
  <2>1. ASSUME NEW value, Insert("domain", req[r].id, value) PROVE row'["key"] = row["key"]
    BY <1>1, <2>1 DEF Insert
  <2> QED BY <1>1, <1>2, <1>4, <2>1 DEF InsertDomain, KeysAge, Owned
<1>5. CASE InsertKey(r) /\ ~UNCHANGED <<made, row>>
  <2> DEFINE n == NewId("key")
  <2>1. Number("key") /\ Insert("key", n, [domain |-> req[r].arg])
    BY <1>5 DEF InsertKey
  <2>2. made'["key"] = made["key"] + 1 /\ n = made["key"] + 1
    BY <1>1, <2>1, NumberAges DEF NewId
  <2>3. \A k \in Ids : k # n => row'["key"][k] = row["key"][k]
    BY <1>1, <2>1 DEF Insert, Typed, Tables
  <2> QED BY <1>1, <2>2, <2>3 DEF KeysAge, Owned
<1>6. CASE InsertWebhook(r)
  <2>1. row'["key"] = row["key"]
    BY <1>1, <1>6 DEF InsertWebhook, Insert
  <2> QED BY <1>1, <1>6, <2>1, NumberAges DEF InsertWebhook, KeysAge, Owned
<1> QED
  BY <1>2, <1>3, <1>4, <1>5, <1>6 DEF Creates, ReadLimit, Count, CheckBinding

LEMMA ResourcesAge ==
  ASSUME Typed, ResourcesNext
  PROVE  KeysAge
<1>1. made["key"] \in Nat /\ "key" \in Kinds /\ "domain" \in Kinds
  BY DEF Typed, TypeOK, ResourcesTypes, Kinds
<1>2. CASE UNCHANGED <<made, row>>
  BY <1>1, <1>2 DEF KeysAge, Owned
<1>3. ASSUME NEW r \in Requests, UpdateVerificationStatus(r) PROVE KeysAge
  <2>1. row'["key"] = row["key"] /\ UNCHANGED made
    BY <1>1, <1>3 DEF UpdateVerificationStatus, Typed, Tables
  <2> QED BY <1>1, <2>1 DEF KeysAge, Owned
<1>4. ASSUME NEW r \in Requests, DeleteRow(r) PROVE KeysAge
  <2>1. \A k \in Ids : row'["key"][k] # None => row["key"][k] # None
    BY <1>1, <1>4, DeleteTyped
  <2>2. UNCHANGED made
    BY <1>4 DEF DeleteRow
  <2> QED BY <1>1, <2>1, <2>2 DEF KeysAge, Owned
<1> QED
  BY <1>2, <1>3, <1>4, CreatesAge DEF ResourcesNext, Verifies, FindDomain, VerifyDNS, Verified,
     Deletes, FindRow, Fails, Publish, ChangePlan

\* A step of a client leaves the keys, and what another client has sent.
LEMMA OthersSilenced ==
  ASSUME Typed, NEW c \in Clients, NEW d \in Clients, d # c, Submits(d), Silenced(c)
  PROVE  Silenced(c)'
<1>1. client'[c] = client[c] /\ UNCHANGED <<made, row>>
  BY SubmitsTyped DEF Typed, TypeOK, resources
<1>2. late'[c] = late[c]
  BY DEF Submits, Authenticate, Data, SenderDomain, EnsureDomainWithinPlanLimit, CheckQuota,
     CreateLog, Enqueue, Errs, Breaks, Typed, TypeOK
<1> QED BY <1>1, <1>2 DEF Silenced, Owned, Is

\* A step that enqueues nothing: the session has the key it had, one that is
\* still there, or none.
LEMMA StaysSilenced ==
  ASSUME Typed, Issued, NEW c \in Clients, Silenced(c), UNCHANGED <<late, made, row>>,
         \/ client'[c].key \in {client[c].key, None}
         \/ client'[c].key \in Owned("key"),
         Is(c, "enqueue")' => client'[c].key \in Owned("key")
  PROVE  Silenced(c)'
BY Constants DEF Silenced, Issued, Owned, Is

LEMMA EnqueueSilences ==
  ASSUME Typed, Issued, NEW c \in Clients, Silenced(c), Enqueue(c)
  PROVE  Silenced(c)'
<1> DEFINE k == client[c].key
<1>1. /\ client[c] \in Session /\ k \in Ids /\ late[c] \in [Ids -> Nat]
      /\ client[c].pc = "enqueue" /\ k <= made["key"]
  BY DEF Typed, TypeOK, Sessions, Keyed, Silenced, Enqueue, Is
<1>2. client'[c].pc # "enqueue" /\ client'[c].key \in {k, None}
  <2>1. ASSUME NEW answer PROVE After(client[c], answer).pc # "enqueue"
                             /\ After(client[c], answer).key \in {k, None}
    BY <1>1 DEF After, Session
  <2>2. NextRcpt(client[c]).pc = "domain" /\ NextRcpt(client[c]).key = k
    BY <1>1 DEF NextRcpt, Session
  <2>3. \/ client'[c] = NextRcpt(client[c])
        \/ \E answer \in {"ok", "error"} : client'[c] = After(client[c], answer)
    BY DEF Enqueue, Refuse, Typed, TypeOK
  <2> QED BY <2>1, <2>2, <2>3
<1>3. UNCHANGED <<made, row>>
  BY DEF Enqueue, resources
<1>4. ~(late[c][k] > 0)
  BY <1>1 DEF Silenced, Is
<1>5. late'[c] = late[c] \/ (k \notin Owned("key") /\ late'[c] = [late[c] EXCEPT ![k] = @ + 1])
  BY DEF Enqueue, Typed, TypeOK
<1>6. \A i \in Ids : late'[c][i] > 0 =>
        \/ late[c][i] > 0 /\ late'[c][i] = late[c][i]
        \/ i = k /\ late'[c][i] = 1 /\ k \notin Owned("key")
  BY <1>1, <1>4, <1>5
<1> QED BY <1>1, <1>2, <1>3, <1>6, Constants DEF Silenced, Owned, Is

LEMMA SubmitsSilenced ==
  ASSUME Typed, Issued, NEW c \in Clients, Silenced(c), Submits(c)
  PROVE  Silenced(c)'
<1> USE DEF Is
<1>1. client[c] \in Session /\ client \in [Clients -> Session]
  BY DEF Typed, TypeOK
<1>2. UNCHANGED <<made, row>>
  BY SubmitsTyped DEF resources
<1>3. ASSUME Refuse(c), UNCHANGED late PROVE Silenced(c)'
  <2>1. client'[c].pc # "enqueue" /\ client'[c].key \in {client[c].key, None}
    BY <1>1, <1>3 DEF Refuse, After, Session
  <2> QED BY <1>2, <1>3, <2>1, StaysSilenced
<1>4. CASE \E via \in {"smtp", "http"}, k \in Ids : Authenticate(c, via, k)
  <2>1. PICK via \in {"smtp", "http"}, k \in Ids : Authenticate(c, via, k)
    BY <1>4
  <2>2. client'[c].pc = "ready" /\ client'[c].key \in Owned("key") /\ UNCHANGED late
    BY <1>1, <2>1 DEF Authenticate, Session
  <2> QED BY <1>2, <2>2, StaysSilenced
<1>5. CASE Data(c)
  <2>1. client'[c].pc = "domain" /\ client'[c].key = client[c].key /\ UNCHANGED late
    BY <1>1, <1>5 DEF Data, Session
  <2> QED BY <1>2, <2>1, StaysSilenced
<1>6. ASSUME NEW name \in Names, SenderDomain(c, name) PROVE Silenced(c)'
  <2>1. ASSUME NEW d, client' = [client EXCEPT ![c].pc = "plan", ![c].domain = d]
        PROVE  client'[c].pc = "plan" /\ client'[c].key = client[c].key
    BY <1>1, <2>1 DEF Session
  <2>2. Refuse(c) \/ (client'[c].pc = "plan" /\ client'[c].key = client[c].key)
    BY <1>6, <2>1 DEF SenderDomain
  <2>3. UNCHANGED late
    BY <1>6 DEF SenderDomain
  <2> QED BY <1>2, <1>3, <2>2, <2>3, StaysSilenced
<1>7. ASSUME NEW pc \in {"quota", "insert", "enqueue"}, Go(c, pc), UNCHANGED late,
             pc = "enqueue" => client[c].key \in Owned("key")
      PROVE  Silenced(c)'
  <2>1. client'[c].pc = pc /\ client'[c].key = client[c].key
    BY <1>1, <1>7 DEF Go, Session
  <2> QED BY <1>2, <1>7, <2>1, StaysSilenced
<1>8. CASE EnsureDomainWithinPlanLimit(c)
  BY <1>3, <1>7, <1>8 DEF EnsureDomainWithinPlanLimit
<1>9. CASE CheckQuota(c)
  BY <1>3, <1>7, <1>9 DEF CheckQuota
<1>10. CASE CreateLog(c)
  BY <1>3, <1>7, <1>10 DEF CreateLog, MayRefer
<1>11. CASE Enqueue(c)
  BY <1>11, EnqueueSilences
<1>12. CASE Errs(c)
  BY <1>3, <1>12 DEF Errs
<1>13. CASE Breaks(c)
  <2>1. client'[c].pc = "closed" /\ client'[c].key = None /\ UNCHANGED late
    BY <1>1, <1>13 DEF Breaks, Session
  <2> QED BY <1>2, <2>1, StaysSilenced
<1> QED BY <1>4, <1>5, <1>6, <1>8, <1>9, <1>10, <1>11, <1>12, <1>13 DEF Submits

LEMMA SilencedNext ==
  Typed /\ Issued /\ (\A c \in Clients : Silenced(c)) /\ [Next]_vars
    => Issued' /\ \A c \in Clients : Silenced(c)'
<1> SUFFICES ASSUME Typed, Issued, \A c \in Clients : Silenced(c), [Next]_vars
             PROVE  Issued' /\ \A c \in Clients : Silenced(c)'
  OBVIOUS
<1>1. CASE ResourcesNext /\ UNCHANGED submission
  <2>1. KeysAge
    BY <1>1, ResourcesAge
  <2>2. made["key"] \in Nat /\ made'["key"] \in Nat
    BY TypeNext DEF Typed, TypeOK, ResourcesTypes, Kinds
  <2>3. Issued'
    BY <2>1, <2>2 DEF Issued, Owned, KeysAge, Ids
  <2>4. ASSUME NEW c \in Clients PROVE Silenced(c)'
    <3>1. Silenced(c) /\ client'[c] = client[c] /\ late'[c] = late[c]
      BY <1>1 DEF submission
    <3> QED BY <2>1, <2>2, <3>1 DEF Silenced, KeysAge, Owned, Ids, Is
  <2> QED BY <2>3, <2>4
<1>2. ASSUME NEW d \in Clients, Submits(d) PROVE Issued' /\ \A c \in Clients : Silenced(c)'
  <2>1. UNCHANGED <<made, row>>
    BY <1>2, SubmitsTyped DEF resources
  <2>2. Issued'
    BY <2>1 DEF Issued, Owned
  <2> QED BY <1>2, <2>2, OthersSilenced, SubmitsSilenced
<1>3. CASE UNCHANGED vars
  BY <1>3 DEF vars, resources, submission, Issued, Silenced, Owned, Is
<1> QED BY <1>1, <1>2, <1>3 DEF Next

\* A session goes on with the key it was authenticated with, yet once the key
\* is revoked it sends one e-mail at most, that which was logged before: none
\* can be logged for a key that is gone, and no key comes back.
THEOREM RevokedSendsOnce == Spec => []RevokedKeySendsOnce
<1> DEFINE All == Issued /\ \A c \in Clients : Silenced(c)
<1>1. Init => All
  <2> SUFFICES ASSUME Init PROVE All
    OBVIOUS
  <2>1. "key" \in Kinds /\ "key" # "webhook" /\ "key" # "domain"
    BY DEF Kinds
  <2>2. made["key"] = 1
    BY <2>1 DEF Init, ResourcesInit
  <2>3. \A k \in Ids : row["key"][k] # None => k = 1
    BY <2>1 DEF Init, ResourcesInit
  <2>4. Issued
    BY <2>2, <2>3 DEF Issued, Owned
  <2>5. \A c \in Clients : Silenced(c)
    BY Constants DEF Init, Silenced
  <2> QED BY <2>4, <2>5
<1>2. Typed /\ All /\ [Next]_vars => All'
  BY SilencedNext
<1>3. Typed /\ All => RevokedKeySendsOnce
  <2> SUFFICES ASSUME Typed, All, NEW c \in Clients, NEW k \in Ids PROVE late[c][k] <= 1
    BY DEF RevokedKeySendsOnce
  <2>1. late[c][k] \in Nat
    BY DEF Typed, TypeOK
  <2>2. late[c][k] > 0 => late[c][k] = 1
    BY DEF Silenced
  <2> QED BY <2>1, <2>2
<1> QED BY <1>1, <1>2, <1>3, TypedHolds, PTL DEF Spec

----------------------------------------------------------------------------
(* Who has been served.                                                    *)

\* While a recipient is served, those before it are a copy ahead.
Served(c) == LET s == client[c]  n == copies[c] IN
  /\ \A i, j \in 1..Rcpts : i < j => n[i] >= n[j]
  /\ Serving(c) => \A i, j \in 1..Rcpts : i < s.rcpt /\ s.rcpt <= j => n[i] > n[j]
  /\ n[1] <= s.tries
  /\ Serving(c) /\ s.rcpt = 1 => n[1] < s.tries
  /\ s.answer = "ok" => n[Last(s)] > 0

\* What an answer leaves of a session.
LEMMA AfterKeeps ==
  ASSUME NEW s \in Session, NEW answer \in {"ok", "error"}
  PROVE  /\ After(s, answer).pc \in {"ready", "closed"} /\ After(s, answer).answer = answer
         /\ After(s, answer).tries = s.tries /\ After(s, answer).rcpt = s.rcpt
         /\ After(s, answer).via = s.via
<1> DEFINE pc == IF s.via = "smtp" THEN "ready" ELSE "closed"
           key == IF s.via = "smtp" THEN s.key ELSE None
<1>1. After(s, answer) = [s EXCEPT !.answer = answer, !.domain = None, !.pc = pc, !.key = key]
  BY DEF After
<1>2. pc \in {"ready", "closed"}
  OBVIOUS
<1> HIDE DEF pc, key
<1> QED BY <1>1, <1>2 DEF Session

\* A step that counts no copy and begins no try.
LEMMA ServedStays ==
  ASSUME Typed, NEW c \in Clients, Served(c), UNCHANGED <<copies[c]>>,
         client'[c].tries = client[c].tries, client'[c].rcpt = client[c].rcpt,
         Serving(c)' => Serving(c),
         client'[c].answer = "ok" => client[c].answer = "ok" /\ client'[c].via = client[c].via
  PROVE  Served(c)'
BY DEF Served, Serving, Last

LEMMA RefuseServes ==
  ASSUME Typed, NEW c \in Clients, Served(c), Refuse(c), UNCHANGED copies
  PROVE  Served(c)'
<1>1. client[c] \in Session /\ client'[c] = After(client[c], "error")
  BY DEF Refuse, Typed, TypeOK
<1>2. /\ client'[c].pc \in {"ready", "closed"} /\ client'[c].answer = "error"
      /\ client'[c].tries = client[c].tries /\ client'[c].rcpt = client[c].rcpt
  BY <1>1, AfterKeeps
<1> QED BY <1>2, ServedStays DEF Serving

LEMMA DataServes ==
  ASSUME Typed, NEW c \in Clients, Served(c), Data(c)
  PROVE  Served(c)'
<1>1. /\ client[c] \in Session /\ copies[c] \in [1..Rcpts -> Nat] /\ client[c].tries \in Nat
      /\ 1 \in 1..Rcpts
  BY Constants DEF Typed, TypeOK, Session
<1>2. UNCHANGED copies
  BY DEF Data
<1>3. /\ client'[c].tries = client[c].tries + 1 /\ client'[c].rcpt = 1
      /\ client'[c].answer = "none"
  BY <1>1 DEF Data, Session, Typed, TypeOK
<1>4. copies[c][1] <= client[c].tries /\ copies[c][1] \in Nat
  BY <1>1 DEF Served
<1>5. \A i, j \in 1..Rcpts : i < j => copies[c][i] >= copies[c][j]
  BY DEF Served
<1>6. \A i \in 1..Rcpts : ~(i < 1)
  BY Constants
<1>7. copies'[c][1] < client'[c].tries /\ copies'[c][1] <= client'[c].tries
  BY <1>1, <1>2, <1>3, <1>4
<1> QED BY <1>2, <1>3, <1>5, <1>6, <1>7 DEF Served

LEMMA EnqueueServes ==
  ASSUME Typed, NEW c \in Clients, Served(c), Enqueue(c)
  PROVE  Served(c)'
<1> DEFINE n == copies[c]  m == copies'[c]
<1>1. /\ client[c] \in Session /\ n \in [1..Rcpts -> Nat] /\ client[c].tries \in Nat
      /\ 1 \in 1..Rcpts /\ Rcpts \in 1..Rcpts /\ Rcpts \in Nat
  BY Constants DEF Typed, TypeOK, Session
<1>2. PICK k \in 1..Rcpts : client[c].rcpt = k
  BY <1>1 DEF Session
<1>3. Serving(c)
  BY DEF Enqueue, Is, Serving
<1>4. m = [n EXCEPT ![k] = @ + 1]
  BY <1>2 DEF Enqueue, Typed, TypeOK
<1>5. m[k] = n[k] + 1 /\ \A i \in 1..Rcpts : i # k => m[i] = n[i]
  BY <1>1, <1>4
<1>6. /\ \A i, j \in 1..Rcpts : i < j => n[i] >= n[j]
      /\ \A i, j \in 1..Rcpts : i < k /\ k <= j => n[i] > n[j]
      /\ n[1] <= client[c].tries /\ (k = 1 => n[1] < client[c].tries)
  BY <1>2, <1>3 DEF Served
<1>7. \A i \in 1..Rcpts : n[i] \in Nat /\ i \in Int
  BY <1>1
<1> HIDE DEF n, m
<1>8. \A i, j \in 1..Rcpts : i < j => m[i] >= m[j]
  BY <1>2, <1>5, <1>6, <1>7
<1>9. m[1] <= client[c].tries
  BY <1>1, <1>2, <1>5, <1>6, <1>7
<1>12. CASE Refuse(c)
  <2>1. client'[c] = After(client[c], "error")
    BY <1>12 DEF Refuse, Typed, TypeOK
  <2>2. /\ client'[c].pc \in {"ready", "closed"} /\ client'[c].answer = "error"
        /\ client'[c].tries = client[c].tries
    BY <1>1, <2>1, AfterKeeps
  <2> QED BY <1>8, <1>9, <2>2 DEF Served, Serving, m
<1>10. CASE Further(client[c]) /\ ~Refuse(c)
  <2>1. client' = [client EXCEPT ![c] = NextRcpt(client[c])]
    BY <1>10 DEF Enqueue
  <2>2. /\ client'[c].rcpt = k + 1 /\ client'[c].tries = client[c].tries
        /\ client'[c].answer = client[c].answer
    BY <1>1, <1>2, <2>1 DEF NextRcpt, Session, Typed, TypeOK
  <2> DEFINE l == Last(client[c])
  <2>6. l \in 1..Rcpts /\ Last(client'[c]) = l
    <3>1. client'[c].via = client[c].via
      BY <1>1, <2>1 DEF NextRcpt, Session, Typed, TypeOK
    <3> QED BY <1>1, <3>1 DEF Last
  <2> HIDE DEF l
  <2>3. \A i, j \in 1..Rcpts : i < k + 1 /\ k + 1 <= j => m[i] > m[j]
    BY <1>2, <1>5, <1>6, <1>7
  <2>4. client[c].answer = "ok" => m[l] > 0
    <3>1. client[c].answer = "ok" => n[l] > 0
      BY DEF Served, n, l
    <3>2. m[l] >= n[l] /\ n[l] \in Nat /\ m[l] \in Nat
      BY <1>5, <1>7, <2>6
    <3> QED BY <3>1, <3>2
  <2>5. ~(k + 1 = 1)
    BY <1>2, <1>7
  <2> QED BY <1>8, <1>9, <2>2, <2>3, <2>4, <2>5, <2>6 DEF Served, m
<1>11. CASE ~Further(client[c]) /\ ~Refuse(c)
  <2>1. client'[c] = After(client[c], "ok")
    BY <1>11 DEF Enqueue, Typed, TypeOK
  <2>2. client'[c].pc \in {"ready", "closed"} /\ client'[c].tries = client[c].tries
    BY <1>1, <2>1, AfterKeeps
  <2>5. client'[c].via = client[c].via
    BY <1>1, <2>1, AfterKeeps
  <2> DEFINE l == Last(client[c])
  <2>6. l \in 1..Rcpts /\ Last(client'[c]) = l
    BY <1>1, <2>5 DEF Last
  <2>3. k >= l
    BY <1>1, <1>2, <1>7, <1>11, <2>6 DEF Further
  <2> HIDE DEF l
  <2>4. m[l] > 0
    <3>1. m[l] >= m[k]
      BY <1>2, <1>5, <1>7, <1>8, <2>3, <2>6
    <3> QED BY <1>2, <1>5, <1>7, <2>6, <3>1
  <2> QED BY <1>8, <1>9, <2>2, <2>4, <2>6 DEF Served, Serving, m
<1> QED BY <1>10, <1>11, <1>12

LEMMA ServedNext == Typed /\ (\A c \in Clients : Served(c)) /\ [Next]_vars => \A c \in Clients : Served(c)'
<1> SUFFICES ASSUME Typed, \A d \in Clients : Served(d), [Next]_vars, NEW c \in Clients
             PROVE  Served(c)'
  OBVIOUS
<1>1. CASE UNCHANGED <<client[c], copies[c]>>
  BY <1>1 DEF Served, Serving
<1>2. CASE ResourcesNext /\ UNCHANGED submission
  BY <1>1, <1>2 DEF submission
<1>3. ASSUME NEW d \in Clients, d # c, Submits(d) PROVE Served(c)'
  <2>1. client'[c] = client[c]
    BY <1>3, SubmitsTyped DEF Typed, TypeOK
  <2>2. CASE Enqueue(d)
    <3>1. copies'[c] = copies[c]
      BY <1>3, <2>2 DEF Enqueue, Typed, TypeOK
    <3> QED BY <1>1, <2>1, <3>1
  <2>3. CASE ~Enqueue(d)
    <3>1. UNCHANGED copies
      BY <1>3, <2>3 DEF Submits, Authenticate, Data, SenderDomain, EnsureDomainWithinPlanLimit,
           CheckQuota, CreateLog, Errs, Breaks
    <3> QED BY <1>1, <2>1, <3>1
  <2> QED BY <2>2, <2>3
<1>4. CASE Submits(c)
  <2> USE DEF Is
  <2>1. client[c] \in Session /\ client \in [Clients -> Session] /\ Served(c)
    BY DEF Typed, TypeOK
  <2>2. CASE Refuse(c) /\ UNCHANGED copies
    BY <2>1, <2>2, RefuseServes
  <2>3. ASSUME NEW pc, Go(c, pc), Serving(c), UNCHANGED copies PROVE Served(c)'
    <3>1. /\ client'[c].tries = client[c].tries /\ client'[c].rcpt = client[c].rcpt
          /\ client'[c].answer = client[c].answer /\ client'[c].via = client[c].via
      BY <2>1, <2>3 DEF Go, Session
    <3> QED BY <2>1, <2>3, <3>1, ServedStays
  <2>4. CASE \E via \in {"smtp", "http"}, k \in Ids : Authenticate(c, via, k)
    <3>1. PICK via \in {"smtp", "http"}, k \in Ids : Authenticate(c, via, k)
      BY <2>4
    <3>2. /\ client'[c].tries = client[c].tries /\ client'[c].rcpt = client[c].rcpt
          /\ client'[c].answer = client[c].answer /\ client'[c].pc = "ready" /\ UNCHANGED copies
          /\ client[c].answer # "ok"
      BY <2>1, <3>1 DEF Authenticate, Session
    <3> QED BY <2>1, <3>2, ServedStays DEF Serving
  <2>5. CASE Data(c)
    BY <2>1, <2>5, DataServes
  <2>6. ASSUME NEW name \in Names, SenderDomain(c, name) PROVE Served(c)'
    <3>1. CASE Refuse(c)
      BY <2>2, <2>6, <3>1 DEF SenderDomain
    <3>2. ASSUME NEW d, client' = [client EXCEPT ![c].pc = "plan", ![c].domain = d] PROVE Served(c)'
      <4>1. /\ client'[c].tries = client[c].tries /\ client'[c].rcpt = client[c].rcpt
            /\ client'[c].answer = client[c].answer /\ client'[c].via = client[c].via
        BY <2>1, <3>2 DEF Session
      <4>2. Serving(c) /\ UNCHANGED copies
        BY <2>6 DEF SenderDomain, Serving
      <4> QED BY <2>1, <4>1, <4>2, ServedStays
    <3> QED BY <2>6, <3>1, <3>2 DEF SenderDomain
  <2>7. CASE EnsureDomainWithinPlanLimit(c) \/ CheckQuota(c) \/ CreateLog(c)
    BY <2>2, <2>3, <2>7 DEF EnsureDomainWithinPlanLimit, CheckQuota, CreateLog, Serving
  <2>8. CASE Enqueue(c)
    BY <2>1, <2>8, EnqueueServes
  <2>9. CASE Errs(c)
    BY <2>2, <2>9 DEF Errs
  <2>10. CASE Breaks(c)
    <3>1. /\ client'[c].tries = client[c].tries /\ client'[c].rcpt = client[c].rcpt
          /\ client'[c].answer = client[c].answer /\ client'[c].pc = "closed" /\ UNCHANGED copies
          /\ client'[c].via = client[c].via
      BY <2>1, <2>10 DEF Breaks, Session
    <3> QED BY <2>1, <3>1, ServedStays DEF Serving
  <2> QED BY <1>4, <2>4, <2>5, <2>6, <2>7, <2>8, <2>9, <2>10 DEF Submits
<1>5. CASE UNCHANGED vars
  BY <1>1, <1>5 DEF vars, submission
<1> QED BY <1>2, <1>3, <1>4, <1>5 DEF Next

\* Whatever fails in the middle of a message, its recipients are served in
\* order, at most once a try, and all of them before it is taken.
THEOREM InOrder == Spec => []ServedInOrder
<1> DEFINE All == \A c \in Clients : Served(c)
<1>1. Init => All
  <2>1. 1 \in 1..Rcpts /\ Rcpts \in 1..Rcpts
    BY Constants
  <2> QED BY <2>1 DEF Init, Served, Serving
<1>2. Typed /\ All /\ [Next]_vars => All'
  BY ServedNext
<1>3. All => ServedInOrder
  BY DEF Served, ServedInOrder
<1> QED BY <1>1, <1>2, <1>3, TypedHolds, PTL DEF Spec

----------------------------------------------------------------------------
(* What verifies a domain.                                                 *)

Inserting(q) == q.op = "domain" /\ q.pc = "insert"
Idle(q)      == ~Inserting(q) /\ q.op # "verify"
Dom(d)       == row["domain"][d]

\* The number of a new domain belongs to nobody else; it is not the one that
\* a slow verification is about.
Numbered ==
  /\ \A d \in Ids : Dom(d) # None => d <= made["domain"]
  /\ \A r \in Requests : Inserting(req[r]) =>
       /\ req[r].id <= made["domain"] /\ Dom(req[r].id) = None
       /\ \A s \in Requests : Inserting(req[s]) /\ req[s].id = req[r].id => s = r
  /\ \A r \in Requests : req[r].op = "verify" =>
       /\ req[r].arg <= made["domain"]
       /\ \A s \in Requests : Inserting(req[s]) => req[s].id # req[r].arg

Earned(d) == d \in found \/ (Dom(d) # None => Dom(d).name \in TestNames)

\* A verdict of "verified" is earned, written or about to be.
Proven ==
  /\ \A d \in Ids : Dom(d) # None /\ Dom(d).status = "verified" => Earned(d)
  /\ \A r \in Requests : At(r, "verify", "write") /\ req[r].status = "verified" => Earned(req[r].arg)

Verdicts == Numbered /\ Proven

\* Where domains are at most deleted, and requests at most end.
LEMMA VerdictsStay ==
  ASSUME Typed, Typed', Verdicts, made'["domain"] = made["domain"], found' = found,
         \A d \in Ids : row'["domain"][d] = row["domain"][d] \/ row'["domain"][d] = None,
         \A s \in Requests : req'[s] = req[s] \/ Idle(req'[s])
  PROVE  Verdicts'
<1>1. \A r \in Requests : Inserting(req[r]) => req[r].id \in Ids
  BY DEF Typed, Shaped, Inserting
<1>2. \A r \in Requests : req[r].op = "verify" => req[r].arg \in Ids
  BY DEF Typed, Shaped
<1>3. Numbered'
  BY <1>1, <1>2 DEF Verdicts, Numbered, Dom, Idle, Inserting
<1>4. \A d \in Ids : Earned(d) => Earned(d)'
  BY DEF Earned, Dom
<1>5. \A d \in Ids : Dom(d)' # None /\ Dom(d)'.status = "verified" => Earned(d)'
  BY <1>4 DEF Verdicts, Proven, Dom
<1>6. ASSUME NEW r \in Requests, At(r, "verify", "write")', req'[r].status = "verified"
      PROVE  Earned(req[r].arg)'
  <2>1. req'[r] = req[r] /\ At(r, "verify", "write")
    BY <1>6 DEF At, Idle
  <2>2. Earned(req[r].arg) /\ req[r].arg \in Ids
    BY <1>2, <1>6, <2>1 DEF Verdicts, Proven, At
  <2> QED BY <1>4, <2>1, <2>2 DEF Earned, Dom
<1> QED BY <1>3, <1>5, <1>6 DEF Verdicts, Proven, Dom, Earned, At

LEMMA CheckNameVerdicts ==
  ASSUME Typed, Typed', Verdicts, NEW r \in Requests, CheckName(r), ~HasName(req[r].arg)
  PROVE  Verdicts'
<1>1. made["domain"] \in Nat /\ "domain" \in Kinds
  BY Constants DEF Typed, TypeOK, ResourcesTypes, Kinds
<1>2. PICK n \in Nat : n = made["domain"]
  BY <1>1
<1>3. made'["domain"] = n + 1
  BY <1>1, <1>2 DEF CheckName, Number, Typed, TypeOK, ResourcesTypes
<1>4. /\ req' = [req EXCEPT ![r].pc = "insert", ![r].id = n + 1]
      /\ UNCHANGED <<row, found>> /\ req[r].op = "domain"
  BY <1>2 DEF CheckName, NewId, At
<1>5. req \in [Requests -> Request]
  BY DEF Typed, TypeOK, ResourcesTypes
<1>6. /\ req'[r].op = "domain" /\ req'[r].pc = "insert" /\ req'[r].id = n + 1
      /\ \A s \in Requests : s # r => req'[s] = req[s]
  BY <1>4, <1>5 DEF Request
<1>7. /\ \A s \in Requests : Inserting(req[s]) => req[s].id \in Ids
      /\ \A s \in Requests : req[s].op = "verify" => req[s].arg \in Ids
      /\ n + 1 \in Ids
  BY <1>6 DEF Typed, Shaped, Inserting
<1>8. \A d \in Ids : d \in Nat
  BY DEF Ids
<1>9. /\ \A d \in Ids : row["domain"][d] # None => d <= n
      /\ \A s \in Requests : Inserting(req[s]) =>
           /\ req[s].id <= n /\ row["domain"][req[s].id] = None
           /\ \A t \in Requests : Inserting(req[t]) /\ req[t].id = req[s].id => t = s
      /\ \A s \in Requests : req[s].op = "verify" =>
           /\ req[s].arg <= n
           /\ \A t \in Requests : Inserting(req[t]) => req[t].id # req[s].arg
  BY <1>2 DEF Verdicts, Numbered, Dom
<1>10. row["domain"][n + 1] = None
  BY <1>7, <1>8, <1>9
<1>11. /\ \A s \in Requests : Inserting(req[s]) => req[s].id # n + 1 /\ req[s].id <= n + 1
       /\ \A s \in Requests : req[s].op = "verify" => req[s].arg # n + 1 /\ req[s].arg <= n + 1
  BY <1>7, <1>8, <1>9
<1>12. \A s \in Requests : Inserting(req'[s]) =>
         \/ s = r /\ req'[s].id = n + 1
         \/ s # r /\ req'[s] = req[s] /\ Inserting(req[s])
  BY <1>6 DEF Inserting
<1>13. \A s \in Requests : req'[s].op = "verify" => req'[s] = req[s]
  BY <1>6
<1>14. Numbered'
  <2>1. \A d \in Ids : row'["domain"][d] # None => d <= made'["domain"]
    BY <1>3, <1>4, <1>8, <1>9
  <2>2. ASSUME NEW s \in Requests, Inserting(req'[s])
        PROVE  /\ req'[s].id <= made'["domain"] /\ row'["domain"][req'[s].id] = None
               /\ \A t \in Requests : Inserting(req'[t]) /\ req'[t].id = req'[s].id => t = s
    <3>1. CASE s = r
      <4>1. req'[s].id = n + 1 /\ n + 1 <= made'["domain"] /\ row'["domain"][n + 1] = None
        BY <1>2, <1>3, <1>4, <1>6, <1>10, <3>1
      <4>2. \A t \in Requests : Inserting(req'[t]) /\ req'[t].id = n + 1 => t = r
        BY <1>11, <1>12
      <4> QED BY <3>1, <4>1, <4>2
    <3>2. CASE s # r
      BY <1>3, <1>4, <1>9, <1>11, <1>12, <2>2, <3>2
    <3> QED BY <3>1, <3>2
  <2>3. ASSUME NEW s \in Requests, req'[s].op = "verify"
        PROVE  /\ req'[s].arg <= made'["domain"]
               /\ \A t \in Requests : Inserting(req'[t]) => req'[t].id # req'[s].arg
    BY <1>3, <1>9, <1>11, <1>12, <1>13, <2>3
  <2> QED BY <2>1, <2>2, <2>3 DEF Numbered, Dom, Inserting
<1>15. Proven'
  <2>1. \A d \in Ids : Dom(d)' # None /\ Dom(d)'.status = "verified" => Earned(d)'
    BY <1>4 DEF Verdicts, Proven, Earned, Dom
  <2>2. ASSUME NEW s \in Requests, req'[s].op = "verify", req'[s].pc = "write",
               req'[s].status = "verified"
        PROVE  Earned(req'[s].arg)
    BY <1>13, <2>2 DEF Verdicts, Proven, At
  <2>3. \A d : Earned(d) => Earned(d)'
    BY <1>4 DEF Earned, Dom
  <2> QED BY <2>1, <2>2, <2>3 DEF Proven, Dom, Earned, At
<1> QED BY <1>14, <1>15 DEF Verdicts

LEMMA InsertDomainVerdicts ==
  ASSUME Typed, Typed', Verdicts, NEW r \in Requests, InsertDomain(r)
  PROVE  Verdicts'
<1>1. /\ Inserting(req[r]) /\ UNCHANGED <<made, found>> /\ req' = [req EXCEPT ![r] = Ended]
      /\ req[r].id \in Ids /\ req[r].arg \in Names
  BY DEF InsertDomain, Inserting, At, End, Typed, Shaped
<1>2. /\ req'[r] = Ended /\ Idle(req'[r]) /\ \A s \in Requests : s # r => req'[s] = req[s]
  BY <1>1, EndedTyped DEF Idle, Inserting, Typed, TypeOK, ResourcesTypes
<1>3. CASE UNCHANGED row
  <2>1. \A s \in Requests : req'[s] = req[s] \/ Idle(req'[s])
    BY <1>2
  <2> QED BY <1>1, <1>3, <2>1, VerdictsStay
<1>4. CASE Insert("domain", req[r].id, [name |-> req[r].arg, status |-> "pending"])
  <2> DEFINE i == req[r].id  v == [name |-> req[r].arg, status |-> "pending"]
  <2>1. v \in Domain /\ "domain" \in Kinds /\ v.status = "pending"
    BY <1>1 DEF Domain, Verdict, Kinds
  <2>2. row'["domain"][i] = v /\ \A d \in Ids : d # i => row'["domain"][d] = row["domain"][d]
    BY <1>1, <1>4, <2>1, InsertTyped
  <2>3. /\ \A s \in Requests : Inserting(req[s]) => req[s].id \in Ids
        /\ \A s \in Requests : req[s].op = "verify" => req[s].arg \in Ids
    BY DEF Typed, Shaped, Inserting
  <2>4. /\ i <= made["domain"]
        /\ \A s \in Requests : s # r /\ Inserting(req[s]) => req[s].id # i
        /\ \A s \in Requests : req[s].op = "verify" => req[s].arg # i
    BY <1>1 DEF Verdicts, Numbered
  <2> HIDE DEF i, v
  <2>5. Numbered'
    <3>1. \A d \in Ids : row'["domain"][d] # None => d <= made'["domain"]
      BY <1>1, <2>2, <2>4 DEF Verdicts, Numbered, Dom
    <3>2. ASSUME NEW s \in Requests, Inserting(req'[s])
          PROVE  /\ req'[s].id <= made'["domain"] /\ row'["domain"][req'[s].id] = None
                 /\ \A t \in Requests : Inserting(req'[t]) /\ req'[t].id = req'[s].id => t = s
      BY <1>1, <1>2, <2>2, <2>3, <2>4, <3>2 DEF Verdicts, Numbered, Dom, Idle
    <3>3. ASSUME NEW s \in Requests, req'[s].op = "verify"
          PROVE  /\ req'[s].arg <= made'["domain"]
                 /\ \A t \in Requests : Inserting(req'[t]) => req'[t].id # req'[s].arg
      BY <1>1, <1>2, <3>3 DEF Verdicts, Numbered, Idle
    <3> QED BY <3>1, <3>2, <3>3 DEF Numbered, Dom, Inserting
  <2>6. \A d \in Ids : d # i /\ Earned(d) => Earned(d)'
    BY <1>1, <2>2 DEF Earned, Dom
  <2>7. \A d \in Ids : row'["domain"][d] # None /\ row'["domain"][d].status = "verified" => Earned(d)'
    BY <2>1, <2>2, <2>6 DEF Verdicts, Proven, Dom
  <2>8. ASSUME NEW s \in Requests, req'[s].op = "verify", req'[s].pc = "write",
               req'[s].status = "verified"
        PROVE  req'[s] = req[s] /\ req[s].arg \in Ids /\ req[s].arg # i /\ Earned(req[s].arg)
    BY <1>2, <2>3, <2>4, <2>8 DEF Verdicts, Proven, Idle, At
  <2> QED BY <2>5, <2>6, <2>7, <2>8 DEF Verdicts, Proven, Dom, Earned, At
<1> QED BY <1>3, <1>4 DEF InsertDomain

\* Where a verification starts, is under way or ends.
LEMMA VerifiesVerdicts ==
  ASSUME Typed, Typed', Verdicts, NEW r \in Requests, Verifies(r)
  PROVE  Verdicts'
<1>1. req \in [Requests -> Request] /\ req[r] \in Request /\ Tables(row)
  BY DEF Typed, TypeOK, ResourcesTypes
<1>2. /\ \A s \in Requests : Inserting(req[s]) => req[s].id \in Ids
      /\ \A s \in Requests : req[s].op = "verify" => req[s].arg \in Ids
  BY DEF Typed, Shaped, Inserting
<1>3. CASE \E d \in Ids : FindDomain(r, d)
  <2>1. PICK d \in Ids : FindDomain(r, d)
    BY <1>3
  <2> DEFINE q == [Ended EXCEPT !.op = "verify", !.pc = "lookup", !.arg = d]
  <2>2. /\ Dom(d) # None /\ req' = [req EXCEPT ![r] = q] /\ UNCHANGED <<made, row, found>>
    BY <2>1 DEF FindDomain, Begin, Owned, Dom
  <2>3. q.op = "verify" /\ q.pc = "lookup" /\ q.arg = d
    BY EndedTyped DEF Request
  <2> HIDE DEF q
  <2>4. req'[r] = q /\ \A s \in Requests : s # r => req'[s] = req[s]
    BY <1>1, <2>2
  <2>5. \A s \in Requests : Inserting(req'[s]) => s # r /\ req'[s] = req[s] /\ req[s].id # d
    BY <2>2, <2>3, <2>4 DEF Inserting, Verdicts, Numbered
  <2>6. d <= made["domain"]
    BY <2>2 DEF Verdicts, Numbered
  <2>7. Numbered'
    <3>1. ASSUME NEW s \in Requests, req'[s].op = "verify"
          PROVE  /\ req'[s].arg <= made["domain"]
                 /\ \A t \in Requests : Inserting(req'[t]) => req'[t].id # req'[s].arg
      <4>1. CASE s = r
        BY <2>3, <2>4, <2>5, <2>6, <4>1
      <4>2. CASE s # r
        BY <2>4, <2>5, <3>1, <4>2 DEF Verdicts, Numbered
      <4> QED BY <4>1, <4>2
    <3>2. ASSUME NEW s \in Requests, Inserting(req'[s])
          PROVE  /\ req'[s].id <= made["domain"] /\ row["domain"][req'[s].id] = None
                 /\ \A t \in Requests : Inserting(req'[t]) /\ req'[t].id = req'[s].id => t = s
      BY <2>5, <3>2 DEF Verdicts, Numbered, Dom
    <3>3. \A e \in Ids : row["domain"][e] # None => e <= made["domain"]
      BY DEF Verdicts, Numbered, Dom
    <3> QED BY <2>2, <3>1, <3>2, <3>3 DEF Numbered, Dom, Inserting
  <2>8. Proven'
    <3>1. \A s \in Requests : req'[s].op = "verify" /\ req'[s].pc = "write" => req'[s] = req[s]
      BY <2>3, <2>4
    <3> QED BY <2>2, <3>1 DEF Verdicts, Proven, Earned, Dom, At
  <2> QED BY <2>7, <2>8 DEF Verdicts
<1>4. CASE VerifyDNS(r)
  <2> DEFINE d == req[r].arg
  <2>1. d \in Ids /\ req[r].op = "verify" /\ UNCHANGED <<made, row>>
    BY <1>2, <1>4 DEF VerifyDNS, At
  <2>2. CASE d \notin Owned("domain")
    <3>1. End(r) /\ UNCHANGED found
      BY <1>4, <2>2 DEF VerifyDNS
    <3>2. \A s \in Requests : req'[s] = req[s] \/ Idle(req'[s])
      BY <1>1, <3>1, EndedTyped DEF End, Idle, Inserting
    <3> QED BY <2>1, <3>1, <3>2, VerdictsStay
  <2>3. CASE d \in Owned("domain")
    <3> DEFINE test == row["domain"][d].name \in TestNames
    <3>1. PICK spf \in BOOLEAN, dkim \in BOOLEAN, dmarc \in BOOLEAN :
            /\ req' = [req EXCEPT ![r].pc = "write", ![r].status = StatusOf(test, spf, dkim, dmarc)]
            /\ found' = IF spf /\ dkim /\ dmarc THEN found \cup {d} ELSE found
      BY <1>4, <2>3 DEF VerifyDNS
    <3> HIDE DEF test
    <3>2. StatusOf(test, spf, dkim, dmarc) = "verified" => test \/ (spf /\ dkim /\ dmarc)
      BY DEF StatusOf
    <3> DEFINE status == StatusOf(test, spf, dkim, dmarc)
    <3>3. status = "verified" => test \/ d \in found'
      BY <3>1, <3>2
    <3> HIDE DEF status
    <3>4. req' = [req EXCEPT ![r].pc = "write", ![r].status = status] /\ found \subseteq found'
      BY <3>1 DEF status
    <3>5. /\ req'[r].op = "verify" /\ req'[r].arg = d /\ req'[r].status = status
          /\ \A s \in Requests : s # r => req'[s] = req[s]
      BY <1>1, <2>1, <3>4 DEF Request
    <3> DEFINE Got(e) == e \in found' \/ (row'["domain"][e] # None => row'["domain"][e].name \in TestNames)
    <3>6. \A e : Earned(e) => Got(e)
      BY <2>1, <3>4 DEF Earned, Dom
    <3>7. status = "verified" => Got(d)
      BY <2>1, <3>3 DEF test
    <3>8. Numbered'
      <4>1. /\ \A s \in Requests : Inserting(req'[s]) => Inserting(req[s]) /\ req'[s] = req[s]
            /\ \A s \in Requests : req'[s].op = "verify" =>
                 req[s].op = "verify" /\ req'[s].arg = req[s].arg
        BY <2>1, <3>5 DEF Inserting, d
      <4> QED BY <2>1, <4>1 DEF Verdicts, Numbered, Dom, Inserting
    <3> HIDE DEF d, Got
    <3>9. ASSUME NEW s \in Requests, req'[s].op = "verify", req'[s].pc = "write",
                 req'[s].status = "verified"
          PROVE  Got(req'[s].arg)
      <4>1. CASE s = r
        BY <3>5, <3>7, <3>9, <4>1
      <4>2. CASE s # r
        <5>1. Earned(req[s].arg) /\ req'[s] = req[s]
          BY <3>5, <3>9, <4>2 DEF Verdicts, Proven, At
        <5> QED BY <3>6, <5>1
      <4> QED BY <4>1, <4>2
    <3>10. \A e \in Ids : row'["domain"][e] # None /\ row'["domain"][e].status = "verified" => Got(e)
      BY <2>1, <3>6 DEF Verdicts, Proven, Dom
    <3> QED BY <3>8, <3>9, <3>10 DEF Verdicts, Proven, Dom, Earned, At, Got
  <2> QED BY <2>2, <2>3
<1>5. CASE UpdateVerificationStatus(r)
  <2> DEFINE d == req[r].arg  status == req[r].status
  <2>1. /\ d \in Ids /\ At(r, "verify", "write") /\ UNCHANGED <<made, found>>
        /\ req' = [req EXCEPT ![r].pc = "reread"] /\ status \in Verdict
        /\ row' = IF d \in Owned("domain") THEN [row EXCEPT !["domain"][d].status = status] ELSE row
    BY <1>1, <1>2, <1>5 DEF UpdateVerificationStatus, At, Goto, Request
  <2>2. /\ req'[r].op = "verify" /\ req'[r].pc = "reread" /\ req'[r].arg = d /\ req[r].op = "verify"
        /\ \A s \in Requests : s # r => req'[s] = req[s]
    BY <1>1, <2>1 DEF Request, At
  <2>3. status = "verified" => Earned(d)
    BY <2>1 DEF Verdicts, Proven
  <2> HIDE DEF d, status
  <2>4. /\ \A e \in Ids : e # d => row'["domain"][e] = row["domain"][e]
        /\ \/ row'["domain"][d] = row["domain"][d]
           \/ /\ row["domain"][d] # None /\ row'["domain"][d].name = row["domain"][d].name
              /\ row'["domain"][d] # None /\ row'["domain"][d].status = status
    <3>1. CASE d \in Owned("domain")
      <4>1. row'["domain"][d] = [row["domain"][d] EXCEPT !.status = status]
            /\ \A e \in Ids : e # d => row'["domain"][e] = row["domain"][e]
        BY <2>1, <3>1, StatusTyped DEF Kinds
      <4>2. row["domain"][d] \in Domain /\ row["domain"][d] # None
        BY <1>1, <3>1 DEF Owned, Tables
      <4>3. row'["domain"][d] \in Domain
        BY <2>1, <4>1, <4>2 DEF Domain
      <4> QED BY <4>1, <4>2, <4>3, Constants DEF Domain
    <3>2. CASE d \notin Owned("domain")
      BY <2>1, <3>2
    <3> QED BY <3>1, <3>2
  <2>5. \A e \in Ids : /\ row'["domain"][e] # None => row["domain"][e] # None
                       /\ row["domain"][e] = None => row'["domain"][e] = None
                       /\ Earned(e) => Earned(e)'
    BY <2>1, <2>4 DEF Earned, Dom
  <2>6. Numbered'
    <3>1. /\ \A s \in Requests : Inserting(req'[s]) => Inserting(req[s]) /\ req'[s] = req[s]
          /\ \A s \in Requests : req'[s].op = "verify" =>
               req[s].op = "verify" /\ req'[s].arg = req[s].arg
      BY <2>2 DEF Inserting, d
    <3> QED BY <1>2, <2>1, <2>5, <3>1 DEF Verdicts, Numbered, Dom, Inserting
  <2>7. ASSUME NEW e \in Ids, row'["domain"][e] # None, row'["domain"][e].status = "verified"
        PROVE  Earned(e)
    BY <2>3, <2>4, <2>7 DEF Verdicts, Proven, Dom
  <2>8. ASSUME NEW s \in Requests, At(s, "verify", "write")', req'[s].status = "verified"
        PROVE  Earned(req[s].arg) /\ req'[s] = req[s] /\ req[s].arg \in Ids
    BY <1>2, <2>2, <2>8 DEF Verdicts, Proven, At
  <2> QED BY <2>5, <2>6, <2>7, <2>8 DEF Verdicts, Proven, Dom, Earned, At
<1>6. CASE Verified(r)
  <2>1. UNCHANGED <<made, row, found>>
    BY <1>6 DEF Verified
  <2>2. \A s \in Requests : req'[s] = req[s] \/ Idle(req'[s])
    BY <1>1, <1>6, EndedTyped DEF Verified, End, Panic, Idle, Inserting
  <2> QED BY <2>1, <2>2, VerdictsStay
<1> QED BY <1>3, <1>4, <1>5, <1>6 DEF Verifies

LEMMA VerdictsNext == Typed /\ Typed' /\ Verdicts /\ [Next]_vars => Verdicts'
<1> SUFFICES ASSUME Typed, Typed', Verdicts, [Next]_vars PROVE Verdicts'
  OBVIOUS
<1>1. req \in [Requests -> Request] /\ Tables(row) /\ Tables(row')
  BY DEF Typed, TypeOK, ResourcesTypes, Tables
\* Steps that touch neither the domains nor what is known of them.
<1>2. ASSUME made'["domain"] = made["domain"], found' = found, row'["domain"] = row["domain"],
             \A s \in Requests : req'[s] = req[s] \/ Idle(req'[s])
      PROVE  Verdicts'
  BY <1>2, VerdictsStay
<1>3. ASSUME NEW r \in Requests, Creates(r) PROVE Verdicts'
  <2>1. ASSUME NEW k \in Kinds, NEW arg, ReadLimit(r, k, arg) PROVE Verdicts'
    <3> DEFINE limit == Limit[plan][k]
               q == [Ended EXCEPT !.op = k, !.pc = "count", !.arg = arg, !.limit = limit]
    <3>1. req' = [req EXCEPT ![r] = q] /\ UNCHANGED <<made, row, found>>
      BY <2>1 DEF ReadLimit, Begin
    <3> HIDE DEF limit
    <3>2. q.op # "verify" /\ q.pc = "count"
      BY EndedTyped DEF Request, Kinds
    <3> HIDE DEF q
    <3>3. \A s \in Requests : req'[s] = req[s] \/ Idle(req'[s])
      BY <1>1, <3>1, <3>2 DEF Idle, Inserting
    <3> QED BY <1>2, <3>1, <3>3
  <2>2. ASSUME End(r), made'["domain"] = made["domain"], found' = found,
               row'["domain"] = row["domain"]
        PROVE  Verdicts'
    <3>1. \A s \in Requests : req'[s] = req[s] \/ Idle(req'[s])
      BY <1>1, <2>2, EndedTyped DEF End, Idle, Inserting
    <3> QED BY <1>2, <2>2, <3>1
  <2>3. ASSUME NEW pc, Goto(r, pc), pc # "insert" \/ req[r].op = "key", req[r].op # "verify",
               UNCHANGED <<made, row, found>>
        PROVE  Verdicts'
    <3>1. req'[r].pc = pc /\ req'[r].op = req[r].op /\ \A s \in Requests : s # r => req'[s] = req[s]
      BY <1>1, <2>3 DEF Goto, Request
    <3>2. \A s \in Requests : req'[s] = req[s] \/ Idle(req'[s])
      BY <2>3, <3>1 DEF Idle, Inserting
    <3> QED BY <1>2, <2>3, <3>2
  <2>4. ASSUME NEW k \in Kinds, Count(r, k) PROVE Verdicts'
    <3>1. req[r].op # "verify" /\ UNCHANGED <<made, row, found>>
      BY <2>4 DEF Count, At, Kinds
    <3> QED BY <2>2, <2>3, <2>4, <3>1 DEF Count
  <2>5. CASE CheckName(r)
    <3>1. CASE HasName(req[r].arg)
      BY <2>2, <2>5, <3>1 DEF CheckName
    <3> QED BY <2>5, <3>1, CheckNameVerdicts
  <2>6. CASE CheckBinding(r)
    BY <2>2, <2>3, <2>6 DEF CheckBinding, At
  <2>7. ASSUME NEW k \in {"key", "webhook"}, Number(k)
        PROVE  made'["domain"] = made["domain"] /\ NewId(k) \in Ids
    <3>1. made \in [Kinds -> 0..MaxRows] /\ k \in Kinds
      BY DEF Typed, TypeOK, ResourcesTypes, Kinds
    <3> QED BY <2>7, <3>1, Constants DEF Number, NewId, Ids
  <2>8. CASE InsertKey(r)
    <3>1. End(r) /\ UNCHANGED found /\ req[r].arg \in Ids \cup {None}
      BY <2>8 DEF InsertKey, Typed, Shaped, At
    <3>2. CASE UNCHANGED <<made, row>>
      BY <2>2, <3>1, <3>2
    <3>3. CASE Number("key") /\ Insert("key", NewId("key"), [domain |-> req[r].arg])
      <4>1. made'["domain"] = made["domain"]
        BY <2>7, <3>3
      <4>2. row'["domain"] = row["domain"]
        BY <1>1, <3>3 DEF Insert, Tables, Kinds
      <4> QED BY <2>2, <3>1, <4>1, <4>2
    <3> QED BY <2>8, <3>2, <3>3 DEF InsertKey
  <2>9. CASE InsertWebhook(r)
    <3>1. End(r) /\ UNCHANGED found /\ Number("webhook")
          /\ Insert("webhook", NewId("webhook"), "webhook")
      BY <2>9 DEF InsertWebhook
    <3>2. made'["domain"] = made["domain"]
      BY <2>7, <3>1
    <3>3. row'["domain"] = row["domain"]
      BY <1>1, <3>1 DEF Insert, Tables, Kinds
    <3> QED BY <2>2, <3>1, <3>2, <3>3
  <2>10. "domain" \in Kinds /\ "key" \in Kinds /\ "webhook" \in Kinds
    BY DEF Kinds
  <2> QED BY <1>3, <2>1, <2>4, <2>5, <2>6, <2>8, <2>9, <2>10, InsertDomainVerdicts DEF Creates
<1>4. ASSUME NEW r \in Requests, Verifies(r) PROVE Verdicts'
  BY <1>4, VerifiesVerdicts
<1>5. ASSUME NEW r \in Requests, Deletes(r) PROVE Verdicts'
  <2>1. ASSUME NEW k \in Kinds, NEW i \in Ids, FindRow(r, k, i) PROVE Verdicts'
    <3> DEFINE q == [Ended EXCEPT !.op = "delete", !.pc = "delete", !.kind = k, !.arg = i]
    <3>1. req' = [req EXCEPT ![r] = q] /\ UNCHANGED <<made, row, found>>
      BY <2>1 DEF FindRow, Begin
    <3>2. q.op = "delete"
      BY EndedTyped DEF Request
    <3> HIDE DEF q
    <3>3. \A s \in Requests : req'[s] = req[s] \/ Idle(req'[s])
      BY <1>1, <3>1, <3>2 DEF Idle, Inserting
    <3> QED BY <1>2, <3>1, <3>3
  <2>2. CASE DeleteRow(r)
    <3>1. End(r) /\ UNCHANGED <<made, found>>
      BY <2>2 DEF DeleteRow
    <3>2. \A s \in Requests : req'[s] = req[s] \/ Idle(req'[s])
      BY <1>1, <3>1, EndedTyped DEF End, Idle, Inserting
    <3>3. \A d \in Ids : row'["domain"][d] = row["domain"][d] \/ row'["domain"][d] = None
      BY <2>2, DeleteTyped DEF Kinds
    <3> QED BY <3>1, <3>2, <3>3, VerdictsStay
  <2> QED BY <1>5, <2>1, <2>2 DEF Deletes
<1>6. ASSUME NEW r \in Requests, Fails(r) PROVE Verdicts'
  <2>1. \A s \in Requests : req'[s] = req[s] \/ Idle(req'[s])
    BY <1>1, <1>6, EndedTyped DEF Fails, End, Idle, Inserting
  <2> QED BY <1>2, <1>6, <2>1 DEF Fails
<1>7. CASE UNCHANGED <<made, row, found, req>>
  BY <1>2, <1>7
<1>8. CASE ResourcesNext /\ UNCHANGED submission
  BY <1>3, <1>4, <1>5, <1>6, <1>7, <1>8 DEF ResourcesNext, Publish, ChangePlan
<1>9. ASSUME NEW c \in Clients, Submits(c) PROVE Verdicts'
  <2>1. UNCHANGED resources
    BY <1>9, SubmitsTyped
  <2> QED BY <1>7, <2>1 DEF resources
<1> QED BY <1>7, <1>8, <1>9 DEF Next, vars, resources

\* A domain is verified by its own DKIM key, whatever a deleted domain of the
\* same name has left in the DNS, and however slow its verification was.
THEOREM OwnRecords == Spec => []VerifiedByOwnRecords
<1>1. Init => Verdicts
  <2> SUFFICES ASSUME Init PROVE Verdicts
    OBVIOUS
  <2>1. /\ made["domain"] = 1 /\ \A r \in Requests : req[r].op = "none" /\ req[r].pc = "start"
    BY EndedTyped DEF Init, ResourcesInit, Kinds, Request
  <2>2. PICK name \in Names : row =
          [k \in Kinds |-> [i \in Ids |->
             CASE k = "domain" /\ i = 1 -> [name |-> name, status |-> "pending"]
               [] k = "key" /\ i = 1    -> [domain |-> None]
               [] OTHER                 -> None]]
    BY DEF Init, ResourcesInit
  <2>3. \A d \in Ids : row["domain"][d] = IF d = 1 THEN [name |-> name, status |-> "pending"] ELSE None
    BY <2>2 DEF Kinds
  <2>4. Numbered
    BY <2>1, <2>3 DEF Numbered, Dom, Inserting, Ids
  <2>5. Proven
    BY <2>1, <2>3 DEF Proven, Dom, At
  <2> QED BY <2>4, <2>5 DEF Verdicts
<1>2. Typed /\ Typed' /\ Verdicts /\ [Next]_vars => Verdicts'
  BY VerdictsNext
<1>3. Verdicts => VerifiedByOwnRecords
  BY DEF Verdicts, Proven, Earned, Dom, VerifiedByOwnRecords, Owned
<1> QED BY <1>1, <1>2, <1>3, TypedHolds, PTL DEF Spec

----------------------------------------------------------------------------
(* How far a limit may be exceeded.                                        *)

Slack(k) ==
  \E p \in Plans :
    \/ Limit[p][k] = Unlimited
    \/ Cardinality(Owned(k)) + Cardinality(Creating(k)) < Limit[p][k] + Cardinality(Requests)

\* The limit a request compares with was that of a plan.
Held ==
  \A r \in Requests, k \in Kinds : At(r, k, "count") => \E p \in Plans : Limit[p][k] = req[r].limit

LEMMA Sizes ==
  ASSUME NEW k
  PROVE  /\ IsFiniteSet(Owned(k)) /\ IsFiniteSet(Creating(k)) /\ IsFiniteSet(Requests)
         /\ Cardinality(Owned(k)) \in Nat /\ Cardinality(Creating(k)) \in Nat
         /\ Cardinality(Requests) \in Nat /\ Cardinality(Creating(k)) <= Cardinality(Requests)
<1>1. IsFiniteSet(Ids) /\ IsFiniteSet(Requests)
  BY ResourcesAssumption, FS_Interval DEF Ids
<1>2. Owned(k) \subseteq Ids /\ Creating(k) \subseteq Requests
  BY DEF Owned, Creating
<1>3. IsFiniteSet(Owned(k)) /\ IsFiniteSet(Creating(k)) /\ Cardinality(Creating(k)) <= Cardinality(Requests)
  BY <1>1, <1>2, FS_Subset
<1> QED BY <1>1, <1>3, FS_CardinalityType

LEMMA SlackShrinks ==
  ASSUME NEW k \in Kinds, Slack(k), Owned(k)' \subseteq Owned(k), Creating(k)' \subseteq Creating(k)
  PROVE  Slack(k)'
<1> DEFINE n == Cardinality(Owned(k))  m == Cardinality(Owned(k)')
           c == Cardinality(Creating(k))  b == Cardinality(Creating(k)')
<1>1. m <= n /\ b <= c /\ m \in Nat /\ n \in Nat /\ b \in Nat /\ c \in Nat
  BY Sizes, FS_Subset, FS_CardinalityType
<1>2. PICK p \in Plans : Limit[p][k] = Unlimited \/ n + c < Limit[p][k] + Cardinality(Requests)
  BY DEF Slack
<1>3. Limit[p][k] # Unlimited => Limit[p][k] \in Nat
  BY Constants
<1>4. Cardinality(Requests) \in Nat
  BY Sizes
<1> HIDE DEF n, m, c, b
<1>5. Limit[p][k] = Unlimited \/ m + b < Limit[p][k] + Cardinality(Requests)
  BY <1>1, <1>2, <1>3, <1>4
<1> QED BY <1>5 DEF Slack, m, b

LEMMA SlackInserts ==
  ASSUME NEW k \in Kinds, Slack(k), NEW i \in Ids, Owned(k)' \subseteq Owned(k) \cup {i},
         NEW r \in Creating(k), Creating(k)' \subseteq Creating(k) \ {r}
  PROVE  Slack(k)'
<1> DEFINE n == Cardinality(Owned(k))  m == Cardinality(Owned(k)')
           c == Cardinality(Creating(k))  b == Cardinality(Creating(k)')
<1>1. n \in Nat /\ c \in Nat /\ Cardinality(Requests) \in Nat
  BY Sizes
<1>2. m <= n + 1 /\ m \in Nat
  <2>1. IsFiniteSet(Owned(k) \cup {i}) /\ Cardinality(Owned(k) \cup {i}) <= n + 1
    <3>1. Cardinality(Owned(k) \cup {i}) \in {n, n + 1} /\ IsFiniteSet(Owned(k) \cup {i})
      BY Sizes, FS_AddElement
    <3> HIDE DEF n
    <3> QED BY <1>1, <3>1
  <2>2. /\ Cardinality(Owned(k)') <= Cardinality(Owned(k) \cup {i}) /\ IsFiniteSet(Owned(k)')
        /\ Cardinality(Owned(k) \cup {i}) \in Nat
    BY <2>1, FS_Subset, FS_CardinalityType
  <2>3. Cardinality(Owned(k)') \in Nat
    BY <2>2, FS_CardinalityType
  <2> HIDE DEF n
  <2> QED BY <1>1, <2>1, <2>2, <2>3
<1>3. b < c /\ b \in Nat
  <2>1. IsFiniteSet(Creating(k) \ {r}) /\ Cardinality(Creating(k) \ {r}) = c - 1
    BY Sizes, FS_RemoveElement
  <2>2. b <= Cardinality(Creating(k) \ {r}) /\ IsFiniteSet(Creating(k)')
    BY <2>1, FS_Subset
  <2>3. b \in Nat
    BY <2>2, FS_CardinalityType
  <2> HIDE DEF b, c
  <2> QED BY <1>1, <2>1, <2>2, <2>3
<1>4. PICK p \in Plans : Limit[p][k] = Unlimited \/ n + c < Limit[p][k] + Cardinality(Requests)
  BY DEF Slack
<1>5. Limit[p][k] # Unlimited => Limit[p][k] \in Nat
  BY Constants
<1> HIDE DEF n, m, c, b
<1>6. Limit[p][k] = Unlimited \/ m + b < Limit[p][k] + Cardinality(Requests)
  BY <1>1, <1>2, <1>3, <1>4, <1>5
<1> QED BY <1>6 DEF Slack, m, b

\* A request that has counted may create a row, whatever the others do.
LEMMA SlackCounts ==
  ASSUME NEW k \in Kinds, NEW p \in Plans, Allows(Limit[p][k], Cardinality(Owned(k))),
         Owned(k)' = Owned(k)
  PROVE  Slack(k)'
<1>1. \/ Limit[p][k] = Unlimited
      \/ Limit[p][k] \in Nat /\ Cardinality(Owned(k)) < Limit[p][k]
  BY Constants DEF Allows
<1>2. Creating(k)' \subseteq Requests
  BY DEF Creating
<1>3. /\ Cardinality(Creating(k)') <= Cardinality(Requests) /\ Cardinality(Creating(k)') \in Nat
      /\ Cardinality(Requests) \in Nat /\ Cardinality(Owned(k)) \in Nat
  BY <1>2, Sizes, FS_Subset, FS_CardinalityType
<1>4. Cardinality(Owned(k)') = Cardinality(Owned(k))
  OBVIOUS
<1>5. \/ Limit[p][k] = Unlimited
      \/ Cardinality(Owned(k)') + Cardinality(Creating(k)') < Limit[p][k] + Cardinality(Requests)
  BY <1>1, <1>3, <1>4
<1> QED BY <1>5 DEF Slack

\* Requests that are not at the count or in front of an INSERT now were not
\* before, or have not moved.
Tame(s) ==
  \/ req'[s] = req[s]
  \/ req'[s].pc \notin {"count", "check", "insert"}
  \/ /\ req'[s].op = req[s].op
     /\ req'[s].pc \in {"check", "insert"} /\ req[s].pc \in {"check", "insert"}

LEMMA TameStays ==
  ASSUME Held, LimitSlack, \A s \in Requests : Tame(s),
         \A k \in Kinds : Owned(k)' \subseteq Owned(k)
  PROVE  Held' /\ LimitSlack'
<1>1. Held'
  BY DEF Held, Tame, At
<1>2. ASSUME NEW k \in Kinds PROVE Slack(k)'
  <2>1. Creating(k)' \subseteq Creating(k)
    BY DEF Creating, Tame
  <2>2. Slack(k)
    BY DEF LimitSlack, Slack
  <2> QED BY <1>2, <2>1, <2>2, SlackShrinks
<1> QED BY <1>1, <1>2 DEF LimitSlack, Slack

\* The row a request was about to create is there.
LEMMA InsertSlack ==
  ASSUME Typed, Held, LimitSlack, NEW k \in Kinds, NEW i \in Ids, NEW value, value # None,
         Insert(k, i, value), NEW r \in Creating(k), End(r)
  PROVE  Held' /\ LimitSlack'
<1>1. r \in Requests /\ req'[r] = Ended /\ \A s \in Requests : s # r => req'[s] = req[s]
  BY DEF End, Creating, Typed, TypeOK, ResourcesTypes
<1>2. Held'
  BY <1>1, EndedTyped DEF Held, At
<1>3. \A l \in Kinds : Creating(l)' \subseteq Creating(l) \ {r}
  BY <1>1, EndedTyped DEF Creating
<1>4. \A l \in Kinds, j \in Ids : l # k \/ j # i => row'[l][j] = row[l][j]
  <2>1. Tables(row)
    BY DEF Typed
  <2> QED BY <2>1 DEF Insert, Tables, Kinds
<1>5. \A l \in Kinds : Slack(l)
  BY DEF LimitSlack, Slack
<1>6. ASSUME NEW l \in Kinds PROVE Slack(l)'
  <2>1. CASE l = k
    <3>1. Owned(l)' \subseteq Owned(l) \cup {i}
      BY <1>4 DEF Owned
    <3> QED BY <1>3, <1>5, <2>1, <3>1, SlackInserts
  <2>2. CASE l # k
    <3>1. Owned(l)' \subseteq Owned(l)
      BY <1>4, <2>2 DEF Owned
    <3> QED BY <1>3, <1>5, <3>1, SlackShrinks
  <2> QED BY <2>1, <2>2
<1> QED BY <1>2, <1>6 DEF LimitSlack, Slack

LEMMA SlackNext == Typed /\ Held /\ LimitSlack /\ [Next]_vars => Held' /\ LimitSlack'
<1> SUFFICES ASSUME Typed, Held, LimitSlack, [Next]_vars PROVE Held' /\ LimitSlack'
  OBVIOUS
<1> DEFINE Goal == Held' /\ LimitSlack'
<1>1. req \in [Requests -> Request] /\ Tables(row) /\ plan \in Plans
  BY DEF Typed, TypeOK, ResourcesTypes
<1>2. ASSUME UNCHANGED row, \A s \in Requests : Tame(s) PROVE Goal
  <2>1. \A k \in Kinds : Owned(k)' \subseteq Owned(k)
    BY <1>2 DEF Owned
  <2> QED BY <1>2, <2>1, TameStays
<1>3. ASSUME NEW r \in Requests, End(r) PROVE \A s \in Requests : Tame(s)
  BY <1>1, <1>3, EndedTyped DEF End, Tame
<1>4. ASSUME NEW r \in Requests, NEW pc, Goto(r, pc),
             \/ pc \notin {"count", "check", "insert"}
             \/ pc \in {"check", "insert"} /\ req[r].pc \in {"check", "insert"}
      PROVE  \A s \in Requests : Tame(s)
  <2>1. req'[r].pc = pc /\ req'[r].op = req[r].op /\ \A s \in Requests : s # r => req'[s] = req[s]
    BY <1>1, <1>4 DEF Goto, Request
  <2> QED BY <1>4, <2>1 DEF Tame
<1>5. ASSUME NEW r \in Requests, Creates(r) PROVE Goal
  <2>1. ASSUME NEW k \in Kinds, NEW arg, ReadLimit(r, k, arg) PROVE Goal
    <3> DEFINE limit == Limit[plan][k]
               q == [Ended EXCEPT !.op = k, !.pc = "count", !.arg = arg, !.limit = limit]
    <3>1. req' = [req EXCEPT ![r] = q] /\ UNCHANGED row /\ q.op = k /\ q.pc = "count" /\ q.limit = limit
      BY <2>1, EndedTyped DEF ReadLimit, Begin, Request
    <3> HIDE DEF q, limit
    <3>2. req'[r] = q /\ \A s \in Requests : s # r => req'[s] = req[s]
      BY <1>1, <3>1
    <3>3. Held'
      <4>1. ASSUME NEW s \in Requests, NEW l \in Kinds, req'[s].op = l, req'[s].pc = "count"
            PROVE  \E p \in Plans : Limit[p][l] = req'[s].limit
        <5>1. CASE s = r
          BY <1>1, <3>1, <3>2, <4>1, <5>1 DEF limit
        <5>2. CASE s # r
          BY <3>2, <4>1, <5>2 DEF Held, At
        <5> QED BY <5>1, <5>2
      <4> QED BY <4>1 DEF Held, At
    <3>4. ASSUME NEW l \in Kinds PROVE Slack(l)'
      <4>1. Creating(l)' \subseteq Creating(l) /\ Owned(l)' \subseteq Owned(l)
        BY <3>1, <3>2 DEF Creating, Owned
      <4>2. Slack(l)
        BY DEF LimitSlack, Slack
      <4> QED BY <4>1, <4>2, SlackShrinks
    <3> QED BY <3>3, <3>4 DEF LimitSlack, Slack
  <2>2. ASSUME NEW k \in Kinds, Count(r, k) PROVE Goal
    <3>1. UNCHANGED row /\ At(r, k, "count")
      BY <2>2 DEF Count
    <3>2. CASE Allows(req[r].limit, Cardinality(Owned(k)))
      <4>1. Goto(r, "check")
        BY <2>2, <3>2 DEF Count
      <4>2. /\ req'[r].pc = "check" /\ req'[r].op = k
            /\ \A s \in Requests : s # r => req'[s] = req[s]
        BY <1>1, <3>1, <4>1 DEF Goto, Request, At
      <4>3. Held'
        BY <4>2 DEF Held, At
      <4>4. PICK p \in Plans : Limit[p][k] = req[r].limit
        BY <3>1 DEF Held
      <4>5. ASSUME NEW l \in Kinds PROVE Slack(l)'
        <5>1. Owned(l)' = Owned(l)
          BY <3>1 DEF Owned
        <5>2. CASE l = k
          BY <3>2, <4>4, <5>1, <5>2, SlackCounts
        <5>3. CASE l # k
          <6>1. Creating(l)' \subseteq Creating(l)
            BY <4>2, <5>3 DEF Creating
          <6>2. Slack(l)
            BY DEF LimitSlack, Slack
          <6> QED BY <5>1, <6>1, <6>2, SlackShrinks
        <5> QED BY <5>2, <5>3
      <4> QED BY <4>3, <4>5 DEF LimitSlack, Slack
    <3>3. CASE End(r)
      BY <1>2, <1>3, <3>1, <3>3
    <3> QED BY <2>2, <3>2, <3>3 DEF Count
  <2>3. CASE CheckName(r)
    <3>1. UNCHANGED row
      BY <2>3 DEF CheckName
    <3>2. CASE End(r)
      BY <1>2, <1>3, <3>1, <3>2
    <3>3. CASE req' = [req EXCEPT ![r].pc = "insert", ![r].id = NewId("domain")]
      <4>1. /\ req'[r].pc = "insert" /\ req'[r].op = req[r].op /\ req[r].pc = "check"
            /\ \A s \in Requests : s # r => req'[s] = req[s]
        BY <1>1, <2>3, <3>3 DEF Request, CheckName, At
      <4>2. \A s \in Requests : Tame(s)
        BY <4>1 DEF Tame
      <4> QED BY <1>2, <3>1, <4>2
    <3> QED BY <2>3, <3>2, <3>3 DEF CheckName
  <2>4. CASE InsertDomain(r)
    <3>1. /\ End(r) /\ r \in Creating("domain") /\ "domain" \in Kinds
          /\ req[r].arg \in Names /\ req[r].id \in Ids
      BY <2>4 DEF InsertDomain, At, Creating, Typed, Shaped, Kinds
    <3>2. CASE UNCHANGED row
      BY <1>2, <1>3, <3>1, <3>2
    <3>3. CASE Insert("domain", req[r].id, [name |-> req[r].arg, status |-> "pending"])
      <4>1. [name |-> req[r].arg, status |-> "pending"] \in Domain
        BY <3>1 DEF Domain, Verdict
      <4>2. [name |-> req[r].arg, status |-> "pending"] # None
        BY <4>1, Constants
      <4> QED BY <3>1, <3>3, <4>2, InsertSlack
    <3> QED BY <2>4, <3>2, <3>3 DEF InsertDomain
  <2>5. CASE CheckBinding(r)
    <3>1. UNCHANGED row /\ req[r].pc = "check"
      BY <2>5 DEF CheckBinding, At
    <3> QED BY <1>2, <1>3, <1>4, <2>5, <3>1 DEF CheckBinding
  <2>6. ASSUME NEW k \in Kinds, Number(k) PROVE NewId(k) \in Ids
    <3>1. made \in [Kinds -> 0..MaxRows]
      BY DEF Typed, TypeOK, ResourcesTypes
    <3> QED BY <2>6, <3>1, Constants DEF Number, NewId, Ids
  <2>7. CASE InsertKey(r)
    <3>1. /\ End(r) /\ r \in Creating("key") /\ "key" \in Kinds /\ req[r].arg \in Ids \cup {None}
      BY <2>7 DEF InsertKey, At, Creating, Typed, Shaped, Kinds
    <3>2. CASE UNCHANGED row
      BY <1>2, <1>3, <3>1, <3>2
    <3>3. CASE Number("key") /\ Insert("key", NewId("key"), [domain |-> req[r].arg])
      <4>1. [domain |-> req[r].arg] \in Key
        BY <3>1 DEF Key
      <4>2. [domain |-> req[r].arg] # None
        BY <4>1, Constants
      <4> QED BY <2>6, <3>1, <3>3, <4>2, InsertSlack
    <3> QED BY <2>7, <3>2, <3>3 DEF InsertKey
  <2>8. CASE InsertWebhook(r)
    <3>1. /\ End(r) /\ r \in Creating("webhook") /\ "webhook" \in Kinds
          /\ Number("webhook") /\ Insert("webhook", NewId("webhook"), "webhook")
      BY <2>8 DEF InsertWebhook, At, Creating, Kinds
    <3> QED BY <2>6, <3>1, Constants, InsertSlack
  <2>9. "domain" \in Kinds /\ "key" \in Kinds /\ "webhook" \in Kinds
    BY DEF Kinds
  <2> HIDE DEF Goal
  <2> QED BY <1>5, <2>1, <2>2, <2>3, <2>4, <2>5, <2>7, <2>8, <2>9 DEF Creates
<1>6. ASSUME NEW r \in Requests, Verifies(r) PROVE Goal
  <2>1. ASSUME NEW d \in Ids, FindDomain(r, d) PROVE Goal
    <3> DEFINE q == [Ended EXCEPT !.op = "verify", !.pc = "lookup", !.arg = d]
    <3>1. req' = [req EXCEPT ![r] = q] /\ UNCHANGED row /\ q.pc = "lookup"
      BY <2>1, EndedTyped DEF FindDomain, Begin, Request
    <3> HIDE DEF q
    <3>2. \A s \in Requests : Tame(s)
      BY <1>1, <3>1 DEF Tame
    <3> QED BY <1>2, <3>1, <3>2
  <2>2. CASE VerifyDNS(r)
    <3>1. UNCHANGED row
      BY <2>2 DEF VerifyDNS
    <3>2. CASE End(r)
      BY <1>2, <1>3, <3>1, <3>2
    <3>3. ASSUME NEW status, req' = [req EXCEPT ![r].pc = "write", ![r].status = status] PROVE Goal
      <4>1. req'[r].pc = "write" /\ \A s \in Requests : s # r => req'[s] = req[s]
        BY <1>1, <3>3 DEF Request
      <4>2. \A s \in Requests : Tame(s)
        BY <4>1 DEF Tame
      <4> QED BY <1>2, <3>1, <4>2
    <3> HIDE DEF Goal
    <3> QED BY <2>2, <3>2, <3>3 DEF VerifyDNS
  <2>3. CASE UpdateVerificationStatus(r)
    <3> DEFINE d == req[r].arg  status == req[r].status
    <3>1. /\ Goto(r, "reread") /\ status \in Verdict
          /\ row' = IF d \in Owned("domain") THEN [row EXCEPT !["domain"][d].status = status] ELSE row
      BY <1>1, <2>3 DEF UpdateVerificationStatus, Request
    <3> HIDE DEF d, status
    <3>2. CASE d \in Owned("domain")
      <4>1. \A l \in Kinds, j \in Ids : l # "domain" \/ j # d => row'[l][j] = row[l][j]
        BY <3>1, <3>2, StatusTyped
      <4>2. \A l \in Kinds : Owned(l)' \subseteq Owned(l)
        BY <3>2, <4>1 DEF Owned
      <4> QED BY <1>4, <3>1, <4>2, TameStays
    <3>3. CASE UNCHANGED row
      BY <1>2, <1>4, <3>1, <3>3
    <3> QED BY <3>1, <3>2, <3>3
  <2>4. CASE Verified(r)
    <3>1. UNCHANGED row
      BY <2>4 DEF Verified
    <3>2. \A s \in Requests : Tame(s)
      BY <1>1, <1>3, <2>4, EndedTyped DEF Verified, Panic, Tame
    <3> QED BY <1>2, <3>1, <3>2
  <2> HIDE DEF Goal
  <2> QED BY <1>6, <2>1, <2>2, <2>3, <2>4 DEF Verifies
<1>7. ASSUME NEW r \in Requests, Deletes(r) PROVE Goal
  <2>1. ASSUME NEW k \in Kinds, NEW i \in Ids, FindRow(r, k, i) PROVE Goal
    <3> DEFINE q == [Ended EXCEPT !.op = "delete", !.pc = "delete", !.kind = k, !.arg = i]
    <3>1. req' = [req EXCEPT ![r] = q] /\ UNCHANGED row /\ q.pc = "delete"
      BY <2>1, EndedTyped DEF FindRow, Begin, Request
    <3> HIDE DEF q
    <3>2. \A s \in Requests : Tame(s)
      BY <1>1, <3>1 DEF Tame
    <3> QED BY <1>2, <3>1, <3>2
  <2>2. CASE DeleteRow(r)
    <3>1. \A s \in Requests : Tame(s)
      BY <1>3, <2>2 DEF DeleteRow
    <3>2. \A l \in Kinds : Owned(l)' \subseteq Owned(l)
      BY <2>2, DeleteTyped DEF Owned
    <3> QED BY <3>1, <3>2, TameStays
  <2> HIDE DEF Goal
  <2> QED BY <1>7, <2>1, <2>2 DEF Deletes
<1>8. ASSUME NEW r \in Requests, Fails(r) PROVE Goal
  <2>1. UNCHANGED row /\ End(r)
    BY <1>8 DEF Fails
  <2> QED BY <1>2, <1>3, <2>1
<1>9. CASE UNCHANGED <<row, req>>
  BY <1>2, <1>9 DEF Tame
<1>10. CASE ResourcesNext
  <2>1. ASSUME NEW name, NEW records, Publish(name, records) PROVE Goal
    BY <1>9, <2>1 DEF Publish
  <2>2. ASSUME NEW p, ChangePlan(p) PROVE Goal
    BY <1>9, <2>2 DEF ChangePlan
  <2> QED BY <1>5, <1>6, <1>7, <1>8, <1>10, <2>1, <2>2 DEF ResourcesNext
<1>11. ASSUME NEW c \in Clients, Submits(c) PROVE Goal
  BY <1>9, <1>11, SubmitsTyped DEF resources
<1>12. CASE UNCHANGED vars
  BY <1>9, <1>12 DEF vars, resources
<1> QED BY <1>10, <1>11, <1>12 DEF Next

\* A plan's limit is exceeded by fewer rows than there are requests at the
\* same time, whatever is deleted and whichever plan comes next.
THEOREM Limits == Spec => []LimitSlack
<1>1. Init => Held /\ LimitSlack
  <2> SUFFICES ASSUME Init PROVE Held /\ LimitSlack
    OBVIOUS
  <2>1. /\ plan \in Plans /\ \A r \in Requests : req[r].pc = "start"
        /\ \A k \in {"domain", "key"} : Allows(Limit[plan][k], 0)
    BY EndedTyped DEF Init, ResourcesInit, Request
  <2>2. /\ Owned("domain") \subseteq {1} /\ Owned("key") \subseteq {1} /\ Owned("webhook") = {}
    BY DEF Init, ResourcesInit, Owned, Kinds
  <2>3. \A k : Creating(k) = {}
    BY <2>1 DEF Creating
  <2>4. Cardinality(Requests) \in Nat \ {0}
    BY ResourcesAssumption, FS_CardinalityType, FS_EmptySet
  <2>5. Held
    BY <2>1 DEF Held, At
  <2>6. ASSUME NEW k \in Kinds PROVE Slack(k)
    <3>1. Limit[plan][k] \in Nat \cup {Unlimited}
      BY <2>1, Constants
    <3>2. Cardinality(Creating(k)) = 0
      BY <2>3, FS_EmptySet
    <3>3. CASE k = "webhook"
      <4>1. Cardinality(Owned(k)) = 0
        BY <2>2, <3>3, FS_EmptySet
      <4> QED BY <2>1, <2>4, <3>1, <3>2, <4>1 DEF Slack
    <3>4. CASE k \in {"domain", "key"}
      <4>1. Cardinality(Owned(k)) <= 1 /\ Cardinality(Owned(k)) \in Nat
        <5>1. IsFiniteSet({1}) /\ Cardinality({1}) = 1
          BY FS_Singleton
        <5>2. Cardinality(Owned(k)) <= Cardinality({1})
          BY <2>2, <3>4, <5>1, FS_Subset
        <5> QED BY <5>1, <5>2, Sizes
      <4>2. Limit[plan][k] = Unlimited \/ 0 < Limit[plan][k]
        BY <2>1, <3>4 DEF Allows
      <4>3. \/ Limit[plan][k] = Unlimited
            \/ Cardinality(Owned(k)) + Cardinality(Creating(k)) < Limit[plan][k] + Cardinality(Requests)
        BY <2>4, <3>1, <3>2, <4>1, <4>2
      <4> QED BY <2>1, <4>3 DEF Slack
    <3> QED BY <3>3, <3>4 DEF Kinds
  <2> QED BY <2>5, <2>6 DEF LimitSlack, Slack
<1>2. Typed /\ Held /\ LimitSlack /\ [Next]_vars => Held' /\ LimitSlack'
  BY SlackNext
<1> QED BY <1>1, <1>2, TypedHolds, PTL DEF Spec
=============================================================================
