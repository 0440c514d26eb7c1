------------------------------ MODULE Resources ------------------------------
(***************************************************************************)
(* What a customer owns: sender domains, API keys and webhooks.  A plan    *)
(* limits how many; a request reads the limit, counts the rows, and then   *)
(* creates one, with a statement for each, so that requests interleave.    *)
(* Domains are verified against the DNS and deleted, keys are revoked.     *)
(*                                                                         *)
(* One customer is enough: no statement touches the rows of two.  A super  *)
(* admin, who is not limited, is left out, and so are the key material,    *)
(* the fields of a webhook and the audit record.                           *)
(***************************************************************************)
EXTENDS Naturals, FiniteSets

CONSTANTS
  Names,      \* domain names
  TestNames,  \* the names that are verified whatever the DNS says
  MaxRows,    \* bound: rows ever made of each kind
  Plans,
  Limit,      \* Limit[p][k]: how many of kind k plan p allows
  Unlimited,  \* the limit -1
  Requests,   \* bound: the requests of the run
  None        \* no row, no domain, no limit

Kinds == {"domain", "key", "webhook"}
Ids   == 1..MaxRows

ASSUME ResourcesAssumption ==
  /\ MaxRows \in Nat
  /\ IsFiniteSet(Requests) /\ Requests # {}
  /\ TestNames \subseteq Names
  /\ Unlimited \notin Nat
  /\ Limit \in [Plans -> [Kinds -> Nat \cup {Unlimited}]]

VARIABLES
  plan,   \* of the customer's subscription
  made,   \* rows ever made of each kind; they are numbered, domains by created_at
  row,    \* tables domains, api_keys and webhooks
  dns,    \* the records published under a name
  found,  \* history: domains whose three records have been found
  req     \* local state of each request

resources == <<plan, made, row, dns, found, req>>

----------------------------------------------------------------------------
Verdict == {"pending", "verified", "failed"}
Domain  == [name : Names, status : Verdict]
Key     == [domain : Ids \cup {None}]
Hook    == {"webhook"}

ASSUME RowAssumption == None \notin Domain \cup Key \cup Hook \cup Ids

Owned(k)      == {i \in Ids : row[k][i] # None}
HasName(name) == \E d \in Owned("domain") : row["domain"][d].name = name

\* dkim: the domain whose key is published; policy: SPF and DMARC are, too.
Records == [dkim : Ids \cup {None}, policy : BOOLEAN]

Ops  == {"verify", "delete"}
Step == {"start", "count", "check", "insert", "lookup", "write", "reread", "delete", "done"}

\* arg: the name of a new domain, the domain a new key is bound to, or the row
\* meant; limit: as read; id: the number of the new domain; status: as found.
Request == [op : Kinds \cup Ops \cup {"none"}, pc : Step, kind : Kinds,
            arg : Names \cup Ids \cup {None}, limit : Nat \cup {Unlimited, None},
            id : Ids \cup {None}, status : Verdict]

Ended == [op |-> "none", pc |-> "done", kind |-> "domain", arg |-> None,
          limit |-> None, id |-> None, status |-> "pending"]

At(r, op, pc) == req[r].op = op /\ req[r].pc = pc
Goto(r, pc)   == req' = [req EXCEPT ![r].pc = pc]
End(r)        == req' = [req EXCEPT ![r] = Ended]
Begin(r, q)   == req[r].pc = "start" /\ req' = [req EXCEPT ![r] = q]

\* A handler uses the row it did not find: the API server dies, and every
\* request in flight with it.
Panic == req' = [q \in Requests |-> IF req[q].pc = "start" THEN req[q] ELSE Ended]

----------------------------------------------------------------------------
(* AddDomain, CreateKey, CreateWebhook.                                    *)

ReadLimit(r, k, arg) ==
  /\ Begin(r, [Ended EXCEPT !.op = k, !.pc = "count", !.arg = arg,
                            !.limit = Limit[plan][k]])
  /\ UNCHANGED <<plan, made, row, dns, found>>

\* Mutant of Allows: off by one.
AllowsOneMore(limit, n) == limit = Unlimited \/ n <= limit

Allows(limit, n) == limit = Unlimited \/ n < limit

Count(r, k) ==
  /\ At(r, k, "count")
  /\ IF Allows(req[r].limit, Cardinality(Owned(k))) THEN Goto(r, "check") ELSE End(r)
  /\ UNCHANGED <<plan, made, row, dns, found>>

NewId(k) == made[k] + 1
Number(k) ==
  /\ made[k] < MaxRows
  /\ made' = [made EXCEPT ![k] = @ + 1]

\* The domain gets its created_at here, before it is inserted.
CheckName(r) ==
  /\ At(r, "domain", "check")
  /\ IF HasName(req[r].arg)
     THEN End(r) /\ UNCHANGED made
     ELSE /\ Number("domain")
          /\ req' = [req EXCEPT ![r].pc = "insert", ![r].id = NewId("domain")]
  /\ UNCHANGED <<plan, row, dns, found>>

Insert(k, i, value) == row' = [row EXCEPT ![k][i] = value]

\* The table has one row for a customer and a name.
InsertDomain(r) ==
  /\ At(r, "domain", "insert")
  /\ IF HasName(req[r].arg) THEN UNCHANGED row
     ELSE Insert("domain", req[r].id, [name |-> req[r].arg, status |-> "pending"])
  /\ End(r)
  /\ UNCHANGED <<plan, made, dns, found>>

Bindable(d) == d = None \/ d \in Owned("domain")

CheckBinding(r) ==
  /\ At(r, "key", "check")
  /\ IF Bindable(req[r].arg) THEN Goto(r, "insert") ELSE End(r)
  /\ UNCHANGED <<plan, made, row, dns, found>>

\* A key cannot refer to a domain that has been deleted since.
InsertKey(r) ==
  /\ At(r, "key", "insert")
  /\ IF Bindable(req[r].arg)
     THEN Number("key") /\ Insert("key", NewId("key"), [domain |-> req[r].arg])
     ELSE UNCHANGED <<made, row>>
  /\ End(r)
  /\ UNCHANGED <<plan, dns, found>>

InsertWebhook(r) ==
  /\ At(r, "webhook", "check")
  /\ Number("webhook") /\ Insert("webhook", NewId("webhook"), "webhook")
  /\ End(r)
  /\ UNCHANGED <<plan, dns, found>>

----------------------------------------------------------------------------
(* VerifyDomain.                                                           *)

FindDomain(r, d) ==
  /\ d \in Owned("domain")
  /\ Begin(r, [Ended EXCEPT !.op = "verify", !.pc = "lookup", !.arg = d])
  /\ UNCHANGED <<plan, made, row, dns, found>>

\* Mutant of StatusOf: two of the three records are enough.
StatusOfTwo(test, spf, dkim, dmarc) ==
  CASE test \/ (spf /\ dmarc) -> "verified"
    [] spf \/ dkim \/ dmarc   -> "pending"
    [] OTHER                  -> "failed"

StatusOf(test, spf, dkim, dmarc) ==
  CASE test \/ (spf /\ dkim /\ dmarc) -> "verified"
    [] spf \/ dkim \/ dmarc           -> "pending"
    [] OTHER                          -> "failed"

\* A record that is published may still not be found: a failed lookup counts
\* as a missing record.  The domain is read a second time before.
VerifyDNS(r) ==
  LET d == req[r].arg
      name == row["domain"][d].name
  IN
  /\ At(r, "verify", "lookup")
  /\ IF d \notin Owned("domain") THEN End(r) /\ UNCHANGED found
     ELSE \E spf, dkim, dmarc \in BOOLEAN :
       /\ spf \/ dmarc => dns[name].policy
       /\ dkim => dns[name].dkim = d
       /\ req' = [req EXCEPT ![r].pc = "write",
                    ![r].status = StatusOf(name \in TestNames, spf, dkim, dmarc)]
       /\ found' = IF spf /\ dkim /\ dmarc THEN found \cup {d} ELSE found
  /\ UNCHANGED <<plan, made, row, dns>>

UpdateVerificationStatus(r) ==
  LET d == req[r].arg IN
  /\ At(r, "verify", "write")
  /\ row' = IF d \in Owned("domain")
            THEN [row EXCEPT !["domain"][d].status = req[r].status] ELSE row
  /\ Goto(r, "reread")
  /\ UNCHANGED <<plan, made, dns, found>>

Verified(r) ==
  /\ At(r, "verify", "reread")
  /\ IF req[r].arg \in Owned("domain") THEN End(r) ELSE Panic
  /\ UNCHANGED <<plan, made, row, dns, found>>

----------------------------------------------------------------------------
(* DeleteDomain, RevokeKey, DeleteWebhook.                                 *)

FindRow(r, k, i) ==
  /\ i \in Owned(k)
  /\ Begin(r, [Ended EXCEPT !.op = "delete", !.pc = "delete", !.kind = k, !.arg = i])
  /\ UNCHANGED <<plan, made, row, dns, found>>

\* The keys bound to a deleted domain are bound to none.
Unbound(d, key) == IF key # None /\ key.domain = d THEN [domain |-> None] ELSE key

DeleteRow(r) ==
  LET k == req[r].kind  i == req[r].arg IN
  /\ At(r, "delete", "delete")
  /\ row' = IF k = "domain"
            THEN [row EXCEPT !["domain"][i] = None,
                             !["key"] = [j \in Ids |-> Unbound(i, row["key"][j])]]
            ELSE [row EXCEPT ![k][i] = None]
  /\ End(r)
  /\ UNCHANGED <<plan, made, dns, found>>

----------------------------------------------------------------------------
\* The database is down, or the API server dies, during a request.
Fails(r) ==
  /\ req[r].pc \notin {"start", "done"}
  /\ End(r)
  /\ UNCHANGED <<plan, made, row, dns, found>>

\* The customer publishes records, or removes them; those of a test name do
\* not matter.
Publish(name, records) ==
  /\ dns' = [dns EXCEPT ![name] = records]
  /\ UNCHANGED <<plan, made, row, found, req>>

\* A payment, or the end of a paid period, changes the plan.
ChangePlan(p) ==
  /\ plan' = p
  /\ UNCHANGED <<made, row, dns, found, req>>

NoRecords == [dkim |-> None, policy |-> FALSE]

\* The customer has a domain and a key already, which the plan allows.
ResourcesInit ==
  /\ plan \in {p \in Plans : Allows(Limit[p]["domain"], 0) /\ Allows(Limit[p]["key"], 0)}
  /\ MaxRows > 0
  /\ made = [k \in Kinds |-> IF k = "webhook" THEN 0 ELSE 1]
  /\ \E name \in Names : row =
       [k \in Kinds |-> [i \in Ids |->
          CASE k = "domain" /\ i = 1 -> [name |-> name, status |-> "pending"]
            [] k = "key" /\ i = 1    -> [domain |-> None]
            [] OTHER                 -> None]]
  /\ dns = [n \in Names |-> NoRecords]
  /\ found = {}
  /\ req = [r \in Requests |-> [Ended EXCEPT !.pc = "start"]]

Creates(r) ==
  \/ \E name \in Names : ReadLimit(r, "domain", name)
  \/ \E d \in Ids \cup {None} : ReadLimit(r, "key", d)
  \/ ReadLimit(r, "webhook", None)
  \/ \E k \in Kinds : Count(r, k)
  \/ CheckName(r) \/ InsertDomain(r) \/ CheckBinding(r) \/ InsertKey(r) \/ InsertWebhook(r)

Verifies(r) ==
  (\E d \in Ids : FindDomain(r, d)) \/ VerifyDNS(r) \/ UpdateVerificationStatus(r) \/ Verified(r)

Deletes(r) == (\E k \in Kinds, i \in Ids : FindRow(r, k, i)) \/ DeleteRow(r)

ResourcesNext ==
  \/ \E r \in Requests : Creates(r) \/ Verifies(r) \/ Deletes(r) \/ Fails(r)
  \/ \E name \in Names \ TestNames, records \in Records : Publish(name, records)
  \/ \E p \in Plans : ChangePlan(p)

----------------------------------------------------------------------------
(* Properties.                                                             *)

ResourcesTypes ==
  /\ plan \in Plans
  /\ made \in [Kinds -> 0..MaxRows]
  /\ DOMAIN row = Kinds
  /\ row["domain"] \in [Ids -> Domain \cup {None}]
  /\ row["key"] \in [Ids -> Key \cup {None}]
  /\ row["webhook"] \in [Ids -> Hook \cup {None}]
  /\ dns \in [Names -> Records]
  /\ found \subseteq Ids
  /\ req \in [Requests -> Request]

Creating(k) == {r \in Requests : req[r].op = k /\ req[r].pc \in {"check", "insert"}}

\* Requests that count at the same time exceed a plan's limit, but only by the
\* number of the others, whatever is deleted and whichever plan comes next
\* (AddDomain, CreateKey, CreateWebhook: the count and the INSERT are apart).
LimitSlack ==
  \A k \in Kinds : \E p \in Plans :
    \/ Limit[p][k] = Unlimited
    \/ Cardinality(Owned(k)) + Cardinality(Creating(k)) < Limit[p][k] + Cardinality(Requests)

\* A domain is verified by its own DKIM key, not by what a deleted domain of
\* the same name has left in the DNS, and not after it by a slower request
\* for that one (VerifyDNS, UpdateVerificationStatus).
VerifiedByOwnRecords ==
  \A d \in Owned("domain") :
    row["domain"][d].status = "verified" => d \in found \/ row["domain"][d].name \in TestNames

=============================================================================
