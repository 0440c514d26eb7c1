----------------------------- MODULE Submission -----------------------------
(***************************************************************************)
(* How e-mail is handed in: a client authenticates with an API key, once   *)
(* for an SMTP connection and with every request over HTTP, and the server *)
(* runs SendEmail for one recipient after the other.  The customer's       *)
(* domains, keys and plan change meanwhile; they are module Resources.     *)
(*                                                                         *)
(* Quota and suppression list only say yes or no here: the quota is module *)
(* Quota, what becomes of the task is module EmailPipeline.  MIME parts,   *)
(* headers and tracking are left out.                                      *)
(***************************************************************************)
EXTENDS Resources

CONSTANTS
  Clients,  \* each with one message to send
  Rcpts,    \* its recipients, in the order of its RCPT commands
  MaxData   \* bound: times a client sends the message

ASSUME SubmissionAssumption == Rcpts \in Nat \ {0} /\ MaxData \in Nat

VARIABLES
  client,  \* the sessions
  copies,  \* history: tasks enqueued, by client and recipient
  late     \* history: those enqueued under a key already revoked, by client and key

submission == <<client, copies, late>>
vars == <<resources, submission>>

----------------------------------------------------------------------------
\* key: of the session; tries: times the message was sent; rcpt: the recipient
\* being served; domain: the sender's, as found; answer: of the last try.
Session == [pc : {"closed", "ready", "domain", "plan", "quota", "insert", "enqueue"},
            via : {"smtp", "http"}, key : Ids \cup {None}, tries : 0..MaxData,
            rcpt : 1..Rcpts, domain : Ids \cup {None}, answer : {"none", "ok", "error"}]

Is(c, pc) == client[c].pc = pc
Go(c, pc) == client' = [client EXCEPT ![c].pc = pc]

\* A key that is active is a key that exists: nothing deactivates one.
Authenticate(c, via, k) ==
  /\ Is(c, "closed") /\ client[c].answer # "ok"
  /\ k \in Owned("key")
  /\ client' = [client EXCEPT ![c].pc = "ready", ![c].via = via, ![c].key = k]
  /\ UNCHANGED <<resources, copies, late>>

\* DATA, or the request itself: the client sends the message again as long as
\* it was not told that it was taken.
Data(c) ==
  /\ Is(c, "ready") /\ client[c].answer # "ok"
  /\ client[c].tries < MaxData
  /\ client' = [client EXCEPT ![c].pc = "domain", ![c].rcpt = 1, ![c].tries = @ + 1,
                              ![c].answer = "none"]
  /\ UNCHANGED <<resources, copies, late>>

\* The end of a request over HTTP, while SMTP goes on with the same session.
After(s, answer) ==
  [s EXCEPT !.answer = answer, !.domain = None,
            !.pc = IF s.via = "smtp" THEN "ready" ELSE "closed",
            !.key = IF s.via = "smtp" THEN s.key ELSE None]

\* A request over HTTP has one recipient.
Last(s) == IF s.via = "smtp" THEN Rcpts ELSE 1

\* Mutant of Further: off by one.
FurtherBeyond(s) == s.rcpt <= Last(s)

\* There is a recipient after the one being served.
Further(s) == s.rcpt < Last(s)

NextRcpt(s) == [s EXCEPT !.rcpt = @ + 1, !.pc = "domain"]

\* Mutant of Refuse: the other recipients are served nevertheless.
RefuseOne(c) ==
  client' = [client EXCEPT ![c] = IF Further(@) THEN NextRcpt(@) ELSE After(@, "error")]

\* An error for one recipient is the answer for all.
Refuse(c) == client' = [client EXCEPT ![c] = After(@, "error")]

SenderDomain(c, name) ==
  LET ds == {d \in Owned("domain") : row["domain"][d].name = name} IN
  /\ Is(c, "domain")
  /\ IF \E d \in ds : row["domain"][d].status = "verified"
     THEN \E d \in ds : client' = [client EXCEPT ![c].pc = "plan", ![c].domain = d]
     ELSE Refuse(c)
  /\ UNCHANGED <<resources, copies, late>>

\* Only the oldest domains of the customer, as many as his plan allows, send.
Rank(d) == Cardinality({e \in Owned("domain") : e < d})

EnsureDomainWithinPlanLimit(c) ==
  LET d == client[c].domain IN
  /\ Is(c, "plan")
  /\ IF \/ Limit[plan]["domain"] = Unlimited
        \/ d \in Owned("domain") /\ Allows(Limit[plan]["domain"], Rank(d))
     THEN Go(c, "quota") ELSE Refuse(c)
  /\ UNCHANGED <<resources, copies, late>>

CheckQuota(c) ==
  /\ Is(c, "quota")
  /\ Go(c, "insert") \/ Refuse(c)
  /\ UNCHANGED <<resources, copies, late>>

\* Mutant of MayRefer: the table of e-mails does not refer to the others.
MayReferAnyway(c) == TRUE

\* The log names the key and the domain, which must exist.
MayRefer(c) == client[c].key \in Owned("key") /\ client[c].domain \in Owned("domain")

CreateLog(c) ==
  /\ Is(c, "insert")
  /\ IF MayRefer(c) THEN Go(c, "enqueue") ELSE Refuse(c)
  /\ UNCHANGED <<resources, copies, late>>

\* The task is enqueued, and the next recipient is served; or the answer of
\* Redis is lost, and the e-mail, which will be sent, is refused.
Enqueue(c) ==
  LET k == client[c].key IN
  /\ Is(c, "enqueue")
  /\ copies' = [copies EXCEPT ![c][client[c].rcpt] = @ + 1]
  /\ late' = IF k \in Owned("key") THEN late ELSE [late EXCEPT ![c][k] = @ + 1]
  /\ \/ client' = [client EXCEPT ![c] = IF Further(@) THEN NextRcpt(@) ELSE After(@, "ok")]
     \/ Refuse(c)
  /\ UNCHANGED resources

\* A statement fails, Redis refuses the task without taking it, or the ten
\* seconds are over.
Errs(c) ==
  /\ client[c].pc \notin {"closed", "ready"}
  /\ Refuse(c)
  /\ UNCHANGED <<resources, copies, late>>

\* The connection is lost or the server dies; the client has no answer.
Breaks(c) ==
  /\ ~Is(c, "closed")
  /\ client' = [client EXCEPT ![c].pc = "closed", ![c].key = None, ![c].domain = None]
  /\ UNCHANGED <<resources, copies, late>>

----------------------------------------------------------------------------
Init ==
  /\ ResourcesInit
  /\ client = [c \in Clients |-> [pc |-> "closed", via |-> "smtp", key |-> None, tries |-> 0,
                                  rcpt |-> 1, domain |-> None, answer |-> "none"]]
  /\ copies = [c \in Clients |-> [i \in 1..Rcpts |-> 0]]
  /\ late = [c \in Clients |-> [k \in Ids |-> 0]]

Submits(c) ==
  \/ \E via \in {"smtp", "http"}, k \in Ids : Authenticate(c, via, k)
  \/ Data(c)
  \/ \E name \in Names : SenderDomain(c, name)
  \/ EnsureDomainWithinPlanLimit(c) \/ CheckQuota(c) \/ CreateLog(c) \/ Enqueue(c)
  \/ Errs(c) \/ Breaks(c)

Next ==
  \/ ResourcesNext /\ UNCHANGED submission
  \/ \E c \in Clients : Submits(c)

Spec == Init /\ [][Next]_vars

----------------------------------------------------------------------------
(* Properties.                                                             *)

\* Every variable keeps its type.
TypeOK ==
  /\ ResourcesTypes
  /\ client \in [Clients -> Session]
  /\ copies \in [Clients -> [1..Rcpts -> Nat]]
  /\ late \in [Clients -> [Ids -> Nat]]

\* A connection keeps the key it was authenticated with, and nothing looks the
\* key up again: revoked under it, the key still sends the e-mail that is logged
\* already, and no other, whatever the client asks for (RevokeKey, Data,
\* EnqueueEmail).
RevokedKeySendsOnce == \A c \in Clients, k \in Ids : late[c][k] <= 1

\* A try that fails in the middle has served the first recipients, which get
\* another copy with the next try, and none of the others; a message that was
\* taken has reached them all (over HTTP, its one), and nobody more often than
\* it was sent (Data).
ServedInOrder ==
  \A c \in Clients :
    /\ \A i, j \in 1..Rcpts : i < j => copies[c][i] >= copies[c][j]
    /\ copies[c][1] <= client[c].tries
    /\ client[c].answer = "ok" => copies[c][Last(client[c])] > 0
=============================================================================
