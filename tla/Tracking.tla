------------------------------ MODULE Tracking ------------------------------
(***************************************************************************)
(* Open and click tracking: SendEmail puts a pixel into the e-mails of     *)
(* customers who have open tracking and rewrites the links for click       *)
(* tracking (module Features tells who has).  Each visit of the pixel or   *)
(* of a link starts a goroutine that counts it and dispatches an event     *)
(* with the count, as long as the log of the e-mail is kept.               *)
(*                                                                         *)
(* The goroutine asks the handler's context, which is given back as soon   *)
(* as the handler has answered: it may find none, and the process dies.    *)
(* E-mails that are plain text ask for no feature and are left out.        *)
(***************************************************************************)
EXTENDS Features

CONSTANT Visits  \* bound: visits of pixels and links

ASSUME TrackingAssumption == None \notin Checks /\ None \notin [Keys -> Nat]

VARIABLES
  count,  \* opened_count and clicked_count of the logs
  visit   \* the goroutines

vars == <<features, count, visit>>

----------------------------------------------------------------------------
\* nth: history, which visit this was; says: the count in the event.
Visit == [pc : {"start", "count", "read", "told", "end"}, mail : Checks \cup {None},
          kind : Keys, nth : Nat, says : Nat]

\* The log is inserted with both counts 0; or the e-mail is refused, and the
\* next one is handed in.
InsertLog(c) ==
  /\ At(c, "insert")
  /\ \/ Goto(c, "end") /\ count' = [count EXCEPT ![c] = [f \in Keys |-> 0]]
     \/ check' = [check EXCEPT ![c] = Fresh] /\ UNCHANGED count
  /\ UNCHANGED <<rows, cache, edits, calm, changes, visit>>

\* The next e-mail; nobody asks for the one before any more.
NextMail(c) ==
  /\ At(c, "end") /\ \A v \in Visits : visit[v].mail # c
  /\ check' = [check EXCEPT ![c] = Fresh]
  /\ count' = [count EXCEPT ![c] = None]
  /\ UNCHANGED <<rows, cache, edits, calm, changes, visit>>

CleanupOldLogs(c) ==
  /\ count[c] # None
  /\ count' = [count EXCEPT ![c] = None]
  /\ UNCHANGED <<features, visit>>

\* The pixel is in the e-mail, or its links are rewritten, if it was granted.
Track(v, c, f) ==
  /\ visit[v].pc = "start"
  /\ At(c, "end") /\ f \in check[c].granted
  /\ visit' = [visit EXCEPT ![v].pc = "count", ![v].mail = c, ![v].kind = f]
  /\ UNCHANGED <<features, count>>

\* Mutant of Says: the count is taken to be the one before the visit.
SaysRead(n) == n

Says(n) == n + 1

IncrementCount(v) ==
  LET c == visit[v].mail  f == visit[v].kind IN
  /\ visit[v].pc = "count"
  /\ IF count[c] # None
     THEN /\ count' = [count EXCEPT ![c][f] = @ + 1]
          /\ visit' = [visit EXCEPT ![v].pc = "read", ![v].nth = count[c][f] + 1]
     ELSE visit' = [visit EXCEPT ![v].pc = "end"] /\ UNCHANGED count
  /\ UNCHANGED features

\* The log is read again, for its owner and for the count.
ReadAndDispatch(v) ==
  LET c == visit[v].mail  f == visit[v].kind IN
  /\ visit[v].pc = "read"
  /\ visit' = [visit EXCEPT ![v] = IF count[c] = None THEN [@ EXCEPT !.pc = "end"]
                 ELSE [@ EXCEPT !.pc = "told", !.says = Says(count[c][f])]]
  /\ UNCHANGED <<features, count>>

Fails(v) ==
  /\ visit[v].pc \in {"count", "read"}
  /\ visit' = [visit EXCEPT ![v].pc = "end"]
  /\ UNCHANGED <<features, count>>

\* The process dies with everything it was doing.
Dies ==
  /\ check' = [c \in Checks |-> IF At(c, "end") THEN check[c] ELSE Fresh]
  /\ update' = [u \in Updates |-> IF update[u].pc = "disable" \/ update[u].todo # {}
                                  THEN [update[u] EXCEPT !.pc = "failed"] ELSE update[u]]
  /\ visit' = [v \in Visits |-> IF visit[v].pc \in {"count", "read"}
                                THEN [visit[v] EXCEPT !.pc = "end"] ELSE visit[v]]
  /\ UNCHANGED <<rows, cache, last, rivals, calm, changes, count>>

----------------------------------------------------------------------------
Init ==
  /\ FeaturesInit
  /\ count = [c \in Checks |-> None]
  /\ visit = [v \in Visits |-> [pc |-> "start", mail |-> None, kind |-> Open,
                                nth |-> 0, says |-> 0]]

Tracks(v) ==
  \/ \E c \in Checks, f \in Keys : Track(v, c, f)
  \/ IncrementCount(v) \/ ReadAndDispatch(v) \/ Fails(v)

Next ==
  \/ FeaturesNext /\ UNCHANGED <<count, visit>>
  \/ \E c \in Checks : InsertLog(c) \/ NextMail(c) \/ CleanupOldLogs(c)
  \/ \E v \in Visits : Tracks(v)
  \/ Dies

Spec == Init /\ [][Next]_vars

----------------------------------------------------------------------------
(* Properties.                                                             *)

\* Every variable keeps its type.
TypeOK ==
  /\ FeaturesTypes
  /\ count \in [Checks -> [Keys -> Nat] \cup {None}]
  /\ visit \in [Visits -> Visit]

\* The count in an event is at least one too many for the visit it tells of,
\* and one more than the visits there have been at most: the log is read after
\* it was incremented, and one is added again (TrackOpen, TrackClick).
EventsRunAhead ==
  \A v \in Visits : visit[v].pc = "told" =>
    /\ visit[v].says > visit[v].nth
    /\ count[visit[v].mail] # None => visit[v].says <= count[visit[v].mail][visit[v].kind] + 1
=============================================================================
