---------------------------- MODULE Idempotency ----------------------------
(***************************************************************************)
(* The Idempotency-Key protocol of the HTTP API: IdempotencyMiddleware     *)
(* (src/backend/src/api/idempotency_middleware.py) around a financial      *)
(* handler, and the after_flush hook that marks the claim inside the       *)
(* business transaction (src/backend/src/core/idempotency.py).             *)
(*                                                                         *)
(* One row of idempotency_keys is modelled: claims of different            *)
(* (key, tenant, method, path) tuples never touch each other.  A request   *)
(* is one HTTP delivery carrying that key; retries and duplicates are      *)
(* further requests.  Every SQL statement or commit of the code is one     *)
(* step, with PostgreSQL READ COMMITTED semantics: an uncommitted UPDATE   *)
(* of the row is invisible to readers and blocks other writers.            *)
(***************************************************************************)
EXTENDS FiniteSets

CONSTANTS
    Requests,          \* HTTP deliveries that carry the key
    Unkeyed,           \* deliveries of a financial mutation without the header
    Payloads,          \* request bodies (what request_hash tells apart)
    Payload,           \* the body of each request
    Resuming,          \* bodies whose handler rolls its flushed work back and goes on
    NoRow,             \* absence of the row, and of a lock holder
    TimelyOwners,      \* TRUE: a claim only turns stale once its owner is dead
    ExclusiveReclaim,  \* TRUE: at most one retry at a time reclaims a stale row
    CleanFailures      \* TRUE: no handler answers an error after it has committed

ASSUME ConstantsAssumption ==
    /\ Unkeyed \cap Requests = {}
    /\ Payload \in [Requests -> Payloads]
    /\ Resuming \subseteq Payloads
    /\ NoRow \notin Requests
    /\ TimelyOwners \in BOOLEAN
    /\ ExclusiveReclaim \in BOOLEAN
    /\ CleanFailures \in BOOLEAN

VARIABLES
    row,        \* the committed idempotency_keys row, or NoRow
    rowLock,    \* the request whose open transaction has updated the row, or NoRow
    pc,         \* where each request is in dispatch()
    executed,   \* requests whose business transaction has committed
    nested,     \* requests that re-entered dispatch() after reclaiming a row
    reply       \* what each request was answered

vars == <<row, rowLock, pc, executed, nested, reply>>

Deliveries == Requests \cup Unkeyed

Status == {"PROCESSING", "COMMITTED", "COMPLETED"}

\* Row of IdempotencyRecord.  "by" is history (the request that inserted it):
\* the table has no such column, and no statement of the code reads it.
Row == [status : Status, hash : Payloads, response : {"none", "2xx", "4xx"},
        stale : BOOLEAN, by : Requests]

ASSUME NoRowAssumption == NoRow \notin Row

PC == {"new", "conflict", "reclaim", "claimed", "marked", "resumed",
       "committed", "failed4xx", "failed5xx", "raised", "done", "crashed"}

Replies == {"none", "2xx", "4xx", "5xx", "replay", "inProgress", "mismatch",
            "keyRequired", "notExecuted"}

TypeOK ==
    /\ row \in Row \cup {NoRow}
    /\ rowLock \in Requests \cup {NoRow}
    /\ pc \in [Deliveries -> PC]
    /\ executed \subseteq Requests
    /\ nested \subseteq Requests
    /\ reply \in [Deliveries -> Replies]

Init ==
    /\ row = NoRow
    /\ rowLock = NoRow
    /\ pc = [r \in Deliveries |-> "new"]
    /\ executed = {}
    /\ nested = {}
    /\ reply = [r \in Deliveries |-> "none"]

Goto(r, l) == pc' = [pc EXCEPT ![r] = l]

Answer(r, a) ==
    /\ Goto(r, "done")
    /\ reply' = [reply EXCEPT ![r] = a]

Present(status) == row # NoRow /\ row.status = status

(***************************************************************************)
(* dispatch(), first half: claim the key or answer from the existing row.  *)
(***************************************************************************)

\* No header on a path that _requires_mandatory_key: 428, nothing executed.
RejectUnkeyed(r) ==
    /\ r \in Unkeyed
    /\ pc[r] = "new"
    /\ Answer(r, "keyRequired")
    /\ UNCHANGED <<row, rowLock, executed, nested>>

NewClaim(r) == [status |-> "PROCESSING", hash |-> Payload[r], response |-> "none",
                stale |-> FALSE, by |-> r]

\* INSERT .. ON CONFLICT DO NOTHING, rowcount = 1: the request owns the claim.
Claim(r) ==
    /\ pc[r] = "new"
    /\ row = NoRow
    /\ row' = NewClaim(r)
    /\ Goto(r, "claimed")
    /\ UNCHANGED <<rowLock, executed, nested, reply>>

\* The same INSERT with rowcount = 0; the SELECT is a later statement.
Conflict(r) ==
    /\ pc[r] = "new"
    /\ row # NoRow
    /\ Goto(r, "conflict")
    /\ UNCHANGED <<row, rowLock, executed, nested, reply>>

\* SELECT finds a PROCESSING row older than IDEMPOTENCY_STALE_SECONDS.
InspectStale(r) ==
    /\ pc[r] = "conflict"
    /\ Present("PROCESSING") /\ row.stale
    /\ ExclusiveReclaim => \A s \in Requests : pc[s] # "reclaim"
    /\ Goto(r, "reclaim")
    /\ UNCHANGED <<row, rowLock, executed, nested, reply>>

\* Mutant: request_hash is not compared.
AnswerWithoutHash(r) ==
    IF row = NoRow \/ Present("PROCESSING") THEN "inProgress"
    ELSE IF row.response = "none" THEN "replay" ELSE row.response

\* What the row read by the SELECT answers, when it is not stale.
AnswerFor(r) ==
    CASE row = NoRow                                   -> "inProgress"
      [] Present("PROCESSING")                         -> "inProgress"
      [] row # NoRow /\ row.status # "PROCESSING" /\ row.hash # Payload[r] -> "mismatch"
      [] OTHER -> IF row.response = "none" THEN "replay" ELSE row.response

InspectAnswer(r) ==
    /\ pc[r] = "conflict"
    /\ ~(Present("PROCESSING") /\ row.stale)
    /\ Answer(r, AnswerFor(r))
    /\ UNCHANGED <<row, rowLock, executed, nested>>

\* DELETE .. AND status='PROCESSING' (blocks on an open UPDATE, then re-reads
\* the status), commit, and dispatch() again, inside the outer call's try.
Reclaim(r) ==
    /\ pc[r] = "reclaim"
    /\ rowLock = NoRow
    /\ row' = IF Present("PROCESSING") THEN NoRow ELSE row
    /\ nested' = nested \cup {r}
    /\ Goto(r, "new")
    /\ UNCHANGED <<rowLock, executed, reply>>

\* A statement of the claim phase fails: 503 IDEMPOTENCY_UNAVAILABLE, "The
\* request was NOT executed".  A lost commit acknowledgement leaves the row.
Unavailable(r) ==
    /\ pc[r] \in {"new", "conflict", "reclaim"}
    /\ \/ row' = row
       \/ pc[r] = "new" /\ row = NoRow /\ row' = NewClaim(r)
    /\ Answer(r, "notExecuted")
    /\ UNCHANGED <<rowLock, executed, nested>>

(***************************************************************************)
(* The handler and its business transaction.                               *)
(***************************************************************************)

\* First flush of the session: the hook's UPDATE matches the row by key alone,
\* whoever inserted it and whatever its status.  The session is flagged as marked
\* (_idem_marked), so later flushes leave the row alone.
Mark(r) ==
    /\ pc[r] = "claimed"
    /\ rowLock = NoRow
    /\ row # NoRow
    /\ rowLock' = r
    /\ Goto(r, "marked")
    /\ UNCHANGED <<row, executed, nested, reply>>

\* rowcount = 0: IdempotencyClaimLostError aborts the business transaction.
\* It propagates, or a handler's "except Exception" turns it into a 500.
ClaimLost(r) ==
    /\ pc[r] = "claimed"
    /\ row = NoRow
    /\ \E l \in {"raised", "failed5xx"} : Goto(r, l)
    /\ UNCHANGED <<row, rowLock, executed, nested, reply>>

\* The handler rolls back what it has flushed, the marking with it, and goes on in
\* the same session: sync_push over a record it already has, an import over a line
\* that fails in its savepoint.  Rolling back does not clear the flag.
Resume(r) ==
    /\ pc[r] = "marked"
    /\ Payload[r] \in Resuming
    /\ rowLock' = NoRow
    /\ Goto(r, "resumed")
    /\ UNCHANGED <<row, executed, nested, reply>>

\* db.commit() of such a handler: its financial rows become visible, and no flush
\* has marked the row since the rollback or would notice that it is gone.
CommitResumed(r) ==
    /\ pc[r] = "resumed"
    /\ executed' = executed \cup {r}
    /\ Goto(r, "committed")
    /\ UNCHANGED <<row, rowLock, nested, reply>>

\* Mutant: the hook is not installed, the commit leaves the claim PROCESSING.
CommitUnmarked(r) ==
    /\ pc[r] = "marked"
    /\ rowLock' = NoRow
    /\ executed' = executed \cup {r}
    /\ Goto(r, "committed")
    /\ UNCHANGED <<row, nested, reply>>

\* db.commit(): the financial rows and the COMMITTED marker become visible together.
Commit(r) ==
    /\ pc[r] = "marked"
    /\ row' = [row EXCEPT !.status = "COMMITTED"]
    /\ rowLock' = NoRow
    /\ executed' = executed \cup {r}
    /\ Goto(r, "committed")
    /\ UNCHANGED <<nested, reply>>

\* Mutant: the session is not closed on failure and keeps its row lock.
RollbackKeepsLock(r) ==
    /\ pc[r] \in {"claimed", "marked", "resumed"}
    /\ \E l \in {"failed4xx", "failed5xx", "raised"} : Goto(r, l)
    /\ UNCHANGED <<row, rowLock, executed, nested, reply>>

\* The handler refuses or fails before its commit; the transaction rolls back.
Rollback(r) ==
    /\ pc[r] \in {"claimed", "marked", "resumed"}
    /\ \E l \in {"failed4xx", "failed5xx", "raised"} : Goto(r, l)
    /\ rowLock' = IF rowLock = r THEN NoRow ELSE rowLock
    /\ UNCHANGED <<row, executed, nested, reply>>

\* Mutant: a failure after the commit is turned into a 400.
FailAs400(r) ==
    /\ pc[r] = "committed"
    /\ Goto(r, "failed4xx")
    /\ UNCHANGED <<row, rowLock, executed, nested, reply>>

\* A statement after the commit fails: the exception propagates, or the handler
\* rewrites it to a 422 or a 500, as create_expense does around db.refresh.
FailAfterCommit(r) ==
    /\ pc[r] = "committed"
    /\ \/ Goto(r, "raised")
       \/ ~CleanFailures /\ \E l \in {"failed4xx", "failed5xx"} : Goto(r, l)
    /\ UNCHANGED <<row, rowLock, executed, nested, reply>>

(***************************************************************************)
(* dispatch(), second half: record the outcome on the row.                 *)
(***************************************************************************)

\* Mutant: server errors are stored like any other response.
StoreAnyResponse(r) ==
    /\ pc[r] \in {"committed", "failed4xx", "failed5xx"}
    /\ rowLock = NoRow
    /\ LET code == CASE pc[r] = "committed" -> "2xx"
                     [] pc[r] = "failed4xx" -> "4xx"
                     [] pc[r] = "failed5xx" -> "5xx" IN
       /\ row' = IF row = NoRow THEN NoRow
                 ELSE [row EXCEPT !.status = "COMPLETED", !.response = code]
       /\ Answer(r, code)
    /\ UNCHANGED <<rowLock, executed, nested>>

\* Response below 500: UPDATE to COMPLETED with the response, by key alone.
StoreResponse(r) ==
    /\ pc[r] \in {"committed", "failed4xx"}
    /\ rowLock = NoRow
    /\ LET code == IF pc[r] = "committed" THEN "2xx" ELSE "4xx" IN
       /\ row' = IF row = NoRow THEN NoRow
                 ELSE [row EXCEPT !.status = "COMPLETED", !.response = code]
       /\ Answer(r, code)
    /\ UNCHANGED <<rowLock, executed, nested>>

\* Response 500 or above: DELETE by key, whatever the status.
DropOn5xx(r) ==
    /\ pc[r] = "failed5xx"
    /\ rowLock = NoRow
    /\ row' = NoRow
    /\ Answer(r, "5xx")
    /\ UNCHANGED <<rowLock, executed, nested>>

\* What an exception out of dispatch() answers: a nested dispatch() runs inside
\* the outer call's try, whose except clause answers 503 "NOT executed".
RaisedReply(r) == IF r \in nested THEN "notExecuted" ELSE "5xx"

\* Mutant: the cleanup deletes the row whatever its status.
CleanupAnyStatus(r) ==
    /\ pc[r] = "raised"
    /\ rowLock = NoRow
    /\ row' = NoRow
    /\ Answer(r, RaisedReply(r))
    /\ UNCHANGED <<rowLock, executed, nested>>

\* Exception out of call_next: DELETE .. AND status='PROCESSING', then re-raise.
CleanupOnRaise(r) ==
    /\ pc[r] = "raised"
    /\ rowLock = NoRow
    /\ row' = IF Present("PROCESSING") THEN NoRow ELSE row
    /\ Answer(r, RaisedReply(r))
    /\ UNCHANGED <<rowLock, executed, nested>>

\* The statement that should record the outcome fails itself: the row stays.
RecordFails(r) ==
    /\ pc[r] \in {"committed", "failed4xx", "failed5xx", "raised"}
    /\ Answer(r, RaisedReply(r))
    /\ UNCHANGED <<row, rowLock, executed, nested>>

(***************************************************************************)
(* The environment: time passes, processes die.                            *)
(***************************************************************************)

\* The row's age passes IDEMPOTENCY_STALE_SECONDS.
GrowStale ==
    /\ Present("PROCESSING") /\ ~row.stale
    /\ TimelyOwners => pc[row.by] \in {"crashed", "done"}
    /\ row' = [row EXCEPT !.stale = TRUE]
    /\ UNCHANGED <<rowLock, pc, executed, nested, reply>>

\* The server process dies: its open transaction rolls back, the row stays.
Crash(r) ==
    /\ pc[r] \notin {"new", "done", "crashed"}
    /\ Goto(r, "crashed")
    /\ rowLock' = IF rowLock = r THEN NoRow ELSE rowLock
    /\ UNCHANGED <<row, executed, nested, reply>>

\* The steps the server takes for request r when nothing goes wrong.
Serve(r) ==
    \/ Claim(r) \/ Conflict(r) \/ InspectStale(r) \/ InspectAnswer(r) \/ Reclaim(r)
    \/ Mark(r) \/ ClaimLost(r) \/ Commit(r) \/ CommitResumed(r)
    \/ StoreResponse(r) \/ DropOn5xx(r) \/ CleanupOnRaise(r)

\* The steps that may happen to it.
Fail(r) ==
    \/ Unavailable(r) \/ Resume(r) \/ Rollback(r) \/ FailAfterCommit(r) \/ RecordFails(r)
    \/ Crash(r)

Next ==
    \/ \E r \in Requests : Serve(r) \/ Fail(r)
    \/ \E r \in Unkeyed : RejectUnkeyed(r)
    \/ GrowStale

\* Each delivery is served by a thread of its own, so no request starves another;
\* no failure is assumed to happen.
Fairness ==
    /\ \A r \in Requests : WF_vars(Serve(r))
    /\ \A r \in Unkeyed : WF_vars(RejectUnkeyed(r))

Spec == Init /\ [][Next]_vars

FairSpec == Spec /\ Fairness

(***************************************************************************)
(* Properties.                                                             *)
(***************************************************************************)

\* The module docstring of core/idempotency.py: "a response-loss retry can
\* never execute the financial mutation twice".
AtMostOnce == \A r, s \in executed : r = s

\* _committed_replay_response and _stored_response: a request that is told the
\* work was done without running it is told the truth, about its own payload.
ReplayIsTruthful ==
    \A r \in Requests :
        reply[r] \in {"2xx", "replay"} =>
            \E e \in executed : Payload[e] = Payload[r]

\* The comment on IDEMPOTENCY_STALE_SECONDS: a claim that is still PROCESSING
\* belongs to a request that has not committed, so reclaiming it is safe.  Exactly
\* the claims of handlers that go on after a rollback are excepted: theirs stays
\* PROCESSING over the commit.
ProcessingNeverCommitted ==
    Present("PROCESSING") /\ Payload[row.by] \notin Resuming => row.by \notin executed

\* A client is never told its request failed with a 4xx by a row whose mutation
\* was executed: the outcome on a COMPLETED row agrees with the ledger.
StoredOutcomeAgrees ==
    Present("COMPLETED") => (row.response = "2xx" <=> row.by \in executed)

\* What a delivery is told without being run, and what the row keeps of the one that
\* was, agree with what was executed.
OutcomesAgree == ReplayIsTruthful /\ StoredOutcomeAgrees

\* No statement erases the marker of executed work: once the row records a
\* commit it stays, so every later retry is answered and not executed.
MarkerIsPermanent ==
    [][executed # {} /\ row # NoRow /\ row.status # "PROCESSING" =>
         row' # NoRow /\ row'.status # "PROCESSING"]_vars

\* Every delivery is answered, unless its process dies; no lock or stale row
\* makes requests wait for each other for ever.
EveryRequestEnds ==
    \A r \in Deliveries : <>(pc[r] \in {"done", "crashed"})

----------------------------------------------------------------------------
(***************************************************************************)
(* Inductive invariants.  TypeInv and ProcessingInv need no assumption on  *)
(* the environment; IInv is the one behind AtMostOnce, under the four      *)
(* assumptions.                                                            *)
(***************************************************************************)

Assumptions == TimelyOwners /\ ExclusiveReclaim /\ CleanFailures /\ Resuming = {}

\* The open transaction that has updated the row is that of a marked request,
\* and nobody can delete the row under it.
LockIsOwners ==
    /\ \A r \in Requests : rowLock = r <=> pc[r] = "marked"
    /\ rowLock # NoRow => row # NoRow

TypeInv == TypeOK /\ LockIsOwners

\* Work is committed once per request, and only late in its life.
ExecutedIsLate ==
    \A r \in executed :
        pc[r] \in {"committed", "failed4xx", "failed5xx", "raised", "done", "crashed"}

\* Only a handler that may roll back and go on has done so.
ResumedMayGoOn == \A r \in Requests : pc[r] = "resumed" => Payload[r] \in Resuming

ProcessingInv == TypeInv /\ ExecutedIsLate /\ ResumedMayGoOn /\ ProcessingNeverCommitted

\* A request that will take no further step.
Dead(r) == pc[r] \in {"crashed", "done"}

\* A request between its claim and the end of its work, not yet executed.
Working(r) == /\ pc[r] \in {"claimed", "marked", "failed4xx", "failed5xx", "raised"}
              /\ r \notin executed

\* Work in progress implies that the row is still that request's own claim.
OwnerHoldsRow ==
    \A r \in Requests : Working(r) => Present("PROCESSING") /\ row.by = r

\* A row about to be reclaimed belongs to a dead request, and to one reclaimer.
ReclaimIsSafe ==
    \A r \in Requests : pc[r] = "reclaim" =>
        /\ Present("PROCESSING") /\ Dead(row.by)
        /\ \A s \in Requests : pc[s] = "reclaim" => s = r

StaleIsDead == Present("PROCESSING") /\ row.stale => Dead(row.by)

ExecutedIsRecorded == executed # {} => row # NoRow /\ row.status # "PROCESSING"

\* No error answer is pending for work that was committed.
CommittedIsExecuted ==
    \A r \in Requests : /\ pc[r] = "committed" => r \in executed
                        /\ pc[r] \in {"failed4xx", "failed5xx"} => r \notin executed

IInv ==
    /\ ProcessingInv
    /\ OwnerHoldsRow
    /\ ReclaimIsSafe
    /\ StaleIsDead
    /\ ExecutedIsRecorded
    /\ CommittedIsExecuted
    /\ AtMostOnce

\* The row tells what became of its owner: no response before the end, the marker
\* only of executed work, and the hash of the owner's own body.
RowTellsOutcome ==
    row # NoRow =>
        /\ row.hash = Payload[row.by]
        /\ row.response = "none" <=> row.status # "COMPLETED"
        /\ row.status = "COMMITTED" => row.by \in executed
        /\ executed # {} => row.by \in executed

OutcomeInv == IInv /\ RowTellsOutcome /\ OutcomesAgree
============================================================================
