------------------------------ MODULE Outbound ------------------------------
(***************************************************************************)
(* The queue of integrations/cartunez/outbound.py: events of the master    *)
(* data are sent to the shop over HTTP by a task that runs every 30        *)
(* seconds, with retries, a retry window and dead letters.  Two runs of    *)
(* the task may overlap, and either may die while it holds a row lock; the *)
(* shop may accept an event whose answer is lost.                          *)
(*                                                                         *)
(* A run reads its candidates without a lock and then locks them one by    *)
(* one.  A row that is already in its session is not refreshed by the      *)
(* query that locks it; a commit expires every row, and taking the id of   *)
(* the next one from the batch reads it again, still without a lock.       *)
(***************************************************************************)
EXTENDS Integers, FiniteSets, FiniteSetsExt

NoRun == "none"

CONSTANTS Runs,        \* runs of the task that may overlap
          Queued,      \* how many events are queued: 1 .. Queued by age
          Batch,       \* CARTUNEZ_DELIVERY_BATCH_SIZE
          Looked,      \* how many candidates are read: 4 * Batch in the code
          MaxRetries,  \* max_retries of an event
          MaxCrashes   \* bound on the runs that die

ASSUME QueueAssumption ==
    /\ Queued \in Nat /\ Batch \in Nat /\ Looked \in Nat
    /\ MaxRetries \in Nat /\ MaxCrashes \in Nat /\ NoRun \notin Runs

VARIABLES event_status,    \* per event: none, PENDING, DELIVERED, FAILED
          retries,   \* retry_count
          due,       \* the delay since the last attempt is over
          letters,   \* OPEN dead letters of the event
          run,       \* per run: its place, what is left of its batch, what it read
          holder,    \* the run that holds the row lock of an event, or NoRun
          enabled,   \* the tenant's connection is ENABLED
          accepted,  \* the shop has accepted the event
          crashes

queue == <<event_status, retries, due, letters, run, holder, enabled, accepted, crashes>>

QueuedEvents == 1 .. Queued
IdleRun == [phase |-> "idle", batch |-> {}, read |-> <<>>]
\* A batch is worked off by age.
Oldest(r) == Min(run[r].batch)
Row(e) == [status |-> event_status[e], retries |-> retries[e]]

QueueInit ==
    /\ event_status = [e \in QueuedEvents |-> "none"] /\ retries = [e \in QueuedEvents |-> 0]
    /\ due = [e \in QueuedEvents |-> TRUE]
    /\ letters = [e \in QueuedEvents |-> 0]
    /\ run = [r \in Runs |-> IdleRun] /\ holder = [e \in QueuedEvents |-> NoRun]
    /\ enabled = TRUE /\ accepted = [e \in QueuedEvents |-> FALSE] /\ crashes = 0

-----------------------------------------------------------------------------
(* The queue and the clock.                                                *)

\* A handler of the master data commits its event, in the order of creation.
Enqueue(e) ==
    /\ event_status[e] = "none" /\ \A f \in 1 .. e - 1 : event_status[f] # "none"
    /\ event_status' = [event_status EXCEPT ![e] = "PENDING"]
    /\ UNCHANGED <<retries, due, letters, run, holder, enabled, accepted, crashes>>

BecomeDue(e) ==
    /\ event_status[e] = "PENDING" /\ ~due[e] /\ due' = [due EXCEPT ![e] = TRUE]
    /\ UNCHANGED <<event_status, retries, letters, run, holder, enabled, accepted, crashes>>

Disable ==
    /\ enabled /\ enabled' = FALSE
    /\ UNCHANGED <<event_status, retries, due, letters, run, holder, accepted, crashes>>

-----------------------------------------------------------------------------
(* A run of the task.                                                      *)

Pending == {e \in QueuedEvents : event_status[e] = "PENDING"}
\* Mutant: an event that failed once is never due.
CandidatesNew == {e \in Pending : retries[e] = 0}

\* The oldest Looked of the pending events.
Candidates == {e \in Pending : Cardinality({f \in Pending : f < e}) < Looked}
Rows == {e \in Candidates : due[e]}

Dispatch(r) ==
    LET batch == {e \in Rows : Cardinality({f \in Rows : f < e}) < Batch}
    IN  /\ run[r].phase = "idle" /\ Rows # {}
        /\ run' = [run EXCEPT ![r] = [phase |-> "locking", batch |-> batch,
                                      read |-> [e \in batch |-> Row(e)]]]
        /\ UNCHANGED <<event_status, retries, due, letters, holder, enabled, accepted, crashes>>

\* row.id of an expired row reads the row again.
Refresh(r) ==
    LET e == Oldest(r)
        read == run[r].read
    IN  /\ run[r].phase = "locking" /\ run[r].batch # {} /\ e \notin DOMAIN read
        /\ run' = [run EXCEPT ![r].read =
                       [f \in DOMAIN read \cup {e} |-> IF f = e THEN Row(e) ELSE read[f]]]
        /\ UNCHANGED <<event_status, retries, due, letters, holder, enabled, accepted, crashes>>

\* Mutant: SELECT without FOR UPDATE.
FreeAlways(e) == TRUE

Free(e) == holder[e] = NoRun

\* deliver locks the row; an event that is not PENDING is passed over, and its
\* lock is kept until the next commit.
Lock(r) ==
    LET e == Oldest(r)
    IN  /\ run[r].phase = "locking" /\ run[r].batch # {} /\ e \in DOMAIN run[r].read
        /\ Free(e)
        /\ holder' = [holder EXCEPT ![e] = r]
        /\ run' = IF run[r].read[e].status = "PENDING" THEN [run EXCEPT ![r].phase = "sending"]
                  ELSE [run EXCEPT ![r].batch = @ \ {e}]
        /\ UNCHANGED <<event_status, retries, due, letters, enabled, accepted, crashes>>

Freed(r) == [e \in QueuedEvents |-> IF holder[e] = r THEN NoRun ELSE holder[e]]

\* A commit: the locks are released and every row of the session is read anew.
Commits(r) ==
    /\ holder' = Freed(r)
    /\ run' = [run EXCEPT ![r] = [phase |-> "locking", batch |-> run[r].batch \ {Oldest(r)},
                                  read |-> <<>>]]

\* The PUT, its answer and the commit of a delivered event.
Deliver(r) ==
    LET e == Oldest(r)
    IN  /\ run[r].phase = "sending" /\ enabled
        /\ accepted' = [accepted EXCEPT ![e] = TRUE]
        /\ event_status' = [event_status EXCEPT ![e] = "DELIVERED"]
        /\ Commits(r)
        /\ UNCHANGED <<retries, due, letters, enabled, crashes>>

Exhausted(count, retryable, over) == ~retryable \/ count >= MaxRetries \/ over

\* Mutant: a dead letter for each attempt that fails for good.
LettersAlways(e, given_up) == IF given_up /\ enabled THEN letters[e] + 1 ELSE letters[e]

\* One OPEN dead letter per event, and none when the connection is gone.
Letters(e, given_up) ==
    IF given_up /\ enabled /\ letters[e] = 0 THEN 1 ELSE letters[e]

\* The PUT fails, is refused, or is accepted by a shop whose answer is lost;
\* the retry window of three days may be over.
\* The unit of work writes a column when its value differs from the one read:
\* PENDING over a status read as PENDING leaves what the row holds by now.
Fail(r, retryable, heard, over) ==
    LET e == Oldest(r)
        count == run[r].read[e].retries + 1
        given_up == Exhausted(count, retryable, over)
    IN  /\ run[r].phase = "sending" /\ (enabled \/ ~retryable) /\ (heard => enabled /\ retryable)
        /\ accepted' = [accepted EXCEPT ![e] = (@ \/ heard)]
        /\ retries' = [retries EXCEPT ![e] = Min({count, MaxRetries})]
        /\ event_status' = [event_status EXCEPT ![e] = IF given_up THEN "FAILED" ELSE @]
        /\ due' = [due EXCEPT ![e] = FALSE]
        /\ letters' = [letters EXCEPT ![e] = Letters(e, given_up)]
        /\ Commits(r)
        /\ UNCHANGED <<enabled, crashes>>

\* The batch is done; the session is closed.
Finish(r) ==
    /\ run[r].phase = "locking" /\ run[r].batch = {}
    /\ run' = [run EXCEPT ![r] = IdleRun] /\ holder' = Freed(r)
    /\ UNCHANGED <<event_status, retries, due, letters, enabled, accepted, crashes>>

\* The worker dies, perhaps after the shop accepted the event it was sending.
Dies(r, heard) ==
    /\ run[r].phase # "idle" /\ crashes < MaxCrashes
    /\ heard => run[r].phase = "sending" /\ enabled
    /\ accepted' = [e \in QueuedEvents |-> accepted[e] \/ (heard /\ e = Oldest(r))]
    /\ run' = [run EXCEPT ![r] = IdleRun] /\ holder' = Freed(r) /\ crashes' = crashes + 1
    /\ UNCHANGED <<event_status, retries, due, letters, enabled>>

Attempt(r) ==
    \/ Deliver(r)
    \/ \E retryable, heard, over \in BOOLEAN : Fail(r, retryable, heard, over)

QueueNext ==
    \/ \E e \in QueuedEvents : Enqueue(e) \/ BecomeDue(e)
    \/ Disable
    \/ \E r \in Runs : \/ Dispatch(r) \/ Refresh(r) \/ Lock(r) \/ Attempt(r) \/ Finish(r)
                       \/ \E heard \in BOOLEAN : Dies(r, heard)

\* The scheduler starts the task again and again, a request ends or times out,
\* and time passes.  Nothing is assumed of the shop, nor of the events queued.
QueueFairness ==
    /\ \A r \in Runs : /\ WF_queue(Dispatch(r) \/ Refresh(r) \/ Attempt(r) \/ Finish(r))
                       /\ SF_queue(Lock(r))
    /\ \A e \in QueuedEvents : WF_queue(BecomeDue(e))

QueueSpec == QueueInit /\ [][QueueNext]_queue

-----------------------------------------------------------------------------
(* Properties.                                                             *)

QueueTypeOK ==
    /\ event_status \in [QueuedEvents -> {"none", "PENDING", "DELIVERED", "FAILED"}]
    /\ retries \in [QueuedEvents -> 0 .. MaxRetries]
    /\ due \in [QueuedEvents -> BOOLEAN]
    /\ letters \in [QueuedEvents -> Nat] /\ accepted \in [QueuedEvents -> BOOLEAN]
    /\ \A r \in Runs : /\ run[r].phase \in {"idle", "locking", "sending"}
                       /\ run[r].batch \subseteq QueuedEvents
    /\ \A e \in QueuedEvents : holder[e] \in Runs \cup {NoRun}
    /\ enabled \in BOOLEAN /\ crashes \in 0 .. MaxCrashes

\* An event that is given up while the connection exists has exactly one dead
\* letter to be repaired from, also when two overlapping runs give it up and
\* when one of them gave up what the other delivered; an event the queue calls
\* DELIVERED was accepted by the shop.
NothingLostSilently == \A e \in QueuedEvents :
    /\ event_status[e] = "FAILED" /\ enabled => letters[e] = 1
    /\ letters[e] <= 1
    /\ event_status[e] = "DELIVERED" => accepted[e]

\* No two runs send one event at the same time.
OneSender == \A r, q \in Runs :
    run[r].phase = "sending" /\ run[q].phase = "sending" /\ Oldest(r) = Oldest(q)
        => r = q

\* An event ends with its delivery or a dead letter, and one run at a time sends it.
SentOrRecorded == NothingLostSilently /\ OneSender

\* Every queued event is delivered or given up, whatever the shop answers and
\* however many older events wait for their next attempt.
EveryEventEnds == \A e \in QueuedEvents : event_status[e] = "PENDING" ~> event_status[e] # "PENDING"
=============================================================================
