--------------------------- MODULE ExchangeProofs ---------------------------
(***************************************************************************)
(* What is exchanged with the shop, for every set of events, requests,     *)
(* orders and warehouses, and for any number of retries and crashes.       *)
(***************************************************************************)
EXTENDS Inbound, Outbound, SumTheorems, TLAPS

\* The lesser and the greater of two integers.
LEMMA TwoCompared ==
    ASSUME NEW a \in Int, NEW b \in Int
    PROVE  /\ Min({a, b}) = IF a <= b THEN a ELSE b
           /\ Max({a, b}) = IF a <= b THEN b ELSE a
<1>1. \E x \in {a, b} : \A y \in {a, b} : x <= y
  OBVIOUS
<1>2. \E x \in {a, b} : \A y \in {a, b} : x >= y
  OBVIOUS
<1>3. Min({a, b}) \in {a, b} /\ \A y \in {a, b} : Min({a, b}) <= y
  BY <1>1 DEF Min
<1>4. Max({a, b}) \in {a, b} /\ \A y \in {a, b} : Max({a, b}) >= y
  BY <1>2 DEF Max
<1> QED BY <1>3, <1>4

-----------------------------------------------------------------------------
(* Part 1: the queue of outgoing events.                                   *)

Shapes == [phase : {"idle", "locking", "sending"}, batch : SUBSET QueuedEvents,
           read : UNION {[D -> [status : {"none", "PENDING", "DELIVERED", "FAILED"},
                                retries : 0 .. MaxRetries]] : D \in SUBSET QueuedEvents}]

QueueTyped ==
    /\ event_status \in [QueuedEvents -> {"none", "PENDING", "DELIVERED", "FAILED"}]
    /\ retries \in [QueuedEvents -> 0 .. MaxRetries]
    /\ due \in [QueuedEvents -> BOOLEAN]
    /\ letters \in [QueuedEvents -> {0, 1}]
    /\ accepted \in [QueuedEvents -> BOOLEAN]
    /\ run \in [Runs -> Shapes]
    /\ holder \in [QueuedEvents -> Runs \cup {NoRun}]
    /\ enabled \in BOOLEAN /\ crashes \in 0 .. MaxCrashes

\* A run that sends an event holds its row and has read it.
SenderHolds == \A r \in Runs : run[r].phase = "sending" =>
    /\ run[r].batch # {} /\ Oldest(r) \in DOMAIN run[r].read
    /\ holder[Oldest(r)] = r

QInv == QueueTyped /\ SenderHolds /\ NothingLostSilently

\* The oldest event of a batch is one of its events.
LEMMA OldestInBatch ==
    ASSUME NEW r \in Runs, run[r].batch \subseteq QueuedEvents, run[r].batch # {}
    PROVE  Oldest(r) \in run[r].batch /\ Oldest(r) \in QueuedEvents
<1> DEFINE B == run[r].batch
<1>1. IsFiniteSet(1 .. Queued) /\ QueuedEvents \subseteq Int
  BY QueueAssumption, FS_Interval DEF QueuedEvents
<1>2. B \in SUBSET Int /\ IsFiniteSet(B)
  BY <1>1, FS_Subset DEF QueuedEvents
<1>3. \E x \in B : \A y \in B : x <= y
  BY <1>2, Extremes
<1> QED BY <1>3 DEF Oldest, Min

\* An empty queue satisfies the invariant.
LEMMA QueueStarts == QueueInit => QInv
<1> SUFFICES ASSUME QueueInit PROVE QInv
  OBVIOUS
<1>1. IdleRun \in Shapes
  <2>1. <<>> \in [{} -> [status : {"none", "PENDING", "DELIVERED", "FAILED"}, retries : 0 .. MaxRetries]]
    OBVIOUS
  <2> QED BY <2>1 DEF Shapes, IdleRun
<1>2. QueueTyped
  BY <1>1, QueueAssumption DEF QueueInit, QueueTyped
<1>3. SenderHolds
  BY DEF QueueInit, SenderHolds, IdleRun
<1>4. NothingLostSilently
  BY DEF QueueInit, NothingLostSilently
<1> QED BY <1>2, <1>3, <1>4 DEF QInv

\* A row as it is read has the type of a row.
LEMMA RowTyped ==
    ASSUME QueueTyped, NEW e \in QueuedEvents
    PROVE  Row(e) \in [status : {"none", "PENDING", "DELIVERED", "FAILED"}, retries : 0 .. MaxRetries]
BY DEF QueueTyped, Row

\* A step that leaves the rows alone.
LEMMA RowsUntouched ==
    ASSUME NothingLostSilently, UNCHANGED <<event_status, letters, accepted, enabled>>
    PROVE  NothingLostSilently'
BY DEF NothingLostSilently

\* The runs other than r keep what they hold when r takes a free row or gives its rows back.
LEMMA OthersHold ==
    ASSUME SenderHolds, NEW r \in Runs,
           \A q \in Runs \ {r} : run'[q] = run[q],
           \A e \in QueuedEvents : holder[e] # r /\ holder[e] \in Runs => holder'[e] = holder[e],
           QueueTyped
    PROVE  \A q \in Runs \ {r} : run'[q].phase = "sending" =>
               /\ run'[q].batch # {} /\ Oldest(q)' \in DOMAIN run'[q].read
               /\ holder'[Oldest(q)'] = q
<1> SUFFICES ASSUME NEW q \in Runs \ {r}, run'[q].phase = "sending"
             PROVE  /\ run'[q].batch # {} /\ Oldest(q)' \in DOMAIN run'[q].read
                    /\ holder'[Oldest(q)'] = q
  OBVIOUS
<1>1. run'[q] = run[q] /\ Oldest(q)' = Oldest(q)
  BY DEF Oldest
<1>2. run[q].batch # {} /\ Oldest(q) \in DOMAIN run[q].read /\ holder[Oldest(q)] = q
  BY <1>1 DEF SenderHolds
<1>3. run[q].batch \subseteq QueuedEvents
  BY DEF QueueTyped, Shapes
<1>4. Oldest(q) \in QueuedEvents
  BY <1>2, <1>3, OldestInBatch
<1> QED BY <1>1, <1>2, <1>4

\* A run that commits gives its rows back and sends nothing any more.
LEMMA AfterCommit ==
    ASSUME QueueTyped, SenderHolds, NEW r \in Runs, Commits(r)
    PROVE  /\ run' \in [Runs -> Shapes] /\ holder' \in [QueuedEvents -> Runs \cup {NoRun}]
           /\ SenderHolds'
<1> DEFINE new == [phase |-> "locking", batch |-> run[r].batch \ {Oldest(r)}, read |-> <<>>]
<1>1. run' = [run EXCEPT ![r] = new] /\ holder' = Freed(r)
  BY DEF Commits
<1>2. new \in Shapes
  <2>1. <<>> \in [{} -> [status : {"none", "PENDING", "DELIVERED", "FAILED"}, retries : 0 .. MaxRetries]]
    OBVIOUS
  <2>2. new.batch \in SUBSET QueuedEvents
    BY DEF QueueTyped, Shapes
  <2> QED BY <2>1, <2>2 DEF Shapes
<1> HIDE DEF new
<1>3. run' \in [Runs -> Shapes] /\ holder' \in [QueuedEvents -> Runs \cup {NoRun}]
  BY <1>1, <1>2 DEF QueueTyped, Freed
<1>4. /\ \A q \in Runs \ {r} : run'[q] = run[q]
      /\ \A e \in QueuedEvents : holder[e] # r => holder'[e] = holder[e]
  BY <1>1 DEF QueueTyped, Freed
<1>5. run'[r].phase = "locking"
  BY <1>1 DEF QueueTyped, new
<1> QED BY <1>3, <1>4, <1>5, OthersHold DEF SenderHolds

\* So does a run that ends or dies.
LEMMA AfterEnd ==
    ASSUME QueueTyped, SenderHolds, NEW r \in Runs,
           run' = [run EXCEPT ![r] = IdleRun], holder' = Freed(r)
    PROVE  /\ run' \in [Runs -> Shapes] /\ holder' \in [QueuedEvents -> Runs \cup {NoRun}]
           /\ SenderHolds'
<1>1. IdleRun \in Shapes
  <2>1. <<>> \in [{} -> [status : {"none", "PENDING", "DELIVERED", "FAILED"}, retries : 0 .. MaxRetries]]
    OBVIOUS
  <2> QED BY <2>1 DEF Shapes, IdleRun
<1>2. run' \in [Runs -> Shapes] /\ holder' \in [QueuedEvents -> Runs \cup {NoRun}]
  BY <1>1 DEF QueueTyped, Freed
<1>3. /\ \A q \in Runs \ {r} : run'[q] = run[q]
      /\ \A e \in QueuedEvents : holder[e] # r => holder'[e] = holder[e]
  BY DEF QueueTyped, Freed
<1>4. run'[r].phase = "idle"
  BY DEF QueueTyped, IdleRun
<1> QED BY <1>2, <1>3, <1>4, OthersHold DEF SenderHolds

\* Every step of the queue, of its deliveries and of its crashes keeps the invariant.
LEMMA QueueStep == QInv /\ [QueueNext]_queue => QInv'
<1> SUFFICES ASSUME QInv, [QueueNext]_queue PROVE QInv'
  OBVIOUS
<1> USE DEF QInv
<1>1. ASSUME NEW e \in QueuedEvents, Enqueue(e) PROVE QInv'
  <2>1. QueueTyped'
    BY <1>1 DEF Enqueue, QueueTyped
  <2>2. SenderHolds'
    BY <1>1 DEF Enqueue, SenderHolds, Oldest
  <2>3. NothingLostSilently'
    BY <1>1 DEF Enqueue, NothingLostSilently, QueueTyped
  <2> QED BY <2>1, <2>2, <2>3
<1>2. ASSUME NEW e \in QueuedEvents, BecomeDue(e) PROVE QInv'
  <2>1. QueueTyped'
    BY <1>2 DEF BecomeDue, QueueTyped
  <2>2. SenderHolds'
    BY <1>2 DEF BecomeDue, SenderHolds, Oldest
  <2>3. NothingLostSilently'
    BY <1>2, RowsUntouched DEF BecomeDue
  <2> QED BY <2>1, <2>2, <2>3
<1>3. CASE Disable
  <2>1. QueueTyped'
    BY <1>3 DEF Disable, QueueTyped
  <2>2. SenderHolds'
    BY <1>3 DEF Disable, SenderHolds, Oldest
  <2>3. NothingLostSilently'
    BY <1>3 DEF Disable, NothingLostSilently
  <2> QED BY <2>1, <2>2, <2>3
<1>4. ASSUME NEW r \in Runs, Dispatch(r) PROVE QInv'
  <2> DEFINE batch == {e \in Rows : Cardinality({f \in Rows : f < e}) < Batch}
             new == [phase |-> "locking", batch |-> batch, read |-> [e \in batch |-> Row(e)]]
  <2>1. run' = [run EXCEPT ![r] = new]
    BY <1>4 DEF Dispatch
  <2>2. batch \subseteq QueuedEvents
    BY DEF Rows, Candidates, Pending
  <2> HIDE DEF batch
  <2>3. new.read \in [batch -> [status : {"none", "PENDING", "DELIVERED", "FAILED"}, retries : 0 .. MaxRetries]]
    BY <2>2, RowTyped
  <2>4. new \in Shapes
    BY <2>2, <2>3 DEF Shapes
  <2>5. QueueTyped'
    BY <1>4, <2>1, <2>4 DEF Dispatch, QueueTyped
  <2>6. SenderHolds'
    <3>1. /\ \A q \in Runs \ {r} : run'[q] = run[q]
          /\ \A e \in QueuedEvents : holder'[e] = holder[e]
      BY <1>4, <2>1 DEF Dispatch, QueueTyped
    <3>2. run'[r].phase = "locking"
      BY <2>1 DEF QueueTyped
    <3> QED BY <3>1, <3>2, OthersHold DEF SenderHolds
  <2>7. NothingLostSilently'
    BY <1>4, RowsUntouched DEF Dispatch
  <2> QED BY <2>5, <2>6, <2>7
<1>5. ASSUME NEW r \in Runs, Refresh(r) PROVE QInv'
  <2> DEFINE e == Oldest(r)
             read == run[r].read
             new == [f \in DOMAIN read \cup {e} |-> IF f = e THEN Row(e) ELSE read[f]]
  <2>1. run' = [run EXCEPT ![r].read = new] /\ run[r].phase = "locking"
    BY <1>5 DEF Refresh
  <2>2. run[r] \in Shapes
    BY DEF QueueTyped
  <2>3. e \in QueuedEvents
    BY <1>5, <2>2, OldestInBatch DEF Refresh, Shapes
  <2>4. PICK D \in SUBSET QueuedEvents :
          read \in [D -> [status : {"none", "PENDING", "DELIVERED", "FAILED"}, retries : 0 .. MaxRetries]]
    BY <2>2 DEF Shapes
  <2> HIDE DEF e, read
  <2>5. new \in [D \cup {e} -> [status : {"none", "PENDING", "DELIVERED", "FAILED"}, retries : 0 .. MaxRetries]]
    BY <2>3, <2>4, RowTyped
  <2>6. [run[r] EXCEPT !.read = new] \in Shapes
    <3>1. D \cup {e} \in SUBSET QueuedEvents
      BY <2>3, <2>4
    <3>2. new \in UNION {[S -> [status : {"none", "PENDING", "DELIVERED", "FAILED"},
                               retries : 0 .. MaxRetries]] : S \in SUBSET QueuedEvents}
      BY <2>5, <3>1
    <3> HIDE DEF new
    <3> QED BY <2>2, <3>2 DEF Shapes
  <2> HIDE DEF new
  <2>7. QueueTyped'
    BY <1>5, <2>1, <2>6 DEF Refresh, QueueTyped
  <2>8. SenderHolds'
    <3>1. /\ \A q \in Runs \ {r} : run'[q] = run[q]
          /\ \A f \in QueuedEvents : holder'[f] = holder[f]
      BY <1>5, <2>1 DEF Refresh, QueueTyped
    <3>2. run'[r].phase = "locking"
      BY <2>1, <2>2 DEF QueueTyped, Shapes
    <3> QED BY <3>1, <3>2, OthersHold DEF SenderHolds
  <2>9. NothingLostSilently'
    BY <1>5, RowsUntouched DEF Refresh
  <2> QED BY <2>7, <2>8, <2>9
<1>6. ASSUME NEW r \in Runs, Lock(r) PROVE QInv'
  <2> DEFINE e == Oldest(r)
  <2>1. run[r] \in Shapes /\ run[r].phase = "locking" /\ run[r].batch # {} /\ e \in DOMAIN run[r].read
    BY <1>6 DEF Lock, QueueTyped
  <2>2. e \in QueuedEvents
    BY <2>1, OldestInBatch DEF Shapes
  <2>3. holder[e] = NoRun /\ holder' = [holder EXCEPT ![e] = r]
    BY <1>6 DEF Lock, Free
  <2>4. \/ run' = [run EXCEPT ![r].phase = "sending"]
        \/ run' = [run EXCEPT ![r].batch = @ \ {e}]
    BY <1>6 DEF Lock
  <2> HIDE DEF e
  <2>5. [run[r] EXCEPT !.phase = "sending"] \in Shapes /\ [run[r] EXCEPT !.batch = @ \ {e}] \in Shapes
    BY <2>1 DEF Shapes
  <2>6. QueueTyped'
    <3>1. run' \in [Runs -> Shapes]
      BY <2>4, <2>5 DEF QueueTyped
    <3> QED BY <1>6, <2>2, <2>3, <3>1 DEF Lock, QueueTyped
  <2>7. \A q \in Runs \ {r} : run'[q].phase = "sending" =>
               /\ run'[q].batch # {} /\ Oldest(q)' \in DOMAIN run'[q].read
               /\ holder'[Oldest(q)'] = q
    <3>1. \A q \in Runs \ {r} : run'[q] = run[q]
      BY <2>4 DEF QueueTyped
    <3>2. \A f \in QueuedEvents : holder[f] # r /\ holder[f] \in Runs => holder'[f] = holder[f]
      BY <2>3, QueueAssumption DEF QueueTyped
    <3> QED BY <3>1, <3>2, OthersHold
  <2>8. run'[r].phase = "sending" =>
               /\ run'[r].batch # {} /\ Oldest(r)' \in DOMAIN run'[r].read
               /\ holder'[Oldest(r)'] = r
    <3>1. CASE run' = [run EXCEPT ![r].phase = "sending"]
      <4>1. run'[r].batch = run[r].batch /\ run'[r].read = run[r].read
        BY <3>1 DEF QueueTyped, Shapes
      <4>2. Oldest(r)' = e
        BY <4>1 DEF Oldest, e
      <4> QED BY <2>1, <2>2, <2>3, <4>1, <4>2 DEF QueueTyped
    <3>2. CASE run' = [run EXCEPT ![r].batch = @ \ {e}]
      BY <3>2, <2>1 DEF QueueTyped, Shapes
    <3> QED BY <2>4, <3>1, <3>2
  <2>9. NothingLostSilently'
    BY <1>6, RowsUntouched DEF Lock
  <2> QED BY <2>6, <2>7, <2>8, <2>9 DEF SenderHolds
<1>7. ASSUME NEW r \in Runs, Deliver(r) PROVE QInv'
  <2> DEFINE e == Oldest(r)
  <2>1. run[r] \in Shapes /\ e \in QueuedEvents /\ run[r].phase = "sending"
    BY <1>7, OldestInBatch DEF Deliver, QueueTyped, Shapes, SenderHolds
  <2>2. Commits(r)
    BY <1>7 DEF Deliver
  <2>3. /\ run' \in [Runs -> Shapes] /\ holder' \in [QueuedEvents -> Runs \cup {NoRun}]
        /\ SenderHolds'
    BY <2>2, AfterCommit
  <2>4. QueueTyped'
    BY <1>7, <2>1, <2>3 DEF Deliver, QueueTyped
  <2>5. NothingLostSilently'
    BY <1>7, <2>1 DEF Deliver, NothingLostSilently, QueueTyped
  <2> QED BY <2>3, <2>4, <2>5
<1>8. ASSUME NEW r \in Runs, NEW retryable \in BOOLEAN, NEW heard \in BOOLEAN, NEW over \in BOOLEAN,
             Fail(r, retryable, heard, over)
      PROVE QInv'
  <2> DEFINE e == Oldest(r)
             count == run[r].read[e].retries + 1
             given_up == Exhausted(count, retryable, over)
  <2>1. run[r] \in Shapes /\ e \in QueuedEvents /\ run[r].phase = "sending" /\ e \in DOMAIN run[r].read
    BY <1>8, OldestInBatch DEF Fail, QueueTyped, Shapes, SenderHolds
  <2>2. count \in Nat
    BY <2>1 DEF Shapes
  <2>3. /\ accepted' = [accepted EXCEPT ![e] = (accepted[e] \/ heard)]
        /\ retries' = [retries EXCEPT ![e] = Min({count, MaxRetries})]
        /\ event_status' = [event_status EXCEPT ![e] = IF given_up THEN "FAILED" ELSE event_status[e]]
        /\ due' = [due EXCEPT ![e] = FALSE]
        /\ letters' = [letters EXCEPT ![e] = Letters(e, given_up)]
        /\ Commits(r) /\ UNCHANGED <<enabled, crashes>>
    BY <1>8 DEF Fail
  <2> HIDE DEF e
  <2>4. Min({count, MaxRetries}) \in 0 .. MaxRetries
    BY <2>2, QueueAssumption, TwoCompared
  <2> HIDE DEF count
  <2>5. given_up \in BOOLEAN
    BY DEF Exhausted
  <2> HIDE DEF given_up
  <2>6. Letters(e, given_up) \in {0, 1} /\ (given_up /\ enabled => Letters(e, given_up) = 1)
        /\ (letters[e] = 1 => Letters(e, given_up) = 1)
    BY <2>1 DEF Letters, QueueTyped
  <2>7. /\ run' \in [Runs -> Shapes] /\ holder' \in [QueuedEvents -> Runs \cup {NoRun}]
        /\ SenderHolds'
    BY <2>3, AfterCommit
  <2>8. QueueTyped'
    <3>1. retries' \in [QueuedEvents -> 0 .. MaxRetries]
      BY <2>3, <2>4 DEF QueueTyped
    <3>2. letters' \in [QueuedEvents -> {0, 1}]
      BY <2>3, <2>6 DEF QueueTyped
    <3>3. event_status' \in [QueuedEvents -> {"none", "PENDING", "DELIVERED", "FAILED"}]
      BY <2>1, <2>3 DEF QueueTyped
    <3>4. accepted' \in [QueuedEvents -> BOOLEAN] /\ due' \in [QueuedEvents -> BOOLEAN]
      BY <2>1, <2>3 DEF QueueTyped
    <3> QED BY <2>3, <2>7, <3>1, <3>2, <3>3, <3>4 DEF QueueTyped
  <2>9. NothingLostSilently'
    <3>1. ASSUME NEW f \in QueuedEvents \ {e}
          PROVE  /\ event_status'[f] = event_status[f] /\ letters'[f] = letters[f]
                 /\ accepted'[f] = accepted[f]
      BY <2>3 DEF QueueTyped
    <3>2. /\ event_status'[e] = (IF given_up THEN "FAILED" ELSE event_status[e])
          /\ letters'[e] = Letters(e, given_up) /\ accepted'[e] = (accepted[e] \/ heard)
      BY <2>1, <2>3 DEF QueueTyped
    <3>3. ASSUME NEW f \in QueuedEvents \ {e}
          PROVE  /\ event_status'[f] = "FAILED" /\ enabled' => letters'[f] = 1
                 /\ letters'[f] <= 1
                 /\ event_status'[f] = "DELIVERED" => accepted'[f]
      BY <2>3, <3>1 DEF NothingLostSilently
    <3>4. event_status'[e] = "FAILED" /\ enabled' => letters'[e] = 1
      BY <2>1, <2>3, <2>6, <3>2 DEF NothingLostSilently
    <3>5. letters'[e] <= 1
      BY <2>6, <3>2
    <3>6. event_status'[e] = "DELIVERED" => accepted'[e]
      BY <2>1, <3>2 DEF NothingLostSilently
    <3> QED BY <3>3, <3>4, <3>5, <3>6 DEF NothingLostSilently
  <2> QED BY <2>7, <2>8, <2>9
<1>9. ASSUME NEW r \in Runs, Finish(r) PROVE QInv'
  <2>1. run' = [run EXCEPT ![r] = IdleRun] /\ holder' = Freed(r)
    BY <1>9 DEF Finish
  <2>2. /\ run' \in [Runs -> Shapes] /\ holder' \in [QueuedEvents -> Runs \cup {NoRun}]
        /\ SenderHolds'
    BY <2>1, AfterEnd
  <2>3. QueueTyped'
    BY <1>9, <2>2 DEF Finish, QueueTyped
  <2>4. NothingLostSilently'
    BY <1>9, RowsUntouched DEF Finish
  <2> QED BY <2>2, <2>3, <2>4
<1>10. ASSUME NEW r \in Runs, NEW heard \in BOOLEAN, Dies(r, heard) PROVE QInv'
  <2>1. run' = [run EXCEPT ![r] = IdleRun] /\ holder' = Freed(r)
    BY <1>10 DEF Dies
  <2>2. /\ run' \in [Runs -> Shapes] /\ holder' \in [QueuedEvents -> Runs \cup {NoRun}]
        /\ SenderHolds'
    BY <2>1, AfterEnd
  <2>3. crashes' \in 0 .. MaxCrashes
    BY <1>10, QueueAssumption DEF Dies, QueueTyped
  <2>4. accepted' \in [QueuedEvents -> BOOLEAN] /\ \A e \in QueuedEvents : accepted[e] => accepted'[e]
    BY <1>10 DEF Dies, QueueTyped
  <2>5. QueueTyped'
    BY <1>10, <2>2, <2>3, <2>4 DEF Dies, QueueTyped
  <2>6. NothingLostSilently'
    BY <1>10, <2>4 DEF Dies, NothingLostSilently
  <2> QED BY <2>2, <2>5, <2>6
<1>11. CASE UNCHANGED queue
  <2>1. QueueTyped'
    BY <1>11 DEF queue, QueueTyped
  <2>2. SenderHolds'
    BY <1>11 DEF queue, SenderHolds, Oldest
  <2>3. NothingLostSilently'
    BY <1>11 DEF queue, NothingLostSilently
  <2> QED BY <2>1, <2>2, <2>3
<1>12. CASE QueueNext
  BY <1>12, <1>1, <1>2, <1>3, <1>4, <1>5, <1>6, <1>7, <1>8, <1>9, <1>10 DEF QueueNext, Attempt
<1> QED BY <1>11, <1>12

\* Every event of the queue ends with its delivery or with one dead letter to repair it
\* from, and no two runs send it at once, however many runs overlap, die or read a
\* row before they lock it.
THEOREM QueueLosesNothing == QueueSpec => []SentOrRecorded
<1>1. QueueInit => QInv
  BY QueueStarts
<1>2. QInv /\ [QueueNext]_queue => QInv'
  BY QueueStep
<1>3. QInv => SentOrRecorded
  <2>1. SenderHolds => OneSender
    BY DEF SenderHolds, OneSender
  <2> QED BY <2>1 DEF QInv, SentOrRecorded
<1> QED BY <1>1, <1>2, <1>3, PTL DEF QueueSpec

-----------------------------------------------------------------------------
(* Part 2: the events received.  The inductive invariant.                  *)

\* The responses that are stored, and what a request may be answered.
Statuses == {"none", "DRAFT", "PARTIALLY_PAID", "PAID", "CANCELLED"}
Responses == Statuses \X Nat \X Nat
Answers == {<<>>, <<"conflict">>, <<"rejected">>} \cup Responses
OrderRecords == [status : Statuses, revision : Nat, qty : Nat, total : Nat, captured : Nat,
                 sequence : Nat, invoiced : BOOLEAN, paid : Nat]
Quantities == [Warehouses -> Nat]
Levels == [Warehouses -> [available : Nat, reserved : Nat]]
Products == [made : BOOLEAN, opening : Nat, current : Int]
Tellings == [Warehouses -> [available : Nat, reserved : Nat, held : Nat, sold : Nat]]

ShopTyped ==
    /\ DOMAIN replay \in SUBSET Events /\ IsFiniteSet(DOMAIN replay)
    /\ \A e \in DOMAIN replay : replay[e] \in Answers
    /\ session \in [Sessions -> [phase : {"idle", "arrived", "claimed", "answered"},
                                 event : Events \cup {NoEvent}, answer : Answers]]
    /\ \A s \in Sessions : session[s].phase \in {"arrived", "claimed"} => session[s].event \in Events
    /\ orders \in [Orders -> OrderRecords] /\ held \in [Orders -> Quantities]
    /\ levels \in Levels /\ stock \in Products /\ told \in Tellings
    /\ outbox \in [Events -> Nat] /\ sendable \subseteq Events

\* A claimed event is not completed yet, and no two claimed events collide.
ClaimsApart == \A s \in Sessions : session[s].phase = "claimed" =>
    /\ ~Duplicate(session[s].event)
    /\ \A t \in Sessions \ {s} : session[t].phase = "claimed" => ~Collide(session[t].event, session[s].event)

\* What the status of an order says of the rest of it, and of what it holds.
OrderOK(order, hold) ==
    /\ order.status = "none" => order = Absent /\ hold = ZeroEach
    /\ order.status = "DRAFT" => ~order.invoiced /\ order.captured = 0
    /\ order.invoiced <=> order.status \in {"PARTIALLY_PAID", "PAID"}
    /\ order.status \in {"DRAFT", "PARTIALLY_PAID", "PAID"} => order.qty > 0 /\ Total(hold) = order.qty
OrdersOK == \A o \in Orders : OrderOK(orders[o], held[o])

\* What orders, movements, levels and the product have to do with each other.
ShopBooks == OrdersOK /\ ReservedIsHeld /\ SoldOnce

ShopInv == ShopTyped /\ ClaimsApart /\ EffectsMatchEvents /\ ShopBooks

-----------------------------------------------------------------------------
(* Quantities per warehouse.                                               *)

\* There are finitely many warehouses.
LEMMA WarehousesFinite == IsFiniteSet(Warehouses) /\ Cardinality(Warehouses) \in Nat
BY ShopAssumption, FS_CardinalityType

\* What all warehouses hold of a quantity is a natural number.
LEMMA TotalTyped == ASSUME NEW f \in Quantities PROVE Total(f) \in Nat
BY WarehousesFinite, SumNat DEF Total, Quantities

\* The reservations made for a quantity: natural numbers within what each
\* warehouse can give, and not more than was asked for.
LEMMA GreedyFill ==
    ASSUME NEW lv \in [Warehouses -> [available : Nat, reserved : Nat]], NEW q \in Nat
    PROVE  /\ Reserved(lv, q) \in Quantities
           /\ \A w \in Warehouses : Reserved(lv, q)[w] <= Capacity(lv[w])
           /\ Total(Reserved(lv, q)) <= q
<1> DEFINE can == [w \in Warehouses |-> Capacity(lv[w])]
           n == Cardinality(Warehouses)
           hold == Reserved(lv, q)
           asked(k) == SumFunctionOnSet(can, 1 .. k)
           given(k) == SumFunctionOnSet(hold, 1 .. k)
<1>1. n \in Nat /\ Warehouses = 1 .. n
  BY WarehousesFinite, ShopAssumption
<1> HIDE DEF n
<1>2. ASSUME NEW w \in Warehouses PROVE can[w] \in Nat /\ can[w] = Capacity(lv[w])
  <2>1. Capacity(lv[w]) = (IF 0 <= lv[w].available - lv[w].reserved
                           THEN lv[w].available - lv[w].reserved ELSE 0)
    <3> DEFINE free == lv[w].available - lv[w].reserved
    <3>1. free \in Int /\ Capacity(lv[w]) = Max({0, free})
      BY DEF Capacity
    <3> HIDE DEF free
    <3>2. 0 \in Int
      OBVIOUS
    <3>3. Max({0, free}) = IF 0 <= free THEN free ELSE 0
      BY <3>1, <3>2, TwoCompared, Zenon
    <3> QED BY <3>1, <3>3 DEF free
  <2> QED BY <2>1
<1> HIDE DEF can
<1>3. ASSUME NEW k \in 0 .. n PROVE asked(k) \in Nat
  <2>1. k \in Nat /\ 1 .. k \subseteq Warehouses
    BY <1>1
  <2>2. IsFiniteSet(1 .. k)
    BY <2>1, FS_Interval
  <2>3. \A x \in 1 .. k : can[x] \in Nat
    BY <1>2, <2>1
  <2> QED BY <2>2, <2>3, SumNat
<1>4. ASSUME NEW w \in Warehouses
      PROVE  hold[w] = IF q - asked(w - 1) <= 0 THEN 0
                       ELSE IF q - asked(w - 1) <= can[w] THEN q - asked(w - 1) ELSE can[w]
  <2>1. w \in Int /\ w - 1 \in 0 .. n
    BY <1>1
  <2>2. asked(w - 1) \in Nat /\ can[w] \in Nat
    BY <1>2, <1>3, <2>1
  <2>3. hold[w] = Max({0, Min({q - asked(w - 1), can[w]})})
    BY DEF Reserved, can
  <2> HIDE DEF asked, hold
  <2>4. Min({q - asked(w - 1), can[w]}) = IF q - asked(w - 1) <= can[w] THEN q - asked(w - 1) ELSE can[w]
    BY <2>2, TwoCompared
  <2>5. Min({q - asked(w - 1), can[w]}) \in Int
    BY <2>2, <2>4
  <2>6. hold[w] = IF 0 <= Min({q - asked(w - 1), can[w]}) THEN Min({q - asked(w - 1), can[w]}) ELSE 0
    <3> DEFINE m == Min({q - asked(w - 1), can[w]})
    <3>1. m \in Int /\ hold[w] = Max({0, m})
      BY <2>3, <2>5
    <3> HIDE DEF m
    <3>2. 0 \in Int
      OBVIOUS
    <3>3. Max({0, m}) = IF 0 <= m THEN m ELSE 0
      BY <3>1, <3>2, TwoCompared, Zenon
    <3> QED BY <3>1, <3>3 DEF m
  <2> QED BY <2>2, <2>4, <2>6
<1>5. ASSUME NEW w \in Warehouses PROVE hold[w] \in Nat /\ hold[w] <= can[w]
  <2>1. asked(w - 1) \in Nat
    BY <1>1, <1>3
  <2> HIDE DEF asked, hold
  <2> QED BY <1>2, <1>4, <2>1
<1>6. hold = [w \in Warehouses |-> hold[w]]
  BY DEF Reserved
<1>7. hold \in Quantities
  <2> HIDE DEF hold
  <2> QED BY <1>5, <1>6 DEF Quantities
<1> HIDE DEF hold
<1>8. ASSUME NEW k \in 1 .. n
      PROVE  /\ given(k) = hold[k] + given(k - 1) /\ asked(k) = can[k] + asked(k - 1)
  <2>1. k \in Nat /\ k > 0 /\ 1 .. k \subseteq Warehouses
    BY <1>1
  <2>2. k \in 1 .. k /\ (1 .. k) \ {k} = 1 .. k - 1
    BY <2>1
  <2>3. IsFiniteSet(1 .. k)
    BY <2>1, FS_Interval
  <2>4. \A x \in 1 .. k : hold[x] \in Int /\ can[x] \in Int
    BY <1>2, <1>5, <2>1
  <2>5. given(k) = hold[k] + SumFunctionOnSet(hold, (1 .. k) \ {k})
    BY <2>2, <2>3, <2>4, SumRest
  <2>6. asked(k) = can[k] + SumFunctionOnSet(can, (1 .. k) \ {k})
    BY <2>2, <2>3, <2>4, SumRest
  <2> QED BY <2>2, <2>5, <2>6
<1>9. \A k \in 0 .. n : given(k) = IF asked(k) <= q THEN asked(k) ELSE q
  <2> DEFINE Bad == {k \in 0 .. n : given(k) # IF asked(k) <= q THEN asked(k) ELSE q}
  <2>1. SUFFICES ASSUME Bad # {} PROVE FALSE
    OBVIOUS
  <2>2. Bad \in SUBSET Int /\ IsFiniteSet(Bad)
    <3>1. Bad \subseteq 0 .. n /\ 0 .. n \subseteq Int
      OBVIOUS
    <3>2. IsFiniteSet(0 .. n)
      BY <1>1, FS_Interval
    <3> QED BY <3>1, <3>2, FS_Subset
  <2>3. PICK k \in Bad : \A j \in Bad : k <= j
    BY <2>1, <2>2, Extremes
  <2>4. k # 0
    <3>1. 1 .. 0 = {}
      OBVIOUS
    <3>2. given(0) = 0 /\ asked(0) = 0
      BY <3>1, SumEmpty
    <3> QED BY <3>2
  <2>5. k \in 1 .. n /\ k - 1 \in 0 .. n /\ k - 1 \notin Bad
    BY <1>1, <2>3, <2>4
  <2>6. given(k - 1) = IF asked(k - 1) <= q THEN asked(k - 1) ELSE q
    BY <2>5
  <2>7. asked(k - 1) \in Nat /\ asked(k) \in Nat /\ can[k] \in Nat
    BY <1>1, <1>2, <1>3, <2>5
  <2>8. hold[k] = IF q - asked(k - 1) <= 0 THEN 0
                  ELSE IF q - asked(k - 1) <= can[k] THEN q - asked(k - 1) ELSE can[k]
    BY <1>1, <1>4, <2>5
  <2>9. given(k) = hold[k] + given(k - 1) /\ asked(k) = can[k] + asked(k - 1)
    BY <1>8, <2>5
  <2> HIDE DEF asked, given
  <2>10. given(k) = IF asked(k) <= q THEN asked(k) ELSE q
    BY <2>6, <2>7, <2>8, <2>9
  <2> QED BY <2>10 DEF Bad
<1>10. Total(hold) = given(n) /\ asked(n) \in Nat
  BY <1>1, <1>3 DEF Total
<1>11. Total(hold) <= q
  <2> HIDE DEF asked, given
  <2> QED BY <1>1, <1>9, <1>10
<1> QED BY <1>2, <1>5, <1>7, <1>11 DEF hold

-----------------------------------------------------------------------------
(* What each handler makes of an order, its movements and the levels.      *)

Keeps(order, hold, w) == IF order.status = "DRAFT" THEN hold[w] ELSE 0
FirstSale(o, order) == order.invoiced /\ ~orders[o].invoiced
Sells(o, order) == IF FirstSale(o, order) THEN order.qty ELSE 0
Takes(o, h, w) == IF FirstSale(o, h.order) THEN h.held[w] ELSE 0
AvailableIn(lv) == Total([w \in Warehouses |-> lv[w].available])

\* The outcome h for the order o is an order in good standing; the levels have
\* reserved less of what o held as a draft before and more of what it holds now;
\* what they lost is what o sells, for the first time; and the product in the books
\* follows.
Moves(o, h) ==
    /\ h.order \in OrderRecords /\ h.held \in Quantities /\ h.levels \in Levels /\ h.stock \in Products
    /\ OrderOK(h.order, h.held)
    /\ \A w \in Warehouses :
        /\ h.levels[w].reserved - Keeps(h.order, h.held, w)
               = levels[w].reserved - Keeps(orders[o], held[o], w)
        /\ h.levels[w].available = levels[w].available - Takes(o, h, w)
        /\ levels[w].reserved <= levels[w].available => h.levels[w].reserved <= h.levels[w].available
    /\ AvailableIn(h.levels) = AvailableIn(levels) - Sells(o, h.order)
    /\ orders[o].invoiced => h.order.invoiced /\ h.order.qty = orders[o].qty /\ h.held = held[o]
    /\ h.stock = IF FirstSale(o, h.order) THEN [Materialised EXCEPT !.current = @ - h.order.qty] ELSE stock

\* The outcome h counts the event e once.
Counts(e, h) ==
    LET order == orders[EventOf[e].order]
    IN  /\ h.order.revision = order.revision
               + (IF Name(e) \in {"order.created", "order.updated"} THEN 1 ELSE 0)
        /\ h.order.captured = order.captured
               + (IF Name(e) = "payment.captured" THEN EventOf[e].amount ELSE 0)
        /\ h.order.paid = h.order.captured
        /\ (h.order.status = "CANCELLED") = (order.status = "CANCELLED" \/ Name(e) = "order.cancelled")
        /\ h.order.status = "PAID" => h.order.captured = h.order.total

\* What is known of an event: its numbers, and that those of orders have an order.
LEMMA EventTyped ==
    ASSUME NEW e \in Events
    PROVE  /\ EventOf[e].number \in Nat /\ EventOf[e].qty \in Nat /\ EventOf[e].amount \in Nat
           /\ Name(e) \in OrderEvents \cup MasterEvents
           /\ EventOf[e].order \in Orders <=> Name(e) \in OrderEvents
           /\ Name(e) \in {"order.created", "order.updated"} => EventOf[e].qty > 0
BY ShopAssumption DEF Name

\* The record of an order that is not there is one of an order.
LEMMA AbsentTyped == Absent \in OrderRecords
BY DEF Absent, OrderRecords, Statuses

\* What the invariant says of one order, and that draft orders are those with the status.
LEMMA DraftMeans ==
    ASSUME ShopInv, NEW o \in Orders
    PROVE  /\ orders[o] \in OrderRecords /\ held[o] \in Quantities /\ OrderOK(orders[o], held[o])
           /\ DraftOrder(o) <=> orders[o].status = "DRAFT"
BY DEF ShopInv, ShopBooks, ShopTyped, OrdersOK, OrderOK, DraftOrder

\* Nothing in any warehouse is nothing.
LEMMA Nothing ==
    ASSUME NEW f \in Quantities, \A w \in Warehouses : f[w] = 0
    PROVE  Total(f) = 0
BY WarehousesFinite, SumZero DEF Total

\* An order that is or stays a draft takes its reservations from levels that hold
\* nothing of it.
LEMMA ReservingMoves ==
    ASSUME ShopInv, NEW o \in Orders, ~orders[o].invoiced,
           NEW order \in OrderRecords, order.status = "DRAFT", ~order.invoiced, order.captured = 0,
           order.qty > 0,
           NEW lv \in Levels,
           \A w \in Warehouses :
               /\ lv[w].available = levels[w].available
               /\ lv[w].reserved = levels[w].reserved - Keeps(orders[o], held[o], w),
           Reserving(order, lv).ok
    PROVE  Moves(o, Reserving(order, lv)) /\ Reserving(order, lv).order = order
<1> DEFINE hold == Reserved(lv, order.qty)
           h == Outcome(order, hold, Shifted(lv, hold), stock)
<1>1. order.qty \in Nat
  BY DEF OrderRecords
<1>2. /\ hold \in Quantities /\ Total(hold) <= order.qty
      /\ \A w \in Warehouses : hold[w] <= Capacity(lv[w])
  BY <1>1, GreedyFill DEF Levels
<1>3. Reserving(order, lv) = h /\ ~(Total(hold) < order.qty)
  BY DEF Reserving, Refused
<1> HIDE DEF hold
<1>4. Total(hold) = order.qty
  BY <1>1, <1>2, <1>3, TotalTyped
<1>5. /\ h.order = order /\ h.held = hold /\ h.levels = Shifted(lv, hold) /\ h.stock = stock
  BY DEF Outcome
<1> HIDE DEF h
<1>6. ASSUME NEW w \in Warehouses
      PROVE  /\ Shifted(lv, hold)[w].available = lv[w].available
             /\ Shifted(lv, hold)[w].reserved = lv[w].reserved + hold[w]
             /\ lv[w].available \in Nat /\ lv[w].reserved \in Nat /\ hold[w] \in Nat
             /\ levels[w].available \in Nat /\ levels[w].reserved \in Nat
  <2>1. levels[w] \in [available : Nat, reserved : Nat] /\ lv[w] \in [available : Nat, reserved : Nat]
    BY DEF Levels, ShopInv, ShopTyped
  <2>2. hold[w] \in Nat
    BY <1>2 DEF Quantities
  <2>3. Shifted(lv, hold)[w] = [lv[w] EXCEPT !.reserved = lv[w].reserved + hold[w]]
    BY DEF Shifted
  <2> QED BY <2>1, <2>2, <2>3
<1>7. Shifted(lv, hold) \in Levels
  <2>1. ASSUME NEW w \in Warehouses
        PROVE  [lv[w] EXCEPT !.reserved = @ + hold[w]] \in [available : Nat, reserved : Nat]
    <3>1. lv[w] \in [available : Nat, reserved : Nat] /\ lv[w].reserved + hold[w] \in Nat
      BY <1>6 DEF Levels
    <3> QED BY <3>1
  <2> QED BY <2>1 DEF Levels, Shifted
<1>8. ASSUME NEW w \in Warehouses
      PROVE  Keeps(orders[o], held[o], w) \in Nat
  BY DraftMeans DEF Keeps, Quantities
<1>9. ASSUME NEW w \in Warehouses
      PROVE  /\ h.levels[w].reserved - Keeps(h.order, h.held, w)
                    = levels[w].reserved - Keeps(orders[o], held[o], w)
             /\ h.levels[w].available = levels[w].available
             /\ levels[w].reserved <= levels[w].available => h.levels[w].reserved <= h.levels[w].available
  <2> DEFINE free == lv[w].available - lv[w].reserved
  <2>1. free \in Int /\ 0 \in Int
    BY <1>6
  <2>0. Capacity(lv[w]) = Max({0, free})
    BY DEF Capacity
  <2> HIDE DEF free
  <2>2. Max({0, free}) = IF 0 <= free THEN free ELSE 0
    BY <2>1, TwoCompared, Zenon
  <2>3. hold[w] <= IF 0 <= free THEN free ELSE 0
    BY <1>2, <2>0, <2>2
  <2>4. h.levels[w].reserved = lv[w].reserved + hold[w] /\ h.levels[w].available = lv[w].available
    BY <1>5, <1>6
  <2>5. levels[w].reserved <= levels[w].available => lv[w].reserved + hold[w] <= lv[w].available
    BY <1>6, <1>8, <2>3 DEF free
  <2>6. Keeps(h.order, h.held, w) = hold[w]
    BY <1>5 DEF Keeps
  <2> QED BY <1>6, <1>8, <2>4, <2>5, <2>6
<1>10. AvailableIn(h.levels) = AvailableIn(levels)
  BY <1>9 DEF AvailableIn
<1>11. OrderOK(order, hold)
  BY <1>1, <1>4 DEF OrderOK
<1>12. ~FirstSale(o, h.order)
  BY <1>5 DEF FirstSale
<1>13. AvailableIn(levels) \in Int /\ stock \in Products
  <2>1. [w \in Warehouses |-> levels[w].available] \in Quantities
    BY <1>6 DEF Quantities
  <2> QED BY <2>1, TotalTyped DEF AvailableIn, ShopInv, ShopTyped
<1>14. \A w \in Warehouses : h.levels[w].available = levels[w].available - Takes(o, h, w)
  BY <1>6, <1>9, <1>12 DEF Takes
<1>15. Moves(o, h)
  BY <1>2, <1>5, <1>7, <1>9, <1>10, <1>11, <1>12, <1>13, <1>14 DEF Moves, Sells
<1> QED BY <1>3, <1>5, <1>15

\* An order that is given back its reservations: the levels without them.
LEMMA ReleasedLevels ==
    ASSUME ShopInv, NEW o \in Orders, CanRelease(o)
    PROVE  /\ Released(o) \in Levels
           /\ \A w \in Warehouses : /\ Released(o)[w].available = levels[w].available
                                    /\ Released(o)[w].reserved = levels[w].reserved - held[o][w]
<1>1. ASSUME NEW w \in Warehouses
      PROVE  /\ levels[w] \in [available : Nat, reserved : Nat] /\ held[o][w] \in Nat
             /\ levels[w].reserved >= held[o][w]
  BY DEF CanRelease, ShopInv, ShopTyped, Quantities, Levels
<1>2. Released(o) = [w \in Warehouses |-> [levels[w] EXCEPT !.reserved = levels[w].reserved + (-held[o][w])]]
  BY DEF Released, Shifted, Negated
<1>3. ASSUME NEW w \in Warehouses
      PROVE  Released(o)[w] = [available |-> levels[w].available, reserved |-> levels[w].reserved - held[o][w]]
  BY <1>1, <1>2
<1>4. Released(o) = [w \in Warehouses |-> [available |-> levels[w].available, reserved |-> levels[w].reserved - held[o][w]]]
  BY <1>2, <1>3
<1> QED BY <1>1, <1>3, <1>4 DEF Levels

\* order.created makes a draft that holds its reservations, and is the first of its order.
LEMMA CreateMoves ==
    ASSUME ShopInv, NEW e \in Events, Name(e) = "order.created", CreateOrder(e).ok
    PROVE  Moves(EventOf[e].order, CreateOrder(e)) /\ Counts(e, CreateOrder(e))
<1> DEFINE o == EventOf[e].order
           new == [Absent EXCEPT !.status = "DRAFT", !.revision = 1,
                                 !.qty = EventOf[e].qty, !.total = EventOf[e].amount]
<1>1. o \in Orders /\ EventOf[e].qty \in Nat /\ EventOf[e].amount \in Nat /\ EventOf[e].qty > 0
  BY EventTyped DEF OrderEvents
<1>2. orders[o].status = "none" /\ CreateOrder(e) = Reserving(new, levels)
  BY DEF CreateOrder, Refused
<1>3. orders[o] = Absent
  BY <1>1, <1>2, DraftMeans DEF OrderOK
<1> HIDE DEF o
<1>4. /\ new.status = "DRAFT" /\ new.revision = 1 /\ new.qty = EventOf[e].qty /\ new.captured = 0
      /\ new.paid = 0 /\ ~new.invoiced
  BY <1>1 DEF Absent
<1>5. new \in OrderRecords
  BY <1>1, AbsentTyped DEF OrderRecords, Statuses
<1> HIDE DEF new
<1>6. levels \in Levels /\ \A w \in Warehouses :
          levels[w].reserved = levels[w].reserved - Keeps(orders[o], held[o], w)
  BY <1>3 DEF Keeps, Absent, ShopInv, ShopTyped, Levels
<1>7. Moves(o, Reserving(new, levels)) /\ Reserving(new, levels).order = new
  BY <1>1, <1>2, <1>3, <1>4, <1>5, <1>6, ReservingMoves DEF Absent
<1>8. Counts(e, CreateOrder(e))
  BY <1>2, <1>3, <1>4, <1>7 DEF Counts, Absent, o
<1> QED BY <1>2, <1>7, <1>8 DEF o

\* order.updated of a draft exchanges its reservations and takes a greater revision.
LEMMA UpdateMoves ==
    ASSUME ShopInv, NEW e \in Events, Name(e) = "order.updated", UpdateOrder(e).ok
    PROVE  Moves(EventOf[e].order, UpdateOrder(e)) /\ Counts(e, UpdateOrder(e))
<1> DEFINE o == EventOf[e].order
           new == [orders[o] EXCEPT !.revision = EventOf[e].number, !.qty = EventOf[e].qty,
                                    !.total = EventOf[e].amount]
<1>1. o \in Orders /\ EventOf[e].qty \in Nat /\ EventOf[e].amount \in Nat /\ EventOf[e].qty > 0
      /\ EventOf[e].number \in Nat
  BY EventTyped DEF OrderEvents
<1>2. /\ DraftOrder(o) /\ EventOf[e].number = orders[o].revision + 1 /\ CanRelease(o)
      /\ UpdateOrder(e) = Reserving(new, Released(o))
  BY DEF UpdateOrder, Refused
<1>3. orders[o] \in OrderRecords /\ orders[o].status = "DRAFT" /\ ~orders[o].invoiced /\ orders[o].captured = 0
  BY <1>1, <1>2, DraftMeans DEF DraftOrder
<1>4. /\ new \in OrderRecords /\ new.status = "DRAFT" /\ ~new.invoiced /\ new.captured = 0
      /\ new.qty = EventOf[e].qty /\ new.revision = orders[o].revision + 1 /\ new.paid = orders[o].paid
  BY <1>1, <1>2, <1>3 DEF OrderRecords
<1>5. orders[o].paid = orders[o].captured
  BY <1>1 DEF ShopInv, EffectsMatchEvents
<1> HIDE DEF new, o
<1>6. Released(o) \in Levels /\ \A w \in Warehouses :
          /\ Released(o)[w].available = levels[w].available
          /\ Released(o)[w].reserved = levels[w].reserved - Keeps(orders[o], held[o], w)
  BY <1>1, <1>2, <1>3, ReleasedLevels DEF Keeps
<1>7. Moves(o, Reserving(new, Released(o))) /\ Reserving(new, Released(o)).order = new
  BY <1>1, <1>2, <1>3, <1>4, <1>6, ReservingMoves
<1>8. Counts(e, UpdateOrder(e))
  BY <1>2, <1>3, <1>4, <1>5, <1>7 DEF Counts, o
<1> QED BY <1>2, <1>7, <1>8 DEF o

\* order.cancelled gives the reservations of a draft back and ends the order.
LEMMA CancelMoves ==
    ASSUME ShopInv, NEW e \in Events, Name(e) = "order.cancelled", CancelOrder(e).ok
    PROVE  Moves(EventOf[e].order, CancelOrder(e)) /\ Counts(e, CancelOrder(e))
<1> DEFINE o == EventOf[e].order
           new == [orders[o] EXCEPT !.status = "CANCELLED"]
           h == CancelOrder(e)
<1>1. o \in Orders
  BY EventTyped DEF OrderEvents
<1>2. /\ DraftOrder(o) /\ CanRelease(o) /\ h = Outcome(new, ZeroEach, Released(o), stock)
  BY DEF CancelOrder, Refused
<1>3. orders[o] \in OrderRecords /\ orders[o].status = "DRAFT" /\ ~orders[o].invoiced /\ orders[o].captured = 0
  BY <1>1, <1>2, DraftMeans DEF DraftOrder
<1>4. /\ new \in OrderRecords /\ new.status = "CANCELLED" /\ ~new.invoiced /\ new.captured = 0
      /\ new.revision = orders[o].revision /\ new.paid = orders[o].paid
  BY <1>3 DEF OrderRecords, Statuses
<1>5. orders[o].paid = orders[o].captured /\ stock \in Products /\ levels \in Levels
  BY <1>1 DEF ShopInv, EffectsMatchEvents, ShopTyped
<1> HIDE DEF new, o
<1>6. h.order = new /\ h.held = ZeroEach /\ h.levels = Released(o) /\ h.stock = stock
  BY <1>2 DEF Outcome
<1> HIDE DEF h
<1>7. Released(o) \in Levels /\ \A w \in Warehouses :
          /\ Released(o)[w].available = levels[w].available
          /\ Released(o)[w].reserved = levels[w].reserved - held[o][w]
  BY <1>1, <1>2, ReleasedLevels
<1>8. ASSUME NEW w \in Warehouses
      PROVE  /\ h.levels[w].reserved - Keeps(h.order, h.held, w)
                    = levels[w].reserved - Keeps(orders[o], held[o], w)
             /\ h.levels[w].available = levels[w].available
             /\ levels[w].reserved <= levels[w].available => h.levels[w].reserved <= h.levels[w].available
  <2>1. levels[w] \in [available : Nat, reserved : Nat] /\ held[o][w] \in Nat
    BY <1>1, <1>5, DraftMeans DEF Levels, Quantities
  <2>2. Keeps(h.order, h.held, w) = 0 /\ Keeps(orders[o], held[o], w) = held[o][w]
    BY <1>3, <1>4, <1>6 DEF Keeps
  <2> QED BY <1>6, <1>7, <2>1, <2>2
<1>9. AvailableIn(h.levels) = AvailableIn(levels) /\ AvailableIn(levels) \in Int
  <2>1. [w \in Warehouses |-> levels[w].available] \in Quantities
    BY <1>5 DEF Quantities, Levels
  <2> QED BY <1>8, <2>1, TotalTyped DEF AvailableIn
<1>10. ZeroEach \in Quantities
  BY DEF ZeroEach, Quantities
<1>11. OrderOK(h.order, h.held) /\ ~FirstSale(o, h.order)
  BY <1>4, <1>6 DEF OrderOK, FirstSale
<1>12. \A w \in Warehouses : h.levels[w].available = levels[w].available - Takes(o, h, w)
  BY <1>5, <1>8, <1>11 DEF Takes, Levels
<1>13. Moves(o, h)
  BY <1>3, <1>4, <1>5, <1>6, <1>7, <1>8, <1>9, <1>10, <1>11, <1>12 DEF Moves, Sells
<1>14. Counts(e, h)
  BY <1>3, <1>4, <1>5, <1>6 DEF Counts, o, OrderRecords
<1> QED BY <1>13, <1>14 DEF h, o

\* What is there, and the product as the first invoice makes it.
LEMMA MaterialisedTyped ==
    ASSUME ShopInv
    PROVE  /\ Available \in Nat /\ Available = AvailableIn(levels)
           /\ Materialised \in Products /\ Materialised.made
<1>1. [w \in Warehouses |-> levels[w].available] \in Quantities /\ stock \in Products
  BY DEF ShopInv, ShopTyped, Levels, Quantities
<1>2. Available \in Nat /\ Available = AvailableIn(levels)
  BY <1>1, TotalTyped DEF Available, AvailableIn
<1> QED BY <1>1, <1>2 DEF Materialised, Products

\* payment.captured adds the amount once, and the first one turns what is reserved into
\* goods sold.
LEMMA CaptureMoves ==
    ASSUME ShopInv, NEW e \in Events, Name(e) = "payment.captured", Capture(e).ok
    PROVE  Moves(EventOf[e].order, Capture(e)) /\ Counts(e, Capture(e))
<1> DEFINE o == EventOf[e].order
           captured == orders[o].captured + EventOf[e].amount
           new == [Invoiced(orders[o]) EXCEPT !.captured = captured, !.paid = captured,
                                              !.sequence = EventOf[e].number,
                                              !.status = IF captured = orders[o].total THEN "PAID"
                                                         ELSE "PARTIALLY_PAID"]
           h == Capture(e)
<1>1. o \in Orders /\ EventOf[e].amount \in Nat /\ EventOf[e].number \in Nat
  BY EventTyped DEF OrderEvents
<1>2. /\ orders[o].status \notin {"none", "CANCELLED"} /\ (Converts(o) => CanSell(o))
      /\ h = IF Converts(o)
            THEN Outcome(new, held[o], Sold(o), [Materialised EXCEPT !.current = @ - Total(held[o])])
             ELSE Outcome(new, held[o], levels, stock)
  BY DEF Capture, Refused
<1>3. /\ orders[o] \in OrderRecords /\ held[o] \in Quantities /\ OrderOK(orders[o], held[o])
      /\ levels \in Levels /\ stock \in Products
  BY <1>1, DraftMeans DEF ShopInv, ShopTyped
<1>4. /\ orders[o].qty > 0 /\ Total(held[o]) = orders[o].qty
      /\ orders[o].invoiced <=> orders[o].status # "DRAFT"
  BY <1>2, <1>3 DEF OrderOK, OrderRecords, Statuses
<1>5. captured \in Nat
  BY <1>1, <1>3 DEF OrderRecords
<1> HIDE DEF captured
<1>6. /\ new \in OrderRecords /\ new.status = (IF captured = orders[o].total THEN "PAID" ELSE "PARTIALLY_PAID")
      /\ new.invoiced /\ new.captured = captured /\ new.paid = captured /\ new.qty = orders[o].qty
      /\ new.revision = orders[o].revision /\ new.total = orders[o].total
  BY <1>1, <1>3, <1>5 DEF OrderRecords, Statuses, Invoiced
<1> HIDE DEF new
<1>7. h.order = new /\ h.held = held[o]
  BY <1>2 DEF Outcome
<1>8. /\ Converts(o) => h.levels = Sold(o) /\ h.stock = [Materialised EXCEPT !.current = @ - Total(held[o])]
      /\ ~Converts(o) => h.levels = levels /\ h.stock = stock
  BY <1>2 DEF Outcome
<1> HIDE DEF h
<1>9. OrderOK(new, held[o])
  BY <1>4, <1>6 DEF OrderOK
<1>10. Converts(o) <=> ~orders[o].invoiced
  BY DEF Converts
<1>11. FirstSale(o, h.order) <=> Converts(o)
  BY <1>6, <1>7, <1>10 DEF FirstSale
<1>12. Counts(e, h)
  <2>1. h.order.captured = orders[o].captured + EventOf[e].amount
    BY <1>6, <1>7 DEF captured
  <2>2. h.order.status \in {"PAID", "PARTIALLY_PAID"} /\ orders[o].status # "CANCELLED"
    BY <1>2, <1>6, <1>7
  <2>3. h.order.status = "PAID" => h.order.captured = h.order.total
    BY <1>6, <1>7
  <2>4. h.order.revision = orders[o].revision + 0 /\ h.order.paid = h.order.captured
    BY <1>3, <1>6, <1>7 DEF OrderRecords
  <2> QED BY <2>1, <2>2, <2>3, <2>4 DEF Counts, o
<1>13. ASSUME NEW w \in Warehouses
       PROVE  /\ levels[w].available \in Nat /\ levels[w].reserved \in Nat /\ held[o][w] \in Nat
  BY <1>3 DEF Levels, Quantities
<1>14. [w \in Warehouses |-> levels[w].available] \in Quantities
  BY <1>13 DEF Quantities
<1>15. CASE orders[o].invoiced
  <2>1. h.levels = levels /\ h.stock = stock /\ orders[o].status # "DRAFT" /\ new.status # "DRAFT"
    BY <1>4, <1>6, <1>8, <1>10, <1>15
  <2>2. \A w \in Warehouses : Keeps(h.order, h.held, w) = 0 /\ Keeps(orders[o], held[o], w) = 0
    BY <1>7, <2>1 DEF Keeps
  <2>3. \A w \in Warehouses :
          /\ h.levels[w].reserved - Keeps(h.order, h.held, w)
                    = levels[w].reserved - Keeps(orders[o], held[o], w)
          /\ h.levels[w].available = levels[w].available - Takes(o, h, w)
          /\ levels[w].reserved <= levels[w].available => h.levels[w].reserved <= h.levels[w].available
    BY <1>10, <1>11, <1>13, <1>15, <2>1, <2>2 DEF Takes
  <2>4. AvailableIn(h.levels) = AvailableIn(levels) - Sells(o, h.order)
    BY <1>10, <1>11, <1>14, <1>15, <2>1, TotalTyped DEF AvailableIn, Sells
  <2>5. Moves(o, h)
    BY <1>3, <1>6, <1>7, <1>9, <1>10, <1>11, <1>15, <2>1, <2>3, <2>4 DEF Moves
  <2> QED BY <1>12, <2>5 DEF h, o
<1>16. CASE ~orders[o].invoiced
  <2>1. /\ h.levels = Sold(o) /\ CanSell(o)
        /\ h.stock = [Materialised EXCEPT !.current = @ - orders[o].qty]
        /\ orders[o].status = "DRAFT" /\ new.status # "DRAFT"
    BY <1>2, <1>4, <1>6, <1>8, <1>10, <1>16
  <2>2. ASSUME NEW w \in Warehouses
        PROVE  /\ held[o][w] <= levels[w].reserved /\ held[o][w] <= levels[w].available
               /\ Sold(o)[w].available = levels[w].available - held[o][w]
               /\ Sold(o)[w].reserved = levels[w].reserved - held[o][w]
    <3>1. held[o][w] <= Min({levels[w].reserved, levels[w].available})
      BY <2>1 DEF CanSell
    <3>2. levels[w].reserved \in Int /\ levels[w].available \in Int
      BY <1>13
    <3>3. Min({levels[w].reserved, levels[w].available}) =
            IF levels[w].reserved <= levels[w].available THEN levels[w].reserved ELSE levels[w].available
      BY <3>2, TwoCompared, Zenon
    <3> QED BY <1>13, <3>1, <3>3 DEF Sold
  <2>3. Sold(o) \in Levels
    <3>1. Sold(o) = [w \in Warehouses |-> [available |-> levels[w].available - held[o][w],
                                           reserved |-> levels[w].reserved - held[o][w]]]
      BY DEF Sold
    <3> QED BY <1>13, <2>2, <3>1 DEF Levels
  <2>4. \A w \in Warehouses :
          /\ h.levels[w].reserved - Keeps(h.order, h.held, w)
                    = levels[w].reserved - Keeps(orders[o], held[o], w)
          /\ h.levels[w].available = levels[w].available - Takes(o, h, w)
          /\ levels[w].reserved <= levels[w].available => h.levels[w].reserved <= h.levels[w].available
    <3> TAKE w \in Warehouses
    <3>1. Keeps(h.order, h.held, w) = 0 /\ Keeps(orders[o], held[o], w) = held[o][w]
      BY <1>7, <2>1 DEF Keeps
    <3>2. h.levels[w].available = levels[w].available - held[o][w]
          /\ h.levels[w].reserved = levels[w].reserved - held[o][w]
      BY <2>1, <2>2
    <3>3. Takes(o, h, w) = held[o][w]
      BY <1>7, <1>10, <1>11, <1>16 DEF Takes
    <3> QED BY <1>13, <3>1, <3>2, <3>3
  <2>5. AvailableIn(levels) = AvailableIn(Sold(o)) + Total(held[o])
    <3> DEFINE f == [w \in Warehouses |-> Sold(o)[w].available]
               g == [w \in Warehouses |-> levels[w].available]
    <3>1. ASSUME NEW w \in Warehouses
          PROVE  f[w] \in Int /\ held[o][w] \in Int /\ g[w] = f[w] + held[o][w]
      <4>1. f[w] = levels[w].available - held[o][w] /\ g[w] = levels[w].available
        BY <2>2
      <4> QED BY <1>13, <4>1
    <3> HIDE DEF f, g
    <3>2. SumFunctionOnSet(g, Warehouses) = SumFunctionOnSet(f, Warehouses) + SumFunctionOnSet(held[o], Warehouses)
      BY <3>1, WarehousesFinite, SumPlus
    <3> QED BY <3>2 DEF AvailableIn, Total, f, g
  <2>6. AvailableIn(levels) \in Int /\ AvailableIn(Sold(o)) \in Int
    <3>1. [w \in Warehouses |-> Sold(o)[w].available] \in Quantities
      BY <2>3 DEF Quantities, Levels
    <3> QED BY <1>14, <3>1, TotalTyped DEF AvailableIn
  <2>7. Sells(o, h.order) = orders[o].qty /\ orders[o].qty \in Int
    BY <1>3, <1>6, <1>7, <1>10, <1>11, <1>16 DEF Sells, OrderRecords
  <2>8. AvailableIn(h.levels) = AvailableIn(levels) - Sells(o, h.order)
    BY <1>4, <2>1, <2>5, <2>6, <2>7
  <2>9. [Materialised EXCEPT !.current = @ - orders[o].qty] \in Products
    BY <1>3, <2>7, MaterialisedTyped DEF Products
  <2>10. Moves(o, h)
    BY <1>3, <1>6, <1>7, <1>9, <1>10, <1>11, <1>16, <2>1, <2>3, <2>4, <2>8, <2>9 DEF Moves
  <2> QED BY <1>12, <2>10 DEF h, o
<1> QED BY <1>15, <1>16
-----------------------------------------------------------------------------
(* The books of the orders after an event.                                 *)

\* Whatever event of an order is applied, it moves that order's goods and counts itself.
LEMMA OrderEventMoves ==
    ASSUME ShopInv, NEW e \in Events, Name(e) \in OrderEvents, Handled(e).ok
    PROVE  Moves(EventOf[e].order, Handled(e)) /\ Counts(e, Handled(e))
<1>1. CASE Name(e) = "order.created"
  <2>1. Handled(e) = CreateOrder(e)
    BY <1>1 DEF Handled
  <2> QED BY <1>1, <2>1, CreateMoves
<1>2. CASE Name(e) = "order.updated"
  <2>1. Handled(e) = UpdateOrder(e)
    BY <1>2 DEF Handled
  <2> QED BY <1>2, <2>1, UpdateMoves
<1>3. CASE Name(e) = "order.cancelled"
  <2>1. Handled(e) = CancelOrder(e)
    BY <1>3 DEF Handled
  <2> QED BY <1>3, <2>1, CancelMoves
<1>4. CASE Name(e) = "payment.captured"
  <2>1. Handled(e) = Capture(e)
    BY <1>4 DEF Handled
  <2> QED BY <1>4, <2>1, CaptureMoves
<1> QED BY <1>1, <1>2, <1>3, <1>4 DEF OrderEvents

\* Master data changes no order and no product; a stock message sets the levels.
LEMMA MasterEventSets ==
    ASSUME NEW e \in Events, Name(e) \in MasterEvents, Handled(e).ok
    PROVE  /\ Handled(e).order = Absent /\ Handled(e).stock = stock
           /\ Handled(e).levels = IF Name(e) = "inventory.updated"
                                  THEN Pushed[e] ELSE levels
<1>1. CASE Name(e) = "inventory.updated"
  <2>1. Handled(e) = ReplaceInventory(e)
    BY <1>1 DEF Handled
  <2> QED BY <1>1, <2>1 DEF ReplaceInventory, Refused, Outcome
<1>2. CASE Name(e) # "inventory.updated"
  <2>1. \/ Handled(e) = ReplacePrices(e) \/ Handled(e) = UpsertProduct(e)
        \/ Handled(e) = UpsertCustomer(e) \/ Handled(e) = UpsertShopCustomer(e)
    BY <1>2 DEF Handled, MasterEvents
  <2>2. \E kind \in Masters : Handled(e) = Mapped(kind)
    BY <2>1 DEF ReplacePrices, UpsertProduct, UpsertCustomer, UpsertShopCustomer, Refused, Masters
  <2> QED BY <1>2, <2>2 DEF Mapped, Outcome
<1> QED BY <1>1, <1>2

\* The part of one order in a sum over some of them, and the rest.
LEMMA OneAndRest ==
    ASSUME NEW D \in SUBSET Orders, NEW f, \A p \in Orders : f[p] \in Nat, NEW o \in Orders
    PROVE  /\ SumFunctionOnSet(f, D) = (IF o \in D THEN f[o] ELSE 0) + SumFunctionOnSet(f, D \ {o})
           /\ SumFunctionOnSet(f, D \ {o}) \in Nat
<1>1. IsFiniteSet(D) /\ IsFiniteSet(D \ {o})
  BY ShopAssumption, FS_Subset
<1>2. \A p \in D : f[p] \in Int
  OBVIOUS
<1>3. SumFunctionOnSet(f, D \ {o}) \in Nat
  <2>1. \A p \in D \ {o} : f[p] \in Nat
    OBVIOUS
  <2> QED BY <1>1, <2>1, SumNat
<1>4. o \in D => SumFunctionOnSet(f, D) = f[o] + SumFunctionOnSet(f, D \ {o})
  BY <1>1, <1>2, SumRest
<1>5. o \notin D => D \ {o} = D
  OBVIOUS
<1> QED BY <1>3, <1>4, <1>5

\* The terms f over the orders of D and g over those of E, which differ at o alone; and
\* what o adds to a sum.
DifferAt(o, f, D, g, E) ==
    /\ o \in Orders /\ D \in SUBSET Orders /\ E \in SUBSET Orders /\ D \ {o} = E \ {o}
    /\ \A p \in Orders : f[p] \in Nat
    /\ \A p \in Orders : g[p] \in Nat
    /\ \A p \in Orders \ {o} : g[p] = f[p]
Part(o, f, D) == IF o \in D THEN f[o] ELSE 0

\* A sum over some orders moves by the part of the one that changes.
LEMMA OneMoves ==
    ASSUME NEW o, NEW f, NEW D, NEW g, NEW E, DifferAt(o, f, D, g, E)
    PROVE  /\ SumFunctionOnSet(f, D) \in Nat /\ SumFunctionOnSet(g, E) \in Nat
           /\ Part(o, f, D) \in Nat /\ Part(o, g, E) \in Nat
           /\ SumFunctionOnSet(g, E) - Part(o, g, E) = SumFunctionOnSet(f, D) - Part(o, f, D)
<1>1. /\ o \in Orders /\ D \in SUBSET Orders /\ E \in SUBSET Orders /\ D \ {o} = E \ {o}
      /\ \A p \in D \ {o} : f[p] = g[p]
  BY DEF DifferAt
<1>2. \A p \in Orders : f[p] \in Nat
  BY DEF DifferAt
<1>3. \A p \in Orders : g[p] \in Nat
  BY DEF DifferAt
<1>4. SumFunctionOnSet(f, D \ {o}) = SumFunctionOnSet(g, E \ {o})
  <2>1. IsFiniteSet(D \ {o})
    BY <1>1, ShopAssumption, FS_Subset
  <2> QED BY <1>1, <2>1, SumEqual
<1>5. /\ SumFunctionOnSet(f, D) = (IF o \in D THEN f[o] ELSE 0) + SumFunctionOnSet(f, D \ {o})
      /\ SumFunctionOnSet(f, D \ {o}) \in Nat
  BY <1>1, <1>2, OneAndRest
<1>6. SumFunctionOnSet(g, E) = (IF o \in E THEN g[o] ELSE 0) + SumFunctionOnSet(g, E \ {o})
  <2>1. o \in Orders /\ E \in SUBSET Orders
    BY <1>1
  <2> QED BY <1>3, <2>1, OneAndRest
<1>7. f[o] \in Nat /\ g[o] \in Nat
  BY <1>1, <1>2, <1>3
<1> QED BY <1>4, <1>5, <1>6, <1>7 DEF Part

\* What drafts hold in a warehouse and invoices took of it are natural numbers; and
\* what one invoice took is part of the second.
LEMMA SumsTyped ==
    ASSUME ShopInv, NEW w \in Warehouses
    PROVE  /\ Reservations(w) \in Nat /\ Sales(w) \in Nat
           /\ \A o \in InvoicedOrders : held[o][w] <= Sales(w)
<1> DEFINE f == HeldIn(w)
<1>1. \A o \in Orders : f[o] = held[o][w] /\ f[o] \in Nat
  BY DEF HeldIn, ShopInv, ShopTyped, Quantities
<1>2. /\ DraftOrders \subseteq Orders /\ InvoicedOrders \subseteq Orders
      /\ IsFiniteSet(DraftOrders) /\ IsFiniteSet(InvoicedOrders)
  BY ShopAssumption, FS_Subset DEF DraftOrders, InvoicedOrders
<1> HIDE DEF f
<1>3. SumFunctionOnSet(f, DraftOrders) \in Nat
  BY <1>1, <1>2, SumNat
<1>4. /\ SumFunctionOnSet(f, InvoicedOrders) \in Nat
      /\ \A o \in InvoicedOrders : f[o] <= SumFunctionOnSet(f, InvoicedOrders)
  BY <1>1, <1>2, SumNat
<1> QED BY <1>1, <1>2, <1>3, <1>4 DEF Reservations, Sales, f

\* What an event of the order o leaves.
LEMMA OrderCompletes ==
    ASSUME ShopInv, NEW o \in Orders, NEW h, Moves(o, h),
           orders' = [orders EXCEPT ![o] = h.order], held' = [held EXCEPT ![o] = h.held],
           levels' = h.levels, stock' = h.stock, told' = told
    PROVE  ShopBooks'
<1>1. /\ orders \in [Orders -> OrderRecords] /\ held \in [Orders -> Quantities] /\ levels \in Levels
      /\ OrdersOK /\ ReservedIsHeld /\ SoldOnce /\ stock \in Products /\ told \in Tellings
  BY DEF ShopInv, ShopTyped, ShopBooks
<1>0. o \in Orders
  OBVIOUS
<1>2. /\ orders'[o] = h.order /\ held'[o] = h.held
      /\ \A p \in Orders \ {o} : orders'[p] = orders[p] /\ held'[p] = held[p]
      /\ orders' \in [Orders -> OrderRecords] /\ held' \in [Orders -> Quantities]
  BY <1>1 DEF Moves
<1>3. OrdersOK'
  BY <1>1, <1>2 DEF OrdersOK, Moves, OrderOK
<1> DEFINE D == DraftOrders
           E == DraftOrders'
           I == InvoicedOrders
           J == InvoicedOrders'
<1>4. /\ D \in SUBSET Orders /\ E \in SUBSET Orders /\ D \ {o} = E \ {o}
      /\ I \in SUBSET Orders /\ J \in SUBSET Orders /\ I \ {o} = J \ {o}
  BY <1>2 DEF DraftOrders, DraftOrder, InvoicedOrders
<1>5. /\ o \in D <=> orders[o].status = "DRAFT"
      /\ o \in E <=> h.order.status = "DRAFT"
      /\ o \in I <=> orders[o].invoiced
      /\ o \in J <=> h.order.invoiced
  BY <1>1, <1>2 DEF DraftOrders, DraftOrder, InvoicedOrders, Moves, OrdersOK, OrderOK
<1>6. /\ \A w \in Warehouses : Reservations(w)' = SumFunctionOnSet(HeldIn(w)', E)
      /\ \A w \in Warehouses : Sales(w)' = SumFunctionOnSet(HeldIn(w)', J)
      /\ InvoicedQty' = SumFunctionOnSet([p \in Orders |-> orders'[p].qty], J)
  BY DEF Reservations, Sales, InvoicedQty
<1> HIDE DEF D, E, I, J
<1>7. ASSUME NEW w \in Warehouses
      PROVE  /\ Reservations(w) \in Nat /\ Reservations(w)' \in Nat
             /\ Reservations(w)' - Keeps(h.order, h.held, w) = Reservations(w) - Keeps(orders[o], held[o], w)
             /\ Sales(w) \in Nat /\ Sales(w)' \in Nat
             /\ Sales(w)' = Sales(w) + Takes(o, h, w)
  <2> DEFINE f == HeldIn(w)
             g == HeldIn(w)'
  <2>1. /\ \A p \in Orders : f[p] \in Nat /\ g[p] \in Nat
        /\ \A p \in Orders \ {o} : g[p] = f[p]
        /\ f[o] = held[o][w] /\ g[o] = h.held[w]
    BY <1>1, <1>2 DEF HeldIn, Quantities
  <2>2. /\ Reservations(w) = SumFunctionOnSet(f, D) /\ Reservations(w)' = SumFunctionOnSet(g, E)
        /\ Sales(w) = SumFunctionOnSet(f, I) /\ Sales(w)' = SumFunctionOnSet(g, J)
    BY <1>6 DEF Reservations, Sales, D, I
  <2> HIDE DEF f, g
  <2>3. DifferAt(o, f, D, g, E) /\ DifferAt(o, f, I, g, J)
    BY <1>0, <1>4, <2>1 DEF DifferAt
  <2>4. /\ SumFunctionOnSet(f, D) \in Nat /\ SumFunctionOnSet(g, E) \in Nat
        /\ Part(o, f, D) \in Nat /\ Part(o, g, E) \in Nat
        /\ SumFunctionOnSet(g, E) - Part(o, g, E) = SumFunctionOnSet(f, D) - Part(o, f, D)
    BY <2>3, OneMoves
  <2>5. /\ SumFunctionOnSet(f, I) \in Nat /\ SumFunctionOnSet(g, J) \in Nat
        /\ Part(o, f, I) \in Nat /\ Part(o, g, J) \in Nat
        /\ SumFunctionOnSet(g, J) - Part(o, g, J) = SumFunctionOnSet(f, I) - Part(o, f, I)
    BY <2>3, OneMoves
  <2>6. /\ Keeps(orders[o], held[o], w) = Part(o, f, D)
        /\ Keeps(h.order, h.held, w) = Part(o, g, E)
    BY <1>5, <2>1 DEF Keeps, Part
  <2>7. orders[o].invoiced => h.order.invoiced /\ h.held = held[o]
    BY DEF Moves
  <2>8. f[o] \in Nat /\ g[o] \in Nat
    BY <1>0, <2>1
  <2>9. Takes(o, h, w) = Part(o, g, J) - Part(o, f, I)
    BY <1>5, <2>1, <2>7, <2>8 DEF Takes, FirstSale, Part
  <2> QED BY <2>2, <2>4, <2>5, <2>6, <2>9
<1>8. ReservedIsHeld'
  <2>1. ASSUME NEW p \in Orders, orders'[p].status \notin {"none", "CANCELLED"}
        PROVE  Total(held'[p]) = orders'[p].qty
    BY <1>2, <1>3, <2>1 DEF OrdersOK, OrderOK, OrderRecords, Statuses
  <2>2. ASSUME NEW w \in Warehouses
        PROVE  /\ levels'[w].reserved - told'[w].reserved = Reservations(w)' - told'[w].held
               /\ told'[w].available - levels'[w].available = Sales(w)' - told'[w].sold
               /\ told'[w].reserved <= told'[w].available => levels'[w].reserved <= levels'[w].available
    <3>1. /\ h.levels[w].reserved - Keeps(h.order, h.held, w)
                 = levels[w].reserved - Keeps(orders[o], held[o], w)
          /\ h.levels[w].available = levels[w].available - Takes(o, h, w)
          /\ levels[w].reserved <= levels[w].available => h.levels[w].reserved <= h.levels[w].available
      BY DEF Moves
    <3>2. /\ levels[w].reserved - told[w].reserved = Reservations(w) - told[w].held
          /\ told[w].available - levels[w].available = Sales(w) - told[w].sold
          /\ told[w].reserved <= told[w].available => levels[w].reserved <= levels[w].available
      BY <1>1 DEF ReservedIsHeld
    <3>3. /\ levels[w].reserved \in Nat /\ levels[w].available \in Nat
          /\ h.levels[w].reserved \in Nat /\ h.levels[w].available \in Nat
          /\ told[w].reserved \in Nat /\ told[w].available \in Nat
          /\ told[w].held \in Nat /\ told[w].sold \in Nat
      BY <1>1 DEF Moves, Levels, Tellings
    <3>4. /\ Keeps(h.order, h.held, w) \in Nat /\ Keeps(orders[o], held[o], w) \in Nat
          /\ Takes(o, h, w) \in Nat
      BY <1>1 DEF Moves, Keeps, Takes, Quantities
    <3>5. /\ Reservations(w) \in Nat /\ Reservations(w)' \in Nat
          /\ Reservations(w)' - Keeps(h.order, h.held, w) = Reservations(w) - Keeps(orders[o], held[o], w)
          /\ Sales(w) \in Nat /\ Sales(w)' \in Nat
          /\ Sales(w)' = Sales(w) + Takes(o, h, w)
      BY <1>7
    <3>6. levels'[w] = h.levels[w] /\ told'[w] = told[w]
      OBVIOUS
    <3> QED BY <3>1, <3>2, <3>3, <3>4, <3>5, <3>6
  <2> QED BY <2>1, <2>2 DEF ReservedIsHeld
<1>9. /\ InvoicedQty \in Nat /\ InvoicedQty' \in Nat /\ Sells(o, h.order) \in Nat
      /\ InvoicedQty' = InvoicedQty + Sells(o, h.order)
  <2> DEFINE f == [p \in Orders |-> orders[p].qty]
             g == [p \in Orders |-> orders'[p].qty]
  <2>1. /\ \A p \in Orders : f[p] \in Nat /\ g[p] \in Nat
        /\ \A p \in Orders \ {o} : g[p] = f[p]
        /\ f[o] = orders[o].qty /\ g[o] = h.order.qty
    BY <1>1, <1>2 DEF OrderRecords
  <2>2. InvoicedQty = SumFunctionOnSet(f, I) /\ InvoicedQty' = SumFunctionOnSet(g, J)
    BY <1>6 DEF InvoicedQty, I
  <2> HIDE DEF f, g
  <2>3. DifferAt(o, f, I, g, J)
    BY <1>0, <1>4, <2>1 DEF DifferAt
  <2>4. /\ SumFunctionOnSet(f, I) \in Nat /\ SumFunctionOnSet(g, J) \in Nat
        /\ SumFunctionOnSet(g, J) - Part(o, g, J) = SumFunctionOnSet(f, I) - Part(o, f, I)
        /\ Part(o, f, I) \in Nat /\ Part(o, g, J) \in Nat
    BY <2>3, OneMoves
  <2>5. orders[o].invoiced => h.order.invoiced /\ h.order.qty = orders[o].qty
    BY DEF Moves
  <2>6. f[o] \in Nat /\ g[o] \in Nat
    BY <1>0, <2>1
  <2>7. Sells(o, h.order) = Part(o, g, J) - Part(o, f, I)
    BY <1>5, <2>1, <2>5, <2>6 DEF Sells, FirstSale, Part
  <2>8. Sells(o, h.order) \in Nat
    BY <2>1, <2>6 DEF Sells
  <2> QED BY <2>2, <2>4, <2>7, <2>8
<1>10. /\ Available \in Nat /\ Available' = AvailableIn(h.levels)
       /\ Available' = Available - Sells(o, h.order)
       /\ Materialised \in Products /\ Materialised.made
  <2>1. Available' = AvailableIn(h.levels)
    BY DEF Available, AvailableIn, Total
  <2>2. AvailableIn(h.levels) = AvailableIn(levels) - Sells(o, h.order)
    BY DEF Moves
  <2> QED BY <2>1, <2>2, MaterialisedTyped
<1>11. SoldOnce'
  <2> DEFINE Quiet == \A w \in Warehouses : told[w].sold = 0
  <2>1. /\ stock.made <=> I # {}
        /\ stock.made => stock.current = stock.opening - InvoicedQty
        /\ stock.made /\ Quiet => stock.current = Available
    BY <1>1 DEF SoldOnce, I
  <2>2. SUFFICES /\ stock'.made <=> J # {}
                 /\ stock'.made => stock'.current = stock'.opening - InvoicedQty'
                 /\ stock'.made /\ Quiet => stock'.current = Available'
    BY DEF SoldOnce, J
  <2> HIDE DEF Quiet
  <2>3. CASE FirstSale(o, h.order)
    <3>1. stock' = [Materialised EXCEPT !.current = @ - h.order.qty] /\ Sells(o, h.order) = h.order.qty
      BY <2>3 DEF Moves, Sells
    <3>2. o \in J /\ stock'.made
      BY <1>5, <1>10, <2>3, <3>1 DEF FirstSale, Products
    <3>3. /\ stock'.opening = Materialised.opening
          /\ stock'.current = Materialised.current - h.order.qty
          /\ Materialised.opening \in Nat /\ Materialised.current \in Int
      BY <1>10, <3>1 DEF Products
    <3>4. CASE stock.made
      <4>1. Materialised = stock
        BY <3>4 DEF Materialised
      <4> QED BY <1>9, <1>10, <2>1, <3>1, <3>2, <3>3, <3>4, <4>1
    <3>5. CASE ~stock.made
      <4>1. Materialised.opening = Available /\ Materialised.current = Available
        BY <3>5 DEF Materialised
      <4>2. InvoicedQty = 0
        BY <2>1, <3>5, SumEmpty DEF InvoicedQty, I
      <4> QED BY <1>9, <1>10, <3>1, <3>2, <3>3, <4>1, <4>2
    <3> QED BY <3>4, <3>5
  <2>4. CASE ~FirstSale(o, h.order)
    <3>1. stock' = stock /\ Sells(o, h.order) = 0
      BY <2>4 DEF Moves, Sells
    <3>2. orders[o].invoiced => h.order.invoiced
      BY DEF Moves
    <3>3. J # {} <=> I # {}
      BY <1>4, <1>5, <2>4, <3>2 DEF FirstSale
    <3> QED BY <1>9, <1>10, <2>1, <3>1, <3>3
  <2> QED BY <2>3, <2>4
<1> QED BY <1>3, <1>8, <1>11 DEF ShopBooks

\* What a completed event leaves of the replay records.
LEMMA ReplayGrows ==
    ASSUME ShopInv, NEW s \in Sessions, Complete(s)
    PROVE  LET e == session[s].event
           IN  /\ e \in Events /\ e \notin DOMAIN replay /\ ~Duplicate(e) /\ Handled(e).ok
               /\ DOMAIN replay' = DOMAIN replay \cup {e} /\ IsFiniteSet(DOMAIN replay')
               /\ replay'[e] = Response(Handled(e).order)
<1> DEFINE e == session[s].event
<1>1. session[s].phase = "claimed" /\ Handled(e).ok
  BY DEF Complete
<1>2. e \in Events /\ ~Duplicate(e)
  BY <1>1 DEF ShopInv, ShopTyped, ClaimsApart
<1>3. e \notin DOMAIN replay
  BY <1>2 DEF Duplicate, Collide
<1>4. replay' = [f \in DOMAIN replay \cup {e} |-> IF f = e THEN Response(Handled(e).order) ELSE replay[f]]
  BY DEF Complete
<1> HIDE DEF e
<1>5. DOMAIN replay' = DOMAIN replay \cup {e} /\ replay'[e] = Response(Handled(e).order)
  BY <1>4
<1>6. IsFiniteSet(DOMAIN replay')
  BY <1>5, FS_AddElement DEF ShopInv, ShopTyped
<1> QED BY <1>1, <1>2, <1>3, <1>5, <1>6 DEF e

\* An event of the master data leaves orders and reservations alone.
LEMMA MasterCompletes ==
    ASSUME ShopInv, NEW s \in Sessions, Complete(s), Name(session[s].event) \in MasterEvents
    PROVE  /\ ShopBooks' /\ UNCHANGED <<orders, held, stock>>
           /\ levels' \in Levels /\ told' \in Tellings
<1> DEFINE e == session[s].event
<1>1. e \in Events /\ Handled(e).ok
  BY ReplayGrows
<1>2. EventOf[e].order \notin Orders
  BY <1>1, EventTyped DEF OrderEvents, MasterEvents
<1>3. UNCHANGED <<orders, held>> /\ levels' = Handled(e).levels /\ stock' = Handled(e).stock
  BY <1>2 DEF Complete
<1>4. stock' = stock /\ levels' = IF Name(e) = "inventory.updated" THEN Pushed[e] ELSE levels
  BY <1>1, <1>3, MasterEventSets
<1>5. /\ levels \in Levels /\ told \in Tellings /\ held \in [Orders -> Quantities]
      /\ OrdersOK /\ ReservedIsHeld /\ SoldOnce
  BY DEF ShopInv, ShopTyped, ShopBooks
<1>6. told' = IF Name(e) # "inventory.updated" THEN told
              ELSE [w \in Warehouses |->
                       [available |-> levels'[w].available, reserved |-> levels'[w].reserved,
                        held |-> Reservations(w), sold |-> Sales(w)]]
  BY DEF Complete
<1> HIDE DEF e
<1>7. /\ InvoicedQty' = InvoicedQty /\ InvoicedOrders' = InvoicedOrders /\ OrdersOK'
      /\ \A w \in Warehouses : Reservations(w)' = Reservations(w) /\ Sales(w)' = Sales(w)
  BY <1>3, <1>5 DEF InvoicedQty, InvoicedOrders, OrdersOK, Reservations, Sales, DraftOrders, DraftOrder, HeldIn
<1>8. CASE Name(e) # "inventory.updated"
  <2>1. levels' = levels /\ told' = told
    BY <1>4, <1>6, <1>8
  <2>2. Available' = Available
    BY <2>1 DEF Available
  <2>3. ReservedIsHeld'
    BY <1>3, <1>5, <1>7, <2>1 DEF ReservedIsHeld
  <2>4. SoldOnce'
    BY <1>4, <1>5, <1>7, <2>1, <2>2 DEF SoldOnce
  <2> QED BY <1>3, <1>4, <1>5, <1>7, <2>1, <2>3, <2>4 DEF ShopBooks
<1>9. CASE Name(e) = "inventory.updated"
  <2>1. levels' = Pushed[e] /\ levels' \in Levels
    BY <1>1, <1>4, <1>9, ShopAssumption DEF Levels, Name
  <2>2. ASSUME NEW w \in Warehouses
        PROVE  /\ levels'[w].available \in Nat /\ levels'[w].reserved \in Nat
               /\ Reservations(w) \in Nat /\ Sales(w) \in Nat
               /\ told'[w].available = levels'[w].available /\ told'[w].reserved = levels'[w].reserved
               /\ told'[w].held = Reservations(w) /\ told'[w].sold = Sales(w)
    <3>1. Reservations(w) \in Nat /\ Sales(w) \in Nat
      BY SumsTyped
    <3> QED BY <1>6, <1>9, <2>1, <3>1 DEF Levels
  <2>3. told' \in Tellings
    BY <1>6, <1>9, <2>2 DEF Tellings
  <2>4. ReservedIsHeld'
    <3>1. \A o \in Orders : orders'[o].status \notin {"none", "CANCELLED"} => Total(held'[o]) = orders'[o].qty
      BY <1>3, <1>5 DEF ReservedIsHeld, Total
    <3>2. ASSUME NEW w \in Warehouses
          PROVE  /\ levels'[w].reserved - told'[w].reserved = Reservations(w)' - told'[w].held
                 /\ told'[w].available - levels'[w].available = Sales(w)' - told'[w].sold
                 /\ told'[w].reserved <= told'[w].available => levels'[w].reserved <= levels'[w].available
      <4>1. Reservations(w)' = Reservations(w) /\ Sales(w)' = Sales(w)
        BY <1>7
      <4> QED BY <2>2, <4>1
    <3> QED BY <3>1, <3>2 DEF ReservedIsHeld
  <2>5. ASSUME stock.made PROVE \E w \in Warehouses : told'[w].sold # 0
    <3>1. PICK o \in InvoicedOrders : TRUE
      BY <1>5, <2>5 DEF SoldOnce
    <3>2. o \in Orders /\ orders[o].invoiced /\ held[o] \in Quantities
      BY <1>5, <3>1 DEF InvoicedOrders
    <3>3. orders[o].qty > 0 /\ Total(held[o]) = orders[o].qty
      BY <1>5, <3>2 DEF OrdersOK, OrderOK
    <3>4. PICK w \in Warehouses : held[o][w] # 0
      BY <3>2, <3>3, Nothing
    <3>5. held[o][w] \in Nat /\ held[o][w] <= Sales(w) /\ Sales(w) \in Nat
      BY <3>1, <3>2, SumsTyped DEF Quantities
    <3>6. told'[w].sold = Sales(w)
      BY <2>2, <3>4
    <3> QED BY <3>4, <3>5, <3>6
  <2>6. SoldOnce'
    BY <1>4, <1>5, <1>7, <2>5 DEF SoldOnce
  <2> QED BY <1>3, <1>4, <1>7, <2>1, <2>3, <2>4, <2>6 DEF ShopBooks
<1> QED BY <1>8, <1>9

\* A completed event of an order, put together.
LEMMA OrderEventCompletes ==
    ASSUME ShopInv, NEW s \in Sessions, Complete(s), Name(session[s].event) \in OrderEvents
    PROVE  LET e == session[s].event
               o == EventOf[e].order
               h == Handled(e)
           IN  /\ ShopBooks' /\ o \in Orders /\ Moves(o, h) /\ Counts(e, h)
               /\ orders' = [orders EXCEPT ![o] = h.order] /\ held' = [held EXCEPT ![o] = h.held]
               /\ levels' = h.levels /\ stock' = h.stock /\ told' = told
<1> DEFINE e == session[s].event
           o == EventOf[e].order
           h == Handled(e)
<1>1. e \in Events /\ h.ok /\ DOMAIN replay' = DOMAIN replay \cup {e}
  BY ReplayGrows
<1>2. o \in Orders
  BY <1>1, EventTyped
<1>3. Moves(o, h) /\ Counts(e, h)
  BY <1>1, OrderEventMoves
<1>4. /\ orders' = [orders EXCEPT ![o] = h.order] /\ held' = [held EXCEPT ![o] = h.held]
      /\ levels' = h.levels /\ stock' = h.stock /\ told' = told
  BY <1>2 DEF Complete, OrderEvents
<1> HIDE DEF h
<1>6. ShopBooks'
  BY <1>2, <1>3, <1>4, OrderCompletes
<1> QED BY <1>2, <1>3, <1>4, <1>6 DEF h

-----------------------------------------------------------------------------
(* The effects of the completed events.                                    *)

\* The completed events of an order, by name, after one more.
LEMMA CompletedGrows ==
    ASSUME NEW e, DOMAIN replay' = DOMAIN replay \cup {e}, NEW name, NEW o
    PROVE  Completed(name, o)' = Completed(name, o) \cup
               (IF Name(e) = name /\ EventOf[e].order = o THEN {e} ELSE {})
BY DEF Completed, Name

\* A completed event is counted once in what is recorded and in what was done.
LEMMA EffectsCounted ==
    ASSUME ShopInv, NEW s \in Sessions, Complete(s)
    PROVE  EffectsMatchEvents'
<1> DEFINE e == session[s].event
<1>1. /\ e \in Events /\ e \notin DOMAIN replay /\ DOMAIN replay' = DOMAIN replay \cup {e}
      /\ IsFiniteSet(DOMAIN replay)
  BY ReplayGrows DEF ShopInv, ShopTyped
<1>2. outbox' = IF QueuedFor(e) THEN [outbox EXCEPT ![e] = @ + 1] ELSE outbox
  BY DEF Complete
<1>3. outbox \in [Events -> Nat] /\ EffectsMatchEvents /\ orders \in [Orders -> OrderRecords]
  BY DEF ShopInv, ShopTyped
<1>4. /\ Name(e) \in OrderEvents => LET o == EventOf[e].order
                                    IN  /\ o \in Orders /\ Counts(e, Handled(e)) /\ Handled(e).order \in OrderRecords
                                        /\ orders' = [orders EXCEPT ![o] = Handled(e).order]
      /\ Name(e) \notin OrderEvents => EventOf[e].order \notin Orders /\ orders' = orders
  <2>1. CASE Name(e) \in OrderEvents
    BY <2>1, OrderEventCompletes DEF Moves
  <2>2. CASE Name(e) \notin OrderEvents
    BY <1>1, <2>2, EventTyped, MasterCompletes
  <2> QED BY <2>1, <2>2
<1> HIDE DEF e
<1>5. ASSUME NEW f \in Events
      PROVE  outbox'[f] = IF f \in DOMAIN replay' /\ QueuedFor(f)' THEN 1 ELSE 0
  <2>1. QueuedFor(f)' <=> QueuedFor(f)
    BY DEF QueuedFor, Name
  <2>2. outbox[f] = IF f \in DOMAIN replay /\ QueuedFor(f) THEN 1 ELSE 0
    BY <1>3 DEF EffectsMatchEvents
  <2>3. CASE f = e
    BY <1>1, <1>2, <1>3, <2>1, <2>2, <2>3
  <2>4. CASE f # e
    BY <1>1, <1>2, <1>3, <2>1, <2>2, <2>4
  <2> QED BY <2>3, <2>4
<1>6. ASSUME NEW o \in Orders
      PROVE  LET order == orders'[o]
                 captures == Completed("payment.captured", o)'
             IN  /\ order.revision = Cardinality(Completed("order.created", o)') + Cardinality(Completed("order.updated", o)')
                 /\ order.captured = SumFunctionOnSet([f \in captures |-> EventOf[f].amount], captures)
                 /\ order.paid = order.captured
                 /\ (order.status = "CANCELLED") = (Completed("order.cancelled", o)' # {})
                 /\ order.status = "PAID" => order.captured = order.total
  <2> DEFINE order == orders[o]
             created == Completed("order.created", o)
             updated == Completed("order.updated", o)
             cancelled == Completed("order.cancelled", o)
             captures == Completed("payment.captured", o)
  <2>1. /\ order.revision = Cardinality(created) + Cardinality(updated)
        /\ order.captured = SumFunctionOnSet([f \in captures |-> EventOf[f].amount], captures)
        /\ order.paid = order.captured
        /\ (order.status = "CANCELLED") = (cancelled # {})
        /\ order.status = "PAID" => order.captured = order.total
    BY <1>3 DEF EffectsMatchEvents
  <2>2. CASE EventOf[e].order # o
    <3>1. orders'[o] = orders[o]
      BY <1>3, <1>4, <2>2
    <3>2. created' = created /\ updated' = updated /\ cancelled' = cancelled /\ captures' = captures
      BY <1>1, <2>2 DEF Completed, Name
    <3> QED BY <2>1, <3>1, <3>2
  <2>3. CASE EventOf[e].order = o
    <3> DEFINE new == Handled(e).order
    <3>1. Name(e) \in OrderEvents
      BY <1>4, <2>3
    <3>2. orders'[o] = new /\ Counts(e, Handled(e))
      BY <1>3, <1>4, <2>3, <3>1
    <3>3. /\ new.revision = order.revision + (IF Name(e) \in {"order.created", "order.updated"} THEN 1 ELSE 0)
          /\ new.captured = order.captured + (IF Name(e) = "payment.captured" THEN EventOf[e].amount ELSE 0)
          /\ new.paid = new.captured
          /\ (new.status = "CANCELLED") = (order.status = "CANCELLED" \/ Name(e) = "order.cancelled")
          /\ new.status = "PAID" => new.captured = new.total
      BY <2>3, <3>2 DEF Counts
    <3>4. /\ created' = created \cup (IF Name(e) = "order.created" THEN {e} ELSE {})
          /\ updated' = updated \cup (IF Name(e) = "order.updated" THEN {e} ELSE {})
          /\ cancelled' = cancelled \cup (IF Name(e) = "order.cancelled" THEN {e} ELSE {})
          /\ captures' = captures \cup (IF Name(e) = "payment.captured" THEN {e} ELSE {})
      BY <1>1, <2>3, CompletedGrows
    <3>5. /\ IsFiniteSet(created) /\ IsFiniteSet(updated) /\ IsFiniteSet(captures)
          /\ e \notin created /\ e \notin updated /\ e \notin captures
          /\ created \subseteq Events /\ captures \subseteq Events
      <4>1. created \subseteq DOMAIN replay /\ updated \subseteq DOMAIN replay /\ captures \subseteq DOMAIN replay
        BY DEF Completed
      <4> QED BY <1>1, <4>1, FS_Subset DEF ShopInv, ShopTyped
    <3> HIDE DEF created, updated, captures, cancelled, new, order
    <3>6. /\ Cardinality(created) \in Nat /\ Cardinality(created \cup {e}) = Cardinality(created) + 1
          /\ Cardinality(updated) \in Nat /\ Cardinality(updated \cup {e}) = Cardinality(updated) + 1
      BY <3>5, FS_AddElement, FS_CardinalityType
    <3>7. new.revision = Cardinality(created') + Cardinality(updated')
      <4>1. CASE Name(e) = "order.created"
        BY <2>1, <3>3, <3>4, <3>6, <4>1
      <4>2. CASE Name(e) = "order.updated"
        BY <2>1, <3>3, <3>4, <3>6, <4>2
      <4>3. CASE Name(e) \notin {"order.created", "order.updated"}
        <5>1. new.revision = order.revision + 0 /\ created' = created /\ updated' = updated
          BY <3>3, <3>4, <4>3
        <5> QED BY <2>1, <3>6, <5>1
      <4> QED BY <4>1, <4>2, <4>3
    <3>8. new.captured = SumFunctionOnSet([f \in captures' |-> EventOf[f].amount], captures')
      <4>1. CASE Name(e) = "payment.captured"
        <5> DEFINE all == captures \cup {e}
                   f == [x \in all |-> EventOf[x].amount]
                   g == [x \in captures |-> EventOf[x].amount]
        <5>1. IsFiniteSet(all) /\ e \in all /\ all \ {e} = captures /\ captures' = all
          BY <3>4, <3>5, <4>1, FS_AddElement
        <5>2. \A x \in all : f[x] \in Int
          BY <1>1, <3>5, EventTyped
        <5>3. \A x \in captures : f[x] = g[x]
          OBVIOUS
        <5>4. f[e] = EventOf[e].amount
          OBVIOUS
        <5> HIDE DEF all, f, g
        <5>5. SumFunctionOnSet(f, all) = f[e] + SumFunctionOnSet(f, captures)
          BY <5>1, <5>2, SumRest
        <5>6. SumFunctionOnSet(f, captures) = SumFunctionOnSet(g, captures)
          BY <3>5, <5>3, SumEqual
        <5>7. SumFunctionOnSet(g, captures) \in Int /\ f[e] \in Int
          <6>1. \A x \in captures : g[x] \in Int
            BY <5>1, <5>2, <5>3
          <6> QED BY <3>5, <5>1, <5>2, <6>1, SumType
        <5>8. order.captured = SumFunctionOnSet(g, captures)
          BY <2>1 DEF g
        <5>9. new.captured = SumFunctionOnSet(f, all)
          BY <3>3, <4>1, <5>4, <5>5, <5>6, <5>7, <5>8
        <5> QED BY <5>1, <5>9 DEF f
      <4>2. CASE Name(e) # "payment.captured"
        <5>1. captures' = captures /\ new.captured = order.captured + 0
          BY <3>3, <3>4, <4>2
        <5>2. order.captured \in Nat
          BY <1>3 DEF order, OrderRecords
        <5> QED BY <2>1, <5>1, <5>2
      <4> QED BY <4>1, <4>2
    <3>9. (new.status = "CANCELLED") = (cancelled' # {})
      BY <2>1, <3>3, <3>4
    <3> QED BY <3>2, <3>3, <3>7, <3>8, <3>9 DEF created, updated, captures, cancelled, new
  <2> QED BY <2>2, <2>3
<1> QED BY <1>5, <1>6 DEF EffectsMatchEvents

-----------------------------------------------------------------------------
(* The steps of a request.                                                 *)

\* Two events collide whichever is looked at first.
LEMMA CollideSymmetric == ASSUME NEW e, NEW f PROVE Collide(e, f) <=> Collide(f, e)
BY DEF Collide, Key

\* A step that touches no more than the requests leaves the rest as it was.
LEMMA BooksUntouched ==
    ASSUME ShopInv, UNCHANGED <<replay, orders, held, levels, stock, told, outbox, sendable>>
    PROVE  /\ ShopBooks' /\ EffectsMatchEvents'
           /\ ShopTyped' <=>
                /\ session' \in [Sessions -> [phase : {"idle", "arrived", "claimed", "answered"},
                                              event : Events \cup {NoEvent}, answer : Answers]]
                /\ \A s \in Sessions : session'[s].phase \in {"arrived", "claimed"} => session'[s].event \in Events
<1>1. OrdersOK /\ ReservedIsHeld /\ SoldOnce
  BY DEF ShopInv, ShopBooks
<1>2. /\ InvoicedQty' = InvoicedQty /\ InvoicedOrders' = InvoicedOrders /\ Available' = Available
      /\ \A w \in Warehouses : Reservations(w)' = Reservations(w) /\ Sales(w)' = Sales(w)
  BY DEF InvoicedQty, InvoicedOrders, Available, Reservations, Sales, DraftOrders, DraftOrder, HeldIn
<1>3. OrdersOK' /\ SoldOnce'
  BY <1>1, <1>2 DEF OrdersOK, SoldOnce
<1>4. ReservedIsHeld'
  BY <1>1, <1>2 DEF ReservedIsHeld
<1>5. EffectsMatchEvents'
  BY DEF ShopInv, EffectsMatchEvents, Completed, QueuedFor, Name
<1>6. ShopTyped' <=>
                /\ session' \in [Sessions -> [phase : {"idle", "arrived", "claimed", "answered"},
                                              event : Events \cup {NoEvent}, answer : Answers]]
                /\ \A s \in Sessions : session'[s].phase \in {"arrived", "claimed"} => session'[s].event \in Events
  BY DEF ShopInv, ShopTyped
<1> QED BY <1>3, <1>4, <1>5, <1>6 DEF ShopBooks

\* Nothing is claimed anew: the claims stay apart.
LEMMA ClaimsStayApart ==
    ASSUME ShopInv, replay' = replay,
           \A s \in Sessions : session'[s].phase = "claimed" =>
               session[s].phase = "claimed" /\ session'[s].event = session[s].event
    PROVE  ClaimsApart'
<1>1. \A e : Duplicate(e)' <=> Duplicate(e)
  BY DEF Duplicate, Collide, Key, Name
<1>2. \A e, f : Collide(e, f)' <=> Collide(e, f)
  BY DEF Collide, Key, Name
<1> QED BY <1>1, <1>2 DEF ShopInv, ClaimsApart

\* Whatever an order looks like, its response is an answer.
LEMMA AnswersTyped ==
    ASSUME ShopInv
    PROVE  /\ \A order \in OrderRecords : Response(order) \in Answers
           /\ <<>> \in Answers /\ <<"conflict">> \in Answers /\ <<"rejected">> \in Answers
<1>1. ASSUME NEW order \in OrderRecords PROVE Response(order) \in Responses
  BY DEF Response, Responses, OrderRecords
<1> QED BY <1>1 DEF Answers

\* A request is put together from its phase, its event and its answer.
LEMMA RequestTyped ==
    ASSUME NEW p \in {"idle", "arrived", "claimed", "answered"}, NEW e \in Events \cup {NoEvent}, NEW a \in Answers
    PROVE  [phase |-> p, event |-> e, answer |-> a] \in
               [phase : {"idle", "arrived", "claimed", "answered"}, event : Events \cup {NoEvent}, answer : Answers]
OBVIOUS

\* A shop without orders satisfies the invariant.
LEMMA ShopStarts == ShopInit => ShopInv
<1> SUFFICES ASSUME ShopInit PROVE ShopInv
  OBVIOUS
<1>1. replay = <<>> /\ DOMAIN replay = {} /\ IsFiniteSet({})
  BY FS_EmptySet DEF ShopInit
<1>2. \A o \in Orders : orders[o] = Absent /\ held[o] = ZeroEach
  BY DEF ShopInit
<1>3. ZeroEach \in Quantities /\ Absent \in OrderRecords /\ <<>> \in Answers
  BY AbsentTyped DEF ZeroEach, Quantities, Answers
<1>4. ShopTyped
  <2>1. PICK scenario \in Scenarios : sendable = scenario.events
    BY DEF ShopInit
  <2>2. sendable \subseteq Events
    BY <2>1, ShopAssumption
  <2>3. session = [s \in Sessions |-> [phase |-> "idle", event |-> NoEvent, answer |-> <<>>]]
    BY DEF ShopInit
  <2>4. session \in [Sessions -> [phase : {"idle", "arrived", "claimed", "answered"},
                                  event : Events \cup {NoEvent}, answer : Answers]]
    BY <1>3, <2>3
  <2>5. \A s \in Sessions : session[s].phase = "idle"
    BY <2>3
  <2>6. orders \in [Orders -> OrderRecords] /\ held \in [Orders -> Quantities]
    BY <1>3 DEF ShopInit
  <2>7. levels \in Levels /\ told \in Tellings
    BY DEF ShopInit, Levels, Tellings
  <2>8. stock \in Products /\ outbox \in [Events -> Nat]
    BY DEF ShopInit, NoProduct, Products
  <2> QED BY <1>1, <2>2, <2>4, <2>5, <2>6, <2>7, <2>8 DEF ShopTyped
<1>5. ClaimsApart
  BY DEF ShopInit, ClaimsApart
<1>6. OrdersOK
  BY <1>2 DEF OrdersOK, OrderOK, Absent
<1>7. DraftOrders = {} /\ InvoicedOrders = {} /\ \A f : SumFunctionOnSet(f, {}) = 0
  BY <1>2, SumEmpty DEF Absent, DraftOrders, DraftOrder, InvoicedOrders
<1>9. SoldOnce
  BY <1>7 DEF SoldOnce, ShopInit, NoProduct
<1>10. EffectsMatchEvents
  <2>1. \A name, o : Completed(name, o) = {}
    BY <1>1 DEF Completed
  <2>2. \A f : SumFunctionOnSet(f, {}) = 0
    BY SumEmpty
  <2>3. Cardinality({}) = 0
    BY FS_EmptySet
  <2>4. \A e \in Events : outbox[e] = 0 /\ e \notin DOMAIN replay
    BY <1>1 DEF ShopInit
  <2> QED BY <1>2, <2>1, <2>2, <2>3, <2>4 DEF EffectsMatchEvents, Absent
<1>11. ReservedIsHeld
  <2>1. \A w \in Warehouses : Reservations(w) = 0 /\ Sales(w) = 0
    BY <1>7 DEF Reservations, Sales
  <2>2. \A w \in Warehouses : /\ levels[w].available = 0 /\ levels[w].reserved = 0
                               /\ told[w] = [available |-> 0, reserved |-> 0, held |-> 0, sold |-> 0]
    BY DEF ShopInit
  <2> QED BY <1>2, <2>1, <2>2 DEF ReservedIsHeld, Absent
<1> QED BY <1>4, <1>5, <1>6, <1>9, <1>10, <1>11 DEF ShopInv, ShopBooks

\* The commit of an event, the one step that changes the books, keeps the invariant.
LEMMA CompleteStep ==
    ASSUME ShopInv, NEW s \in Sessions, Complete(s)
    PROVE  ShopInv'
<1> DEFINE e == session[s].event
           h == Handled(e)
<1>1. /\ e \in Events /\ e \notin DOMAIN replay /\ DOMAIN replay' = DOMAIN replay \cup {e}
      /\ IsFiniteSet(DOMAIN replay')
  BY ReplayGrows
<1>2. /\ session' = [session EXCEPT ![s].phase = "answered", ![s].answer = Response(h.order)]
      /\ session[s].phase = "claimed" /\ UNCHANGED sendable
      /\ outbox' = IF QueuedFor(e) THEN [outbox EXCEPT ![e] = @ + 1] ELSE outbox
  BY DEF Complete, Answer
<1>3. ShopTyped
  BY DEF ShopInv
<1>4. /\ ShopBooks' /\ orders' \in [Orders -> OrderRecords] /\ held' \in [Orders -> Quantities]
      /\ levels' \in Levels /\ stock' \in Products /\ told' \in Tellings /\ h.order \in OrderRecords
  <2>1. CASE Name(e) \in OrderEvents
    BY <1>3, <2>1, OrderEventCompletes DEF Moves, ShopTyped
  <2>2. CASE Name(e) \in MasterEvents
    <3>1. h.order = Absent
      BY <1>1, <2>2, MasterEventSets, ReplayGrows
    <3> QED BY <1>3, <2>2, <3>1, MasterCompletes, AbsentTyped DEF ShopTyped
  <2> QED BY <1>1, <2>1, <2>2, EventTyped
<1>5. EffectsMatchEvents'
  BY EffectsCounted
<1>6. Response(h.order) \in Answers
  BY <1>4, AnswersTyped
<1> HIDE DEF e, h
<1>7. /\ session'[s].phase = "answered" /\ session'[s].event = session[s].event
      /\ \A t \in Sessions \ {s} : session'[t] = session[t]
      /\ session' \in [Sessions -> [phase : {"idle", "arrived", "claimed", "answered"},
                                    event : Events \cup {NoEvent}, answer : Answers]]
  BY <1>2, <1>3, <1>6 DEF ShopTyped
<1>8. ShopTyped'
  <2>1. outbox' \in [Events -> Nat]
    BY <1>1, <1>2, <1>3 DEF ShopTyped
  <2>2. DOMAIN replay' \in SUBSET Events
    BY <1>1, <1>3 DEF ShopTyped
  <2>3. \A t \in Sessions : session'[t].phase \in {"arrived", "claimed"} => session'[t].event \in Events
    BY <1>3, <1>7 DEF ShopTyped
  <2>4. sendable' \subseteq Events
    BY <1>2, <1>3 DEF ShopTyped
  <2>5. \A f \in DOMAIN replay' : replay'[f] \in Answers
    <3>1. replay' = [f \in DOMAIN replay \cup {e} |-> IF f = e THEN Response(h.order) ELSE replay[f]]
      BY DEF Complete, e, h
    <3> QED BY <1>3, <1>6, <3>1 DEF ShopTyped
  <2> QED BY <1>1, <1>4, <1>7, <2>1, <2>2, <2>3, <2>4, <2>5 DEF ShopTyped
<1>9. ClaimsApart'
  <2>1. \A f, g : Collide(f, g)' <=> Collide(f, g)
    BY DEF Collide, Key, Name
  <2>2. \A f : Duplicate(f)' <=> Duplicate(f) \/ Collide(f, e)
    BY <1>1, <2>1 DEF Duplicate
  <2>3. ASSUME NEW t \in Sessions \ {s}, session[t].phase = "claimed"
        PROVE  /\ ~Duplicate(session[t].event) /\ ~Collide(session[t].event, e)
               /\ \A u \in Sessions \ {t} : session[u].phase = "claimed" => ~Collide(session[u].event, session[t].event)
    BY <1>2, <2>3 DEF ShopInv, ClaimsApart, e
  <2> QED BY <1>7, <2>1, <2>2, <2>3 DEF ClaimsApart
<1> QED BY <1>4, <1>5, <1>8, <1>9 DEF ShopInv

\* Every step of the requests, of the network and of a crash keeps the invariant.
LEMMA ShopStep == ShopInv /\ [ShopNext]_shop => ShopInv'
<1> SUFFICES ASSUME ShopInv, [ShopNext]_shop PROVE ShopInv'
  OBVIOUS
<1> DEFINE Requests == [phase : {"idle", "arrived", "claimed", "answered"},
                        event : Events \cup {NoEvent}, answer : Answers]
<1>0. session \in [Sessions -> Requests] /\ sendable \subseteq Events
      /\ \A s \in Sessions : session[s].phase \in {"arrived", "claimed"} => session[s].event \in Events
  BY DEF ShopInv, ShopTyped
<1>10. <<>> \in Answers
  BY AnswersTyped, Zenon
<1>11. <<"conflict">> \in Answers
  BY AnswersTyped, Zenon
<1>12. <<"rejected">> \in Answers
  BY AnswersTyped, Zenon
<1>1. ASSUME NEW s \in Sessions, NEW request \in Requests, session' = [session EXCEPT ![s] = request],
             request.phase \in {"arrived", "claimed"} => request.event \in Events,
             UNCHANGED <<replay, orders, held, levels, stock, told, outbox, sendable>>, ClaimsApart'
      PROVE  ShopInv'
  <2>1. ShopTyped'
    BY <1>0, <1>1, BooksUntouched
  <2>2. ShopBooks' /\ EffectsMatchEvents'
    BY <1>1, BooksUntouched
  <2> QED BY <1>1, <2>1, <2>2 DEF ShopInv
<1>2. ASSUME NEW s \in Sessions, NEW e \in Events, Receive(s, e) PROVE ShopInv'
  <2> DEFINE request == [phase |-> "arrived", event |-> e, answer |-> <<>>]
  <2>1. /\ session' = [session EXCEPT ![s] = request]
        /\ UNCHANGED <<replay, orders, held, levels, stock, told, outbox, sendable>>
    BY <1>2 DEF Receive
  <2>2. request.phase = "arrived" /\ request.event \in Events
    OBVIOUS
  <2>5. request \in Requests
    BY <1>10, RequestTyped, Zenon
  <2> HIDE DEF request, Requests
  <2>3. \A t \in Sessions : session'[t].phase = "claimed" =>
               session[t].phase = "claimed" /\ session'[t].event = session[t].event
    BY <1>0, <2>1, <2>2
  <2>4. ClaimsApart'
    BY <2>1, <2>3, ClaimsStayApart
  <2> QED BY <1>1, <2>1, <2>2, <2>4, <2>5
<1>3. ASSUME NEW s \in Sessions, Claim(s) PROVE ShopInv'
  <2> DEFINE request == [session[s] EXCEPT !.phase = "claimed"]
  <2>1. /\ session' = [session EXCEPT ![s] = request] /\ session[s].phase = "arrived"
        /\ ~Waits(s) /\ ~Duplicate(session[s].event)
        /\ UNCHANGED <<replay, orders, held, levels, stock, told, outbox, sendable>>
    BY <1>3 DEF Claim
  <2>2. request \in Requests /\ request.event = session[s].event /\ session[s].event \in Events
    BY <1>0, <2>1
  <2>3. \A t \in Sessions \ {s} : session'[t] = session[t]
    BY <1>0, <2>1
  <2>4. session'[s].event = session[s].event
    BY <1>0, <2>1, <2>2
  <2> HIDE DEF request, Requests
  <2>5. ClaimsApart'
    <3>1. \A f : Duplicate(f)' <=> Duplicate(f)
      BY <2>1 DEF Duplicate, Collide, Key, Name
    <3>2. \A f, g : Collide(f, g)' <=> Collide(f, g)
      BY DEF Collide, Key, Name
    <3>3. \A t \in Sessions \ {s} : session[t].phase = "claimed" =>
              /\ ~Collide(session[t].event, session[s].event)
              /\ ~Collide(session[s].event, session[t].event)
      BY <2>1, CollideSymmetric DEF Waits
    <3>4. ASSUME NEW t \in Sessions, session'[t].phase = "claimed"
          PROVE  ~Duplicate(session'[t].event)
      BY <2>1, <2>3, <2>4, <3>4 DEF ShopInv, ClaimsApart
    <3>5. ASSUME NEW t \in Sessions, session'[t].phase = "claimed",
                 NEW u \in Sessions \ {t}, session'[u].phase = "claimed"
          PROVE  ~Collide(session'[u].event, session'[t].event)
      <4>1. CASE t = s
        BY <2>3, <2>4, <3>3, <3>5, <4>1
      <4>2. CASE u = s
        BY <2>3, <2>4, <3>3, <3>5, <4>2
      <4>3. CASE t # s /\ u # s
        BY <2>3, <3>5, <4>3 DEF ShopInv, ClaimsApart
      <4> QED BY <4>1, <4>2, <4>3
    <3> QED BY <3>1, <3>2, <3>4, <3>5 DEF ClaimsApart
  <2> QED BY <1>1, <2>1, <2>2, <2>5
<1>4. ASSUME NEW s \in Sessions, NEW a \in Answers, Answer(s, a),
             UNCHANGED <<replay, orders, held, levels, stock, told, outbox, sendable>>
      PROVE  ShopInv'
  <2> DEFINE request == [session[s] EXCEPT !.phase = "answered", !.answer = a]
  <2>1. session' = [session EXCEPT ![s] = request]
    BY <1>0, <1>4 DEF Answer
  <2>2. request \in Requests /\ request.phase = "answered"
    BY <1>0
  <2> HIDE DEF request, Requests
  <2>3. \A t \in Sessions : session'[t].phase = "claimed" =>
               session[t].phase = "claimed" /\ session'[t].event = session[t].event
    BY <1>0, <2>1, <2>2
  <2>4. ClaimsApart'
    BY <1>4, <2>3, ClaimsStayApart
  <2> QED BY <1>1, <1>4, <2>1, <2>2, <2>4
<1>5. ASSUME NEW s \in Sessions, AnswerDuplicate(s) PROVE ShopInv'
  <2> DEFINE a == IF session[s].event \in DOMAIN replay THEN replay[session[s].event] ELSE <<"conflict">>
  <2>1. Answer(s, a) /\ UNCHANGED <<replay, orders, held, levels, stock, told, outbox, sendable>>
    BY <1>5 DEF AnswerDuplicate
  <2>2. a \in Answers
    <3>1. \A e \in DOMAIN replay : replay[e] \in Answers
      BY DEF ShopInv, ShopTyped
    <3> QED BY <3>1, <1>11, Zenon
  <2> QED BY <1>4, <2>1, <2>2
<1>6. ASSUME NEW s \in Sessions, Reject(s) PROVE ShopInv'
  BY <1>4, <1>6, <1>12 DEF Reject
<1>7. ASSUME NEW s \in Sessions, Crash(s) PROVE ShopInv'
  <2> DEFINE request == [phase |-> "idle", event |-> NoEvent, answer |-> <<>>]
  <2>1. /\ session' = [session EXCEPT ![s] = request]
        /\ UNCHANGED <<replay, orders, held, levels, stock, told, outbox, sendable>>
    BY <1>7 DEF Crash
  <2>2. request.phase = "idle"
    OBVIOUS
  <2>5. request \in Requests
    BY <1>10, RequestTyped, Zenon
  <2> HIDE DEF request, Requests
  <2>3. \A t \in Sessions : session'[t].phase = "claimed" =>
               session[t].phase = "claimed" /\ session'[t].event = session[t].event
    BY <1>0, <2>1, <2>2
  <2>4. ClaimsApart'
    BY <2>1, <2>3, ClaimsStayApart
  <2> QED BY <1>1, <2>1, <2>2, <2>4, <2>5
<1>8. CASE UNCHANGED shop
  <2>1. UNCHANGED <<replay, orders, held, levels, stock, told, outbox, sendable>> /\ session' = session
    BY <1>8 DEF shop
  <2>2. ShopTyped'
    BY <1>0, <2>1, BooksUntouched
  <2>3. ClaimsApart'
    BY <2>1, ClaimsStayApart
  <2> QED BY <2>1, <2>2, <2>3, BooksUntouched DEF ShopInv
<1> QED BY <1>2, <1>3, <1>5, <1>6, <1>7, <1>8, CompleteStep DEF ShopNext

\* The inductive invariant of the shop's events: the claims of the replay cache are apart,
\* every order holds what its status and events say, and, since the last stock message,
\* whatever it reserved and however often one comes, levels moved by what orders hold and
\* have sold (replay.py, order_service.py, payment_service.py, master_service.py).
THEOREM ShopInvariance == ShopSpec => []ShopInv
<1> QED BY ShopStarts, ShopStep, PTL DEF ShopSpec

\* What the shop's events did is what is recorded of them, for any number of orders,
\* warehouses and requests, whatever is delivered twice, collides or is lost in a crash.
THEOREM EffectsAlwaysMatchEvents == ShopSpec => []EffectsMatchEvents
<1>1. ShopInv => EffectsMatchEvents
  BY DEF ShopInv
<1> QED BY <1>1, ShopInvariance, PTL

\* Reservations follow the draft orders from one stock message to the next, each invoiced
\* order left the warehouses and the books once, and the books agree with the warehouses
\* as long as no stock message came after a sale.
THEOREM OrdersAlwaysHoldStock == ShopSpec => []OrdersHoldStock
<1>1. ShopInv => OrdersHoldStock
  BY DEF ShopInv, ShopBooks, OrdersHoldStock
<1> QED BY <1>1, ShopInvariance, PTL

\* Once an event is completed, whoever delivers it again hears what was stored.
THEOREM RetriesAlwaysHear == ShopSpec => RetriesHearTheOutcome
<1> DEFINE Hears == \A s \in Sessions :
        LET e == session[s].event
        IN  session[s].phase # "answered" /\ session'[s].phase = "answered" /\ e \in DOMAIN replay'
                => session'[s].answer = replay'[e]
<1>1. ShopInv /\ [ShopNext]_shop => [Hears]_shop
  <2> SUFFICES ASSUME ShopInv, ShopNext, NEW s \in Sessions, session[s].phase # "answered",
                      session'[s].phase = "answered", session[s].event \in DOMAIN replay'
               PROVE  session'[s].answer = replay'[session[s].event]
    OBVIOUS
  <2>1. session \in [Sessions -> [phase : {"idle", "arrived", "claimed", "answered"},
                                  event : Events \cup {NoEvent}, answer : Answers]]
    BY DEF ShopInv, ShopTyped
  <2>2. PICK t \in Sessions : \/ \E e \in Events : Receive(t, e)
                              \/ Claim(t) \/ AnswerDuplicate(t) \/ Complete(t) \/ Reject(t) \/ Crash(t)
    BY DEF ShopNext
  <2>3. t = s
    BY <2>1, <2>2 DEF Receive, Claim, AnswerDuplicate, Complete, Reject, Crash, Answer
  <2>4. CASE \/ \E e \in Events : Receive(s, e)
             \/ Claim(s) \/ Crash(s)
    BY <2>1, <2>4 DEF Receive, Claim, Crash
  <2>5. CASE AnswerDuplicate(s)
    BY <2>1, <2>5 DEF AnswerDuplicate, Answer
  <2>6. CASE Complete(s)
    <3>1. replay'[session[s].event] = Response(Handled(session[s].event).order)
      BY <2>6, ReplayGrows
    <3>2. session'[s].answer = Response(Handled(session[s].event).order)
      BY <2>1, <2>6 DEF Complete, Answer
    <3> QED BY <3>1, <3>2
  <2>7. CASE Reject(s)
    <3>1. session[s].phase = "claimed" /\ replay' = replay
      BY <2>7 DEF Reject
    <3>2. ~Duplicate(session[s].event)
      BY <3>1 DEF ShopInv, ClaimsApart
    <3> QED BY <3>1, <3>2 DEF Duplicate, Collide
  <2> QED BY <2>2, <2>3, <2>4, <2>5, <2>6, <2>7
<1> QED BY <1>1, ShopInvariance, PTL DEF ShopSpec, RetriesHearTheOutcome
=============================================================================
