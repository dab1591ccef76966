------------------------- MODULE IdempotencyProofs -------------------------
(***************************************************************************)
(* Proofs about Idempotency, for any number of deliveries and payloads.    *)
(***************************************************************************)
EXTENDS Idempotency, TLAPS

\* The row that the INSERT creates is a row, and therefore not the absent one.
LEMMA NewClaimIsRow ==
    ASSUME NEW r \in Requests
    PROVE  /\ NewClaim(r) \in Row
           /\ NewClaim(r) # NoRow
           /\ NewClaim(r).status = "PROCESSING"
           /\ NewClaim(r).by = r
           /\ NewClaim(r).stale = FALSE
           /\ NewClaim(r).response = "none"
<1>1. NewClaim(r) \in Row
  BY ConstantsAssumption DEF NewClaim, Row, Status
<1> QED BY <1>1, NoRowAssumption DEF NewClaim

\* What an UPDATE of an existing row leaves is again a row.
LEMMA UpdatedIsRow ==
    ASSUME row \in Row
    PROVE  /\ [row EXCEPT !.status = "COMMITTED"] \in Row
           /\ [row EXCEPT !.stale = TRUE] \in Row
           /\ \A c \in {"2xx", "4xx"} :
                 [row EXCEPT !.status = "COMPLETED", !.response = c] \in Row
BY DEF Row, Status

\* TypeInv is inductive: no statement of the middleware deletes the row while
\* a business transaction holds it, so a commit always finds a row to mark.
LEMMA TypeStep == TypeInv /\ [Next]_vars => TypeInv'
<1> SUFFICES ASSUME TypeInv, [Next]_vars PROVE TypeInv'
  OBVIOUS
<1> USE ConstantsAssumption, NoRowAssumption
        DEF TypeInv, TypeOK, LockIsOwners, Deliveries, PC, Replies
<1>1. ASSUME NEW r \in Requests, Claim(r) PROVE TypeInv'
  BY <1>1, NewClaimIsRow DEF Claim, Goto
<1>2. ASSUME NEW r \in Requests, Conflict(r) PROVE TypeInv'
  BY <1>2 DEF Conflict, Goto
<1>3. ASSUME NEW r \in Requests, InspectStale(r) PROVE TypeInv'
  BY <1>3 DEF InspectStale, Goto
<1>4. ASSUME NEW r \in Requests, InspectAnswer(r) PROVE TypeInv'
  <2>1. AnswerFor(r) \in Replies
    BY DEF AnswerFor, Present, Row
  <2> QED BY <1>4, <2>1 DEF InspectAnswer, Answer, Goto
<1>5. ASSUME NEW r \in Requests, Reclaim(r) PROVE TypeInv'
  BY <1>5 DEF Reclaim, Goto
<1>6. ASSUME NEW r \in Requests, Unavailable(r) PROVE TypeInv'
  <2>1. row' = row \/ (row = NoRow /\ row' = NewClaim(r))
    BY <1>6 DEF Unavailable
  <2>2. NewClaim(r) \in Row
    BY NewClaimIsRow
  <2>3. row' \in Row \cup {NoRow} /\ (row # NoRow => row' # NoRow)
    BY <2>1, <2>2
  <2> QED BY <1>6, <2>3 DEF Unavailable, Answer, Goto
<1>7. ASSUME NEW r \in Requests, Mark(r) PROVE TypeInv'
  BY <1>7 DEF Mark, Goto
<1>8. ASSUME NEW r \in Requests, ClaimLost(r) PROVE TypeInv'
  BY <1>8 DEF ClaimLost, Goto
<1>9. ASSUME NEW r \in Requests, Commit(r) PROVE TypeInv'
  BY <1>9, UpdatedIsRow DEF Commit, Goto
<1>10. ASSUME NEW r \in Requests, Rollback(r) PROVE TypeInv'
  BY <1>10 DEF Rollback, Goto
<1>11. ASSUME NEW r \in Requests, FailAfterCommit(r) PROVE TypeInv'
  BY <1>11 DEF FailAfterCommit, Goto
<1>12. ASSUME NEW r \in Requests, StoreResponse(r) PROVE TypeInv'
  BY <1>12, UpdatedIsRow DEF StoreResponse, Answer, Goto
<1>13. ASSUME NEW r \in Requests, DropOn5xx(r) PROVE TypeInv'
  BY <1>13 DEF DropOn5xx, Answer, Goto
<1>14. ASSUME NEW r \in Requests, CleanupOnRaise(r) PROVE TypeInv'
  BY <1>14 DEF CleanupOnRaise, RaisedReply, Answer, Goto
<1>15. ASSUME NEW r \in Requests, RecordFails(r) PROVE TypeInv'
  BY <1>15 DEF RecordFails, RaisedReply, Answer, Goto
<1>16. ASSUME NEW r \in Requests, Crash(r) PROVE TypeInv'
  BY <1>16 DEF Crash, Goto
<1>17. ASSUME NEW r \in Unkeyed, RejectUnkeyed(r) PROVE TypeInv'
  BY <1>17 DEF RejectUnkeyed, Answer, Goto
<1>18. CASE GrowStale
  BY <1>18, UpdatedIsRow DEF GrowStale, Present
<1>19. CASE UNCHANGED vars
  BY <1>19 DEF vars
<1>20. ASSUME NEW r \in Requests, Resume(r) \/ CommitResumed(r) PROVE TypeInv'
  BY <1>20 DEF Resume, CommitResumed, Goto
<1> QED
  BY <1>1, <1>2, <1>3, <1>4, <1>5, <1>6, <1>7, <1>8, <1>9, <1>10, <1>11, <1>12,
     <1>13, <1>14, <1>15, <1>16, <1>17, <1>18, <1>19, <1>20 DEF Next, Serve, Fail

\* Type correctness of the protocol state, whatever the environment does.
THEOREM TypeCorrect == Spec => []TypeOK
<1>1. Init => TypeInv
  BY ConstantsAssumption DEF Init, TypeInv, TypeOK, LockIsOwners, Deliveries, PC, Replies
<1> QED
  BY <1>1, TypeStep, PTL DEF Spec, TypeInv

\* ProcessingInv is inductive: the commit of a request flips whatever row holds
\* the key, and a request that has committed never inserts a claim again.
LEMMA ProcessingStep == ProcessingInv /\ [Next]_vars => ProcessingInv'
<1> SUFFICES ASSUME ProcessingInv, [Next]_vars PROVE ProcessingInv'
  OBVIOUS
<1>0. TypeInv /\ TypeInv'
  BY TypeStep DEF ProcessingInv
<1> USE ConstantsAssumption, NoRowAssumption, <1>0
        DEF TypeInv, TypeOK, Deliveries, PC, ProcessingInv, ExecutedIsLate,
            ResumedMayGoOn, ProcessingNeverCommitted, Present, Goto
<1>1. ASSUME NEW r \in Requests, Claim(r) PROVE ProcessingInv'
  BY <1>1, NewClaimIsRow, ZenonT(60) DEF Claim
<1>2. ASSUME NEW r \in Requests,
             Conflict(r) \/ InspectStale(r) \/ Mark(r) \/ ClaimLost(r) \/ Rollback(r)
                \/ FailAfterCommit(r) \/ Crash(r) \/ Resume(r)
      PROVE ProcessingInv'
  BY <1>2 DEF Conflict, InspectStale, Mark, ClaimLost, Rollback, FailAfterCommit, Crash,
              Resume
<1>3. ASSUME NEW r \in Requests, InspectAnswer(r) \/ RecordFails(r) PROVE ProcessingInv'
  BY <1>3 DEF InspectAnswer, RecordFails, Answer
<1>4. ASSUME NEW r \in Requests, Reclaim(r) PROVE ProcessingInv'
  BY <1>4 DEF Reclaim
<1>5. ASSUME NEW r \in Requests, Unavailable(r) PROVE ProcessingInv'
  <2>1. r \notin executed
    BY <1>5 DEF Unavailable
  <2>2. ExecutedIsLate' /\ ResumedMayGoOn'
    BY <1>5 DEF Unavailable, Answer
  <2>3. ProcessingNeverCommitted'
    BY <1>5, <2>1, NewClaimIsRow, SMTT(20), ZenonT(60) DEF Unavailable
  <2> QED BY <2>2, <2>3
<1>6. ASSUME NEW r \in Requests, Commit(r) PROVE ProcessingInv'
  <2>1. row \in Row /\ row'.status = "COMMITTED"
    BY <1>6 DEF Commit, LockIsOwners, Row
  <2> QED BY <1>6, <2>1 DEF Commit
<1>7. ASSUME NEW r \in Requests, StoreResponse(r) PROVE ProcessingInv'
  <2>1. row' = NoRow \/ row'.status = "COMPLETED"
    BY <1>7 DEF StoreResponse, Row
  <2> QED BY <1>7, <2>1 DEF StoreResponse, Answer
<1>8. ASSUME NEW r \in Requests, DropOn5xx(r) \/ CleanupOnRaise(r) PROVE ProcessingInv'
  BY <1>8 DEF DropOn5xx, CleanupOnRaise, Answer
<1>9. ASSUME NEW r \in Unkeyed, RejectUnkeyed(r) PROVE ProcessingInv'
  BY <1>9 DEF RejectUnkeyed, Answer
<1>10. CASE GrowStale
  BY <1>10 DEF GrowStale, Row
<1>11. CASE UNCHANGED vars
  BY <1>11 DEF vars
<1>12. ASSUME NEW r \in Requests, CommitResumed(r) PROVE ProcessingInv'
  <2>1. ProcessingNeverCommitted'
    BY <1>12 DEF CommitResumed, Row
  <2> QED BY <1>12, <2>1 DEF CommitResumed
<1> QED
  BY <1>1, <1>2, <1>3, <1>4, <1>5, <1>6, <1>7, <1>8, <1>9, <1>10, <1>11, <1>12
  DEF Next, Serve, Fail

\* A PROCESSING row never belongs to committed work, even with slow owners,
\* concurrent reclaims and handlers that fail after their commit: the claim the
\* comment on IDEMPOTENCY_STALE_SECONDS rests on.  The exception is exactly the row of
\* a handler that may go on after a rollback.
THEOREM ProcessingIsUncommitted == Spec => []ProcessingNeverCommitted
<1>1. Init => ProcessingInv
  BY ConstantsAssumption
     DEF Init, ProcessingInv, TypeInv, TypeOK, LockIsOwners, Deliveries, PC, Replies,
         ExecutedIsLate, ResumedMayGoOn, ProcessingNeverCommitted, Present
<1> QED
  BY <1>1, ProcessingStep, PTL DEF Spec, ProcessingInv

----------------------------------------------------------------------------
\* IInv is inductive when claims go stale only after their owner is gone, stale
\* rows are reclaimed one retry at a time, no handler answers 5xx after its
\* commit, and none goes on after rolling back what it has flushed.  The argument: while a request works, the row is its own PROCESSING
\* claim (OwnerHoldsRow), so two requests never work at once; once somebody has
\* executed, the row is no longer PROCESSING (ExecutedIsRecorded), so nobody
\* works, reclaims or claims any more.
LEMMA AtMostOnceStep == Assumptions /\ IInv /\ [Next]_vars => IInv'
<1> SUFFICES ASSUME Assumptions, IInv, [Next]_vars PROVE IInv'
  OBVIOUS
<1>0. ProcessingInv /\ ProcessingInv'
  BY ProcessingStep DEF IInv
<1>t. TypeInv /\ TypeInv'
  BY <1>0 DEF ProcessingInv
<1>n. \A r \in Requests : ~Resume(r) /\ ~CommitResumed(r)
  BY <1>0 DEF Assumptions, ProcessingInv, ResumedMayGoOn, Resume, CommitResumed
<1> USE ConstantsAssumption, NoRowAssumption, <1>0, <1>t
        DEF Assumptions, TypeInv, TypeOK, Deliveries, PC, IInv, OwnerHoldsRow, Working,
            ReclaimIsSafe, Dead, StaleIsDead, ExecutedIsRecorded, CommittedIsExecuted,
            AtMostOnce, Present, Goto
<1>1. ASSUME NEW r \in Requests, Claim(r) PROVE IInv'
  BY <1>1, NewClaimIsRow DEF Claim
<1>2. ASSUME NEW r \in Requests, Conflict(r) PROVE IInv'
  BY <1>2 DEF Conflict
<1>3. ASSUME NEW r \in Requests, InspectStale(r) PROVE IInv'
  BY <1>3 DEF InspectStale
<1>4. ASSUME NEW r \in Requests, InspectAnswer(r) PROVE IInv'
  BY <1>4 DEF InspectAnswer, Answer
<1>5. ASSUME NEW r \in Requests, Reclaim(r) PROVE IInv'
  BY <1>5 DEF Reclaim
<1>6. ASSUME NEW r \in Requests, Unavailable(r) PROVE IInv'
  <2>1. CASE row' = row
    BY <1>6, <2>1 DEF Unavailable, Answer
  <2>2. CASE row = NoRow /\ row' = NewClaim(r)
    BY <1>6, <2>2, NewClaimIsRow DEF Unavailable, Answer
  <2> QED BY <1>6, <2>1, <2>2 DEF Unavailable
<1>7. ASSUME NEW r \in Requests, Mark(r) PROVE IInv'
  BY <1>7 DEF Mark
<1>8. ASSUME NEW r \in Requests, ClaimLost(r) PROVE IInv'
  BY <1>8 DEF ClaimLost, ProcessingInv, ExecutedIsLate
<1>9. ASSUME NEW r \in Requests, Commit(r) PROVE IInv'
  <2>1. /\ row \in Row /\ row.by = r /\ executed = {}
        /\ row' # NoRow /\ row'.status = "COMMITTED"
    BY <1>9, UpdatedIsRow DEF Commit, LockIsOwners, Row, ProcessingInv, ExecutedIsLate
  <2>2. \A s \in Requests : s # r => ~Working(s)
    BY <1>9, <2>1
  <2>3. ASSUME NEW s \in Requests, pc[s] = "reclaim" PROVE FALSE
    <3>1. Dead(r)
      BY <2>1, <2>3
    <3> QED BY <1>9, <3>1 DEF Commit
  <2> QED BY <1>9, <2>1, <2>2, <2>3 DEF Commit
<1>10. ASSUME NEW r \in Requests, Rollback(r) PROVE IInv'
  BY <1>10 DEF Rollback, ProcessingInv, ExecutedIsLate, ResumedMayGoOn
<1>11. ASSUME NEW r \in Requests, FailAfterCommit(r) PROVE IInv'
  BY <1>11 DEF FailAfterCommit
<1>12. ASSUME NEW r \in Requests, StoreResponse(r) PROVE IInv'
  <2>0. row # NoRow
    BY <1>12 DEF StoreResponse, ProcessingInv, ExecutedIsLate
  <2>1. row' # NoRow /\ row'.status = "COMPLETED"
    BY <1>12, <2>0, UpdatedIsRow, ZenonT(60) DEF StoreResponse, Row
  <2>2. \A s \in Requests : s # r => ~Working(s) /\ pc[s] # "reclaim"
    BY <1>12 DEF StoreResponse, ProcessingInv, ExecutedIsLate
  <2> QED BY <1>12, <2>1, <2>2 DEF StoreResponse, Answer
<1>13. ASSUME NEW r \in Requests, DropOn5xx(r) PROVE IInv'
  BY <1>13 DEF DropOn5xx, Answer
<1>14. ASSUME NEW r \in Requests, CleanupOnRaise(r) PROVE IInv'
  BY <1>14 DEF CleanupOnRaise, Answer
<1>15. ASSUME NEW r \in Requests, RecordFails(r) PROVE IInv'
  BY <1>15 DEF RecordFails, Answer
<1>16. ASSUME NEW r \in Requests, Crash(r) PROVE IInv'
  BY <1>16 DEF Crash
<1>17. ASSUME NEW r \in Unkeyed, RejectUnkeyed(r) PROVE IInv'
  BY <1>17 DEF RejectUnkeyed, Answer
<1>18. CASE GrowStale
  BY <1>18, ZenonT(60) DEF GrowStale, Row
<1>19. CASE UNCHANGED vars
  BY <1>19 DEF vars
<1> QED
  BY <1>n, <1>1, <1>2, <1>3, <1>4, <1>5, <1>6, <1>7, <1>8, <1>9, <1>10, <1>11, <1>12,
     <1>13, <1>14, <1>15, <1>16, <1>17, <1>18, <1>19 DEF Next, Serve, Fail

\* "A response-loss retry can never execute the financial mutation twice"
\* (core/idempotency.py), for any number of retries, under the four assumptions.
THEOREM ExecutedAtMostOnce == Assumptions /\ Spec => []AtMostOnce
<1> SUFFICES ASSUME Assumptions PROVE Spec => []AtMostOnce
  OBVIOUS
<1>1. Init => IInv
  BY ConstantsAssumption
     DEF Init, IInv, ProcessingInv, TypeInv, TypeOK, LockIsOwners, Deliveries, PC, Replies,
         ExecutedIsLate, ResumedMayGoOn, ProcessingNeverCommitted, Present, OwnerHoldsRow, Working,
         ReclaimIsSafe, StaleIsDead, ExecutedIsRecorded, CommittedIsExecuted, AtMostOnce
<1>2. IInv /\ [Next]_vars => IInv'
  BY AtMostOnceStep
<1>3. IInv => AtMostOnce
  BY DEF IInv
<1> QED
  BY <1>1, <1>2, <1>3, PTL DEF Spec

-----------------------------------------------------------------------------
\* OutcomeInv is inductive under the same assumptions.  A response is stored by key
\* alone, so that it is the owner's rests on OwnerHoldsRow and AtMostOnce: an error
\* belongs to a request still at work, whose own claim the row is, and a success to
\* the only request ever executed.
LEMMA OutcomeStep == Assumptions /\ OutcomeInv /\ [Next]_vars => OutcomeInv'
<1> SUFFICES ASSUME Assumptions, OutcomeInv, [Next]_vars PROVE OutcomeInv'
  OBVIOUS
<1>1. IInv /\ IInv' /\ TypeInv /\ TypeInv'
  BY AtMostOnceStep DEF OutcomeInv, IInv, ProcessingInv
<1>2. /\ ExecutedIsRecorded /\ CommittedIsExecuted /\ OwnerHoldsRow /\ AtMostOnce
      /\ RowTellsOutcome /\ ReplayIsTruthful /\ StoredOutcomeAgrees
  BY <1>1 DEF OutcomeInv, OutcomesAgree, IInv
<1>n. \A r \in Requests : ~Resume(r) /\ ~CommitResumed(r)
  BY <1>1 DEF Assumptions, IInv, ProcessingInv, ResumedMayGoOn, Resume, CommitResumed
<1> USE ConstantsAssumption, NoRowAssumption
        DEF TypeInv, TypeOK, Deliveries, Present, Goto, Answer
<1> DEFINE Good == RowTellsOutcome' /\ ReplayIsTruthful' /\ StoredOutcomeAgrees'
<1>3. ASSUME row' = row, executed' = executed,
             \A r \in Requests : reply'[r] = reply[r] \/ reply'[r] \notin {"2xx", "replay"}
      PROVE  Good
  BY <1>1, <1>2, <1>3 DEF RowTellsOutcome, ReplayIsTruthful, StoredOutcomeAgrees
<1>4. ASSUME row' = NoRow, executed' = executed,
             \A r \in Requests : reply'[r] = reply[r] \/ reply'[r] \notin {"2xx", "replay"}
      PROVE  Good
  BY <1>1, <1>2, <1>4 DEF RowTellsOutcome, ReplayIsTruthful, StoredOutcomeAgrees
<1>5. ASSUME NEW r \in Requests, row = NoRow, row' = NewClaim(r), executed' = executed,
             \A s \in Requests : reply'[s] = reply[s] \/ reply'[s] \notin {"2xx", "replay"}
      PROVE  Good
  <2>1. executed' = {}
    BY <1>2, <1>5 DEF ExecutedIsRecorded
  <2>2. NewClaim(r).hash = Payload[NewClaim(r).by]
    BY DEF NewClaim
  <2> QED BY <1>1, <1>2, <1>5, <2>1, <2>2, NewClaimIsRow
          DEF RowTellsOutcome, ReplayIsTruthful, StoredOutcomeAgrees
<1>6. ASSUME NEW r \in Requests, InspectAnswer(r) PROVE Good
  <2>1. ASSUME AnswerFor(r) \in {"2xx", "replay"}
        PROVE  \E e \in executed : Payload[e] = Payload[r]
    <3>1. /\ row # NoRow /\ row.status # "PROCESSING" /\ row.hash = Payload[r]
          /\ row.response \in {"none", "2xx"}
      BY <1>1, <2>1 DEF AnswerFor, Row
    <3>2. row.by \in executed
      BY <1>1, <1>2, <3>1 DEF RowTellsOutcome, StoredOutcomeAgrees, Row, Status
    <3> QED BY <1>2, <3>1, <3>2 DEF RowTellsOutcome
  <2>2. row' = row /\ executed' = executed /\ reply' = [reply EXCEPT ![r] = AnswerFor(r)]
    BY <1>6 DEF InspectAnswer
  <2>3. ReplayIsTruthful'
    BY <1>1, <1>2, <2>1, <2>2 DEF ReplayIsTruthful
  <2> QED BY <1>2, <2>2, <2>3 DEF RowTellsOutcome, StoredOutcomeAgrees
<1>7. ASSUME NEW r \in Requests, Commit(r) PROVE Good
  <2>1. row # NoRow /\ row.status = "PROCESSING" /\ row.by = r /\ executed = {}
    <3>1. r \notin executed
      BY <1>1, <1>7 DEF Commit, IInv, ProcessingInv, ExecutedIsLate
    <3> QED BY <1>2, <1>7, <3>1 DEF Commit, OwnerHoldsRow, Working, ExecutedIsRecorded
  <2>2. /\ row' = [row EXCEPT !.status = "COMMITTED"] /\ executed' = executed \cup {r}
        /\ reply' = reply
    BY <1>7 DEF Commit
  <2>3. /\ row'.status = "COMMITTED" /\ row'.by = r /\ row'.hash = row.hash
        /\ row'.response = row.response
    BY <1>1, <2>1, <2>2 DEF Row
  <2>4. row.response = "none"
    BY <1>1, <1>2, <2>1 DEF RowTellsOutcome
  <2> QED BY <1>1, <1>2, <2>1, <2>2, <2>3, <2>4
          DEF RowTellsOutcome, ReplayIsTruthful, StoredOutcomeAgrees
<1>8. ASSUME NEW r \in Requests, StoreResponse(r) PROVE Good
  <2> DEFINE code == IF pc[r] = "committed" THEN "2xx" ELSE "4xx"
  <2>1. /\ row' = IF row = NoRow THEN NoRow
                  ELSE [row EXCEPT !.status = "COMPLETED", !.response = code]
        /\ reply' = [reply EXCEPT ![r] = code] /\ executed' = executed
        /\ pc[r] \in {"committed", "failed4xx"}
    BY <1>8 DEF StoreResponse
  <2>2. pc[r] = "committed" => r \in executed
    BY <1>2 DEF CommittedIsExecuted
  <2>3. ReplayIsTruthful'
    BY <1>1, <1>2, <2>1, <2>2 DEF ReplayIsTruthful
  <2>4. row # NoRow => (pc[r] = "committed" <=> row.by \in executed)
    <3>1. pc[r] = "committed" /\ row # NoRow => row.by \in executed
      BY <1>2, <2>2 DEF RowTellsOutcome
    <3>2. pc[r] = "failed4xx" => row.by = r /\ r \notin executed
      BY <1>2 DEF CommittedIsExecuted, OwnerHoldsRow, Working
    <3> QED BY <2>1, <3>1, <3>2
  <2>5. row # NoRow => /\ row'.status = "COMPLETED" /\ row'.response = code
                       /\ row'.by = row.by /\ row'.hash = row.hash
    BY <1>1, <2>1 DEF Row
  <2> QED BY <1>2, <2>1, <2>3, <2>4, <2>5 DEF RowTellsOutcome, StoredOutcomeAgrees
<1>9. ASSUME GrowStale PROVE Good
  <2>1. /\ row # NoRow /\ row.status = "PROCESSING" /\ row' = [row EXCEPT !.stale = TRUE]
        /\ executed' = executed /\ reply' = reply
    BY <1>9 DEF GrowStale
  <2>2. /\ row'.status = row.status /\ row'.by = row.by /\ row'.hash = row.hash
        /\ row'.response = row.response
    BY <1>1, <2>1 DEF Row
  <2> QED BY <1>1, <1>2, <2>1, <2>2 DEF RowTellsOutcome, ReplayIsTruthful, StoredOutcomeAgrees
<1>10. ASSUME NEW r \in Requests, Serve(r) PROVE Good
  <2>1. CASE Claim(r)
    BY <2>1, <1>5 DEF Claim
  <2>2. CASE Conflict(r) \/ InspectStale(r) \/ Mark(r) \/ ClaimLost(r)
    BY <2>2, <1>3 DEF Conflict, InspectStale, Mark, ClaimLost
  <2>3. CASE Reclaim(r)
    BY <2>3, <1>3, <1>4 DEF Reclaim
  <2>4. CASE DropOn5xx(r)
    BY <2>4, <1>1, <1>4 DEF DropOn5xx
  <2>5. CASE CleanupOnRaise(r)
    BY <2>5, <1>1, <1>3, <1>4 DEF CleanupOnRaise, RaisedReply
  <2> QED BY <1>n, <1>6, <1>7, <1>8, <1>10, <2>1, <2>2, <2>3, <2>4, <2>5 DEF Serve
<1>11. ASSUME NEW r \in Requests, Fail(r) PROVE Good
  <2>1. CASE Unavailable(r)
    BY <2>1, <1>1, <1>3, <1>5 DEF Unavailable
  <2>2. CASE Rollback(r) \/ FailAfterCommit(r) \/ Crash(r)
    BY <2>2, <1>3 DEF Rollback, FailAfterCommit, Crash
  <2>3. CASE RecordFails(r)
    BY <2>3, <1>1, <1>3 DEF RecordFails, RaisedReply
  <2> QED BY <1>n, <1>11, <2>1, <2>2, <2>3 DEF Fail
<1>12. ASSUME NEW r \in Unkeyed, RejectUnkeyed(r) PROVE Good
  BY <1>12, <1>1, <1>3 DEF RejectUnkeyed
<1>13. ASSUME UNCHANGED vars PROVE Good
  BY <1>13, <1>3 DEF vars
<1>14. Good
  BY <1>9, <1>10, <1>11, <1>12, <1>13 DEF Next
<1> QED BY <1>1, <1>14 DEF OutcomeInv, OutcomesAgree

\* Both inductive invariants hold when the first delivery arrives.
LEMMA OutcomeInit == Init => OutcomeInv
BY ConstantsAssumption
   DEF Init, IInv, ProcessingInv, TypeInv, TypeOK, LockIsOwners, Deliveries, PC, Replies,
       ExecutedIsLate, ResumedMayGoOn, ProcessingNeverCommitted, Present, OwnerHoldsRow, Working,
       ReclaimIsSafe, StaleIsDead, ExecutedIsRecorded, CommittedIsExecuted, AtMostOnce,
       OutcomeInv, OutcomesAgree, RowTellsOutcome, ReplayIsTruthful, StoredOutcomeAgrees

\* _committed_replay_response, _stored_response: a delivery that is told the work was
\* done is told the truth about its own body, and the response the row keeps for later
\* retries is that of the request that was, or was not, executed.
THEOREM OutcomesAlwaysAgree == Assumptions /\ Spec => []OutcomesAgree
<1> SUFFICES ASSUME Assumptions PROVE Spec => []OutcomesAgree
  OBVIOUS
<1>1. OutcomeInv /\ [Next]_vars => OutcomeInv'
  BY OutcomeStep
<1>2. OutcomeInv => OutcomesAgree
  BY DEF OutcomeInv
<1> QED BY OutcomeInit, <1>1, <1>2, PTL DEF Spec

\* The DELETE of the 5xx branch goes by the key alone, whatever the status of the row;
\* it never meets the marker of executed work, because the request that deletes has not
\* committed and the row is still its own PROCESSING claim.
THEOREM MarkerStays == Assumptions /\ Spec => MarkerIsPermanent
<1> SUFFICES ASSUME Assumptions PROVE Spec => MarkerIsPermanent
  OBVIOUS
<1>1. ASSUME IInv, [Next]_vars, executed # {}, row # NoRow, row.status # "PROCESSING"
      PROVE  row' # NoRow /\ row'.status # "PROCESSING"
  <2>1. TypeInv /\ OwnerHoldsRow /\ CommittedIsExecuted
    BY <1>1 DEF IInv, ProcessingInv
  <2> USE <1>1, <2>1, NoRowAssumption DEF TypeInv, TypeOK, Present, Goto, Answer
  <2>2. \A r \in Requests : ~DropOn5xx(r)
    BY DEF DropOn5xx, OwnerHoldsRow, CommittedIsExecuted, Working
  <2>3. ASSUME NEW r \in Requests, StoreResponse(r) \/ Commit(r)
        PROVE  row' # NoRow /\ row'.status # "PROCESSING"
    BY <2>3, UpdatedIsRow, ZenonT(60) DEF StoreResponse, Commit, Row
  <2>4. \/ row' = row
        \/ \E r \in Requests : StoreResponse(r) \/ Commit(r)
    BY <2>2 DEF Next, Serve, Fail, RejectUnkeyed, Claim, Conflict, InspectStale, InspectAnswer,
         Reclaim, Mark, ClaimLost, CleanupOnRaise, Unavailable, Rollback, FailAfterCommit,
         RecordFails, Crash, GrowStale, Resume, CommitResumed, vars
  <2> QED BY <2>3, <2>4
<1>2. OutcomeInv /\ [Next]_vars => OutcomeInv'
  BY OutcomeStep
<1>3. OutcomeInv => IInv
  BY DEF OutcomeInv
<1>4. IInv /\ [Next]_vars =>
          [executed # {} /\ row # NoRow /\ row.status # "PROCESSING" =>
               row' # NoRow /\ row'.status # "PROCESSING"]_vars
  BY <1>1
<1> QED BY OutcomeInit, <1>2, <1>3, <1>4, PTL DEF Spec, MarkerIsPermanent
============================================================================
