-------------------------- MODULE SettlementProofs --------------------------
(***************************************************************************)
(* Settlement keeps amount_paid, the status and the credit of a contact in *)
(* step with the settlements in force, implements Claims, and the reports  *)
(* of Statements tell of one debt.  The routes that write without locking  *)
(* what they read run alone (UnlockedAlone) and an invoice keeps its state *)
(* while a credit note settles it (NotesFirst): the code enforces neither, *)
(* so both are hypotheses of the theorems.                                 *)
(***************************************************************************)
EXTENDS Statements, SumTheorems

\* What settlement i takes off document d now.
Takes(i, d) == IF stage[i] = "ACTIVE" THEN portion[i][d] ELSE 0
Taken(d) == SumFunctionOnSet([i \in Ids |-> Takes(i, d)], Ids)

\* amount_paid is the sum of what is settled; a cancelled document has no settlement.
PaidIsSettled ==
    \A d \in Docs :
        /\ paid[d] <= Payable[d]
        /\ status[d] # "CANCELLED" => paid[d] = Imported[d] + Taken(d)
        /\ status[d] = "CANCELLED" => paid[d] = 0 /\ \A i \in Ids : Takes(i, d) = 0

\* A request that relies on rows it has not locked has no rival.
UnlockedAreAlone ==
    \A s, t \in Sessions : s # t /\ UnlockedSession(s) => ~Busy(t)

\* Nobody but s may write row r.
Guards(s, r) == row_lock[r] = s \/ UnlockedSession(s)

\* What a request in flight has read is still so, and what it checked still holds.
Current(s) ==
    LET q == session[s]
    IN  /\ \A d \in TakenFrom(q.gone) \cup Touches(q.alloc) : Guards(s, d) /\ q.saw[d] = paid[d]
        /\ \A i \in {q.gone, q.new} \cap Payments :
               Guards(s, ContactOf[i]) /\ q.seen[ContactOf[i]] = credit[ContactOf[i]]
        /\ q.gone \in Ids => Guards(s, q.gone) /\ stage[q.gone] = "ACTIVE"
        /\ q.new \in Ids => stage[q.new] = "ABSENT"
        /\ \A d \in Touches(q.alloc) : status[d] # "CANCELLED" /\ q.alloc[d] \in Portions
        /\ q.new = Nobody => Touches(q.alloc) = {}
        /\ q.new \in Notes => q.extra = 0
        /\ q.doc = Nobody => q.gone # q.new
        /\ q.doc # Nobody =>
               /\ row_lock[q.doc] = s /\ status[q.doc] # "CANCELLED"
               /\ q.gone = Nobody /\ q.new = Nobody
               /\ \A i \in Ids : Takes(i, q.doc) = 0

IInv ==
    /\ TypeOK
    /\ PaidIsSettled
    /\ DebtsAgree
    /\ UnlockedAreAlone
    /\ \A s \in Sessions : Busy(s) => Current(s)
    /\ \A i \in Notes : advance[i] = 0

Ops == {"make", "cancel", "replace", "void", "correct"}

\* What the checks of a request establish, when it asks to take back i, to make j
\* with the allocation p, or to cancel d.
Requested(i, j, d, p, extra, locks) ==
    /\ i \in Ids => stage[i] = "ACTIVE" /\ i \in locks
    /\ j \in Ids => stage[j] = "ABSENT"
    /\ \/ Unlocked(i, j)
       \/ /\ TakenFrom(i) \cup Touches(p) \subseteq locks
          /\ \A k \in {i, j} \cap Payments : ContactOf[k] \in locks
    /\ \A x \in Touches(p) : status[x] # "CANCELLED" /\ p[x] \in Portions
    /\ j = Nobody => Touches(p) = {}
    /\ j \in Notes => extra = 0
    /\ d = Nobody => i # j
    /\ d # Nobody =>
           /\ d \in locks /\ status[d] # "CANCELLED" /\ i = Nobody /\ j = Nobody
           /\ \A k \in Ids : Takes(k, d) = 0

\* The shape of a request, as TypeOK has it.
Requests ==
    [op : {"idle", "make", "cancel", "replace", "void", "correct"},
     gone : Ids \cup {Nobody}, new : Ids \cup {Nobody}, doc : Docs \cup {Nobody},
     alloc : [Docs -> Nat], extra : Nat, saw : [Docs -> Nat], seen : [Contacts -> Int]]

Begins(s, op, i, j, d, p, extra, locks) ==
    /\ op \in Ops /\ i \in Ids \cup {Nobody} /\ j \in Ids \cup {Nobody}
    /\ d \in Docs \cup {Nobody} /\ p \in [Docs -> Nat] /\ extra \in Nat /\ locks \subseteq Rows
    /\ Requested(i, j, d, p, extra, locks)
    /\ Begin(s, op, i, j, d, p, extra, locks)

-----------------------------------------------------------------------------
\* The kinds of rows are disjoint and what the assumption says of the constants.
LEMMA Sorts ==
    /\ Nobody \notin Rows /\ Nobody \notin Sessions
    /\ Docs \cap Ids = {} /\ Docs \cap Contacts = {} /\ Ids \cap Contacts = {}
    /\ Payments \cap Notes = {} /\ IsFiniteSet(Ids) /\ IsFiniteSet(Payments)
    /\ NoPortion \in [Docs -> Nat] /\ \A d \in Docs : NoPortion[d] = 0
    /\ Touches(NoPortion) = {}
    /\ \A x \in Docs \cup Payments : ContactOf[x] \in Contacts
    /\ \A d \in Docs : Payable[d] \in Nat \ {0} /\ Imported[d] \in Nat /\ Imported[d] <= Payable[d]
    /\ Portions \subseteq Nat \ {0} /\ Advances \subseteq Nat
<1>1. IsFiniteSet(Ids)
  BY SettlementAssumption, FS_Union DEF Ids
<1> QED BY <1>1, SettlementAssumption DEF Ids, Rows, NoPortion, Touches

\* What a settlement takes never exceeds amount_paid, so no amount is clamped.
LEMMA TakesFits ==
    ASSUME TypeOK, PaidIsSettled, NEW i \in Ids, stage[i] = "ACTIVE", NEW d \in Docs
    PROVE  /\ portion[i][d] \in Nat /\ portion[i][d] <= paid[d] /\ paid[d] \in Nat
           /\ portion[i][d] > 0 => status[d] # "CANCELLED"
<1> DEFINE f == [k \in Ids |-> Takes(k, d)]
<1>1. \A k \in Ids : f[k] \in Nat
  BY DEF TypeOK, Takes
<1>2. f[i] = portion[i][d]
  BY DEF Takes
<1> HIDE DEF f
<1>3. f[i] <= SumFunctionOnSet(f, Ids) /\ SumFunctionOnSet(f, Ids) \in Nat
  BY <1>1, Sorts, SumNat
<1>4. status[d] # "CANCELLED" => paid[d] = Imported[d] + SumFunctionOnSet(f, Ids)
  BY DEF f, PaidIsSettled, Taken
<1>5. status[d] = "CANCELLED" => portion[i][d] = 0
  BY DEF PaidIsSettled, Takes
<1>6. portion[i][d] \in Nat /\ paid[d] \in Nat /\ Imported[d] \in Nat
  BY Sorts DEF TypeOK
<1> QED BY <1>2, <1>3, <1>4, <1>5, <1>6

\* An allocation a request brings is one of natural numbers.
LEMMA AllocationTyped ==
    ASSUME NEW p \in [Docs -> Portions \cup {0}]
    PROVE  p \in [Docs -> Nat] /\ \A x \in Docs : p[x] > 0 => p[x] \in Portions
<1>1. \A x \in Portions : x \in Nat
  BY Sorts
<1>2. \A x \in Docs : p[x] \in Portions \/ p[x] = 0
  OBVIOUS
<1>3. \A x \in Docs : p[x] \in Nat
  BY <1>1, <1>2
<1>4. ASSUME NEW x \in Docs, p[x] > 0 PROVE p[x] \in Portions
  BY <1>2, <1>4
<1> QED BY <1>3, <1>4

\* The allocation of a credit note.
LEMMA NoteTyped ==
    ASSUME NEW d \in Docs, NEW x \in Portions
    PROVE  [NoPortion EXCEPT ![d] = x] \in [Docs -> Portions \cup {0}]
           /\ Touches([NoPortion EXCEPT ![d] = x]) = {d}
<1>1. x \in Nat /\ x # 0
  BY Sorts
<1> QED BY <1>1 DEF NoPortion, Touches

\* Every request begins with the rows locked and the facts checked that it needs.
LEMMA OpenBegins ==
    ASSUME IInv, UnlockedAlone, NotesFirst, NEW s \in Sessions, Open(s)
    PROVE  \E op, i, j, d, p, extra, locks : Begins(s, op, i, j, d, p, extra, locks)
<1> USE DEF Ids, Rows
<1> DEFINE Goal == \E op, i, j, d, p, extra, locks : Begins(s, op, i, j, d, p, extra, locks)
<1>1. TypeOK /\ PaidIsSettled
  BY DEF IInv
<1>2. \A i \in Payments \cup Notes : TakenFrom(i) = Touches(portion[i])
  BY DEF TakenFrom
<1>3. ASSUME NEW j \in Payments, NEW p \in Allocations[j], NEW extra \in Advances, OpenMake(s, j, p, extra)
      PROVE  Goal
  <2> DEFINE locks == Touches(p) \cup (IF KindOf[j] = "invoice" THEN {ContactOf[j]} ELSE {})
  <2>1. p \in [Docs -> Nat] /\ \A x \in Docs : p[x] > 0 => p[x] \in Portions
    BY AllocationTyped DEF Allocations
  <2>2. extra \in Nat /\ locks \subseteq Rows
    BY Sorts DEF Touches
  <2>3. Unlocked(Nobody, j) \/ ContactOf[j] \in locks
    BY SettlementAssumption, Sorts DEF Unlocked
  <2>4. \A x \in Touches(p) : status[x] # "CANCELLED"
    BY <1>3 DEF OpenMake, Allocates, Receivable
  <2>5. Requested(Nobody, j, Nobody, p, extra, locks)
    BY <1>3, <2>1, <2>3, <2>4, Sorts DEF Requested, OpenMake, TakenFrom, Touches
  <2>6. Begin(s, "make", Nobody, j, Nobody, p, extra, locks)
    BY <1>3 DEF OpenMake
  <2>7. Begins(s, "make", Nobody, j, Nobody, p, extra, locks)
    BY <2>1, <2>2, <2>5, <2>6 DEF Begins, Ops
  <2> QED BY <2>7
<1>4. ASSUME NEW j \in Payments, NEW p \in Allocations[j], NEW extra \in Advances, NEW i \in Payments,
             OpenReplace(s, i, j, p, extra)
      PROVE  Goal
  <2> DEFINE locks == {i, ContactOf[i]} \cup Touches(portion[i]) \cup Touches(p)
                          \cup (IF KindOf[j] = "invoice" THEN {ContactOf[j]} ELSE {})
  <2>1. p \in [Docs -> Nat] /\ \A x \in Docs : p[x] > 0 => p[x] \in Portions
    BY AllocationTyped DEF Allocations
  <2>2. extra \in Nat /\ locks \subseteq Rows
    BY Sorts DEF Touches
  <2>3. stage[i] = "ACTIVE" /\ stage[j] = "ABSENT"
    BY <1>4 DEF OpenReplace
  <2>4. Unlocked(i, j) \/ ContactOf[j] \in locks
    BY SettlementAssumption, Sorts DEF Unlocked
  <2>5. ASSUME NEW x \in Touches(p)
        PROVE  status[x] # "CANCELLED"
    <3>1. x \in Docs /\ StatusWithout(paid, i)[x] \in Receivable(x)
      BY <1>4, <2>5 DEF OpenReplace, Allocates, Touches
    <3>2. CASE portion[i][x] > 0
      BY <1>1, <2>3, <3>1, <3>2, TakesFits
    <3>3. CASE ~ (portion[i][x] > 0)
      BY <3>1, <3>3 DEF StatusWithout, Receivable
    <3> QED BY <3>2, <3>3
  <2>6. Requested(i, j, Nobody, p, extra, locks)
    BY <1>2, <2>1, <2>3, <2>4, <2>5, Sorts DEF Requested, Touches
  <2>7. Begin(s, "replace", i, j, Nobody, p, extra, locks)
    BY <1>4 DEF OpenReplace
  <2>8. Begins(s, "replace", i, j, Nobody, p, extra, locks)
    BY <2>1, <2>2, <2>6, <2>7 DEF Begins, Ops
  <2> QED BY <2>8
<1>5. ASSUME NEW i \in Ids, OpenCancel(s, i) PROVE Goal
  <2> DEFINE locks == {i, ContactOf[i]} \cup Touches(portion[i])
  <2>1. i \in Payments /\ stage[i] = "ACTIVE" /\ Begin(s, "cancel", i, Nobody, Nobody, NoPortion, 0, locks)
    BY <1>5 DEF OpenCancel
  <2>2. locks \subseteq Rows
    BY <2>1, Sorts DEF Touches
  <2>3. Requested(i, Nobody, Nobody, NoPortion, 0, locks)
    BY <1>2, <2>1, Sorts DEF Requested
  <2>4. Begins(s, "cancel", i, Nobody, Nobody, NoPortion, 0, locks)
    BY <2>1, <2>2, <2>3, Sorts DEF Begins, Ops
  <2> QED BY <2>4
<1>6. ASSUME NEW i \in Ids, OpenCancelNote(s, i) PROVE Goal
  <2>1. i \in Notes /\ stage[i] = "ACTIVE" /\ Begin(s, "cancel", i, Nobody, Nobody, NoPortion, 0, {i})
    BY <1>6 DEF OpenCancelNote
  <2>2. Requested(i, Nobody, Nobody, NoPortion, 0, {i})
    BY <2>1, Sorts DEF Requested, Unlocked
  <2>3. Begins(s, "cancel", i, Nobody, Nobody, NoPortion, 0, {i})
    BY <2>1, <2>2, Sorts DEF Begins, Ops
  <2> QED BY <2>3
<1>7. ASSUME NEW j \in Notes, NEW d \in Docs, NEW x \in Portions, OpenNote(s, j, d, x) PROVE Goal
  <2> DEFINE p == [NoPortion EXCEPT ![d] = x]
  <2>1. p \in [Docs -> Nat] /\ (\A y \in Docs : p[y] > 0 => p[y] \in Portions) /\ Touches(p) = {d}
    BY AllocationTyped, NoteTyped
  <2>2. stage[j] = "ABSENT" /\ status[d] # "CANCELLED" /\ Begin(s, "make", Nobody, j, Nobody, p, 0, {})
    BY <1>7 DEF OpenNote
  <2> HIDE DEF p
  <2>3. Requested(Nobody, j, Nobody, p, 0, {})
    BY <2>1, <2>2, Sorts DEF Requested, Unlocked, Touches
  <2>4. Begins(s, "make", Nobody, j, Nobody, p, 0, {})
    BY <2>1, <2>2, <2>3 DEF Begins, Ops
  <2> QED BY <2>4
<1>8. ASSUME NEW j \in Notes, NEW d \in Docs, NEW x \in Portions, NEW i \in Notes,
             OpenReplaceNote(s, i, j, d, x)
      PROVE  Goal
  <2> DEFINE p == [NoPortion EXCEPT ![d] = x]
  <2>1. p \in [Docs -> Nat] /\ (\A y \in Docs : p[y] > 0 => p[y] \in Portions) /\ Touches(p) = {d}
    BY AllocationTyped, NoteTyped
  <2>2. /\ stage[i] = "ACTIVE" /\ stage[j] = "ABSENT" /\ StatusWithout(paid, i)[d] # "CANCELLED"
        /\ Begin(s, "replace", i, j, Nobody, p, 0, {i})
    BY <1>8 DEF OpenReplaceNote
  <2> HIDE DEF p
  <2>3. status[d] # "CANCELLED"
    <3>1. CASE portion[i][d] > 0
      BY <1>1, <2>2, <3>1, TakesFits
    <3>2. CASE ~ (portion[i][d] > 0)
      BY <2>2, <3>2 DEF StatusWithout
    <3> QED BY <3>1, <3>2
  <2>4. Requested(i, j, Nobody, p, 0, {i})
    BY <2>1, <2>2, <2>3, Sorts DEF Requested, Unlocked, Touches
  <2>5. Begins(s, "replace", i, j, Nobody, p, 0, {i})
    BY <2>1, <2>2, <2>4, Sorts DEF Begins, Ops
  <2> QED BY <2>5
<1>9. ASSUME NEW d \in Docs, OpenVoid(s, d) PROVE Goal
  <2>1. /\ status[d] # "CANCELLED" /\ \A i \in Ids : Takes(i, d) = 0
        /\ Begin(s, "void", Nobody, Nobody, d, NoPortion, 0, {d})
    BY <1>9 DEF OpenVoid, Takes
  <2>2. Requested(Nobody, Nobody, d, NoPortion, 0, {d})
    BY <2>1, Sorts DEF Requested, TakenFrom
  <2>3. Begins(s, "void", Nobody, Nobody, d, NoPortion, 0, {d})
    BY <2>1, <2>2, Sorts DEF Begins, Ops
  <2> QED BY <2>3
<1>10. ASSUME NEW d \in Docs, OpenCorrect(s, d) PROVE Goal
  <2>1. /\ status[d] # "CANCELLED" /\ \A i \in Ids : Takes(i, d) = 0
        /\ Begin(s, "correct", Nobody, Nobody, d, NoPortion, 0, {d})
    BY <1>10 DEF OpenCorrect, Takes
  <2>2. Requested(Nobody, Nobody, d, NoPortion, 0, {d})
    BY <2>1, Sorts DEF Requested, TakenFrom
  <2>3. Begins(s, "correct", Nobody, Nobody, d, NoPortion, 0, {d})
    BY <2>1, <2>2, Sorts DEF Begins, Ops
  <2> QED BY <2>3
<1> QED BY <1>3, <1>4, <1>5, <1>6, <1>7, <1>8, <1>9, <1>10 DEF Open

-----------------------------------------------------------------------------
(* The inductive invariant is one.                                         *)

\* The documents as imported satisfy the invariant: nothing is settled yet.
LEMMA InitIInv == ASSUME Init PROVE IInv
<1> USE DEF Init
<1>1. /\ status \in [Docs -> Statuses] /\ \A d \in Docs : status[d] # "CANCELLED"
      /\ \A d \in Docs : status[d] = IF Imported[d] > 0 THEN StatusUp(d, Imported[d]) ELSE status[d]
      /\ \A d \in Docs : Imported[d] = 0 => status[d] \in {"POSTED", "SENT", "UNPAID"}
      /\ \A d \in Docs : status[d] = "SENT" => KindOf[d] = "invoice"
      /\ stage \in [Ids -> {"ABSENT", "UNUSED"}]
  BY Sorts DEF Statuses, StatusUp
<1>2. TypeOK
  BY <1>1, Sorts, SettlementAssumption DEF TypeOK, Idle, Busy
<1>3. PaidIsSettled
  <2> SUFFICES ASSUME NEW d \in Docs
               PROVE  paid[d] <= Payable[d] /\ paid[d] = Imported[d] + Taken(d)
    BY <1>1 DEF PaidIsSettled
  <2> DEFINE f == [i \in Ids |-> Takes(i, d)]
  <2>1. \A i \in Ids : f[i] = 0
    BY <1>1 DEF Takes
  <2> HIDE DEF f
  <2>2. SumFunctionOnSet(f, Ids) = 0
    BY <2>1, Sorts, SumZero
  <2> QED BY <2>2, Sorts, SettlementAssumption DEF Taken, f
<1>4. StatusTellsDebt
  BY <1>1, Sorts, SettlementAssumption DEF StatusTellsDebt, Receivable, StatusUp
<1>5. CreditIsAdvances
  <2>1. {i \in Payments : stage[i] = "ACTIVE"} = {}
    BY <1>1 DEF Ids
  <2> QED BY <2>1, SumEmpty DEF CreditIsAdvances
<1>6. \A s \in Sessions : ~Busy(s)
  BY DEF Busy, Idle
<1> QED BY <1>2, <1>3, <1>4, <1>5, <1>6 DEF IInv, DebtsAgree, UnlockedAreAlone, UnlockedSession, Ids

\* A request stays current through a step of another that respects what it guards.
LEMMA CurrentStays ==
    ASSUME TypeOK, NEW t \in Sessions, Current(t),
           session'[t] = session[t],
           \A r \in Rows : Guards(t, r) => Guards(t, r)',
           \A r \in Rows : row_lock[r] = t => row_lock'[r] = t,
           \A d \in Docs : Guards(t, d) =>
               paid'[d] = paid[d] /\ (status[d] # "CANCELLED" => status'[d] # "CANCELLED"),
           \A c \in Contacts : Guards(t, c) => credit'[c] = credit[c],
           \A i \in Ids : Guards(t, i) /\ i = session[t].gone =>
               stage'[i] = stage[i] /\ portion'[i] = portion[i],
           \A i \in Ids : i = session[t].new => stage'[i] = stage[i],
           \A d \in Docs : d = session[t].doc /\ row_lock[d] = t => \A i \in Ids : Takes(i, d)' = Takes(i, d)
    PROVE  Current(t)'
<1> DEFINE q == session[t]
<1>1. /\ q.gone \in Ids \cup {Nobody} /\ q.new \in Ids \cup {Nobody} /\ q.doc \in Docs \cup {Nobody}
      /\ q.alloc \in [Docs -> Nat] /\ Touches(q.alloc) \subseteq Docs /\ TakenFrom(q.gone) \subseteq Docs
      /\ Docs \subseteq Rows /\ Ids \subseteq Rows /\ Contacts \subseteq Rows /\ Payments \subseteq Ids
      /\ Nobody \notin Ids
  BY Sorts DEF TypeOK, Touches, TakenFrom, Rows, Ids
<1>2. TakenFrom(q.gone)' = TakenFrom(q.gone)
  <2>1. q.gone \in Ids => portion'[q.gone] = portion[q.gone]
    BY DEF Current
  <2>2. session'[t].gone = q.gone
    OBVIOUS
  <2> HIDE DEF q
  <2> QED BY <2>1, <2>2 DEF TakenFrom, Touches, q
<1>3. Touches(q.alloc)' = Touches(q.alloc)
  BY DEF Touches
<1>4. \A d \in TakenFrom(q.gone) \cup Touches(q.alloc) : Guards(t, d)' /\ q.saw[d] = paid'[d]
  BY <1>1 DEF Current
<1>5. \A i \in {q.gone, q.new} \cap Payments :
          Guards(t, ContactOf[i])' /\ q.seen[ContactOf[i]] = credit'[ContactOf[i]]
  BY <1>1, Sorts DEF Current
<1>6. /\ q.gone \in Ids => Guards(t, q.gone)' /\ stage'[q.gone] = "ACTIVE"
      /\ q.new \in Ids => stage'[q.new] = "ABSENT"
  BY <1>1 DEF Current
<1>7. \A d \in Touches(q.alloc) : status'[d] # "CANCELLED" /\ q.alloc[d] \in Portions
  BY <1>1 DEF Current
<1>8. /\ q.new = Nobody => Touches(q.alloc) = {}
      /\ q.new \in Notes => q.extra = 0
      /\ q.doc = Nobody => q.gone # q.new
  BY DEF Current
<1>9. q.doc # Nobody =>
          /\ row_lock'[q.doc] = t /\ status'[q.doc] # "CANCELLED"
          /\ q.gone = Nobody /\ q.new = Nobody
          /\ \A i \in Ids : Takes(i, q.doc)' = 0
  BY <1>1 DEF Current, Guards
<1> QED BY <1>2, <1>3, <1>4, <1>5, <1>6, <1>7, <1>8, <1>9 DEF Current

\* What a request in flight relies on changes only with the rows it has locked.
LEMMA BeginKeeps ==
    ASSUME IInv, UnlockedAlone, NEW s \in Sessions, NEW op, NEW i, NEW j, NEW d, NEW p, NEW extra, NEW locks,
           Begins(s, op, i, j, d, p, extra, locks)
    PROVE  IInv'
<1>1. /\ op \in Ops /\ i \in Ids \cup {Nobody} /\ j \in Ids \cup {Nobody}
      /\ d \in Docs \cup {Nobody} /\ p \in [Docs -> Nat] /\ extra \in Nat /\ locks \subseteq Rows
      /\ Requested(i, j, d, p, extra, locks)
  BY DEF Begins
<1> DEFINE q == [op |-> op, gone |-> i, new |-> j, doc |-> d, alloc |-> p, extra |-> extra,
                 saw |-> paid, seen |-> credit]
<1>2. /\ ~Busy(s) /\ Alone(i, j) /\ \A r \in locks : row_lock[r] = Nobody
      /\ row_lock' = [r \in Rows |-> IF r \in locks THEN s ELSE row_lock[r]]
      /\ session' = [session EXCEPT ![s] = q]
      /\ UNCHANGED <<paid, status, stage, portion, advance, credit>>
  BY DEF Begins, Begin
<1>3. TypeOK /\ PaidIsSettled /\ DebtsAgree /\ UnlockedAreAlone
      /\ (\A t \in Sessions : Busy(t) => Current(t)) /\ (\A n \in Notes : advance[n] = 0)
  BY DEF IInv
<1>4. /\ session'[s] = q /\ Busy(s)'
      /\ \A t \in Sessions : t # s => session'[t] = session[t] /\ (Busy(t)' <=> Busy(t))
  BY <1>1, <1>2, <1>3 DEF TypeOK, Busy, Ops
<1>5. TypeOK'
  BY <1>1, <1>2, <1>3, <1>4, Sorts DEF TypeOK, Ops, Busy
<1>6. PaidIsSettled'
  BY <1>2, <1>3 DEF PaidIsSettled, Taken, Takes
<1>7. DebtsAgree'
  BY <1>2, <1>3 DEF DebtsAgree, StatusTellsDebt, CreditIsAdvances, AdvanceOf
<1>8. /\ UnlockedSession(s)' <=> Unlocked(i, j)
      /\ \A t \in Sessions : t # s => (UnlockedSession(t)' <=> UnlockedSession(t)) /\ ~UnlockedSession(t)
      /\ Unlocked(i, j) => \A t \in Sessions : ~Busy(t)
  BY <1>2, <1>4 DEF UnlockedSession, Alone
<1>9. UnlockedAreAlone'
  BY <1>4, <1>8 DEF UnlockedAreAlone
<1>10. Current(s)'
  <2>1. \A r \in locks : Guards(s, r)'
    BY <1>1, <1>2 DEF Guards
  <2>2. Unlocked(i, j) => \A r : Guards(s, r)'
    BY <1>8 DEF Guards
  <2>3. (TakenFrom(i) = TakenFrom(i)') /\ \A k \in Ids, x \in Docs : Takes(k, x)' = Takes(k, x)
    BY <1>2 DEF TakenFrom, Touches, Takes
  <2>4. \A r \in TakenFrom(i) \cup Touches(p) : Guards(s, r)'
    BY <1>1, <2>1, <2>2 DEF Requested
  <2>5. \A k \in {i, j} \cap Payments : Guards(s, ContactOf[k])'
    BY <1>1, <2>1, <2>2 DEF Requested
  <2>6. d # Nobody => row_lock'[d] = s
    BY <1>1, <1>2 DEF Requested
  <2> QED BY <1>1, <1>2, <1>4, <2>1, <2>3, <2>4, <2>5, <2>6 DEF Requested, Current
<1>11. ASSUME NEW t \in Sessions, t # s, Busy(t)
       PROVE  Current(t)'
  <2>1. \A r \in Rows : row_lock[r] = t => row_lock'[r] = t
    BY <1>2, Sorts
  <2>2. ~UnlockedSession(t)
    BY <1>8, <1>11
  <2>3. Current(t)
    BY <1>3, <1>11
  <2>4. \A r \in Rows : Guards(t, r) => Guards(t, r)'
    BY <2>1, <2>2 DEF Guards
  <2>5. session'[t] = session[t]
    BY <1>4, <1>11
  <2>6. \A k \in Ids, x \in Docs : Takes(k, x)' = Takes(k, x)
    BY <1>2 DEF Takes
  <2> QED BY <1>2, <1>3, <2>1, <2>3, <2>4, <2>5, <2>6, CurrentStays
<1> QED BY <1>2, <1>3, <1>4, <1>5, <1>6, <1>7, <1>9, <1>10, <1>11 DEF IInv

\* What the end of a transaction leaves to the others.
LEMMA Released ==
    ASSUME TypeOK, UnlockedAreAlone, NEW s \in Sessions, Busy(s), Release(s)
    PROVE  /\ row_lock' \in [Rows -> Sessions \cup {Nobody}] /\ session' \in [Sessions -> Requests]
           /\ \A r \in Rows : (row_lock[r] # Nobody => Busy(row_lock[r]))'
           /\ session'[s] = Idle /\ ~Busy(s)'
           /\ UnlockedAreAlone'
           /\ \A t \in Sessions \ {s} :
                  /\ session'[t] = session[t] /\ (Busy(t)' <=> Busy(t))
                  /\ \A r \in Rows : row_lock[r] = t => row_lock'[r] = t
                  /\ \A r \in Rows : Guards(t, r) => Guards(t, r)'
                  /\ Busy(t) => ~UnlockedSession(t) /\ \A r \in Rows : Guards(t, r) => ~Guards(s, r)
<1>1. /\ session'[s] = Idle /\ DOMAIN session' = Sessions
      /\ \A t \in Sessions \ {s} : session'[t] = session[t]
      /\ row_lock' = [r \in Rows |-> IF row_lock[r] = s THEN Nobody ELSE row_lock[r]]
  BY DEF Release, TypeOK
<1>2. ~Busy(s)' /\ \A t \in Sessions \ {s} :
          (Busy(t)' <=> Busy(t)) /\ (UnlockedSession(t)' <=> UnlockedSession(t))
  BY <1>1 DEF Busy, Idle, UnlockedSession
<1>3. /\ row_lock' \in [Rows -> Sessions \cup {Nobody}]
      /\ \A r \in Rows : (row_lock[r] # Nobody => Busy(row_lock[r]))'
  <2>1. row_lock \in [Rows -> Sessions \cup {Nobody}] /\ \A r \in Rows : row_lock[r] # Nobody => Busy(row_lock[r])
    BY DEF TypeOK
  <2>2. row_lock' \in [Rows -> Sessions \cup {Nobody}]
    BY <1>1, <2>1
  <2>3. ASSUME NEW r \in Rows, row_lock'[r] # Nobody
        PROVE  Busy(row_lock[r])'
    <3>1. row_lock[r] \in Sessions \ {s} /\ row_lock'[r] = row_lock[r]
      BY <1>1, <2>1, <2>3
    <3>2. Busy(row_lock[r])
      BY <2>1, <2>3, <3>1
    <3>3. PICK t \in Sessions \ {s} : t = row_lock[r]
      BY <3>1
    <3>4. Busy(t)'
      BY <1>2, <3>2, <3>3
    <3> QED BY <3>1, <3>3, <3>4 DEF Busy
  <2> QED BY <2>2, <2>3
<1>6. session' \in [Sessions -> Requests]
  <2>1. session \in [Sessions -> Requests]
    BY DEF TypeOK, Requests
  <2>2. Idle \in Requests
    BY Sorts DEF Idle, Requests
  <2> QED BY <2>1, <2>2 DEF Release
<1>4. UnlockedAreAlone'
  BY <1>2 DEF UnlockedAreAlone, UnlockedSession
<1>5. ASSUME NEW t \in Sessions \ {s}
      PROVE  /\ \A r \in Rows : row_lock[r] = t => row_lock'[r] = t
             /\ \A r \in Rows : Guards(t, r) => Guards(t, r)'
             /\ Busy(t) => ~UnlockedSession(t) /\ \A r \in Rows : Guards(t, r) => ~Guards(s, r)
  BY <1>1, <1>2 DEF Guards, UnlockedAreAlone
<1> QED BY <1>1, <1>2, <1>3, <1>4, <1>5, <1>6

\* A request that fails, or is killed, leaves the books as they were.
LEMMA RollbackKeeps ==
    ASSUME IInv, NEW s \in Sessions, Rollback(s)
    PROVE  IInv'
<1>1. /\ TypeOK /\ PaidIsSettled /\ DebtsAgree /\ UnlockedAreAlone
      /\ (\A t \in Sessions : Busy(t) => Current(t)) /\ (\A n \in Notes : advance[n] = 0)
  BY DEF IInv
<1>2. Busy(s) /\ Release(s) /\ UNCHANGED <<paid, status, stage, portion, advance, credit>>
  BY DEF Rollback
<1>3. TypeOK'
  <2>1. /\ row_lock' \in [Rows -> Sessions \cup {Nobody}] /\ session' \in [Sessions -> Requests]
        /\ \A r \in Rows : (row_lock[r] # Nobody => Busy(row_lock[r]))'
    BY <1>1, <1>2, Released
  <2>2. /\ paid' \in [Docs -> Nat] /\ status' \in [Docs -> Statuses]
        /\ stage' \in [Ids -> {"UNUSED", "ABSENT", "ACTIVE", "CANCELLED"}]
        /\ portion' \in [Ids -> [Docs -> Nat]] /\ advance' \in [Ids -> Nat]
        /\ credit' \in [Contacts -> Int]
    BY <1>1, <1>2 DEF TypeOK
  <2> QED BY <2>1, <2>2 DEF TypeOK, Requests
<1>4. PaidIsSettled'
  BY <1>1, <1>2 DEF PaidIsSettled, Taken, Takes
<1>5. DebtsAgree'
  BY <1>1, <1>2 DEF DebtsAgree, StatusTellsDebt, CreditIsAdvances, AdvanceOf
<1>6. ASSUME NEW t \in Sessions, Busy(t)'
      PROVE  Current(t)'
  <2>1. t \in Sessions \ {s} /\ Busy(t) /\ Current(t)
    BY <1>1, <1>2, <1>6, Released
  <2>2. \A k \in Ids, x \in Docs : Takes(k, x)' = Takes(k, x)
    BY <1>2 DEF Takes
  <2> QED BY <1>1, <1>2, <2>1, <2>2, Released, CurrentStays
<1> QED BY <1>1, <1>2, <1>3, <1>4, <1>5, <1>6, Released DEF IInv

\* Cancelling a document no settlement touches.
LEMMA VoidKeeps ==
    ASSUME IInv, NEW s \in Sessions, CommitVoid(s)
    PROVE  IInv'
<1> DEFINE d == session[s].doc
<1>1. /\ TypeOK /\ PaidIsSettled /\ DebtsAgree /\ UnlockedAreAlone
      /\ (\A t \in Sessions : Busy(t) => Current(t)) /\ (\A n \in Notes : advance[n] = 0)
  BY DEF IInv
<1>2. /\ Busy(s) /\ d # Nobody /\ Release(s)
      /\ paid' = [paid EXCEPT ![d] = 0] /\ status' = [status EXCEPT ![d] = "CANCELLED"]
      /\ UNCHANGED <<stage, portion, advance, credit>>
  BY DEF CommitVoid
<1>3. d \in Docs /\ d \in Rows /\ Guards(s, d) /\ \A i \in Ids : Takes(i, d) = 0
  BY <1>1, <1>2 DEF TypeOK, Current, Guards, Rows
<1> HIDE DEF d
<1>4. /\ paid' \in [Docs -> Nat] /\ status' \in [Docs -> Statuses]
      /\ paid'[d] = 0 /\ status'[d] = "CANCELLED"
      /\ \A x \in Docs : x # d => paid'[x] = paid[x] /\ status'[x] = status[x]
  BY <1>1, <1>2, <1>3 DEF TypeOK, Statuses
<1>5. TypeOK'
  <2>1. /\ row_lock' \in [Rows -> Sessions \cup {Nobody}] /\ session' \in [Sessions -> Requests]
        /\ \A r \in Rows : (row_lock[r] # Nobody => Busy(row_lock[r]))'
    BY <1>1, <1>2, Released
  <2>2. /\ paid' \in [Docs -> Nat] /\ status' \in [Docs -> Statuses]
        /\ stage' \in [Ids -> {"UNUSED", "ABSENT", "ACTIVE", "CANCELLED"}]
        /\ portion' \in [Ids -> [Docs -> Nat]] /\ advance' \in [Ids -> Nat]
        /\ credit' \in [Contacts -> Int]
    BY <1>1, <1>2, <1>4 DEF TypeOK
  <2> QED BY <2>1, <2>2 DEF TypeOK, Requests
<1>6. \A i \in Ids, x \in Docs : Takes(i, x)' = Takes(i, x)
  BY <1>2 DEF Takes
<1>7. PaidIsSettled'
  <2>1. \A x \in Docs : Taken(x)' = Taken(x)
    BY <1>2 DEF Taken, Takes
  <2> QED BY <1>1, <1>3, <1>4, <1>6, <2>1, Sorts DEF PaidIsSettled
<1>8. DebtsAgree'
  BY <1>1, <1>2, <1>3, <1>4 DEF DebtsAgree, StatusTellsDebt, CreditIsAdvances, AdvanceOf, Receivable
<1>9. ASSUME NEW t \in Sessions, Busy(t)'
      PROVE  Current(t)'
  <2>1. t \in Sessions \ {s} /\ Busy(t) /\ Current(t)
    BY <1>1, <1>2, <1>9, Released
  <2>2. ~Guards(t, d)
    BY <1>1, <1>2, <1>3, <2>1, Released
  <2>3. \A x \in Docs : Guards(t, x) =>
            paid'[x] = paid[x] /\ (status[x] # "CANCELLED" => status'[x] # "CANCELLED")
    BY <1>4, <2>2
  <2> QED BY <1>1, <1>2, <1>6, <2>1, <2>3, Released, CurrentStays
<1> QED BY <1>1, <1>2, <1>5, <1>7, <1>8, <1>9, Released DEF IInv

-----------------------------------------------------------------------------
\* What the request s takes off document d no longer.
Returned(s, d) == IF session[s].gone \in Ids THEN portion[session[s].gone][d] ELSE 0

\* The amount and the status a request writes are those of the committed rows: what
\* it has read is current, and no amount is clamped.
LEMMA SettledFromPaid ==
    ASSUME IInv, NEW s \in Sessions, Busy(s), NEW d \in Docs
    PROVE  LET back == Returned(s, d)
               put  == session[s].alloc[d]
           IN  /\ back \in Nat /\ put \in Nat /\ back <= paid[d]
               /\ Settled(s, d) = paid[d] - back + put
               /\ back > 0 \/ put > 0 => status[d] # "CANCELLED" /\ Guards(s, d)
               /\ put > 0 => session[s].new \in Ids
               /\ StatusSettled(s, d) = IF put > 0 THEN StatusUp(d, paid[d] - back + put)
                                        ELSE IF back > 0 THEN StatusDown(paid[d] - back) ELSE status[d]
<1> DEFINE q == session[s]
           back == Returned(s, d)
           put == q.alloc[d]
<1>1. TypeOK /\ PaidIsSettled /\ Current(s)
  BY DEF IInv
<1>2. /\ q.gone \in Ids \cup {Nobody} /\ q.new \in Ids \cup {Nobody} /\ put \in Nat /\ Nobody \notin Ids
      /\ paid[d] \in Nat /\ q.saw[d] \in Nat
  BY <1>1, Sorts DEF TypeOK, Rows
<1>3. q.gone \in Ids => stage[q.gone] = "ACTIVE"
  BY <1>1 DEF Current
<1>4. back \in Nat /\ back <= paid[d] /\ (back > 0 => status[d] # "CANCELLED")
  BY <1>1, <1>2, <1>3, TakesFits DEF Returned
<1>5. /\ d \in TakenFrom(q.gone) <=> back > 0
      /\ d \in Touches(q.alloc) <=> put > 0
  BY <1>2 DEF TakenFrom, Touches, Returned
<1>6. back > 0 \/ put > 0 => Guards(s, d) /\ q.saw[d] = paid[d]
  BY <1>1, <1>5 DEF Current
<1>7. put > 0 => status[d] # "CANCELLED" /\ q.new \in Ids
  BY <1>1, <1>2, <1>5 DEF Current
<1>8. /\ Without(q.saw, q.gone)[d] = IF back > 0 THEN Floor(q.saw[d] - back) ELSE q.saw[d]
      /\ StatusWithout(q.saw, q.gone)[d] = IF back > 0 THEN StatusDown(q.saw[d] - back) ELSE status[d]
  BY <1>2 DEF Without, StatusWithout, Returned
<1> HIDE DEF q, back, put
<1>9. Settled(s, d) = IF back > 0 \/ put > 0 THEN Without(q.saw, q.gone)[d] + put ELSE paid[d]
  BY <1>5 DEF Settled, q, put
<1>10. Settled(s, d) = paid[d] - back + put
  <2>1. back > 0 => Floor(q.saw[d] - back) = paid[d] - back
    BY <1>2, <1>4, <1>6 DEF Floor
  <2> QED BY <1>2, <1>4, <1>6, <1>8, <1>9, <2>1
<1>11. StatusSettled(s, d) = IF put > 0 THEN StatusUp(d, Settled(s, d)) ELSE StatusWithout(q.saw, q.gone)[d]
  BY DEF StatusSettled, q, put
<1>12. StatusSettled(s, d) = IF put > 0 THEN StatusUp(d, paid[d] - back + put)
                             ELSE IF back > 0 THEN StatusDown(paid[d] - back) ELSE status[d]
  BY <1>6, <1>8, <1>10, <1>11
<1> QED BY <1>2, <1>4, <1>6, <1>7, <1>10, <1>12 DEF q, back, put

\* What each settlement takes once s has committed, and what they take together.
LEMMA CommitTakes ==
    ASSUME IInv, NEW s \in Sessions, CommitSettlement(s), NEW d \in Docs
    PROVE  /\ \A i \in Ids : Takes(i, d)' = IF i = session[s].gone THEN 0
                                            ELSE IF i = session[s].new THEN session[s].alloc[d]
                                            ELSE Takes(i, d)
           /\ Taken(d)' = Taken(d) - Returned(s, d) + session[s].alloc[d]
<1> DEFINE q == session[s]
           f == [i \in Ids |-> Takes(i, d)]
           g == [i \in Ids |-> Takes(i, d)']
<1>1. TypeOK /\ Current(s) /\ Busy(s) /\ q.doc = Nobody
  BY DEF IInv, CommitSettlement
<1>2. /\ q.gone \in Ids \cup {Nobody} /\ q.new \in Ids \cup {Nobody} /\ q.alloc[d] \in Nat /\ Nobody \notin Ids
      /\ q.gone # q.new
      /\ q.gone \in Ids => stage[q.gone] = "ACTIVE"
      /\ q.new \in Ids => stage[q.new] = "ABSENT"
      /\ IsFiniteSet(Ids)
  BY <1>1, Sorts DEF TypeOK, Rows, Current
<1>3. /\ stage' = [i \in Ids |-> IF i = q.gone THEN "CANCELLED" ELSE IF i = q.new THEN "ACTIVE" ELSE stage[i]]
      /\ portion' = [i \in Ids |-> IF i = q.new THEN q.alloc ELSE portion[i]]
  BY DEF CommitSettlement
<1>4. \A i \in Ids : Takes(i, d)' = IF i = q.gone THEN 0 ELSE IF i = q.new THEN q.alloc[d] ELSE Takes(i, d)
  BY <1>2, <1>3 DEF Takes
<1>5. \A i \in Ids : Takes(i, d) \in Int
  BY <1>1 DEF TypeOK, Takes
<1>6. (q.gone \in Ids => Takes(q.gone, d) = Returned(s, d)) /\ (q.gone \notin Ids => Returned(s, d) = 0)
  BY <1>2 DEF Takes, Returned
<1>7. (q.new \in Ids => Takes(q.new, d) = 0) /\ (q.new \notin Ids => q.alloc[d] = 0)
  BY <1>1, <1>2, SettledFromPaid DEF Takes
<1>8. Returned(s, d) \in Nat
  BY <1>1, SettledFromPaid
<1> DEFINE back == Returned(s, d)
           put == q.alloc[d]
<1>9. /\ \A i \in Ids : f[i] \in Int
      /\ \A i \in Ids : g[i] \in Int
      /\ \A i \in Ids : i # q.gone /\ i # q.new => g[i] = f[i]
      /\ q.gone \in Ids => f[q.gone] = back /\ g[q.gone] = 0
      /\ q.new \in Ids => f[q.new] = 0 /\ g[q.new] = put
  BY <1>2, <1>4, <1>5, <1>6, <1>7
<1>10. Taken(d) = SumFunctionOnSet(f, Ids) /\ Taken(d)' = SumFunctionOnSet(g, Ids)
  BY DEF Taken
<1> HIDE DEF f, g, q, back, put
<1>11. SumFunctionOnSet(g, Ids) = SumFunctionOnSet(f, Ids)
           + (IF q.gone \in Ids THEN g[q.gone] - f[q.gone] ELSE 0)
           + (IF q.new \in Ids THEN g[q.new] - f[q.new] ELSE 0)
  <2> PICK a, b : a = q.gone /\ b = q.new
    OBVIOUS
  <2>1. IsFiniteSet(Ids) /\ a # b
    BY <1>2
  <2>2. \A i \in Ids : f[i] \in Int
    BY <1>9
  <2>3. \A i \in Ids : g[i] \in Int
    BY <1>9
  <2>4. \A i \in Ids : i # a /\ i # b => g[i] = f[i]
    BY <1>9
  <2>5. SumFunctionOnSet(g, Ids) = SumFunctionOnSet(f, Ids)
            + (IF a \in Ids THEN g[a] - f[a] ELSE 0) + (IF b \in Ids THEN g[b] - f[b] ELSE 0)
    BY ONLY <2>1, <2>2, <2>3, <2>4, SumExchange
  <2> QED BY <2>5
<1>12. SumFunctionOnSet(f, Ids) \in Int
  BY <1>2, <1>9, SumType
<1>13. back \in Nat /\ put \in Nat /\ (q.gone \notin Ids => back = 0) /\ (q.new \notin Ids => put = 0)
  BY <1>2, <1>6, <1>7, <1>8 DEF back, put
<1>14. SumFunctionOnSet(g, Ids) = SumFunctionOnSet(f, Ids) - back + put
  BY <1>9, <1>11, <1>12, <1>13
<1> QED BY <1>4, <1>10, <1>14 DEF q, back, put

\* The credit balance of a contact is a sum over all payments.
Credits(c) == SumFunctionOnSet([i \in Payments |-> IF stage[i] = "ACTIVE" THEN AdvanceOf(i, c) ELSE 0], Payments)

\* The sum over the active payments, as a sum over all of them.
LEMMA CreditSum ==
    ASSUME NEW st, NEW a, \A i \in Payments : a[i] \in Int
    PROVE  SumFunctionOnSet(a, {i \in Payments : st[i] = "ACTIVE"})
               = SumFunctionOnSet([i \in Payments |-> IF st[i] = "ACTIVE" THEN a[i] ELSE 0], Payments)
<1> DEFINE R == {i \in Payments : st[i] = "ACTIVE"}
<1>1. IsFiniteSet(Payments) /\ R \in SUBSET Payments /\ \A i \in R : a[i] \in Int
  BY Sorts
<1>2. [i \in Payments |-> IF i \in R THEN a[i] ELSE 0] = [i \in Payments |-> IF st[i] = "ACTIVE" THEN a[i] ELSE 0]
  OBVIOUS
<1> HIDE DEF R
<1>3. SumFunctionOnSet(a, R) = SumFunctionOnSet([i \in Payments |-> IF i \in R THEN a[i] ELSE 0], Payments)
  BY <1>1, SumFilter
<1> QED BY <1>2, <1>3 DEF R

\* What a request writes into the credit balance of a contact.
LEMMA CommitCredit ==
    ASSUME IInv, NEW s \in Sessions, CommitSettlement(s), NEW c \in Contacts, (\A i \in Ids : advance'[i] \in Nat)
    PROVE  LET q == session[s]
               back == AdvanceOf(q.gone, c)
               put  == IF q.new \in Payments /\ ContactOf[q.new] = c THEN q.extra ELSE 0
           IN  /\ credit'[c] = credit[c] - back + put /\ credit'[c] \in Int
               /\ credit'[c] # credit[c] => Guards(s, c)
               /\ credit'[c] = SumFunctionOnSet([i \in Payments |-> AdvanceOf(i, c)'],
                                                {i \in Payments : stage'[i] = "ACTIVE"})
<1> DEFINE q == session[s]
           back == AdvanceOf(q.gone, c)
           put == IF q.new \in Payments /\ ContactOf[q.new] = c THEN q.extra ELSE 0
           adv(i) == IF stage[i] = "ACTIVE" THEN AdvanceOf(i, c) ELSE 0
           f == [i \in Payments |-> adv(i)]
           g == [i \in Payments |-> adv(i)']
<1>1. TypeOK /\ Current(s) /\ Busy(s) /\ q.doc = Nobody /\ CreditIsAdvances
  BY DEF IInv, CommitSettlement, DebtsAgree
<1>2. /\ q.gone \in Ids \cup {Nobody} /\ q.new \in Ids \cup {Nobody} /\ q.extra \in Nat /\ Nobody \notin Ids
      /\ q.gone # q.new /\ credit[c] \in Int /\ Payments \subseteq Ids
      /\ q.gone \in Ids => stage[q.gone] = "ACTIVE"
      /\ q.new \in Ids => stage[q.new] = "ABSENT"
      /\ IsFiniteSet(Payments)
  BY <1>1, Sorts DEF TypeOK, Rows, Current, Ids
<1>3. \A i \in Payments : AdvanceOf(i, c) \in Nat
  BY <1>1, <1>2 DEF TypeOK, AdvanceOf
<1>4. back \in Nat /\ put \in Nat
  BY <1>2, <1>3 DEF AdvanceOf
<1>5. \A i \in {q.gone, q.new} \cap Payments : ContactOf[i] = c => q.seen[c] = credit[c] /\ Guards(s, c)
  BY <1>1 DEF Current
<1>6. (back > 0 => q.gone \in Payments /\ ContactOf[q.gone] = c)
      /\ (put > 0 => q.new \in Payments /\ ContactOf[q.new] = c)
  BY DEF AdvanceOf
<1>7. credit'[c] = Credited(s, c)
  BY DEF CommitSettlement
<1>8. credit'[c] = credit[c] - back + put
  <2>1. (q.new \in Payments /\ q.extra > 0 /\ ContactOf[q.new] = c) <=> put > 0
    BY <1>2
  <2>2. Credited(s, c) = IF back > 0 \/ put > 0 THEN q.seen[c] - back + put ELSE credit[c]
    BY <2>1 DEF Credited
  <2>3. back > 0 \/ put > 0 => q.seen[c] = credit[c]
    BY <1>5, <1>6
  <2> HIDE DEF back, put, q
  <2> QED BY <1>2, <1>4, <1>7, <2>2, <2>3
<1>9. credit'[c] # credit[c] => Guards(s, c)
  <2>1. back > 0 \/ put > 0 => Guards(s, c)
    BY <1>5, <1>6
  <2> HIDE DEF back, put
  <2> QED BY <1>2, <1>4, <1>8, <2>1
<1>10. /\ stage' = [i \in Ids |-> IF i = q.gone THEN "CANCELLED" ELSE IF i = q.new THEN "ACTIVE" ELSE stage[i]]
       /\ advance' = [i \in Ids |-> IF i = q.new THEN q.extra ELSE advance[i]]
  BY DEF CommitSettlement
<1>11. /\ \A i \in Payments : f[i] \in Int
       /\ \A i \in Payments : g[i] \in Int
       /\ \A i \in Payments : i # q.gone /\ i # q.new => g[i] = f[i]
       /\ q.gone \in Payments => f[q.gone] = back /\ g[q.gone] = 0
       /\ q.new \in Payments => f[q.new] = 0 /\ g[q.new] = put
  <2>1. \A i \in Payments : AdvanceOf(i, c)' = IF ContactOf[i] = c THEN advance'[i] ELSE 0
    BY DEF AdvanceOf
  <2>2. \A i \in Payments : adv(i)' \in Int
    BY <1>2, <2>1
  <2>3. \A i \in Payments : i # q.gone /\ i # q.new => adv(i)' = adv(i)
    BY <1>2, <1>10 DEF AdvanceOf
  <2>4. \A i \in Payments : i = q.gone => adv(i) = back /\ adv(i)' = 0
    BY <1>2, <1>10
  <2>5. \A i \in Payments : i = q.new => adv(i) = 0 /\ adv(i)' = put
    BY <1>2, <1>10, <2>1
  <2>6. \A i \in Payments : adv(i) \in Int
    BY <1>3
  <2> HIDE DEF adv, q, back, put
  <2> QED BY <2>2, <2>3, <2>4, <2>5, <2>6
<1>12. credit[c] = SumFunctionOnSet(f, Payments)
  <2>1. \A i \in Payments : [k \in Payments |-> AdvanceOf(k, c)][i] \in Int
    BY <1>3
  <2>2. credit[c] = SumFunctionOnSet([i \in Payments |-> AdvanceOf(i, c)], {i \in Payments : stage[i] = "ACTIVE"})
    BY <1>1 DEF CreditIsAdvances
  <2>3. f = [i \in Payments |-> IF stage[i] = "ACTIVE" THEN [k \in Payments |-> AdvanceOf(k, c)][i] ELSE 0]
    OBVIOUS
  <2> HIDE DEF f
  <2> QED BY <2>1, <2>2, <2>3, CreditSum
<1>13. SumFunctionOnSet([i \in Payments |-> AdvanceOf(i, c)'], {i \in Payments : stage'[i] = "ACTIVE"})
           = SumFunctionOnSet(g, Payments)
  <2>1. \A i \in Payments : [k \in Payments |-> AdvanceOf(k, c)'][i] \in Int
    BY <1>2 DEF AdvanceOf
  <2>2. g = [i \in Payments |-> IF stage'[i] = "ACTIVE" THEN [k \in Payments |-> AdvanceOf(k, c)'][i] ELSE 0]
    OBVIOUS
  <2> HIDE DEF g
  <2> QED BY <2>1, <2>2, CreditSum
<1> HIDE DEF f, g, q, back, put
<1>14. SumFunctionOnSet(g, Payments) = SumFunctionOnSet(f, Payments)
           + (IF q.gone \in Payments THEN g[q.gone] - f[q.gone] ELSE 0)
           + (IF q.new \in Payments THEN g[q.new] - f[q.new] ELSE 0)
  <2> PICK a, b : a = q.gone /\ b = q.new
    OBVIOUS
  <2>1. IsFiniteSet(Payments) /\ a # b
    BY <1>2
  <2>2. \A i \in Payments : f[i] \in Int
    BY <1>11
  <2>3. \A i \in Payments : g[i] \in Int
    BY <1>11
  <2>4. \A i \in Payments : i # a /\ i # b => g[i] = f[i]
    BY <1>11
  <2>5. SumFunctionOnSet(g, Payments) = SumFunctionOnSet(f, Payments)
            + (IF a \in Payments THEN g[a] - f[a] ELSE 0) + (IF b \in Payments THEN g[b] - f[b] ELSE 0)
    BY ONLY <2>1, <2>2, <2>3, <2>4, SumExchange
  <2> QED BY <2>5
<1>15. (q.gone \notin Payments => back = 0) /\ (q.new \notin Payments => put = 0)
  BY DEF q, back, put, AdvanceOf
<1>16. credit'[c] = SumFunctionOnSet(g, Payments)
  BY <1>2, <1>4, <1>8, <1>11, <1>12, <1>14, <1>15
<1>17. credit'[c] \in Int
  BY <1>2, <1>4, <1>8
<1> QED BY <1>8, <1>9, <1>13, <1>16, <1>17 DEF q, back, put

\* Storing a settlement, its removal, or the one in place of the other.
LEMMA CommitKeeps ==
    ASSUME IInv, NEW s \in Sessions, CommitSettlement(s)
    PROVE  IInv'
<1> DEFINE q == session[s]
<1>1. /\ TypeOK /\ PaidIsSettled /\ StatusTellsDebt /\ UnlockedAreAlone
      /\ (\A t \in Sessions : Busy(t) => Current(t)) /\ (\A n \in Notes : advance[n] = 0)
  BY DEF IInv, DebtsAgree
<1>2. /\ Busy(s) /\ q.doc = Nobody /\ Release(s) /\ Current(s)
      /\ \A d \in Docs : 0 <= Settled(s, d) /\ Settled(s, d) <= Payable[d]
      /\ paid' = [d \in Docs |-> Settled(s, d)]
      /\ status' = [d \in Docs |-> StatusSettled(s, d)]
      /\ credit' = [c \in Contacts |-> Credited(s, c)]
      /\ stage' = [i \in Ids |-> IF i = q.gone THEN "CANCELLED" ELSE IF i = q.new THEN "ACTIVE" ELSE stage[i]]
      /\ portion' = [i \in Ids |-> IF i = q.new THEN q.alloc ELSE portion[i]]
      /\ advance' = [i \in Ids |-> IF i = q.new THEN q.extra ELSE advance[i]]
  BY <1>1 DEF CommitSettlement
<1>3. /\ q.gone \in Ids \cup {Nobody} /\ q.new \in Ids \cup {Nobody} /\ q.extra \in Nat /\ Nobody \notin Ids
      /\ q.alloc \in [Docs -> Nat] /\ Payments \subseteq Ids /\ Notes \subseteq Ids
      /\ \A d \in Docs : Payable[d] \in Nat \ {0} /\ paid[d] \in Nat /\ status[d] \in Statuses
  BY <1>1, Sorts DEF TypeOK, Rows, Ids
<1>4. \A i \in Ids : advance'[i] \in Nat
  BY <1>1, <1>2, <1>3 DEF TypeOK
<1>5. ASSUME NEW d \in Docs
      PROVE  /\ paid'[d] \in Nat /\ paid'[d] <= Payable[d]
             /\ paid'[d] = paid[d] - Returned(s, d) + q.alloc[d]
             /\ Returned(s, d) \in Nat /\ Returned(s, d) <= paid[d]
             /\ Returned(s, d) > 0 \/ q.alloc[d] > 0 => status[d] # "CANCELLED" /\ Guards(s, d)
             /\ status'[d] = IF q.alloc[d] > 0 THEN StatusUp(d, paid'[d])
                             ELSE IF Returned(s, d) > 0 THEN StatusDown(paid'[d]) ELSE status[d]
  <2> DEFINE back == Returned(s, d)
             put == q.alloc[d]
  <2>1. /\ back \in Nat /\ put \in Nat /\ back <= paid[d]
        /\ Settled(s, d) = paid[d] - back + put
        /\ back > 0 \/ put > 0 => status[d] # "CANCELLED" /\ Guards(s, d)
        /\ StatusSettled(s, d) = IF put > 0 THEN StatusUp(d, paid[d] - back + put)
                                 ELSE IF back > 0 THEN StatusDown(paid[d] - back) ELSE status[d]
    BY <1>2, SettledFromPaid
  <2>2. paid'[d] = Settled(s, d) /\ 0 <= paid'[d] /\ paid'[d] <= Payable[d] /\ status'[d] = StatusSettled(s, d)
    BY <1>2
  <2> HIDE DEF back, put
  <2>3. paid'[d] \in Nat /\ (~(put > 0) => paid'[d] = paid[d] - back)
    BY <1>3, <2>1, <2>2
  <2> QED BY <2>1, <2>2, <2>3 DEF back, put
<1>6. \A d \in Docs : status'[d] \in Statuses
  BY <1>3, <1>5 DEF StatusUp, StatusDown, Statuses
<1>7. TypeOK'
  <2>1. /\ row_lock' \in [Rows -> Sessions \cup {Nobody}] /\ session' \in [Sessions -> Requests]
        /\ \A r \in Rows : (row_lock[r] # Nobody => Busy(row_lock[r]))'
    BY <1>1, <1>2, Released
  <2>2. paid' \in [Docs -> Nat] /\ status' \in [Docs -> Statuses]
    BY <1>2, <1>5, <1>6
  <2>3. /\ stage' \in [Ids -> {"UNUSED", "ABSENT", "ACTIVE", "CANCELLED"}]
        /\ portion' \in [Ids -> [Docs -> Nat]] /\ advance' \in [Ids -> Nat]
    BY <1>1, <1>2, <1>3 DEF TypeOK
  <2>4. credit' \in [Contacts -> Int]
    BY <1>2, <1>4, CommitCredit
  <2> QED BY <2>1, <2>2, <2>3, <2>4 DEF TypeOK, Requests
<1>8. \A d \in Docs : status'[d] = "CANCELLED" <=> status[d] = "CANCELLED"
  BY <1>5 DEF StatusUp, StatusDown
<1>9. PaidIsSettled'
  <2> SUFFICES ASSUME NEW d \in Docs
               PROVE  /\ paid'[d] <= Payable[d]
                      /\ status'[d] # "CANCELLED" => paid'[d] = Imported[d] + Taken(d)'
                      /\ status'[d] = "CANCELLED" => paid'[d] = 0 /\ \A i \in Ids : Takes(i, d)' = 0
    BY DEF PaidIsSettled
  <2>1. status[d] # "CANCELLED" => paid[d] = Imported[d] + Taken(d)
    BY <1>1 DEF PaidIsSettled
  <2>2. status[d] = "CANCELLED" => paid[d] = 0 /\ \A i \in Ids : Takes(i, d) = 0
    BY <1>1 DEF PaidIsSettled
  <2>3. Taken(d)' = Taken(d) - Returned(s, d) + q.alloc[d]
    BY CommitTakes
  <2>4. Taken(d) \in Int
    <3> DEFINE f == [i \in Ids |-> Takes(i, d)]
    <3>1. IsFiniteSet(Ids) /\ \A i \in Ids : f[i] \in Int
      BY <1>1, Sorts DEF Takes, TypeOK
    <3> HIDE DEF f
    <3>2. SumFunctionOnSet(f, Ids) \in Int
      BY <3>1, SumType
    <3> QED BY <3>2 DEF f, Taken
  <2>5. status'[d] # "CANCELLED" => paid'[d] = Imported[d] + Taken(d)'
    <3>1. Returned(s, d) \in Nat /\ q.alloc[d] \in Nat /\ Imported[d] \in Nat
      BY <1>3, <1>5, Sorts
    <3>2. paid'[d] = paid[d] - Returned(s, d) + q.alloc[d]
      BY <1>5
    <3> QED BY <1>8, <2>1, <2>3, <2>4, <3>1, <3>2
  <2>6. ASSUME status'[d] = "CANCELLED"
        PROVE  paid'[d] = 0 /\ \A i \in Ids : Takes(i, d)' = 0
    <3>1. Returned(s, d) = 0 /\ q.alloc[d] = 0 /\ status[d] = "CANCELLED"
      BY <1>3, <1>5, <1>8, <2>6
    <3>2. paid'[d] = 0
      BY <1>5, <2>2, <3>1
    <3>3. \A i \in Ids : Takes(i, d)' = IF i = q.gone THEN 0 ELSE IF i = q.new THEN q.alloc[d] ELSE Takes(i, d)
      BY CommitTakes
    <3> QED BY <2>2, <3>1, <3>2, <3>3
  <2> QED BY <1>5, <2>5, <2>6
<1>10. StatusTellsDebt'
  <2> SUFFICES ASSUME NEW d \in Docs
               PROVE  /\ status'[d] \in Receivable(d) <=> status'[d] \notin {"PAID", "CANCELLED", "UNPAID"}
                      /\ status'[d] \in Receivable(d) => paid'[d] < Payable[d]
                      /\ status'[d] = "PAID" => paid'[d] = Payable[d]
                      /\ status'[d] \in {"POSTED", "SENT", "UNPAID", "CANCELLED"} => paid'[d] = 0
    BY DEF StatusTellsDebt, Receivable
  <2>1. Payable[d] \in Nat /\ Payable[d] > 0 /\ paid[d] \in Nat /\ paid'[d] \in Nat /\ paid'[d] <= Payable[d]
    BY <1>3, <1>5
  <2>2. CASE q.alloc[d] > 0
    <3>1. status'[d] = StatusUp(d, paid'[d])
      BY <1>5, <2>2
    <3> QED BY <2>1, <3>1 DEF StatusUp, Receivable
  <2>3. CASE ~(q.alloc[d] > 0) /\ Returned(s, d) > 0
    <3>1. status'[d] = StatusDown(paid'[d]) /\ q.alloc[d] = 0 /\ Returned(s, d) \in Nat
      BY <1>3, <1>5, <2>3
    <3>2. paid'[d] < paid[d] /\ paid[d] <= Payable[d]
      BY <1>1, <1>5, <2>1, <2>3, <3>1 DEF PaidIsSettled
    <3>3. paid'[d] < Payable[d]
      BY <2>1, <3>2
    <3> QED BY <2>1, <3>1, <3>3 DEF StatusDown, Receivable
  <2>4. CASE ~(q.alloc[d] > 0) /\ ~(Returned(s, d) > 0)
    <3>1. status'[d] = status[d] /\ q.alloc[d] = 0 /\ Returned(s, d) = 0
      BY <1>3, <1>5, <2>4
    <3>2. paid'[d] = paid[d]
      BY <1>5, <2>1, <3>1
    <3> QED BY <1>1, <3>1, <3>2 DEF StatusTellsDebt
  <2> QED BY <2>2, <2>3, <2>4
<1>11. CreditIsAdvances'
  <2>1. \A c \in Contacts : credit'[c] = SumFunctionOnSet([i \in Payments |-> AdvanceOf(i, c)'],
                                                           {i \in Payments : stage'[i] = "ACTIVE"})
    BY <1>4, CommitCredit
  <2> QED BY <2>1 DEF CreditIsAdvances
<1>12. \A n \in Notes : advance'[n] = 0
  BY <1>1, <1>2, <1>3 DEF Current
<1>13. ASSUME NEW t \in Sessions, Busy(t)'
       PROVE  Current(t)'
  <2>1. t \in Sessions \ {s} /\ Busy(t) /\ Current(t) /\ session'[t] = session[t]
    BY <1>1, <1>2, <1>13, Released
  <2>2. \A r \in Rows : Guards(t, r) => ~Guards(s, r) /\ Guards(t, r)'
    BY <1>1, <1>2, <2>1, Released
  <2>3. \A r \in Rows : row_lock[r] = t => row_lock'[r] = t
    BY <1>1, <1>2, <2>1, Released
  <2>4. Docs \subseteq Rows /\ Ids \subseteq Rows /\ Contacts \subseteq Rows
    BY DEF Rows
  <2>5. \A d \in Docs : Guards(t, d) => Returned(s, d) = 0 /\ q.alloc[d] = 0
    BY <1>3, <1>5, <2>2, <2>4
  <2>6. \A d \in Docs : Guards(t, d) =>
            paid'[d] = paid[d] /\ (status[d] # "CANCELLED" => status'[d] # "CANCELLED")
    BY <1>3, <1>5, <1>8, <2>5
  <2>7. \A c \in Contacts : Guards(t, c) => credit'[c] = credit[c]
    BY <1>4, <2>2, <2>4, CommitCredit
  <2>8. /\ q.gone \in Ids => Guards(s, q.gone) /\ stage[q.gone] = "ACTIVE"
        /\ q.new \in Ids => stage[q.new] = "ABSENT"
        /\ session[t].gone \in Ids => stage[session[t].gone] = "ACTIVE"
        /\ session[t].new \in Ids => stage[session[t].new] = "ABSENT"
    BY <1>2, <2>1 DEF Current
  <2>9. \A i \in Ids : Guards(t, i) /\ i = session[t].gone => stage'[i] = stage[i] /\ portion'[i] = portion[i]
    BY <1>2, <1>3, <2>2, <2>4, <2>8
  <2>10. \A i \in Ids : i = session[t].new => i # q.new
    <3> SUFFICES ASSUME NEW i \in Ids, i = session[t].new, i = q.new PROVE FALSE
      OBVIOUS
    <3>1. CASE i \in Notes
      BY <1>1, <1>2, <2>1, <3>1 DEF UnlockedSession, Unlocked, UnlockedAreAlone
    <3>2. CASE i \in Payments
      <4>1. ContactOf[i] \in Rows
        BY <2>4, <3>2, Sorts
      <4>2. Guards(s, ContactOf[i]) /\ Guards(t, ContactOf[i])
        BY <1>2, <2>1, <3>2 DEF Current
      <4> QED BY <2>2, <4>1, <4>2
    <3> QED BY <3>1, <3>2 DEF Ids
  <2>11. \A i \in Ids : i = session[t].new => stage'[i] = stage[i]
    BY <1>2, <1>3, <2>8, <2>10
  <2>12. \A d \in Docs : d = session[t].doc /\ row_lock[d] = t => \A i \in Ids : Takes(i, d)' = Takes(i, d)
    <3> SUFFICES ASSUME NEW d \in Docs, row_lock[d] = t PROVE \A i \in Ids : Takes(i, d)' = Takes(i, d)
      OBVIOUS
    <3>1. Guards(t, d)
      BY DEF Guards
    <3>2. Returned(s, d) = 0 /\ q.alloc[d] = 0
      BY <2>5, <3>1
    <3>3. q.gone \in Ids => Takes(q.gone, d) = 0
      BY <2>8, <3>2 DEF Takes, Returned
    <3>4. q.new \in Ids => Takes(q.new, d) = 0
      BY <2>8 DEF Takes
    <3>5. \A i \in Ids : Takes(i, d)' = IF i = q.gone THEN 0 ELSE IF i = q.new THEN q.alloc[d] ELSE Takes(i, d)
      BY CommitTakes
    <3> QED BY <1>3, <3>2, <3>3, <3>4, <3>5
  <2> QED BY <1>1, <2>1, <2>2, <2>3, <2>6, <2>7, <2>9, <2>11, <2>12, CurrentStays
<1> QED BY <1>1, <1>2, <1>7, <1>9, <1>10, <1>11, <1>12, <1>13, Released DEF IInv, DebtsAgree

\* Every step keeps the invariant.
LEMMA NextKeeps ==
    ASSUME UnlockedAlone, NotesFirst, IInv, [Next]_vars
    PROVE  IInv'
<1>1. ASSUME NEW s \in Sessions, Open(s) PROVE IInv'
  <2>1. PICK op, i, j, d, p, extra, locks : Begins(s, op, i, j, d, p, extra, locks)
    BY <1>1, OpenBegins
  <2> QED BY <2>1, BeginKeeps
<1>2. ASSUME UNCHANGED vars PROVE IInv'
  <2>1. /\ paid' = paid /\ status' = status /\ stage' = stage /\ portion' = portion /\ advance' = advance
        /\ credit' = credit /\ row_lock' = row_lock /\ session' = session
    BY <1>2 DEF vars
  <2>2. TypeOK' /\ PaidIsSettled'
    BY <2>1 DEF IInv, TypeOK, Busy, PaidIsSettled, Taken, Takes
  <2>4. DebtsAgree'
    BY <2>1 DEF IInv, DebtsAgree, StatusTellsDebt, CreditIsAdvances, AdvanceOf
  <2>3. UnlockedAreAlone' /\ \A s \in Sessions : (Busy(s) => Current(s))'
    BY <2>1 DEF IInv, UnlockedAreAlone, UnlockedSession, Busy, Current, Guards, TakenFrom, Touches, Takes
  <2> QED BY <2>1, <2>2, <2>3, <2>4 DEF IInv
<1> QED BY <1>1, <1>2, CommitKeeps, VoidKeeps, RollbackKeeps DEF Next

\* What a request read stays as it read it until it commits, and amount_paid is what
\* the settlements in force take: the invariant the two theorems below rest on.
THEOREM Invariance == UnlockedAlone /\ NotesFirst => (Spec => []IInv)
<1> SUFFICES ASSUME UnlockedAlone, NotesFirst PROVE Spec => []IInv
  OBVIOUS
<1>1. Init => IInv
  BY InitIInv
<1>2. IInv /\ [Next]_vars => IInv'
  BY NextKeeps
<1> QED BY <1>1, <1>2, PTL DEF Spec

\* A document's status says what its amount_paid says, and a contact's credit is the
\* advances of its payments, in every interleaving of the routes that settle, cancel,
\* replace and void, provided the routes that lock nothing run alone.
THEOREM DebtsAlwaysAgree == UnlockedAlone /\ NotesFirst => (Spec => []DebtsAgree)
<1> SUFFICES ASSUME UnlockedAlone, NotesFirst PROVE Spec => []DebtsAgree
  OBVIOUS
<1>1. IInv => DebtsAgree
  BY DEF IInv
<1> QED BY <1>1, Invariance, PTL

-----------------------------------------------------------------------------
(* Settlement implements Claims.                                           *)

Debt == [d \in Docs |-> IF status[d] = "CANCELLED" THEN 0 ELSE Payable[d] - paid[d]]
Portioned == [i \in Ids |-> IF stage[i] = "ACTIVE" THEN portion[i] ELSE NoPortion]
Opened == [d \in Docs |-> status[d] # "CANCELLED"]

\* No claim is met before the first settlement.
LEMMA PromiseInit == ASSUME Init PROVE Promise!Init
<1>1. \A d \in Docs : status[d] # "CANCELLED"
  BY DEF Init, StatusUp
<1>2. \A i \in Ids : stage[i] # "ACTIVE"
  BY DEF Init
<1> QED BY <1>1, <1>2 DEF Init, Promise!Init, Promise!Nothing, NoPortion

\* The cancellation of a document closes its claim.
LEMMA VoidCloses ==
    ASSUME IInv, NEW s \in Sessions, CommitVoid(s)
    PROVE  Promise!Next
<1> DEFINE d == session[s].doc
<1>1. TypeOK /\ Current(s) /\ Busy(s) /\ d # Nobody
  BY DEF IInv, CommitVoid
<1>2. d \in Docs /\ status[d] # "CANCELLED" /\ \A i \in Ids : Takes(i, d) = 0
  BY <1>1 DEF TypeOK, Current
<1>3. /\ paid' = [paid EXCEPT ![d] = 0] /\ status' = [status EXCEPT ![d] = "CANCELLED"]
      /\ stage' = stage /\ portion' = portion
  BY DEF CommitVoid
<1>4. paid \in [Docs -> Nat] /\ status \in [Docs -> Statuses]
  BY <1>1 DEF TypeOK
<1> HIDE DEF d
<1>5. Opened[d] /\ Opened' = [Opened EXCEPT ![d] = FALSE]
  BY <1>2, <1>3, <1>4 DEF Opened
<1>6. Debt' = [Debt EXCEPT ![d] = 0]
  BY <1>2, <1>3, <1>4 DEF Debt
<1>7. Portioned' = Portioned /\ \A i \in Ids : Portioned[i][d] = 0
  BY <1>2, <1>3 DEF Portioned, Takes, NoPortion
<1>8. Promise!Close(d)
  BY <1>5, <1>6, <1>7 DEF Promise!Close, Opened, Debt, Portioned
<1> QED BY <1>2, <1>8 DEF Promise!Next, Promise!Close

\* The commit of a settlement makes, takes back or corrects one; one without portions
\* changes nothing that is owed.
LEMMA CommitSettles ==
    ASSUME IInv, NEW s \in Sessions, CommitSettlement(s)
    PROVE  Promise!Next \/ (Debt' = Debt /\ Portioned' = Portioned /\ Opened' = Opened)
<1> DEFINE q == session[s]
           due == [d \in Docs |-> Debt[d] + Portioned[q.gone][d]]
<1>1. TypeOK /\ Current(s) /\ Busy(s) /\ q.doc = Nobody /\ PaidIsSettled
  BY DEF IInv, CommitSettlement
<1>2. /\ q.gone \in Ids \cup {Nobody} /\ q.new \in Ids \cup {Nobody} /\ q.alloc \in [Docs -> Nat]
      /\ Nobody \notin Ids /\ q.gone # q.new
      /\ q.gone \in Ids => stage[q.gone] = "ACTIVE"
      /\ q.new \in Ids => stage[q.new] = "ABSENT"
      /\ q.alloc \in [Docs -> Portions \cup {0}]
      /\ portion \in [Ids -> [Docs -> Nat]]
      /\ NoPortion \in [Docs -> Nat] /\ \A d \in Docs : NoPortion[d] = 0
  <2>1. \A d \in Docs : q.alloc[d] \in Nat /\ (q.alloc[d] > 0 => q.alloc[d] \in Portions)
    BY <1>1 DEF TypeOK, Current, Touches
  <2>2. q.alloc \in [Docs -> Nat]
    BY <1>1 DEF TypeOK
  <2>3. q.alloc \in [Docs -> Portions \cup {0}]
    BY <2>1, <2>2
  <2> QED BY <1>1, <2>2, <2>3, Sorts DEF TypeOK, Rows, Current
<1>3. /\ stage' = [i \in Ids |-> IF i = q.gone THEN "CANCELLED" ELSE IF i = q.new THEN "ACTIVE" ELSE stage[i]]
      /\ portion' = [i \in Ids |-> IF i = q.new THEN q.alloc ELSE portion[i]]
      /\ paid' = [d \in Docs |-> Settled(s, d)]
      /\ status' = [d \in Docs |-> StatusSettled(s, d)]
      /\ \A d \in Docs : Settled(s, d) <= Payable[d]
  BY DEF CommitSettlement
<1>4. \A d \in Docs :
          /\ Returned(s, d) \in Nat /\ q.alloc[d] \in Nat /\ paid[d] \in Nat /\ Payable[d] \in Nat
          /\ paid'[d] = paid[d] - Returned(s, d) + q.alloc[d] /\ paid'[d] <= Payable[d]
          /\ Returned(s, d) > 0 \/ q.alloc[d] > 0 => status[d] # "CANCELLED"
          /\ q.alloc[d] > 0 => q.new \in Ids
          /\ status'[d] = "CANCELLED" <=> status[d] = "CANCELLED"
  <2> SUFFICES ASSUME NEW d \in Docs
               PROVE  /\ Returned(s, d) \in Nat /\ q.alloc[d] \in Nat /\ paid[d] \in Nat /\ Payable[d] \in Nat
                      /\ paid'[d] = paid[d] - Returned(s, d) + q.alloc[d] /\ paid'[d] <= Payable[d]
                      /\ Returned(s, d) > 0 \/ q.alloc[d] > 0 => status[d] # "CANCELLED"
                      /\ q.alloc[d] > 0 => q.new \in Ids
                      /\ status'[d] = "CANCELLED" <=> status[d] = "CANCELLED"
    OBVIOUS
  <2> DEFINE back == Returned(s, d)
             put == q.alloc[d]
  <2>1. /\ back \in Nat /\ put \in Nat /\ back <= paid[d]
        /\ Settled(s, d) = paid[d] - back + put
        /\ back > 0 \/ put > 0 => status[d] # "CANCELLED"
        /\ put > 0 => q.new \in Ids
        /\ StatusSettled(s, d) = IF put > 0 THEN StatusUp(d, paid[d] - back + put)
                                 ELSE IF back > 0 THEN StatusDown(paid[d] - back) ELSE status[d]
    BY <1>1, SettledFromPaid
  <2>2. paid'[d] = Settled(s, d) /\ status'[d] = StatusSettled(s, d) /\ paid'[d] <= Payable[d]
        /\ paid[d] \in Nat /\ Payable[d] \in Nat
    BY <1>1, <1>3, Sorts DEF TypeOK
  <2> HIDE DEF back, put, q
  <2>3. status'[d] = "CANCELLED" <=> status[d] = "CANCELLED"
    BY <2>1, <2>2 DEF StatusUp, StatusDown
  <2> QED BY <2>1, <2>2, <2>3 DEF back, put
<1>5. Opened' = Opened
  BY <1>4 DEF Opened
<1>6. \A d \in Docs : Debt[d] \in Int /\ Debt'[d] = Debt[d] + Returned(s, d) - q.alloc[d]
  BY <1>4 DEF Debt
<1>7. Portioned' = [i \in Ids |-> IF i = q.gone THEN NoPortion ELSE IF i = q.new THEN q.alloc ELSE Portioned[i]]
  BY <1>2, <1>3 DEF Portioned
<1>8. /\ \A d \in Docs : q.gone \in Ids => Portioned[q.gone][d] = Returned(s, d)
      /\ q.gone \notin Ids => \A d \in Docs : Returned(s, d) = 0
      /\ q.new \in Ids => Portioned[q.new] = NoPortion
      /\ q.new \notin Ids => q.alloc = NoPortion
      /\ Portioned \in [Ids -> [Docs -> Nat]]
  BY <1>2, <1>4 DEF Portioned, Returned, NoPortion
<1>9. \A d \in Docs : q.alloc[d] > 0 => Opened[d] /\ q.alloc[d] <= Debt[d] + Returned(s, d)
  <2> SUFFICES ASSUME NEW d \in Docs, q.alloc[d] > 0
               PROVE  Opened[d] /\ q.alloc[d] <= Debt[d] + Returned(s, d)
    OBVIOUS
  <2>1. Opened[d] /\ Debt[d] = Payable[d] - paid[d]
    BY <1>4 DEF Opened, Debt
  <2> HIDE DEF q
  <2> QED BY <1>4, <2>1
<1>10. \A d \in Docs : Returned(s, d) > 0 => Opened[d]
  BY <1>4 DEF Opened
<1>11. CASE q.gone \in Ids /\ Portioned[q.gone] # NoPortion
  <2> PICK i, j, p : i = q.gone /\ j = q.new /\ p = q.alloc
    OBVIOUS
  <2> DEFINE back == [d \in Docs |-> Debt[d] + Portioned[i][d]]
  <2>1. /\ i \in Ids /\ i \in Promise!Live
        /\ \A d \in Docs : Portioned[i][d] > 0 => Opened[d]
    BY <1>8, <1>10, <1>11 DEF Promise!Live, Promise!Nothing, NoPortion, Portioned
  <2>2. \A d \in Docs : back[d] \in Int /\ Debt'[d] = back[d] - p[d]
    BY <1>4, <1>6, <1>8, <2>1
  <2>3. Debt' = [d \in Docs |-> back[d] - p[d]]
    BY <2>2 DEF Debt
  <2>4. CASE j \in Ids
    <3>1. Portioned' = [Portioned EXCEPT ![i] = NoPortion, ![j] = p]
      BY <1>2, <1>7, <1>8, <2>1, <2>4
    <3>2. Portioned' # Portioned
      BY <1>2, <1>8, <1>11, <3>1
    <3>3. \A d \in Docs : p[d] > 0 => Opened[d] /\ p[d] <= back[d]
      BY <1>8, <1>9, <2>1
    <3>4. j \in Ids \ Promise!Live /\ p \in [Docs -> Portions \cup {0}]
      BY <1>2, <1>8, <2>4 DEF Promise!Live, Promise!Nothing, NoPortion, Portioned
    <3> HIDE DEF q
    <3>5. Promise!Correct(i, j, p)
      BY <1>5, <2>1, <2>3, <3>1, <3>3 DEF Promise!Correct, Promise!Fits, Promise!Nothing, NoPortion,
                                          Debt, Portioned, Opened
    <3>6. \E k \in Ids \ Promise!Live, r \in [Docs -> Portions \cup {0}] :
              \E h \in Promise!Live : Promise!Correct(h, k, r)
      BY <2>1, <3>4, <3>5
    <3> QED BY <3>2, <3>6 DEF Promise!Next, Portioned
  <2>5. CASE j = Nobody
    <3>1. p = NoPortion
      BY <1>2, <1>8, <2>5
    <3>2. Portioned' = [Portioned EXCEPT ![i] = NoPortion]
      BY <1>2, <1>7, <1>8, <2>1, <2>5
    <3>3. Portioned' # Portioned
      BY <1>8, <1>11, <2>1, <3>2
    <3>4. Debt' = back
      BY <1>2, <2>2, <2>3, <3>1
    <3> HIDE DEF q
    <3>5. Promise!TakeBack(i)
      BY <1>5, <2>1, <3>2, <3>4 DEF Promise!TakeBack, Promise!Nothing, NoPortion, Debt, Portioned, Opened
    <3> QED BY <2>1, <3>3, <3>5 DEF Promise!Next, Portioned
  <2> QED BY <1>2, <2>4, <2>5
<1>12. CASE q.gone \in Ids => Portioned[q.gone] = NoPortion
  <2> PICK i, j, p : i = q.gone /\ j = q.new /\ p = q.alloc
    OBVIOUS
  <2>1. \A d \in Docs : Returned(s, d) = 0
    BY <1>2, <1>8, <1>12
  <2>2. Debt' = [d \in Docs |-> Debt[d] - p[d]]
    <3>1. \A d \in Docs : Debt'[d] = Debt[d] - p[d]
      BY <1>4, <1>6, <2>1
    <3> QED BY <3>1 DEF Debt
  <2>3. CASE j \in Ids
    <3>1. Portioned' = [Portioned EXCEPT ![j] = p]
      BY <1>2, <1>7, <1>8, <1>12, <2>3
    <3>2. \A d \in Docs : p[d] > 0 => Opened[d] /\ p[d] <= Debt[d]
      BY <1>6, <1>9, <2>1
    <3>3. j \in Ids \ Promise!Live /\ p \in [Docs -> Portions \cup {0}]
      BY <1>2, <1>8, <2>3 DEF Promise!Live, Promise!Nothing, NoPortion, Portioned
    <3>4. CASE p = NoPortion
      <4>1. Portioned' = Portioned
        BY <1>2, <1>8, <2>3, <3>1, <3>4
      <4>2. Debt' = Debt
        <5>1. \A d \in Docs : Debt[d] - p[d] = Debt[d]
          BY <1>2, <1>6, <3>4
        <5> QED BY <2>2, <5>1 DEF Debt
      <4> QED BY <1>5, <4>1, <4>2
    <3>5. CASE p # NoPortion
      <4>1. Portioned' # Portioned
        BY <1>2, <1>8, <2>3, <3>1, <3>5
      <4> HIDE DEF q
      <4>2. Promise!Make(j, p)
        BY <1>5, <2>2, <3>1, <3>2 DEF Promise!Make, Promise!Fits, Debt, Portioned, Opened
      <4>3. \E k \in Ids \ Promise!Live, r \in [Docs -> Portions \cup {0}] : Promise!Make(k, r)
        BY <3>3, <4>2
      <4> QED BY <4>1, <4>3 DEF Promise!Next, Portioned
    <3> QED BY <3>4, <3>5
  <2>4. CASE j = Nobody
    <3>1. p = NoPortion /\ Portioned' = Portioned
      BY <1>2, <1>7, <1>8, <1>12, <2>4
    <3>2. \A d \in Docs : Debt[d] - p[d] = Debt[d]
      BY <1>2, <1>6, <3>1
    <3>3. Debt' = Debt
      BY <2>2, <3>2 DEF Debt
    <3> QED BY <1>5, <3>1, <3>3
  <2> QED BY <1>2, <2>3, <2>4
<1> QED BY <1>11, <1>12

\* The routes implement Claims: each commit meets, gives back or closes claims in one
\* step, never more of one than is owed, and every other step changes nothing.
THEOREM SettlementKeepsPromise == UnlockedAlone /\ NotesFirst => (Spec => KeepsPromise)
<1> SUFFICES ASSUME UnlockedAlone, NotesFirst PROVE Spec => KeepsPromise
  OBVIOUS
<1>1. Init => Promise!Init
  BY PromiseInit
<1>2. IInv /\ [Next]_vars => [Promise!Next]_(Promise!vars)
  <2> SUFFICES ASSUME IInv, [Next]_vars
               PROVE  Promise!Next \/ (Debt' = Debt /\ Portioned' = Portioned /\ Opened' = Opened)
    BY DEF Promise!vars, Debt, Portioned, Opened
  <2>1. UNCHANGED <<paid, status, stage, portion>> => Debt' = Debt /\ Portioned' = Portioned /\ Opened' = Opened
    BY DEF Debt, Portioned, Opened
  <2>2. ASSUME NEW s \in Sessions, Open(s) PROVE UNCHANGED <<paid, status, stage, portion>>
    BY <2>2, OpenBegins DEF Begins, Begin
  <2>3. ASSUME NEW s \in Sessions, Rollback(s) PROVE UNCHANGED <<paid, status, stage, portion>>
    BY <2>3 DEF Rollback
  <2>4. UNCHANGED vars => UNCHANGED <<paid, status, stage, portion>>
    BY DEF vars
  <2> QED BY <2>1, <2>2, <2>3, <2>4, CommitSettles, VoidCloses DEF Next
<1> QED BY <1>1, <1>2, Invariance, PTL DEF Spec, KeepsPromise, Promise!Spec

-----------------------------------------------------------------------------
(* What is told of all this: the statements and reports of Statements.     *)

\* Settlement i takes p: a payment takes it off documents of its side and contact, a
\* note off one invoice.
Aims(i, p) ==
    \A d \in Docs : p[d] > 0 =>
        IF i \in Payments THEN KindOf[d] = KindOf[i] /\ ContactOf[d] = ContactOf[i]
        ELSE KindOf[d] = "invoice" /\ \A e \in Docs : p[e] > 0 => e = d

Aimed ==
    /\ \A i \in Ids : Aims(i, portion[i])
    /\ \A s \in Sessions : Busy(s) /\ session[s].new \in Ids => Aims(session[s].new, session[s].alloc)

\* Nothing is dated after the day of the reports.
NothingAhead == \A x \in Docs \cup Ids : Dated[x] <= Today

\* A request aims at what it asks for.
LEMMA OpenAims ==
    ASSUME TypeOK, Aimed, NEW s \in Sessions, Open(s)
    PROVE  Aimed'
<1> DEFINE Begun(j, p) ==
             /\ (j \in Ids => Aims(j, p)) /\ UNCHANGED portion
             /\ \E op, i, d, extra, locks : Begin(s, op, i, j, d, p, extra, locks)
<1>1. ASSUME NEW j, NEW p, Begun(j, p) PROVE Aimed'
  <2>1. PICK op, i, d, extra, locks : Begin(s, op, i, j, d, p, extra, locks)
    BY <1>1
  <2>2. session' = [session EXCEPT ![s] = [op |-> op, gone |-> i, new |-> j, doc |-> d, alloc |-> p,
                                           extra |-> extra, saw |-> paid, seen |-> credit]]
    BY <2>1 DEF Begin
  <2>3. ASSUME NEW t \in Sessions, Busy(t)', session'[t].new \in Ids
        PROVE  Aims(session'[t].new, session'[t].alloc)
    <3>1. CASE t = s
      <4>1. session'[t].new = j /\ session'[t].alloc = p
        BY <2>2, <3>1 DEF TypeOK
      <4> QED BY <1>1, <2>3, <4>1
    <3>2. CASE t # s
      <4>1. session'[t] = session[t]
        BY <2>2, <3>2 DEF TypeOK
      <4> QED BY <2>3, <4>1 DEF Aimed, Busy
    <3> QED BY <3>1, <3>2
  <2>4. \A i1 \in Ids : Aims(i1, portion'[i1])
    BY <1>1 DEF Aimed
  <2> QED BY <2>3, <2>4 DEF Aimed, Aims
<1>2. \A op, i, j, d, p, extra, locks : Begin(s, op, i, j, d, p, extra, locks) => UNCHANGED portion
  BY DEF Begin
<1>3. \A j \in Payments : \A p \in Allocations[j] : Aims(j, p)
  BY DEF Aims, Allocations
<1>4. ASSUME NEW j \in Notes, NEW d \in Docs, NEW x \in Portions, KindOf[d] = "invoice"
      PROVE  Aims(j, [NoPortion EXCEPT ![d] = x])
  <2>1. j \notin Payments
    BY <1>4, Sorts
  <2>2. \A e \in Docs : [NoPortion EXCEPT ![d] = x][e] > 0 => e = d
    BY Sorts DEF NoPortion
  <2> QED BY <1>4, <2>1, <2>2 DEF Aims
<1>5. Nobody \notin Ids
  BY Sorts DEF Rows
<1>6. ASSUME NEW j \in Payments, NEW p \in Allocations[j], NEW extra \in Advances, OpenMake(s, j, p, extra)
      PROVE  Begun(j, p)
  BY <1>2, <1>3, <1>6 DEF OpenMake
<1>7. ASSUME NEW j \in Payments, NEW p \in Allocations[j], NEW extra \in Advances, NEW i \in Payments,
             OpenReplace(s, i, j, p, extra)
      PROVE  Begun(j, p)
  BY <1>2, <1>3, <1>7 DEF OpenReplace
<1>8. ASSUME NEW i \in Ids, OpenCancel(s, i) \/ OpenCancelNote(s, i)
      PROVE  Begun(Nobody, NoPortion)
  BY <1>2, <1>5, <1>8 DEF OpenCancel, OpenCancelNote
<1>9. ASSUME NEW j \in Notes, NEW d \in Docs, NEW x \in Portions,
             OpenNote(s, j, d, x) \/ \E i \in Notes : OpenReplaceNote(s, i, j, d, x)
      PROVE  Begun(j, [NoPortion EXCEPT ![d] = x])
  <2>1. KindOf[d] = "invoice"
    BY <1>9 DEF OpenNote, OpenReplaceNote
  <2>2. Aims(j, [NoPortion EXCEPT ![d] = x])
    BY <1>4, <2>1
  <2> QED BY <1>2, <1>9, <2>2 DEF OpenNote, OpenReplaceNote
<1>10. ASSUME NEW d \in Docs, OpenVoid(s, d) \/ OpenCorrect(s, d)
       PROVE  Begun(Nobody, NoPortion)
  BY <1>2, <1>5, <1>10 DEF OpenVoid, OpenCorrect
<1> HIDE DEF Begun
<1> QED BY <1>1, <1>6, <1>7, <1>8, <1>9, <1>10 DEF Open

\* Settlements stay with their documents.
LEMMA NextAims ==
    ASSUME IInv, Aimed, [Next]_vars
    PROVE  Aimed'
<1>1. TypeOK
  BY DEF IInv
<1>2. ASSUME NEW s \in Sessions, Release(s),
             portion' = portion \/ (session[s].new \in Ids /\ Busy(s) /\ CommitSettlement(s))
      PROVE  Aimed'
  <2>1. session' = [session EXCEPT ![s] = Idle]
    BY <1>2 DEF Release
  <2>2. ASSUME NEW t \in Sessions, Busy(t)', session'[t].new \in Ids
        PROVE  Aims(session'[t].new, session'[t].alloc)
    <3>1. t # s
      BY <1>1, <2>1, <2>2 DEF Busy, Idle, TypeOK
    <3>2. session'[t] = session[t]
      BY <1>1, <2>1, <3>1 DEF TypeOK
    <3> QED BY <2>2, <3>2 DEF Aimed, Busy
  <2>3. ASSUME NEW i \in Ids PROVE Aims(i, portion'[i])
    <3>1. CASE portion'[i] = portion[i]
      BY <3>1 DEF Aimed
    <3>2. CASE portion'[i] # portion[i]
      <4>1. /\ portion' = [k \in Ids |-> IF k = session[s].new THEN session[s].alloc ELSE portion[k]]
            /\ Busy(s)
        BY <1>2, <3>2 DEF CommitSettlement
      <4>2. i = session[s].new /\ portion'[i] = session[s].alloc
        BY <3>2, <4>1
      <4> QED BY <4>1, <4>2 DEF Aimed
    <3> QED BY <3>1, <3>2
  <2> QED BY <2>2, <2>3 DEF Aimed, Aims
<1>3. ASSUME NEW s \in Sessions, CommitSettlement(s) PROVE Aimed'
  <2>1. Release(s) /\ Busy(s)
    BY <1>3 DEF CommitSettlement
  <2>2. CASE session[s].new \in Ids
    BY <1>2, <1>3, <2>1, <2>2
  <2>3. CASE session[s].new \notin Ids
    <3>1. portion' = [i \in Ids |-> portion[i]]
      BY <1>3, <2>3 DEF CommitSettlement
    <3>2. portion' = portion
      BY <1>1, <3>1 DEF TypeOK
    <3> QED BY <1>2, <2>1, <3>2
  <2> QED BY <2>2, <2>3
<1>4. ASSUME NEW s \in Sessions, CommitVoid(s) \/ Rollback(s) PROVE Aimed'
  <2>1. Release(s) /\ portion' = portion
    BY <1>4 DEF CommitVoid, Rollback
  <2> QED BY <1>2, <2>1
<1>5. ASSUME UNCHANGED vars PROVE Aimed'
  BY <1>5 DEF vars, Aimed, Aims, Busy
<1>6. ASSUME NEW s \in Sessions, Open(s) PROVE Aimed'
  BY <1>1, <1>6, OpenAims
<1> QED BY <1>3, <1>4, <1>5, <1>6 DEF Next

\* At first no settlement takes anything.
LEMMA InitAims == Init => Aimed
<1>1. SUFFICES ASSUME Init PROVE Aimed
  OBVIOUS
<1>2. \A i \in Ids : portion[i] = NoPortion
  BY <1>1 DEF Init
<1>3. \A d \in Docs : ~(NoPortion[d] > 0)
  BY Sorts
<1>4. \A s \in Sessions : ~Busy(s)
  BY <1>1 DEF Init, Busy, Idle
<1> QED BY <1>2, <1>3, <1>4 DEF Aimed, Aims

-----------------------------------------------------------------------------
(* What documents and settlements come to.                                 *)

\* What settlement i was worth without its advance, and which are in force.
Allocated(i) == SumFunctionOnSet(portion[i], Docs)
InForce == {i \in Ids : stage[i] = "ACTIVE"}

\* The documents of D on which something remains, as the reports choose them.
Remaining(D) == {d \in D : status[d] \notin {"CANCELLED", "PAID"} /\ Left(d) > 0}

\* The figures that are added up are integers, and there are finitely many of them.
LEMMA FiguresTyped ==
    ASSUME IInv
    PROVE  /\ IsFiniteSet(Docs) /\ IsFiniteSet(Ids) /\ IsFiniteSet(Contacts) /\ IsFiniteSet(InForce)
           /\ \A d \in Docs : /\ Total(d) \in Int /\ Left(d) \in Int /\ Imported[d] \in Int
                              /\ Withheld[d] \in Int /\ paid[d] \in Int /\ Taken(d) \in Int
           /\ \A i \in Ids : /\ Allocated(i) \in Nat /\ advance[i] \in Nat /\ Amount(i) \in Nat
                             /\ Amount(i) = Allocated(i) + advance[i]
           /\ \A i \in Ids, d \in Docs : Takes(i, d) \in Nat
<1>1. /\ IsFiniteSet(Docs) /\ IsFiniteSet(Ids) /\ IsFiniteSet(Contacts)
      /\ TypeOK /\ InForce \in SUBSET Ids
  BY Sorts, StatementsAssumption DEF IInv, InForce
<1>2. \A d \in Docs : /\ Total(d) \in Int /\ Left(d) \in Int /\ Imported[d] \in Int
                      /\ Withheld[d] \in Int /\ paid[d] \in Int
  BY <1>1, Sorts, StatementsAssumption DEF Total, Left, TypeOK
<1>3. ASSUME NEW i \in Ids
      PROVE  /\ Allocated(i) \in Nat /\ advance[i] \in Nat /\ Amount(i) \in Nat
             /\ Amount(i) = Allocated(i) + advance[i]
             /\ \A d \in Docs : Takes(i, d) \in Nat
  <2>1. portion[i] \in [Docs -> Nat] /\ advance[i] \in Nat
    BY <1>1 DEF TypeOK
  <2>2. [d \in Docs |-> portion[i][d]] = portion[i]
    BY <2>1
  <2>3. Amount(i) = Allocated(i) + advance[i]
    BY <2>2 DEF Amount, Sum, Allocated
  <2>4. Allocated(i) \in Nat
    BY <1>1, <2>1, SumNat DEF Allocated
  <2> QED BY <2>1, <2>3, <2>4 DEF Takes
<1>4. ASSUME NEW d \in Docs PROVE Taken(d) \in Int
  <2> DEFINE f == [i \in Ids |-> Takes(i, d)]
  <2>1. \A i \in Ids : f[i] \in Int
    BY <1>3
  <2> HIDE DEF f
  <2>2. SumFunctionOnSet(f, Ids) \in Int
    BY <1>1, <2>1, SumType
  <2> QED BY <2>2 DEF f, Taken
<1>5. IsFiniteSet(InForce)
  BY <1>1, FS_Subset
<1> QED BY <1>1, <1>2, <1>3, <1>4, <1>5

\* The totals of the documents of D that stand are what remains on them, what an import
\* brought as paid, what settlements take, and the tax withheld on those that are PAID.
LEMMA DocumentsTell ==
    ASSUME IInv, NEW D \in SUBSET Docs
    PROVE  LET standing == {d \in D : Issued(d)}
               settled == {d \in D : status[d] = "PAID"}
               took == [d \in Docs |-> Taken(d)]
           IN  /\ Sum(Total, standing) = Sum(Left, Remaining(D)) + Sum(LAMBDA d : Imported[d], standing)
                      + SumFunctionOnSet(took, D) + Sum(LAMBDA d : Withheld[d], settled)
               /\ Sum(Left, standing) = Sum(Left, Remaining(D)) + Sum(LAMBDA d : Withheld[d], settled)
               /\ Sum(Total, standing) \in Int /\ Sum(Left, Remaining(D)) \in Int
               /\ Sum(LAMBDA d : Imported[d], standing) \in Int /\ SumFunctionOnSet(took, D) \in Int
               /\ Sum(LAMBDA d : Withheld[d], settled) \in Int /\ Sum(Left, standing) \in Int
<1> DEFINE standing == {d \in D : Issued(d)}
           settled == {d \in D : status[d] = "PAID"}
           took == [d \in Docs |-> Taken(d)]
           total == [d \in standing |-> Total(d)]
           left == [d \in Remaining(D) |-> Left(d)]
           open == [d \in standing |-> Left(d)]
           brought == [d \in standing |-> Imported[d]]
           withheld == [d \in settled |-> Withheld[d]]
           T == [d \in D |-> IF d \in standing THEN Total(d) ELSE 0]
           L == [d \in D |-> IF d \in Remaining(D) THEN Left(d) ELSE 0]
           O == [d \in D |-> IF d \in standing THEN Left(d) ELSE 0]
           B == [d \in D |-> IF d \in standing THEN Imported[d] ELSE 0]
           W == [d \in D |-> IF d \in settled THEN Withheld[d] ELSE 0]
           LW == [d \in D |-> L[d] + W[d]]
           LWB == [d \in D |-> LW[d] + B[d]]
<1>1. /\ IsFiniteSet(D) /\ standing \in SUBSET D /\ settled \in SUBSET D /\ Remaining(D) \in SUBSET D
      /\ \A d \in D : /\ Total(d) \in Int /\ Left(d) \in Int /\ Imported[d] \in Int
                      /\ Withheld[d] \in Int /\ paid[d] \in Int /\ Taken(d) \in Int
  BY FiguresTyped, FS_Subset DEF Remaining
<1>2. ASSUME NEW d \in D
      PROVE  /\ O[d] = L[d] + W[d]
             /\ T[d] = LWB[d] + took[d]
  <2>1. /\ TypeOK /\ Payable[d] \in Nat /\ paid[d] <= Payable[d] /\ Withheld[d] \in Nat
        /\ status[d] = "PAID" => paid[d] = Payable[d]
        /\ status[d] # "CANCELLED" => paid[d] = Imported[d] + Taken(d)
        /\ status[d] = "CANCELLED" => \A i \in Ids : Takes(i, d) = 0
    BY Sorts, StatementsAssumption DEF IInv, PaidIsSettled, DebtsAgree, StatusTellsDebt
  <2>2. status[d] = "CANCELLED" => Taken(d) = 0
    <3> DEFINE f == [i \in Ids |-> Takes(i, d)]
    <3>1. (\A i \in Ids : Takes(i, d) = 0) => \A i \in Ids : f[i] = 0
      OBVIOUS
    <3> HIDE DEF f
    <3>2. (\A i \in Ids : f[i] = 0) => SumFunctionOnSet(f, Ids) = 0
      BY Sorts, SumZero
    <3> QED BY <2>1, <3>1, <3>2 DEF f, Taken
  <2>3. Left(d) = Payable[d] + Withheld[d] - paid[d] /\ Total(d) = Payable[d] + Withheld[d]
    <3>1. Payable[d] \in Int /\ Withheld[d] \in Int /\ paid[d] \in Int
      BY <1>1, <2>1
    <3> QED BY <3>1 DEF Left, Total
  <2>4. took[d] = Taken(d) /\ LWB[d] = L[d] + W[d] + B[d]
    OBVIOUS
  <2>5. CASE status[d] = "CANCELLED"
    <3>1. d \notin standing /\ d \notin settled /\ d \notin Remaining(D)
      BY <2>5 DEF Issued, Remaining
    <3> QED BY <2>2, <2>4, <2>5, <3>1
  <2>6. CASE status[d] = "PAID"
    <3>1. d \in standing /\ d \in settled /\ d \notin Remaining(D)
      BY <2>6 DEF Issued, Remaining
    <3> QED BY <1>1, <2>1, <2>3, <2>4, <2>6, <3>1
  <2>7. CASE status[d] \notin {"PAID", "CANCELLED"}
    <3>1. d \in standing /\ d \notin settled /\ (d \in Remaining(D) <=> Left(d) > 0)
      BY <2>7 DEF Issued, Remaining
    <3>2. Left(d) >= 0
      BY <1>1, <2>1, <2>3
    <3>3. L[d] = Left(d) /\ W[d] = 0 /\ O[d] = Left(d) /\ T[d] = Total(d) /\ B[d] = Imported[d]
      BY <1>1, <3>1, <3>2
    <3> HIDE DEF L, W, O, T, B, LWB, took
    <3> QED BY <1>1, <2>1, <2>3, <2>4, <2>7, <3>3
  <2> QED BY <2>5, <2>6, <2>7
<1>3. \A d \in D : /\ T[d] \in Int /\ L[d] \in Int /\ O[d] \in Int /\ B[d] \in Int /\ W[d] \in Int
                   /\ LW[d] \in Int /\ LWB[d] \in Int /\ took[d] \in Int
                   /\ LW[d] = L[d] + W[d] /\ LWB[d] = LW[d] + B[d]
  BY <1>1
<1>4. /\ \A d \in standing : total[d] = T[d] /\ open[d] = O[d] /\ brought[d] = B[d]
      /\ \A d \in Remaining(D) : left[d] = L[d]
      /\ \A d \in settled : withheld[d] = W[d]
      /\ \A d \in D \ standing : T[d] = 0 /\ O[d] = 0 /\ B[d] = 0
      /\ \A d \in D \ Remaining(D) : L[d] = 0
      /\ \A d \in D \ settled : W[d] = 0
  BY <1>1
<1>5. /\ Sum(Total, standing) = SumFunctionOnSet(total, standing)
      /\ Sum(Left, standing) = SumFunctionOnSet(open, standing)
      /\ Sum(Left, Remaining(D)) = SumFunctionOnSet(left, Remaining(D))
      /\ Sum(LAMBDA d : Imported[d], standing) = SumFunctionOnSet(brought, standing)
      /\ Sum(LAMBDA d : Withheld[d], settled) = SumFunctionOnSet(withheld, settled)
  BY DEF Sum
<1> HIDE DEF standing, settled, took, total, left, open, brought, withheld, T, L, O, B, W, LW, LWB
<1>6. IsFiniteSet(standing) /\ IsFiniteSet(settled) /\ IsFiniteSet(Remaining(D))
  BY <1>1, FS_Subset
<1>7. /\ SumFunctionOnSet(total, standing) = SumFunctionOnSet(T, standing)
      /\ SumFunctionOnSet(open, standing) = SumFunctionOnSet(O, standing)
      /\ SumFunctionOnSet(brought, standing) = SumFunctionOnSet(B, standing)
      /\ SumFunctionOnSet(left, Remaining(D)) = SumFunctionOnSet(L, Remaining(D))
      /\ SumFunctionOnSet(withheld, settled) = SumFunctionOnSet(W, settled)
  BY <1>4, <1>6, SumEqual
<1>8. /\ SumFunctionOnSet(T, D) = SumFunctionOnSet(T, standing)
      /\ SumFunctionOnSet(O, D) = SumFunctionOnSet(O, standing)
      /\ SumFunctionOnSet(B, D) = SumFunctionOnSet(B, standing)
      /\ SumFunctionOnSet(L, D) = SumFunctionOnSet(L, Remaining(D))
      /\ SumFunctionOnSet(W, D) = SumFunctionOnSet(W, settled)
  BY <1>1, <1>3, <1>4, SumSubset
<1>9. /\ SumFunctionOnSet(T, D) \in Int /\ SumFunctionOnSet(O, D) \in Int
      /\ SumFunctionOnSet(B, D) \in Int /\ SumFunctionOnSet(L, D) \in Int
      /\ SumFunctionOnSet(W, D) \in Int /\ SumFunctionOnSet(took, D) \in Int
  BY <1>1, <1>3, SumType
<1>10. SumFunctionOnSet(O, D) = SumFunctionOnSet(L, D) + SumFunctionOnSet(W, D)
  BY <1>1, <1>2, <1>3, SumPlus
<1>11. SumFunctionOnSet(LW, D) = SumFunctionOnSet(L, D) + SumFunctionOnSet(W, D)
  BY <1>1, <1>3, SumPlus
<1>12. SumFunctionOnSet(LWB, D) = SumFunctionOnSet(LW, D) + SumFunctionOnSet(B, D)
  BY <1>1, <1>3, SumPlus
<1>13. SumFunctionOnSet(T, D) = SumFunctionOnSet(LWB, D) + SumFunctionOnSet(took, D)
  BY <1>1, <1>2, <1>3, SumPlus
<1>14. /\ Sum(Total, standing) = Sum(Left, Remaining(D)) + Sum(LAMBDA d : Imported[d], standing)
                + SumFunctionOnSet(took, D) + Sum(LAMBDA d : Withheld[d], settled)
       /\ Sum(Left, standing) = Sum(Left, Remaining(D)) + Sum(LAMBDA d : Withheld[d], settled)
       /\ Sum(Total, standing) \in Int /\ Sum(Left, Remaining(D)) \in Int
       /\ Sum(LAMBDA d : Imported[d], standing) \in Int /\ SumFunctionOnSet(took, D) \in Int
       /\ Sum(LAMBDA d : Withheld[d], settled) \in Int /\ Sum(Left, standing) \in Int
  BY <1>5, <1>7, <1>8, <1>9, <1>10, <1>11, <1>12, <1>13
<1> QED BY <1>14 DEF standing, settled, took

\* An invoice is never UNPAID: that is what an import leaves a bill in.
Sided == \A d \in Docs : KindOf[d] = "invoice" => status[d] # "UNPAID"

\* Only an import makes a document UNPAID, and only a bill.
LEMMA SidedStays ==
    /\ Init => Sided
    /\ IInv /\ Sided /\ [Next]_vars => Sided'
<1>1. ASSUME Init PROVE Sided
  BY <1>1 DEF Init, Sided, StatusUp
<1>2. ASSUME IInv, Sided, [Next]_vars PROVE Sided'
  <2>1. ASSUME NEW s \in Sessions, CommitSettlement(s) PROVE Sided'
    <3>1. status' = [d \in Docs |-> StatusSettled(s, d)]
      BY <2>1 DEF CommitSettlement
    <3>2. \A d \in Docs : status'[d] # "UNPAID" \/ status'[d] = status[d]
      BY <3>1 DEF StatusSettled, StatusUp, StatusWithout, StatusDown
    <3> QED BY <1>2, <3>2 DEF Sided
  <2>2. ASSUME NEW s \in Sessions, CommitVoid(s) PROVE Sided'
    BY <1>2, <2>2 DEF CommitVoid, Sided, IInv, TypeOK
  <2>3. ASSUME NEW s \in Sessions, Open(s) PROVE Sided'
    <3>1. status' = status
      BY <2>3 DEF Open, OpenMake, OpenCancel, OpenReplace, OpenNote, OpenCancelNote,
                     OpenReplaceNote, OpenVoid, OpenCorrect, Begin
    <3> QED BY <1>2, <3>1 DEF Sided
  <2>4. ASSUME UNCHANGED status PROVE Sided'
    BY <1>2, <2>4 DEF Sided
  <2> QED BY <1>2, <2>1, <2>2, <2>3, <2>4 DEF Next, vars, Rollback
<1> QED BY <1>1, <1>2

\* What the settlements of I in force come to: what they take off the documents of D, when
\* they settle these alone and nothing else does, and their advances.
LEMMA SettlementsTell ==
    ASSUME IInv, NEW D \in SUBSET Docs, NEW I \in SUBSET Ids,
           \A i \in Ids : \A d \in Docs : i \in I /\ d \notin D => Takes(i, d) = 0,
           \A i \in Ids : \A d \in Docs : i \notin I /\ d \in D => Takes(i, d) = 0
    PROVE  /\ Sum(Amount, I \cap InForce) = SumFunctionOnSet([d \in Docs |-> Taken(d)], D)
                  + Sum(LAMBDA i : advance[i], I \cap InForce)
           /\ Sum(Amount, I \cap InForce) \in Int /\ Sum(LAMBDA i : advance[i], I \cap InForce) \in Int
<1> DEFINE A == I \cap InForce
           took == [d \in Docs |-> Taken(d)]
           m == [d \in Docs |-> [i \in Ids |-> Takes(i, d)]]
           column(i) == [d \in D |-> m[d][i]]
           row(d) == [i \in Ids |-> m[d][i]]
           columns == [i \in Ids |-> SumFunctionOnSet(column(i), D)]
           rows == [d \in D |-> SumFunctionOnSet(row(d), Ids)]
           worth == [i \in A |-> Allocated(i)]
           amount == [i \in A |-> Amount(i)]
           extra == [i \in A |-> advance[i]]
<1>1. /\ IsFiniteSet(D) /\ IsFiniteSet(Ids) /\ IsFiniteSet(A) /\ A \in SUBSET Ids /\ IsFiniteSet(Docs)
      /\ \A i \in Ids : /\ Allocated(i) \in Int /\ advance[i] \in Int /\ Amount(i) \in Int
                        /\ Amount(i) = Allocated(i) + advance[i]
      /\ \A i \in Ids : \A d \in Docs : Takes(i, d) \in Int
  BY FiguresTyped, FS_Subset
<1>2. \A i \in Ids : \A d \in D : m[d][i] = Takes(i, d) /\ m[d][i] \in Int
                                 /\ column(i)[d] = Takes(i, d)
  BY <1>1
<1>3. SumFunctionOnSet(columns, Ids) = SumFunctionOnSet(rows, D)
  <2> HIDE DEF m
  <2> QED BY <1>1, <1>2, SumSwap
<1>4. \A d \in D : rows[d] = took[d]
  <2>1. \A d \in D : row(d) = [i \in Ids |-> Takes(i, d)]
    OBVIOUS
  <2> QED BY <2>1 DEF Taken
<1>5. ASSUME NEW i \in Ids
      PROVE  columns[i] = IF i \in A THEN Allocated(i) ELSE 0
  <2> DEFINE c == column(i)
  <2>1. columns[i] = SumFunctionOnSet(c, D)
    OBVIOUS
  <2>2. CASE i \in A
    <3> DEFINE p == portion[i]
    <3>1. stage[i] = "ACTIVE" /\ i \in I
      BY <2>2 DEF InForce
    <3>2. \A d \in Docs : Takes(i, d) = p[d] /\ p[d] \in Int
      BY <1>1, <3>1 DEF Takes
    <3>3. \A d \in Docs \ D : p[d] = 0
      BY <3>1, <3>2
    <3>4. \A d \in D : c[d] = p[d]
      BY <1>2, <3>2
    <3> HIDE DEF c
    <3>5. SumFunctionOnSet(c, D) = SumFunctionOnSet(p, D)
      BY <1>1, <3>4, SumEqual
    <3>6. SumFunctionOnSet(p, Docs) = SumFunctionOnSet(p, D)
      BY <1>1, <3>2, <3>3, SumSubset
    <3> QED BY <2>1, <2>2, <3>5, <3>6 DEF Allocated
  <2>3. CASE i \notin A
    <3>1. \A d \in D : Takes(i, d) = 0
      BY <2>3 DEF InForce, Takes
    <3>2. \A d \in D : c[d] = 0
      BY <1>2, <3>1
    <3> HIDE DEF c
    <3> QED BY <1>1, <2>1, <2>3, <3>2, SumZero
  <2> QED BY <2>2, <2>3
<1>6. \A i \in A : worth[i] = columns[i] /\ worth[i] \in Int /\ extra[i] \in Int
                   /\ amount[i] = worth[i] + extra[i]
  BY <1>1, <1>5
<1>7. (\A i \in Ids : columns[i] \in Int) /\ \A i \in Ids \ A : columns[i] = 0
  <2> HIDE DEF columns, A
  <2> QED BY <1>1, <1>5
<1>8. Sum(Amount, A) = SumFunctionOnSet(amount, A) /\ Sum(LAMBDA i : advance[i], A) = SumFunctionOnSet(extra, A)
  BY DEF Sum
<1> HIDE DEF A, took, columns, rows, worth, amount, extra
<1>9. SumFunctionOnSet(columns, Ids) = SumFunctionOnSet(columns, A)
  BY <1>1, <1>7, SumSubset
<1>10. SumFunctionOnSet(worth, A) = SumFunctionOnSet(columns, A)
  BY <1>1, <1>6, SumEqual
<1>11. SumFunctionOnSet(rows, D) = SumFunctionOnSet(took, D)
  BY <1>1, <1>4, SumEqual
<1>12. SumFunctionOnSet(amount, A) = SumFunctionOnSet(worth, A) + SumFunctionOnSet(extra, A)
  BY <1>1, <1>6, SumPlus
<1>13. SumFunctionOnSet(worth, A) \in Int /\ SumFunctionOnSet(extra, A) \in Int
  BY <1>1, <1>6, SumType
<1>14. /\ Sum(Amount, A) = SumFunctionOnSet(took, D) + Sum(LAMBDA i : advance[i], A)
       /\ Sum(Amount, A) \in Int /\ Sum(LAMBDA i : advance[i], A) \in Int
  <2>1. /\ SumFunctionOnSet(amount, A) = SumFunctionOnSet(took, D) + SumFunctionOnSet(extra, A)
        /\ SumFunctionOnSet(amount, A) \in Int
    <3>1. SumFunctionOnSet(worth, A) = SumFunctionOnSet(rows, D)
      BY <1>3, <1>9, <1>10
    <3>2. SumFunctionOnSet(worth, A) = SumFunctionOnSet(took, D)
      BY <1>11, <3>1
    <3> QED BY <1>12, <1>13, <3>2
  <2> QED BY <1>8, <1>13, <2>1
<1> QED BY <1>14 DEF A, took

\* The vouchers of one kind add up to the amounts they are made of.
LEMMA VouchersTell ==
    ASSUME NEW X, IsFiniteSet(X), NEW g, \A x \in X : g[x] \in Int, NEW kind
    PROVE  LET made == {Voucher(kind, x, g[x]) : x \in X}
           IN  /\ IsFiniteSet(made) /\ \A v \in made : v.amount \in Int
               /\ Sum(LAMBDA v : v.amount, made) = SumFunctionOnSet(g, X)
<1> DEFINE made == {Voucher(kind, x, g[x]) : x \in X}
           write == [x \in X |-> Voucher(kind, x, g[x])]
           number == [v \in made |-> v.no]
           amount == [v \in made |-> v.amount]
<1>1. /\ \A v \in made : v.no \in X /\ v = Voucher(kind, v.no, g[v.no]) /\ v.amount = g[v.no]
      /\ \A x \in X : Voucher(kind, x, g[x]) \in made /\ Voucher(kind, x, g[x]).no = x
  BY DEF Voucher
<1>2. write \in Surjection(X, made)
  BY DEF Surjection
<1>3. IsFiniteSet(made)
  BY <1>2, FS_Surjection
<1>4. /\ \A v \in made : number[v] \in X /\ amount[v] = g[number[v]]
      /\ \A v, w \in made : number[v] = number[w] => v = w
      /\ \A x \in X : \E v \in made : number[v] = x
  <2>1. \A v \in made : number[v] = v.no /\ amount[v] = v.amount
    OBVIOUS
  <2> HIDE DEF made, number, amount
  <2> QED BY <1>1, <2>1
<1>5. Sum(LAMBDA v : v.amount, made) = SumFunctionOnSet(amount, made)
  BY DEF Sum
<1>6. \A v \in made : v.amount \in Int
  BY <1>1
<1> HIDE DEF made, number, amount
<1>7. SumFunctionOnSet(amount, made) = SumFunctionOnSet(g, X)
  BY <1>3, <1>4, SumReindex
<1> QED BY <1>3, <1>5, <1>6, <1>7 DEF made

\* What is told of two sets of vouchers that do not meet adds up.
LEMMA Joined ==
    ASSUME NEW A, NEW B, IsFiniteSet(A), IsFiniteSet(B), A \cap B = {},
           \A v \in A \cup B : v.amount \in Int
    PROVE  /\ IsFiniteSet(A \cup B)
           /\ Sum(LAMBDA v : v.amount, A \cup B)
                  = Sum(LAMBDA v : v.amount, A) + Sum(LAMBDA v : v.amount, B)
<1> DEFINE S == A \cup B
           s == [v \in S |-> v.amount]
           a == [v \in A |-> v.amount]
           b == [v \in B |-> v.amount]
<1>1. IsFiniteSet(S) /\ A \in SUBSET S /\ S \ A = B
  BY FS_Union
<1>2. (\A v \in A : a[v] = s[v]) /\ (\A v \in B : b[v] = s[v]) /\ \A v \in S : s[v] \in Int
  OBVIOUS
<1>3. /\ Sum(LAMBDA v : v.amount, S) = SumFunctionOnSet(s, S)
      /\ Sum(LAMBDA v : v.amount, A) = SumFunctionOnSet(a, A)
      /\ Sum(LAMBDA v : v.amount, B) = SumFunctionOnSet(b, B)
  BY DEF Sum
<1> HIDE DEF S, s, a, b
<1>4. SumFunctionOnSet(s, S) = SumFunctionOnSet(s, A) + SumFunctionOnSet(s, B)
  BY <1>1, <1>2, SumUnion
<1>5. SumFunctionOnSet(a, A) = SumFunctionOnSet(s, A) /\ SumFunctionOnSet(b, B) = SumFunctionOnSet(s, B)
  BY <1>2, SumEqual
<1> QED BY <1>1, <1>3, <1>4, <1>5 DEF S

\* The vouchers of a contact come to what was sold less what was bought, less what was
\* received, plus what was paid, less the notes.
LEMMA VouchersSum ==
    ASSUME IInv, NEW c \in Contacts
    PROVE  LET in == {d \in Of(c, "invoice") \cap Docs : Issued(d)}
               out == {d \in Of(c, "bill") \cap Docs : Issued(d)}
               receipts == Of(c, "invoice") \cap InForce
               payments == Of(c, "bill") \cap InForce
               notes == {n \in Notes \cap InForce : ContactOf[InvoiceOf(n)] = c}
           IN  /\ IsFiniteSet(Vouchers(c))
               /\ \A v \in Vouchers(c) : v.amount \in Int /\ \E x \in Docs \cup Ids : v.date = Dated[x]
               /\ Sum(LAMBDA v : v.amount, Vouchers(c))
                      = Sum(Total, in) - Sum(Total, out) - Sum(Amount, receipts)
                        + Sum(Amount, payments) - Sum(Amount, notes)
<1> DEFINE in == {d \in Of(c, "invoice") \cap Docs : Issued(d)}
           out == {d \in Of(c, "bill") \cap Docs : Issued(d)}
           receipts == Of(c, "invoice") \cap InForce
           payments == Of(c, "bill") \cap InForce
           notes == {n \in Notes \cap InForce : ContactOf[InvoiceOf(n)] = c}
           inTotal == [x \in in |-> Total(x)]
           outTotal == [x \in out |-> Total(x)]
           received == [x \in receipts |-> Amount(x)]
           disbursed == [x \in payments |-> Amount(x)]
           noted == [x \in notes |-> Amount(x)]
           outTotalN == [x \in out |-> -Total(x)]
           receivedN == [x \in receipts |-> -Amount(x)]
           notedN == [x \in notes |-> -Amount(x)]
           V1 == {Voucher("Sales", x, inTotal[x]) : x \in in}
           V2 == {Voucher("Purchase", x, outTotalN[x]) : x \in out}
           V3 == {Voucher("Receipt", x, receivedN[x]) : x \in receipts}
           V4 == {Voucher("Payment", x, disbursed[x]) : x \in payments}
           creditNote == "Credit Note"
           V5 == {Voucher(creditNote, x, notedN[x]) : x \in notes}
<1>0. creditNote \notin {"Sales", "Purchase", "Receipt", "Payment"}
  OBVIOUS
<1>1. /\ IsFiniteSet(in) /\ IsFiniteSet(out) /\ IsFiniteSet(receipts)
      /\ IsFiniteSet(payments) /\ IsFiniteSet(notes)
  BY FiguresTyped, FS_Subset
<1>2. /\ in \subseteq Docs /\ out \subseteq Docs /\ receipts \subseteq Ids
      /\ payments \subseteq Ids /\ notes \subseteq Ids
      /\ (\A d \in Docs : Total(d) \in Int) /\ (\A i \in Ids : Amount(i) \in Int)
  BY FiguresTyped DEF InForce
<1>3. /\ \A x \in in : inTotal[x] = Total(x) /\ inTotal[x] \in Int
      /\ \A x \in out : outTotal[x] = Total(x) /\ outTotal[x] \in Int /\ outTotalN[x] = -outTotal[x]
                        /\ outTotalN[x] = -Total(x) /\ outTotalN[x] \in Int
      /\ \A x \in receipts : received[x] = Amount(x) /\ received[x] \in Int
                        /\ receivedN[x] = -received[x]
                        /\ receivedN[x] = -Amount(x) /\ receivedN[x] \in Int
      /\ \A x \in payments : disbursed[x] = Amount(x) /\ disbursed[x] \in Int
      /\ \A x \in notes : noted[x] = Amount(x) /\ noted[x] \in Int /\ notedN[x] = -noted[x]
                        /\ notedN[x] = -Amount(x) /\ notedN[x] \in Int
  <2> HIDE DEF in, out, receipts, payments, notes
  <2> QED BY <1>2
<1>4. Vouchers(c) = V1 \cup V2 \cup V3 \cup V4 \cup V5
  <2>1. /\ V1 = {Voucher("Sales", x, Total(x)) : x \in in}
        /\ V2 = {Voucher("Purchase", x, -Total(x)) : x \in out}
        /\ V3 = {Voucher("Receipt", x, -Amount(x)) : x \in receipts}
        /\ V4 = {Voucher("Payment", x, Amount(x)) : x \in payments}
        /\ V5 = {Voucher("Credit Note", x, -Amount(x)) : x \in notes}
    <3> HIDE DEF in, out, receipts, payments, notes, inTotal, outTotalN, receivedN, disbursed, notedN
    <3> QED BY <1>3
  <2> HIDE DEF V1, V2, V3, V4, V5
  <2> QED BY <2>1 DEF Vouchers, InForce
<1>5. /\ Sum(Total, in) = SumFunctionOnSet(inTotal, in)
      /\ Sum(Total, out) = SumFunctionOnSet(outTotal, out)
      /\ Sum(Amount, receipts) = SumFunctionOnSet(received, receipts)
      /\ Sum(Amount, payments) = SumFunctionOnSet(disbursed, payments)
      /\ Sum(Amount, notes) = SumFunctionOnSet(noted, notes)
  BY DEF Sum
<1>6. /\ \A v \in V1 : v.type = "Sales" /\ v.no \in in /\ v.date = Dated[v.no]
      /\ \A v \in V2 : v.type = "Purchase" /\ v.no \in out /\ v.date = Dated[v.no]
      /\ \A v \in V3 : v.type = "Receipt" /\ v.no \in receipts /\ v.date = Dated[v.no]
      /\ \A v \in V4 : v.type = "Payment" /\ v.no \in payments /\ v.date = Dated[v.no]
      /\ \A v \in V5 : v.type = creditNote /\ v.no \in notes /\ v.date = Dated[v.no]
  <2> HIDE DEF in, out, receipts, payments, notes, inTotal, outTotalN, receivedN, disbursed, notedN,
               creditNote
  <2>1. \A v \in V1 : v.type = "Sales" /\ v.no \in in /\ v.date = Dated[v.no]
    BY DEF Voucher
  <2>2. \A v \in V2 : v.type = "Purchase" /\ v.no \in out /\ v.date = Dated[v.no]
    BY DEF Voucher
  <2>3. \A v \in V3 : v.type = "Receipt" /\ v.no \in receipts /\ v.date = Dated[v.no]
    BY DEF Voucher
  <2>4. \A v \in V4 : v.type = "Payment" /\ v.no \in payments /\ v.date = Dated[v.no]
    BY DEF Voucher
  <2>5. \A v \in V5 : v.type = creditNote /\ v.no \in notes /\ v.date = Dated[v.no]
    BY DEF Voucher
  <2> HIDE DEF V1, V2, V3, V4, V5
  <2> QED BY <2>1, <2>2, <2>3, <2>4, <2>5
<1> HIDE DEF in, out, receipts, payments, notes, inTotal, outTotal, received, disbursed, noted,
             outTotalN, receivedN, notedN, creditNote
<1>7. /\ IsFiniteSet(V1) /\ (\A v \in V1 : v.amount \in Int)
      /\ Sum(LAMBDA v : v.amount, V1) = SumFunctionOnSet(inTotal, in)
  BY <1>1, <1>3, VouchersTell
<1>8. /\ IsFiniteSet(V2) /\ (\A v \in V2 : v.amount \in Int)
      /\ Sum(LAMBDA v : v.amount, V2) = SumFunctionOnSet(outTotalN, out)
  BY <1>1, <1>3, VouchersTell
<1>9. /\ IsFiniteSet(V3) /\ (\A v \in V3 : v.amount \in Int)
      /\ Sum(LAMBDA v : v.amount, V3) = SumFunctionOnSet(receivedN, receipts)
  BY <1>1, <1>3, VouchersTell
<1>10. /\ IsFiniteSet(V4) /\ (\A v \in V4 : v.amount \in Int)
       /\ Sum(LAMBDA v : v.amount, V4) = SumFunctionOnSet(disbursed, payments)
  BY <1>1, <1>3, VouchersTell
<1>11. /\ IsFiniteSet(V5) /\ (\A v \in V5 : v.amount \in Int)
       /\ Sum(LAMBDA v : v.amount, V5) = SumFunctionOnSet(notedN, notes)
  BY <1>1, <1>3, VouchersTell
<1> HIDE DEF V1, V2, V3, V4, V5
<1> DEFINE V12 == V1 \cup V2
           V123 == V12 \cup V3
           V1234 == V123 \cup V4
           V == V1234 \cup V5
<1>12. /\ IsFiniteSet(V12) /\ (\A v \in V12 : v.amount \in Int)
       /\ Sum(LAMBDA v : v.amount, V12)
              = Sum(LAMBDA v : v.amount, V1) + Sum(LAMBDA v : v.amount, V2)
  <2>1. V1 \cap V2 = {} /\ \A v \in V12 : v.amount \in Int
    BY <1>6, <1>7, <1>8
  <2> QED BY <1>7, <1>8, <2>1, Joined
<1>13. /\ IsFiniteSet(V123) /\ (\A v \in V123 : v.amount \in Int)
       /\ Sum(LAMBDA v : v.amount, V123)
              = Sum(LAMBDA v : v.amount, V12) + Sum(LAMBDA v : v.amount, V3)
  <2>1. V12 \cap V3 = {} /\ \A v \in V123 : v.amount \in Int
    BY <1>6, <1>9, <1>12
  <2> HIDE DEF V12
  <2> QED BY <1>9, <1>12, <2>1, Joined
<1>14. /\ IsFiniteSet(V1234) /\ (\A v \in V1234 : v.amount \in Int)
       /\ Sum(LAMBDA v : v.amount, V1234)
              = Sum(LAMBDA v : v.amount, V123) + Sum(LAMBDA v : v.amount, V4)
  <2>1. V123 \cap V4 = {} /\ \A v \in V1234 : v.amount \in Int
    BY <1>6, <1>10, <1>13
  <2> HIDE DEF V123
  <2> QED BY <1>10, <1>13, <2>1, Joined
<1>15. /\ IsFiniteSet(V) /\ (\A v \in V : v.amount \in Int)
       /\ Sum(LAMBDA v : v.amount, V)
              = Sum(LAMBDA v : v.amount, V1234) + Sum(LAMBDA v : v.amount, V5)
  <2>1. V1234 \cap V5 = {} /\ \A v \in V : v.amount \in Int
    BY <1>0, <1>6, <1>11, <1>12, <1>13, <1>14
  <2> HIDE DEF V1234
  <2> QED BY <1>11, <1>14, <2>1, Joined
<1>16. V = Vouchers(c)
  BY <1>4
<1>17. \A v \in V : v.amount \in Int /\ \E x \in Docs \cup Ids : v.date = Dated[x]
  BY <1>2, <1>6, <1>15
<1>18. /\ SumFunctionOnSet(outTotalN, out) = -SumFunctionOnSet(outTotal, out)
       /\ SumFunctionOnSet(receivedN, receipts) = -SumFunctionOnSet(received, receipts)
       /\ SumFunctionOnSet(notedN, notes) = -SumFunctionOnSet(noted, notes)
  BY <1>1, <1>3, SumOpposite
<1>19. /\ SumFunctionOnSet(inTotal, in) \in Int /\ SumFunctionOnSet(outTotal, out) \in Int
       /\ SumFunctionOnSet(received, receipts) \in Int
       /\ SumFunctionOnSet(disbursed, payments) \in Int /\ SumFunctionOnSet(noted, notes) \in Int
  BY <1>1, <1>3, SumType
<1> HIDE DEF V, V12, V123, V1234
<1>20. Sum(LAMBDA v : v.amount, V)
           = SumFunctionOnSet(inTotal, in) - SumFunctionOnSet(outTotal, out)
             - SumFunctionOnSet(received, receipts)
             + SumFunctionOnSet(disbursed, payments) - SumFunctionOnSet(noted, notes)
  BY <1>7, <1>8, <1>9, <1>10, <1>11, <1>12, <1>13, <1>14, <1>15, <1>18, <1>19
<1>21. Sum(LAMBDA v : v.amount, Vouchers(c))
           = Sum(Total, in) - Sum(Total, out) - Sum(Amount, receipts)
             + Sum(Amount, payments) - Sum(Amount, notes)
  BY <1>5, <1>16, <1>20
<1> QED BY <1>15, <1>16, <1>17, <1>21 DEF in, out, receipts, payments, notes

\* A statement closes with all that is dated up to its last day.
LEMMA Closes ==
    ASSUME NEW V, IsFiniteSet(V), \A v \in V : v.amount \in Int /\ v.date \in Int,
           NEW from \in Int, NEW to \in Int, from <= to
    PROVE  Closing(V, from, to) = Sum(LAMBDA v : v.amount, {v \in V : v.date <= to})
<1> DEFINE A == {v \in V : v.date < from}
           B == {v \in V : v.date \in from .. to}
<1>1. IsFiniteSet(A) /\ IsFiniteSet(B)
  BY FS_Subset
<1>2. A \cap B = {} /\ \A v \in A \cup B : v.amount \in Int
  OBVIOUS
<1>3. A \cup B = {v \in V : v.date <= to}
  OBVIOUS
<1>4. Closing(V, from, to) = Sum(LAMBDA v : v.amount, A) + Sum(LAMBDA v : v.amount, B)
  BY DEF Closing, Opening, Lines
<1> HIDE DEF A, B
<1>5. Sum(LAMBDA v : v.amount, A \cup B) = Sum(LAMBDA v : v.amount, A) + Sum(LAMBDA v : v.amount, B)
  BY <1>1, <1>2, Joined
<1> QED BY <1>3, <1>4, <1>5

\* Settlements take from documents of their side: a payment from those of its contact, a
\* note from its invoice.
LEMMA TakesAims ==
    ASSUME IInv, Aimed, NEW i \in Ids, NEW d \in Docs, Takes(i, d) # 0
    PROVE  /\ i \in InForce
           /\ i \in Payments => KindOf[d] = KindOf[i] /\ ContactOf[d] = ContactOf[i]
           /\ i \in Notes => KindOf[d] = "invoice" /\ InvoiceOf(i) = d
<1>1. stage[i] = "ACTIVE" /\ portion[i][d] > 0
  BY DEF Takes, IInv, TypeOK
<1>2. i \in Notes => i \notin Payments
  BY Sorts
<1>3. i \in Notes => \A e \in Docs : portion[i][e] > 0 => e = d
  BY <1>1, <1>2 DEF Aimed, Aims
<1>4. i \in Notes => InvoiceOf(i) = d
  BY <1>1, <1>3 DEF InvoiceOf
<1> QED BY <1>1, <1>2, <1>4 DEF Aimed, Aims, InForce

\* Notes add to the amounts of settlements, and have no advance.
LEMMA WithNotes ==
    ASSUME IInv, NEW P \in SUBSET Payments, NEW N \in SUBSET Notes
    PROVE  /\ Sum(Amount, P \cup N) = Sum(Amount, P) + Sum(Amount, N)
           /\ Sum(LAMBDA i : advance[i], P \cup N) = Sum(LAMBDA i : advance[i], P)
           /\ Sum(Amount, P) \in Int /\ Sum(Amount, N) \in Int
<1> DEFINE S == P \cup N
           f == [i \in S |-> Amount(i)]
           g == [i \in P |-> Amount(i)]
           h == [i \in N |-> Amount(i)]
           k == [i \in S |-> advance[i]]
           m == [i \in P |-> advance[i]]
<1>1. IsFiniteSet(S) /\ IsFiniteSet(P) /\ IsFiniteSet(N) /\ P \in SUBSET S /\ S \ P = N
  BY FiguresTyped, Sorts, FS_Subset DEF Ids
<1>2. \A i \in S : Amount(i) \in Int /\ advance[i] \in Int
  BY FiguresTyped DEF Ids
<1>3. \A i \in N : advance[i] = 0
  BY DEF IInv
<1>4. /\ \A i \in S : f[i] \in Int /\ k[i] \in Int
      /\ \A i \in P : g[i] = f[i] /\ g[i] \in Int /\ m[i] = k[i]
      /\ \A i \in N : h[i] = f[i] /\ h[i] \in Int
      /\ \A i \in S \ P : k[i] = 0
  BY <1>1, <1>2, <1>3
<1>5. /\ Sum(Amount, S) = SumFunctionOnSet(f, S) /\ Sum(Amount, P) = SumFunctionOnSet(g, P)
      /\ Sum(Amount, N) = SumFunctionOnSet(h, N)
      /\ Sum(LAMBDA i : advance[i], S) = SumFunctionOnSet(k, S)
      /\ Sum(LAMBDA i : advance[i], P) = SumFunctionOnSet(m, P)
  BY DEF Sum
<1> HIDE DEF S, f, g, h, k, m
<1>6. SumFunctionOnSet(f, S) = SumFunctionOnSet(f, P) + SumFunctionOnSet(f, N)
  BY <1>1, <1>4, SumUnion
<1>7. /\ SumFunctionOnSet(g, P) = SumFunctionOnSet(f, P) /\ SumFunctionOnSet(h, N) = SumFunctionOnSet(f, N)
      /\ SumFunctionOnSet(m, P) = SumFunctionOnSet(k, P)
  BY <1>1, <1>4, SumEqual
<1>8. SumFunctionOnSet(g, P) \in Int /\ SumFunctionOnSet(h, N) \in Int
  BY <1>1, <1>4, SumType
<1>9. SumFunctionOnSet(k, S) = SumFunctionOnSet(k, P)
  BY <1>1, <1>4, SumSubset
<1> QED BY <1>5, <1>6, <1>7, <1>8, <1>9 DEF S

\* The balance of a statement is what is owed either way, with what an import brought, the
\* advances, and the tax that is withheld.
LEMMA StatementTells ==
    ASSUME IInv, Aimed, NothingAhead, NEW c \in Contacts
    PROVE  LET in == Of(c, "invoice") out == Of(c, "bill") vouchers == Vouchers(c)
               brought(S) == Sum(LAMBDA d : Imported[d], {d \in S : Issued(d)})
               advances(S) == Sum(LAMBDA i : advance[i], S \cap InForce)
           IN  /\ Closing(vouchers, 0, Today)
                      = Owed(c, "invoice") + brought(in \cap Docs) - advances(in \cap Payments)
                        - Owed(c, "bill") - brought(out \cap Docs) + advances(out \cap Payments)
                        - Sum(LAMBDA d : Withheld[d], {d \in out \cap Docs : status[d] = "PAID"})
               /\ \A day \in 0 .. Today : Closing(vouchers, day, day) = Opening(vouchers, day + 1)
<1> DEFINE Din == Of(c, "invoice") \cap Docs
           Dout == Of(c, "bill") \cap Docs
           receipts == Of(c, "invoice") \cap InForce
           payments == Of(c, "bill") \cap InForce
           notes == {n \in Notes \cap InForce : ContactOf[InvoiceOf(n)] = c}
           Iin == receipts \cup notes
           Iout == payments
           took == [d \in Docs |-> Taken(d)]
           V == Vouchers(c)
           sold == Sum(Total, {d \in Din : Issued(d)})
           bought == Sum(Total, {d \in Dout : Issued(d)})
           broughtIn == Sum(LAMBDA d : Imported[d], {d \in Din : Issued(d)})
           broughtOut == Sum(LAMBDA d : Imported[d], {d \in Dout : Issued(d)})
           withheldIn == Sum(LAMBDA d : Withheld[d], {d \in Din : status[d] = "PAID"})
           withheldOut == Sum(LAMBDA d : Withheld[d], {d \in Dout : status[d] = "PAID"})
           oweIn == Sum(Left, Remaining(Din))
           oweOut == Sum(Left, Remaining(Dout))
           tookIn == SumFunctionOnSet(took, Din)
           tookOut == SumFunctionOnSet(took, Dout)
           received == Sum(Amount, receipts)
           disbursed == Sum(Amount, payments)
           noted == Sum(Amount, notes)
           ahead == Sum(LAMBDA i : advance[i], receipts)
           behind == Sum(LAMBDA i : advance[i], payments)
           closing == Sum(LAMBDA v : v.amount, V)
<1>1. /\ sold = oweIn + broughtIn + tookIn + withheldIn
      /\ sold \in Int /\ oweIn \in Int /\ broughtIn \in Int /\ tookIn \in Int /\ withheldIn \in Int
  <2> Din \in SUBSET Docs
    OBVIOUS
  <2> HIDE DEF Din
  <2> QED BY DocumentsTell
<1>2. /\ bought = oweOut + broughtOut + tookOut + withheldOut
      /\ bought \in Int /\ oweOut \in Int /\ broughtOut \in Int /\ tookOut \in Int /\ withheldOut \in Int
  <2> Dout \in SUBSET Docs
    OBVIOUS
  <2> HIDE DEF Dout
  <2> QED BY DocumentsTell
<1>3. /\ Iin \in SUBSET Ids /\ Iout \in SUBSET Ids
      /\ Iin \cap InForce = Iin /\ Iout \cap InForce = Iout
      /\ receipts \subseteq Payments /\ payments \subseteq Payments /\ notes \subseteq Notes
  BY Sorts DEF InForce, Of, Ids
<1>4. /\ \A i \in Ids : \A d \in Docs : i \in Iin /\ d \notin Din => Takes(i, d) = 0
      /\ \A i \in Ids : \A d \in Docs : i \notin Iin /\ d \in Din => Takes(i, d) = 0
      /\ \A i \in Ids : \A d \in Docs : i \in Iout /\ d \notin Dout => Takes(i, d) = 0
      /\ \A i \in Ids : \A d \in Docs : i \notin Iout /\ d \in Dout => Takes(i, d) = 0
  <2> SUFFICES ASSUME NEW i \in Ids, NEW d \in Docs, Takes(i, d) # 0
               PROVE  (i \in Iin <=> d \in Din) /\ (i \in Iout <=> d \in Dout)
    OBVIOUS
  <2>1. /\ i \in InForce
        /\ i \in Payments => KindOf[d] = KindOf[i] /\ ContactOf[d] = ContactOf[i]
        /\ i \in Notes => KindOf[d] = "invoice" /\ InvoiceOf(i) = d
    BY TakesAims
  <2>2. d \in Din <=> ContactOf[d] = c /\ KindOf[d] = "invoice"
    BY DEF Of
  <2>3. d \in Dout <=> ContactOf[d] = c /\ KindOf[d] = "bill"
    BY DEF Of
  <2>4. CASE i \in Payments
    <3>1. i \in receipts <=> ContactOf[i] = c /\ KindOf[i] = "invoice"
      BY <2>1, <2>4 DEF Of
    <3>2. i \in payments <=> ContactOf[i] = c /\ KindOf[i] = "bill"
      BY <2>1, <2>4 DEF Of
    <3>3. i \notin notes
      BY <2>4, Sorts
    <3> HIDE DEF Din, Dout, receipts, payments, notes
    <3> QED BY <2>1, <2>2, <2>3, <2>4, <3>1, <3>2, <3>3
  <2>5. CASE i \in Notes
    <3>1. i \notin receipts /\ i \notin payments
      BY <1>3, <2>5, Sorts
    <3>2. i \in notes <=> ContactOf[d] = c
      BY <2>1, <2>5
    <3> HIDE DEF Din, Dout, receipts, payments, notes
    <3> QED BY <2>1, <2>2, <2>3, <2>5, <3>1, <3>2
  <2> QED BY <2>4, <2>5 DEF Ids
<1>5. /\ Sum(Amount, Iin) = tookIn + Sum(LAMBDA i : advance[i], Iin)
      /\ Sum(Amount, Iin) \in Int /\ Sum(LAMBDA i : advance[i], Iin) \in Int
  <2> Din \in SUBSET Docs
    OBVIOUS
  <2> HIDE DEF Din, Iin
  <2> QED BY <1>3, <1>4, SettlementsTell
<1>6. disbursed = tookOut + behind /\ disbursed \in Int /\ behind \in Int
  <2> Dout \in SUBSET Docs
    OBVIOUS
  <2>1. /\ Sum(Amount, Iout) = tookOut + Sum(LAMBDA i : advance[i], Iout)
        /\ Sum(Amount, Iout) \in Int /\ Sum(LAMBDA i : advance[i], Iout) \in Int
    <3> HIDE DEF Dout, Iout
    <3> QED BY <1>3, <1>4, SettlementsTell
  <2> QED BY <2>1
<1> HIDE DEF Iin, notes, receipts
<1>7. /\ Sum(Amount, Iin) = received + noted /\ Sum(LAMBDA i : advance[i], Iin) = ahead
      /\ received \in Int /\ noted \in Int
  BY <1>3, WithNotes DEF Iin
<1>8. withheldIn = 0
  <2> DEFINE S == {d \in Din : status[d] = "PAID"}
             f == [d \in S |-> Withheld[d]]
  <2>1. \A d \in S : f[d] = 0
    BY StatementsAssumption DEF Of
  <2>2. withheldIn = SumFunctionOnSet(f, S)
    BY DEF Sum
  <2>3. IsFiniteSet(S)
    BY FiguresTyped, FS_Subset
  <2> HIDE DEF f, S, withheldIn
  <2> QED BY <2>1, <2>2, <2>3, SumZero
<1>9. /\ IsFiniteSet(V) /\ closing = sold - bought - received + disbursed - noted
       /\ \A v \in V : v.amount \in Int /\ \E x \in Docs \cup Ids : v.date = Dated[x]
  BY VouchersSum DEF receipts, notes
<1>10. \A v \in V : v.date \in Int /\ v.date <= Today
  BY <1>9, StatementsAssumption DEF NothingAhead
<1>11. Closing(V, 0, Today) = closing
  <2>1. {v \in V : v.date <= Today} = V
    BY <1>10
  <2>2. Today \in Int /\ 0 <= Today
    BY StatementsAssumption
  <2> HIDE DEF V
  <2>3. Closing(V, 0, Today) = Sum(LAMBDA v : v.amount, {v \in V : v.date <= Today})
    BY <1>9, <1>10, <2>2, Closes
  <2> QED BY <2>1, <2>3
<1>12. \A day \in 0 .. Today : Closing(V, day, day) = Opening(V, day + 1)
  <2> SUFFICES ASSUME NEW day \in 0 .. Today PROVE Closing(V, day, day) = Opening(V, day + 1)
    OBVIOUS
  <2>1. day \in Int /\ day <= day
    BY StatementsAssumption
  <2>2. {v \in V : v.date <= day} = {v \in V : v.date < day + 1}
    BY <1>10, <2>1
  <2> HIDE DEF V
  <2>3. Closing(V, day, day) = Sum(LAMBDA v : v.amount, {v \in V : v.date <= day})
    BY <1>9, <1>10, <2>1, Closes
  <2> QED BY <2>2, <2>3 DEF Opening
<1>13. /\ Owed(c, "invoice") = oweIn /\ Owed(c, "bill") = oweOut
       /\ (Of(c, "invoice") \cap Payments) \cap InForce = receipts
       /\ (Of(c, "bill") \cap Payments) \cap InForce = payments
  <2>1. Outstanding(c, "invoice") = Remaining(Din) /\ Outstanding(c, "bill") = Remaining(Dout)
    BY DEF Outstanding, Remaining
  <2>2. /\ (Of(c, "invoice") \cap Payments) \cap InForce = receipts
        /\ (Of(c, "bill") \cap Payments) \cap InForce = payments
    BY <1>3 DEF receipts
  <2> HIDE DEF Din, Dout
  <2> QED BY <2>1, <2>2 DEF Owed
<1>14. closing = oweIn + broughtIn - ahead - oweOut - broughtOut + behind - withheldOut
  <2> HIDE DEF closing, oweIn, broughtIn, ahead, oweOut, broughtOut, behind, withheldOut, withheldIn,
               sold, bought, received, disbursed, noted, tookIn, tookOut
  <2>1. received + noted = tookIn + ahead /\ ahead \in Int
    BY <1>5, <1>7
  <2>2. sold = oweIn + broughtIn + tookIn
    BY <1>1, <1>8
  <2>3. closing = sold - bought - received + disbursed - noted
    BY <1>9
  <2> QED BY <1>1, <1>2, <1>6, <1>7, <2>1, <2>2, <2>3
<1> QED BY <1>11, <1>12, <1>13, <1>14

\* A sum over a set of the members of another is that of their terms there.
LEMMA SumOfLeft ==
    ASSUME IInv, NEW R \in SUBSET Docs, NEW S \in SUBSET R
    PROVE  Sum(Left, S) = SumFunctionOnSet([d \in R |-> Left(d)], S)
<1> DEFINE f == [d \in S |-> Left(d)]
           g == [d \in R |-> Left(d)]
<1>1. IsFiniteSet(S) /\ \A d \in S : f[d] = g[d]
  BY FiguresTyped, FS_Subset
<1>2. Sum(Left, S) = SumFunctionOnSet(f, S)
  BY DEF Sum
<1> HIDE DEF f, g
<1>3. SumFunctionOnSet(f, S) = SumFunctionOnSet(g, S)
  BY <1>1, SumEqual
<1> QED BY <1>2, <1>3 DEF g

\* A set of four, as the buckets of the aging report are, is finite.
LEMMA FourFinite == ASSUME NEW a, NEW b, NEW c, NEW d PROVE IsFiniteSet({a, b, c, d})
<1> DEFINE A == {a} \cup {b}
           B == {c} \cup {d}
<1>1. IsFiniteSet(A) /\ IsFiniteSet(B)
  BY FS_Singleton, FS_Union
<1>2. {a, b, c, d} = A \cup B
  OBVIOUS
<1> HIDE DEF A, B
<1>3. IsFiniteSet(A \cup B)
  BY <1>1, FS_Union
<1> QED BY <1>2, <1>3

\* The aging report splits what is owed.
LEMMA AgingTells ==
    ASSUME IInv, NEW c \in Contacts, NEW kind
    PROVE  LET aging == Aging(c, kind, Today)
           IN  Sum(LAMBDA b : aging[b], DOMAIN aging) = Owed(c, kind)
<1> DEFINE R == Outstanding(c, kind)
           X == {"0-30 days", "31-60 days", "61-90 days", "91+ days"}
           a == [d \in R |-> Bucket(Overdue(d, Today))]
           l == [d \in R |-> Left(d)]
           aging == Aging(c, kind, Today)
           groups == [b \in X |-> SumFunctionOnSet(l, {d \in R : a[d] = b})]
<1>1. R \in SUBSET Docs /\ IsFiniteSet(R)
  BY FiguresTyped, FS_Subset DEF Outstanding
<1>2. IsFiniteSet(X)
  BY FourFinite
<1>3. \A d \in R : a[d] \in X
  BY DEF Bucket
<1>4. \A d \in R : l[d] \in Int
  BY <1>1, FiguresTyped
<1>5. \A b \in X : {d \in R : Bucket(Overdue(d, Today)) = b} = {d \in R : a[d] = b}
  OBVIOUS
<1>6. aging = [b \in X |-> Sum(Left, {d \in R : Bucket(Overdue(d, Today)) = b})]
  BY DEF Aging
<1> HIDE DEF X, R, a, aging
<1>7. DOMAIN aging = X /\ \A b \in X : aging[b] = groups[b]
  <2> SUFFICES ASSUME NEW b \in X PROVE aging[b] = groups[b]
    BY <1>6
  <2> DEFINE G == {d \in R : a[d] = b}
  <2>1. aging[b] = Sum(Left, G)
    BY <1>5, <1>6
  <2>2. G \in SUBSET R
    OBVIOUS
  <2>3. Sum(Left, G) = SumFunctionOnSet(l, G)
    <3> HIDE DEF G
    <3> QED BY <1>1, <2>2, SumOfLeft
  <2> QED BY <2>1, <2>3
<1>8. SumFunctionOnSet(groups, X) = SumFunctionOnSet(l, R)
  <2> HIDE DEF l
  <2> QED BY <1>1, <1>2, <1>3, <1>4, SumPartition
<1>9. Sum(LAMBDA b : aging[b], DOMAIN aging) = SumFunctionOnSet(groups, X)
  <2>1. Sum(LAMBDA b : aging[b], DOMAIN aging) = SumFunctionOnSet([b \in X |-> aging[b]], X)
    BY <1>7 DEF Sum
  <2>2. [b \in X |-> aging[b]] = groups
    <3> HIDE DEF groups
    <3>1. groups = [b \in X |-> groups[b]]
      BY DEF groups
    <3> QED BY <1>7, <3>1
  <2> HIDE DEF groups
  <2> QED BY <2>1, <2>2
<1>10. Owed(c, kind) = SumFunctionOnSet(l, R)
  BY DEF Owed, Sum, R
<1> QED BY <1>8, <1>9, <1>10 DEF aging

\* A payment is offered what remains.
LEMMA ListsTell ==
    ASSUME IInv, Sided, NEW c \in Contacts
    PROVE  /\ CustomerList(c) = Outstanding(c, "invoice")
           /\ VendorList(c) = {d \in Outstanding(c, "bill") : status[d] # "UNPAID"}
<1>1. ASSUME NEW d \in Docs
      PROVE  /\ Payable[d] \in Int /\ Withheld[d] \in Nat /\ paid[d] \in Int
             /\ Left(d) = Payable[d] + Withheld[d] - paid[d] /\ Total(d) = Payable[d] + Withheld[d]
             /\ KindOf[d] = "invoice" => Withheld[d] = 0 /\ status[d] # "UNPAID"
             /\ status[d] \in Receivable(d) <=> status[d] \notin {"PAID", "CANCELLED", "UNPAID"}
             /\ status[d] \in Receivable(d) => paid[d] < Payable[d]
  <2>1. Payable[d] \in Int /\ Withheld[d] \in Nat /\ paid[d] \in Int
    BY Sorts, StatementsAssumption DEF IInv, TypeOK
  <2>2. /\ status[d] \in Receivable(d) <=> status[d] \notin {"PAID", "CANCELLED", "UNPAID"}
        /\ status[d] \in Receivable(d) => paid[d] < Payable[d]
    BY DEF IInv, DebtsAgree, StatusTellsDebt
  <2> QED BY <2>1, <2>2, StatementsAssumption DEF Left, Total, Sided
<1>2. ASSUME NEW d \in Of(c, "invoice") \cap Docs
      PROVE  d \in CustomerList(c) <=> d \in Outstanding(c, "invoice")
  <2>1. KindOf[d] = "invoice"
    BY DEF Of
  <2>2. d \in CustomerList(c) <=> status[d] \in Receivable(d) /\ paid[d] < Total(d)
    BY DEF CustomerList
  <2>3. d \in Outstanding(c, "invoice") <=> status[d] \notin {"CANCELLED", "PAID"} /\ Left(d) > 0
    BY DEF Outstanding
  <2> QED BY <1>1, <2>1, <2>2, <2>3
<1>3. ASSUME NEW d \in Of(c, "bill") \cap Docs
      PROVE  d \in VendorList(c) <=> d \in Outstanding(c, "bill") /\ status[d] # "UNPAID"
  <2>1. d \in VendorList(c) <=> status[d] \in Receivable(d) /\ Payable[d] - paid[d] > 0
    BY DEF VendorList
  <2>2. d \in Outstanding(c, "bill") <=> status[d] \notin {"CANCELLED", "PAID"} /\ Left(d) > 0
    BY DEF Outstanding
  <2> QED BY <1>1, <2>1, <2>2
<1>4. CustomerList(c) \subseteq Of(c, "invoice") \cap Docs /\ VendorList(c) \subseteq Of(c, "bill") \cap Docs
      /\ Outstanding(c, "invoice") \subseteq Of(c, "invoice") \cap Docs
      /\ Outstanding(c, "bill") \subseteq Of(c, "bill") \cap Docs
  BY DEF CustomerList, VendorList, Outstanding
<1> QED BY <1>2, <1>3, <1>4

\* The dashboards add up, over all invoices, to what the contacts owe.
LEMMA DashboardsTell ==
    ASSUME IInv, Aimed, Sided
    PROVE  LET brought(S) == Sum(LAMBDA d : Imported[d], {d \in S : Issued(d)})
               advances(S) == Sum(LAMBDA i : advance[i], S \cap InForce)
               sales == {x \in Docs \cup Payments : KindOf[x] = "invoice"}
               owed == Sum(LAMBDA c : Owed(c, "invoice"), Contacts)
           IN  /\ Stats = owed
               /\ Kpi.outstanding = owed - Sum(Left, Invoices({"SENT"}))
               /\ SalesOutstanding = Kpi.outstanding
               /\ Sum(Left, Pending) = Kpi.outstanding
               /\ Alerts \subseteq Pending
               /\ Kpi.invoiced - Kpi.collected
                     = owed + brought(sales \cap Docs) - advances(sales \cap Payments)
                       + Sum(Amount, Notes \cap InForce)
<1> DEFINE D == {d \in Docs : KindOf[d] = "invoice"}
           receipts == {i \in Payments : KindOf[i] = "invoice" /\ stage[i] = "ACTIVE"}
           notes == Notes \cap InForce
           I == receipts \cup notes
           R == Remaining(D)
           l == [d \in D |-> Left(d)]
           part(S) == SumFunctionOnSet(l, S)
           owed == Sum(LAMBDA c : Owed(c, "invoice"), Contacts)
           ahead == Sum(LAMBDA i : advance[i], receipts)
           collected == Sum(Amount, receipts)
           noted == Sum(Amount, notes)
           invoiced == Sum(Total, {d \in D : Issued(d)})
           brought == Sum(LAMBDA d : Imported[d], {d \in D : Issued(d)})
           withheld == Sum(LAMBDA d : Withheld[d], {d \in D : status[d] = "PAID"})
           took == SumFunctionOnSet([d \in Docs |-> Taken(d)], D)
           oweAll == Sum(Left, R)
<1>1. ASSUME NEW d \in D
      PROVE  /\ Payable[d] \in Int /\ paid[d] \in Int /\ Left(d) = Payable[d] - paid[d]
             /\ Left(d) \in Int /\ Left(d) >= 0 /\ Total(d) = Left(d) + paid[d] /\ Total(d) \in Int
             /\ status[d] \in {"POSTED", "SENT", "PARTIALLY_PAID", "PAID", "CANCELLED"}
             /\ status[d] = "PAID" => Left(d) = 0
             /\ status[d] \in {"POSTED", "SENT", "PARTIALLY_PAID"} => Left(d) > 0
  <2>1. /\ Payable[d] \in Int /\ Withheld[d] = 0 /\ paid[d] \in Int /\ paid[d] <= Payable[d]
        /\ status[d] \in Statuses
    BY Sorts, StatementsAssumption DEF IInv, TypeOK, PaidIsSettled
  <2>2. /\ status[d] \in Receivable(d) <=> status[d] \notin {"PAID", "CANCELLED", "UNPAID"}
        /\ status[d] \in Receivable(d) => paid[d] < Payable[d]
        /\ status[d] = "PAID" => paid[d] = Payable[d]
    BY DEF IInv, DebtsAgree, StatusTellsDebt
  <2>3. Total(d) = Payable[d] /\ Left(d) = Payable[d] - paid[d]
    BY <2>1 DEF Total, Left
  <2>4. status[d] \in {"POSTED", "SENT", "PARTIALLY_PAID", "PAID", "CANCELLED"}
    BY <2>1 DEF Statuses, Sided
  <2> QED BY <2>1, <2>2, <2>3, <2>4
<1>2. /\ D \in SUBSET Docs /\ IsFiniteSet(D) /\ R \in SUBSET D
      /\ \A d \in D : l[d] = Left(d) /\ l[d] \in Int
  <2>1. D \in SUBSET Docs /\ IsFiniteSet(D) /\ R \in SUBSET D
    BY FiguresTyped, FS_Subset DEF Remaining
  <2> HIDE DEF D
  <2> QED BY <1>1, <2>1
<1>3. ASSUME NEW S \in SUBSET D
      PROVE  Sum(Left, S) = part(S) /\ part(S) \in Int /\ IsFiniteSet(S)
  <2>1. IsFiniteSet(S) /\ \A d \in S : l[d] \in Int
    BY <1>2, FS_Subset
  <2>2. Sum(Left, S) = part(S)
    <3> HIDE DEF D
    <3> QED BY <1>2, SumOfLeft
  <2> HIDE DEF l, D
  <2> QED BY <2>1, <2>2, SumType
<1>4. ASSUME NEW S \in SUBSET D, NEW T \in SUBSET S, \A d \in S \ T : Left(d) = 0
      PROVE  part(S) = part(T)
  <2>1. (\A d \in S : l[d] \in Int) /\ \A d \in S \ T : l[d] = 0
    BY <1>2, <1>4
  <2>2. IsFiniteSet(S)
    BY <1>2, FS_Subset
  <2> HIDE DEF l, D
  <2> QED BY <2>1, <2>2, SumSubset
<1>5. owed = part(R) /\ owed \in Int
  <2> DEFINE a == [d \in R |-> ContactOf[d]]
             groups == [c \in Contacts |-> SumFunctionOnSet(l, {d \in R : a[d] = c})]
  <2>1. \A c \in Contacts : Outstanding(c, "invoice") = {d \in R : a[d] = c}
    BY DEF Outstanding, Of, Remaining
  <2>2. \A d \in R : a[d] \in Contacts /\ l[d] \in Int
    BY <1>2, Sorts
  <2>3. IsFiniteSet(R) /\ IsFiniteSet(Contacts)
    BY <1>3, <1>2, FiguresTyped
  <2> HIDE DEF R, D, a
  <2>4. \A c \in Contacts : Owed(c, "invoice") = groups[c]
    <3> SUFFICES ASSUME NEW c \in Contacts PROVE Owed(c, "invoice") = groups[c]
      OBVIOUS
    <3> DEFINE G == {d \in R : a[d] = c}
    <3>1. Owed(c, "invoice") = Sum(Left, G)
      BY <2>1 DEF Owed
    <3>2. G \in SUBSET D
      BY <1>2
    <3>3. Sum(Left, G) = part(G)
      <4> HIDE DEF G, l
      <4> QED BY <1>3, <3>2
    <3> QED BY <3>1, <3>3
  <2>5. owed = SumFunctionOnSet(groups, Contacts)
    <3>1. owed = SumFunctionOnSet([c \in Contacts |-> Owed(c, "invoice")], Contacts)
      BY DEF Sum
    <3>2. [c \in Contacts |-> Owed(c, "invoice")] = groups
      <4>1. groups = [c \in Contacts |-> groups[c]]
        OBVIOUS
      <4> HIDE DEF groups
      <4> QED BY <2>4, <4>1
    <3> HIDE DEF groups, owed
    <3> QED BY <3>1, <3>2
  <2>6. SumFunctionOnSet(groups, Contacts) = part(R)
    <3> HIDE DEF l
    <3> QED BY <2>2, <2>3, SumPartition
  <2>7. part(R) \in Int
    BY <1>2, <1>3
  <2> QED BY <2>5, <2>6, <2>7
<1> DEFINE F == Invoices(Finalized)
           A == Invoices(Finalized \cup {"SENT"})
           O == Invoices({"POSTED", "PARTIALLY_PAID"})
           N == Invoices({"SENT"})
<1>6. /\ A \in SUBSET D /\ R \in SUBSET A /\ \A d \in A \ R : Left(d) = 0
      /\ F \in SUBSET D /\ O \in SUBSET F /\ \A d \in F \ O : Left(d) = 0
      /\ O \in SUBSET R /\ R \ O = N /\ N \in SUBSET D /\ O \in SUBSET D
      /\ Pending = O /\ Alerts \subseteq Pending
  <2>1. /\ \A d : d \in A <=> d \in D /\ status[d] \in {"POSTED", "PARTIALLY_PAID", "PAID", "SENT"}
        /\ \A d : d \in F <=> d \in D /\ status[d] \in {"POSTED", "PARTIALLY_PAID", "PAID"}
        /\ \A d : d \in O <=> d \in D /\ status[d] \in {"POSTED", "PARTIALLY_PAID"}
        /\ \A d : d \in N <=> d \in D /\ status[d] = "SENT"
        /\ \A d : d \in R <=> d \in D /\ status[d] \notin {"CANCELLED", "PAID"} /\ Left(d) > 0
        /\ \A d : d \in Pending <=> d \in O /\ Left(d) > 0
        /\ \A d \in Alerts : d \in O /\ Left(d) > Tolerance
    BY DEF Invoices, Finalized, Remaining, Pending, Alerts
  <2>2. Tolerance \in Nat
    BY StatementsAssumption
  <2> HIDE DEF A, F, O, N, R, D
  <2> QED BY <1>1, <2>1, <2>2
<1>7. /\ Stats = owed /\ Kpi.outstanding = part(O) /\ Sum(Left, Pending) = part(O)
      /\ part(F) = part(O) /\ part(O) \in Int /\ Sum(Left, N) = part(N) /\ part(N) \in Int
  <2>1. Stats = Sum(Left, A) /\ Kpi.outstanding = Sum(Left, O)
    BY DEF Stats, Kpi
  <2> HIDE DEF A, F, O, N, R, D, l, owed
  <2>2. part(A) = part(R) /\ part(F) = part(O)
    BY <1>4, <1>6
  <2> QED BY <1>3, <1>5, <1>6, <2>1, <2>2
<1>8. owed = part(O) + part(N)
  <2>1. IsFiniteSet(R) /\ \A d \in R : l[d] \in Int
    BY <1>2, <1>3
  <2> HIDE DEF R, O, N, l, D, owed
  <2>2. part(R) = part(O) + part(N)
    BY <1>6, <2>1, SumUnion
  <2> QED BY <1>5, <2>2
<1>9. SalesOutstanding = part(F)
  <2> DEFINE total == [d \in F |-> Total(d)]
             settled == [d \in F |-> paid[d]]
  <2>1. \A d \in F : /\ l[d] \in Int /\ settled[d] \in Int /\ total[d] \in Int
                     /\ total[d] = l[d] + settled[d]
    BY <1>1, <1>2, <1>6
  <2>2. SalesOutstanding = SumFunctionOnSet(total, F) - SumFunctionOnSet(settled, F)
    BY DEF SalesOutstanding, Sum
  <2>3. IsFiniteSet(F)
    BY <1>3, <1>6
  <2> HIDE DEF total, settled, F, l, D
  <2>4. SumFunctionOnSet(total, F) = part(F) + SumFunctionOnSet(settled, F)
    BY <2>1, <2>3, SumPlus
  <2>5. part(F) \in Int /\ SumFunctionOnSet(settled, F) \in Int
    BY <2>1, <2>3, SumType
  <2> QED BY <2>2, <2>4, <2>5
<1>10. /\ invoiced = oweAll + brought + took + withheld
       /\ invoiced \in Int /\ oweAll \in Int /\ brought \in Int /\ took \in Int /\ withheld \in Int
  <2> HIDE DEF D
  <2> QED BY <1>2, DocumentsTell
<1>11. withheld = 0
  <2> DEFINE S == {d \in D : status[d] = "PAID"}
             f == [d \in S |-> Withheld[d]]
  <2>1. \A d \in S : f[d] = 0
    BY StatementsAssumption
  <2>2. withheld = SumFunctionOnSet(f, S)
    BY DEF Sum
  <2>3. IsFiniteSet(S)
    BY FiguresTyped, FS_Subset
  <2> HIDE DEF f, S, withheld
  <2> QED BY <2>1, <2>2, <2>3, SumZero
<1>12. /\ receipts \in SUBSET Payments /\ notes \in SUBSET Notes
       /\ I \in SUBSET Ids /\ I \cap InForce = I
  BY DEF InForce, Ids
<1>13. /\ \A i \in Ids : \A d \in Docs : i \in I /\ d \notin D => Takes(i, d) = 0
       /\ \A i \in Ids : \A d \in Docs : i \notin I /\ d \in D => Takes(i, d) = 0
  <2> SUFFICES ASSUME NEW i \in Ids, NEW d \in Docs, Takes(i, d) # 0
               PROVE  i \in I <=> d \in D
    OBVIOUS
  <2>1. /\ i \in InForce
        /\ i \in Payments => KindOf[d] = KindOf[i]
        /\ i \in Notes => KindOf[d] = "invoice"
    BY TakesAims
  <2>2. i \in InForce => stage[i] = "ACTIVE"
    BY DEF InForce
  <2> QED BY <2>1, <2>2, Sorts DEF Ids
<1>14. Sum(Amount, I) = took + Sum(LAMBDA i : advance[i], I) /\ Sum(LAMBDA i : advance[i], I) \in Int
  <2> HIDE DEF I, D
  <2> QED BY <1>2, <1>12, <1>13, SettlementsTell
<1>15. /\ Sum(Amount, I) = collected + noted /\ Sum(LAMBDA i : advance[i], I) = ahead
       /\ collected \in Int /\ noted \in Int
  <2> HIDE DEF receipts, notes
  <2> QED BY <1>12, WithNotes
<1>16. /\ Kpi.invoiced = invoiced /\ Kpi.collected = collected
  <2>1. {d \in Docs : KindOf[d] = "invoice" /\ Issued(d)} = {d \in D : Issued(d)}
    OBVIOUS
  <2> HIDE DEF D, receipts
  <2> QED BY <2>1 DEF Kpi, receipts
<1>17. /\ {x \in Docs \cup Payments : KindOf[x] = "invoice"} \cap Docs = D
       /\ ({x \in Docs \cup Payments : KindOf[x] = "invoice"} \cap Payments) \cap InForce = receipts
  BY DEF InForce, Ids
<1>18. oweAll = owed
  BY <1>2, <1>3, <1>5
<1>19. invoiced - collected = owed + brought - ahead + noted
  <2> HIDE DEF invoiced, collected, owed, brought, ahead, noted, oweAll, took, withheld, I
  <2> QED BY <1>10, <1>11, <1>14, <1>15, <1>18
<1>20. /\ Stats = owed
       /\ Kpi.outstanding = owed - Sum(Left, N)
       /\ SalesOutstanding = Kpi.outstanding /\ Sum(Left, Pending) = Kpi.outstanding
       /\ Alerts \subseteq Pending
       /\ Kpi.invoiced - Kpi.collected = owed + brought - ahead + noted
  <2> HIDE DEF invoiced, collected, owed, brought, ahead, noted, part, N, F, O
  <2> QED BY <1>6, <1>7, <1>8, <1>9, <1>16, <1>19
<1> HIDE DEF D, receipts
<1> QED BY <1>17, <1>20

\* The inductive invariant implies that the reports agree.
LEMMA ReportsTell == ASSUME IInv, Aimed, Sided, NothingAhead PROVE StatementsAgree
<1>1. {i \in Ids : stage[i] = "ACTIVE"} = InForce
  BY DEF InForce
<1> QED BY <1>1, StatementTells, AgingTells, ListsTell, DashboardsTell DEF StatementsAgree

\* Whatever the receipts, disbursements, corrections and notes that led here, and in
\* whatever order they were committed, the statements, the outstanding and aging reports
\* and the dashboards tell of the same debt, for any documents and amounts: when nothing is
\* dated after the day of the reports, for the outstanding reports do not look at dates.
THEOREM ReportsAlwaysAgree ==
    UnlockedAlone /\ NotesFirst /\ NothingAhead => (Spec => []StatementsAgree)
<1> SUFFICES ASSUME UnlockedAlone, NotesFirst, NothingAhead PROVE Spec => []StatementsAgree
  OBVIOUS
<1>1. Init => Aimed /\ Sided
  BY InitAims, SidedStays
<1>2. IInv /\ Aimed /\ Sided /\ [Next]_vars => (Aimed /\ Sided)'
  BY NextAims, SidedStays
<1>3. IInv /\ Aimed /\ Sided => StatementsAgree
  BY ReportsTell
<1>4. Spec => []IInv
  BY Invariance
<1> QED BY <1>1, <1>2, <1>3, <1>4, PTL DEF Spec
=============================================================================
