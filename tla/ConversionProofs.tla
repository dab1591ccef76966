--------------------------- MODULE ConversionProofs ---------------------------
(***************************************************************************)
(* What the run Books states of the documents before the books and of the  *)
(* receipts and returns against their source lines, for any documents and  *)
(* any number of requests: a document becomes the next one at most once,   *)
(* the goods that left are those that are billed, and no source line is    *)
(* listed beyond its quantity.                                             *)
(*                                                                         *)
(* A conversion holds the lock of the document it read, so what it read is *)
(* still so when it commits: ReadSo says this of every request, Apart of   *)
(* the locks.  A request that reads without a lock may commit in between;  *)
(* what it writes keeps the first claim, and the second is claimed, as the *)
(* run claims it, where such requests run alone: AsRead.  A receipt or     *)
(* return that is being created holds its source line, so the quantity it  *)
(* compared still fits: CallSo.                                            *)
(***************************************************************************)
EXTENDS Conversions, SumTheorems

-----------------------------------------------------------------------------
(* Part 1: what becomes of a document.  The inductive invariant.           *)

UnderLock == {"bill", "order", "dispatch", "recall", "generate"}
Shapes == [op : UnderLock \cup UnlockedOps \cup {"idle"}, doc : Documents \cup {NoDoc},
           new : Documents \cup {NoDoc}, to : DocStatuses, q : Nat, saw : Nat]

Typed ==
    /\ doc_status \in [Documents -> DocStatuses] /\ quantity \in [Documents -> Nat]
    /\ source \in [Orders \cup Challans -> Documents \cup {NoDoc}]
    /\ billed \in [Documents -> Seq(Nat)]
    /\ moved \in [Challans -> Nat] /\ restored \in [Challans -> Nat]
    /\ occurrences \in [Templates -> 0 .. MaxOccurrences]
    /\ doc_lock \in [Documents -> Requests \cup {NoDoc}]
    /\ request \in [Requests -> Shapes] /\ quiet \in BOOLEAN

\* There is such a document: it was created, by hand or from another one.
There(d) == doc_status[d] \notin {"none", "unused"}

\* What was made of what: an order of a quotation, a challan of an order.
Derived ==
    /\ \A o \in Orders : source[o] \in Quotations \cup {NoDoc}
    /\ \A c \in Challans : source[c] \in Orders \cup {NoDoc}
    /\ \A x \in Orders \cup Challans : source[x] # NoDoc => There(x) /\ There(source[x])

\* What a request has read is still so: what it locked, if it did, and otherwise no
\* more than that the document is there.
ReadSo(r) ==
    /\ IF r.op = "idle" THEN r.doc = NoDoc ELSE r.doc \in Documents /\ There(r.doc)
    /\ r.new # NoDoc <=> r.op \in {"order", "dispatch"}
    /\ r.new # NoDoc => r.new \in Documents /\ doc_status[r.new] = "none"
    /\ r.op = "bill" => /\ r.doc \in Quotations \cup Challans /\ billed[r.doc] = <<>>
                        /\ r.doc \in Challans => doc_status[r.doc] = "ISSUED"
    /\ r.op = "order" => r.doc \in Quotations /\ r.new \in Orders /\ OrdersOf(r.doc) = {}
    /\ r.op = "dispatch" => r.doc \in Orders /\ r.new \in Challans /\ ChallansOf(r.doc) = {}
    /\ r.op = "recall" => r.doc \in Challans /\ billed[r.doc] = <<>>
    /\ r.op = "generate" => /\ r.doc \in Templates /\ r.saw = occurrences[r.doc]
                            /\ r.saw < MaxOccurrences
    /\ r.op = "ship" => r.doc \in Challans
    /\ r.op = "move" => r.doc \notin Challans /\ r.to \notin {"none", "unused"}

\* What is still so besides where requests without a lock run alone.
AsRead(r) ==
    /\ r.op = "move" => doc_status[r.doc] \in From(r.doc, r.to)
    /\ r.op = "edit" /\ r.doc \in Challans => doc_status[r.doc] = "DRAFT"
    /\ r.op = "ship" => doc_status[r.doc] = "DRAFT" /\ r.saw = quantity[r.doc]
    /\ r.op = "order" \/ (r.op = "bill" /\ r.doc \in Quotations) => doc_status[r.doc] = "ISSUED"
    /\ r.op = "recall" => doc_status[r.doc] \in {"DRAFT", "ISSUED"}

\* A document is locked by the request that works on it, and no two requests are about
\* to make the same document.
Apart ==
    /\ \A s \in Requests : request[s].op \in UnderLock => doc_lock[request[s].doc] = s
    /\ \A d \in Documents : doc_lock[d] # NoDoc => request[doc_lock[d]].doc = d
    /\ \A s, t \in Requests : s # t /\ request[s].new = request[t].new => request[s].new = NoDoc

\* Where requests without a lock run alone.
Alone == quiet =>
    \A s, t \in Requests : request[s].op \in UnlockedOps /\ t # s => request[t].op = "idle"
Quietly == quiet =>
    /\ \A s \in Requests : AsRead(request[s])
    /\ \A c \in Challans : doc_status[c] # "CANCELLED" => restored[c] = 0

PInv ==
    /\ Typed /\ Derived /\ Apart /\ Alone /\ (\A s \in Requests : ReadSo(request[s])) /\ Quietly
    /\ OneOfEach /\ GoodsMatchBill

-----------------------------------------------------------------------------
(* What no step disturbs.                                                  *)

\* The statuses that a handler may write over another.
LEMMA FromMeans ==
    ASSUME Typed, NEW d \in Documents, NEW to \in Targets, doc_status[d] \in From(d, to)
    PROVE  d \notin Challans /\ There(d) /\ to \in DocStatuses \ {"none", "unused"}
<1>1. doc_status[d] \in {"DRAFT", "CONFIRMED", "ISSUED"} \cup Alive /\ d \notin Challans
  BY PipelineAssumption DEF From, OrderFrom, PurchaseFrom, QuotationFrom, TemplateFrom, Documents
<1> QED BY <1>1 DEF There, Alive, Targets, DocStatuses

\* A request keeps what it has read while others commit, if none of the documents
\* whose state they change is locked or about to be made by it.
LEMMA OthersRead ==
    ASSUME PInv, NEW t \in Requests, NEW r, r = request[t], NEW changed,
           \A d \in Documents \ changed : doc_status'[d] = doc_status[d] /\ billed'[d] = billed[d],
           \A d \in Templates \ changed : occurrences'[d] = occurrences[d],
           \A d \in Documents : There(d) => There(d)',
           \A d \in changed : d \in Documents => doc_lock[d] # t /\ d # r.new,
           \A x \in Orders \cup Challans : source'[x] = source[x] \/ source'[x] \in changed
    PROVE  /\ ReadSo(r)'
           /\ quiet /\ r.op \notin UnlockedOps => AsRead(r)'
<1>1. /\ ReadSo(r) /\ (r.op \in UnderLock => doc_lock[r.doc] = t) /\ (quiet => AsRead(r))
      /\ r.op \in UnderLock \cup UnlockedOps \cup {"idle"}
  BY DEF PInv, Apart, Quietly, Typed, Shapes
<1>2. r.op \in UnderLock => r.doc \in Documents \ changed
  BY <1>1 DEF ReadSo, UnderLock
<1>3. r.op \in UnderLock => doc_status'[r.doc] = doc_status[r.doc] /\ billed'[r.doc] = billed[r.doc]
  BY <1>2
<1>4. r.op # "idle" => r.doc \in Documents /\ There(r.doc)'
  BY <1>1 DEF ReadSo
<1>5. r.new # NoDoc => r.new \in Documents /\ doc_status'[r.new] = "none"
  BY <1>1 DEF ReadSo
<1>6. r.op = "order" => {o \in Orders : source'[o] = r.doc} = {}
  BY <1>1, <1>2 DEF ReadSo, OrdersOf, UnderLock
<1>7. r.op = "dispatch" => {c \in Challans : source'[c] = r.doc} = {}
  BY <1>1, <1>2 DEF ReadSo, ChallansOf, UnderLock
<1>8. r.op = "generate" => r.doc \in Templates /\ occurrences'[r.doc] = occurrences[r.doc]
  BY <1>1, <1>2 DEF ReadSo, UnderLock
<1>9. ReadSo(r)'
  BY <1>1, <1>3, <1>4, <1>5, <1>6, <1>7, <1>8 DEF ReadSo, OrdersOf, ChallansOf, UnderLock
<1>10. quiet /\ r.op \notin UnlockedOps => AsRead(r)'
  BY <1>1, <1>3 DEF AsRead, UnderLock, UnlockedOps
<1> QED BY <1>9, <1>10

\* The end of a request gives back its locks and no others.
LEMMA Finished ==
    ASSUME PInv, NEW s \in Requests, Finish(s), quiet' = quiet
    PROVE  /\ Apart' /\ Alone'
           /\ request' \in [Requests -> Shapes] /\ doc_lock' \in [Documents -> Requests \cup {NoDoc}]
           /\ request'[s] = NoRequest /\ \A t \in Requests \ {s} : request'[t] = request[t]
<1>1. NoRequest \in Shapes
  BY DEF NoRequest, Shapes, DocStatuses
<1>2. /\ request \in [Requests -> Shapes] /\ doc_lock \in [Documents -> Requests \cup {NoDoc}]
      /\ NoDoc \notin Requests
  BY PipelineAssumption DEF PInv, Typed, NoDoc
<1>3. /\ request'[s] = NoRequest /\ \A t \in Requests \ {s} : request'[t] = request[t]
      /\ request' \in [Requests -> Shapes]
  BY <1>1, <1>2 DEF Finish
<1>4. /\ \A d \in Documents : doc_lock'[d] = IF doc_lock[d] = s THEN NoDoc ELSE doc_lock[d]
      /\ doc_lock' \in [Documents -> Requests \cup {NoDoc}]
  BY <1>2 DEF Finish
<1>5. NoRequest.op = "idle" /\ NoRequest.new = NoDoc
  BY DEF NoRequest
<1>6. Alone'
  BY <1>3, <1>5 DEF PInv, Alone, UnlockedOps
<1>7. ASSUME NEW t \in Requests, request'[t].op \in UnderLock PROVE doc_lock'[request'[t].doc] = t
  <2>1. t # s /\ request'[t] = request[t]
    BY <1>3, <1>5, <1>7 DEF UnderLock
  <2>2. doc_lock[request[t].doc] = t /\ request[t].doc \in Documents
    BY <1>7, <2>1 DEF PInv, Apart, ReadSo, UnderLock
  <2> QED BY <1>4, <2>1, <2>2
<1>8. ASSUME NEW d \in Documents, doc_lock'[d] # NoDoc PROVE request'[doc_lock'[d]].doc = d
  <2>1. doc_lock'[d] = doc_lock[d] /\ doc_lock[d] # s /\ doc_lock[d] # NoDoc
    BY <1>4, <1>8
  <2>2. doc_lock[d] \in Requests \ {s} /\ request[doc_lock[d]].doc = d
    BY <1>2, <2>1 DEF PInv, Apart
  <2> QED BY <1>3, <2>1, <2>2
<1>9. \A t, u \in Requests : t # u /\ request'[t].new = request'[u].new => request'[t].new = NoDoc
  BY <1>3, <1>5 DEF PInv, Apart
<1>10. Apart'
  BY <1>7, <1>8, <1>9 DEF Apart
<1> QED BY <1>3, <1>4, <1>6, <1>10

\* A commit, of which is known what documents it changes.
LEMMA CommitReads ==
    ASSUME PInv, NEW s \in Requests, Working(s), Finish(s), quiet' = quiet, NEW changed,
           \A d \in Documents \ changed : doc_status'[d] = doc_status[d] /\ billed'[d] = billed[d],
           \A d \in Templates \ changed : occurrences'[d] = occurrences[d],
           \A d \in Documents : There(d) => There(d)',
           \A d \in changed : d \in Documents =>
               \/ doc_lock[d] \in {NoDoc, s} /\ There(d)
               \/ d = request[s].new /\ request[s].new # NoDoc,
           \A x \in Orders \cup Challans : source'[x] = source[x] \/ source'[x] \in changed
    PROVE  /\ Apart' /\ Alone' /\ (\A t \in Requests : ReadSo(request[t])')
           /\ quiet => \A t \in Requests : AsRead(request[t])'
           /\ request' \in [Requests -> Shapes] /\ doc_lock' \in [Documents -> Requests \cup {NoDoc}]
<1>1. /\ Apart' /\ Alone'
      /\ request' \in [Requests -> Shapes] /\ doc_lock' \in [Documents -> Requests \cup {NoDoc}]
      /\ request'[s] = NoRequest /\ \A t \in Requests \ {s} : request'[t] = request[t]
  BY Finished
<1>2. ASSUME NEW t \in Requests \ {s}, NEW r, r = request[t]
      PROVE  ReadSo(r)' /\ (quiet => AsRead(r)')
  <2>1. ASSUME NEW d \in changed, d \in Documents PROVE doc_lock[d] # t /\ d # r.new
    <3>1. doc_lock[d] \in {NoDoc, s} /\ There(d) => doc_lock[d] # t /\ d # r.new
      <4>1. NoDoc \notin Requests /\ NoDoc \notin Documents
        BY PipelineAssumption DEF NoDoc, Documents
      <4>2. r.new # NoDoc => doc_status[r.new] = "none"
        BY <1>2 DEF PInv, ReadSo
      <4>3. There(d) => doc_status[d] # "none"
        BY DEF There
      <4> QED BY <1>2, <2>1, <4>1, <4>2, <4>3
    <3>2. d = request[s].new /\ request[s].new # NoDoc => doc_lock[d] # t /\ d # r.new
      <4>1. SUFFICES ASSUME d = request[s].new, d # NoDoc PROVE doc_lock[d] # t /\ d # r.new
        OBVIOUS
      <4>2. d # r.new
        BY <1>2, <4>1 DEF PInv, Apart
      <4>3. ~There(d)
        BY <4>1 DEF PInv, ReadSo, There
      <4>4. ASSUME doc_lock[d] = t PROVE FALSE
        <5>1. r.doc = d /\ doc_lock[d] # NoDoc
          BY <1>2, <2>1, <4>4, PipelineAssumption DEF PInv, Apart, NoDoc
        <5>2. r.op # "idle" => There(r.doc)
          BY <1>2 DEF PInv, ReadSo
        <5>3. r.op = "idle" => r.doc = NoDoc
          BY <1>2 DEF PInv, ReadSo
        <5>4. NoDoc \notin Documents
          BY PipelineAssumption DEF NoDoc, Documents
        <5> QED BY <2>1, <4>3, <5>1, <5>2, <5>3, <5>4
      <4> QED BY <4>2, <4>4
    <3> QED BY <2>1, <3>1, <3>2
  <2>2. ReadSo(r)' /\ (quiet /\ r.op \notin UnlockedOps => AsRead(r)')
    BY <1>2, <2>1, OthersRead
  <2>3. quiet => r.op \notin UnlockedOps
    BY <1>2 DEF PInv, Alone, Working
  <2> QED BY <2>2, <2>3
<1>3. PICK none : none = NoRequest
  OBVIOUS
<1>4. ReadSo(none)' /\ AsRead(none)'
  BY <1>3 DEF ReadSo, AsRead, NoRequest
<1>5. ASSUME NEW t \in Requests PROVE ReadSo(request[t])' /\ (quiet => AsRead(request[t])')
  <2>1. CASE t = s
    BY <1>1, <1>3, <1>4, <2>1
  <2>2. CASE t # s
    <3>1. PICK r : r = request[t]
      OBVIOUS
    <3>2. ReadSo(r)' /\ (quiet => AsRead(r)')
      BY <1>2, <2>2, <3>1
    <3>3. request'[t] = r
      BY <1>1, <2>2, <3>1
    <3> QED BY <3>2, <3>3 DEF ReadSo, AsRead
  <2> QED BY <2>1, <2>2
<1> QED BY <1>1, <1>5

-----------------------------------------------------------------------------
(* Requests are taken.                                                     *)

\* A request that reads what is so, and locks its document if its handler does.
LEMMA Handles ==
    ASSUME PInv, NEW s \in Requests, NEW d \in Documents, NEW rows, NEW r \in Shapes,
           Handle(s, r.op, d, r.new, r.to, r.q, rows), r.doc = d,
           r.saw = IF d \in Templates THEN occurrences[d] ELSE quantity[d],
           r.op # "idle", rows = IF r.op \in UnderLock THEN {d} ELSE {},
           ReadSo(r), quiet => AsRead(r),
           r.new # NoDoc => \A t \in Requests : request[t].new # r.new
    PROVE  PInv'
<1>1. /\ request[s].op = "idle" /\ \A x \in rows : doc_lock[x] \in {NoDoc, s}
      /\ quiet => /\ \A t \in Requests : request[t].op \notin UnlockedOps
                  /\ r.op \in UnlockedOps => \A t \in Requests : request[t].op = "idle"
      /\ doc_lock' = [d1 \in Documents |-> IF d1 \in rows THEN s ELSE doc_lock[d1]]
      /\ UNCHANGED <<doc_status, quantity, source, billed, moved, restored, occurrences, quiet>>
  BY DEF Handle, Free, Working
<1>2. PICK x : x = [op |-> r.op, doc |-> d, new |-> r.new, to |-> r.to, q |-> r.q,
                    saw |-> IF d \in Templates THEN occurrences[d] ELSE quantity[d]]
  OBVIOUS
<1>3. x = r
  BY <1>2 DEF Shapes
<1>4. request' = [request EXCEPT ![s] = r]
  BY <1>2, <1>3 DEF Handle
<1>5. /\ request \in [Requests -> Shapes] /\ doc_lock \in [Documents -> Requests \cup {NoDoc}]
      /\ NoDoc \notin Requests /\ NoDoc \notin Documents
  BY PipelineAssumption DEF PInv, Typed, NoDoc, Documents
<1>6. /\ request'[s] = r /\ \A t \in Requests \ {s} : request'[t] = request[t]
      /\ request' \in [Requests -> Shapes] /\ doc_lock' \in [Documents -> Requests \cup {NoDoc}]
      /\ \A e \in Documents : doc_lock'[e] = IF e \in rows THEN s ELSE doc_lock[e]
  BY <1>1, <1>4, <1>5
<1>7. Typed' /\ Derived' /\ OneOfEach' /\ GoodsMatchBill'
  BY <1>1, <1>6 DEF PInv, Typed, Derived, There, OneOfEach, GoodsMatchBill, OrdersOf, ChallansOf
<1>8. \A y : (ReadSo(y) => ReadSo(y)') /\ (AsRead(y) => AsRead(y)')
  BY <1>1 DEF ReadSo, AsRead, There, OrdersOf, ChallansOf
<1>9. ASSUME NEW t \in Requests PROVE ReadSo(request[t])' /\ (quiet => AsRead(request[t])')
  <2>1. PICK y : y = request'[t]
    OBVIOUS
  <2>2. ReadSo(y) /\ (quiet => AsRead(y))
    <3>1. CASE t = s
      BY <1>6, <2>1, <3>1
    <3>2. CASE t # s
      BY <1>6, <2>1, <3>2 DEF PInv, Quietly
    <3> QED BY <3>1, <3>2
  <2>3. ReadSo(y)' /\ (quiet => AsRead(y)')
    BY <1>8, <2>2
  <2> QED BY <2>1, <2>3 DEF ReadSo, AsRead
<1>10. Quietly'
  BY <1>1, <1>9 DEF PInv, Quietly
<1>11. Alone'
  BY <1>1, <1>6 DEF Alone
<1>12. ASSUME NEW t \in Requests, request'[t].op \in UnderLock PROVE doc_lock'[request'[t].doc] = t
  <2>1. CASE t = s
    BY <1>6, <1>12, <2>1
  <2>2. CASE t # s
    <3>1. request'[t] = request[t] /\ doc_lock[request[t].doc] = t /\ request[t].doc \in Documents
      BY <1>6, <1>12, <2>2 DEF PInv, Apart, ReadSo, UnderLock
    <3>2. request[t].doc \notin rows
      BY <1>1, <1>5, <2>2, <3>1
    <3> QED BY <1>6, <3>1, <3>2
  <2> QED BY <2>1, <2>2
<1>13. ASSUME NEW e \in Documents, doc_lock'[e] # NoDoc PROVE request'[doc_lock'[e]].doc = e
  <2>1. CASE e \in rows
    <3>1. e = d
      BY <2>1
    <3> QED BY <1>6, <2>1, <3>1
  <2>2. CASE e \notin rows
    <3>1. doc_lock'[e] = doc_lock[e] /\ doc_lock[e] \in Requests /\ request[doc_lock[e]].doc = e
      BY <1>5, <1>6, <1>13, <2>2 DEF PInv, Apart
    <3>2. doc_lock[e] # s
      BY <1>1, <1>5, <3>1 DEF PInv, ReadSo
    <3> QED BY <1>6, <3>1, <3>2
  <2> QED BY <2>1, <2>2
<1>14. \A t, u \in Requests : t # u /\ request'[t].new = request'[u].new => request'[t].new = NoDoc
  BY <1>6 DEF PInv, Apart
<1>15. Apart'
  BY <1>12, <1>13, <1>14 DEF Apart
<1> QED BY <1>7, <1>9, <1>10, <1>11, <1>15 DEF PInv

\* Handlers that read without a lock, which rewrite the status or the lines.
LEMMA UnlockedBegin ==
    ASSUME PInv, NEW s \in Requests, NEW d \in Documents
    PROVE  /\ \A to \in Targets : BeginMove(s, d, to) => PInv'
           /\ \A q \in Quantities :
                  There(d) /\ BeginEdit(s, d, q) /\ (d \in Challans => doc_status[d] = "DRAFT") => PInv'
           /\ d \in Challans /\ BeginShip(s, d) => PInv'
<1>1. doc_status[d] \in DocStatuses /\ quantity[d] \in Nat /\ (d \in Templates => occurrences[d] \in Nat)
      /\ NoDoc \notin Documents
  BY PipelineAssumption DEF PInv, Typed, NoDoc, Documents
<1> DEFINE saw == IF d \in Templates THEN occurrences[d] ELSE quantity[d]
<1>2. saw \in Nat
  BY <1>1
<1>3. ASSUME NEW to \in Targets, BeginMove(s, d, to) PROVE PInv'
  <2>1. PICK r : r = [op |-> "move", doc |-> d, new |-> NoDoc, to |-> to, q |-> 0, saw |-> saw]
    OBVIOUS
  <2>2. /\ d \notin Challans /\ There(d) /\ to \in DocStatuses \ {"none", "unused"}
        /\ doc_status[d] \in From(d, to)
    BY <1>3, FromMeans DEF BeginMove, PInv
  <2>3. r \in Shapes
    BY <1>2, <2>1, <2>2 DEF Shapes, UnlockedOps
  <2>4. ReadSo(r) /\ AsRead(r)
    BY <2>1, <2>2 DEF ReadSo, AsRead
  <2>5. Handle(s, r.op, d, r.new, r.to, r.q, {}) /\ r.doc = d /\ r.saw = saw /\ r.new = NoDoc
        /\ r.op # "idle" /\ r.op \notin UnderLock
    BY <1>3, <2>1 DEF BeginMove, UnderLock
  <2> QED BY <2>3, <2>4, <2>5, Handles
<1>4. ASSUME NEW q \in Quantities, There(d), BeginEdit(s, d, q), d \in Challans => doc_status[d] = "DRAFT"
      PROVE  PInv'
  <2>1. PICK r : r = [op |-> "edit", doc |-> d, new |-> NoDoc, to |-> doc_status[d], q |-> q, saw |-> saw]
    OBVIOUS
  <2>2. q \in Nat
    BY PipelineAssumption
  <2>3. r \in Shapes
    BY <1>1, <1>2, <2>1, <2>2 DEF Shapes, UnlockedOps
  <2>4. ReadSo(r) /\ AsRead(r)
    BY <1>4, <2>1 DEF ReadSo, AsRead
  <2>5. Handle(s, r.op, d, r.new, r.to, r.q, {}) /\ r.doc = d /\ r.saw = saw /\ r.new = NoDoc
        /\ r.op # "idle" /\ r.op \notin UnderLock
    BY <1>4, <2>1 DEF BeginEdit, UnderLock
  <2> QED BY <2>3, <2>4, <2>5, Handles
<1>5. ASSUME d \in Challans, BeginShip(s, d) PROVE PInv'
  <2>1. PICK r : r = [op |-> "ship", doc |-> d, new |-> NoDoc, to |-> "ISSUED", q |-> 0, saw |-> saw]
    OBVIOUS
  <2>2. doc_status[d] = "DRAFT" /\ d \notin Templates
    BY <1>5, PipelineAssumption DEF BeginShip
  <2>3. r \in Shapes
    BY <1>2, <2>1 DEF Shapes, UnlockedOps, DocStatuses, Targets
  <2>4. ReadSo(r) /\ AsRead(r)
    BY <1>5, <2>1, <2>2 DEF ReadSo, AsRead, There
  <2>5. Handle(s, r.op, d, r.new, r.to, r.q, {}) /\ r.doc = d /\ r.saw = saw /\ r.new = NoDoc
        /\ r.op # "idle" /\ r.op \notin UnderLock
    BY <1>5, <2>1 DEF BeginShip, UnderLock
  <2> QED BY <2>3, <2>4, <2>5, Handles
<1> QED BY <1>3, <1>4, <1>5

\* Handlers that lock what they read.
LEMMA LockedBegin ==
    ASSUME PInv, NEW s \in Requests, NEW d \in Documents
    PROVE  /\ d \in Quotations \cup Challans /\ BeginBill(s, d) => PInv'
           /\ \A o \in New(Orders) : d \in Quotations /\ BeginOrder(s, d, o) => PInv'
           /\ \A c \in New(Challans) : d \in Orders /\ BeginDispatch(s, d, c) => PInv'
           /\ d \in Challans /\ BeginRecall(s, d) => PInv'
           /\ d \in Templates /\ BeginGenerate(s, d) => PInv'
<1>1. doc_status[d] \in DocStatuses /\ quantity[d] \in Nat /\ (d \in Templates => occurrences[d] \in Nat)
      /\ NoDoc \notin Documents
  BY PipelineAssumption DEF PInv, Typed, NoDoc, Documents
<1> DEFINE saw == IF d \in Templates THEN occurrences[d] ELSE quantity[d]
<1>2. saw \in Nat
  BY <1>1
<1>3. ASSUME d \in Quotations \cup Challans, BeginBill(s, d) PROVE PInv'
  <2>1. PICK r : r = [op |-> "bill", doc |-> d, new |-> NoDoc, to |-> "CONVERTED", q |-> 0, saw |-> saw]
    OBVIOUS
  <2>2. doc_status[d] = "ISSUED" /\ billed[d] = <<>>
    BY <1>3 DEF BeginBill, Convertible
  <2>3. r \in Shapes
    BY <1>2, <2>1 DEF Shapes, UnderLock, DocStatuses
  <2>4. ReadSo(r) /\ AsRead(r)
    BY <1>3, <2>1, <2>2 DEF ReadSo, AsRead, There
  <2>5. Handle(s, r.op, d, r.new, r.to, r.q, {d}) /\ r.doc = d /\ r.saw = saw /\ r.new = NoDoc
        /\ r.op # "idle" /\ r.op \in UnderLock
    BY <1>3, <2>1 DEF BeginBill, UnderLock
  <2> QED BY <2>3, <2>4, <2>5, Handles
<1>4. ASSUME NEW o \in New(Orders), d \in Quotations, BeginOrder(s, d, o) PROVE PInv'
  <2>1. PICK r : r = [op |-> "order", doc |-> d, new |-> o, to |-> "CONVERTED", q |-> 0, saw |-> saw]
    OBVIOUS
  <2>2. doc_status[d] = "ISSUED" /\ OrdersOf(d) = {} /\ o \in Documents /\ o \in Orders /\ o # NoDoc
        /\ doc_status[o] = "none" /\ \A t \in Requests : request[t].new # o
    BY <1>1, <1>4 DEF BeginOrder, New, Documents
  <2>3. r \in Shapes
    BY <1>2, <2>1, <2>2 DEF Shapes, UnderLock, DocStatuses
  <2>4. ReadSo(r) /\ AsRead(r)
    BY <1>4, <2>1, <2>2 DEF ReadSo, AsRead, There
  <2>5. Handle(s, r.op, d, r.new, r.to, r.q, {d}) /\ r.doc = d /\ r.saw = saw /\ r.new = o
        /\ r.op # "idle" /\ r.op \in UnderLock
    BY <1>4, <2>1 DEF BeginOrder, UnderLock
  <2> QED BY <2>2, <2>3, <2>4, <2>5, Handles
<1>5. ASSUME NEW c \in New(Challans), d \in Orders, BeginDispatch(s, d, c) PROVE PInv'
  <2>1. PICK r : r = [op |-> "dispatch", doc |-> d, new |-> c, to |-> "CONFIRMED", q |-> 0, saw |-> saw]
    OBVIOUS
  <2>2. doc_status[d] = "CONFIRMED" /\ ChallansOf(d) = {} /\ c \in Documents /\ c \in Challans /\ c # NoDoc
        /\ doc_status[c] = "none" /\ \A t \in Requests : request[t].new # c
    BY <1>1, <1>5 DEF BeginDispatch, New, Documents
  <2>3. r \in Shapes
    BY <1>2, <2>1, <2>2 DEF Shapes, UnderLock, DocStatuses, Targets
  <2>4. ReadSo(r) /\ AsRead(r)
    BY <1>5, <2>1, <2>2 DEF ReadSo, AsRead, There
  <2>5. Handle(s, r.op, d, r.new, r.to, r.q, {d}) /\ r.doc = d /\ r.saw = saw /\ r.new = c
        /\ r.op # "idle" /\ r.op \in UnderLock
    BY <1>5, <2>1 DEF BeginDispatch, UnderLock
  <2> QED BY <2>2, <2>3, <2>4, <2>5, Handles
<1>6. ASSUME d \in Challans, BeginRecall(s, d) PROVE PInv'
  <2>1. PICK r : r = [op |-> "recall", doc |-> d, new |-> NoDoc, to |-> "CANCELLED", q |-> 0, saw |-> saw]
    OBVIOUS
  <2>2. doc_status[d] \in {"DRAFT", "ISSUED"} /\ billed[d] = <<>>
    BY <1>6 DEF BeginRecall
  <2>3. r \in Shapes
    BY <1>2, <2>1 DEF Shapes, UnderLock, DocStatuses, Targets
  <2>4. ReadSo(r) /\ AsRead(r)
    BY <1>6, <2>1, <2>2 DEF ReadSo, AsRead, There
  <2>5. Handle(s, r.op, d, r.new, r.to, r.q, {d}) /\ r.doc = d /\ r.saw = saw /\ r.new = NoDoc
        /\ r.op # "idle" /\ r.op \in UnderLock
    BY <1>6, <2>1 DEF BeginRecall, UnderLock
  <2> QED BY <2>3, <2>4, <2>5, Handles
<1>7. ASSUME d \in Templates, BeginGenerate(s, d) PROVE PInv'
  <2>1. PICK r : r = [op |-> "generate", doc |-> d, new |-> NoDoc, to |-> "ACTIVE", q |-> 0, saw |-> saw]
    OBVIOUS
  <2>2. doc_status[d] = "ACTIVE" /\ occurrences[d] < MaxOccurrences
    BY <1>7 DEF BeginGenerate
  <2>3. r \in Shapes
    BY <1>2, <2>1 DEF Shapes, UnderLock, DocStatuses, Targets
  <2>4. ReadSo(r) /\ AsRead(r)
    BY <1>7, <2>1, <2>2 DEF ReadSo, AsRead, There
  <2>5. Handle(s, r.op, d, r.new, r.to, r.q, {d}) /\ r.doc = d /\ r.saw = saw /\ r.new = NoDoc
        /\ r.op # "idle" /\ r.op \in UnderLock
    BY <1>7, <2>1 DEF BeginGenerate, UnderLock
  <2> QED BY <2>3, <2>4, <2>5, Handles
<1> QED BY <1>3, <1>4, <1>5, <1>6, <1>7

-----------------------------------------------------------------------------
(* Requests commit.                                                        *)

\* The documents of different kinds are different ones.
LEMMA Kinds ==
    /\ NoDoc \notin Documents /\ NoDoc \notin Requests
    /\ \A d \in Quotations : d \notin Orders \cup Challans \cup Purchases \cup Templates
    /\ \A d \in Orders : d \notin Quotations \cup Challans \cup Purchases \cup Templates
    /\ \A d \in Challans : d \notin Quotations \cup Orders \cup Purchases \cup Templates
    /\ \A d \in Templates : d \notin Quotations \cup Orders \cup Challans \cup Purchases
    /\ Quotations \subseteq Documents /\ Orders \subseteq Documents /\ Challans \subseteq Documents
    /\ Templates \subseteq Documents
BY PipelineAssumption DEF NoDoc, Documents

\* A document is created by hand.
LEMMA CreateStep ==
    ASSUME PInv, NEW d \in Documents, NEW as \in {"DRAFT", "ACTIVE"}, Create(d, as),
           as = "ACTIVE" => d \in Templates
    PROVE  PInv'
<1>1. /\ doc_status[d] = "none" /\ \A s \in Requests : request[s].new # d
      /\ doc_status' = [doc_status EXCEPT ![d] = as] /\ quantity' = [quantity EXCEPT ![d] = 1]
      /\ UNCHANGED <<source, billed, moved, restored, occurrences, doc_lock, request, quiet>>
  BY DEF Create, New
<1>2. Typed'
  BY <1>1 DEF PInv, Typed, DocStatuses, Targets
<1>3. \A x \in Documents : x # d => doc_status'[x] = doc_status[x] /\ quantity'[x] = quantity[x]
  BY <1>1 DEF PInv, Typed
<1>4. doc_status'[d] = as
  BY <1>1 DEF PInv, Typed
<1>5. \A x \in Documents : There(x) => There(x)'
  BY <1>3, <1>4 DEF There
<1>6. ASSUME NEW t \in Requests PROVE ReadSo(request[t])' /\ (quiet => AsRead(request[t])')
  <2>1. PICK r : r = request[t]
    OBVIOUS
  <2>2. doc_lock[d] # t /\ d # r.new
    BY <1>1, <2>1, Kinds DEF PInv, Apart, ReadSo, There
  <2>3. ReadSo(r) /\ (quiet => AsRead(r))
    BY <2>1 DEF PInv, Quietly
  <2>4. PICK changed : changed = {d}
    OBVIOUS
  <2>5. ReadSo(r)'
    <3>1. \A x \in Documents \ changed : doc_status'[x] = doc_status[x] /\ billed'[x] = billed[x]
      BY <1>1, <1>3, <2>4
    <3>2. \A x \in Templates \ changed : occurrences'[x] = occurrences[x]
      BY <1>1
    <3>3. \A x \in changed : x \in Documents => doc_lock[x] # t /\ x # r.new
      BY <2>2, <2>4
    <3>4. \A x \in Orders \cup Challans : source'[x] = source[x] \/ source'[x] \in changed
      BY <1>1
    <3> QED BY <1>5, <2>1, <3>1, <3>2, <3>3, <3>4, OthersRead
  <2>6. quiet => AsRead(r)'
    <3>1. r.op # "idle" => r.doc # d /\ r.doc \in Documents
      BY <1>1, <2>3 DEF ReadSo, There
    <3> QED BY <1>3, <2>3, <3>1 DEF AsRead
  <2> QED BY <1>1, <2>1, <2>5, <2>6 DEF ReadSo, AsRead
<1>7. Derived' /\ Apart' /\ Alone'
  BY <1>1, <1>5, Kinds DEF PInv, Derived, Apart, Alone, There
<1>8. as # "ISSUED" /\ as # "CANCELLED" /\ as # "CONVERTED"
  OBVIOUS
<1>9. d \in Challans => billed[d] = <<>>
  BY <1>1 DEF PInv, OneOfEach
<1>10. OneOfEach'
  BY <1>1, <1>3, <1>9, Kinds DEF PInv, OneOfEach, OrdersOf, ChallansOf
<1>11. ASSUME quiet, NEW c \in Challans
       PROVE  /\ doc_status'[c] # "CANCELLED" => restored'[c] = 0
              /\ moved'[c] - restored'[c] = IF doc_status'[c] = "ISSUED" THEN quantity'[c] ELSE 0
              /\ billed'[c] # <<>> => billed'[c][1] = moved'[c]
  BY <1>1, <1>3, <1>4, <1>8, <1>11, Kinds DEF PInv, Quietly, GoodsMatchBill
<1>12. ASSUME quiet, NEW q \in Quotations
       PROVE  /\ billed'[q] = <<>> \/ OrdersOf(q)' = {}
              /\ doc_status'[q] = "CONVERTED" <=> (billed'[q] # <<>> \/ OrdersOf(q)' # {})
  <2>1. /\ billed[q] = <<>> \/ OrdersOf(q) = {}
        /\ doc_status[q] = "CONVERTED" <=> (billed[q] # <<>> \/ OrdersOf(q) # {})
    BY <1>12 DEF PInv, GoodsMatchBill
  <2>2. doc_status'[q] = "CONVERTED" <=> doc_status[q] = "CONVERTED"
    BY <1>1, <1>3, <1>4, <1>8, Kinds
  <2>3. OrdersOf(q)' = OrdersOf(q) /\ billed' = billed
    BY <1>1 DEF OrdersOf
  <2> QED BY <2>1, <2>2, <2>3
<1>13. Quietly' /\ GoodsMatchBill'
  BY <1>1, <1>6, <1>11, <1>12 DEF Quietly, GoodsMatchBill
<1> QED BY <1>2, <1>6, <1>7, <1>10, <1>13 DEF PInv

\* The status is overwritten.
LEMMA MoveStep ==
    ASSUME PInv, NEW s \in Requests, Move(s)
    PROVE  PInv'
<1>1. PICK r, d : r = request[s] /\ d = r.doc
  OBVIOUS
<1>2. /\ r.op = "move" /\ doc_lock[d] \in {NoDoc, s} /\ Finish(s)
      /\ doc_status' = [doc_status EXCEPT ![d] = r.to]
      /\ UNCHANGED <<quantity, source, billed, moved, restored, occurrences, quiet>>
  BY <1>1 DEF Move, Free
<1>3. /\ d \in Documents /\ There(d) /\ d \notin Challans /\ r.to \in DocStatuses \ {"none", "unused"}
      /\ quiet => doc_status[d] \in From(d, r.to)
  BY <1>1, <1>2 DEF PInv, ReadSo, Quietly, AsRead, Typed, Shapes
<1>4. /\ doc_status' \in [Documents -> DocStatuses] /\ doc_status'[d] = r.to
      /\ \A x \in Documents : x # d => doc_status'[x] = doc_status[x]
  BY <1>2, <1>3 DEF PInv, Typed
<1>5. \A x \in Documents : There(x) => There(x)'
  BY <1>3, <1>4 DEF There
<1>6. PICK changed : changed = {d}
  OBVIOUS
<1>7. /\ Apart' /\ Alone' /\ (\A t \in Requests : ReadSo(request[t])')
      /\ quiet => \A t \in Requests : AsRead(request[t])'
      /\ request' \in [Requests -> Shapes] /\ doc_lock' \in [Documents -> Requests \cup {NoDoc}]
  BY <1>1, <1>2, <1>3, <1>4, <1>5, <1>6, CommitReads DEF Working
<1>8. Typed' /\ Derived'
  BY <1>2, <1>4, <1>5, <1>7, Kinds DEF PInv, Typed, Derived
<1>9. OneOfEach'
  BY <1>2, <1>3, <1>4, Kinds DEF PInv, OneOfEach, OrdersOf, ChallansOf
<1>10. quiet /\ d \in Quotations => doc_status[d] # "CONVERTED" /\ r.to # "CONVERTED"
  BY <1>3, Kinds DEF From, QuotationFrom
<1>11. Quietly' /\ GoodsMatchBill'
  BY <1>2, <1>3, <1>4, <1>7, <1>10, Kinds DEF PInv, Quietly, GoodsMatchBill, OrdersOf
<1> QED BY <1>7, <1>8, <1>9, <1>11 DEF PInv

\* The lines are overwritten.
LEMMA EditStep ==
    ASSUME PInv, NEW s \in Requests, Edit(s)
    PROVE  PInv'
<1>1. PICK r, d : r = request[s] /\ d = r.doc
  OBVIOUS
<1>2. /\ r.op = "edit" /\ Finish(s) /\ quantity' = [quantity EXCEPT ![d] = r.q]
      /\ UNCHANGED <<doc_status, source, billed, moved, restored, occurrences, quiet>>
  BY <1>1 DEF Edit
<1>3. /\ d \in Documents /\ r.q \in Nat
      /\ quiet /\ d \in Challans => doc_status[d] = "DRAFT"
  BY <1>1, <1>2 DEF PInv, ReadSo, Quietly, AsRead, Typed, Shapes
<1>4. \A x \in Documents : x # d => quantity'[x] = quantity[x]
  BY <1>2 DEF PInv, Typed
<1>5. PICK changed : changed = {}
  OBVIOUS
<1>6. \A x \in Documents : There(x) => There(x)'
  BY <1>2 DEF There
<1>7. /\ Apart' /\ Alone' /\ (\A t \in Requests : ReadSo(request[t])')
      /\ quiet => \A t \in Requests : AsRead(request[t])'
      /\ request' \in [Requests -> Shapes] /\ doc_lock' \in [Documents -> Requests \cup {NoDoc}]
  <2>1. \A x \in Documents \ changed : doc_status'[x] = doc_status[x] /\ billed'[x] = billed[x]
    BY <1>2
  <2>2. \A x \in Templates \ changed : occurrences'[x] = occurrences[x]
    BY <1>2
  <2>3. \A x \in changed : x \in Documents =>
            \/ doc_lock[x] \in {NoDoc, s} /\ There(x)
            \/ x = request[s].new /\ request[s].new # NoDoc
    BY <1>5
  <2>4. \A x \in Orders \cup Challans : source'[x] = source[x] \/ source'[x] \in changed
    BY <1>2
  <2>5. Working(s) /\ Finish(s) /\ quiet' = quiet
    BY <1>1, <1>2 DEF Working
  <2> QED BY <1>6, <2>1, <2>2, <2>3, <2>4, <2>5, CommitReads
<1>8. quantity' \in [Documents -> Nat]
  BY <1>2, <1>3 DEF PInv, Typed
<1>9. Typed' /\ Derived' /\ OneOfEach'
  BY <1>2, <1>7, <1>8 DEF PInv, Typed, Derived, There, OneOfEach, OrdersOf, ChallansOf
<1>10. ASSUME quiet, NEW c \in Challans
       PROVE  /\ doc_status'[c] # "CANCELLED" => restored'[c] = 0
              /\ moved'[c] - restored'[c] = IF doc_status'[c] = "ISSUED" THEN quantity'[c] ELSE 0
              /\ billed'[c] # <<>> => billed'[c][1] = moved'[c]
  <2>1. doc_status[c] = "ISSUED" => quantity'[c] = quantity[c]
    BY <1>3, <1>4, <1>10, Kinds
  <2> QED BY <1>2, <1>10, <2>1 DEF PInv, Quietly, GoodsMatchBill
<1>11. Quietly' /\ GoodsMatchBill'
  BY <1>2, <1>7, <1>10 DEF PInv, Quietly, GoodsMatchBill, OrdersOf
<1> QED BY <1>7, <1>9, <1>11 DEF PInv

\* A challan is issued: its goods leave, once.
LEMMA ShipStep ==
    ASSUME PInv, NEW s \in Requests, Ship(s)
    PROVE  PInv'
<1>1. PICK r, d, o : r = request[s] /\ d = r.doc /\ o = source[d]
  OBVIOUS
<1>2. /\ r.op = "ship" /\ Finish(s) /\ (\A x \in {d} \cup ({o} \ {NoDoc}) : doc_lock[x] \in {NoDoc, s})
      /\ moved' = [moved EXCEPT ![d] = @ + r.saw]
      /\ doc_status' = [x \in Documents |-> IF x = d THEN "ISSUED"
                                            ELSE IF x = o THEN "DELIVERED" ELSE doc_status[x]]
      /\ UNCHANGED <<quantity, source, billed, restored, occurrences, quiet>>
  BY <1>1 DEF Ship, Free
<1>3. /\ d \in Challans /\ d \in Documents /\ There(d) /\ r.saw \in Nat
      /\ quiet => doc_status[d] = "DRAFT" /\ r.saw = quantity[d]
  BY <1>1, <1>2 DEF PInv, ReadSo, Quietly, AsRead, Typed, Shapes
<1>4. o \in Orders \cup {NoDoc} /\ (o # NoDoc => There(o))
  BY <1>1, <1>3 DEF PInv, Derived
<1>5. /\ doc_status' \in [Documents -> DocStatuses] /\ doc_status'[d] = "ISSUED"
      /\ \A x \in Documents : x # d /\ x # o => doc_status'[x] = doc_status[x]
      /\ \A x \in Documents : x # d /\ x = o => doc_status'[x] = "DELIVERED"
  BY <1>2, <1>3 DEF PInv, Typed, DocStatuses, Targets
<1>6. \A x \in Documents : There(x) => There(x)'
  BY <1>5 DEF There
<1>7. PICK changed : changed = {d} \cup ({o} \ {NoDoc})
  OBVIOUS
<1>8. \A x \in changed : doc_lock[x] \in {NoDoc, s} /\ There(x)
  BY <1>2, <1>3, <1>4, <1>7
<1>9. \A x \in Documents \ changed : doc_status'[x] = doc_status[x] /\ billed'[x] = billed[x]
  BY <1>2, <1>5, <1>7, Kinds
<1>10. /\ Apart' /\ Alone' /\ (\A t \in Requests : ReadSo(request[t])')
       /\ quiet => \A t \in Requests : AsRead(request[t])'
       /\ request' \in [Requests -> Shapes] /\ doc_lock' \in [Documents -> Requests \cup {NoDoc}]
  BY <1>1, <1>2, <1>6, <1>8, <1>9, CommitReads DEF Working
<1>11. moved' \in [Challans -> Nat]
  BY <1>2, <1>3 DEF PInv, Typed
<1>12. Typed' /\ Derived'
  BY <1>2, <1>5, <1>6, <1>10, <1>11, Kinds DEF PInv, Typed, Derived
<1>13. \A c \in Challans : c # d => doc_status'[c] = doc_status[c] /\ moved'[c] = moved[c]
  BY <1>2, <1>4, <1>5, Kinds DEF PInv, Typed
<1>14. \A q \in Quotations : doc_status'[q] = doc_status[q]
  BY <1>3, <1>4, <1>5, Kinds
<1>15. OneOfEach'
  BY <1>2, <1>5, <1>13 DEF PInv, OneOfEach, OrdersOf, ChallansOf
<1>16. quiet => moved[d] - restored[d] = 0 /\ billed[d] = <<>> /\ restored[d] = 0
  BY <1>3 DEF PInv, GoodsMatchBill, OneOfEach, Quietly
<1>17. quiet => moved'[d] - restored'[d] = quantity'[d] /\ billed'[d] = <<>>
  <2>1. moved'[d] = moved[d] + r.saw /\ moved[d] \in Nat /\ restored[d] \in Nat /\ quantity[d] \in Nat
    BY <1>2, <1>3 DEF PInv, Typed
  <2> QED BY <1>2, <1>3, <1>16, <2>1
<1>18. Quietly' /\ GoodsMatchBill'
  <2>1. ASSUME quiet, NEW c \in Challans
        PROVE  /\ doc_status'[c] # "CANCELLED" => restored'[c] = 0
               /\ moved'[c] - restored'[c] = IF doc_status'[c] = "ISSUED" THEN quantity'[c] ELSE 0
               /\ billed'[c] # <<>> => billed'[c][1] = moved'[c]
    <3>1. CASE c = d
      BY <1>2, <1>5, <1>16, <1>17, <2>1, <3>1
    <3>2. CASE c # d
      BY <1>2, <1>13, <2>1, <3>2 DEF PInv, Quietly, GoodsMatchBill
    <3> QED BY <3>1, <3>2
  <2>2. ASSUME quiet, NEW q \in Quotations
        PROVE  /\ billed'[q] = <<>> \/ OrdersOf(q)' = {}
               /\ doc_status'[q] = "CONVERTED" <=> (billed'[q] # <<>> \/ OrdersOf(q)' # {})
    BY <1>2, <1>14, <2>2 DEF PInv, GoodsMatchBill, OrdersOf
  <2> QED BY <1>2, <1>10, <2>1, <2>2 DEF Quietly, GoodsMatchBill
<1> QED BY <1>10, <1>12, <1>15, <1>18 DEF PInv

\* An invoice is made of a quotation or of a challan.
LEMMA BillStep ==
    ASSUME PInv, NEW s \in Requests, Bill(s)
    PROVE  PInv'
<1>1. PICK r, d : r = request[s] /\ d = r.doc
  OBVIOUS
<1>2. /\ r.op = "bill" /\ Finish(s) /\ billed[d] = <<>>
      /\ billed' = [billed EXCEPT ![d] = Append(@, quantity[d])]
      /\ doc_status' = [doc_status EXCEPT ![d] = IF d \in Quotations THEN "CONVERTED" ELSE @]
      /\ UNCHANGED <<quantity, source, moved, restored, occurrences, quiet>>
  BY <1>1 DEF Bill
<1>3. /\ d \in Quotations \cup Challans /\ d \in Documents /\ There(d) /\ doc_lock[d] = s
      /\ d \in Challans => doc_status[d] = "ISSUED"
      /\ quiet /\ d \in Quotations => doc_status[d] = "ISSUED"
  BY <1>1, <1>2 DEF PInv, ReadSo, Quietly, AsRead, Apart, UnderLock
<1>4. /\ doc_status' \in [Documents -> DocStatuses]
      /\ doc_status'[d] = IF d \in Quotations THEN "CONVERTED" ELSE doc_status[d]
      /\ \A x \in Documents : x # d => doc_status'[x] = doc_status[x]
  BY <1>2, <1>3 DEF PInv, Typed, DocStatuses
<1>5. /\ billed' \in [Documents -> Seq(Nat)] /\ billed'[d] = <<quantity[d]>>
      /\ \A x \in Documents : x # d => billed'[x] = billed[x]
  <2>1. quantity[d] \in Nat /\ billed \in [Documents -> Seq(Nat)]
    BY <1>3 DEF PInv, Typed
  <2>2. Append(billed[d], quantity[d]) = <<quantity[d]>>
    BY <1>2
  <2> QED BY <1>2, <1>3, <2>1, <2>2
<1>6. \A x \in Documents : There(x) => There(x)'
  BY <1>3, <1>4 DEF There
<1>7. PICK changed : changed = {d}
  OBVIOUS
<1>8. \A x \in Documents \ changed : doc_status'[x] = doc_status[x] /\ billed'[x] = billed[x]
  BY <1>4, <1>5, <1>7
<1>9. \A x \in changed : doc_lock[x] \in {NoDoc, s} /\ There(x)
  BY <1>3, <1>7
<1>10. /\ Apart' /\ Alone' /\ (\A t \in Requests : ReadSo(request[t])')
       /\ quiet => \A t \in Requests : AsRead(request[t])'
       /\ request' \in [Requests -> Shapes] /\ doc_lock' \in [Documents -> Requests \cup {NoDoc}]
  BY <1>1, <1>2, <1>6, <1>8, <1>9, CommitReads DEF Working
<1>11. Typed' /\ Derived'
  BY <1>2, <1>4, <1>5, <1>6, <1>10, Kinds DEF PInv, Typed, Derived
<1>12. Len(billed'[d]) = 1 /\ billed'[d] # <<>> /\ billed'[d][1] = quantity[d]
  BY <1>5
<1>13. OneOfEach'
  BY <1>2, <1>3, <1>4, <1>5, <1>12, Kinds DEF PInv, OneOfEach, OrdersOf, ChallansOf
<1>14. quiet /\ d \in Challans => quantity[d] = moved[d]
  <2>1. d \in Challans => moved[d] \in Nat /\ restored[d] \in Nat /\ quantity[d] \in Nat
    BY <1>3 DEF PInv, Typed
  <2> QED BY <1>3, <2>1 DEF PInv, Quietly, GoodsMatchBill
<1>15. quiet /\ d \in Quotations => OrdersOf(d) = {}
  BY <1>3 DEF PInv, GoodsMatchBill
<1>16. Quietly' /\ GoodsMatchBill'
  <2>1. ASSUME quiet, NEW c \in Challans
        PROVE  /\ doc_status'[c] # "CANCELLED" => restored'[c] = 0
               /\ moved'[c] - restored'[c] = IF doc_status'[c] = "ISSUED" THEN quantity'[c] ELSE 0
               /\ billed'[c] # <<>> => billed'[c][1] = moved'[c]
    <3>1. doc_status'[c] = doc_status[c]
      BY <1>4, Kinds
    <3> QED BY <1>2, <1>5, <1>12, <1>14, <2>1, <3>1, Kinds DEF PInv, Quietly, GoodsMatchBill
  <2>2. ASSUME quiet, NEW q \in Quotations
        PROVE  /\ billed'[q] = <<>> \/ OrdersOf(q)' = {}
               /\ doc_status'[q] = "CONVERTED" <=> (billed'[q] # <<>> \/ OrdersOf(q)' # {})
    BY <1>2, <1>4, <1>5, <1>12, <1>15, <2>2, Kinds DEF PInv, GoodsMatchBill, OrdersOf
  <2> QED BY <1>2, <1>10, <2>1, <2>2 DEF Quietly, GoodsMatchBill
<1> QED BY <1>10, <1>11, <1>13, <1>16 DEF PInv

\* An order is made of a quotation, or a challan of an order.
LEMMA DeriveStep ==
    ASSUME PInv, NEW s \in Requests, Derive(s)
    PROVE  PInv'
<1>1. PICK r, d, n : r = request[s] /\ d = r.doc /\ n = r.new
  OBVIOUS
<1>2. /\ r.op \in {"order", "dispatch"} /\ Finish(s)
      /\ doc_status' = [doc_status EXCEPT ![n] = "DRAFT", ![d] = IF r.op = "order" THEN "CONVERTED" ELSE @]
      /\ quantity' = [quantity EXCEPT ![n] = r.saw] /\ source' = [source EXCEPT ![n] = d]
      /\ UNCHANGED <<billed, moved, restored, occurrences, quiet>>
  BY <1>1 DEF Derive
<1>3. /\ ReadSo(r) /\ doc_lock[d] = s /\ r.saw \in Nat /\ (quiet => AsRead(r))
      /\ r.op \in UnderLock /\ r.op # "idle"
  BY <1>1, <1>2 DEF PInv, Apart, Quietly, Typed, Shapes, UnderLock
<1>4. /\ n \in Documents /\ doc_status[n] = "none" /\ d \in Documents /\ There(d) /\ n # NoDoc
      /\ r.op = "order" => d \in Quotations /\ n \in Orders /\ OrdersOf(d) = {}
      /\ r.op = "dispatch" => d \in Orders /\ n \in Challans /\ ChallansOf(d) = {}
      /\ quiet /\ r.op = "order" => doc_status[d] = "ISSUED"
  BY <1>1, <1>2, <1>3, Kinds DEF ReadSo, AsRead
<1>5. d # n /\ n \in Orders \cup Challans
  BY <1>2, <1>4, Kinds
<1>6. /\ doc_status' \in [Documents -> DocStatuses] /\ doc_status'[n] = "DRAFT"
      /\ doc_status'[d] = IF r.op = "order" THEN "CONVERTED" ELSE doc_status[d]
      /\ \A x \in Documents : x # d /\ x # n => doc_status'[x] = doc_status[x]
  BY <1>2, <1>4, <1>5 DEF PInv, Typed, DocStatuses
<1>7. /\ quantity' \in [Documents -> Nat]
      /\ \A x \in Documents : x # n => quantity'[x] = quantity[x]
  BY <1>2, <1>3, <1>4 DEF PInv, Typed
<1>8. /\ source' \in [Orders \cup Challans -> Documents \cup {NoDoc}] /\ source'[n] = d
      /\ \A x \in Orders \cup Challans : x # n => source'[x] = source[x]
  BY <1>2, <1>4, <1>5 DEF PInv, Typed
<1>9. source[n] = NoDoc
  BY <1>4, <1>5 DEF PInv, Derived, There
<1>10. \A x \in Documents : There(x) => There(x)'
  BY <1>6 DEF There
<1>11. PICK changed : changed = {d, n}
  OBVIOUS
<1>12. /\ Apart' /\ Alone' /\ (\A t \in Requests : ReadSo(request[t])')
       /\ quiet => \A t \in Requests : AsRead(request[t])'
       /\ request' \in [Requests -> Shapes] /\ doc_lock' \in [Documents -> Requests \cup {NoDoc}]
  <2>1. \A x \in Documents \ changed : doc_status'[x] = doc_status[x] /\ billed'[x] = billed[x]
    BY <1>2, <1>6, <1>11
  <2>2. \A x \in Templates \ changed : occurrences'[x] = occurrences[x]
    BY <1>2
  <2>3. \A x \in changed : x \in Documents =>
            \/ doc_lock[x] \in {NoDoc, s} /\ There(x)
            \/ x = request[s].new /\ request[s].new # NoDoc
    BY <1>1, <1>3, <1>4, <1>11
  <2>4. \A x \in Orders \cup Challans : source'[x] = source[x] \/ source'[x] \in changed
    BY <1>8, <1>11
  <2>5. Working(s) /\ Finish(s) /\ quiet' = quiet
    BY <1>1, <1>2, <1>3 DEF Working
  <2> QED BY <1>10, <2>1, <2>2, <2>3, <2>4, <2>5, CommitReads
<1>13. Typed'
  BY <1>2, <1>6, <1>7, <1>8, <1>12 DEF PInv, Typed
<1>14. Derived'
  <2>1. There(n)' /\ There(d)'
    BY <1>4, <1>6, <1>10 DEF There
  <2>2. \A x \in Orders : source'[x] \in Quotations \cup {NoDoc}
    BY <1>2, <1>4, <1>8, Kinds DEF PInv, Derived
  <2>3. \A x \in Challans : source'[x] \in Orders \cup {NoDoc}
    BY <1>2, <1>4, <1>8, Kinds DEF PInv, Derived
  <2>4. ASSUME NEW x \in Orders \cup Challans, source'[x] # NoDoc PROVE There(x)' /\ There(source[x])'
    <3>1. CASE x = n
      BY <1>8, <2>1, <3>1 DEF There
    <3>2. CASE x # n
      <4>1. /\ source'[x] = source[x] /\ There(x) /\ There(source[x])
            /\ x \in Documents /\ source[x] \in Documents
        BY <1>8, <2>4, <3>2, Kinds DEF PInv, Derived, Typed
      <4> QED BY <1>10, <4>1 DEF There
    <3> QED BY <3>1, <3>2
  <2> QED BY <2>2, <2>3, <2>4 DEF Derived
<1>15. ASSUME NEW q \in Quotations
       PROVE  OrdersOf(q)' = IF q = d THEN {n} ELSE OrdersOf(q)
  <2>1. q = d => r.op = "order" /\ n \in Orders /\ OrdersOf(d) = {}
    BY <1>2, <1>4, Kinds
  <2>2. q # NoDoc
    BY Kinds
  <2> QED BY <1>8, <1>9, <2>1, <2>2 DEF OrdersOf
<1>16. ASSUME NEW o \in Orders
       PROVE  ChallansOf(o)' = IF o = d THEN {n} ELSE ChallansOf(o)
  <2>1. o = d => r.op = "dispatch" /\ n \in Challans /\ ChallansOf(d) = {}
    BY <1>2, <1>4, Kinds
  <2>2. o # NoDoc
    BY Kinds
  <2> QED BY <1>8, <1>9, <2>1, <2>2 DEF ChallansOf
<1>17. \A c \in Challans : c # n => doc_status'[c] = doc_status[c]
  BY <1>2, <1>4, <1>6, Kinds
<1>18. n \in Challans => billed[n] = <<>>
  BY <1>4 DEF PInv, OneOfEach
<1>19. OneOfEach'
  <2>4. Cardinality({n}) = 1
    BY FS_Singleton
  <2>1. ASSUME NEW q \in Quotations PROVE Cardinality(OrdersOf(q)') <= 1
    <3>1. Cardinality(OrdersOf(q)) <= 1
      BY DEF PInv, OneOfEach
    <3>2. OrdersOf(q)' = {n} \/ OrdersOf(q)' = OrdersOf(q)
      BY <1>15
    <3> QED BY <2>4, <3>1, <3>2
  <2>2. ASSUME NEW o \in Orders PROVE Cardinality(ChallansOf(o)') <= 1
    <3>1. Cardinality(ChallansOf(o)) <= 1
      BY DEF PInv, OneOfEach
    <3>2. ChallansOf(o)' = {n} \/ ChallansOf(o)' = ChallansOf(o)
      BY <1>16
    <3> QED BY <2>4, <3>1, <3>2
  <2>3. \A c \in Challans : billed'[c] # <<>> => doc_status'[c] = "ISSUED"
    BY <1>2, <1>17, <1>18 DEF PInv, OneOfEach
  <2> QED BY <1>2, <2>1, <2>2, <2>3 DEF PInv, OneOfEach
<1>20. ASSUME quiet, NEW c \in Challans
       PROVE  /\ doc_status'[c] # "CANCELLED" => restored'[c] = 0
              /\ moved'[c] - restored'[c] = IF doc_status'[c] = "ISSUED" THEN quantity'[c] ELSE 0
              /\ billed'[c] # <<>> => billed'[c][1] = moved'[c]
  <2>1. CASE c = n
    BY <1>2, <1>4, <1>6, <1>20, <2>1 DEF PInv, Quietly, GoodsMatchBill
  <2>2. CASE c # n
    BY <1>2, <1>7, <1>17, <1>20, <2>2, Kinds DEF PInv, Quietly, GoodsMatchBill
  <2> QED BY <2>1, <2>2
<1>21. ASSUME quiet, NEW q \in Quotations
       PROVE  /\ billed'[q] = <<>> \/ OrdersOf(q)' = {}
              /\ doc_status'[q] = "CONVERTED" <=> (billed'[q] # <<>> \/ OrdersOf(q)' # {})
  <2>1. /\ billed[q] = <<>> \/ OrdersOf(q) = {}
        /\ doc_status[q] = "CONVERTED" <=> (billed[q] # <<>> \/ OrdersOf(q) # {})
    BY <1>21 DEF PInv, GoodsMatchBill
  <2>2. CASE q = d
    <3>1. r.op = "order" /\ doc_status[d] = "ISSUED"
      BY <1>2, <1>4, <1>21, <2>2, Kinds
    <3> QED BY <1>2, <1>6, <1>15, <2>1, <2>2, <3>1
  <2>3. CASE q # d
    <3>1. doc_status'[q] = doc_status[q]
      BY <1>5, <1>6, <2>3, Kinds
    <3>2. OrdersOf(q)' = OrdersOf(q) /\ billed' = billed
      BY <1>2, <1>15, <2>3
    <3> QED BY <2>1, <3>1, <3>2
  <2> QED BY <2>2, <2>3
<1>22. Quietly' /\ GoodsMatchBill'
  BY <1>2, <1>12, <1>20, <1>21 DEF Quietly, GoodsMatchBill
<1> QED BY <1>12, <1>13, <1>14, <1>19, <1>22 DEF PInv

\* A challan is cancelled: what left comes back.
LEMMA RecallStep ==
    ASSUME PInv, NEW s \in Requests, Recall(s)
    PROVE  PInv'
<1>1. PICK r, d : r = request[s] /\ d = r.doc
  OBVIOUS
<1>2. /\ r.op = "recall" /\ Finish(s)
      /\ restored' = [restored EXCEPT ![d] = @ + moved[d]]
      /\ doc_status' = [doc_status EXCEPT ![d] = "CANCELLED"]
      /\ UNCHANGED <<quantity, source, billed, moved, occurrences, quiet>>
  BY <1>1 DEF Recall, Restored
<1>3. /\ d \in Challans /\ d \in Documents /\ There(d) /\ doc_lock[d] = s /\ billed[d] = <<>>
      /\ quiet => doc_status[d] \in {"DRAFT", "ISSUED"}
  BY <1>1, <1>2 DEF PInv, ReadSo, Quietly, AsRead, Apart, UnderLock
<1>4. /\ doc_status' \in [Documents -> DocStatuses] /\ doc_status'[d] = "CANCELLED"
      /\ \A x \in Documents : x # d => doc_status'[x] = doc_status[x]
  BY <1>2, <1>3 DEF PInv, Typed, DocStatuses, Targets
<1>5. /\ moved[d] \in Nat /\ restored[d] \in Nat /\ restored'[d] = restored[d] + moved[d]
      /\ restored' \in [Challans -> Nat] /\ \A c \in Challans : c # d => restored'[c] = restored[c]
  BY <1>2, <1>3 DEF PInv, Typed
<1>6. \A x \in Documents : There(x) => There(x)'
  BY <1>4 DEF There
<1>7. PICK changed : changed = {d}
  OBVIOUS
<1>8. /\ Apart' /\ Alone' /\ (\A t \in Requests : ReadSo(request[t])')
      /\ quiet => \A t \in Requests : AsRead(request[t])'
      /\ request' \in [Requests -> Shapes] /\ doc_lock' \in [Documents -> Requests \cup {NoDoc}]
  <2>1. \A x \in Documents \ changed : doc_status'[x] = doc_status[x] /\ billed'[x] = billed[x]
    BY <1>2, <1>4, <1>7
  <2>2. \A x \in Templates \ changed : occurrences'[x] = occurrences[x]
    BY <1>2
  <2>3. \A x \in changed : x \in Documents =>
            \/ doc_lock[x] \in {NoDoc, s} /\ There(x)
            \/ x = request[s].new /\ request[s].new # NoDoc
    BY <1>3, <1>7
  <2>4. \A x \in Orders \cup Challans : source'[x] = source[x] \/ source'[x] \in changed
    BY <1>2
  <2>5. Working(s) /\ Finish(s) /\ quiet' = quiet
    BY <1>1, <1>2 DEF Working
  <2> QED BY <1>6, <2>1, <2>2, <2>3, <2>4, <2>5, CommitReads
<1>9. Typed' /\ Derived'
  BY <1>2, <1>4, <1>5, <1>6, <1>8, Kinds DEF PInv, Typed, Derived
<1>10. OneOfEach'
  BY <1>2, <1>3, <1>4 DEF PInv, OneOfEach, OrdersOf, ChallansOf, Documents
<1>11. ASSUME quiet, NEW c \in Challans
       PROVE  /\ doc_status'[c] # "CANCELLED" => restored'[c] = 0
              /\ moved'[c] - restored'[c] = IF doc_status'[c] = "ISSUED" THEN quantity'[c] ELSE 0
              /\ billed'[c] # <<>> => billed'[c][1] = moved'[c]
  <2>1. CASE c = d
    <3>1. restored[d] = 0
      BY <1>3, <1>11 DEF PInv, Quietly
    <3> QED BY <1>2, <1>3, <1>4, <1>5, <2>1, <3>1
  <2>2. CASE c # d
    BY <1>2, <1>4, <1>5, <1>11, <2>2, Kinds DEF PInv, Quietly, GoodsMatchBill
  <2> QED BY <2>1, <2>2
<1>12. ASSUME quiet, NEW q \in Quotations
       PROVE  /\ billed'[q] = <<>> \/ OrdersOf(q)' = {}
              /\ doc_status'[q] = "CONVERTED" <=> (billed'[q] # <<>> \/ OrdersOf(q)' # {})
  <2>1. doc_status'[q] = doc_status[q]
    BY <1>3, <1>4, Kinds
  <2> QED BY <1>2, <1>12, <2>1 DEF PInv, GoodsMatchBill, OrdersOf
<1>13. Quietly' /\ GoodsMatchBill'
  BY <1>2, <1>8, <1>11, <1>12 DEF Quietly, GoodsMatchBill
<1> QED BY <1>8, <1>9, <1>10, <1>13 DEF PInv

\* An invoice is made of a template.
LEMMA GenerateStep ==
    ASSUME PInv, NEW s \in Requests, Generate(s)
    PROVE  PInv'
<1>1. PICK r, d : r = request[s] /\ d = r.doc
  OBVIOUS
<1>2. /\ r.op = "generate" /\ Finish(s)
      /\ billed' = [billed EXCEPT ![d] = Append(@, quantity[d])]
      /\ occurrences' = [occurrences EXCEPT ![d] = r.saw + 1]
      /\ doc_status' = [doc_status EXCEPT ![d] = IF r.saw + 1 >= MaxOccurrences THEN "INACTIVE" ELSE @]
      /\ UNCHANGED <<quantity, source, moved, restored, quiet>>
  BY <1>1 DEF Generate
<1>3. /\ d \in Templates /\ d \in Documents /\ There(d) /\ doc_lock[d] = s
      /\ r.saw = occurrences[d] /\ r.saw < MaxOccurrences /\ r.saw \in Nat
  BY <1>1, <1>2 DEF PInv, ReadSo, Apart, UnderLock, Typed, Shapes
<1>4. /\ doc_status' \in [Documents -> DocStatuses] /\ doc_status'[d] \in {"INACTIVE", doc_status[d]}
      /\ \A x \in Documents : x # d => doc_status'[x] = doc_status[x]
  BY <1>2, <1>3 DEF PInv, Typed, DocStatuses, Targets
<1>5. /\ billed' \in [Documents -> Seq(Nat)] /\ Len(billed'[d]) = Len(billed[d]) + 1
      /\ \A x \in Documents : x # d => billed'[x] = billed[x]
  <2>1. quantity[d] \in Nat /\ billed \in [Documents -> Seq(Nat)] /\ billed[d] \in Seq(Nat)
    BY <1>3 DEF PInv, Typed
  <2>2. PICK old, one : old = billed[d] /\ one = quantity[d]
    OBVIOUS
  <2>3. Append(old, one) \in Seq(Nat) /\ Len(Append(old, one)) = Len(old) + 1
    BY <2>1, <2>2
  <2> QED BY <1>2, <1>3, <2>1, <2>2, <2>3
<1>6. /\ occurrences' \in [Templates -> 0 .. MaxOccurrences] /\ occurrences'[d] = occurrences[d] + 1
      /\ \A x \in Templates : x # d => occurrences'[x] = occurrences[x]
  BY <1>2, <1>3, PipelineAssumption DEF PInv, Typed
<1>7. \A x \in Documents : There(x) => There(x)'
  BY <1>3, <1>4 DEF There
<1>8. PICK changed : changed = {d}
  OBVIOUS
<1>9. /\ Apart' /\ Alone' /\ (\A t \in Requests : ReadSo(request[t])')
      /\ quiet => \A t \in Requests : AsRead(request[t])'
      /\ request' \in [Requests -> Shapes] /\ doc_lock' \in [Documents -> Requests \cup {NoDoc}]
  <2>1. \A x \in Documents \ changed : doc_status'[x] = doc_status[x] /\ billed'[x] = billed[x]
    BY <1>4, <1>5, <1>8
  <2>2. \A x \in Templates \ changed : occurrences'[x] = occurrences[x]
    BY <1>6, <1>8
  <2>3. \A x \in changed : x \in Documents =>
            \/ doc_lock[x] \in {NoDoc, s} /\ There(x)
            \/ x = request[s].new /\ request[s].new # NoDoc
    BY <1>3, <1>8
  <2>4. \A x \in Orders \cup Challans : source'[x] = source[x] \/ source'[x] \in changed
    BY <1>2
  <2>5. Working(s) /\ Finish(s) /\ quiet' = quiet
    BY <1>1, <1>2 DEF Working
  <2> QED BY <1>7, <2>1, <2>2, <2>3, <2>4, <2>5, CommitReads
<1>10. Typed' /\ Derived'
  BY <1>2, <1>4, <1>5, <1>6, <1>7, <1>9, Kinds DEF PInv, Typed, Derived
<1>11. \A x \in Quotations \cup Orders \cup Challans :
           x # d /\ x \in Documents /\ doc_status'[x] = doc_status[x] /\ billed'[x] = billed[x]
  BY <1>3, <1>4, <1>5, Kinds
<1>12. OneOfEach'
  <2>1. \A t \in Templates : Len(billed'[t]) = occurrences'[t]
    BY <1>5, <1>6, Kinds DEF PInv, OneOfEach
  <2> QED BY <1>2, <1>11, <2>1 DEF PInv, OneOfEach, OrdersOf, ChallansOf
<1>13. Quietly' /\ GoodsMatchBill'
  BY <1>2, <1>9, <1>11 DEF PInv, Quietly, GoodsMatchBill, OrdersOf
<1> QED BY <1>9, <1>10, <1>12, <1>13 DEF PInv

\* A request fails: nothing of it stays.
LEMMA FailStep ==
    ASSUME PInv, NEW s \in Requests, Fail(s)
    PROVE  PInv'
<1>1. /\ Working(s) /\ Finish(s)
      /\ UNCHANGED <<doc_status, quantity, source, billed, moved, restored, occurrences, quiet>>
  BY DEF Fail
<1>2. PICK changed : changed = {}
  OBVIOUS
<1>3. /\ Apart' /\ Alone' /\ (\A t \in Requests : ReadSo(request[t])')
      /\ quiet => \A t \in Requests : AsRead(request[t])'
      /\ request' \in [Requests -> Shapes] /\ doc_lock' \in [Documents -> Requests \cup {NoDoc}]
  <2>1. \A x \in Documents \ changed : doc_status'[x] = doc_status[x] /\ billed'[x] = billed[x]
    BY <1>1
  <2>2. \A x \in Templates \ changed : occurrences'[x] = occurrences[x]
    BY <1>1
  <2>3. \A x \in changed : x \in Documents =>
            \/ doc_lock[x] \in {NoDoc, s} /\ There(x)
            \/ x = request[s].new /\ request[s].new # NoDoc
    BY <1>2
  <2>4. \A x \in Orders \cup Challans : source'[x] = source[x] \/ source'[x] \in changed
    BY <1>1
  <2>5. \A x \in Documents : There(x) => There(x)'
    BY <1>1 DEF There
  <2> QED BY <1>1, <2>1, <2>2, <2>3, <2>4, <2>5, CommitReads
<1>4. Typed' /\ Derived' /\ OneOfEach' /\ GoodsMatchBill'
  BY <1>1, <1>3 DEF PInv, Typed, Derived, There, OneOfEach, GoodsMatchBill, OrdersOf, ChallansOf
<1>5. Quietly'
  BY <1>1, <1>3 DEF PInv, Quietly
<1> QED BY <1>3, <1>4, <1>5 DEF PInv

\* Nothing was made yet.
LEMMA PipelineStart ==
    ASSUME PipelineInit PROVE PInv
<1>1. /\ doc_status \in [Documents -> {"none", "unused"}] /\ quantity = [d \in Documents |-> 0]
      /\ source = [d \in Orders \cup Challans |-> NoDoc] /\ billed = [d \in Documents |-> <<>>]
      /\ moved = [c \in Challans |-> 0] /\ restored = [c \in Challans |-> 0]
      /\ occurrences = [t \in Templates |-> 0] /\ doc_lock = [d \in Documents |-> NoDoc]
      /\ request = [s \in Requests |-> NoRequest] /\ quiet \in BOOLEAN
  BY DEF PipelineInit
<1>2. NoRequest \in Shapes /\ NoRequest.op = "idle" /\ NoRequest.doc = NoDoc /\ NoRequest.new = NoDoc
  BY DEF NoRequest, Shapes, DocStatuses
<1>3. Typed
  BY <1>1, <1>2, PipelineAssumption DEF Typed, DocStatuses
<1>4. Derived /\ Apart /\ Alone
  BY <1>1, <1>2, Kinds DEF Derived, Apart, Alone, UnderLock, UnlockedOps
<1>5. PICK none : none = NoRequest
  OBVIOUS
<1>6. ReadSo(none) /\ AsRead(none)
  BY <1>2, <1>5 DEF ReadSo, AsRead
<1>7. \A s \in Requests : request[s] = none
  BY <1>1, <1>5
<1>8. (\A s \in Requests : ReadSo(request[s])) /\ Quietly
  BY <1>1, <1>6, <1>7 DEF Quietly
<1>9. \A q \in Quotations : OrdersOf(q) = {}
  BY <1>1, Kinds DEF OrdersOf
<1>10. \A o \in Orders : ChallansOf(o) = {}
  BY <1>1, Kinds DEF ChallansOf
<1>11. OneOfEach
  <2>1. Cardinality({}) = 0
    BY FS_EmptySet
  <2>2. /\ \A q \in Quotations : Cardinality(OrdersOf(q)) <= 1
        /\ \A o \in Orders : Cardinality(ChallansOf(o)) <= 1
    BY <1>9, <1>10, <2>1
  <2> QED BY <1>1, <2>2, Kinds DEF OneOfEach
<1>12. GoodsMatchBill
  BY <1>1, <1>9, Kinds DEF GoodsMatchBill
<1> QED BY <1>3, <1>4, <1>8, <1>11, <1>12 DEF PInv

\* Every step keeps the invariant.
LEMMA PipelineStep ==
    ASSUME PInv, PipelineNext PROVE PInv'
<1>1. ASSUME NEW d \in ByHand \cap Documents,
             \/ d \in Quotations /\ CreateQuotation(d)
             \/ d \in Orders /\ CreateOrder(d)
             \/ d \in Challans /\ CreateChallan(d)
             \/ d \in Purchases /\ CreatePurchase(d)
             \/ d \in Templates /\ CreateTemplate(d)
      PROVE  PInv'
  <2>1. CASE Create(d, "DRAFT")
    BY <2>1, CreateStep
  <2>2. CASE d \in Templates /\ Create(d, "ACTIVE")
    BY <2>2, CreateStep
  <2> QED BY <1>1, <2>1, <2>2
         DEF CreateQuotation, CreateOrder, CreateChallan, CreatePurchase, CreateTemplate
<1>2. ASSUME NEW s \in Requests, NEW d \in Documents, NEW to \in Targets, BeginMove(s, d, to) PROVE PInv'
  BY <1>2, UnlockedBegin
<1>3. ASSUME NEW s \in Requests, NEW q \in Quantities, NEW d \in Edited \cap Documents,
             \/ d \notin Challans /\ There(d) /\ BeginEdit(s, d, q)
             \/ doc_status[d] = "DRAFT" /\ BeginEdit(s, d, q)
      PROVE  PInv'
  <2>1. There(d) /\ BeginEdit(s, d, q) /\ (d \in Challans => doc_status[d] = "DRAFT")
    BY <1>3 DEF There
  <2> QED BY <2>1, UnlockedBegin
<1>4. ASSUME NEW s \in Requests, NEW q \in Quantities, NEW d \in Edited,
             \/ d \in Quotations /\ EditQuotation(s, d, q)
             \/ d \in Orders /\ EditOrder(s, d, q)
             \/ d \in Challans /\ EditChallan(s, d, q)
             \/ d \in Purchases /\ EditPurchase(s, d, q)
             \/ d \in Templates /\ EditTemplate(s, d, q)
      PROVE  PInv'
  <2>1. d \in Documents
    BY <1>4 DEF Documents
  <2>2. CASE doc_status[d] = "DRAFT" /\ BeginEdit(s, d, q)
    BY <1>3, <2>1, <2>2
  <2>3. CASE d \in Templates /\ doc_status[d] \in Alive /\ BeginEdit(s, d, q)
    <3>1. There(d) /\ d \notin Challans
      BY <2>3, Kinds DEF There, Alive
    <3> QED BY <1>3, <2>1, <2>3, <3>1
  <2> QED BY <1>4, <2>2, <2>3 DEF EditQuotation, EditOrder, EditChallan, EditPurchase, EditTemplate
<1>5. ASSUME NEW s \in Requests, NEW c \in Challans, BeginShip(s, c) \/ BeginRecall(s, c) PROVE PInv'
  BY <1>5, UnlockedBegin, LockedBegin, Kinds
<1>6. ASSUME NEW s \in Requests, NEW d \in Quotations \cup Challans, BeginBill(s, d) PROVE PInv'
  BY <1>6, LockedBegin, Kinds
<1>7. ASSUME NEW s \in Requests, NEW q \in Quotations, NEW o \in New(Orders), BeginOrder(s, q, o)
      PROVE  PInv'
  BY <1>7, LockedBegin, Kinds
<1>8. ASSUME NEW s \in Requests, NEW o \in Orders, NEW c \in New(Challans), BeginDispatch(s, o, c)
      PROVE  PInv'
  BY <1>8, LockedBegin, Kinds
<1>9. ASSUME NEW s \in Requests, NEW t \in Templates, BeginGenerate(s, t) PROVE PInv'
  BY <1>9, LockedBegin, Kinds
<1>10. ASSUME NEW s \in Requests,
              Move(s) \/ Edit(s) \/ Ship(s) \/ Bill(s) \/ Derive(s) \/ Recall(s) \/ Generate(s) \/ Fail(s)
       PROVE  PInv'
  BY <1>10, MoveStep, EditStep, ShipStep, BillStep, DeriveStep, RecallStep, GenerateStep, FailStep
<1>11. Quotations \cup Orders \cup Challans \cup Purchases \cup Templates = Documents
  BY DEF Documents
<1>12. CASE \/ \E d \in ByHand \cap Quotations : CreateQuotation(d)
            \/ \E d \in ByHand \cap Orders : CreateOrder(d)
            \/ \E d \in ByHand \cap Challans : CreateChallan(d)
            \/ \E d \in ByHand \cap Purchases : CreatePurchase(d)
            \/ \E d \in ByHand \cap Templates : CreateTemplate(d)
  <2>1. PICK d \in ByHand \cap Documents :
            \/ d \in Quotations /\ CreateQuotation(d)
            \/ d \in Orders /\ CreateOrder(d)
            \/ d \in Challans /\ CreateChallan(d)
            \/ d \in Purchases /\ CreatePurchase(d)
            \/ d \in Templates /\ CreateTemplate(d)
    BY ONLY <1>11, <1>12
  <2> QED BY <1>1, <2>1
<1>13. CASE \E s \in Requests, q \in Quantities :
              \/ \E d \in Edited \cap Quotations : EditQuotation(s, d, q)
              \/ \E d \in Edited \cap Orders : EditOrder(s, d, q)
              \/ \E d \in Edited \cap Challans : EditChallan(s, d, q)
              \/ \E d \in Edited \cap Purchases : EditPurchase(s, d, q)
              \/ \E d \in Edited \cap Templates : EditTemplate(s, d, q)
  <2>1. PICK s \in Requests, q \in Quantities, d \in Edited :
            \/ d \in Quotations /\ EditQuotation(s, d, q)
            \/ d \in Orders /\ EditOrder(s, d, q)
            \/ d \in Challans /\ EditChallan(s, d, q)
            \/ d \in Purchases /\ EditPurchase(s, d, q)
            \/ d \in Templates /\ EditTemplate(s, d, q)
    BY ONLY <1>13
  <2> QED BY <1>4, <2>1
<1> QED BY <1>2, <1>5, <1>6, <1>7, <1>8, <1>9, <1>10, <1>12, <1>13 DEF PipelineNext

\* A step of the others leaves it alone.
LEMMA PipelineStutter ==
    ASSUME PInv, UNCHANGED pipeline PROVE PInv'
BY DEF PInv, pipeline, Typed, Derived, There, Apart, Alone, Quietly, ReadSo, AsRead, OneOfEach,
       GoodsMatchBill, OrdersOf, ChallansOf

-----------------------------------------------------------------------------
(* Part 2: receipts and returns against their source lines.                *)

\* What WithinSource is claimed for: a request that lists a source line once.
OncePerRequest == \A q \in Payloads : Len(q) = 1

SlipStatuses == {None, "unused", "DRAFT", "CONFIRMED", "POSTED", "CANCELLED"}
Calls == [op : {"idle", "create", "confirm", "cancel", "undo"}, doc : Slips \cup {None},
          lines : Seq(Nat), saw : SlipStatuses]

SlipsTyped ==
    /\ line_status \in [Slips -> SlipStatuses] /\ lines \in [Slips -> Seq(Nat)]
    /\ goods \in [Receipts -> Int]
    /\ line_lock \in [SourceLines \cup Slips -> Callers \cup {None}]
    /\ line_request \in [Callers -> Calls] /\ alone \in BOOLEAN

Started(d) == line_status[d] \notin {None, "unused"}

\* The receipts or returns that count against a source line.
On(l) == {d \in Slips : LineOf(d) = l /\ Counts(d)}

\* What a caller has read is still so, and what it is about to list still fits.
CallSo(s, r) ==
    /\ r.op # "idle" => r.doc \in Slips
    /\ r.op = "create" => /\ line_status[r.doc] = None /\ line_lock[LineOf(r.doc)] = s
                          /\ Len(r.lines) = 1
                          /\ Listed(On(LineOf(r.doc))) + r.lines[1] <= Ordered[LineOf(r.doc)]
    /\ r.op = "confirm" => r.doc \in Receipts /\ line_status[r.doc] = "DRAFT" /\ line_lock[r.doc] = s
    /\ r.op = "cancel" => r.doc \in Receipts /\ Started(r.doc)
    /\ r.op = "undo" => r.doc \notin Receipts /\ Started(r.doc)

\* Where no request overlaps a cancellation, that has read what is so, too.
CancelAlone == alone => \A s \in Callers : line_request[s].op = "cancel" =>
    /\ line_request[s].saw = line_status[line_request[s].doc]
    /\ \A t \in Callers : t # s => line_request[t].op = "idle"

\* WithinSource, of the receipts without the line that they name.
GoodsTaken == alone => \A d \in Receipts :
    goods[d] = IF line_status[d] = "CONFIRMED" THEN SumOf(lines[d]) ELSE 0

FInv ==
    /\ SlipsTyped /\ (\A s \in Callers : CallSo(s, line_request[s])) /\ CancelAlone
    /\ (\A l \in SourceLines : Listed(On(l)) <= Ordered[l]) /\ GoodsTaken

-----------------------------------------------------------------------------
(* What receipts and returns list, in any state of the lines.              *)

ListedIn(ls, R) == SumFunctionOnSet([d \in R |-> SumOf(ls[d])], R)

\* The quantities of a request add up to a number; those of one line are that line.
LEMMA SumOfLines ==
    ASSUME NEW q \in Seq(Nat)
    PROVE  SumOf(q) \in Nat /\ (Len(q) = 1 => SumOf(q) = q[1] /\ 1 \in DOMAIN q)
<1>1. DOMAIN q = 1 .. Len(q) /\ Len(q) \in Nat /\ \A i \in DOMAIN q : q[i] \in Nat
  OBVIOUS
<1>2. IsFiniteSet(DOMAIN q)
  BY <1>1, FS_Interval
<1>3. SumFunctionOnSet(q, DOMAIN q) \in Nat
  BY <1>1, <1>2, SumNatType
<1>4. ASSUME Len(q) = 1 PROVE SumFunctionOnSet(q, DOMAIN q) = q[1] /\ 1 \in DOMAIN q
  <2>1. DOMAIN q = {1} /\ q[1] \in Int
    BY <1>1, <1>4
  <2> QED BY <2>1, SumSingle
<1> QED BY <1>3, <1>4 DEF SumOf

\* Fewer receipts or returns list no more.
LEMMA ListedLess ==
    ASSUME NEW ls \in [Slips -> Seq(Nat)], NEW R \in SUBSET Slips, NEW T \in SUBSET R
    PROVE  ListedIn(ls, T) \in Nat /\ ListedIn(ls, R) \in Nat /\ ListedIn(ls, T) <= ListedIn(ls, R)
<1>1. PICK f, g : f = [d \in R |-> SumOf(ls[d])] /\ g = [d \in T |-> SumOf(ls[d])]
  OBVIOUS
<1>2. \A d \in R : f[d] \in Nat
  <2>1. ASSUME NEW d \in R PROVE SumOf(ls[d]) \in Nat
    <3>1. PICK q : q = ls[d] /\ q \in Seq(Nat)
      OBVIOUS
    <3> QED BY <3>1, SumOfLines
  <2> QED BY <1>1, <2>1
<1>3. IsFiniteSet(R) /\ IsFiniteSet(T)
  BY FulfilmentAssumption, FS_Subset
<1>4. SumFunctionOnSet(g, T) = SumFunctionOnSet(f, T)
  <2>1. \A d \in T : g[d] = f[d]
    BY <1>1
  <2> QED BY <1>3, <2>1, SumEqual
<1>5. SumFunctionOnSet(f, R) = SumFunctionOnSet(f, T) + SumFunctionOnSet(f, R \ T)
  BY <1>2, <1>3, SumUnion
<1>6. SumFunctionOnSet(f, T) \in Nat
  BY <1>2, <1>3, SumNatType
<1>7. SumFunctionOnSet(f, R \ T) \in Nat
  <2>1. IsFiniteSet(R \ T)
    BY <1>3, FS_Subset
  <2> QED BY <1>2, <2>1, SumNatType
<1>8. ListedIn(ls, R) = SumFunctionOnSet(f, R) /\ ListedIn(ls, T) = SumFunctionOnSet(g, T)
  BY <1>1 DEF ListedIn
<1> QED BY <1>4, <1>5, <1>6, <1>7, <1>8

\* One more adds what it lists.
LEMMA ListedMore ==
    ASSUME NEW ls \in [Slips -> Seq(Nat)], NEW R \in SUBSET Slips, NEW d \in Slips \ R
    PROVE  ListedIn(ls, R \cup {d}) = ListedIn(ls, R) + SumOf(ls[d])
<1>1. PICK S : S = R \cup {d}
  OBVIOUS
<1>2. PICK f, g : f = [x \in S |-> SumOf(ls[x])] /\ g = [x \in R |-> SumOf(ls[x])]
  OBVIOUS
<1>3. \A x \in S : f[x] \in Int
  <2>1. ASSUME NEW x \in S PROVE SumOf(ls[x]) \in Int
    <3>1. PICK q : q = ls[x] /\ q \in Seq(Nat)
      BY <1>1
    <3>2. SumOf(q) \in Nat
      BY <3>1, SumOfLines
    <3> QED BY <3>1, <3>2
  <2> QED BY <1>2, <2>1
<1>4. IsFiniteSet(S) /\ IsFiniteSet(R)
  BY <1>1, FulfilmentAssumption, FS_Subset
<1>5. SumFunctionOnSet(f, S) = f[d] + SumFunctionOnSet(f, S \ {d})
  BY <1>1, <1>3, <1>4, SumRest
<1>6. S \ {d} = R
  BY <1>1
<1>7. SumFunctionOnSet(g, R) = SumFunctionOnSet(f, R)
  <2>1. \A x \in R : g[x] = f[x]
    BY <1>1, <1>2
  <2> QED BY <1>4, <2>1, SumEqual
<1>8. f[d] = SumOf(ls[d]) /\ SumFunctionOnSet(f, R) \in Int
  <2>1. \A x \in R : f[x] \in Int
    BY <1>1, <1>3
  <2> QED BY <1>1, <1>2, <1>4, <2>1, SumType
<1>9. ListedIn(ls, S) = SumFunctionOnSet(f, S) /\ ListedIn(ls, R) = SumFunctionOnSet(g, R)
  BY <1>2 DEF ListedIn
<1>10. ListedIn(ls, S) = ListedIn(ls, R) + SumOf(ls[d])
  <2>1. PICK one, rest : one = SumOf(ls[d]) /\ rest = SumFunctionOnSet(f, R)
    OBVIOUS
  <2>2. one \in Int /\ rest \in Int
    BY <1>1, <1>3, <1>8, <2>1
  <2>3. ListedIn(ls, S) = one + rest /\ ListedIn(ls, R) = rest
    BY <1>5, <1>6, <1>7, <1>8, <1>9, <2>1
  <2>4. ListedIn(ls, S) = ListedIn(ls, R) + one
    BY <2>2, <2>3
  <2> QED BY <2>1, <2>4
<1> QED BY <1>1, <1>10

\* What they list is what their lines say.
LEMMA ListedSame ==
    ASSUME NEW ls, NEW ks, NEW R, \A d \in R : ls[d] = ks[d]
    PROVE  ListedIn(ls, R) = ListedIn(ks, R)
BY DEF ListedIn

\* A receipt or return names one line.
LEMMA Lines ==
    /\ \A d \in Slips : LineOf(d) \in SourceLines /\ d \in NamedBy[LineOf(d)]
    /\ \A l \in SourceLines : \A d \in NamedBy[l] : d \in Slips /\ LineOf(d) = l
    /\ \A d \in Receipts : d \notin SalesReturns \cup PurchaseReturns
    /\ Receipts \subseteq Slips /\ SalesReturns \subseteq Slips /\ PurchaseReturns \subseteq Slips
    /\ None \notin Callers /\ None \notin Slips /\ \A l \in SourceLines : l \notin Slips
<1>1. \A d \in Slips : \E l \in SourceLines : d \in NamedBy[l]
  BY DEF Slips, Naming
<1>2. \A d \in Slips : LineOf(d) \in SourceLines /\ d \in NamedBy[LineOf(d)]
  BY <1>1 DEF LineOf
<1>3. \A l \in SourceLines : \A d \in NamedBy[l] : d \in Slips
  BY DEF Slips, Naming
<1>4. \A l \in SourceLines : \A d \in NamedBy[l] : LineOf(d) = l
  BY <1>2, <1>3, FulfilmentAssumption
<1>5. Receipts \subseteq Slips /\ SalesReturns \subseteq Slips /\ PurchaseReturns \subseteq Slips
  BY DEF Receipts, SalesReturns, PurchaseReturns, Slips, Naming, SourceLines
<1>6. ASSUME NEW d \in Receipts PROVE d \notin SalesReturns \cup PurchaseReturns
  <2>1. \E l \in OrderLines : d \in NamedBy[l]
    BY DEF Receipts, Naming
  <2>2. LineOf(d) \in OrderLines
    BY <1>4, <2>1 DEF SourceLines
  <2>3. d \in SalesReturns \cup PurchaseReturns => LineOf(d) \in InvoiceLines \cup BillLines
    BY <1>4 DEF SalesReturns, PurchaseReturns, Naming, SourceLines
  <2> QED BY <2>2, <2>3, FulfilmentAssumption
<1> QED BY <1>2, <1>3, <1>4, <1>5, <1>6, FulfilmentAssumption

-----------------------------------------------------------------------------
(* Calls are taken.                                                        *)

\* A call that reads what is so, and locks the rows that its handler locks.
LEMMA Takes ==
    ASSUME FInv, NEW s \in Callers, NEW r \in Calls, NEW rows \in SUBSET (SourceLines \cup Slips),
           Take(s, r.op, r.doc, r.lines, rows), r.saw = line_status[r.doc], r.op # "idle",
           r.op = "create" => LineOf(r.doc) \in rows, r.op = "confirm" => r.doc \in rows,
           r.op \notin {"create", "confirm"} => CallSo(s, r),
           r.op = "create" => /\ r.doc \in Slips /\ line_status[r.doc] = None /\ Len(r.lines) = 1
                              /\ Listed(On(LineOf(r.doc))) + r.lines[1] <= Ordered[LineOf(r.doc)],
           r.op = "confirm" => r.doc \in Receipts /\ line_status[r.doc] = "DRAFT"
    PROVE  FInv'
<1>1. /\ line_request[s].op = "idle" /\ \A x \in rows : line_lock[x] = None
      /\ alone => \A t \in Callers : /\ line_request[t].op # "cancel"
                                     /\ r.op = "cancel" => line_request[t].op = "idle"
      /\ line_lock' = [x \in SourceLines \cup Slips |-> IF x \in rows THEN s ELSE line_lock[x]]
      /\ UNCHANGED <<line_status, lines, goods, alone>>
  BY DEF Take
<1>2. PICK x : x = [op |-> r.op, doc |-> r.doc, lines |-> r.lines, saw |-> line_status[r.doc]]
  OBVIOUS
<1>3. x = r
  BY <1>2 DEF Calls
<1>4. line_request' = [line_request EXCEPT ![s] = r]
  BY <1>2, <1>3 DEF Take
<1>5. /\ line_request'[s] = r /\ \A t \in Callers \ {s} : line_request'[t] = line_request[t]
      /\ line_request' \in [Callers -> Calls]
      /\ line_lock' \in [SourceLines \cup Slips -> Callers \cup {None}]
      /\ \A y \in SourceLines \cup Slips : line_lock'[y] = IF y \in rows THEN s ELSE line_lock[y]
  BY <1>1, <1>4 DEF FInv, SlipsTyped
<1>6. SlipsTyped'
  BY <1>1, <1>5 DEF FInv, SlipsTyped
<1>7. \A l : On(l)' = On(l) /\ Listed(On(l))' = Listed(On(l))
  BY <1>1 DEF On, Counts, Listed
<1>8. (\A l \in SourceLines : Listed(On(l)) <= Ordered[l])' /\ GoodsTaken'
  BY <1>1, <1>7 DEF FInv, GoodsTaken
<1>9. ASSUME NEW t \in Callers PROVE CallSo(t, line_request[t])'
  <2>1. PICK y : y = line_request'[t]
    OBVIOUS
  <2>2. CASE t = s
    <3>1. y = r
      BY <1>5, <2>1, <2>2
    <3>2. r.op = "create" => line_lock'[LineOf(r.doc)] = s
      BY <1>5
    <3>3. r.op = "confirm" => line_lock'[r.doc] = s
      BY <1>5
    <3>4. r.op = "confirm" => r.doc \in Slips
      BY Lines
    <3>5. CallSo(t, y)'
      BY <1>1, <1>7, <2>2, <3>1, <3>2, <3>3, <3>4 DEF CallSo, Started
    <3> QED BY <2>1, <3>5 DEF CallSo
  <2>3. CASE t # s
    <3>1. y = line_request[t] /\ CallSo(t, y)
      BY <1>5, <2>1, <2>3 DEF FInv
    <3>2. y.op = "create" => line_lock'[LineOf(y.doc)] = t
      BY <1>1, <1>5, <3>1, Lines DEF CallSo
    <3>3. y.op = "confirm" => line_lock'[y.doc] = t
      BY <1>1, <1>5, <3>1, Lines DEF CallSo
    <3>4. CallSo(t, y)'
      BY <1>1, <1>7, <3>1, <3>2, <3>3 DEF CallSo, Started
    <3> QED BY <2>1, <3>4 DEF CallSo
  <2> QED BY <2>2, <2>3
<1>10. CancelAlone'
  <2>1. ASSUME alone, NEW t \in Callers, line_request'[t].op = "cancel"
        PROVE  /\ line_request'[t].saw = line_status'[line_request'[t].doc]
               /\ \A u \in Callers : u # t => line_request'[u].op = "idle"
    <3>1. t = s
      BY <1>1, <1>5, <2>1
    <3> QED BY <1>1, <1>5, <2>1, <3>1
  <2> QED BY <1>1, <2>1 DEF CancelAlone
<1> QED BY <1>6, <1>8, <1>9, <1>10 DEF FInv

\* The handlers that begin.
LEMMA TakeSteps ==
    ASSUME FInv, OncePerRequest, NEW s \in Callers, NEW d \in Slips
    PROVE  /\ \A q \in Payloads : BeginCreate(s, d, q) => FInv'
           /\ d \in Receipts /\ BeginConfirm(s, d) => FInv'
           /\ d \in Receipts /\ BeginCancel(s, d) => FInv'
           /\ d \notin Receipts /\ BeginUndo(s, d) => FInv'
<1>1. line_status[d] \in SlipStatuses /\ LineOf(d) \in SourceLines /\ <<>> \in Seq(Nat)
  BY Lines DEF FInv, SlipsTyped
<1>2. ASSUME NEW q \in Payloads, BeginCreate(s, d, q) PROVE FInv'
  <2>1. q \in Seq(Nat) /\ Len(q) = 1
    BY FulfilmentAssumption DEF OncePerRequest
  <2>2. PICK r : r = [op |-> "create", doc |-> d, lines |-> q, saw |-> line_status[d]]
    OBVIOUS
  <2>3. r \in Calls /\ r.op = "create" /\ r.doc = d /\ r.lines = q /\ r.saw = line_status[d]
    BY <1>1, <2>1, <2>2 DEF Calls
  <2>4. line_status[d] = None /\ Fits(d, q) /\ Take(s, "create", d, q, {LineOf(d)})
    BY <1>2 DEF BeginCreate
  <2>5. Already(LineOf(d), d) = Listed(On(LineOf(d)))
    <3>1. ~Counts(d)
      BY <2>4 DEF Counts, None
    <3>2. {x \in Slips \ {d} : LineOf(x) = LineOf(d) /\ Counts(x)} = On(LineOf(d))
      BY <3>1 DEF On
    <3> QED BY <3>2 DEF Already
  <2>6. q[1] \in Nat /\ 1 \in DOMAIN q
    BY <2>1, SumOfLines
  <2>7. q[1] <= Ordered[LineOf(d)] - Listed(On(LineOf(d)))
    BY <2>4, <2>5, <2>6 DEF Fits
  <2>8. Listed(On(LineOf(d))) \in Nat
    <3>1. On(LineOf(d)) \in SUBSET Slips /\ lines \in [Slips -> Seq(Nat)]
      BY DEF On, FInv, SlipsTyped
    <3> QED BY <3>1, ListedLess DEF Listed, ListedIn
  <2>9. Listed(On(LineOf(d))) + q[1] <= Ordered[LineOf(d)]
    <3>1. Ordered[LineOf(d)] \in Nat
      BY <1>1, FulfilmentAssumption
    <3> QED BY <2>6, <2>7, <2>8, <3>1
  <2>10. PICK rows : rows = {LineOf(d)}
    OBVIOUS
  <2>11. Take(s, r.op, r.doc, r.lines, rows)
    BY <2>3, <2>4, <2>10
  <2>12. Listed(On(LineOf(r.doc))) + r.lines[1] <= Ordered[LineOf(r.doc)]
    BY <2>3, <2>9
  <2>13. rows \in SUBSET (SourceLines \cup Slips) /\ LineOf(r.doc) \in rows
    BY <1>1, <2>3, <2>10
  <2> QED BY <2>1, <2>3, <2>4, <2>11, <2>12, <2>13, Takes
<1>3. ASSUME d \in Receipts, BeginConfirm(s, d) PROVE FInv'
  <2>1. PICK r : r = [op |-> "confirm", doc |-> d, lines |-> <<>>, saw |-> line_status[d]]
    OBVIOUS
  <2>2. r \in Calls /\ r.op = "confirm" /\ r.doc = d /\ r.lines = <<>> /\ r.saw = line_status[d]
    BY <1>1, <2>1 DEF Calls
  <2>3. line_status[d] = "DRAFT" /\ Take(s, "confirm", d, <<>>, {d, LineOf(d)})
    BY <1>3 DEF BeginConfirm
  <2>4. PICK rows : rows = {d, LineOf(d)}
    OBVIOUS
  <2>5. Take(s, r.op, r.doc, r.lines, rows) /\ rows \in SUBSET (SourceLines \cup Slips) /\ r.doc \in rows
    BY <1>1, <2>2, <2>3, <2>4
  <2> QED BY <1>3, <2>2, <2>3, <2>5, Takes
<1>4. ASSUME d \in Receipts, BeginCancel(s, d) PROVE FInv'
  <2>1. PICK r : r = [op |-> "cancel", doc |-> d, lines |-> <<>>, saw |-> line_status[d]]
    OBVIOUS
  <2>2. r \in Calls /\ r.op = "cancel" /\ r.doc = d /\ r.lines = <<>> /\ r.saw = line_status[d]
    BY <1>1, <2>1 DEF Calls
  <2>3. line_status[d] \in {"DRAFT", "CONFIRMED"} /\ Take(s, "cancel", d, <<>>, {})
    BY <1>4 DEF BeginCancel
  <2>4. CallSo(s, r)
    BY <1>4, <2>2, <2>3 DEF CallSo, Started, None
  <2>5. Take(s, r.op, r.doc, r.lines, {}) /\ {} \in SUBSET (SourceLines \cup Slips)
    BY <2>2, <2>3
  <2> QED BY <2>2, <2>4, <2>5, Takes
<1>5. ASSUME d \notin Receipts, BeginUndo(s, d) PROVE FInv'
  <2>1. PICK r : r = [op |-> "undo", doc |-> d, lines |-> <<>>, saw |-> line_status[d]]
    OBVIOUS
  <2>2. r \in Calls /\ r.op = "undo" /\ r.doc = d /\ r.lines = <<>> /\ r.saw = line_status[d]
    BY <1>1, <2>1 DEF Calls
  <2>3. line_status[d] = "POSTED" /\ Take(s, "undo", d, <<>>, {d})
    BY <1>5 DEF BeginUndo
  <2>4. CallSo(s, r)
    BY <1>5, <2>2, <2>3 DEF CallSo, Started, None
  <2>5. PICK rows : rows = {d}
    OBVIOUS
  <2>6. Take(s, r.op, r.doc, r.lines, rows) /\ rows \in SUBSET (SourceLines \cup Slips)
    BY <2>2, <2>3, <2>5
  <2> QED BY <2>2, <2>4, <2>6, Takes
<1> QED BY <1>2, <1>3, <1>4, <1>5

-----------------------------------------------------------------------------
(* Calls end.                                                              *)

\* The end of a call gives back its locks and no others.
LEMMA LetsGo ==
    ASSUME FInv, NEW s \in Callers, LetGo(s)
    PROVE  /\ line_request' \in [Callers -> Calls]
           /\ line_lock' \in [SourceLines \cup Slips -> Callers \cup {None}]
           /\ line_request'[s] = NoCall /\ \A t \in Callers \ {s} : line_request'[t] = line_request[t]
           /\ \A x \in SourceLines \cup Slips, t \in Callers \ {s} : line_lock[x] = t => line_lock'[x] = t
<1>1. NoCall \in Calls
  BY DEF NoCall, Calls, SlipStatuses
<1> QED BY <1>1, Lines DEF FInv, SlipsTyped, LetGo

\* Callers keep what they have read while another one ends, if the receipts and returns
\* that it changes are none that they create or confirm, and if no line that they lock
\* is listed more than it was.
LEMMA CallsKept ==
    ASSUME FInv, NEW s \in Callers, LetGo(s), line_request[s].op # "idle", alone' = alone, NEW changed,
           \A d \in Slips \ changed : line_status'[d] = line_status[d],
           \A d \in Slips : Started(d) => Started(d)',
           \A d \in changed, t \in Callers \ {s} :
               line_request[t].op \in {"create", "confirm"} => line_request[t].doc # d,
           \A l \in SourceLines, t \in Callers \ {s} :
               line_lock[l] = t => /\ Listed(On(l))' <= Listed(On(l))
                                   /\ Listed(On(l))' \in Nat /\ Listed(On(l)) \in Nat
    PROVE  /\ \A t \in Callers : CallSo(t, line_request[t])'
           /\ CancelAlone'
           /\ line_request' \in [Callers -> Calls]
           /\ line_lock' \in [SourceLines \cup Slips -> Callers \cup {None}]
<1>1. /\ line_request' \in [Callers -> Calls]
      /\ line_lock' \in [SourceLines \cup Slips -> Callers \cup {None}]
      /\ line_request'[s] = NoCall /\ \A t \in Callers \ {s} : line_request'[t] = line_request[t]
      /\ \A x \in SourceLines \cup Slips, t \in Callers \ {s} : line_lock[x] = t => line_lock'[x] = t
  BY LetsGo
<1>2. NoCall.op = "idle"
  BY DEF NoCall
<1>3. CancelAlone'
  <2>1. ASSUME alone, NEW t \in Callers, line_request'[t].op = "cancel" PROVE FALSE
    <3>1. t # s /\ line_request[t].op = "cancel"
      BY <1>1, <1>2, <2>1
    <3>2. line_request[s].op = "idle"
      BY <2>1, <3>1 DEF FInv, CancelAlone
    <3> QED BY <3>2
  <2> QED BY <2>1 DEF CancelAlone
<1>4. ASSUME NEW t \in Callers PROVE CallSo(t, line_request[t])'
  <2>1. PICK y : y = line_request'[t]
    OBVIOUS
  <2>2. CASE t = s
    <3>1. y.op = "idle"
      BY <1>1, <1>2, <2>1, <2>2
    <3>2. CallSo(t, y)'
      BY <3>1 DEF CallSo
    <3> QED BY <2>1, <3>2 DEF CallSo
  <2>3. CASE t # s
    <3>1. y = line_request[t] /\ CallSo(t, y) /\ y \in Calls
      BY <1>1, <2>1, <2>3 DEF FInv, SlipsTyped
    <3>2. y.op \in {"create", "confirm"} => y.doc \in Slips /\ line_status'[y.doc] = line_status[y.doc]
      BY <2>3, <3>1 DEF CallSo
    <3>3. y.op = "create" => LineOf(y.doc) \in SourceLines /\ line_lock[LineOf(y.doc)] = t
                             /\ line_lock'[LineOf(y.doc)] = t
      BY <1>1, <2>3, <3>1, Lines DEF CallSo
    <3>4. y.op = "create" => Listed(On(LineOf(y.doc)))' + y.lines[1] <= Ordered[LineOf(y.doc)]
      <4>1. SUFFICES ASSUME y.op = "create"
                     PROVE  Listed(On(LineOf(y.doc)))' + y.lines[1] <= Ordered[LineOf(y.doc)]
        OBVIOUS
      <4>2. PICK l : l = LineOf(y.doc)
        OBVIOUS
      <4>3. Listed(On(l)) + y.lines[1] <= Ordered[l] /\ Len(y.lines) = 1 /\ y.lines \in Seq(Nat)
        BY <3>1, <4>1, <4>2 DEF CallSo, Calls
      <4>4. Listed(On(l))' <= Listed(On(l)) /\ Listed(On(l))' \in Nat /\ Listed(On(l)) \in Nat
        BY <2>3, <3>3, <4>1, <4>2
      <4>5. y.lines[1] \in Nat /\ Ordered[l] \in Nat
        BY <3>3, <4>1, <4>2, <4>3, FulfilmentAssumption
      <4>6. PICK a, b, c : a = Listed(On(l))' /\ b = Listed(On(l)) /\ c = y.lines[1]
        OBVIOUS
      <4>7. a + c <= Ordered[l]
        BY <4>3, <4>4, <4>5, <4>6
      <4> QED BY <4>2, <4>6, <4>7 DEF Listed, On, Counts
    <3>5. y.op = "confirm" => line_lock'[y.doc] = t
      BY <1>1, <2>3, <3>1, Lines DEF CallSo
    <3>6. y.op # "idle" /\ Started(y.doc) => Started(y.doc)'
      BY <3>1 DEF CallSo
    <3>7. CallSo(t, y)'
      BY <3>1, <3>2, <3>3, <3>4, <3>5, <3>6 DEF CallSo
    <3> QED BY <2>1, <3>7 DEF CallSo
  <2> QED BY <2>2, <2>3
<1> QED BY <1>1, <1>3, <1>4

\* A line is listed no more when fewer receipts or returns count and their lines stay.
LEMMA NoMore ==
    ASSUME FInv, NEW l \in SourceLines, lines' = lines, On(l)' \subseteq On(l)
    PROVE  Listed(On(l))' <= Listed(On(l)) /\ Listed(On(l))' \in Nat /\ Listed(On(l)) \in Nat
<1>1. PICK R, T : R = On(l) /\ T = On(l)'
  OBVIOUS
<1>2. R \in SUBSET Slips /\ T \in SUBSET R /\ lines \in [Slips -> Seq(Nat)]
  BY <1>1 DEF On, FInv, SlipsTyped
<1>3. ListedIn(lines, T) \in Nat /\ ListedIn(lines, R) \in Nat /\ ListedIn(lines, T) <= ListedIn(lines, R)
  BY <1>2, ListedLess
<1>4. Listed(On(l)) = ListedIn(lines, R)
  BY <1>1 DEF Listed, ListedIn
<1>5. Listed(On(l))' = ListedIn(lines, T)
  BY <1>1 DEF Listed, ListedIn
<1> QED BY <1>3, <1>4, <1>5

\* A receipt or return is created: what it lists still fits.
LEMMA CommitCreateStep ==
    ASSUME FInv, NEW s \in Callers, CommitCreate(s) PROVE FInv'
<1>1. PICK r, d, l : r = line_request[s] /\ d = r.doc /\ l = LineOf(d)
  OBVIOUS
<1>2. /\ r.op = "create" /\ LetGo(s)
      /\ line_status' = [line_status EXCEPT ![d] = IF d \in Receipts THEN "DRAFT" ELSE "POSTED"]
      /\ lines' = [lines EXCEPT ![d] = r.lines] /\ UNCHANGED <<goods, alone>>
  BY <1>1 DEF CommitCreate
<1>3. /\ d \in Slips /\ line_status[d] = None /\ line_lock[l] = s /\ l \in SourceLines
      /\ Len(r.lines) = 1 /\ r.lines \in Seq(Nat) /\ Listed(On(l)) + r.lines[1] <= Ordered[l]
  BY <1>1, <1>2, Lines DEF FInv, CallSo, SlipsTyped, Calls
<1>4. /\ line_status' \in [Slips -> SlipStatuses]
      /\ line_status'[d] = IF d \in Receipts THEN "DRAFT" ELSE "POSTED"
      /\ \A x \in Slips : x # d => line_status'[x] = line_status[x]
  BY <1>2, <1>3 DEF FInv, SlipsTyped, SlipStatuses
<1>5. lines \in [Slips -> Seq(Nat)] /\ lines' \in [Slips -> Seq(Nat)] /\ lines'[d] = r.lines
      /\ \A x \in Slips : x # d => lines'[x] = lines[x]
  BY <1>2, <1>3 DEF FInv, SlipsTyped
<1>6. d \notin On(l) /\ On(l)' = On(l) \cup {d}
  BY <1>1, <1>3, <1>4 DEF On, Counts, None
<1>7. ASSUME NEW k \in SourceLines, k # l
      PROVE  Listed(On(k))' <= Listed(On(k)) /\ Listed(On(k))' \in Nat /\ Listed(On(k)) \in Nat
             /\ Listed(On(k))' = Listed(On(k))
  <2>1. PICK R : R = On(k)
    OBVIOUS
  <2>2. On(k)' = R /\ d \notin R /\ R \in SUBSET Slips
    BY <1>1, <1>4, <1>7, <2>1 DEF On, Counts
  <2>3. ListedIn(lines', R) = ListedIn(lines, R)
    BY <1>5, <2>2, ListedSame
  <2>4. Listed(On(k)) = ListedIn(lines, R) /\ Listed(On(k))' = ListedIn(lines', R)
    BY <2>1, <2>2 DEF Listed, ListedIn
  <2>5. ListedIn(lines, R) \in Nat
    BY <1>5, <2>2, ListedLess
  <2> QED BY <2>3, <2>4, <2>5
<1>8. Listed(On(l))' <= Ordered[l]
  <2>1. PICK R : R = On(l)
    OBVIOUS
  <2>2. R \in SUBSET Slips /\ d \in Slips \ R /\ On(l)' = R \cup {d}
    BY <1>3, <1>6, <2>1 DEF On
  <2>3. ListedIn(lines', R) = ListedIn(lines, R)
    BY <1>5, <2>2, ListedSame
  <2>4. ListedIn(lines', R \cup {d}) = ListedIn(lines', R) + SumOf(lines'[d])
    BY <1>5, <2>2, ListedMore
  <2>5. SumOf(r.lines) = r.lines[1]
    BY <1>3, SumOfLines
  <2>6. Listed(On(l)) = ListedIn(lines, R) /\ Listed(On(l))' = ListedIn(lines', R \cup {d})
    BY <2>1, <2>2 DEF Listed, ListedIn
  <2> QED BY <1>3, <1>5, <2>3, <2>4, <2>5, <2>6
<1>9. PICK changed : changed = {d}
  OBVIOUS
<1>10. \A x \in changed, t \in Callers \ {s} :
           line_request[t].op \in {"create", "confirm"} => line_request[t].doc # x
  <2>1. ASSUME NEW t \in Callers \ {s},
               line_request[t].op \in {"create", "confirm"}, line_request[t].doc = d
        PROVE  FALSE
    <3>1. CallSo(t, line_request[t])
      BY DEF FInv
    <3>2. line_request[t].op = "create" => line_lock[l] = t
      BY <1>1, <2>1, <3>1 DEF CallSo
    <3>3. line_request[t].op = "confirm" => line_status[d] = "DRAFT"
      BY <2>1, <3>1 DEF CallSo
    <3> QED BY <1>3, <2>1, <3>2, <3>3 DEF None
  <2> QED BY <1>9, <2>1
<1>11. \A x \in Slips : Started(x) => Started(x)'
  BY <1>3, <1>4 DEF Started, None
<1>12. \A k \in SourceLines, t \in Callers \ {s} :
           line_lock[k] = t => /\ Listed(On(k))' <= Listed(On(k))
                               /\ Listed(On(k))' \in Nat /\ Listed(On(k)) \in Nat
  BY <1>3, <1>7
<1>13. /\ \A t \in Callers : CallSo(t, line_request[t])'
       /\ CancelAlone'
       /\ line_request' \in [Callers -> Calls]
       /\ line_lock' \in [SourceLines \cup Slips -> Callers \cup {None}]
  <2>1. \A x \in Slips \ changed : line_status'[x] = line_status[x]
    BY <1>4, <1>9
  <2>2. line_request[s].op # "idle" /\ alone' = alone /\ LetGo(s)
    BY <1>1, <1>2
  <2> QED BY <1>10, <1>11, <1>12, <2>1, <2>2, CallsKept
<1>14. SlipsTyped'
  BY <1>2, <1>4, <1>5, <1>13 DEF FInv, SlipsTyped
<1>15. (\A k \in SourceLines : Listed(On(k)) <= Ordered[k])'
  <2>1. ASSUME NEW k \in SourceLines PROVE Listed(On(k))' <= Ordered[k]
    BY <1>7, <1>8 DEF FInv
  <2> QED BY <2>1
<1>16. GoodsTaken'
  <2>1. ASSUME alone, NEW x \in Receipts
        PROVE  goods[x] = IF line_status'[x] = "CONFIRMED" THEN SumOf(lines'[x]) ELSE 0
    <3>1. goods[x] = IF line_status[x] = "CONFIRMED" THEN SumOf(lines[x]) ELSE 0
      BY <2>1 DEF FInv, GoodsTaken
    <3>2. CASE x = d
      BY <1>3, <1>4, <3>1, <3>2 DEF None
    <3>3. CASE x # d
      <4>1. x \in Slips
        BY Lines
      <4> QED BY <1>4, <1>5, <3>1, <3>3, <4>1
    <3> QED BY <3>2, <3>3
  <2> QED BY <1>2, <2>1 DEF GoodsTaken
<1> QED BY <1>13, <1>14, <1>15, <1>16 DEF FInv

\* A receipt is confirmed: it is a DRAFT still, and counted before.
LEMMA CommitConfirmStep ==
    ASSUME FInv, NEW s \in Callers, CommitConfirm(s) PROVE FInv'
<1>1. PICK r, d : r = line_request[s] /\ d = r.doc
  OBVIOUS
<1>2. /\ r.op = "confirm" /\ LetGo(s) /\ line_status' = [line_status EXCEPT ![d] = "CONFIRMED"]
      /\ goods' = [goods EXCEPT ![d] = @ + SumOf(lines[d])] /\ UNCHANGED <<lines, alone>>
  BY <1>1 DEF CommitConfirm
<1>3. d \in Slips /\ d \in Receipts /\ line_status[d] = "DRAFT" /\ line_lock[d] = s
  BY <1>1, <1>2, Lines DEF FInv, CallSo
<1>4. /\ line_status' \in [Slips -> SlipStatuses] /\ line_status'[d] = "CONFIRMED"
      /\ \A x \in Slips : x # d => line_status'[x] = line_status[x]
  BY <1>2, <1>3 DEF FInv, SlipsTyped, SlipStatuses
<1>5. SumOf(lines[d]) \in Nat
  <2>1. PICK q : q = lines[d] /\ q \in Seq(Nat)
    BY <1>3 DEF FInv, SlipsTyped
  <2> QED BY <2>1, SumOfLines
<1>6. /\ goods' \in [Receipts -> Int] /\ goods'[d] = goods[d] + SumOf(lines[d])
      /\ \A x \in Receipts : x # d => goods'[x] = goods[x]
  <2>1. PICK n : n = SumOf(lines[d]) /\ n \in Nat
    BY <1>5
  <2>2. goods' = [goods EXCEPT ![d] = goods[d] + n] /\ goods \in [Receipts -> Int]
    BY <1>2, <2>1 DEF FInv, SlipsTyped
  <2> QED BY <1>3, <2>1, <2>2
<1>7. \A l \in SourceLines : On(l)' \subseteq On(l)
  BY <1>3, <1>4 DEF On, Counts
<1>8. \A l \in SourceLines :
          Listed(On(l))' <= Listed(On(l)) /\ Listed(On(l))' \in Nat /\ Listed(On(l)) \in Nat
  BY <1>2, <1>7, NoMore
<1>9. PICK changed : changed = {d}
  OBVIOUS
<1>10. \A x \in changed, t \in Callers \ {s} :
           line_request[t].op \in {"create", "confirm"} => line_request[t].doc # x
  <2>1. ASSUME NEW t \in Callers \ {s},
               line_request[t].op \in {"create", "confirm"}, line_request[t].doc = d
        PROVE  FALSE
    <3>1. CallSo(t, line_request[t])
      BY DEF FInv
    <3> QED BY <1>3, <2>1, <3>1 DEF CallSo, None
  <2> QED BY <1>9, <2>1
<1>11. \A x \in Slips : Started(x) => Started(x)'
  BY <1>4 DEF Started, None
<1>12. /\ \A t \in Callers : CallSo(t, line_request[t])'
       /\ CancelAlone'
       /\ line_request' \in [Callers -> Calls]
       /\ line_lock' \in [SourceLines \cup Slips -> Callers \cup {None}]
  <2>1. \A x \in Slips \ changed : line_status'[x] = line_status[x]
    BY <1>4, <1>9
  <2>2. line_request[s].op # "idle" /\ alone' = alone /\ LetGo(s)
    BY <1>1, <1>2
  <2> QED BY <1>8, <1>10, <1>11, <2>1, <2>2, CallsKept
<1>13. SlipsTyped'
  BY <1>2, <1>4, <1>6, <1>12 DEF FInv, SlipsTyped
<1>14. (\A l \in SourceLines : Listed(On(l)) <= Ordered[l])'
  <2>1. ASSUME NEW l \in SourceLines PROVE Listed(On(l))' <= Ordered[l]
    <3>1. Ordered[l] \in Nat
      BY FulfilmentAssumption
    <3> QED BY <1>8, <3>1 DEF FInv
  <2> QED BY <2>1
<1>15. GoodsTaken'
  <2>1. ASSUME alone, NEW x \in Receipts
        PROVE  goods'[x] = IF line_status'[x] = "CONFIRMED" THEN SumOf(lines[x]) ELSE 0
    <3>1. goods[x] = IF line_status[x] = "CONFIRMED" THEN SumOf(lines[x]) ELSE 0
      BY <2>1 DEF FInv, GoodsTaken
    <3>2. CASE x = d
      BY <1>3, <1>4, <1>5, <1>6, <3>1, <3>2
    <3>3. CASE x # d
      <4>1. x \in Slips
        BY Lines
      <4> QED BY <1>4, <1>6, <3>1, <3>3, <4>1
    <3> QED BY <3>2, <3>3
  <2> QED BY <1>2, <2>1 DEF GoodsTaken
<1> QED BY <1>12, <1>13, <1>14, <1>15 DEF FInv

\* A receipt is cancelled, without a lock.
LEMMA CommitCancelStep ==
    ASSUME FInv, NEW s \in Callers, CommitCancel(s) PROVE FInv'
<1>1. PICK r, d : r = line_request[s] /\ d = r.doc
  OBVIOUS
<1>2. /\ r.op = "cancel" /\ line_lock[d] = None /\ LetGo(s)
      /\ line_status' = [line_status EXCEPT ![d] = "CANCELLED"]
      /\ goods' = [goods EXCEPT ![d] = IF r.saw = "CONFIRMED" THEN @ - SumOf(lines[d]) ELSE @]
      /\ UNCHANGED <<lines, alone>>
  BY <1>1 DEF CommitCancel
<1>3. d \in Slips /\ d \in Receipts /\ Started(d) /\ (alone => r.saw = line_status[d])
  BY <1>1, <1>2, Lines DEF FInv, CallSo, CancelAlone
<1>4. /\ line_status' \in [Slips -> SlipStatuses] /\ line_status'[d] = "CANCELLED"
      /\ \A x \in Slips : x # d => line_status'[x] = line_status[x]
  BY <1>2, <1>3 DEF FInv, SlipsTyped, SlipStatuses
<1>5. SumOf(lines[d]) \in Nat
  <2>1. PICK q : q = lines[d] /\ q \in Seq(Nat)
    BY <1>3 DEF FInv, SlipsTyped
  <2> QED BY <2>1, SumOfLines
<1>6. /\ goods' \in [Receipts -> Int]
      /\ goods'[d] = IF r.saw = "CONFIRMED" THEN goods[d] - SumOf(lines[d]) ELSE goods[d]
      /\ \A x \in Receipts : x # d => goods'[x] = goods[x]
  <2>1. PICK n : n = SumOf(lines[d]) /\ n \in Nat
    BY <1>5
  <2>2. /\ goods' = [goods EXCEPT ![d] = IF r.saw = "CONFIRMED" THEN goods[d] - n ELSE goods[d]]
        /\ goods \in [Receipts -> Int]
    BY <1>2, <2>1 DEF FInv, SlipsTyped
  <2> QED BY <1>3, <2>1, <2>2
<1>7. \A l \in SourceLines : On(l)' \subseteq On(l)
  BY <1>4 DEF On, Counts
<1>8. \A l \in SourceLines :
          Listed(On(l))' <= Listed(On(l)) /\ Listed(On(l))' \in Nat /\ Listed(On(l)) \in Nat
  BY <1>2, <1>7, NoMore
<1>9. PICK changed : changed = {d}
  OBVIOUS
<1>10. \A x \in changed, t \in Callers \ {s} :
           line_request[t].op \in {"create", "confirm"} => line_request[t].doc # x
  <2>1. ASSUME NEW t \in Callers \ {s},
               line_request[t].op \in {"create", "confirm"}, line_request[t].doc = d
        PROVE  FALSE
    <3>1. CallSo(t, line_request[t])
      BY DEF FInv
    <3> QED BY <1>2, <1>3, <2>1, <3>1, Lines DEF CallSo, Started
  <2> QED BY <1>9, <2>1
<1>11. \A x \in Slips : Started(x) => Started(x)'
  BY <1>4 DEF Started, None
<1>12. /\ \A t \in Callers : CallSo(t, line_request[t])'
       /\ CancelAlone'
       /\ line_request' \in [Callers -> Calls]
       /\ line_lock' \in [SourceLines \cup Slips -> Callers \cup {None}]
  <2>1. \A x \in Slips \ changed : line_status'[x] = line_status[x]
    BY <1>4, <1>9
  <2>2. line_request[s].op # "idle" /\ alone' = alone /\ LetGo(s)
    BY <1>1, <1>2
  <2> QED BY <1>8, <1>10, <1>11, <2>1, <2>2, CallsKept
<1>13. SlipsTyped'
  BY <1>2, <1>4, <1>6, <1>12 DEF FInv, SlipsTyped
<1>14. (\A l \in SourceLines : Listed(On(l)) <= Ordered[l])'
  <2>1. ASSUME NEW l \in SourceLines PROVE Listed(On(l))' <= Ordered[l]
    <3>1. Ordered[l] \in Nat
      BY FulfilmentAssumption
    <3> QED BY <1>8, <3>1 DEF FInv
  <2> QED BY <2>1
<1>15. GoodsTaken'
  <2>1. ASSUME alone, NEW x \in Receipts
        PROVE  goods'[x] = IF line_status'[x] = "CONFIRMED" THEN SumOf(lines[x]) ELSE 0
    <3>1. goods[x] = IF line_status[x] = "CONFIRMED" THEN SumOf(lines[x]) ELSE 0
      BY <2>1 DEF FInv, GoodsTaken
    <3>2. CASE x = d
      BY <1>3, <1>4, <1>5, <1>6, <2>1, <3>1, <3>2
    <3>3. CASE x # d
      <4>1. x \in Slips
        BY Lines
      <4> QED BY <1>4, <1>6, <3>1, <3>3, <4>1
    <3> QED BY <3>2, <3>3
  <2> QED BY <1>2, <2>1 DEF GoodsTaken
<1> QED BY <1>12, <1>13, <1>14, <1>15 DEF FInv

\* A return is cancelled, or a call fails: no line is listed more than it was.
LEMMA UndoStep ==
    ASSUME FInv, NEW s \in Callers, CommitUndo(s) \/ Abandon(s) PROVE FInv'
<1>1. PICK r, d : r = line_request[s] /\ d = r.doc
  OBVIOUS
<1>2. /\ r.op # "idle" /\ LetGo(s) /\ UNCHANGED <<lines, goods, alone>>
      /\ \/ line_status' = line_status
         \/ r.op = "undo" /\ line_status' = [line_status EXCEPT ![d] = "CANCELLED"]
  BY <1>1 DEF CommitUndo, Abandon
<1>3. r.op = "undo" => d \in Slips /\ d \notin Receipts /\ Started(d)
  BY <1>1 DEF FInv, CallSo
<1>4. PICK changed : changed = {x \in Slips : line_status'[x] # line_status[x]}
  OBVIOUS
<1>5. /\ line_status' \in [Slips -> SlipStatuses]
      /\ \A x \in changed : x \notin Receipts /\ Started(x) /\ line_status'[x] = "CANCELLED"
      /\ \A x \in Slips \ changed : line_status'[x] = line_status[x]
  <2>1. CASE line_status' = line_status
    BY <1>4, <2>1 DEF FInv, SlipsTyped
  <2>2. CASE r.op = "undo" /\ line_status' = [line_status EXCEPT ![d] = "CANCELLED"]
    <3>1. /\ line_status' \in [Slips -> SlipStatuses] /\ line_status'[d] = "CANCELLED"
          /\ \A x \in Slips : x # d => line_status'[x] = line_status[x]
      BY <1>3, <2>2 DEF FInv, SlipsTyped, SlipStatuses
    <3> QED BY <1>3, <1>4, <2>2, <3>1
  <2> QED BY <1>2, <2>1, <2>2
<1>6. \A l \in SourceLines : On(l)' \subseteq On(l)
  BY <1>5 DEF On, Counts
<1>7. \A l \in SourceLines :
          Listed(On(l))' <= Listed(On(l)) /\ Listed(On(l))' \in Nat /\ Listed(On(l)) \in Nat
  BY <1>2, <1>6, NoMore
<1>8. \A x \in changed, t \in Callers \ {s} :
          line_request[t].op \in {"create", "confirm"} => line_request[t].doc # x
  <2>1. ASSUME NEW x \in changed, NEW t \in Callers \ {s},
               line_request[t].op \in {"create", "confirm"}, line_request[t].doc = x
        PROVE  FALSE
    <3>1. CallSo(t, line_request[t])
      BY DEF FInv
    <3> QED BY <1>5, <2>1, <3>1 DEF CallSo, Started
  <2> QED BY <2>1
<1>9. \A x \in Slips : Started(x) => Started(x)'
  BY <1>5 DEF Started, None
<1>10. /\ \A t \in Callers : CallSo(t, line_request[t])'
       /\ CancelAlone'
       /\ line_request' \in [Callers -> Calls]
       /\ line_lock' \in [SourceLines \cup Slips -> Callers \cup {None}]
  <2>1. line_request[s].op # "idle" /\ alone' = alone /\ LetGo(s)
    BY <1>1, <1>2
  <2> QED BY <1>5, <1>7, <1>8, <1>9, <2>1, CallsKept
<1>11. SlipsTyped'
  BY <1>2, <1>5, <1>10 DEF FInv, SlipsTyped
<1>12. (\A l \in SourceLines : Listed(On(l)) <= Ordered[l])'
  <2>1. ASSUME NEW l \in SourceLines PROVE Listed(On(l))' <= Ordered[l]
    <3>1. Ordered[l] \in Nat
      BY FulfilmentAssumption
    <3> QED BY <1>7, <3>1 DEF FInv
  <2> QED BY <2>1
<1>13. GoodsTaken'
  <2>1. ASSUME NEW x \in Receipts PROVE line_status'[x] = line_status[x]
    BY <1>5, Lines
  <2> QED BY <1>2, <2>1 DEF FInv, GoodsTaken
<1> QED BY <1>10, <1>11, <1>12, <1>13 DEF FInv

-----------------------------------------------------------------------------

\* Nothing was listed yet.
LEMMA FulfilmentStart ==
    ASSUME FulfilmentInit PROVE FInv
<1>1. /\ line_status \in [Slips -> {None, "unused"}] /\ lines = [d \in Slips |-> <<>>]
      /\ goods = [d \in Receipts |-> 0] /\ line_lock = [x \in SourceLines \cup Slips |-> None]
      /\ line_request = [s \in Callers |-> NoCall] /\ alone \in BOOLEAN
  BY DEF FulfilmentInit
<1>2. NoCall \in Calls /\ NoCall.op = "idle"
  BY DEF NoCall, Calls, SlipStatuses
<1>3. SlipsTyped
  BY <1>1, <1>2 DEF SlipsTyped, SlipStatuses
<1>4. \A s \in Callers : line_request[s].op = "idle"
  BY <1>1, <1>2
<1>5. (\A s \in Callers : CallSo(s, line_request[s])) /\ CancelAlone
  BY <1>4 DEF CallSo, CancelAlone
<1>6. GoodsTaken
  BY <1>1, Lines DEF GoodsTaken, None
<1>7. ASSUME NEW l \in SourceLines PROVE Listed(On(l)) <= Ordered[l]
  <2>1. On(l) = {}
    BY <1>1 DEF On, Counts, None
  <2>2. Listed({}) = 0
    BY SumEmpty DEF Listed
  <2>3. Ordered[l] \in Nat
    BY FulfilmentAssumption
  <2> QED BY <2>1, <2>2, <2>3
<1> QED BY <1>3, <1>5, <1>6, <1>7 DEF FInv

\* Every step keeps the invariant.
LEMMA FulfilmentStep ==
    ASSUME FInv, OncePerRequest, FulfilmentNext PROVE FInv'
<1>1. PICK s \in Callers :
          \/ \E d \in Slips, q \in Payloads :
                 CreateReceipt(s, d, q) \/ CreateSalesReturn(s, d, q) \/ CreatePurchaseReturn(s, d, q)
          \/ \E d \in Receipts : BeginConfirm(s, d) \/ BeginCancel(s, d)
          \/ \E d \in Slips : UndoSalesReturn(s, d) \/ UndoPurchaseReturn(s, d)
          \/ CommitCreate(s) \/ CommitConfirm(s) \/ CommitCancel(s) \/ CommitUndo(s) \/ Abandon(s)
  BY DEF FulfilmentNext
<1>2. ASSUME NEW d \in Slips, NEW q \in Payloads,
             CreateReceipt(s, d, q) \/ CreateSalesReturn(s, d, q) \/ CreatePurchaseReturn(s, d, q)
      PROVE  FInv'
  <2>1. BeginCreate(s, d, q)
    BY <1>2 DEF CreateReceipt, CreateSalesReturn, CreatePurchaseReturn
  <2> QED BY <2>1, TakeSteps
<1>3. ASSUME NEW d \in Receipts, BeginConfirm(s, d) \/ BeginCancel(s, d) PROVE FInv'
  <2>1. d \in Slips
    BY Lines
  <2> QED BY <1>3, <2>1, TakeSteps
<1>4. ASSUME NEW d \in Slips, UndoSalesReturn(s, d) \/ UndoPurchaseReturn(s, d) PROVE FInv'
  <2>1. d \notin Receipts /\ BeginUndo(s, d)
    BY <1>4, Lines DEF UndoSalesReturn, UndoPurchaseReturn
  <2> QED BY <2>1, TakeSteps
<1>5. CASE CommitCreate(s) \/ CommitConfirm(s) \/ CommitCancel(s) \/ CommitUndo(s) \/ Abandon(s)
  BY <1>5, CommitCreateStep, CommitConfirmStep, CommitCancelStep, UndoStep
<1> QED BY <1>1, <1>2, <1>3, <1>4, <1>5

\* A step of the others leaves it alone.
LEMMA FulfilmentStutter ==
    ASSUME FInv, UNCHANGED fulfilment PROVE FInv'
<1>1. UNCHANGED <<line_status, lines, goods, line_lock, line_request, alone>>
  BY DEF fulfilment
<1>2. \A l : On(l)' = On(l) /\ Listed(On(l))' = Listed(On(l))
  BY <1>1 DEF On, Counts, Listed
<1>3. SlipsTyped' /\ CancelAlone' /\ GoodsTaken'
  BY <1>1 DEF FInv, SlipsTyped, CancelAlone, GoodsTaken
<1>4. ASSUME NEW s \in Callers PROVE CallSo(s, line_request[s])'
  <2>1. PICK r : r = line_request[s] /\ CallSo(s, r)
    BY DEF FInv
  <2>2. CallSo(s, r)'
    BY <1>1, <1>2, <2>1 DEF CallSo, Started
  <2> QED BY <1>1, <2>1, <2>2 DEF CallSo
<1>5. (\A l \in SourceLines : Listed(On(l)) <= Ordered[l])'
  BY <1>2 DEF FInv
<1> QED BY <1>3, <1>4, <1>5 DEF FInv

\* The invariant implies what the run states.
LEMMA FulfilmentHolds ==
    ASSUME FInv PROVE WithinSource
<1>1. \A l \in SourceLines : {d \in Slips : LineOf(d) = l /\ Counts(d)} = On(l)
  BY DEF On
<1> QED BY <1>1 DEF FInv, GoodsTaken, WithinSource

-----------------------------------------------------------------------------
(* The theorems.                                                           *)

\* Whatever requests interleave, a document is turned into the next one at most once;
\* where those that read without a lock run alone, the goods that left are what is
\* billed.  This needs nothing of the receipts and returns.
THEOREM OnceEach == ConversionSpec => [](OneOfEach /\ GoodsMatchBill)
<1>1. ConversionInit => PInv
  BY PipelineStart DEF ConversionInit
<1>2. PInv /\ [ConversionNext]_<<pipeline, fulfilment>> => PInv'
  <2> SUFFICES ASSUME PInv, [ConversionNext]_<<pipeline, fulfilment>> PROVE PInv'
    OBVIOUS
  <2>1. PipelineNext \/ UNCHANGED pipeline
    BY DEF ConversionNext
  <2> QED BY <2>1, PipelineStep, PipelineStutter
<1>3. PInv => OneOfEach /\ GoodsMatchBill
  BY DEF PInv
<1> QED BY <1>1, <1>2, <1>3, PTL DEF ConversionSpec

\* What is received never exceeds the order, nor what is returned the sale or the
\* purchase, if no request lists one source line twice.
THEOREM StaysWithinSource ==
    ASSUME OncePerRequest PROVE ConversionSpec => []WithinSource
<1>1. ConversionInit => FInv
  BY FulfilmentStart DEF ConversionInit
<1>2. FInv /\ [ConversionNext]_<<pipeline, fulfilment>> => FInv'
  <2> SUFFICES ASSUME FInv, [ConversionNext]_<<pipeline, fulfilment>> PROVE FInv'
    OBVIOUS
  <2>1. FulfilmentNext \/ UNCHANGED fulfilment
    BY DEF ConversionNext
  <2> QED BY <2>1, FulfilmentStep, FulfilmentStutter
<1>3. FInv => WithinSource
  BY FulfilmentHolds
<1> QED BY <1>1, <1>2, <1>3, PTL DEF ConversionSpec

\* The two together: what run Books checks of quotations, orders, challans, receipts
\* and returns.
THEOREM AlwaysInOrder ==
    ASSUME OncePerRequest PROVE ConversionSpec => []PipelineInOrder
<1>1. OneOfEach /\ GoodsMatchBill /\ WithinSource => PipelineInOrder
  BY DEF PipelineInOrder
<1> QED BY <1>1, OnceEach, StaysWithinSource, PTL
=============================================================================
