------------------------------- MODULE Claims -------------------------------
(***************************************************************************)
(* What receivables and payables promise, with no request, lock or         *)
(* database in it.  A claim is an invoice or a bill.  A settlement (a      *)
(* receipt, a disbursement, a credit note) lowers what is owed on claims   *)
(* by exactly its portions and, taken back, raises it by exactly the same. *)
(* Only open claims are settled, never by more than is owed; a claim is    *)
(* closed only when nothing is settled against it, and never reopens.      *)
(* Settlement implements this specification.                               *)
(***************************************************************************)
EXTENDS Integers

CONSTANTS Claim, Ids, Amounts, Start

VARIABLES
    owed,     \* what is still to be paid on each claim
    portions, \* what each settlement contributes, nothing unless it is live
    open      \* the claim has not been closed

vars == <<owed, portions, open>>

Nothing == [c \in Claim |-> 0]
Live == {i \in Ids : portions[i] # Nothing}

Init ==
    /\ owed = Start
    /\ portions = [i \in Ids |-> Nothing]
    /\ open = [c \in Claim |-> TRUE]

Fits(p, due) == \A c \in Claim : p[c] > 0 => open[c] /\ p[c] <= due[c]

Make(j, p) ==
    /\ Fits(p, owed)
    /\ portions' = [portions EXCEPT ![j] = p]
    /\ owed' = [c \in Claim |-> owed[c] - p[c]]
    /\ UNCHANGED open

TakeBack(i) ==
    /\ \A c \in Claim : portions[i][c] > 0 => open[c]
    /\ portions' = [portions EXCEPT ![i] = Nothing]
    /\ owed' = [c \in Claim |-> owed[c] + portions[i][c]]
    /\ UNCHANGED open

\* One step: settlement i is taken back and j made in its place.
Correct(i, j, p) ==
    LET due == [c \in Claim |-> owed[c] + portions[i][c]]
    IN  /\ \A c \in Claim : portions[i][c] > 0 => open[c]
        /\ Fits(p, due)
        /\ portions' = [portions EXCEPT ![i] = Nothing, ![j] = p]
        /\ owed' = [c \in Claim |-> due[c] - p[c]]
        /\ UNCHANGED open

Close(c) ==
    /\ open[c]
    /\ open' = [open EXCEPT ![c] = FALSE]
    /\ \A i \in Ids : portions[i][c] = 0
    /\ owed' = [owed EXCEPT ![c] = 0]
    /\ UNCHANGED portions

\* A settlement is made, taken back or corrected, or a claim is closed.
Next ==
    \/ /\ portions' # portions
       /\ \/ \E i \in Live : TakeBack(i)
          \/ \E j \in Ids \ Live, p \in [Claim -> Amounts] :
                 Make(j, p) \/ \E i \in Live : Correct(i, j, p)
    \/ \E c \in Claim : Close(c)

Spec == Init /\ [][Next]_vars
=============================================================================
