----------------------------- MODULE YearsProofs -----------------------------
(***************************************************************************)
(* The year-end moves the profit of a year once, balances and sheet follow *)
(* it, and a locked year stays as it is, for any number of years, sessions *)
(* that post and amounts.                                                  *)
(***************************************************************************)
EXTENDS FinancialYears, SumTheorems

Real == {"cash", "bank", "capital"}
Posted == {"DOCUMENT", "JOURNAL_REVERSAL"}
YearEnds == {"YEAR_END", "YEAR_END_REVERSAL"}
Books == [Years -> [Kinds -> Entries]]

\* The two sides of an entry: what the assets gain beyond the equity is profit.
Even(l) == l["cash"] + l["bank"] - l["capital"] - l["retained"] = l["sales"] + l["rent"]

\* A locked year exists.
LockedExist == \A y \in Years : status[y] = "LOCKED" => y \in exists

\* The session that closes holds the tenant's row: neither its year nor the next is locked.
CloseHeld ==
    closing # NoClosing =>
        /\ closing.year \in exists /\ closing.year < Horizon
        /\ status[closing.year] = "CURRENT" /\ status[closing.year + 1] = "CURRENT"
        /\ closes[closing.year] < MaxCloses

\* The period that a close leaves closed is opened again with its year.
PeriodFollows ==
    \A y \in Years :
        status[y] = "CURRENT" /\ month_period[y] = "none" => whole_period[y] # "closed"

\* A posting is dated in a year.
PostingDated == \A s \in Posters : posting[s] # NoPosting => posting[s].year \in Years

TInv == TypeOK /\ LockedExist /\ CloseHeld /\ PeriodFollows /\ PostingDated

\* What a session is about to insert is an even entry of a year that is open.
PostingOpen ==
    \A s \in Posters : posting[s] # NoPosting =>
        /\ status[posting[s].year] = "CURRENT"
        /\ posting[s].kind \in Posted
        /\ Even(posting[s].lines) /\ posting[s].lines["retained"] = 0

\* What a close has read is still so when it commits: an even entry that empties the
\* income and the costs of a year which was not closed before.
CloseFits ==
    closing # NoClosing =>
        /\ Idle
        /\ Even(closing.lines) /\ \A a \in Real : closing.lines[a] = 0
        /\ closes[closing.year] = 0 =>
             \A a \in Nominal : Movement(closing.year, a) + closing.lines[a] = 0

\* What the closes and the reopenings of a year have left in its entries.
EntriesTell(y) ==
    /\ \A k \in Kinds : Even(journal[y][k])
    /\ \A k \in Posted : journal[y][k]["retained"] = 0
    /\ \A k \in YearEnds, a \in Real : journal[y][k][a] = 0
ClosesTell(y) ==
    /\ \A a \in Accounts :
           journal[y]["YEAR_END"][a] + journal[y]["YEAR_END_REVERSAL"][a] = year_entry[y].lines[a]
    /\ status[y] = "CURRENT" => \A a \in Accounts : year_entry[y].lines[a] = 0
    /\ closes[y] = 0 => status[y] = "CURRENT" /\ \A a \in Accounts : journal[y]["YEAR_END"][a] = 0
    /\ status[y] = "LOCKED" /\ closes[y] = 1 =>
           /\ \A a \in Accounts : journal[y]["YEAR_END_REVERSAL"][a] = 0
           /\ \A a \in Nominal : Movement(y, a) = 0
YearTells(y) == EntriesTell(y) /\ ClosesTell(y)

IInv == TInv /\ PostingOpen /\ CloseFits /\ (\A y \in Years : YearTells(y)) /\ BalancesAreLedger

-----------------------------------------------------------------------------
\* The accounts and the kinds of entries, one by one.
LEMMA Names ==
    /\ Accounts = {"sales", "rent", "cash", "bank", "capital", "retained"}
    /\ Kinds = Posted \cup YearEnds /\ Zero \in Entries /\ Even(Zero)
    /\ \A a \in Accounts : Zero[a] = 0
<1> QED BY DEF Accounts, Nominal, Permanent, Kinds, Posted, YearEnds, Zero, Entries, Even

\* The amounts of an entry.
LEMMA Amounted ==
    ASSUME NEW l \in Entries
    PROVE  /\ l["sales"] \in Int /\ l["rent"] \in Int /\ l["cash"] \in Int
           /\ l["bank"] \in Int /\ l["capital"] \in Int /\ l["retained"] \in Int
           /\ \A a \in Accounts : l[a] \in Int
<1> QED BY Names DEF Entries

\* What an account has moved in a year.
LEMMA LinesTyped ==
    ASSUME NEW j \in Books, NEW y \in Years, NEW a \in Accounts
    PROVE  /\ Lines(j, y, a) \in Int /\ Documents(j, y, a) \in Int
           /\ \A k \in Kinds : j[y][k] \in Entries /\ j[y][k][a] \in Int
           /\ Lines(j, y, a) = j[y]["DOCUMENT"][a] + j[y]["JOURNAL_REVERSAL"][a]
                                 + j[y]["YEAR_END"][a] + j[y]["YEAR_END_REVERSAL"][a]
<1> QED BY DEF Books, Entries, Kinds, Lines, Documents

\* An entry is added to one year and one kind.
LEMMA AddedLines ==
    ASSUME journal \in Books, NEW y \in Years, NEW k \in Kinds, NEW l \in Entries
    PROVE  /\ Added(y, k, l) \in Books
           /\ \A z \in Years : z # y => Added(y, k, l)[z] = journal[z]
           /\ \A i \in Kinds : i # k => Added(y, k, l)[y][i] = journal[y][i]
           /\ \A a \in Accounts : Added(y, k, l)[y][k][a] = journal[y][k][a] + l[a]
<1> DEFINE e == [a \in Accounts |-> journal[y][k][a] + l[a]]
           f == [journal[y] EXCEPT ![k] = e]
<1>1. journal[y] \in [Kinds -> Entries] /\ journal[y][k] \in Entries
  BY DEF Books
<1>2. e \in Entries /\ \A a \in Accounts : e[a] = journal[y][k][a] + l[a]
  BY <1>1 DEF Entries
<1>3. Added(y, k, l) = [journal EXCEPT ![y] = f]
  BY <1>1 DEF Added, Books
<1> HIDE DEF e
<1>4. f \in [Kinds -> Entries] /\ f[k] = e /\ \A i \in Kinds : i # k => f[i] = journal[y][i]
  BY <1>1, <1>2
<1> HIDE DEF f
<1>5. /\ [journal EXCEPT ![y] = f] \in Books /\ [journal EXCEPT ![y] = f][y] = f
      /\ \A z \in Years : z # y => [journal EXCEPT ![y] = f][z] = journal[z]
  BY <1>4 DEF Books
<1> QED BY <1>2, <1>3, <1>4, <1>5

\* The sum of two even entries is even.
LEMMA EvenSum ==
    ASSUME NEW l \in Entries, NEW m \in Entries, NEW n \in Entries, Even(l), Even(m),
           \A a \in Accounts : n[a] = l[a] + m[a]
    PROVE  Even(n)
<1>1. /\ n["sales"] = l["sales"] + m["sales"] /\ n["rent"] = l["rent"] + m["rent"]
      /\ n["cash"] = l["cash"] + m["cash"] /\ n["bank"] = l["bank"] + m["bank"]
      /\ n["capital"] = l["capital"] + m["capital"]
      /\ n["retained"] = l["retained"] + m["retained"]
  BY Names
<1> QED BY ONLY <1>1, l \in Entries, m \in Entries, Even(l), Even(m), Amounted DEF Even

\* The opposite of an even entry, the reversal of it, is even.
LEMMA EvenOpposite ==
    ASSUME NEW l \in Entries, NEW n \in Entries, Even(l), \A a \in Accounts : n[a] = -l[a]
    PROVE  Even(n)
<1>1. /\ n["sales"] = -l["sales"] /\ n["rent"] = -l["rent"] /\ n["cash"] = -l["cash"]
      /\ n["bank"] = -l["bank"] /\ n["capital"] = -l["capital"]
      /\ n["retained"] = -l["retained"]
  BY Names
<1> QED BY ONLY <1>1, l \in Entries, Even(l), Amounted DEF Even

\* A posting of any kind drafts an even entry of the kinds that are posted, dated in a
\* year that is open, which retained earnings are no part of.
LEMMA Drafts ==
    ASSUME Setting, NEW s \in Posters, NEW y \in Years, NEW place \in Places, NEW x \in Amounts,
           \/ \E a \in Nominal, draft \in BOOLEAN : DraftEntry(s, y, place, a, x, draft)
           \/ DraftContra(s, y, place, x)
           \/ \E a \in Nominal \cup {"bank"} : DraftReversal(s, y, place, a, x)
    PROVE  \E kind \in Posted, lines \in Entries, draft \in BOOLEAN :
               Draft(s, y, place, kind, lines, draft) /\ Even(lines) /\ lines["retained"] = 0
<1>x. x \in Int
  BY DEF Setting
<1>1. ASSUME NEW a \in Nominal, NEW draft \in BOOLEAN, DraftEntry(s, y, place, a, x, draft)
      PROVE  \E lines \in Entries :
               Draft(s, y, place, "DOCUMENT", lines, draft) /\ Even(lines) /\ lines["retained"] = 0
  <2> DEFINE lines == [Zero EXCEPT ![a] = x, !["cash"] = x]
  <2>1. lines \in Entries /\ Even(lines) /\ lines["retained"] = 0
    BY <1>x, Names DEF Nominal, Zero, Entries, Even
  <2> QED BY <1>1, <2>1 DEF DraftEntry
<1>2. ASSUME DraftContra(s, y, place, x)
      PROVE  \E lines \in Entries :
               Draft(s, y, place, "DOCUMENT", lines, FALSE) /\ Even(lines) /\ lines["retained"] = 0
  <2> DEFINE lines == [Zero EXCEPT !["bank"] = x, !["cash"] = -x]
  <2>1. lines \in Entries /\ Even(lines) /\ lines["retained"] = 0
    BY <1>x, Names DEF Zero, Entries, Even
  <2> QED BY <1>2, <2>1 DEF DraftContra
<1>3. ASSUME NEW a \in Nominal \cup {"bank"}, DraftReversal(s, y, place, a, x)
      PROVE  \E lines \in Entries :
               Draft(s, y, place, "JOURNAL_REVERSAL", lines, FALSE) /\ Even(lines) /\ lines["retained"] = 0
  <2> DEFINE lines == [Zero EXCEPT ![a] = -x, !["cash"] = IF a = "bank" THEN x ELSE -x]
  <2>1. lines \in Entries /\ Even(lines) /\ lines["retained"] = 0
    BY <1>x, Names DEF Nominal, Zero, Entries, Even
  <2> QED BY <1>3, <2>1 DEF DraftReversal
<1> QED BY <1>1, <1>2, <1>3 DEF Posted

-----------------------------------------------------------------------------
\* The types hold, a locked year exists, a close keeps its year and the next open, and
\* periods follow the status of their year: initially, and over every step.
LEMMA TInit == Setting /\ Init => TInv
<1> SUFFICES ASSUME Setting, Init PROVE TInv
  OBVIOUS
<1>1. 1 \in Years /\ Zero \in Entries /\ \A k \in Kinds : Zero \in Entries
  BY Names DEF Setting, Years
<1>2. TypeOK
  <2>1. exists \subseteq Years /\ current \in exists /\ drafts \subseteq exists
    BY <1>1 DEF Init
  <2>2. status \in [Years -> {"CURRENT", "LOCKED"}] /\ status[current] # "LOCKED"
    BY <1>1 DEF Init
  <2>3. whole_period \in [Years -> States] /\ month_period \in [Years -> States]
    BY DEF Init, States
  <2>4. journal \in [Years -> [Kinds -> Entries]]
    BY <1>1 DEF Init
  <2>5. year_entry \in [Years -> [lines : Entries, some : BOOLEAN]]
    BY <1>1 DEF Init, NoEntry
  <2>6. opening \in Entries /\ balance \in Entries
    BY <1>1 DEF Init
  <2>7. posting \in [Posters -> [year : Years \cup {0}, kind : Kinds, lines : Entries, draft : BOOLEAN]]
    BY <1>1 DEF Init, NoPosting, Kinds
  <2>8. closing \in [year : Years \cup {0}, lines : Entries, some : BOOLEAN]
    BY <1>1 DEF Init, NoClosing
  <2>9. closes \in [Years -> 0 .. MaxCloses]
    BY DEF Init, Setting
  <2>10. fy_start \in Years
    BY <1>1 DEF Init
  <2> QED BY <2>1, <2>2, <2>3, <2>4, <2>5, <2>6, <2>7, <2>8, <2>9, <2>10 DEF TypeOK
<1> QED BY <1>2 DEF Init, TInv, LockedExist, CloseHeld, PeriodFollows, PostingDated

\* The ledger balance of an account is a whole amount.
LEMMA LedgerTyped ==
    ASSUME Setting, NEW j \in Books, NEW o \in Entries, NEW a \in Accounts
    PROVE  LedgerOf(j, o, a) \in Int
<1> DEFINE f == [y \in 1 .. Horizon |-> Lines(j, y, a)]
<1>1. IsFiniteSet(1 .. Horizon)
  BY FS_Interval DEF Setting
<1>2. \A y \in 1 .. Horizon : f[y] \in Int
  BY LinesTyped DEF Years
<1> HIDE DEF f
<1>3. SumFunctionOnSet(f, 1 .. Horizon) \in Int
  BY <1>1, <1>2, SumType
<1> QED BY <1>3, Amounted DEF LedgerOf, OverYears, FromTo, f

\* Balances that are recomputed from the ledger are whole amounts.
LEMMA RecomputedTyped ==
    ASSUME Setting, balance \in Entries, NEW A, NEW j \in Books, NEW o \in Entries
    PROVE  Recomputed(A, j, o) \in Entries
<1> QED BY LedgerTyped DEF Recomputed, Entries

\* Types over the first part of a posting, Draft: only the session's posting changes.
LEMMA TDraft ==
    ASSUME Setting, TInv, NEW s \in Posters, NEW y \in Years, NEW place \in Places,
           NEW kind \in Posted, NEW lines \in Entries, NEW draft \in BOOLEAN,
           Draft(s, y, place, kind, lines, draft)
    PROVE  TInv'
<1>1. posting' \in [Posters -> [year : Years \cup {0}, kind : Kinds, lines : Entries, draft : BOOLEAN]]
  BY Names DEF TInv, TypeOK, Draft
<1> QED BY <1>1 DEF TInv, TypeOK, LockedExist, CloseHeld, PeriodFollows, PostingDated, Draft, periods

\* Types over Post: the entry is added and the balances it touches are recomputed.
LEMMA TPost ==
    ASSUME Setting, TInv, NEW s \in Posters, Post(s)
    PROVE  TInv'
<1> DEFINE p == posting[s]
           after == Added(p.year, p.kind, p.lines)
<1>1. p.year \in Years /\ p.kind \in Kinds /\ p.lines \in Entries /\ journal \in Books
  BY DEF TInv, PostingDated, TypeOK, Post, Books
<1>2. after \in Books
  BY <1>1, AddedLines
<1>3. journal' = after /\ balance' = Recomputed(Touched(p.lines), after, opening)
  BY DEF Post
<1>4. balance' \in Entries
  BY <1>2, <1>3, RecomputedTyped DEF TInv, TypeOK
<1>5. posting' \in [Posters -> [year : Years \cup {0}, kind : Kinds, lines : Entries, draft : BOOLEAN]]
  BY Names DEF TInv, TypeOK, Post, NoPosting, Posted
<1>6. drafts' \subseteq exists
  BY DEF TInv, TypeOK, Post
<1>7. UNCHANGED <<exists, status, current, fy_start, periods, year_entry, opening, closing, closes>>
  BY DEF Post
<1> HIDE DEF after, p
<1>8. TypeOK'
  BY <1>2, <1>3, <1>4, <1>5, <1>6, <1>7 DEF TInv, TypeOK, Books, periods
<1>9. PostingDated'
  BY DEF TInv, TypeOK, PostingDated, Post, NoPosting
<1> QED BY <1>7, <1>8, <1>9 DEF TInv, LockedExist, CloseHeld, PeriodFollows, PostingDated, periods

\* Types over SetOpening: the balance moves with the opening balance.
LEMMA TOpening ==
    ASSUME Setting, TInv, NEW a \in {"cash", "capital"}, NEW x \in Openings, SetOpening(a, x)
    PROVE  TInv'
<1>1. x \in Int /\ a \in Accounts
  BY Names DEF Setting
<1>2. opening' \in Entries /\ balance' \in Entries
  BY <1>1, Amounted DEF TInv, TypeOK, SetOpening, Entries
<1> QED BY <1>2 DEF TInv, TypeOK, LockedExist, CloseHeld, PeriodFollows, PostingDated, SetOpening, periods

\* Types over the steps that change drafts, month_period, exists, current and fy_start: a
\* year that Create or Switch makes current is not locked.
LEMMA TMinor ==
    ASSUME Setting, TInv, NEW y \in Years,
           SaveDraft(y) \/ LockMonth(y) \/ UnlockMonth(y) \/ Create(y) \/ Switch(y) \/ UpdateCompany(y)
    PROVE  TInv'
<1>1. CASE SaveDraft(y)
  <2>1. y \in exists
    BY <1>1 DEF SaveDraft, PeriodOpen
  <2> QED BY <1>1, <2>1
        DEF TInv, TypeOK, LockedExist, CloseHeld, PeriodFollows, PostingDated, SaveDraft, periods
<1>2. CASE LockMonth(y)
  <2>1. month_period' \in [Years -> States]
    BY <1>2 DEF TInv, TypeOK, LockMonth, States
  <2> QED BY <1>2, <2>1
        DEF TInv, TypeOK, LockedExist, CloseHeld, PeriodFollows, PostingDated, LockMonth
<1>3. CASE UnlockMonth(y)
  <2>1. month_period' \in [Years -> States]
    BY <1>3 DEF TInv, TypeOK, UnlockMonth, States
  <2> QED BY <1>3, <2>1
        DEF TInv, TypeOK, LockedExist, CloseHeld, PeriodFollows, PostingDated, UnlockMonth
<1>4. CASE Create(y)
  <2>1. status[y] # "LOCKED"
    BY <1>4 DEF TInv, LockedExist, Create
  <2> QED BY <1>4, <2>1
        DEF TInv, TypeOK, LockedExist, CloseHeld, PeriodFollows, PostingDated, Create, periods
<1>5. CASE Switch(y)
  BY <1>5 DEF TInv, TypeOK, LockedExist, CloseHeld, PeriodFollows, PostingDated, Switch, periods
<1>6. CASE UpdateCompany(y)
  BY <1>6 DEF TInv, TypeOK, LockedExist, CloseHeld, PeriodFollows, PostingDated, UpdateCompany, periods
<1> QED BY <1>1, <1>2, <1>3, <1>4, <1>5, <1>6

\* The entry that closes a year, as amounts.
LEMMA ClosingTyped ==
    ASSUME TInv, NEW y \in Years
    PROVE  /\ ClosingLines(y) \in Entries
           /\ \A a \in Nominal : ClosingLines(y)[a] = -Movement(y, a)
           /\ ClosingLines(y)["retained"] = ProfitLoss(y)
           /\ \A a \in Real : ClosingLines(y)[a] = 0
           /\ ProfitLoss(y) \in Int /\ \A a \in Accounts : Movement(y, a) \in Int
           /\ ProfitLoss(y) = (Movement(y, "sales") - journal[y]["YEAR_END"]["sales"])
                                + (Movement(y, "rent") - journal[y]["YEAR_END"]["rent"])
<1>1. journal \in Books
  BY DEF TInv, TypeOK, Books
<1>2. \A a \in Accounts : Movement(y, a) \in Int /\ journal[y]["YEAR_END"][a] \in Int
  BY <1>1, LinesTyped, Names DEF Movement, YearEnds
<1>3. ProfitLoss(y) = (Movement(y, "sales") - journal[y]["YEAR_END"]["sales"])
                        + (Movement(y, "rent") - journal[y]["YEAR_END"]["rent"])
  BY DEF ProfitLoss, OverNominal
<1>4. ProfitLoss(y) \in Int
  BY <1>2, <1>3, Names
<1>5. ClosingLines(y) \in Entries
  BY <1>2, <1>4, Names DEF ClosingLines, Entries, Nominal
<1> QED BY <1>2, <1>3, <1>4, <1>5, Names DEF ClosingLines, Nominal, Real

\* Types over BeginClose: the year and the next one are open when the close reads them.
LEMMA TBegin ==
    ASSUME Setting, TInv, NEW y \in Years, BeginClose(y)
    PROVE  TInv'
<1> DEFINE some == Cardinality(Touched(ClosingLines(y))) >= 2
           lines == IF some THEN ClosingLines(y) ELSE Zero
<1>1. lines \in Entries /\ some \in BOOLEAN
  BY ClosingTyped, Names
<1>2. closing' = [year |-> y, some |-> some, lines |-> lines]
  BY DEF BeginClose
<1>3. y \in exists /\ y < Horizon /\ status[y] = "CURRENT" /\ closes[y] < MaxCloses
  BY DEF BeginClose, Closable, TInv, TypeOK
<1>4. y + 1 \in Years /\ status[y + 1] = "CURRENT"
  <2>1. y + 1 \in Years
    BY <1>3 DEF Years, Setting
  <2> QED BY <2>1 DEF BeginClose, TInv, TypeOK, LockedExist
<1>5. UNCHANGED <<exists, status, current, fy_start, periods, journal, year_entry, opening, balance,
                  drafts, posting, closes>>
  BY DEF BeginClose
<1> HIDE DEF some, lines
<1>6. closing' \in [year : Years \cup {0}, lines : Entries, some : BOOLEAN]
  BY <1>1, <1>2
<1>7. TypeOK'
  BY <1>5, <1>6 DEF TInv, TypeOK, periods
<1>8. CloseHeld'
  BY <1>2, <1>3, <1>4, <1>5 DEF CloseHeld
<1> QED BY <1>5, <1>7, <1>8 DEF TInv, LockedExist, PeriodFollows, PostingDated, periods

\* A year's period takes the state of the year, and nothing else changes.
LEMMA PeriodSet ==
    ASSUME TInv, NEW y \in Years, NEW state \in {"open", "closed"}, SetPeriod(y, state)
    PROVE  /\ whole_period' \in [Years -> States] /\ month_period' \in [Years -> States]
           /\ \A z \in Years : z # y => /\ whole_period'[z] = whole_period[z]
                                        /\ month_period'[z] = month_period[z]
           /\ state = "open" /\ month_period'[y] = "none" => whole_period'[y] # "closed"
<1> USE DEF States
<1>1. /\ whole_period \in [Years -> States] /\ month_period \in [Years -> States]
      /\ state \in States
  BY DEF TInv, TypeOK
<1>2. CASE whole_period' = [whole_period EXCEPT ![y] = state] /\ UNCHANGED month_period
  BY <1>1, <1>2
<1>3. CASE /\ month_period[y] # "none"
           /\ month_period' = [month_period EXCEPT ![y] = state] /\ UNCHANGED whole_period
  BY <1>1, <1>3
<1>4. CASE /\ whole_period[y] = "none" /\ UNCHANGED month_period
           /\ whole_period' = [whole_period EXCEPT ![y] = IF state = "closed" THEN state ELSE @]
  BY <1>1, <1>4
<1> QED BY <1>2, <1>3, <1>4 DEF SetPeriod

\* What carry_forward_balances leaves of the opening balances are whole amounts.
LEMMA WithoutTyped == ASSUME opening \in Entries PROVE WithoutOpenings \in Entries
  BY DEF WithoutOpenings, Entries

\* Types over CommitClose: the next year, which becomes current, was kept open.
LEMMA TCommit ==
    ASSUME Setting, TInv, CommitClose
    PROVE  TInv'
<1> DEFINE y == closing.year
           after == Added(y, "YEAR_END", closing.lines)
           A == Permanent \cup Touched(closing.lines)
<1>1. /\ y \in exists /\ y \in Years /\ y + 1 \in Years /\ status[y] = "CURRENT"
      /\ status[y + 1] = "CURRENT" /\ closes[y] < MaxCloses
  BY DEF TInv, TypeOK, CloseHeld, CommitClose, Years, Setting
<1>2. journal \in Books /\ closing.lines \in Entries /\ closing.some \in BOOLEAN /\ "YEAR_END" \in Kinds
  BY DEF TInv, TypeOK, Books, Kinds
<1>3. after \in Books /\ WithoutOpenings \in Entries
  BY <1>1, <1>2, AddedLines, WithoutTyped DEF TInv, TypeOK
<1>4. /\ journal' = after /\ opening' = WithoutOpenings
      /\ balance' = Recomputed(A, after, WithoutOpenings)
      /\ year_entry' = [year_entry EXCEPT ![y] = [lines |-> closing.lines, some |-> closing.some]]
      /\ status' = [status EXCEPT ![y] = "LOCKED"]
      /\ SetPeriod(y, "closed")
      /\ exists' = exists \cup {y + 1} /\ current' = y + 1 /\ fy_start' = y + 1
      /\ closing' = NoClosing
      /\ closes' = [closes EXCEPT ![y] = @ + 1]
      /\ UNCHANGED <<drafts, posting>>
  BY DEF CommitClose
<1>5. balance' \in Entries
  BY <1>3, <1>4, RecomputedTyped DEF TInv, TypeOK
<1> HIDE DEF after, A, y
<1>6. TypeOK'
  <2>1. status' \in [Years -> {"CURRENT", "LOCKED"}] /\ status'[current'] # "LOCKED"
    BY <1>1, <1>4 DEF TInv, TypeOK, Years, Setting
  <2>2. closes' \in [Years -> 0 .. MaxCloses]
    BY <1>1, <1>4 DEF TInv, TypeOK, Setting
  <2>3. year_entry' \in [Years -> [lines : Entries, some : BOOLEAN]]
    BY <1>1, <1>2, <1>4 DEF TInv, TypeOK
  <2>4. whole_period' \in [Years -> States] /\ month_period' \in [Years -> States]
    BY <1>1, <1>4, PeriodSet
  <2>5. closing' \in [year : Years \cup {0}, lines : Entries, some : BOOLEAN]
    BY <1>4, Names DEF NoClosing
  <2>6. exists' \subseteq Years /\ current' \in exists' /\ drafts' \subseteq exists'
    BY <1>1, <1>4 DEF TInv, TypeOK
  <2> QED BY <1>3, <1>4, <1>5, <2>1, <2>2, <2>3, <2>4, <2>5, <2>6 DEF TInv, TypeOK, Books
<1>7. LockedExist' /\ CloseHeld' /\ PostingDated'
  BY <1>1, <1>4 DEF TInv, TypeOK, LockedExist, CloseHeld, PostingDated
<1>8. PeriodFollows'
  <2>1. \A z \in Years : z # y => /\ whole_period'[z] = whole_period[z] /\ status'[z] = status[z]
                                  /\ month_period'[z] = month_period[z]
    BY <1>1, <1>4, PeriodSet DEF TInv, TypeOK
  <2>2. status'[y] = "LOCKED"
    BY <1>1, <1>4 DEF TInv, TypeOK
  <2> QED BY <2>1, <2>2 DEF TInv, PeriodFollows
<1> QED BY <1>6, <1>7, <1>8 DEF TInv

\* The lines of _reverse_journal_entry are an entry, line by line the opposite.
LEMMA OppositeTyped ==
    ASSUME NEW l \in Entries
    PROVE  OtherSide(l) \in Entries /\ \A a \in Accounts : OtherSide(l)[a] = -l[a]
<1> QED BY DEF OtherSide, Entries

\* Types over Reopen: the period follows the year that is open again.
LEMMA TReopen ==
    ASSUME Setting, TInv, NEW y \in Years, Reopen(y)
    PROVE  TInv'
<1> DEFINE after == Added(y, "YEAR_END_REVERSAL", OtherSide(year_entry[y].lines))
<1>1. /\ journal \in Books /\ year_entry[y].lines \in Entries /\ "YEAR_END_REVERSAL" \in Kinds
      /\ closing = NoClosing
  BY DEF TInv, TypeOK, Books, Kinds, Reopen
<1>2. after \in Books /\ WithoutOpenings \in Entries
  BY <1>1, AddedLines, OppositeTyped, WithoutTyped DEF TInv, TypeOK
<1>3. /\ journal' = after /\ opening' = WithoutOpenings
      /\ balance' = Recomputed(Permanent, after, WithoutOpenings)
      /\ status' = [status EXCEPT ![y] = "CURRENT"]
      /\ year_entry' = [year_entry EXCEPT ![y] = NoEntry]
      /\ SetPeriod(y, "open")
      /\ UNCHANGED <<exists, current, fy_start, drafts, posting, closing, closes>>
  BY DEF Reopen
<1>4. balance' \in Entries
  BY <1>2, <1>3, RecomputedTyped DEF TInv, TypeOK
<1> HIDE DEF after
<1>5. TypeOK'
  <2>1. status' \in [Years -> {"CURRENT", "LOCKED"}] /\ status'[current'] # "LOCKED"
    BY <1>3 DEF TInv, TypeOK
  <2>2. year_entry' \in [Years -> [lines : Entries, some : BOOLEAN]]
    BY <1>3, Names DEF TInv, TypeOK, NoEntry
  <2>3. whole_period' \in [Years -> States] /\ month_period' \in [Years -> States]
    BY <1>3, PeriodSet
  <2> QED BY <1>2, <1>3, <1>4, <2>1, <2>2, <2>3 DEF TInv, TypeOK, Books
<1>6. LockedExist' /\ CloseHeld' /\ PostingDated'
  BY <1>1, <1>3 DEF TInv, TypeOK, LockedExist, CloseHeld, PostingDated
<1>7. PeriodFollows'
  <2>1. \A z \in Years : z # y => /\ whole_period'[z] = whole_period[z] /\ status'[z] = status[z]
                                  /\ month_period'[z] = month_period[z]
    BY <1>3, PeriodSet DEF TInv, TypeOK
  <2>2. month_period'[y] = "none" => whole_period'[y] # "closed"
    BY <1>3, PeriodSet
  <2> QED BY <2>1, <2>2 DEF TInv, PeriodFollows
<1> QED BY <1>5, <1>6, <1>7 DEF TInv

\* The types and what goes with them hold over every step.
LEMMA TNext == Setting /\ TInv /\ [Next]_vars => TInv'
<1> SUFFICES ASSUME Setting, TInv, [Next]_vars PROVE TInv'
  OBVIOUS
<1>1. ASSUME NEW s \in Posters, NEW y \in Years, NEW place \in Places, NEW x \in Amounts,
             \/ \E a \in Nominal, draft \in BOOLEAN : DraftEntry(s, y, place, a, x, draft)
             \/ DraftContra(s, y, place, x)
             \/ \E a \in Nominal \cup {"bank"} : DraftReversal(s, y, place, a, x)
      PROVE  TInv'
  BY <1>1, Drafts, TDraft
<1>2. ASSUME NEW s \in Posters, Post(s) PROVE TInv'
  BY <1>2, TPost
<1>3. ASSUME NEW a \in {"cash", "capital"}, NEW x \in Openings, SetOpening(a, x) PROVE TInv'
  BY <1>3, TOpening
<1>4. ASSUME NEW y \in Years,
             SaveDraft(y) \/ LockMonth(y) \/ UnlockMonth(y) \/ Create(y) \/ Switch(y) \/ UpdateCompany(y)
      PROVE  TInv'
  BY <1>4, TMinor
<1>5. ASSUME NEW y \in Years, BeginClose(y) PROVE TInv'
  BY <1>5, TBegin
<1>6. ASSUME NEW y \in Years, Reopen(y) PROVE TInv'
  BY <1>6, TReopen
<1>7. ASSUME CommitClose PROVE TInv'
  BY <1>7, TCommit
<1>8. ASSUME UNCHANGED vars PROVE TInv'
  BY <1>8 DEF vars, periods, TInv, TypeOK, LockedExist, CloseHeld, PeriodFollows, PostingDated
<1> QED BY <1>1, <1>2, <1>3, <1>4, <1>5, <1>6, <1>7, <1>8 DEF Next

\* Every variable keeps its type, and the current year is never locked.
THEOREM YearsTyped == Setting => (Spec => []TypeOK)
<1> SUFFICES ASSUME Setting PROVE Spec => []TypeOK
  OBVIOUS
<1>1. Init => TInv
  BY TInit
<1>2. TInv /\ [Next]_vars => TInv'
  BY TNext
<1>3. TInv => TypeOK
  BY DEF TInv
<1> QED BY <1>1, <1>2, <1>3, PTL DEF Spec

\* A year that is not locked takes postings in every month that nobody locked, however
\* often it was closed and reopened before: reopen_financial_year opens the period again.
THEOREM OpenYearsTakePostings == Setting => (Spec => []OpenYearTakesPostings)
<1> SUFFICES ASSUME Setting PROVE Spec => []OpenYearTakesPostings
  OBVIOUS
<1>1. Init => TInv
  BY TInit
<1>2. TInv /\ [Next]_vars => TInv'
  BY TNext
<1>3. TInv => OpenYearTakesPostings
  BY DEF TInv, TypeOK, PeriodFollows, OpenYearTakesPostings, PeriodOpen
<1> QED BY <1>1, <1>2, <1>3, PTL DEF Spec

-----------------------------------------------------------------------------
\* What a year tells depends on its rows only.
LEMMA YearKept ==
    ASSUME NEW y \in Years, YearTells(y), journal'[y] = journal[y], status'[y] = status[y],
           closes'[y] = closes[y], year_entry'[y] = year_entry[y]
    PROVE  YearTells(y)'
<1> QED BY DEF YearTells, EntriesTell, ClosesTell, Movement, Lines, Documents

\* What an added entry moves.
LEMMA AddedMoves ==
    ASSUME journal \in Books, NEW y \in Years, NEW k \in Kinds, NEW l \in Entries,
           NEW z \in Years, NEW a \in Accounts
    PROVE  Lines(Added(y, k, l), z, a) = Lines(journal, z, a) + (IF z = y THEN l[a] ELSE 0)
<1> DEFINE j == Added(y, k, l)
<1>1. /\ j \in Books /\ (z # y => j[z] = journal[z])
      /\ \A i \in Kinds : i # k => j[y][i] = journal[y][i]
      /\ j[y][k][a] = journal[y][k][a] + l[a]
  BY AddedLines
<1> HIDE DEF j
<1>2. l[a] \in Int /\ \A i \in Kinds : journal[y][i][a] \in Int
  BY Amounted, LinesTyped
<1>3. CASE z # y
  <2>1. Lines(j, z, a) = Lines(journal, z, a) /\ Lines(journal, z, a) \in Int
    BY <1>1, <1>3, LinesTyped DEF Lines, Documents
  <2> QED BY <1>3, <2>1 DEF j
<1>4. CASE z = y
  <2>1. Lines(j, y, a) = j[y]["DOCUMENT"][a] + j[y]["JOURNAL_REVERSAL"][a]
                           + j[y]["YEAR_END"][a] + j[y]["YEAR_END_REVERSAL"][a]
    BY <1>1, LinesTyped
  <2>2. Lines(journal, y, a) = journal[y]["DOCUMENT"][a] + journal[y]["JOURNAL_REVERSAL"][a]
                           + journal[y]["YEAR_END"][a] + journal[y]["YEAR_END_REVERSAL"][a]
    BY LinesTyped
  <2>3. Lines(j, y, a) = Lines(journal, y, a) + l[a]
    <3>1. \A i \in Kinds : i # k => j[y][i][a] = journal[y][i][a]
      BY <1>1
    <3>2. /\ "DOCUMENT" \in Kinds /\ "JOURNAL_REVERSAL" \in Kinds
          /\ "YEAR_END" \in Kinds /\ "YEAR_END_REVERSAL" \in Kinds
          /\ k \in {"DOCUMENT", "JOURNAL_REVERSAL", "YEAR_END", "YEAR_END_REVERSAL"}
      BY DEF Kinds
    <3>3. CASE k = "DOCUMENT"
      BY <1>1, <1>2, <2>1, <2>2, <3>1, <3>2, <3>3
    <3>4. CASE k = "JOURNAL_REVERSAL"
      BY <1>1, <1>2, <2>1, <2>2, <3>1, <3>2, <3>4
    <3>5. CASE k = "YEAR_END"
      BY <1>1, <1>2, <2>1, <2>2, <3>1, <3>2, <3>5
    <3>6. CASE k = "YEAR_END_REVERSAL"
      BY <1>1, <1>2, <2>1, <2>2, <3>1, <3>2, <3>6
    <3> QED BY <3>2, <3>3, <3>4, <3>5, <3>6
  <2> QED BY <1>4, <2>3 DEF j
<1> QED BY <1>3, <1>4

\* The ledger balance of an account follows its lines and its opening balance.
LEMMA LedgerSame ==
    ASSUME Setting, NEW j, NEW h, NEW o, NEW a,
           \A y \in Years : Lines(h, y, a) = Lines(j, y, a)
    PROVE  LedgerOf(h, o, a) = LedgerOf(j, o, a)
<1> DEFINE f == [y \in 1 .. Horizon |-> Lines(j, y, a)]
           g == [y \in 1 .. Horizon |-> Lines(h, y, a)]
<1>1. f = g
  BY DEF Years
<1> QED BY <1>1 DEF LedgerOf, OverYears, FromTo

\* The ledger balance of an account moves with its opening balance.
LEMMA LedgerShift ==
    ASSUME Setting, NEW j \in Books, NEW o \in Entries, NEW p \in Entries, NEW a \in Accounts
    PROVE  LedgerOf(j, p, a) = LedgerOf(j, o, a) + p[a] - o[a]
<1> DEFINE r == OverYears(Horizon, LAMBDA y : Lines(j, y, a))
<1>1. LedgerOf(j, o, a) = o[a] + r /\ LedgerOf(j, p, a) = p[a] + r
  BY DEF LedgerOf
<1>2. o[a] \in Int /\ p[a] \in Int /\ r \in Int
  <2> DEFINE f == [y \in 1 .. Horizon |-> Lines(j, y, a)]
  <2>0. IsFiniteSet(1 .. Horizon)
    BY FS_Interval DEF Setting
  <2>1. IsFiniteSet(1 .. Horizon) /\ \A y \in 1 .. Horizon : f[y] \in Int
    BY <2>0, LinesTyped DEF Years
  <2>2. r = SumFunctionOnSet(f, 1 .. Horizon)
    BY DEF OverYears, FromTo
  <2> HIDE DEF f
  <2>3. SumFunctionOnSet(f, 1 .. Horizon) \in Int
    BY <2>1, SumType
  <2> QED BY <2>2, <2>3, Amounted
<1> HIDE DEF r
<1> QED BY <1>1, <1>2

\* Two members make a set of two.
LEMMA TwoMembers ==
    ASSUME NEW S, IsFiniteSet(S), NEW x \in S, NEW y \in S, x # y
    PROVE  Cardinality(S) >= 2
<1>1. IsFiniteSet({x}) /\ Cardinality({x}) = 1
  BY FS_Singleton
<1>2. IsFiniteSet({x} \cup {y}) /\ Cardinality({x} \cup {y}) = 2
  <2>1. y \notin {x}
    OBVIOUS
  <2>2. Cardinality({x} \cup {y}) = Cardinality({x}) + 1
    BY <1>1, <2>1, FS_AddElement
  <2> QED BY <1>1, <2>2, FS_AddElement
<1>3. Cardinality({x} \cup {y}) <= Cardinality(S)
  BY <1>2, FS_Subset
<1>4. Cardinality(S) \in Nat
  BY FS_CardinalityType
<1> QED BY <1>2, <1>3, <1>4

\* There are finitely many accounts.
LEMMA AccountsFinite == IsFiniteSet(Accounts) /\ \A lines : IsFiniteSet(Touched(lines))
<1>1. IsFiniteSet(Nominal) /\ IsFiniteSet(Permanent)
  <2>1. IsFiniteSet({"sales"}) /\ IsFiniteSet({"cash"})
    BY FS_Singleton
  <2>2. IsFiniteSet({"sales"} \cup {"rent"}) /\ IsFiniteSet({"cash"} \cup {"bank"})
    BY <2>1, FS_AddElement
  <2>3. IsFiniteSet(({"cash"} \cup {"bank"}) \cup {"capital"})
    BY <2>2, FS_AddElement
  <2>4. IsFiniteSet((({"cash"} \cup {"bank"}) \cup {"capital"}) \cup {"retained"})
    BY <2>3, FS_AddElement
  <2>5. /\ Nominal = {"sales"} \cup {"rent"}
        /\ Permanent = (({"cash"} \cup {"bank"}) \cup {"capital"}) \cup {"retained"}
    BY DEF Nominal, Permanent
  <2> QED BY <2>2, <2>4, <2>5
<1>2. IsFiniteSet(Accounts)
  BY <1>1, FS_Union DEF Accounts
<1> QED BY <1>2, FS_Subset DEF Touched

-----------------------------------------------------------------------------
\* The inductive invariant, one action at a time.
LEMMA YInit == Setting /\ Init => IInv
<1> SUFFICES ASSUME Setting, Init PROVE IInv
  OBVIOUS
<1>1. TInv
  BY TInit
<1>2. PostingOpen /\ CloseFits
  BY DEF Init, PostingOpen, CloseFits
<1>3. \A y \in Years, k \in Kinds : journal[y][k] = Zero
  BY DEF Init
<1>4. ASSUME NEW y \in Years PROVE YearTells(y)
  <2>1. EntriesTell(y)
    BY <1>3, Names DEF EntriesTell, Real
  <2>2. status[y] = "CURRENT" /\ closes[y] = 0 /\ year_entry[y].lines = Zero
    BY DEF Init, NoEntry
  <2>3. ClosesTell(y)
    BY <1>3, <2>2, Names DEF ClosesTell, YearEnds
  <2> QED BY <2>1, <2>3 DEF YearTells
<1>5. BalancesAreLedger
  <2> SUFFICES ASSUME NEW a \in Accounts PROVE balance[a] = LedgerOf(journal, opening, a)
    BY DEF BalancesAreLedger
  <2> DEFINE f == [y \in 1 .. Horizon |-> Lines(journal, y, a)]
  <2>1. \A y \in 1 .. Horizon : f[y] = 0
    BY <1>3, Names DEF Lines, Documents, Years, YearEnds, Posted
  <2>2. IsFiniteSet(1 .. Horizon)
    BY FS_Interval DEF Setting
  <2>3. SumFunctionOnSet(f, 1 .. Horizon) = 0
    <3> HIDE DEF f
    <3> QED BY <2>1, <2>2, SumZero
  <2>4. opening[a] = 0 /\ balance[a] = 0
    BY Names DEF Init
  <2> QED BY <2>3, <2>4 DEF LedgerOf, OverYears, FromTo
<1> QED BY <1>1, <1>2, <1>4, <1>5 DEF IInv

\* A step that leaves entries, balances and years as they are keeps the rest.
LEMMA YKept ==
    ASSUME IInv, TInv', UNCHANGED <<status, journal, year_entry, opening, balance, closes>>,
           PostingOpen', CloseFits'
    PROVE  IInv'
<1>1. \A y \in Years : YearTells(y)'
  BY YearKept DEF IInv
<1>2. BalancesAreLedger'
  BY DEF IInv, BalancesAreLedger, LedgerOf, OverYears, FromTo, Lines, Documents, Reopened
<1> QED BY <1>1, <1>2 DEF IInv

\* The invariant over Draft: the year is open, and nothing is being closed.
LEMMA YDraft ==
    ASSUME Setting, QuietClose, IInv, TInv', NEW s \in Posters, NEW y \in Years, NEW place \in Places,
           NEW kind \in Posted, NEW lines \in Entries, NEW draft \in BOOLEAN,
           Draft(s, y, place, kind, lines, draft), Even(lines), lines["retained"] = 0
    PROVE  IInv'
<1>1. closing = NoClosing /\ closing' = closing
  BY DEF Draft
<1>2. status[y] = "CURRENT"
  BY DEF Draft, PeriodOpen, IInv, TInv, TypeOK
<1>3. PostingOpen'
  BY <1>2 DEF Draft, PostingOpen, IInv, TInv, TypeOK
<1>4. CloseFits'
  BY <1>1 DEF CloseFits
<1>5. UNCHANGED <<status, journal, year_entry, opening, balance, closes>>
  BY DEF Draft
<1> QED BY <1>3, <1>4, <1>5, YKept

\* The invariant over BeginClose: the closing entry is even and, in a year that was not
\* closed before, empties income and costs, also when it has fewer than two lines.
LEMMA YBegin ==
    ASSUME Setting, QuietClose, IInv, TInv', NEW y \in Years, BeginClose(y)
    PROVE  IInv'
<1> DEFINE some == Cardinality(Touched(ClosingLines(y))) >= 2
           lines == IF some THEN ClosingLines(y) ELSE Zero
           c == ClosingLines(y)
           ms == Movement(y, "sales")
           mr == Movement(y, "rent")
<1>1. /\ closing' = [year |-> y, some |-> some, lines |-> lines]
      /\ Idle /\ UNCHANGED <<status, journal, year_entry, opening, balance, closes, posting>>
      /\ some => ms + mr = ProfitLoss(y)
  BY DEF BeginClose, ClosingBalances, OverNominal
<1>2. /\ c \in Entries /\ c["sales"] = -ms /\ c["rent"] = -mr /\ c["retained"] = ProfitLoss(y)
      /\ c["cash"] = 0 /\ c["bank"] = 0 /\ c["capital"] = 0
      /\ ms \in Int /\ mr \in Int /\ ProfitLoss(y) \in Int
  BY ClosingTyped, Names DEF IInv, Nominal, Real
<1>3. closes[y] = 0 => ProfitLoss(y) = ms + mr
  <2> SUFFICES ASSUME closes[y] = 0 PROVE ProfitLoss(y) = ms + mr
    OBVIOUS
  <2>1. journal[y]["YEAR_END"]["sales"] = 0 /\ journal[y]["YEAR_END"]["rent"] = 0
    BY Names DEF IInv, YearTells, ClosesTell
  <2>2. ProfitLoss(y) = (ms - journal[y]["YEAR_END"]["sales"])
                         + (mr - journal[y]["YEAR_END"]["rent"])
    BY ClosingTyped DEF IInv
  <2> QED BY <1>2, <2>1, <2>2
<1> HIDE DEF c, ms, mr
<1>4. ~some /\ closes[y] = 0 => ms = 0 /\ mr = 0
  <2> SUFFICES ASSUME closes[y] = 0, ms # 0 \/ mr # 0 PROVE some
    OBVIOUS
  <2>1. c["retained"] = ms + mr
    BY <1>2, <1>3
  <2>2. \E a, b \in Touched(c) : a # b
    <3>1. \A a \in Accounts : a \in Touched(c) <=> c[a] # 0
      BY DEF Touched
    <3>2. CASE ms # 0 /\ mr # 0
      <4>1. "sales" \in Touched(c) /\ "rent" \in Touched(c)
        BY <1>2, <3>1, <3>2, Names
      <4> QED BY <4>1
    <3>3. CASE ms # 0 /\ mr = 0
      <4>1. "sales" \in Touched(c) /\ "retained" \in Touched(c)
        BY <1>2, <2>1, <3>1, <3>3, Names
      <4> QED BY <4>1
    <3>4. CASE ms = 0 /\ mr # 0
      <4>1. "rent" \in Touched(c) /\ "retained" \in Touched(c)
        BY <1>2, <2>1, <3>1, <3>4, Names
      <4> QED BY <4>1
    <3> QED BY <3>2, <3>3, <3>4
  <2>3. Cardinality(Touched(c)) >= 2
    BY <2>2, AccountsFinite, TwoMembers
  <2> QED BY <2>3 DEF c
<1>5. lines \in Entries /\ Even(lines)
  <2>1. CASE some
    <3>1. Even(c)
      BY <1>1, <1>2, <2>1 DEF Even
    <3> QED BY <1>2, <2>1, <3>1 DEF c
  <2>2. CASE ~some
    BY <2>2, Names
  <2> QED BY <2>1, <2>2
<1>6. \A a \in Real : lines[a] = 0
  BY <1>2, Names DEF Real, c
<1>7. closes[y] = 0 => \A a \in Nominal : Movement(y, a) + lines[a] = 0
  <2> SUFFICES ASSUME closes[y] = 0
               PROVE  ms + lines["sales"] = 0 /\ mr + lines["rent"] = 0
    BY DEF Nominal, ms, mr
  <2>1. CASE some
    BY <1>2, <2>1 DEF c
  <2>2. CASE ~some
    BY <1>4, <2>2, Names
  <2> QED BY <2>1, <2>2
<1> HIDE DEF lines, some
<1>8. CloseFits'
  <2>1. closing'.year = y /\ closing'.lines = lines
    BY <1>1
  <2>2. \A a : Movement(y, a)' = Movement(y, a)
    BY <1>1 DEF Movement, Lines, Documents
  <2> QED BY <1>1, <1>5, <1>6, <1>7, <2>1, <2>2 DEF CloseFits, Idle
<1>9. PostingOpen'
  BY <1>1 DEF PostingOpen, Idle
<1> QED BY <1>1, <1>8, <1>9, YKept

\* The invariant over the steps that touch no entry, balance or status.
LEMMA YMinor ==
    ASSUME IInv, TInv', NEW y \in Years,
           SaveDraft(y) \/ LockMonth(y) \/ UnlockMonth(y) \/ Create(y) \/ Switch(y) \/ UpdateCompany(y)
    PROVE  IInv'
<1>1. UNCHANGED <<status, journal, year_entry, opening, balance, closes, posting, closing>>
  BY DEF SaveDraft, LockMonth, UnlockMonth, Create, Switch, UpdateCompany, periods
<1>2. PostingOpen' /\ CloseFits'
  BY <1>1 DEF IInv, PostingOpen, CloseFits, Idle, Movement, Lines, Documents
<1> QED BY <1>1, <1>2, YKept

\* The invariant over SetOpening: balance and ledger shift together.
LEMMA YOpening ==
    ASSUME Setting, IInv, TInv', NEW b \in {"cash", "capital"}, NEW x \in Openings, SetOpening(b, x)
    PROVE  IInv'
<1>1. UNCHANGED <<status, journal, year_entry, closes, posting, closing>>
  BY DEF SetOpening
<1>2. PostingOpen' /\ CloseFits'
  BY <1>1 DEF IInv, PostingOpen, CloseFits, Idle, Movement, Lines, Documents
<1>3. \A y \in Years : YearTells(y)'
  BY <1>1, YearKept DEF IInv
<1>4. BalancesAreLedger'
  <2> SUFFICES ASSUME NEW a \in Accounts
               PROVE  \/ balance'[a] = LedgerOf(journal, opening', a)
                      \/ a \in Nominal /\ \E y \in Years : Reopened(y)
    BY <1>1 DEF BalancesAreLedger, LedgerOf, OverYears, FromTo, Lines, Documents, Reopened
  <2>1. journal \in Books /\ opening \in Entries /\ opening' \in Entries /\ balance \in Entries
    BY DEF IInv, TInv, TypeOK, Books
  <2>2. LedgerOf(journal, opening', a) = LedgerOf(journal, opening, a) + opening'[a] - opening[a]
    BY <2>1, LedgerShift
  <2>3. LedgerOf(journal, opening, a) \in Int /\ opening[a] \in Int /\ opening'[a] \in Int
    BY <2>1, LedgerTyped, Amounted
  <2>4. CASE a # b
    <3>1. balance'[a] = balance[a] /\ opening'[a] = opening[a]
      BY <2>1, <2>4 DEF SetOpening, Entries
    <3> QED BY <2>2, <2>3, <3>1 DEF IInv, BalancesAreLedger
  <2>5. CASE a = b
    <3>1. balance'[a] = balance[a] + x - opening[a] /\ opening'[a] = x /\ a \notin Nominal
      BY <2>1, <2>5 DEF SetOpening, Entries, Nominal
    <3>2. balance[a] = LedgerOf(journal, opening, a)
      BY <3>1 DEF IInv, BalancesAreLedger
    <3> QED BY <2>2, <2>3, <3>1, <3>2
  <2> QED BY <2>4, <2>5
<1> QED BY <1>2, <1>3, <1>4 DEF IInv

\* The entry of a year that gains an even entry, kind by kind.
LEMMA EntriesAdded ==
    ASSUME TInv, NEW y \in Years, NEW k \in Kinds, NEW l \in Entries, EntriesTell(y), Even(l),
           k \in Posted => l["retained"] = 0, k \in YearEnds => \A a \in Real : l[a] = 0,
           journal' = Added(y, k, l)
    PROVE  EntriesTell(y)'
<1>1. journal \in Books
  BY DEF TInv, TypeOK, Books
<1>2. /\ \A i \in Kinds : i # k => journal'[y][i] = journal[y][i]
      /\ \A a \in Accounts : journal'[y][k][a] = journal[y][k][a] + l[a]
      /\ journal'[y][k] \in Entries /\ journal[y][k] \in Entries
  <2>1. Added(y, k, l)[y][k] \in Entries
    BY <1>1, AddedLines DEF Books
  <2> QED BY <1>1, <2>1, AddedLines DEF Books
<1>3. Even(journal'[y][k])
  BY <1>2, EvenSum DEF EntriesTell
<1>4. k \in Posted => journal'[y][k]["retained"] = 0
  BY <1>2, Names DEF EntriesTell
<1>5. k \in YearEnds => \A a \in Real : journal'[y][k][a] = 0
  <2> SUFFICES ASSUME k \in YearEnds, NEW a \in Real PROVE journal'[y][k][a] = 0
    OBVIOUS
  <2>1. a \in Accounts /\ journal[y][k][a] = 0 /\ l[a] = 0
    BY Names DEF EntriesTell, Real
  <2> QED BY <1>2, <2>1
<1>6. \A i \in Kinds : Even(journal'[y][i])
  BY <1>2, <1>3 DEF EntriesTell
<1>7. \A i \in Posted : journal'[y][i]["retained"] = 0
  BY <1>2, <1>4, Names DEF EntriesTell
<1>8. \A i \in YearEnds, a \in Real : journal'[y][i][a] = 0
  BY <1>2, <1>5, Names DEF EntriesTell
<1> QED BY <1>6, <1>7, <1>8 DEF EntriesTell

\* The invariant over Post: an even entry joins an open year, whose closings stay.
LEMMA YPost ==
    ASSUME Setting, IInv, TInv', NEW s \in Posters, Post(s)
    PROVE  IInv'
<1>1. PICK y \in Years, k \in Posted, l \in Entries :
         /\ y = posting[s].year /\ k = posting[s].kind /\ l = posting[s].lines
         /\ status[y] = "CURRENT" /\ Even(l) /\ l["retained"] = 0
  BY DEF Post, IInv, TInv, PostingDated, PostingOpen, TypeOK
<1> DEFINE after == Added(y, k, l)
<1>2. /\ journal' = after /\ balance' = Recomputed(Touched(l), after, opening)
      /\ posting' = [posting EXCEPT ![s] = NoPosting]
      /\ UNCHANGED <<status, year_entry, opening, closing, closes>>
  BY <1>1 DEF Post
<1>3. closing = NoClosing
  BY DEF Post, IInv, CloseFits, Idle
<1>4. /\ journal \in Books /\ after \in Books /\ k \in Kinds
      /\ \A z \in Years : z # y => after[z] = journal[z]
      /\ \A i \in Kinds : i # k => after[y][i] = journal[y][i]
  <2>1. journal \in Books /\ k \in Kinds
    BY Names DEF IInv, TInv, TypeOK, Books
  <2> QED BY <2>1, AddedLines
<1>5. PostingOpen'
  BY <1>2 DEF PostingOpen, IInv, TInv, TypeOK
<1>6. CloseFits'
  BY <1>2, <1>3 DEF CloseFits
<1>7. ASSUME NEW a \in Accounts, l[a] = 0, NEW z \in Years
      PROVE  Lines(after, z, a) = Lines(journal, z, a)
  <2>1. Lines(after, z, a) = Lines(journal, z, a) + (IF z = y THEN l[a] ELSE 0)
    BY <1>4, AddedMoves
  <2>2. Lines(journal, z, a) \in Int
    BY <1>4, LinesTyped
  <2> HIDE DEF after
  <2> QED BY <1>7, <2>1, <2>2
<1> HIDE DEF after
<1>8. ASSUME NEW z \in Years PROVE YearTells(z)'
  <2>1. CASE z # y
    BY <1>2, <1>4, <2>1, YearKept DEF IInv
  <2>2. CASE z = y
    <3>1. k \notin YearEnds
      BY <1>1 DEF Posted, YearEnds
    <3>2. EntriesTell(y)'
      <4>1. journal' = Added(y, k, l)
        BY <1>2 DEF after
      <4> QED BY <1>1, <1>4, <3>1, <4>1, EntriesAdded DEF IInv, YearTells
    <3>3. \A i \in YearEnds : journal'[y][i] = journal[y][i]
      BY <1>2, <1>4, <3>1, Names
    <3>4. ClosesTell(y)'
      BY <1>1, <1>2, <3>3 DEF IInv, YearTells, ClosesTell, YearEnds
    <3> QED BY <2>2, <3>2, <3>4 DEF YearTells
  <2> QED BY <2>1, <2>2
<1>9. BalancesAreLedger'
  <2> SUFFICES ASSUME NEW a \in Accounts
               PROVE  \/ balance'[a] = LedgerOf(after, opening, a)
                      \/ a \in Nominal /\ \E z \in Years : Reopened(z)
    BY <1>2 DEF BalancesAreLedger, Reopened
  <2>1. CASE l[a] # 0
    BY <1>2, <2>1 DEF Recomputed, Touched
  <2>2. CASE l[a] = 0
    <3>1. LedgerOf(after, opening, a) = LedgerOf(journal, opening, a)
      BY <1>7, <2>2, LedgerSame
    <3>2. balance'[a] = balance[a]
      BY <1>2, <2>2 DEF Recomputed, Touched
    <3> QED BY <3>1, <3>2 DEF IInv, BalancesAreLedger
  <2> QED BY <2>1, <2>2
<1> QED BY <1>5, <1>6, <1>8, <1>9 DEF IInv

\* Balances that a step recomputes follow the ledger; the others are left alone.
LEMMA BalancesFollow ==
    ASSUME NEW A, NEW j, NEW o, balance' = Recomputed(A, j, o), journal' = j, opening' = o,
           NEW a \in Accounts, a \in A
    PROVE  balance'[a] = LedgerOf(journal', opening', a)
<1> QED BY DEF Recomputed

\* The invariant over CommitClose: what was read is still so, the entry moves the profit.
LEMMA YCommit ==
    ASSUME Setting, IInv, TInv', CommitClose
    PROVE  IInv'
<1>1. PICK y \in Years, l \in Entries :
         /\ y = closing.year /\ l = closing.lines /\ status[y] = "CURRENT"
         /\ Idle /\ Even(l) /\ \A a \in Real : l[a] = 0
         /\ closes[y] = 0 => \A a \in Nominal : Movement(y, a) + l[a] = 0
  <2>1. closing # NoClosing
    BY DEF CommitClose
  <2>2. closing.year \in Years /\ closing.lines \in Entries /\ status[closing.year] = "CURRENT"
    BY <2>1 DEF IInv, TInv, CloseHeld, TypeOK
  <2> QED BY <2>1, <2>2 DEF IInv, CloseFits
<1> DEFINE after == Added(y, "YEAR_END", l)
           A == Permanent \cup Touched(l)
<1>2. /\ journal' = after /\ balance' = Recomputed(A, after, WithoutOpenings)
      /\ year_entry' = [year_entry EXCEPT ![y] = [lines |-> l, some |-> closing.some]]
      /\ opening' = WithoutOpenings
      /\ status' = [status EXCEPT ![y] = "LOCKED"]
      /\ closing' = NoClosing /\ closes' = [closes EXCEPT ![y] = @ + 1]
      /\ UNCHANGED posting
  BY <1>1 DEF CommitClose
<1>3. /\ journal \in Books /\ "YEAR_END" \in Kinds
      /\ status \in [Years -> {"CURRENT", "LOCKED"}] /\ closes \in [Years -> 0 .. MaxCloses]
      /\ year_entry \in [Years -> [lines : Entries, some : BOOLEAN]]
  BY DEF IInv, TInv, TypeOK, Books, Kinds
<1>4. /\ after \in Books
      /\ \A z \in Years : z # y => after[z] = journal[z]
      /\ \A i \in Kinds : i # "YEAR_END" => after[y][i] = journal[y][i]
      /\ \A a \in Accounts : after[y]["YEAR_END"][a] = journal[y]["YEAR_END"][a] + l[a]
      /\ \A a \in Accounts : Lines(after, y, a) = Lines(journal, y, a) + l[a]
  <2>1. \A a \in Accounts : Lines(after, y, a) = Lines(journal, y, a) + (IF y = y THEN l[a] ELSE 0)
    BY <1>3, AddedMoves
  <2> QED BY <1>3, <2>1, AddedLines
<1>5. PostingOpen' /\ CloseFits'
  BY <1>1, <1>2 DEF PostingOpen, CloseFits, Idle
<1>6. EntriesTell(y)'
  <2>1. "YEAR_END" \notin Posted /\ EntriesTell(y)
    BY DEF Posted, IInv, YearTells
  <2>2. TInv
    BY DEF IInv
  <2> QED BY <1>1, <1>2, <1>3, <2>1, <2>2, EntriesAdded
<1>7. /\ status'[y] = "LOCKED" /\ closes'[y] = closes[y] + 1 /\ closes[y] \in Nat
      /\ year_entry'[y].lines = l
  BY <1>2, <1>3 DEF Setting
<1>8. \A a \in Accounts :
         /\ journal[y]["YEAR_END"][a] + journal[y]["YEAR_END_REVERSAL"][a] = 0
         /\ closes[y] = 0 => journal[y]["YEAR_END"][a] = 0
         /\ journal[y]["YEAR_END"][a] \in Int /\ journal[y]["YEAR_END_REVERSAL"][a] \in Int
         /\ l[a] \in Int
  <2>1. ClosesTell(y)
    BY DEF IInv, YearTells
  <2>2. \A a \in Accounts : /\ journal[y]["YEAR_END"][a] \in Int
                            /\ journal[y]["YEAR_END_REVERSAL"][a] \in Int
    BY <1>3, LinesTyped, Names DEF YearEnds
  <2>3. \A a \in Accounts : l[a] \in Int
    BY Amounted
  <2> QED BY <1>1, <2>1, <2>2, <2>3 DEF ClosesTell
<1> HIDE DEF after, A
<1>9. ClosesTell(y)'
  <2>1. \A a \in Accounts :
           journal'[y]["YEAR_END"][a] + journal'[y]["YEAR_END_REVERSAL"][a] = year_entry'[y].lines[a]
    <3> SUFFICES ASSUME NEW a \in Accounts
                 PROVE  journal'[y]["YEAR_END"][a] + journal'[y]["YEAR_END_REVERSAL"][a] = l[a]
      BY <1>7
    <3>1. journal'[y]["YEAR_END"][a] = journal[y]["YEAR_END"][a] + l[a]
      BY <1>2, <1>4
    <3>2. journal'[y]["YEAR_END_REVERSAL"][a] = journal[y]["YEAR_END_REVERSAL"][a]
      BY <1>2, <1>4 DEF Kinds
    <3> QED BY <1>8, <3>1, <3>2
  <2>2. closes'[y] = 1 => \A a \in Accounts : journal'[y]["YEAR_END_REVERSAL"][a] = 0
    <3> SUFFICES ASSUME closes'[y] = 1, NEW a \in Accounts
                 PROVE  journal'[y]["YEAR_END_REVERSAL"][a] = 0
      OBVIOUS
    <3>1. journal[y]["YEAR_END"][a] = 0
      BY <1>7, <1>8
    <3>2. journal[y]["YEAR_END_REVERSAL"][a] = 0
      BY <1>8, <3>1
    <3> QED BY <1>2, <1>4, <3>2 DEF Kinds
  <2>3. closes'[y] = 1 => \A a \in Nominal : Lines(after, y, a) = 0
    <3> SUFFICES ASSUME closes'[y] = 1, NEW a \in Nominal PROVE Lines(after, y, a) = 0
      OBVIOUS
    <3>1. Movement(y, a) + l[a] = 0
      BY <1>1, <1>7
    <3> QED BY <1>4, <3>1 DEF Movement, Accounts
  <2>4. \A a : Movement(y, a)' = Lines(after, y, a)
    BY <1>2 DEF Movement
  <2>5. closes'[y] # 0
    BY <1>7
  <2> QED BY <1>7, <2>1, <2>2, <2>3, <2>4, <2>5 DEF ClosesTell
<1>10. ASSUME NEW z \in Years PROVE YearTells(z)'
  <2>1. CASE z # y
    BY <1>2, <1>3, <1>4, <2>1, YearKept DEF IInv
  <2>2. CASE z = y
    BY <1>6, <1>9, <2>2 DEF YearTells
  <2> QED BY <2>1, <2>2
<1>11. \A z \in Years : Reopened(z) => Reopened(z)'
  <2> SUFFICES ASSUME NEW z \in Years, Reopened(z) PROVE Reopened(z)'
    OBVIOUS
  <2>1. CASE z # y
    BY <1>2, <1>3, <2>1 DEF Reopened
  <2>2. CASE z = y
    BY <1>1, <1>7, <2>2 DEF Reopened
  <2> QED BY <2>1, <2>2
<1>12. BalancesAreLedger'
  <2> SUFFICES ASSUME NEW a \in Accounts
               PROVE  \/ balance'[a] = LedgerOf(journal', opening', a)
                      \/ a \in Nominal /\ \E z \in Years : Reopened(z)'
    BY DEF BalancesAreLedger
  <2>1. CASE a \in A
    BY <1>2, <2>1, BalancesFollow
  <2>2. CASE a \notin A
    <3>1. a \in Nominal /\ l[a] = 0 /\ WithoutOpenings[a] = opening[a]
      BY <2>2 DEF A, Accounts, Nominal, Permanent, Touched, WithoutOpenings
    <3>2. \A z \in Years : Lines(after, z, a) = Lines(journal, z, a)
      <4>1. \A z \in Years : z # y => Lines(after, z, a) = Lines(journal, z, a)
        BY <1>4 DEF Lines, Documents
      <4>2. Lines(journal, y, a) \in Int
        BY <1>3, LinesTyped
      <4>3. Lines(after, y, a) = Lines(journal, y, a) + 0
        BY <1>4, <3>1
      <4> QED BY <4>1, <4>2, <4>3
    <3>3. LedgerOf(after, opening, a) = LedgerOf(journal, opening, a)
      BY <3>2, LedgerSame
    <3>4. LedgerOf(after, WithoutOpenings, a) = LedgerOf(after, opening, a)
      BY <3>1 DEF LedgerOf
    <3>5. balance'[a] = balance[a]
      BY <1>2, <2>2 DEF Recomputed
    <3> QED BY <1>2, <1>11, <3>3, <3>4, <3>5 DEF IInv, BalancesAreLedger
  <2> QED BY <2>1, <2>2
<1> QED BY <1>5, <1>10, <1>12 DEF IInv

\* The invariant over Reopen: the reversal takes back what the closing entry moved, and
\* only income and cost accounts, which are not recomputed, may be stale.
LEMMA YReopen ==
    ASSUME Setting, IInv, TInv', NEW y \in Years, Reopen(y)
    PROVE  IInv'
<1>1. PICK e \in Entries : e = year_entry[y].lines
  BY DEF IInv, TInv, TypeOK
<1> DEFINE l == OtherSide(e)
           after == Added(y, "YEAR_END_REVERSAL", l)
<1>2. /\ journal' = after /\ balance' = Recomputed(Permanent, after, WithoutOpenings)
      /\ year_entry' = [year_entry EXCEPT ![y] = NoEntry]
      /\ opening' = WithoutOpenings
      /\ status' = [status EXCEPT ![y] = "CURRENT"] /\ status[y] = "LOCKED"
      /\ closing = NoClosing /\ UNCHANGED <<posting, closing, closes>>
  BY <1>1 DEF Reopen
<1>3. /\ journal \in Books /\ "YEAR_END_REVERSAL" \in Kinds /\ "YEAR_END" \in Kinds
      /\ status \in [Years -> {"CURRENT", "LOCKED"}] /\ closes \in [Years -> 0 .. MaxCloses]
      /\ year_entry \in [Years -> [lines : Entries, some : BOOLEAN]]
      /\ l \in Entries /\ \A a \in Accounts : l[a] = -e[a]
  BY OppositeTyped DEF IInv, TInv, TypeOK, Books, Kinds
<1> HIDE DEF l
<1>4. /\ after \in Books
      /\ \A z \in Years : z # y => after[z] = journal[z]
      /\ \A i \in Kinds : i # "YEAR_END_REVERSAL" => after[y][i] = journal[y][i]
      /\ \A a \in Accounts :
            after[y]["YEAR_END_REVERSAL"][a] = journal[y]["YEAR_END_REVERSAL"][a] + l[a]
  BY <1>3, AddedLines
<1>5. PostingOpen' /\ CloseFits'
  <2>1. PostingOpen'
    BY <1>2, <1>3 DEF IInv, TInv, PostingOpen, PostingDated
  <2> QED BY <1>2, <2>1 DEF CloseFits
<1>6. EntriesTell(y) /\ ClosesTell(y)
  BY DEF IInv, YearTells
<1>7. /\ status'[y] = "CURRENT" /\ closes'[y] = closes[y] /\ closes[y] # 0 /\ closes[y] \in Nat
      /\ year_entry'[y].lines = Zero
  BY <1>2, <1>3, <1>6 DEF NoEntry, ClosesTell, Setting
<1>8. \A a \in Accounts :
         /\ journal[y]["YEAR_END"][a] + journal[y]["YEAR_END_REVERSAL"][a] = e[a]
         /\ journal[y]["YEAR_END"][a] \in Int /\ journal[y]["YEAR_END_REVERSAL"][a] \in Int
         /\ e[a] \in Int
  <2>1. \A a \in Accounts : /\ journal[y]["YEAR_END"][a] \in Int
                            /\ journal[y]["YEAR_END_REVERSAL"][a] \in Int
    BY <1>3, LinesTyped
  <2> QED BY <1>1, <1>6, <2>1, Amounted DEF ClosesTell
<1>9. Even(l) /\ \A a \in Real : l[a] = 0
  <2>1. Even(e)
    <3>1. Even(journal[y]["YEAR_END"]) /\ Even(journal[y]["YEAR_END_REVERSAL"])
      BY <1>3, <1>6 DEF EntriesTell
    <3>2. journal[y]["YEAR_END"] \in Entries /\ journal[y]["YEAR_END_REVERSAL"] \in Entries
      BY <1>3 DEF Books
    <3> QED BY <1>8, <3>1, <3>2, EvenSum
  <2>2. ASSUME NEW a \in Real PROVE l[a] = 0
    <3>1. a \in Accounts
      BY Names DEF Real
    <3>2. journal[y]["YEAR_END"][a] = 0 /\ journal[y]["YEAR_END_REVERSAL"][a] = 0
      BY <1>6 DEF EntriesTell, YearEnds
    <3>3. e[a] = 0
      BY <1>8, <3>1, <3>2
    <3> QED BY <1>3, <3>1, <3>3
  <2> QED BY <1>3, <2>1, <2>2, EvenOpposite
<1>10. EntriesTell(y)'
  <2>1. "YEAR_END_REVERSAL" \notin Posted /\ TInv
    BY DEF Posted, IInv
  <2> QED BY <1>2, <1>3, <1>6, <1>9, <2>1, EntriesAdded
<1> HIDE DEF after
<1>11. ClosesTell(y)'
  <2>1. ASSUME NEW a \in Accounts
        PROVE  journal'[y]["YEAR_END"][a] + journal'[y]["YEAR_END_REVERSAL"][a] = year_entry'[y].lines[a]
    <3>1. journal'[y]["YEAR_END_REVERSAL"][a] = journal[y]["YEAR_END_REVERSAL"][a] + l[a]
      BY <1>2, <1>4
    <3>2. journal'[y]["YEAR_END"][a] = journal[y]["YEAR_END"][a]
      BY <1>2, <1>3, <1>4
    <3>3. year_entry'[y].lines[a] = 0 /\ l[a] = -e[a]
      BY <1>3, <1>7, Names
    <3> QED BY <1>8, <3>1, <3>2, <3>3
  <2>2. \A a \in Accounts : year_entry'[y].lines[a] = 0
    BY <1>7, Names
  <2> QED BY <1>7, <2>1, <2>2 DEF ClosesTell
<1>12. ASSUME NEW z \in Years PROVE YearTells(z)'
  <2>1. CASE z # y
    BY <1>2, <1>3, <1>4, <2>1, YearKept DEF IInv
  <2>2. CASE z = y
    BY <1>10, <1>11, <2>2 DEF YearTells
  <2> QED BY <2>1, <2>2
<1>13. Reopened(y)'
  BY <1>7 DEF Reopened
<1>14. BalancesAreLedger'
  <2> SUFFICES ASSUME NEW a \in Accounts
               PROVE  \/ balance'[a] = LedgerOf(journal', opening', a)
                      \/ a \in Nominal /\ \E z \in Years : Reopened(z)'
    BY DEF BalancesAreLedger
  <2>1. CASE a \in Permanent
    BY <1>2, <2>1, BalancesFollow
  <2>2. CASE a \notin Permanent
    BY <1>13, <2>2 DEF Accounts
  <2> QED BY <2>1, <2>2
<1> QED BY <1>5, <1>12, <1>14 DEF IInv

\* Every step keeps the invariant, when nothing is posted while a year is being closed.
LEMMA YNext == Setting /\ QuietClose /\ IInv /\ [Next]_vars => IInv'
<1> SUFFICES ASSUME Setting, QuietClose, IInv, [Next]_vars PROVE IInv'
  OBVIOUS
<1>0. TInv'
  BY TNext DEF IInv
<1>1. ASSUME NEW s \in Posters, NEW y \in Years, NEW place \in Places, NEW x \in Amounts,
             \/ \E a \in Nominal, draft \in BOOLEAN : DraftEntry(s, y, place, a, x, draft)
             \/ DraftContra(s, y, place, x)
             \/ \E a \in Nominal \cup {"bank"} : DraftReversal(s, y, place, a, x)
      PROVE  IInv'
  BY <1>0, <1>1, Drafts, YDraft
<1>2. ASSUME NEW s \in Posters, Post(s) PROVE IInv'
  BY <1>0, <1>2, YPost
<1>3. ASSUME NEW a \in {"cash", "capital"}, NEW x \in Openings, SetOpening(a, x) PROVE IInv'
  BY <1>0, <1>3, YOpening
<1>4. ASSUME NEW y \in Years,
             SaveDraft(y) \/ LockMonth(y) \/ UnlockMonth(y) \/ Create(y) \/ Switch(y) \/ UpdateCompany(y)
      PROVE  IInv'
  BY <1>0, <1>4, YMinor
<1>5. ASSUME NEW y \in Years, BeginClose(y) PROVE IInv'
  BY <1>0, <1>5, YBegin
<1>6. ASSUME NEW y \in Years, Reopen(y) PROVE IInv'
  BY <1>0, <1>6, YReopen
<1>7. ASSUME CommitClose PROVE IInv'
  BY <1>0, <1>7, YCommit
<1>8. ASSUME UNCHANGED vars PROVE IInv'
  <2>1. UNCHANGED <<status, journal, year_entry, opening, balance, closes, posting, closing>>
    BY <1>8 DEF vars
  <2>2. PostingOpen' /\ CloseFits'
    BY <2>1 DEF IInv, PostingOpen, CloseFits, Idle, Movement, Lines, Documents
  <2> QED BY <1>0, <2>1, <2>2, YKept
<1> QED BY <1>1, <1>2, <1>3, <1>4, <1>5, <1>6, <1>7, <1>8 DEF Next

-----------------------------------------------------------------------------
\* The invariant implies the properties.  First what the entries of a year come to:
\* they are even, and retained earnings hold what the standing closing entry moved.
LEMMA YearIsEven ==
    ASSUME IInv, NEW y \in Years
    PROVE  /\ \A a \in Accounts : Movement(y, a) \in Int
           /\ Movement(y, "cash") + Movement(y, "bank") - Movement(y, "capital")
                - Movement(y, "retained") = Movement(y, "sales") + Movement(y, "rent")
<1> DEFINE d == journal[y]["DOCUMENT"]
           r == journal[y]["JOURNAL_REVERSAL"]
           c == journal[y]["YEAR_END"]
           u == journal[y]["YEAR_END_REVERSAL"]
           dr == [a \in Accounts |-> d[a] + r[a]]
           drc == [a \in Accounts |-> dr[a] + c[a]]
           m == [a \in Accounts |-> drc[a] + u[a]]
<1>1. /\ d \in Entries /\ r \in Entries /\ c \in Entries /\ u \in Entries
      /\ Even(d) /\ Even(r) /\ Even(c) /\ Even(u)
  BY DEF IInv, TInv, TypeOK, YearTells, EntriesTell, Kinds
<1>2. \A a \in Accounts : Movement(y, a) = m[a]
  BY DEF Movement, Lines, Documents
<1> HIDE DEF d, r, c, u
<1>3. dr \in Entries
  BY <1>1, Amounted DEF Entries
<1>4. Even(dr)
  <2> HIDE DEF dr
  <2>1. \A a \in Accounts : dr[a] = d[a] + r[a]
    BY DEF dr
  <2> QED BY ONLY <1>1, <1>3, <2>1, EvenSum
<1> HIDE DEF dr
<1>5. drc \in Entries
  BY <1>1, <1>3, Amounted DEF Entries
<1>6. Even(drc)
  <2> HIDE DEF drc
  <2>1. \A a \in Accounts : drc[a] = dr[a] + c[a]
    BY DEF drc
  <2> QED BY ONLY <1>1, <1>3, <1>4, <1>5, <2>1, EvenSum
<1> HIDE DEF drc
<1>7. m \in Entries
  BY <1>1, <1>5, Amounted DEF Entries
<1>8. Even(m)
  <2> HIDE DEF m
  <2>1. \A a \in Accounts : m[a] = drc[a] + u[a]
    BY DEF m
  <2> QED BY ONLY <1>1, <1>5, <1>6, <1>7, <2>1, EvenSum
<1> HIDE DEF m
<1> QED BY <1>2, <1>7, <1>8, Amounted, Names DEF Even

\* What the invariant says of retained earnings, income and costs of a year.
LEMMA YearSays ==
    ASSUME IInv, NEW y \in Years
    PROVE  /\ Movement(y, "retained") = year_entry[y].lines["retained"]
           /\ status[y] = "CURRENT" => Movement(y, "retained") = 0
           /\ status[y] = "LOCKED" /\ ~Reopened(y) =>
                 /\ Movement(y, "sales") = 0 /\ Movement(y, "rent") = 0
                 /\ Movement(y, "retained") = Documents(journal, y, "sales") + Documents(journal, y, "rent")
                 /\ ProfitLoss(y) = Movement(y, "retained")
           /\ status[y] = "CURRENT" /\ ~Reopened(y) =>
                 /\ journal[y]["YEAR_END"] = Zero
                 /\ ProfitLoss(y) = Movement(y, "sales") + Movement(y, "rent")
<1> DEFINE d(a) == Documents(journal, y, a)
           c(a) == journal[y]["YEAR_END"][a]
           u(a) == journal[y]["YEAR_END_REVERSAL"][a]
<1>1. \A a \in Accounts : /\ Movement(y, a) = d(a) + c(a) + u(a)
                          /\ d(a) \in Int /\ c(a) \in Int /\ u(a) \in Int
  <2>1. journal \in Books
    BY DEF IInv, TInv, TypeOK, Books
  <2> QED BY <2>1, LinesTyped, Names DEF Movement, Lines, YearEnds
<1>2. /\ EntriesTell(y) /\ ClosesTell(y) /\ status[y] \in {"CURRENT", "LOCKED"}
      /\ closes[y] \in 0 .. MaxCloses /\ journal[y]["YEAR_END"] \in Entries
  BY DEF IInv, YearTells, TInv, TypeOK, Kinds
<1>3. d("retained") = 0
  BY <1>2 DEF EntriesTell, Posted, Documents
<1>4. \A a \in Accounts : c(a) + u(a) = year_entry[y].lines[a]
  BY <1>2 DEF ClosesTell
<1>5. ProfitLoss(y) = (Movement(y, "sales") - c("sales")) + (Movement(y, "rent") - c("rent"))
  BY ClosingTyped DEF IInv
<1>6. Even(journal[y]["YEAR_END"]) /\ c("cash") = 0 /\ c("bank") = 0 /\ c("capital") = 0
  BY <1>2 DEF EntriesTell, Real, YearEnds, Kinds
<1>7. -c("retained") = c("sales") + c("rent")
  <2>1. c("cash") + c("bank") - c("capital") - c("retained") = c("sales") + c("rent")
    BY <1>6 DEF Even
  <2> HIDE DEF c
  <2>2. c("retained") \in Int /\ c("sales") \in Int /\ c("rent") \in Int
    BY <1>1, Names
  <2> QED BY <1>6, <2>1, <2>2
<1>8. status[y] = "LOCKED" /\ ~Reopened(y) =>
          /\ Movement(y, "sales") = 0 /\ Movement(y, "rent") = 0
          /\ u("sales") = 0 /\ u("rent") = 0 /\ u("retained") = 0
  <2> SUFFICES ASSUME status[y] = "LOCKED", ~Reopened(y)
               PROVE  /\ Movement(y, "sales") = 0 /\ Movement(y, "rent") = 0
                      /\ u("sales") = 0 /\ u("rent") = 0 /\ u("retained") = 0
    OBVIOUS
  <2>1. closes[y] = 1
    BY <1>2 DEF Reopened, ClosesTell
  <2> QED BY <1>2, <2>1, Names DEF ClosesTell, Nominal
<1>9. status[y] = "CURRENT" /\ ~Reopened(y) => \A a \in Accounts : c(a) = 0
  BY <1>2 DEF Reopened, ClosesTell
<1>10. (\A a \in Accounts : c(a) = 0) => journal[y]["YEAR_END"] = Zero
  BY <1>2 DEF Zero, Entries
<1>11. status[y] = "CURRENT" => year_entry[y].lines["retained"] = 0
  BY <1>2, Names DEF ClosesTell
<1> HIDE DEF d, c, u
<1>12. /\ d("sales") \in Int /\ c("sales") \in Int /\ u("sales") \in Int
       /\ d("rent") \in Int /\ c("rent") \in Int /\ u("rent") \in Int
       /\ c("retained") \in Int /\ u("retained") \in Int
       /\ Movement(y, "sales") = d("sales") + c("sales") + u("sales")
       /\ Movement(y, "rent") = d("rent") + c("rent") + u("rent")
       /\ Movement(y, "retained") = c("retained") + u("retained")
  BY <1>1, <1>3, Names
<1>13. Movement(y, "retained") = year_entry[y].lines["retained"]
  BY <1>4, <1>12, Names
<1>14. status[y] = "LOCKED" /\ ~Reopened(y) =>
          /\ Movement(y, "retained") = d("sales") + d("rent")
          /\ ProfitLoss(y) = Movement(y, "retained")
  <2> SUFFICES ASSUME status[y] = "LOCKED", ~Reopened(y)
               PROVE  /\ Movement(y, "retained") = d("sales") + d("rent")
                      /\ ProfitLoss(y) = Movement(y, "retained")
    OBVIOUS
  <2>1. /\ Movement(y, "sales") = 0 /\ Movement(y, "rent") = 0
        /\ u("sales") = 0 /\ u("rent") = 0 /\ u("retained") = 0
    BY <1>8
  <2>2. d("sales") + c("sales") = 0 /\ d("rent") + c("rent") = 0
    <3>1. 0 = d("sales") + c("sales") + 0 /\ 0 = d("rent") + c("rent") + 0
      BY <1>12, <2>1
    <3> QED BY ONLY <1>12, <3>1
  <2>3. Movement(y, "retained") = c("retained") /\ c("retained") = -(c("sales") + c("rent"))
    BY ONLY <1>7, <1>12, <2>1
  <2>4. ProfitLoss(y) = -(c("sales") + c("rent"))
    BY ONLY <1>5, <1>12, <2>1
  <2>5. d("sales") + d("rent") = -(c("sales") + c("rent"))
    BY ONLY <1>12, <2>2
  <2> QED BY <2>3, <2>4, <2>5
<1>15. status[y] = "CURRENT" /\ ~Reopened(y) =>
          ProfitLoss(y) = Movement(y, "sales") + Movement(y, "rent")
  <2> SUFFICES ASSUME status[y] = "CURRENT", ~Reopened(y)
               PROVE  ProfitLoss(y) = Movement(y, "sales") + Movement(y, "rent")
    OBVIOUS
  <2>1. c("sales") = 0 /\ c("rent") = 0
    BY <1>9, Names
  <2> QED BY <1>5, <1>12, <2>1
<1> QED BY <1>8, <1>9, <1>10, <1>11, <1>13, <1>14, <1>15 DEF d

\* The year-end has moved the profit of a locked year and of no open one.
LEMMA ProfitMoves == IInv => YearEndMovesProfit
<1> SUFFICES ASSUME IInv, NEW y \in Years
             PROVE  /\ status[y] = "CURRENT" => Movement(y, "retained") = 0
                    /\ status[y] = "LOCKED" /\ ~Reopened(y) =>
                          /\ \A a \in Nominal : Movement(y, a) = 0
                          /\ Movement(y, "retained")
                               = OverNominal(LAMBDA a : Documents(journal, y, a))
  BY DEF YearEndMovesProfit
<1> QED BY YearSays DEF Nominal, OverNominal

\* A sum over the years up to y in which only y counts.
LEMMA LastYear ==
    ASSUME NEW y \in Nat, y >= 1, NEW f, \A z \in 1 .. y : f[z] \in Int,
           \A z \in 1 .. y : z < y => f[z] = 0
    PROVE  SumFunctionOnSet(f, 1 .. y) = f[y]
<1>1. IsFiniteSet(1 .. y) /\ {y} \in SUBSET (1 .. y) /\ f[y] \in Int
  BY FS_Interval
<1>2. \A z \in (1 .. y) \ {y} : f[z] = 0
  OBVIOUS
<1>3. SumFunctionOnSet(f, 1 .. y) = SumFunctionOnSet(f, {y})
  <2> DEFINE S == 1 .. y
  <2>1. IsFiniteSet(S) /\ {y} \in SUBSET S /\ (\A z \in S : f[z] \in Int) /\ \A z \in S \ {y} : f[z] = 0
    BY <1>1, <1>2
  <2> HIDE DEF S
  <2>2. SumFunctionOnSet(f, S) = SumFunctionOnSet(f, {y})
    BY <2>1, SumSubset
  <2> QED BY <2>2 DEF S
<1> QED BY <1>1, <1>3, SumSingle

\* Sums of even amounts are even.
LEMMA SumsEven ==
    ASSUME NEW S, IsFiniteSet(S), NEW m, \A a \in Accounts, z \in S : m[a][z] \in Int,
           \A z \in S : m["cash"][z] + m["bank"][z] - m["capital"][z] - m["retained"][z]
                           = m["sales"][z] + m["rent"][z]
    PROVE  SumFunctionOnSet(m["cash"], S) + SumFunctionOnSet(m["bank"], S)
             - SumFunctionOnSet(m["capital"], S) - SumFunctionOnSet(m["retained"], S)
             = SumFunctionOnSet(m["sales"], S) + SumFunctionOnSet(m["rent"], S)
<1> DEFINE assets == [z \in S |-> m["cash"][z] + m["bank"][z]]
           equity == [z \in S |-> m["capital"][z] + m["retained"][z]]
           profit == [z \in S |-> m["sales"][z] + m["rent"][z]]
           sum(f) == SumFunctionOnSet(f, S)
<1>1. \A z \in S : /\ m["cash"][z] \in Int /\ m["bank"][z] \in Int /\ m["capital"][z] \in Int
                   /\ m["retained"][z] \in Int /\ m["sales"][z] \in Int /\ m["rent"][z] \in Int
  BY Names
<1>2. \A z \in S : /\ assets[z] = m["cash"][z] + m["bank"][z]
                   /\ equity[z] = m["capital"][z] + m["retained"][z]
                   /\ profit[z] = m["sales"][z] + m["rent"][z]
                   /\ assets[z] \in Int /\ equity[z] \in Int /\ profit[z] \in Int
                   /\ assets[z] = equity[z] + profit[z]
  BY <1>1
<1> HIDE DEF assets, equity, profit
<1>3. sum(assets) = sum(m["cash"]) + sum(m["bank"])
  BY <1>1, <1>2, SumPlus
<1>4. sum(equity) = sum(m["capital"]) + sum(m["retained"])
  BY <1>1, <1>2, SumPlus
<1>5. sum(profit) = sum(m["sales"]) + sum(m["rent"])
  BY <1>1, <1>2, SumPlus
<1>6. sum(assets) = sum(equity) + sum(profit)
  BY <1>1, <1>2, SumPlus
<1>7. \A a \in Accounts : sum(m[a]) \in Int
  BY SumType
<1>8. /\ sum(m["cash"]) \in Int /\ sum(m["bank"]) \in Int /\ sum(m["capital"]) \in Int
      /\ sum(m["retained"]) \in Int /\ sum(m["sales"]) \in Int /\ sum(m["rent"]) \in Int
  BY <1>7, Names
<1> HIDE DEF sum
<1>9. sum(m["cash"]) + sum(m["bank"]) - sum(m["capital"]) - sum(m["retained"])
        = sum(m["sales"]) + sum(m["rent"])
  BY ONLY <1>3, <1>4, <1>5, <1>6, <1>8
<1> QED BY <1>9 DEF sum

\* The balance sheet balances: a locked year before y has no profit left to count.
LEMMA SheetFollows == Setting /\ IInv => SheetBalances
<1> SUFFICES ASSUME Setting, IInv, NEW y \in Years,
                    \A z \in 1 .. y : ~Reopened(z) /\ (z < y => status[z] = "LOCKED")
             PROVE  SheetGap(y) = 0
  BY DEF SheetBalances
<1> DEFINE S == 1 .. y
           m == [a \in Accounts |-> [z \in S |-> Movement(z, a)]]
           total(a) == SumFunctionOnSet(m[a], S)
<1>1. y \in Nat /\ y >= 1 /\ IsFiniteSet(S) /\ S \subseteq Years /\ y \in S
  BY FS_Interval DEF Years, Setting
<1>2. SheetGap(y) = total("cash") + total("bank") - total("capital") - total("retained") - Earnings(y)
  BY Names DEF SheetGap, OverYears, FromTo
<1>3. \A z \in S : /\ \A a \in Accounts : m[a][z] = Movement(z, a) /\ m[a][z] \in Int
                   /\ m["cash"][z] + m["bank"][z] - m["capital"][z] - m["retained"][z]
                        = m["sales"][z] + m["rent"][z]
  BY <1>1, YearIsEven, Names
<1>4. \A z \in S : z < y => m["sales"][z] = 0 /\ m["rent"][z] = 0
  <2> SUFFICES ASSUME NEW z \in S, z < y PROVE m["sales"][z] = 0 /\ m["rent"][z] = 0
    OBVIOUS
  <2>1. z \in Years /\ ~Reopened(z) /\ status[z] = "LOCKED"
    BY <1>1
  <2>2. Movement(z, "sales") = 0 /\ Movement(z, "rent") = 0
    BY <2>1, YearSays
  <2> QED BY <1>3, <2>2, Names
<1> HIDE DEF m
<1>5. total("cash") + total("bank") - total("capital") - total("retained")
        = total("sales") + total("rent")
  <2> HIDE DEF S
  <2> QED BY <1>1, <1>3, SumsEven
<1>6. total("sales") = Movement(y, "sales") /\ total("rent") = Movement(y, "rent")
  <2>1. \A z \in S : m["sales"][z] \in Int /\ m["rent"][z] \in Int
    BY <1>3, Names
  <2>2. total("sales") = m["sales"][y] /\ total("rent") = m["rent"][y]
    BY <1>1, <1>4, <2>1, LastYear
  <2> QED BY <1>1, <1>3, <2>2, Names
<1>7. Earnings(y) = Movement(y, "sales") + Movement(y, "rent")
  <2>1. ~Reopened(y) /\ status[y] \in {"CURRENT", "LOCKED"}
    BY <1>1 DEF IInv, TInv, TypeOK
  <2>2. CASE status[y] = "CURRENT"
    BY <2>1, <2>2, YearSays DEF Earnings
  <2>3. CASE status[y] = "LOCKED"
    <3>1. Movement(y, "sales") = 0 /\ Movement(y, "rent") = 0
      BY <2>1, <2>3, YearSays
    <3>2. journal[y]["YEAR_END"] = Zero => ProfitLoss(y) = 0
      <4> SUFFICES ASSUME journal[y]["YEAR_END"] = Zero PROVE ProfitLoss(y) = 0
        OBVIOUS
      <4>1. journal[y]["YEAR_END"]["sales"] = 0 /\ journal[y]["YEAR_END"]["rent"] = 0
        BY Names
      <4> QED BY <3>1, <4>1, ClosingTyped DEF IInv
    <3> QED BY <3>1, <3>2 DEF Earnings
  <2> QED BY <2>1, <2>2, <2>3
<1>8. Movement(y, "sales") \in Int /\ Movement(y, "rent") \in Int
  BY YearIsEven, Names
<1>9. /\ total("cash") \in Int /\ total("bank") \in Int /\ total("capital") \in Int
      /\ total("retained") \in Int
  BY <1>1, <1>3, SumType, Names
<1> HIDE DEF total
<1>10. Earnings(y) = total("sales") + total("rent") /\ Earnings(y) \in Int
  BY <1>6, <1>7, <1>8
<1> QED BY ONLY <1>2, <1>5, <1>9, <1>10

\* A year that is ready closes, and beyond what it moves, what was announced for it is
\* what the closes of the years from the tenant's start on have kept.
LEMMA PreparedFollows == Setting /\ IInv => PreparedCloses
<1> SUFFICES ASSUME Setting, IInv, NEW y \in exists, Ready(y),
                    \A z \in fy_start .. y : ~Reopened(z) /\ (status[z] = "LOCKED" <=> z < y),
                    \A a \in Accounts : opening[a] = 0 \/ LinesBy(y, a) \/ ~LinesBy(Horizon, a)
             PROVE  /\ TrialBalanced(y) /\ ClosingBalances(y)
                    /\ PreparedProfit(y)
                         = ProfitLoss(y) + FromTo(fy_start, y - 1, LAMBDA z : Movement(z, "retained"))
  BY DEF PreparedCloses
<1>0. /\ y \in Years /\ y \in Nat /\ fy_start \in Nat /\ fy_start >= 1
      /\ y \in Int /\ fy_start \in Int /\ fy_start <= y /\ y <= Horizon
  BY DEF IInv, TInv, TypeOK, Years, Setting, Ready
<1>1. /\ y \in Years /\ y \in Nat /\ fy_start \in Nat /\ fy_start >= 1
      /\ IsFiniteSet(fy_start .. y) /\ fy_start .. y \subseteq Years /\ y \in fy_start .. y
  <2>1. IsFiniteSet(fy_start .. y)
    BY <1>0, FS_Interval
  <2>2. fy_start .. y \subseteq Years /\ y \in fy_start .. y
    BY <1>0 DEF Years, Setting
  <2> QED BY <1>0, <2>1, <2>2
<1>2. status[y] = "CURRENT" /\ ~Reopened(y)
  BY <1>1 DEF IInv, TInv, TypeOK
<1>3. TrialBalanced(y)
  <2> DEFINE shown == {a \in Accounts : LinesBy(y, a) \/ ~LinesBy(Horizon, a)}
             signed(a) == IF a = "capital" THEN -opening[a] ELSE opening[a]
             f == [a \in Accounts |-> signed(a)]
             g == [a \in shown |-> signed(a)]
  <2>1. shown \in SUBSET Accounts /\ IsFiniteSet(shown)
    BY AccountsFinite, FS_Subset
  <2>2. /\ \A a \in Accounts : f[a] \in Int
        /\ \A a \in Accounts \ shown : f[a] = 0
        /\ \A a \in shown : f[a] = g[a]
    BY Amounted DEF IInv, TInv, TypeOK
  <2>3. SumFunctionOnSet(f, Accounts) = 0
    BY DEF Ready
  <2> SUFFICES SumFunctionOnSet(g, shown) = 0
    BY DEF TrialBalanced
  <2> HIDE DEF shown, f, g
  <2>4. SumFunctionOnSet(f, Accounts) = SumFunctionOnSet(f, shown)
    BY <2>1, <2>2, AccountsFinite, SumSubset
  <2>5. SumFunctionOnSet(f, shown) = SumFunctionOnSet(g, shown)
    BY <2>1, <2>2, SumEqual
  <2> QED BY <2>3, <2>4, <2>5
<1>4. ClosingBalances(y)
  BY <1>1, <1>2, YearSays DEF ClosingBalances, OverNominal
<1>5. PreparedProfit(y) = ProfitLoss(y) + FromTo(fy_start, y - 1, LAMBDA z : Movement(z, "retained"))
  <2> DEFINE f == [z \in fy_start .. y |-> ProfitLoss(z)]
             g == [z \in fy_start .. y - 1 |-> Movement(z, "retained")]
  <2>1. \A z \in fy_start .. y : f[z] = ProfitLoss(z) /\ f[z] \in Int
    BY <1>1, ClosingTyped DEF IInv
  <2>2. /\ (fy_start .. y) \ {y} = fy_start .. y - 1 /\ IsFiniteSet(fy_start .. y - 1)
        /\ \A z \in fy_start .. y - 1 : z \in fy_start .. y /\ z < y
    <3>1. y - 1 \in Int /\ (fy_start .. y) \ {y} = fy_start .. y - 1
      BY <1>1
    <3>2. IsFiniteSet(fy_start .. y - 1)
      BY <1>0, <3>1, FS_Interval
    <3>3. \A z \in fy_start .. y - 1 : z \in fy_start .. y /\ z < y
      BY <1>1
    <3> QED BY <3>1, <3>2, <3>3
  <2>3. \A z \in fy_start .. y - 1 : f[z] = g[z]
    <3> SUFFICES ASSUME NEW z \in fy_start .. y - 1 PROVE f[z] = Movement(z, "retained")
      OBVIOUS
    <3>1. z \in Years /\ ~Reopened(z) /\ status[z] = "LOCKED" /\ f[z] = ProfitLoss(z)
      BY <1>1, <2>1, <2>2
    <3> QED BY <3>1, YearSays
  <2>4. /\ PreparedProfit(y) = SumFunctionOnSet(f, fy_start .. y)
        /\ FromTo(fy_start, y - 1, LAMBDA z : Movement(z, "retained")) = SumFunctionOnSet(g, fy_start .. y - 1)
    BY DEF PreparedProfit, FromTo
  <2> HIDE DEF f, g
  <2>5. SumFunctionOnSet(f, fy_start .. y) = f[y] + SumFunctionOnSet(f, (fy_start .. y) \ {y})
    BY <1>1, <2>1, SumRest
  <2>6. SumFunctionOnSet(f, fy_start .. y - 1) = SumFunctionOnSet(g, fy_start .. y - 1)
    BY <2>2, <2>3, SumEqual
  <2>7. SumFunctionOnSet(f, (fy_start .. y) \ {y}) = SumFunctionOnSet(g, fy_start .. y - 1)
    BY <2>2, <2>6
  <2> QED BY <1>1, <2>1, <2>4, <2>5, <2>7
<1> QED BY <1>3, <1>4, <1>5

-----------------------------------------------------------------------------
\* The year-end moves the profit of a year once; accounts.current_balance is the ledger
\* except what a reopening left stale; the balance sheet balances; and what
\* prepare_year_end calls ready closes with the profit it announced (close_financial_year,
\* reopen_financial_year, carry_forward_balances).  While a year is being closed no
\* other session posts: without it a posting checked before the close lands in the
\* locked year, and the lock that would prevent it is not in the code.
THEOREM YearsAlwaysBalance == Setting /\ QuietClose => (Spec => []YearsBalance)
<1> SUFFICES ASSUME Setting, QuietClose PROVE Spec => []YearsBalance
  OBVIOUS
<1>1. Init => IInv
  BY YInit
<1>2. IInv /\ [Next]_vars => IInv'
  BY YNext
<1>3. IInv => YearsBalance
  <2>1. IInv => BalancesAreLedger
    BY DEF IInv
  <2> QED BY <2>1, ProfitMoves, SheetFollows, PreparedFollows DEF YearsBalance
<1> QED BY <1>1, <1>2, <1>3, PTL DEF Spec

\* No step changes the documents and the manual journals of a locked year.
LEMMA LockedStays ==
    ASSUME Setting, QuietClose, IInv, [Next]_vars, NEW y \in Years, NEW k \in Posted,
           status[y] = "LOCKED"
    PROVE  journal'[y][k] = journal[y][k]
<1>1. journal \in Books /\ k \in Kinds /\ k # "YEAR_END" /\ k # "YEAR_END_REVERSAL"
  BY Names DEF IInv, TInv, TypeOK, Books, Posted
<1>2. ASSUME NEW s \in Posters, Post(s) PROVE journal'[y][k] = journal[y][k]
  <2>1. PICK z \in Years, i \in Kinds, l \in Entries :
           /\ z = posting[s].year /\ i = posting[s].kind /\ l = posting[s].lines
           /\ status[z] = "CURRENT"
    BY <1>2 DEF Post, IInv, TInv, PostingDated, PostingOpen, TypeOK
  <2>2. journal' = Added(z, i, l) /\ y # z
    BY <1>2, <2>1 DEF Post
  <2> QED BY <1>1, <2>2, AddedLines
<1>3. ASSUME CommitClose PROVE journal'[y][k] = journal[y][k]
  <2>1. PICK z \in Years, l \in Entries : z = closing.year /\ l = closing.lines
    BY <1>3 DEF CommitClose, IInv, TInv, CloseHeld, TypeOK
  <2>2. journal' = Added(z, "YEAR_END", l) /\ "YEAR_END" \in Kinds
    BY <1>3, <2>1 DEF CommitClose, Kinds
  <2>3. Added(z, "YEAR_END", l)[y][k] = journal[y][k]
    BY <1>1, <2>2, AddedLines
  <2> QED BY <2>2, <2>3
<1>4. ASSUME NEW z \in Years, Reopen(z) PROVE journal'[y][k] = journal[y][k]
  <2>1. PICK l \in Entries : l = OtherSide(year_entry[z].lines)
    BY OppositeTyped DEF IInv, TInv, TypeOK
  <2>2. journal' = Added(z, "YEAR_END_REVERSAL", l) /\ "YEAR_END_REVERSAL" \in Kinds
    BY <1>4, <2>1 DEF Reopen, Kinds
  <2>3. Added(z, "YEAR_END_REVERSAL", l)[y][k] = journal[y][k]
    BY <1>1, <2>2, AddedLines
  <2> QED BY <2>2, <2>3
<1>5. ASSUME NEW s \in Posters, NEW z \in Years, NEW place \in Places, NEW x \in Amounts,
             \/ \E a \in Nominal, draft \in BOOLEAN : DraftEntry(s, z, place, a, x, draft)
             \/ DraftContra(s, z, place, x)
             \/ \E a \in Nominal \cup {"bank"} : DraftReversal(s, z, place, a, x)
      PROVE  journal' = journal
  BY <1>5, Drafts DEF Draft
<1>6. ASSUME NEW z \in Years, \/ SaveDraft(z) \/ LockMonth(z) \/ UnlockMonth(z)
                              \/ Create(z) \/ Switch(z) \/ UpdateCompany(z) \/ BeginClose(z)
      PROVE  journal' = journal
  BY <1>6 DEF SaveDraft, LockMonth, UnlockMonth, Create, Switch, UpdateCompany, BeginClose
<1>7. ASSUME NEW a \in {"cash", "capital"}, NEW x \in Openings, SetOpening(a, x)
      PROVE  journal' = journal
  BY <1>7 DEF SetOpening
<1>8. UNCHANGED vars => journal' = journal
  BY DEF vars
<1> QED BY <1>2, <1>3, <1>4, <1>5, <1>6, <1>7, <1>8 DEF Next

\* The period lock holds from the close of a year to its reopening, although a posting
\* checks it before and not while the entry is inserted: the close reads the year when
\* nothing is under way.
THEOREM LockAlwaysHolds == Setting /\ QuietClose => (Spec => LockHolds)
<1> SUFFICES ASSUME Setting, QuietClose PROVE Spec => LockHolds
  OBVIOUS
<1>1. Init => IInv
  BY YInit
<1>2. IInv /\ [Next]_vars => IInv'
  BY YNext
<1>3. IInv /\ [Next]_vars =>
        [\A y \in Years, k \in {"DOCUMENT", "JOURNAL_REVERSAL"} :
            status[y] = "LOCKED" => journal'[y][k] = journal[y][k]]_vars
  BY LockedStays DEF Posted
<1> QED BY <1>1, <1>2, <1>3, PTL DEF Spec, LockHolds
=============================================================================
