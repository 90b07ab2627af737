-------------------------- MODULE InspectionProofs ---------------------------
(***************************************************************************)
(* Proofs about Inspection for a batch and projects of any size, any       *)
(* checks, whatever they find, and any number of restarts and of commits   *)
(* that raise.                                                             *)
(***************************************************************************)
EXTENDS Inspection, FiniteSetTheorems, TLAPS

Finding == Found \cup {"RUNNING", "ERROR", "PASS", "LOW"}
Categories == {Category(i) : i \in 1..Items} \cup {"RUNTIME", "SYSTEM"}

\* A row of a check that has not answered.
Open(r, i) == rows[r][i].found = "RUNNING"

\* Where an executor is between two checks, or has not begun with them.
Between == {"queued", "begin", "items", "counts", "close", "late"}

\* The rows of a run are closed but for the one of the check at hand, and none is
\* there before the executor begins.
RowsInHand(r) ==
    /\ at[r] \in {"queued", "begin"} => rows[r] = <<>>
    /\ at[r] \in Between => \A i \in DOMAIN rows[r] : ~Open(r, i)
    /\ at[r] = "command" =>
          rows[r] # <<>> /\ \A i \in DOMAIN rows[r] : Open(r, i) <=> i = Len(rows[r])
    /\ at[r] = "late" => \E i \in DOMAIN rows[r] : rows[r][i].found = "ERROR"

\* A verdict is written once by the executor, on its way out.
VerdictInHand(r) ==
    /\ status[r] \in {"SUCCESS", "PARTIAL_SUCCESS"} =>
          at[r] \in {"error", "mark", "report", "link", "done", "dead"}
    /\ at[r] \in {"report", "link"} => status[r] # "RUNNING"

\* While its check does not hang an executor commits within the heartbeat.
Paced(r) == at[r] \in Commits \ {"begin"} /\ r \notin slow => age[r] <= Heartbeat

RunsInHand ==
    \A r \in Run : VerdictInHand(r) /\ (Exists(r) => RowsInHand(r) /\ Paced(r))

\* The score is that of the rows or, when they were counted last, of fewer rows.
Scored == \A r \in Run : Exists(r) => ScoreOf(rows[r]) <= score[r]

\* A report that is made, loaded or about to be linked is there or was discarded, and the
\* merged report is referred to by nobody before it is linked.
Kept == reports \cup discarded
ReportsInHand ==
    /\ \A r \in Run : at[r] = "link" => r \in Kept
    /\ \A r \in Run : at[r] \notin {"done", "dead"} => reportId[r] # r
    /\ merging # {} => Merged \in Kept /\ \A r \in Run : Exists(r) => reportId[r] # Merged
    /\ deleting # NoRun =>
          /\ deleting[1] \in Run /\ deleting[2] \in {NoReport, Merged, deleting[1]}
          /\ deleting[2] # NoReport => deleting[2] \in Kept
          /\ deleting[2] = deleting[1] => at[deleting[1]] \in {"done", "dead"}
          /\ merging # {} => deleting[2] # Merged

IndInv == /\ TypeOK /\ RunTellsTheTruth /\ ReportsAreAccountedFor
          /\ RunsInHand /\ Scored /\ ReportsInHand

-----------------------------------------------------------------------------
(* The score falls with the rows.                                          *)

Level == {"NONE", "LOW", "MEDIUM", "HIGH"}
CategoriesOf(s) == {x.cat : x \in RowsOf(s)}
At(s, level) == {c \in CategoriesOf(s) : Worst(s, c) = level}

\* What has been found weighs as much or more in new.
Covers(new, old) ==
    \A x \in RowsOf(old) : \E y \in RowsOf(new) :
        y.cat = x.cat /\ RISK_WEIGHT[Risk[x.found]] <= RISK_WEIGHT[Risk[y.found]]

\* What is found has a risk, and a risk a weight.
LEMMA Weights ==
    /\ \A f \in Finding : Risk[f] \in Level
    /\ RISK_WEIGHT["NONE"] = 0 /\ RISK_WEIGHT["LOW"] = 2
    /\ RISK_WEIGHT["MEDIUM"] = 8 /\ RISK_WEIGHT["HIGH"] = 15
    /\ Risk["RUNNING"] = "NONE"
<1>1. Finding \subseteq {"RUNNING", "PASS", "LOW", "HIGH", "ERROR"}
  BY InspectionAssumption DEF Finding
<1> QED
  BY <1>1 DEF Risk, RISK_WEIGHT, Level

\* What the rows of a sequence are.
LEMMA RowsAreRows ==
    ASSUME NEW s \in Seq(Row)
    PROVE  /\ RowsOf(s) \subseteq Row
           /\ \A x \in RowsOf(s) : x.found \in Finding /\ x.cat \in Categories
<1>1. RowsOf(s) \subseteq Row
  <2>1. \A i \in DOMAIN s : s[i] \in Row
    OBVIOUS
  <2> QED
    BY <2>1 DEF RowsOf
<1>2. \A x \in Row : x.found \in Finding /\ x.cat \in Categories
  BY DEF Row, Finding, Categories
<1> QED
  BY <1>1, <1>2

\* A sequence of rows has finitely many categories.
LEMMA FewCategories ==
    ASSUME NEW s \in Seq(Row) PROVE IsFiniteSet(CategoriesOf(s))
<1>1. IsFiniteSet(1 .. Len(s))
  BY FS_Interval
<1> DEFINE f == [i \in 1 .. Len(s) |-> s[i].cat]
<1>2. f \in Surjection(1 .. Len(s), CategoriesOf(s))
  BY DEF CategoriesOf, RowsOf, Surjection
<1> QED
  BY <1>1, <1>2, FS_Surjection

\* The worst level of a category that has rows is one of its levels, and no other
\* weighs more.
LEMMA WorstIsWorst ==
    ASSUME NEW s \in Seq(Row), NEW c \in CategoriesOf(s)
    PROVE  /\ Worst(s, c) \in Levels(s, c) /\ Worst(s, c) \in Level
           /\ \A l \in Levels(s, c) : RISK_WEIGHT[l] <= RISK_WEIGHT[Worst(s, c)]
<1>1. Levels(s, c) \subseteq Level
  <2>1. \A x \in RowsOf(s) : x.found \in Finding
    BY RowsAreRows
  <2> QED
    BY <2>1, Weights DEF Levels
<1>2. Levels(s, c) # {}
  <2>1. PICK x \in RowsOf(s) : x.cat = c
    BY DEF CategoriesOf
  <2> QED
    BY <2>1 DEF Levels
<1>3. \E l \in Levels(s, c) : \A k \in Levels(s, c) : RISK_WEIGHT[k] <= RISK_WEIGHT[l]
  BY <1>1, <1>2, Weights DEF Level
<1> QED
  BY <1>1, <1>3 DEF Worst

\* A level that is the worst of a category of old is no worse than its worst in new.
LEMMA WorstRises ==
    ASSUME NEW old \in Seq(Row), NEW new \in Seq(Row), Covers(new, old), NEW c \in CategoriesOf(old)
    PROVE  /\ c \in CategoriesOf(new)
           /\ RISK_WEIGHT[Worst(old, c)] <= RISK_WEIGHT[Worst(new, c)]
<1>1. PICK x \in RowsOf(old) : x.cat = c /\ Risk[x.found] = Worst(old, c)
  BY WorstIsWorst DEF Levels
<1>2. PICK y \in RowsOf(new) :
          y.cat = c /\ RISK_WEIGHT[Risk[x.found]] <= RISK_WEIGHT[Risk[y.found]]
  BY <1>1 DEF Covers
<1>3. c \in CategoriesOf(new) /\ Risk[y.found] \in Levels(new, c)
  BY <1>2 DEF CategoriesOf, Levels
<1>4. RISK_WEIGHT[Risk[y.found]] <= RISK_WEIGHT[Worst(new, c)] /\ Worst(new, c) \in Level
      /\ Worst(old, c) \in Level
  BY <1>3, WorstIsWorst
<1>5. Risk[y.found] \in Level
  BY <1>2, Weights, RowsAreRows
<1> QED
  BY <1>1, <1>2, <1>3, <1>4, <1>5, Weights DEF Level

\* The three counts of the score.
LEMMA Counted3 ==
    ASSUME NEW s \in Seq(Row)
    PROVE  LET H == At(s, "HIGH")
               M == At(s, "MEDIUM")
               L == At(s, "LOW")
           IN  /\ IsFiniteSet(H) /\ IsFiniteSet(M) /\ IsFiniteSet(L)
               /\ H \cap M = {} /\ H \cap L = {} /\ M \cap L = {}
               /\ CountOf(s, "HIGH") = Cardinality(H) /\ CountOf(s, "MEDIUM") = Cardinality(M)
               /\ CountOf(s, "LOW") = Cardinality(L)
<1>1. \A level : At(s, level) \subseteq CategoriesOf(s)
  BY DEF At
<1>2. \A level : IsFiniteSet(At(s, level))
  BY <1>1, FewCategories, FS_Subset
<1>3. \A level : CountOf(s, level) = Cardinality(At(s, level))
  BY DEF CountOf, At, CategoriesOf
<1> QED
  BY <1>2, <1>3 DEF At

\* What is taken off the score.
Off(s) == CountOf(s, "HIGH") * 15 + CountOf(s, "MEDIUM") * 8 + CountOf(s, "LOW") * 2

LEMMA ScoreIs ==
    ASSUME NEW s \in Seq(Row)
    PROVE  Off(s) \in Nat /\ ScoreOf(s) = 100 - (IF Off(s) > 60 THEN 60 ELSE Off(s))
<1>1. CountOf(s, "HIGH") \in Nat /\ CountOf(s, "MEDIUM") \in Nat /\ CountOf(s, "LOW") \in Nat
  BY Counted3, FS_CardinalityType
<1>2. RISK_WEIGHT.HIGH = 15 /\ RISK_WEIGHT.MEDIUM = 8 /\ RISK_WEIGHT.LOW = 2
  BY DEF RISK_WEIGHT
<1> QED
  BY <1>1, <1>2 DEF Off, ScoreOf

\* The same, of the counts.
LEMMA CountsAdd ==
    ASSUME NEW s \in Seq(Row)
    PROVE  LET H == At(s, "HIGH")
               M == At(s, "MEDIUM")
               L == At(s, "LOW")
           IN  /\ CountOf(s, "HIGH") \in Nat /\ CountOf(s, "MEDIUM") \in Nat
               /\ CountOf(s, "LOW") \in Nat
               /\ IsFiniteSet(H) /\ IsFiniteSet(H \cup M) /\ IsFiniteSet(H \cup M \cup L)
               /\ Cardinality(H) = CountOf(s, "HIGH")
               /\ Cardinality(H \cup M) = CountOf(s, "HIGH") + CountOf(s, "MEDIUM")
               /\ Cardinality(H \cup M \cup L) =
                      CountOf(s, "HIGH") + CountOf(s, "MEDIUM") + CountOf(s, "LOW")
<1> DEFINE H == At(s, "HIGH")
           M == At(s, "MEDIUM")
           L == At(s, "LOW")
<1>2. /\ IsFiniteSet(H) /\ IsFiniteSet(M) /\ IsFiniteSet(L)
      /\ H \cap M = {} /\ H \cap L = {} /\ M \cap L = {}
      /\ CountOf(s, "HIGH") = Cardinality(H) /\ CountOf(s, "MEDIUM") = Cardinality(M)
      /\ CountOf(s, "LOW") = Cardinality(L)
  BY Counted3
<1> HIDE DEF H, M, L
<1>3. /\ Cardinality(H) \in Nat /\ Cardinality(M) \in Nat /\ Cardinality(L) \in Nat
      /\ IsFiniteSet(H \cup M) /\ IsFiniteSet(H \cup M \cup L)
      /\ Cardinality(H \cup M) = Cardinality(H) + Cardinality(M)
      /\ Cardinality(H \cup M \cup L) = Cardinality(H) + Cardinality(M) + Cardinality(L)
  <2>1. /\ Cardinality(H) \in Nat /\ Cardinality(M) \in Nat /\ Cardinality(L) \in Nat
        /\ Cardinality({}) = 0
    BY <1>2, FS_CardinalityType, FS_EmptySet
  <2>2. /\ IsFiniteSet(H \cup M)
        /\ Cardinality(H \cup M) = Cardinality(H) + Cardinality(M) - Cardinality(H \cap M)
    BY <1>2, FS_Union
  <2>3. Cardinality(H \cap M) = 0 /\ Cardinality((H \cup M) \cap L) = 0
    <3>1. H \cap M = {} /\ (H \cup M) \cap L = {}
      BY <1>2
    <3> QED
      BY <2>1, <3>1
  <2>4. /\ IsFiniteSet(H \cup M \cup L)
        /\ Cardinality(H \cup M \cup L) =
              Cardinality(H \cup M) + Cardinality(L) - Cardinality((H \cup M) \cap L)
    BY <1>2, <2>2, FS_Union
  <2> QED
    BY <2>1, <2>2, <2>3, <2>4
<1>4. /\ CountOf(s, "HIGH") \in Nat /\ CountOf(s, "MEDIUM") \in Nat /\ CountOf(s, "LOW") \in Nat
      /\ IsFiniteSet(H) /\ IsFiniteSet(H \cup M) /\ IsFiniteSet(H \cup M \cup L)
      /\ Cardinality(H) = CountOf(s, "HIGH")
      /\ Cardinality(H \cup M) = CountOf(s, "HIGH") + CountOf(s, "MEDIUM")
      /\ Cardinality(H \cup M \cup L) =
             CountOf(s, "HIGH") + CountOf(s, "MEDIUM") + CountOf(s, "LOW")
  BY <1>2, <1>3
<1> QED
  BY <1>4 DEF H, M, L

\* What weighs more costs more.
LEMMA Weighed ==
    ASSUME NEW h \in Nat, NEW m \in Nat, NEW l \in Nat, NEW h1 \in Nat, NEW m1 \in Nat,
           NEW l1 \in Nat, h <= h1, h + m <= h1 + m1, h + m + l <= h1 + m1 + l1
    PROVE  h * 15 + m * 8 + l * 2 <= h1 * 15 + m1 * 8 + l1 * 2
  OBVIOUS

\* A better score takes less off.
LEMMA Capped ==
    ASSUME NEW x \in Nat, NEW y \in Nat, x <= y
    PROVE  /\ 100 - (IF y > 60 THEN 60 ELSE y) <= 100 - (IF x > 60 THEN 60 ELSE x)
           /\ 100 - (IF y > 60 THEN 60 ELSE y) \in 40 .. 100
  OBVIOUS

\* Rows that cover others have no better score.
LEMMA ScoreFalls ==
    ASSUME NEW old \in Seq(Row), NEW new \in Seq(Row), Covers(new, old)
    PROVE  ScoreOf(new) <= ScoreOf(old) /\ ScoreOf(new) \in 40 .. 100
<1> DEFINE H == At(old, "HIGH")
           M == At(old, "MEDIUM")
           L == At(old, "LOW")
           H1 == At(new, "HIGH")
           M1 == At(new, "MEDIUM")
           L1 == At(new, "LOW")
<1>1. /\ H \subseteq H1 /\ H \cup M \subseteq H1 \cup M1
      /\ H \cup M \cup L \subseteq H1 \cup M1 \cup L1
  <2>1. \A c \in CategoriesOf(old) :
            /\ c \in CategoriesOf(new) /\ Worst(old, c) \in Level /\ Worst(new, c) \in Level
            /\ RISK_WEIGHT[Worst(old, c)] <= RISK_WEIGHT[Worst(new, c)]
    BY WorstRises, WorstIsWorst
  <2> QED
    BY <2>1, Weights DEF At, Level
<1>2. /\ IsFiniteSet(H1) /\ IsFiniteSet(H1 \cup M1) /\ IsFiniteSet(H1 \cup M1 \cup L1)
  BY CountsAdd
<1>3. /\ Cardinality(H) <= Cardinality(H1) /\ Cardinality(H \cup M) <= Cardinality(H1 \cup M1)
      /\ Cardinality(H \cup M \cup L) <= Cardinality(H1 \cup M1 \cup L1)
  <2> HIDE DEF H, M, L, H1, M1, L1
  <2> QED
    BY <1>1, <1>2, FS_Subset
<1>4. /\ CountOf(old, "HIGH") <= CountOf(new, "HIGH")
      /\ CountOf(old, "HIGH") + CountOf(old, "MEDIUM") <=
            CountOf(new, "HIGH") + CountOf(new, "MEDIUM")
      /\ CountOf(old, "HIGH") + CountOf(old, "MEDIUM") + CountOf(old, "LOW") <=
            CountOf(new, "HIGH") + CountOf(new, "MEDIUM") + CountOf(new, "LOW")
  <2>1. \A s \in {old, new} :
             /\ Cardinality(At(s, "HIGH")) = CountOf(s, "HIGH")
             /\ Cardinality(At(s, "HIGH") \cup At(s, "MEDIUM")) =
                    CountOf(s, "HIGH") + CountOf(s, "MEDIUM")
             /\ Cardinality(At(s, "HIGH") \cup At(s, "MEDIUM") \cup At(s, "LOW")) =
                    CountOf(s, "HIGH") + CountOf(s, "MEDIUM") + CountOf(s, "LOW")
    BY CountsAdd
  <2> QED
    BY <1>3, <2>1
<1>5. Off(old) <= Off(new)
  <2>1. \A s \in {old, new} : /\ CountOf(s, "HIGH") \in Nat /\ CountOf(s, "MEDIUM") \in Nat
                              /\ CountOf(s, "LOW") \in Nat
    BY CountsAdd
  <2> QED
    BY <1>4, <2>1, Weighed DEF Off
<1>6. Off(old) \in Nat /\ ScoreOf(old) = 100 - (IF Off(old) > 60 THEN 60 ELSE Off(old))
  BY ScoreIs
<1>7. Off(new) \in Nat /\ ScoreOf(new) = 100 - (IF Off(new) > 60 THEN 60 ELSE Off(new))
  BY ScoreIs
<1>8. /\ 100 - (IF Off(new) > 60 THEN 60 ELSE Off(new)) <=
            100 - (IF Off(old) > 60 THEN 60 ELSE Off(old))
      /\ 100 - (IF Off(new) > 60 THEN 60 ELSE Off(new)) \in 40 .. 100
  <2> HIDE DEF H, M, L, H1, M1, L1
  <2> QED
    BY ONLY <1>5, <1>6, <1>7, Capped
<1> QED
  BY <1>6, <1>7, <1>8, Zenon

-----------------------------------------------------------------------------
(* How rows grow.                                                          *)

\* The constants are numbers.
LEMMA Numbers ==
    /\ Batch \in Nat /\ Projects \in Nat /\ BatchSize \in Nat /\ Concurrency \in Nat
    /\ Items \in Nat /\ Heartbeat \in Nat /\ Stale \in Nat
    /\ Items > 0 /\ Heartbeat < Stale
  BY InspectionAssumption

\* The names of reports differ.
LEMMA Names ==
    /\ NoReport \notin Run /\ Merged \notin Run /\ Merged # NoReport
    /\ Run \subseteq Nat
  BY Numbers DEF NoReport, Merged, Run

\* A sequence that gets one more row keeps what it has.
LEMMA AppendCovers ==
    ASSUME NEW s \in Seq(Row), NEW x \in Row
    PROVE  /\ Append(s, x) \in Seq(Row) /\ Len(Append(s, x)) = Len(s) + 1
           /\ \A i \in DOMAIN s : i \in DOMAIN Append(s, x) /\ Append(s, x)[i] = s[i]
           /\ Append(s, x)[Len(s) + 1] = x /\ Len(s) + 1 \in DOMAIN Append(s, x)
           /\ DOMAIN Append(s, x) = DOMAIN s \cup {Len(s) + 1}
           /\ Covers(Append(s, x), s)
<1> DEFINE t == Append(s, x)
<1>1. /\ t \in Seq(Row) /\ Len(t) = Len(s) + 1
      /\ \A i \in DOMAIN s : i \in DOMAIN t /\ t[i] = s[i]
      /\ t[Len(s) + 1] = x /\ Len(s) + 1 \in DOMAIN t
      /\ DOMAIN t = DOMAIN s \cup {Len(s) + 1}
  OBVIOUS
<1>2. RowsOf(s) \subseteq RowsOf(t)
  <2> HIDE DEF t
  <2> QED
    BY <1>1 DEF RowsOf
<1>3. \A y \in RowsOf(s) : RISK_WEIGHT[Risk[y.found]] <= RISK_WEIGHT[Risk[y.found]]
  BY Weights, RowsAreRows DEF Level
<1>4. Covers(t, s)
  BY <1>2, <1>3 DEF Covers
<1> QED
  BY <1>1, <1>4

\* What was found takes the place of the open row.
LEMMA CloseCovers ==
    ASSUME NEW s \in Seq(Row), s # <<>>, s[Len(s)].found = "RUNNING", NEW f \in Found
    PROVE  LET t == [s EXCEPT ![Len(s)].found = f]
           IN  /\ t \in Seq(Row) /\ Len(t) = Len(s) /\ DOMAIN t = DOMAIN s
               /\ \A i \in DOMAIN s : i # Len(s) => t[i] = s[i]
               /\ t[Len(s)].found = f
               /\ Covers(t, s)
<1> DEFINE n == Len(s)
           y == [s[n] EXCEPT !.found = f]
           t == [s EXCEPT ![n].found = f]
<1>1. n \in DOMAIN s /\ s[n] \in Row /\ DOMAIN s = 1 .. n /\ n \in Nat
  OBVIOUS
<1>2. y \in Row /\ y.found = f /\ y.cat = s[n].cat
  BY <1>1 DEF Row
<1>3. t = [s EXCEPT ![n] = y]
  OBVIOUS
<1>4. /\ t \in Seq(Row) /\ Len(t) = n /\ DOMAIN t = DOMAIN s
      /\ \A i \in DOMAIN s : i # n => t[i] = s[i]
      /\ t[n] = y
  <2> HIDE DEF y
  <2> QED
    BY <1>1, <1>2, <1>3
<1>5. Covers(t, s)
  <2> SUFFICES ASSUME NEW x \in RowsOf(s)
               PROVE  \E z \in RowsOf(t) :
                         z.cat = x.cat /\ RISK_WEIGHT[Risk[x.found]] <= RISK_WEIGHT[Risk[z.found]]
    BY DEF Covers
  <2>1. PICK i \in DOMAIN s : x = s[i]
    BY DEF RowsOf
  <2>2. t[i] \in RowsOf(t) /\ t[n] \in RowsOf(t)
    <3> HIDE DEF t
    <3> QED
      BY <1>1, <1>4, <2>1 DEF RowsOf
  <2>3. CASE i # n
    <3>1. t[i] = x
      BY <1>4, <2>1, <2>3
    <3>2. RISK_WEIGHT[Risk[x.found]] <= RISK_WEIGHT[Risk[x.found]]
      BY Weights, RowsAreRows DEF Level
    <3> QED
      BY <2>2, <3>1, <3>2
  <2>4. CASE i = n
    <3>1. x.found = "RUNNING" /\ x.cat = t[n].cat /\ t[n].found \in Finding
      BY <1>2, <1>4, <2>1, <2>4 DEF Finding
    <3>2. RISK_WEIGHT[Risk[x.found]] <= RISK_WEIGHT[Risk[t[n].found]]
      BY <3>1, Weights DEF Level
    <3> HIDE DEF t
    <3> QED
      BY <2>2, <3>1, <3>2
  <2> QED
    BY <2>3, <2>4
<1> QED
  BY <1>2, <1>4, <1>5

\* Rows cover themselves.
LEMMA SelfCovers ==
    ASSUME NEW s \in Seq(Row) PROVE Covers(s, s)
  BY Weights, RowsAreRows DEF Level, Covers

-----------------------------------------------------------------------------
(* What a step of an executor does to its run, and to no other.            *)

\* The rows of r grow, and the score is that of the new ones or stays.
Grows(r) ==
    /\ Exists(r)
    /\ \E new \in Seq(Row) :
          /\ Covers(new, rows[r]) /\ rows' = [rows EXCEPT ![r] = new]
          /\ score' \in {score, [score EXCEPT ![r] = ScoreOf(new)]}

LEMMA RowsGrow ==
    ASSUME TypeOK, RunsInHand, NEW r \in Run, Executes(r)
    PROVE  UNCHANGED <<rows, score>> \/ Grows(r)
<1> DEFINE s == rows[r]
<1>1. s \in Seq(Row) /\ Covers(s, s) /\ rows = [rows EXCEPT ![r] = s]
  BY SelfCovers DEF TypeOK
<1>2. ASSUME NEW x \in Row, Exists(r), rows' = [rows EXCEPT ![r] = Append(@, x)],
             score' \in {score, [score EXCEPT ![r] = ScoreOf(Append(s, x))]}
      PROVE  Grows(r)
  <2>1. Append(s, x) \in Seq(Row) /\ Covers(Append(s, x), s)
    BY <1>1, AppendCovers
  <2> QED
    BY <1>2, <2>1 DEF Grows
<1>3. SystemError \in Row
  BY DEF SystemError, Row
<1>4. ASSUME ~Finished(r), Exists(r), NEW f \in Found \cup {"RUNNING"}
      PROVE  [cat |-> Category(Len(s) + 1), found |-> f] \in Row
  <2>1. Len(s) \in Nat /\ ~(Len(s) >= Items)
    BY <1>1, <1>4 DEF Finished
  <2>2. Len(s) + 1 \in 1..Items
    BY <2>1, Numbers
  <2> QED
    BY <1>4, <2>2 DEF Row
<1>5. CASE Reads(r) \/ Begins(r) \/ EndsLate(r) \/ Raises(r) \/ Marks(r)
           \/ MakesReport(r) \/ LinksReport(r)
  BY <1>5 DEF Reads, Begins, EndsLate, Raises, Marks, MakesReport, LinksReport, rowVars
<1>6. CASE StartItem(r)
  BY <1>2, <1>4, <1>6 DEF StartItem
<1>7. CASE FinishItem(r)
  <2>1. PICK f \in Found : Counted(r, [s EXCEPT ![Len(s)].found = f])
    BY <1>7 DEF FinishItem
  <2>2. s # <<>> /\ s[Len(s)].found = "RUNNING" /\ Exists(r)
    BY <1>1, <1>7 DEF FinishItem, RunsInHand, RowsInHand, Open
  <2>3. /\ [s EXCEPT ![Len(s)].found = f] \in Seq(Row)
        /\ Covers([s EXCEPT ![Len(s)].found = f], s)
    BY <1>1, <2>2, CloseCovers
  <2> QED
    BY <2>1, <2>2, <2>3 DEF Counted, Grows
<1>8. CASE AppendsItem(r)
  <2>1. PICK x \in Found : Counted(r, Append(s, [cat |-> Category(Len(s) + 1), found |-> x]))
    BY <1>8 DEF AppendsItem
  <2>2. [cat |-> Category(Len(s) + 1), found |-> x] \in Row /\ Exists(r)
    BY <1>4, <1>8 DEF AppendsItem
  <2> QED
    BY <1>2, <2>1, <2>2 DEF Counted
<1>9. CASE Summarises(r)
  <2>1. PICK x \in {"PASS", "LOW"} :
            rows' = [rows EXCEPT ![r] = Append(@, [cat |-> "RUNTIME", found |-> x])]
    BY <1>9 DEF Summarises
  <2>2. [cat |-> "RUNTIME", found |-> x] \in Row /\ Exists(r) /\ score' = score
    BY <1>9 DEF Summarises, Row
  <2> QED
    BY <1>2, <2>1, <2>2
<1>10. CASE Counts(r) \/ Finalizes(r)
  <2>1. /\ Exists(r) /\ rows' = [rows EXCEPT ![r] = s]
        /\ score' = [score EXCEPT ![r] = ScoreOf(s)]
    BY <1>1, <1>10 DEF Counts, Finalizes, Counted
  <2> QED
    BY <1>1, <2>1 DEF Grows
<1>11. CASE TimesOut(r)
  <2>1. Exists(r) /\ Counted(r, Append(s, SystemError))
    BY <1>11 DEF TimesOut
  <2> QED
    BY <1>2, <1>3, <2>1 DEF Counted
<1>12. CASE AppendsError(r)
  <2>1. \/ UNCHANGED rowVars
        \/ Exists(r) /\ Counted(r, Append(s, SystemError))
    BY <1>12 DEF AppendsError
  <2> QED
    BY <1>2, <1>3, <2>1 DEF Counted, rowVars
<1> QED
  BY <1>5, <1>6, <1>7, <1>8, <1>9, <1>10, <1>11, <1>12 DEF Executes

\* The other runs are left alone, and nobody revives or deletes a run.
OneRun(r) ==
    /\ \A o \in Run \ {r} : status'[o] = status[o] /\ at'[o] = at[o] /\ age'[o] = age[o]
    /\ Exists(r)' <=> Exists(r)
    /\ status' \in [Run -> Terminal \cup {"RUNNING", "gone"}]
    /\ age' \in [Run -> 0..(Stale + 1)]
    /\ at' \in [Run -> Places] /\ loaded' \in [Run -> {"none", "gone", "RUNNING", "FAILED"}]
    /\ raises' \in 0..MaxRaises
    /\ UNCHANGED <<reaped, stranded>> /\ unmarked \subseteq unmarked' /\ unmarked' \subseteq Run
    /\ UNCHANGED <<reaping, merging, deleting, discarded, restarts>>
    /\ slow' \in {slow, slow \ {r}}

LEMMA StepOfOne ==
    ASSUME TypeOK, RunsInHand, NEW r \in Run, Executes(r)
    PROVE  OneRun(r)
<1>1. MaxRaises \in Nat /\ Stale \in Nat /\ 0 \in 0..(Stale + 1)
  BY InspectionAssumption, Numbers
<1> DEFINE Common == /\ status \in [Run -> Terminal \cup {"RUNNING", "gone"}]
                     /\ age \in [Run -> 0..(Stale + 1)]
                     /\ at \in [Run -> Places]
                     /\ loaded \in [Run -> {"none", "gone", "RUNNING", "FAILED"}]
                     /\ raises \in 0..MaxRaises /\ unmarked \subseteq Run
<1>2. Common
  BY DEF TypeOK
<1>3. CASE Reads(r)
  <2>1. status[r] \in {"gone", "RUNNING", "FAILED"}
    BY <1>2, <1>3 DEF Reads, MayStart, RunsInHand, VerdictInHand, Terminal
  <2> QED
    BY <1>2, <1>3, <2>1 DEF Reads, Go, Keep, Elsewhere, OneRun, Exists, Places, rowVars, reportVars,
       history, bounds
<1>4. CASE Begins(r)
  BY <1>1, <1>2, <1>4 DEF Begins, Go, Keep, Elsewhere, Touch, OneRun, Exists, Places, Terminal,
     rowVars,
     reportVars, history, bounds
<1>5. CASE StartItem(r)
  BY <1>1, <1>2, <1>5 DEF StartItem, Go, Keep, Elsewhere, Touch, OneRun, Exists, Places,
     Terminal, rowVars,
     reportVars, history, bounds
<1>6. CASE FinishItem(r)
  BY <1>1, <1>2, <1>6 DEF FinishItem, Counted, Go, Keep, Elsewhere, Touch, OneRun, Exists, Places,
     Terminal, rowVars,
     reportVars, history, bounds
<1>7. CASE AppendsItem(r)
  BY <1>1, <1>2, <1>7 DEF AppendsItem, Counted, Go, Keep, Elsewhere, Touch, OneRun, Exists, Places,
     Terminal, rowVars,
     reportVars, history, bounds
<1>8. CASE Summarises(r)
  BY <1>1, <1>2, <1>8 DEF Summarises, Go, Keep, Elsewhere, Touch, OneRun, Exists, Places,
     Terminal, rowVars,
     reportVars, history, bounds
<1>9. CASE Counts(r)
  BY <1>1, <1>2, <1>9 DEF Counts, Counted, Go, Keep, Elsewhere, Touch, OneRun, Exists, Places,
     Terminal,
     rowVars,
     reportVars, history, bounds
<1>10. CASE TimesOut(r)
  BY <1>1, <1>2, <1>10 DEF TimesOut, Counted, Go, Keep, Elsewhere, Touch, OneRun, Exists, Places,
     Terminal, rowVars,
     reportVars, history, bounds
<1>11. CASE EndsLate(r)
  BY <1>1, <1>2, <1>11 DEF EndsLate, Go, Keep, Elsewhere, Touch, OneRun, Exists, Places,
     Terminal, rowVars,
     reportVars, history, bounds
<1>12. CASE Finalizes(r)
  BY <1>1, <1>2, <1>12 DEF Finalizes, Verdict, Go, Keep, Elsewhere, Touch, OneRun, Exists, Places,
     Terminal, rowVars,
     reportVars, history, bounds
<1>13. CASE Raises(r)
  BY <1>1, <1>2, <1>13 DEF Raises, Commits, Go, Keep, Elsewhere, Touch, OneRun, Exists, Places,
     Terminal,
     rowVars,
     reportVars, history, bounds
<1>14. CASE AppendsError(r)
  BY <1>1, <1>2, <1>14 DEF AppendsError, Counted, Go, Keep, Elsewhere, Touch, OneRun, Exists,
     Places,
     Terminal, rowVars,
     reportVars, history, bounds
<1>15. CASE Marks(r)
  BY <1>1, <1>2, <1>15 DEF Marks, MayMark, Go, Keep, Elsewhere, Touch, OneRun, Exists, Places,
     Terminal,
     rowVars,
     reportVars, history, bounds
<1>16. CASE MakesReport(r)
  BY <1>1, <1>2, <1>16 DEF MakesReport, Go, Keep, Elsewhere, Touch, OneRun, Exists, Places,
     Terminal,
     rowVars,
     reportVars, history, bounds
<1>17. CASE LinksReport(r)
  BY <1>1, <1>2, <1>17 DEF LinksReport, Go, Keep, Elsewhere, Touch, OneRun, Exists, Places,
     Terminal,
     rowVars,
     reportVars, history, bounds
<1> QED
  BY <1>3, <1>4, <1>5, <1>6, <1>7, <1>8, <1>9, <1>10, <1>11, <1>12, <1>13, <1>14, <1>15, <1>16,
     <1>17 DEF Executes

-----------------------------------------------------------------------------
(* An executor keeps its rows and its verdict in hand, and tells the truth. *)

\* What the history says of one run.
Truth(r) ==
    /\ status[r] = "SUCCESS" =>
          Finished(r) /\ \A i \in 1..Items : rows[r][i].found \notin {"RUNNING", "ERROR"}
    /\ status[r] = "PARTIAL_SUCCESS" => \E x \in RowsOf(rows[r]) : x.found = "ERROR"
    /\ status[r] = "RUNNING" /\ at[r] \in {"done", "dead"} => r \in unmarked \cup stranded
    /\ status[r] = "FAILED" /\ at[r] \in {"queued"} \cup Commits => r \in reaped

LEMMA TruthOfAll == RunTellsTheTruth <=> \A r \in Run : Truth(r)
  BY DEF RunTellsTheTruth, Truth

\* The rows, the verdict, the pace and the truth of one run.
Sound(r) == VerdictInHand(r) /\ (Exists(r) => RowsInHand(r) /\ Paced(r)) /\ Truth(r)

LEMMA OthersStaySound ==
    ASSUME TypeOK, RunsInHand, NEW r \in Run, Executes(r), NEW o \in Run \ {r}, Sound(o)
    PROVE  Sound(o)'
<1>1. OneRun(r)
  BY StepOfOne
<1>2. rows'[o] = rows[o]
  <2>1. rows \in [Run -> Seq(Row)]
    BY DEF TypeOK
  <2>2. CASE UNCHANGED <<rows, score>>
    BY <2>2
  <2>3. CASE Grows(r)
    BY <2>1, <2>3 DEF Grows
  <2> QED
    BY <2>2, <2>3, RowsGrow
<1>3. /\ status'[o] = status[o] /\ at'[o] = at[o] /\ age'[o] = age[o] /\ reaped' = reaped
      /\ (o \in slow' <=> o \in slow)
      /\ stranded' = stranded /\ unmarked \subseteq unmarked'
  BY <1>1 DEF OneRun
<1> QED
  BY <1>2, <1>3 DEF Sound, VerdictInHand, Exists, RowsInHand, Paced, Truth, Open, Finished

LEMMA StaysSound ==
    ASSUME TypeOK, RunsInHand, NEW r \in Run, Executes(r), Sound(r)
    PROVE  Sound(r)'
<1> DEFINE s == rows[r]
<1>1. /\ s \in Seq(Row) /\ Len(s) \in Nat /\ DOMAIN s = 1..Len(s)
      /\ Items \in Nat /\ Heartbeat \in Nat
  BY Numbers DEF TypeOK
<1>2. /\ status \in [Run -> Terminal \cup {"RUNNING", "gone"}] /\ rows \in [Run -> Seq(Row)]
      /\ score \in [Run -> 40..100] /\ age \in [Run -> 0..(Stale + 1)]
      /\ at \in [Run -> Places]
  BY DEF TypeOK
<1>3. CASE Reads(r)
  <2>1. /\ at[r] = "queued" /\ at'[r] \in {"begin", "mark"} /\ (at'[r] = "begin" => Exists(r))
        /\ UNCHANGED <<status, rows, age, reaped, unmarked, stranded>>
    BY <1>2, <1>3 DEF Reads, MayStart, Go, Keep, Elsewhere, rowVars, history
  <2> QED
    BY <2>1 DEF Sound, VerdictInHand, Exists, RowsInHand, Paced, Truth, Open, Finished, Commits
<1>4. CASE Begins(r)
  <2>1. /\ at[r] = "begin" /\ at'[r] = "items"
        /\ status'[r] \in {status[r], "RUNNING"} /\ age'[r] = 0
        /\ UNCHANGED <<rows, reaped, unmarked, stranded>> /\ Exists(r)
    BY <1>2, <1>4 DEF Begins, Go, Keep, Elsewhere, Touch, history
  <2>2. s = <<>> /\ DOMAIN s = {} /\ status[r] \notin {"SUCCESS", "PARTIAL_SUCCESS"}
        /\ (status[r] = "FAILED" => r \in reaped)
    BY <2>1 DEF Sound, RowsInHand, VerdictInHand, Truth, Commits
  <2> QED
    BY <1>1, <2>1, <2>2 DEF Sound, VerdictInHand, Exists, RowsInHand, Paced, Truth, Open, Commits
<1>5. CASE StartItem(r)
  <2> DEFINE x == [cat |-> Category(Len(s) + 1), found |-> "RUNNING"]
             t == Append(s, x)
  <2>1. /\ at[r] = "items" /\ at'[r] = "command" /\ Exists(r) /\ age'[r] = 0 /\ rows'[r] = t
        /\ UNCHANGED <<status, reaped, unmarked, stranded>>
    BY <1>2, <1>5 DEF StartItem, Go, Keep, Elsewhere, Touch, history
  <2>2. \A i \in DOMAIN s : s[i].found # "RUNNING"
    BY <2>1 DEF Sound, RowsInHand, Between, Open
  <2>3. x \in Row /\ x.found = "RUNNING"
    BY <1>1, <1>5, Numbers DEF StartItem, Finished, Row
  <2>4. /\ DOMAIN t = DOMAIN s \cup {Len(s) + 1} /\ t[Len(s) + 1] = x /\ Len(t) = Len(s) + 1
        /\ \A i \in DOMAIN s : t[i] = s[i]
    BY <1>1, <2>3, AppendCovers
  <2>5. t # <<>> /\ \A i \in DOMAIN t : t[i].found = "RUNNING" <=> i = Len(t)
    <3>1. Len(s) + 1 \notin DOMAIN s /\ Len(<<>>) = 0 /\ Len(s) + 1 # 0
      BY <1>1
    <3> HIDE DEF t, x, s
    <3>2. \A i \in DOMAIN t : t[i].found = "RUNNING" <=> i = Len(t)
      BY <2>2, <2>3, <2>4, <3>1
    <3>3. t # <<>>
      BY <2>4, <3>1
    <3> QED
      BY <3>2, <3>3
  <2> HIDE DEF t
  <2> QED
    BY <1>1, <2>1, <2>5 DEF Sound, VerdictInHand, Exists, RowsInHand, Paced, Truth, Open,
       Commits, Between
<1>6. CASE FinishItem(r)
  <2>1. PICK f \in Found : Counted(r, [s EXCEPT ![Len(s)].found = f])
    BY <1>6 DEF FinishItem
  <2> DEFINE t == [s EXCEPT ![Len(s)].found = f]
  <2>2. /\ at[r] = "command" /\ at'[r] = "items" /\ Exists(r) /\ age'[r] = 0 /\ rows'[r] = t
        /\ UNCHANGED <<status, reaped, unmarked, stranded>>
    BY <1>2, <1>6, <2>1 DEF FinishItem, Counted, Go, Keep, Elsewhere, Touch, history
  <2>3. s # <<>> /\ \A i \in DOMAIN s : s[i].found = "RUNNING" <=> i = Len(s)
    BY <2>2 DEF Sound, RowsInHand, Open
  <2>4. /\ DOMAIN t = DOMAIN s /\ t[Len(s)].found = f
        /\ \A i \in DOMAIN s : i # Len(s) => t[i] = s[i]
    <3>1. s[Len(s)].found = "RUNNING" /\ s # <<>>
      BY <1>1, <2>3
    <3> QED
      BY <1>1, <3>1, CloseCovers
  <2>5. f # "RUNNING"
    BY InspectionAssumption
  <2> HIDE DEF t
  <2>6. \A i \in DOMAIN t : t[i].found # "RUNNING"
    BY <2>3, <2>4, <2>5
  <2> QED
    BY <1>1, <2>2, <2>6 DEF Sound, VerdictInHand, Exists, RowsInHand, Paced, Truth, Open,
       Commits, Between
<1>7. ASSUME NEW x \in Row, Exists(r), rows'[r] = Append(s, x), x.found # "RUNNING",
             \A i \in DOMAIN s : s[i].found # "RUNNING"
      PROVE  \A i \in DOMAIN rows'[r] : rows'[r][i].found # "RUNNING"
  BY <1>1, <1>7, AppendCovers
<1>8. CASE AppendsItem(r)
  <2>1. PICK f \in Found : Counted(r, Append(s, [cat |-> Category(Len(s) + 1), found |-> f]))
    BY <1>8 DEF AppendsItem
  <2> DEFINE x == [cat |-> Category(Len(s) + 1), found |-> f]
  <2>2. /\ at[r] = "items" /\ at' = at /\ Exists(r) /\ age'[r] = 0 /\ rows'[r] = Append(s, x)
        /\ UNCHANGED <<status, reaped, unmarked, stranded>>
    BY <1>2, <1>8, <2>1 DEF AppendsItem, Counted, Keep, Elsewhere, Touch, history
  <2>3. x \in Row /\ x.found # "RUNNING"
    BY <1>1, <1>8, Numbers, InspectionAssumption DEF AppendsItem, Finished, Row
  <2>4. \A i \in DOMAIN s : s[i].found # "RUNNING"
    BY <2>2 DEF Sound, RowsInHand, Between, Open
  <2>5. \A i \in DOMAIN rows'[r] : rows'[r][i].found # "RUNNING"
    BY <1>7, <2>2, <2>3, <2>4
  <2> QED
    BY <1>1, <2>2, <2>5 DEF Sound, VerdictInHand, Exists, RowsInHand, Paced, Truth, Open,
       Commits, Between
<1>9. CASE Summarises(r)
  <2>1. PICK f \in {"PASS", "LOW"} :
            rows' = [rows EXCEPT ![r] = Append(@, [cat |-> "RUNTIME", found |-> f])]
    BY <1>9 DEF Summarises
  <2> DEFINE x == [cat |-> "RUNTIME", found |-> f]
  <2>2. /\ at[r] = "items" /\ at'[r] = "counts" /\ Exists(r) /\ age' = age
        /\ rows'[r] = Append(s, x)
        /\ UNCHANGED <<status, slow, reaped, unmarked, stranded>>
    BY <1>2, <1>9, <2>1 DEF Summarises, Go, Keep, Elsewhere, history
  <2>3. x \in Row /\ x.found # "RUNNING"
    BY DEF Row
  <2>4. \A i \in DOMAIN s : s[i].found # "RUNNING"
    BY <2>2 DEF Sound, RowsInHand, Between, Open
  <2>5. \A i \in DOMAIN rows'[r] : rows'[r][i].found # "RUNNING"
    BY <1>7, <2>2, <2>3, <2>4
  <2> QED
    BY <1>1, <2>2, <2>5 DEF Sound, VerdictInHand, Exists, RowsInHand, Paced, Truth, Open,
       Commits, Between
<1>10. CASE Counts(r)
  <2>1. /\ at[r] = "counts" /\ at'[r] = "close" /\ Exists(r) /\ age'[r] = 0 /\ rows'[r] = s
        /\ UNCHANGED <<status, reaped, unmarked, stranded>>
    BY <1>2, <1>10 DEF Counts, Counted, Go, Keep, Elsewhere, Touch, history
  <2> QED
    BY <1>1, <2>1 DEF Sound, VerdictInHand, Exists, RowsInHand, Paced, Truth, Open, Commits,
       Between
<1>11. SystemError \in Row /\ SystemError.found = "ERROR"
  BY DEF SystemError, Row
<1>12. CASE TimesOut(r)
  <2>1. /\ at[r] = "items" /\ at'[r] = "late" /\ Exists(r) /\ age'[r] = 0
        /\ rows'[r] = Append(s, SystemError)
        /\ UNCHANGED <<status, reaped, unmarked, stranded>>
    BY <1>2, <1>12 DEF TimesOut, Counted, Go, Keep, Elsewhere, Touch, history
  <2>2. \A i \in DOMAIN s : s[i].found # "RUNNING"
    BY <2>1 DEF Sound, RowsInHand, Between, Open
  <2>3. \A i \in DOMAIN rows'[r] : rows'[r][i].found # "RUNNING"
    BY <1>7, <1>11, <2>1, <2>2
  <2>4. \E i \in DOMAIN rows'[r] : rows'[r][i].found = "ERROR"
    BY <1>1, <1>11, <2>1, AppendCovers
  <2> QED
    BY <1>1, <2>1, <2>3, <2>4 DEF Sound, VerdictInHand, Exists, RowsInHand, Paced, Truth, Open,
       Commits, Between
<1>13. CASE EndsLate(r)
  <2>1. /\ at[r] = "late" /\ at'[r] = "done" /\ Exists(r) /\ status'[r] = "PARTIAL_SUCCESS"
        /\ UNCHANGED <<rows, reaped, unmarked, stranded>>
    BY <1>2, <1>13 DEF EndsLate, Go, Keep, Elsewhere, history
  <2>2. \E x \in RowsOf(s) : x.found = "ERROR"
    BY <2>1 DEF Sound, RowsInHand, RowsOf
  <2> QED
    BY <1>1, <2>1, <2>2 DEF Sound, VerdictInHand, Exists, RowsInHand, Paced, Truth, Open,
       Commits, Between
<1>14. CASE Finalizes(r)
  <2>1. /\ at[r] \in {"items", "close"} /\ at'[r] \in {"report", "error"}
        /\ Exists(r) /\ Finished(r)
        /\ status'[r] = Verdict(s) /\ age'[r] = 0 /\ rows' = rows
        /\ UNCHANGED <<reaped, unmarked, stranded>>
    BY <1>2, <1>14 DEF Finalizes, Go, Touch, history
  <2>2. \A i \in 1..Len(s) : s[i].found # "RUNNING" /\ s[i] \in RowsOf(s)
    BY <1>1, <2>1 DEF Sound, RowsInHand, Between, Open, RowsOf
  <2>3. Len(s) >= Items
    BY <2>1 DEF Finished
  <2>4. 1..Items \subseteq 1..Len(s)
    BY <1>1, <2>3
  <2>5. CASE \E x \in RowsOf(s) : x.found = "ERROR"
    <3>1. status'[r] = "PARTIAL_SUCCESS"
      BY <2>1, <2>5 DEF Verdict
    <3> QED
      BY <2>1, <2>5, <3>1 DEF Sound, VerdictInHand, Exists, RowsInHand, Paced, Truth, Open,
         Commits, Between
  <2>6. CASE ~\E x \in RowsOf(s) : x.found = "ERROR"
    <3>1. status'[r] = "SUCCESS"
      BY <2>1, <2>6 DEF Verdict
    <3>2. \A i \in 1..Items : s[i].found \notin {"RUNNING", "ERROR"}
      BY <2>2, <2>4, <2>6
    <3> QED
      BY <2>1, <3>1, <3>2 DEF Sound, VerdictInHand, Exists, RowsInHand, Paced, Truth, Finished,
         Commits, Between
  <2> QED
    BY <2>5, <2>6
<1>15. CASE Raises(r)
  <2>1. /\ at[r] \in Commits /\ at'[r] = "error"
        /\ UNCHANGED <<status, rows, age, reaped, unmarked, stranded>>
    BY <1>2, <1>15 DEF Raises, Go, rowVars, history
  <2> QED
    BY <2>1 DEF Sound, VerdictInHand, Exists, RowsInHand, Paced, Truth, Finished, Commits, Between
<1>16. CASE AppendsError(r)
  <2>1. /\ at[r] = "error" /\ at'[r] = "mark" /\ UNCHANGED <<reaped, unmarked, stranded>>
        /\ status' = status /\ rows'[r] \in {s, Append(s, SystemError)}
    BY <1>2, <1>16 DEF AppendsError, Counted, Go, Keep, Elsewhere, rowVars, history
  <2>2. /\ Len(Append(s, SystemError)) = Len(s) + 1
        /\ \A i \in 1..Len(s) :
              i \in DOMAIN Append(s, SystemError) /\ Append(s, SystemError)[i] = s[i]
    BY <1>1, <1>11, AppendCovers
  <2>3. Len(s) >= Items => 1..Items \subseteq 1..Len(s)
    BY <1>1
  <2>4. status[r] = "SUCCESS" =>
            /\ Len(rows'[r]) >= Items
            /\ \A i \in 1..Items : rows'[r][i].found \notin {"RUNNING", "ERROR"}
    <3>1. CASE rows'[r] = s
      BY <3>1, <2>1 DEF Sound, Truth, Finished
    <3>2. CASE rows'[r] = Append(s, SystemError)
      <4>1. status[r] = "SUCCESS" =>
               Len(s) >= Items /\ \A i \in 1..Items : s[i].found \notin {"RUNNING", "ERROR"}
        BY DEF Sound, Truth, Finished
      <4> HIDE DEF s
      <4>2. Len(s) >= Items => Len(s) + 1 >= Items
        BY <1>1
      <4> QED
        BY <2>2, <2>3, <3>2, <4>1, <4>2
    <3> QED
      BY <2>1, <3>1, <3>2
  <2>5. RowsOf(s) \subseteq RowsOf(rows'[r])
    BY <1>1, <2>1, <2>2 DEF RowsOf
  <2> QED
    BY <2>1, <2>4, <2>5 DEF Sound, VerdictInHand, Exists, RowsInHand, Paced, Truth, Finished,
       Commits, Between
<1>17. CASE Marks(r)
  <2>1. /\ at[r] = "mark" /\ at'[r] = "done" /\ UNCHANGED <<reaped, stranded, rows>>
        /\ unmarked \subseteq unmarked'
        /\ \/ status[r] = "RUNNING" /\ status'[r] = "FAILED"
           \/ r \in unmarked' /\ status' = status
           \/ status[r] # "RUNNING" /\ status' = status
    BY <1>2, <1>17 DEF Marks, MayMark, Go
  <2> QED
    BY <2>1 DEF Sound, VerdictInHand, Exists, RowsInHand, Paced, Truth, Finished, Commits, Between
<1>18. CASE MakesReport(r) \/ LinksReport(r)
  <2>1. /\ at[r] \in {"report", "link"} /\ at'[r] \in {"link", "done"}
        /\ UNCHANGED <<status, rows, reaped, unmarked, stranded>>
    BY <1>2, <1>18 DEF MakesReport, LinksReport, Go, rowVars, history
  <2> QED
    BY <2>1 DEF Sound, VerdictInHand, Exists, RowsInHand, Paced, Truth, Finished, Commits, Between
<1> QED
  BY <1>3, <1>4, <1>5, <1>6, <1>8, <1>9, <1>10, <1>12, <1>13, <1>14, <1>15, <1>16, <1>17, <1>18
     DEF Executes

\* The steps that are not an executor's leave what it relies on, or end it.
LEMMA TheRestStaysSound ==
    ASSUME TypeOK, RunsInHand, NEW r \in Run, Sound(r),
           \/ \E o \in Run : DeletionLooks(o) \/ Hangs(o)
           \/ \E x \in reports : Discards(x)
           \/ MergesReports \/ LinksMerged \/ ReaperLooks \/ ReaperWrites \/ DeletionWrites
           \/ Tick \/ Restart \/ UNCHANGED vars,
           deleting # NoRun => deleting[1] \in Run
    PROVE  Sound(r)'
<1>1. /\ status \in [Run -> Terminal \cup {"RUNNING", "gone"}] /\ rows \in [Run -> Seq(Row)]
      /\ age \in [Run -> 0..(Stale + 1)] /\ at \in [Run -> Places]
      /\ Heartbeat \in Nat /\ Stale \in Nat
  BY Numbers DEF TypeOK
<1>2. CASE \/ \E o \in Run : DeletionLooks(o) \/ Hangs(o)
           \/ \E x \in reports : Discards(x)
           \/ MergesReports \/ LinksMerged \/ ReaperLooks \/ UNCHANGED vars
  <2>1. UNCHANGED <<status, rows, age, at, reaped, unmarked, stranded>> /\ slow \subseteq slow'
    BY <1>2 DEF DeletionLooks, Hangs, Elsewhere, Discards, MergesReports, LinksMerged,
       ReaperLooks, vars,
       rowVars, history
  <2> QED
    BY <2>1 DEF Sound, VerdictInHand, Exists, RowsInHand, Paced, Truth, Open, Finished
<1>3. CASE ReaperWrites
  <2>1. /\ UNCHANGED <<rows, at, slow, unmarked, stranded>> /\ reaped \subseteq reaped'
        /\ \/ status'[r] = status[r] /\ age'[r] = age[r]
           \/ status'[r] = "FAILED" /\ age'[r] = 0 /\ Exists(r) /\ r \in reaped'
    BY <1>1, <1>3 DEF ReaperWrites
  <2> QED
    BY <1>1, <2>1 DEF Sound, VerdictInHand, Exists, RowsInHand, Paced, Truth, Open, Finished
<1>4. CASE DeletionWrites
  <2>1. /\ UNCHANGED <<age, at, slow, reaped, unmarked, stranded>>
        /\ \/ status'[r] = status[r] /\ rows'[r] = rows[r]
           \/ status'[r] = "gone"
    BY <1>1, <1>4 DEF DeletionWrites, history
  <2> QED
    BY <1>1, <2>1 DEF Sound, VerdictInHand, Exists, RowsInHand, Paced, Truth, Open, Finished
<1>5. CASE Tick
  <2>1. /\ UNCHANGED <<status, rows, at, slow, reaped, unmarked, stranded>>
        /\ at[r] \in Commits \ {"begin"} => at[r] \in {"items", "command"}
        /\ at[r] \in {"items", "command"} /\ Exists(r) => age[r] < Heartbeat \/ r \in slow
        /\ age'[r] \in {age[r], age[r] + 1} /\ age[r] \in Nat
    BY <1>1, <1>5 DEF Tick, Unhurried, Commits, history
  <2>2. at[r] \in Commits \ {"begin"} /\ Exists(r) /\ r \notin slow => age'[r] <= Heartbeat
    BY <1>1, <2>1
  <2> QED
    BY <2>1, <2>2 DEF Sound, VerdictInHand, Exists, RowsInHand, Paced, Truth, Open, Finished
<1>6. CASE Restart
  <2>1. /\ UNCHANGED <<status, rows, age, reaped, unmarked>> /\ at'[r] \in {"done", "dead"}
        /\ stranded \subseteq stranded' /\ (status[r] = "RUNNING" => r \in stranded')
    BY <1>1, <1>6 DEF Restart, rowVars
  <2> QED
    BY <2>1 DEF Sound, VerdictInHand, Exists, RowsInHand, Paced, Truth, Open, Finished,
       Commits, Between
<1> QED
  BY <1>2, <1>3, <1>4, <1>5, <1>6

-----------------------------------------------------------------------------
(* Types, and the score.                                                   *)

\* What a step leaves of the rows, whoever takes it.
RowsLeft ==
    \/ rows' = rows /\ score' = score /\ \A r \in Run : Exists(r)' => Exists(r)
    \/ \E r \in Run : Grows(r) /\ \A o \in Run : Exists(o)' => Exists(o)
    \/ DeletionWrites

LEMMA RowsStep ==
    ASSUME TypeOK, RunsInHand, [Next]_vars
    PROVE  RowsLeft
<1>1. CASE \E r \in Run : Executes(r)
  <2>1. PICK r \in Run : Executes(r)
    BY <1>1
  <2>2. OneRun(r) /\ (UNCHANGED <<rows, score>> \/ Grows(r))
    BY <2>1, RowsGrow, StepOfOne
  <2>3. \A o \in Run : Exists(o)' => Exists(o)
    BY <2>2 DEF OneRun, Exists
  <2> QED
    BY <2>2, <2>3 DEF RowsLeft
<1>2. CASE \/ \E o \in Run : DeletionLooks(o) \/ Hangs(o)
           \/ \E x \in reports : Discards(x)
           \/ MergesReports \/ LinksMerged \/ ReaperLooks \/ Tick \/ Restart \/ UNCHANGED vars
  <2>1. UNCHANGED <<status, rows, score>>
    BY <1>2 DEF DeletionLooks, Hangs, Elsewhere, Discards, MergesReports, LinksMerged,
       ReaperLooks, Tick, Restart,
       vars, rowVars
  <2> QED
    BY <2>1 DEF RowsLeft, Exists
<1>3. CASE ReaperWrites
  <2>1. rows' = rows /\ score' = score /\ \A r \in Run : Exists(r)' => Exists(r)
    BY <1>3 DEF ReaperWrites, Exists, TypeOK
  <2> QED
    BY <2>1 DEF RowsLeft
<1>4. CASE DeletionWrites
  BY <1>4 DEF RowsLeft
<1> QED
  BY <1>1, <1>2, <1>3, <1>4 DEF Next

\* Scores are scores of rows, and none rises.
LEMMA ScoreStep ==
    ASSUME TypeOK, Scored, RowsLeft, deleting # NoRun => deleting[1] \in Run
    PROVE  /\ rows' \in [Run -> Seq(Row)] /\ score' \in [Run -> 40..100]
           /\ Scored' /\ LowersScore
<1>1. rows \in [Run -> Seq(Row)] /\ score \in [Run -> 40..100]
      /\ status \in [Run -> Terminal \cup {"RUNNING", "gone"}]
  BY DEF TypeOK
<1>6. \A n \in 40..100 : n \in Int
  OBVIOUS
<1>5. \A o \in Run : score[o] \in Int
  BY <1>1, <1>6
<1>2. CASE rows' = rows /\ score' = score /\ \A r \in Run : Exists(r)' => Exists(r)
  <2>1. Scored'
    BY <1>2 DEF Scored, Exists
  <2>2. LowersScore
    BY <1>2, <1>5 DEF LowersScore
  <2> QED
    BY <1>1, <1>2, <2>1, <2>2
<1>3. CASE \E r \in Run : Grows(r) /\ \A o \in Run : Exists(o)' => Exists(o)
  <2>1. PICK r \in Run : Grows(r) /\ \A o \in Run : Exists(o)' => Exists(o)
    BY <1>3
  <2>2. PICK new \in Seq(Row) :
            /\ Covers(new, rows[r]) /\ rows' = [rows EXCEPT ![r] = new]
            /\ score' \in {score, [score EXCEPT ![r] = ScoreOf(new)]}
    BY <2>1 DEF Grows
  <2>3. ScoreOf(new) <= ScoreOf(rows[r]) /\ ScoreOf(new) \in 40..100
    BY <1>1, <2>2, ScoreFalls
  <2>4. ScoreOf(rows[r]) \in 40..100
    BY <1>1, SelfCovers, ScoreFalls
  <2>5. ScoreOf(rows[r]) <= score[r]
    BY <2>1 DEF Scored, Grows
  <2>6. /\ rows' \in [Run -> Seq(Row)] /\ score' \in [Run -> 40..100]
        /\ \A o \in Run \ {r} : rows'[o] = rows[o] /\ score'[o] = score[o]
        /\ rows'[r] = new /\ score'[r] \in {score[r], ScoreOf(new)}
    BY <1>1, <2>2, <2>3
  <2>7. ScoreOf(rows'[r]) <= score'[r] /\ score'[r] <= score[r]
    <3>1. score[r] \in Int /\ ScoreOf(rows[r]) \in Int /\ ScoreOf(new) \in Int
      BY <1>5, <1>6, <2>3, <2>4
    <3>2. ScoreOf(new) <= score[r]
      BY <2>3, <2>5, <3>1
    <3>3. ScoreOf(rows'[r]) = ScoreOf(new)
      BY <2>6
    <3> QED
      BY <2>6, <3>1, <3>2, <3>3
  <2>9. Scored'
    BY <2>1, <2>6, <2>7 DEF Scored, Exists
  <2>8. LowersScore
    BY <1>5, <2>6, <2>7 DEF LowersScore
  <2> QED
    BY <2>6, <2>8, <2>9
<1>4. CASE DeletionWrites
  <2>1. /\ deleting[1] \in Run /\ rows' = [rows EXCEPT ![deleting[1]] = <<>>]
        /\ status' = [status EXCEPT ![deleting[1]] = "gone"] /\ score' = score
    BY <1>4 DEF DeletionWrites
  <2>2. /\ rows' \in [Run -> Seq(Row)]
        /\ \A o \in Run \ {deleting[1]} : rows'[o] = rows[o] /\ status'[o] = status[o]
        /\ status'[deleting[1]] = "gone"
    BY <1>1, <2>1
  <2> QED
    BY <1>1, <1>5, <2>1, <2>2 DEF Scored, LowersScore, Exists
<1> QED
  BY <1>2, <1>3, <1>4 DEF RowsLeft

-----------------------------------------------------------------------------
(* The reports.                                                            *)

ReportType ==
    /\ reportId \in [Run -> {NoReport, Merged} \cup Run]
    /\ \A r \in Run : reportId[r] \in {NoReport, Merged, r}
    /\ reports \subseteq Run \cup {Merged} /\ orphans \subseteq Run \cup {Merged}
    /\ discarded \subseteq Run \cup {Merged} /\ merging \subseteq Run

\* What the reports rest on, with the types they need.
ReportInv ==
    /\ ReportType /\ ReportsInHand /\ ReportsAreAccountedFor
    /\ status \in [Run -> Terminal \cup {"RUNNING", "gone"}] /\ at \in [Run -> Places]

\* A step that leaves the reports alone, and no executor but finished ones at rest.
LEMMA ReportsLeft ==
    ASSUME ReportInv, UNCHANGED <<reportVars, deleting>>,
           \A r \in Run : /\ Exists(r)' <=> Exists(r)
                          /\ at'[r] = "link" <=> at[r] = "link"
                          /\ at[r] \in {"done", "dead"} => at'[r] \in {"done", "dead"}
    PROVE  ReportType' /\ ReportsInHand' /\ ReportsAreAccountedFor'
<1>1. /\ reportId' = reportId /\ reports' = reports /\ merging' = merging /\ orphans' = orphans
      /\ discarded' = discarded /\ deleting' = deleting
  BY DEF reportVars
<1>2. ReportType'
  BY <1>1 DEF ReportInv, ReportType
<1>3. ReportsInHand'
  BY <1>1 DEF ReportInv, ReportsInHand, Kept, Exists
<1>4. ReportsAreAccountedFor'
  BY <1>1 DEF ReportInv, ReportsAreAccountedFor, Exists
<1> QED
  BY <1>2, <1>3, <1>4

\* Of an executor's steps only the last two are about reports.
LEMMA ReportsOfOne ==
    ASSUME ReportInv, NEW r \in Run, Executes(r), OneRun(r), ~MakesReport(r), ~LinksReport(r)
    PROVE  ReportType' /\ ReportsInHand' /\ ReportsAreAccountedFor'
<1>1. /\ UNCHANGED reportVars /\ at[r] \notin {"link", "done", "dead"} /\ at'[r] # "link"
  <2>1. at \in [Run -> Places]
    BY DEF ReportInv
  <2>2. CASE Reads(r) \/ Begins(r) \/ StartItem(r) \/ FinishItem(r) \/ AppendsItem(r)
           \/ Summarises(r)
    BY <2>1, <2>2 DEF Reads, MayStart, Begins, StartItem, FinishItem, AppendsItem, Summarises,
       Go, Keep, Elsewhere
  <2>3. CASE Counts(r) \/ TimesOut(r) \/ EndsLate(r) \/ Finalizes(r) \/ Raises(r)
           \/ AppendsError(r) \/ Marks(r)
    BY <2>1, <2>3 DEF Counts, TimesOut, EndsLate, Finalizes, Raises, Commits, AppendsError,
       Marks, Go, Keep, Elsewhere
  <2> QED
    BY <2>2, <2>3 DEF Executes
<1>2. /\ deleting' = deleting
      /\ \A o \in Run : /\ Exists(o)' <=> Exists(o)
                        /\ at'[o] = "link" <=> at[o] = "link"
                        /\ at[o] \in {"done", "dead"} => at'[o] \in {"done", "dead"}
  BY <1>1 DEF OneRun, Exists
<1> QED
  BY <1>1, <1>2, ReportsLeft

LEMMA ReportsMade ==
    ASSUME ReportInv, NEW r \in Run, MakesReport(r)
    PROVE  ReportType' /\ ReportsInHand' /\ ReportsAreAccountedFor'
<1>1. /\ at[r] = "report" /\ at \in [Run -> Places]
      /\ \/ Exists(r) /\ reports' = reports \cup {r} /\ at' = [at EXCEPT ![r] = "link"]
         \/ ~Exists(r) /\ reports' = reports /\ at' = [at EXCEPT ![r] = "done"]
      /\ UNCHANGED <<status, reportId, merging, orphans, discarded, deleting>>
  BY DEF MakesReport, Go, rowVars, ReportInv
<1>2. /\ \A o \in Run \ {r} : at'[o] = at[o]
      /\ at'[r] \in {"link", "done"} /\ (at'[r] = "link" => r \in reports')
      /\ reports \subseteq reports' /\ reports' \subseteq reports \cup {r}
      /\ (r \in reports' => r \in reports \/ at'[r] = "link")
  BY <1>1
<1>3. ReportType'
  BY <1>1, <1>2 DEF ReportInv, ReportType
<1>4. ReportsInHand'
  BY <1>1, <1>2 DEF ReportInv, ReportsInHand, Kept, Exists
<1>5. ReportsAreAccountedFor'
  BY <1>1, <1>2 DEF ReportInv, ReportsAreAccountedFor, Exists
<1> QED
  BY <1>3, <1>4, <1>5

LEMMA ReportsLinked ==
    ASSUME ReportInv, NEW r \in Run, LinksReport(r)
    PROVE  ReportType' /\ ReportsInHand' /\ ReportsAreAccountedFor'
<1>1. /\ at[r] = "link" /\ at \in [Run -> Places] /\ at' = [at EXCEPT ![r] = "done"]
      /\ \/ /\ Exists(r) /\ reportId' = [reportId EXCEPT ![r] = r]
            /\ orphans' = orphans \cup ({reportId[r]} \ {NoReport})
         \/ ~Exists(r) /\ reportId' = reportId /\ orphans' = orphans \cup {r}
      /\ UNCHANGED <<status, reports, merging, discarded, deleting>>
  BY DEF LinksReport, Go, ReportInv
<1>2. /\ \A o \in Run \ {r} : at'[o] = at[o] /\ reportId'[o] = reportId[o]
      /\ at'[r] = "done" /\ reportId'[r] \in {reportId[r], r} /\ (Exists(r) => reportId'[r] = r)
      /\ orphans \subseteq orphans' /\ (~Exists(r) => r \in orphans')
      /\ (Exists(r) /\ reportId[r] # NoReport => reportId[r] \in orphans')
  BY <1>1 DEF ReportInv, ReportType
<1>3. ReportType'
  BY <1>1, <1>2, Names DEF ReportInv, ReportType
<1>4. ReportsInHand'
  BY <1>1, <1>2, Names DEF ReportInv, ReportsInHand, Kept, Exists
<1>5. ReportsAreAccountedFor'
  <2>1. \A o \in Run : Exists(o)' /\ reportId'[o] # NoReport =>
            reportId'[o] \in reports \cup discarded
    BY <1>1, <1>2 DEF ReportInv, ReportsAreAccountedFor, Exists, ReportsInHand, Kept
  <2>2. ASSUME NEW x \in reports
        PROVE  \/ \E o \in Run : Exists(o)' /\ reportId'[o] = x
               \/ x \in Run /\ at'[x] = "link"
               \/ x = Merged /\ merging # {}
               \/ x \in orphans'
    <3>1. x # NoReport
      BY Names DEF ReportInv, ReportType
    <3>2. CASE \E o \in Run : Exists(o) /\ reportId[o] = x
      BY <1>1, <1>2, <3>1, <3>2 DEF Exists
    <3>3. CASE x \in Run /\ at[x] = "link"
      BY <1>1, <1>2, <3>3 DEF Exists
    <3> QED
      BY <1>2, <3>2, <3>3 DEF ReportInv, ReportsAreAccountedFor
  <2> QED
    BY <1>1, <2>1, <2>2 DEF ReportsAreAccountedFor
<1> QED
  BY <1>3, <1>4, <1>5

LEMMA ReportsMerged ==
    ASSUME ReportInv, MergesReports
    PROVE  ReportType' /\ ReportsInHand' /\ ReportsAreAccountedFor'
<1>1. /\ merging = {} /\ Merged \notin Kept /\ merging' = {r \in Run : Exists(r)} /\ merging' # {}
      /\ reports' = reports \cup {Merged}
      /\ UNCHANGED <<status, at, reportId, discarded, orphans, deleting>>
  BY DEF MergesReports, Kept, rowVars
<1>2. ReportType'
  BY <1>1 DEF ReportInv, ReportType
<1>3. ReportsInHand'
  <2>1. \A r \in Run : Exists(r)' => reportId'[r] # Merged
    BY <1>1, Names DEF ReportInv, ReportsAreAccountedFor, Exists, Kept
  <2>2. deleting # NoRun => deleting[2] # Merged
    BY <1>1, Names DEF ReportInv, ReportsInHand
  <2> QED
    BY <1>1, <2>1, <2>2 DEF ReportInv, ReportsInHand, Kept, Exists
<1>4. ReportsAreAccountedFor'
  BY <1>1 DEF ReportInv, ReportsAreAccountedFor, Exists
<1> QED
  BY <1>2, <1>3, <1>4

LEMMA MergedLinked ==
    ASSUME ReportInv, LinksMerged
    PROVE  ReportType' /\ ReportsInHand' /\ ReportsAreAccountedFor'
<1>1. /\ merging # {} /\ merging' = {}
      /\ reportId' = [r \in Run |-> IF r \in merging /\ Exists(r) THEN Merged ELSE reportId[r]]
      /\ orphans' = orphans \cup ({reportId[r] : r \in merging} \ {NoReport}) \cup
                     (IF \E r \in merging : Exists(r) THEN {} ELSE {Merged})
      /\ UNCHANGED <<status, at, reports, discarded, deleting>>
  BY DEF LinksMerged, rowVars
<1>2. /\ \A r \in Run : reportId'[r] = IF r \in merging /\ Exists(r) THEN Merged ELSE reportId[r]
      /\ orphans \subseteq orphans' /\ merging \subseteq Run
      /\ \A r \in merging : reportId[r] # NoReport => reportId[r] \in orphans'
      /\ (\A r \in merging : ~Exists(r)) => Merged \in orphans'
  BY <1>1 DEF ReportInv, ReportType
<1>3. ReportType'
  BY <1>1, <1>2, Names DEF ReportInv, ReportType
<1>4. ReportsInHand'
  BY <1>1, <1>2, Names DEF ReportInv, ReportsInHand, Kept, Exists
<1>5. ReportsAreAccountedFor'
  <2>1. \A o \in Run : Exists(o)' /\ reportId'[o] # NoReport =>
            reportId'[o] \in reports \cup discarded
    BY <1>1, <1>2 DEF ReportInv, ReportsAreAccountedFor, Exists, ReportsInHand, Kept
  <2>2. ASSUME NEW x \in reports
        PROVE  \/ \E o \in Run : Exists(o)' /\ reportId'[o] = x
               \/ x \in Run /\ at'[x] = "link"
               \/ x \in orphans'
    <3>1. x # NoReport
      BY Names DEF ReportInv, ReportType
    <3>2. CASE \E o \in Run : Exists(o) /\ reportId[o] = x
      BY <1>1, <1>2, <3>1, <3>2 DEF Exists
    <3>3. CASE x = Merged /\ merging # {}
      BY <1>1, <1>2, <3>3 DEF Exists
    <3>4. CASE (x \in Run /\ at[x] = "link") \/ x \in orphans
      BY <1>1, <1>2, <3>4
    <3> QED
      BY <3>2, <3>3, <3>4 DEF ReportInv, ReportsAreAccountedFor
  <2> QED
    BY <1>1, <2>1, <2>2 DEF ReportsAreAccountedFor
<1> QED
  BY <1>3, <1>4, <1>5

LEMMA ReportDiscarded ==
    ASSUME ReportInv, NEW x \in reports, Discards(x)
    PROVE  ReportType' /\ ReportsInHand' /\ ReportsAreAccountedFor'
<1>1. /\ Kept' = Kept /\ reports' \subseteq reports /\ discarded' = discarded \cup {x}
      /\ UNCHANGED <<status, at, reportId, merging, orphans, deleting>>
  BY DEF Discards, Kept, rowVars
<1>2. ReportType'
  BY <1>1 DEF ReportInv, ReportType
<1>3. ReportsInHand'
  BY <1>1 DEF ReportInv, ReportsInHand, Exists
<1>4. ReportsAreAccountedFor'
  BY <1>1 DEF ReportInv, ReportsAreAccountedFor, Exists, Kept
<1> QED
  BY <1>2, <1>3, <1>4

LEMMA ReportLooked ==
    ASSUME ReportInv, NEW r \in Run, DeletionLooks(r)
    PROVE  ReportType' /\ ReportsInHand' /\ ReportsAreAccountedFor'
<1>1. /\ Exists(r) /\ deleting' = <<r, reportId[r]>>
      /\ UNCHANGED <<status, at, reportId, reports, merging, orphans, discarded>>
  BY DEF DeletionLooks, Hangs, Elsewhere, rowVars, reportVars
<1>2. /\ deleting'[1] = r /\ deleting'[2] = reportId[r]
  BY <1>1
<1>3. ReportType'
  BY <1>1 DEF ReportInv, ReportType
<1>4. ReportsInHand'
  <2>1. reportId[r] # NoReport => reportId[r] \in Kept
    BY <1>1 DEF ReportInv, ReportsAreAccountedFor, Kept
  <2>2. reportId[r] = r => at[r] \in {"done", "dead"}
    BY DEF ReportInv, ReportsInHand
  <2>3. merging # {} => reportId[r] # Merged
    BY <1>1 DEF ReportInv, ReportsInHand
  <2>4. reportId[r] \in {NoReport, Merged, r}
    BY DEF ReportInv, ReportType
  <2> QED
    BY <1>1, <1>2, <2>1, <2>2, <2>3, <2>4 DEF ReportInv, ReportsInHand, Kept, Exists
<1>5. ReportsAreAccountedFor'
  BY <1>1 DEF ReportInv, ReportsAreAccountedFor, Exists
<1> QED
  BY <1>3, <1>4, <1>5

LEMMA ReportDeleted ==
    ASSUME ReportInv, DeletionWrites
    PROVE  ReportType' /\ ReportsInHand' /\ ReportsAreAccountedFor'
<1> DEFINE d == deleting[1]
           x == deleting[2]
<1>1. /\ deleting # NoRun /\ deleting' = NoRun /\ status' = [status EXCEPT ![d] = "gone"]
      /\ reports' = IF DropsReport(d, x) THEN reports \ {x} ELSE reports
      /\ orphans' = orphans \cup ({reportId[d]} \ {x, NoReport})
      /\ UNCHANGED <<at, reportId, merging, discarded>>
  BY DEF DeletionWrites
<1>2. /\ d \in Run /\ x \in {NoReport, Merged, d} /\ (x = d => at[d] \in {"done", "dead"})
      /\ merging # {} => x # Merged
  BY <1>1 DEF ReportInv, ReportsInHand
<1>3. /\ \A o \in Run \ {d} : status'[o] = status[o]
      /\ status'[d] = "gone" /\ reports' \subseteq reports /\ reports \ {x} \subseteq reports'
      /\ orphans \subseteq orphans'
      /\ (reportId[d] \notin {x, NoReport} => reportId[d] \in orphans')
  BY <1>1, <1>2 DEF ReportInv
<1>4. x \in reports \ reports' => \A o \in Run \ {d} : Exists(o) => reportId[o] # x
  BY <1>1 DEF DropsReport
<1>5. x \in reports' => \E o \in Run \ {d} : Exists(o) /\ reportId[o] = x
  <2>1. x \in reports' => x # NoReport /\ ~DropsReport(d, x)
    BY <1>1, Names DEF ReportInv, ReportType
  <2> QED
    BY <2>1 DEF DropsReport
<1> HIDE DEF d, x
<1>6. ReportType'
  <2>1. orphans' \subseteq Run \cup {Merged}
    BY <1>1, <1>2 DEF ReportInv, ReportType
  <2> QED
    BY <1>1, <1>3, <2>1 DEF ReportInv, ReportType
<1>7. ReportsInHand'
  <2>1. \A r \in Run : at'[r] = "link" => r \in Kept'
    BY <1>1, <1>2, <1>3, Names DEF ReportInv, ReportsInHand, Kept
  <2>2. merging' # {} => Merged \in Kept' /\ \A r \in Run : Exists(r)' => reportId'[r] # Merged
    BY <1>1, <1>2, <1>3, Names DEF ReportInv, ReportsInHand, Kept, Exists
  <2> QED
    BY <1>1, <2>1, <2>2 DEF ReportInv, ReportsInHand
<1>8. ReportsAreAccountedFor'
  <2>1. ASSUME NEW o \in Run, Exists(o)', reportId[o] # NoReport
        PROVE  reportId[o] \in reports' \cup discarded
    <3>1. o # d /\ Exists(o)
      BY <1>3, <2>1 DEF Exists
    <3>2. reportId[o] \in reports \cup discarded
      BY <2>1, <3>1 DEF ReportInv, ReportsAreAccountedFor
    <3> QED
      BY <1>3, <1>4, <3>1, <3>2
  <2>2. ASSUME NEW y \in reports'
        PROVE  \/ \E o \in Run : Exists(o)' /\ reportId[o] = y
               \/ y \in Run /\ at[y] = "link"
               \/ y = Merged /\ merging # {}
               \/ y \in orphans'
    <3>1. y \in reports /\ y # NoReport
      BY <1>3, Names DEF ReportInv, ReportType
    <3>2. CASE \E o \in Run \ {d} : Exists(o) /\ reportId[o] = y
      BY <1>3, <3>2 DEF Exists
    <3>3. CASE reportId[d] = y
      BY <1>3, <1>5, <3>1, <3>2, <3>3
    <3> QED
      BY <1>3, <3>1, <3>2, <3>3 DEF ReportInv, ReportsAreAccountedFor
  <2> QED
    BY <1>1, <2>1, <2>2 DEF ReportsAreAccountedFor
<1> QED
  BY <1>6, <1>7, <1>8

LEMMA ReportsAfterRestart ==
    ASSUME ReportInv, Restart
    PROVE  ReportType' /\ ReportsInHand' /\ ReportsAreAccountedFor'
<1>1. /\ at' = [r \in Run |-> IF at[r] = "done" THEN "done" ELSE "dead"]
      /\ orphans' = orphans \cup {r \in Run : at[r] = "link"}
                     \cup (IF merging # {} THEN {Merged} ELSE {})
      /\ merging' = {} /\ deleting' = NoRun
      /\ UNCHANGED <<status, reportId, reports, discarded>>
  BY DEF Restart, rowVars
<1>2. ReportType'
  BY <1>1 DEF ReportInv, ReportType
<1>3. ReportsInHand'
  BY <1>1 DEF ReportInv, ReportsInHand, Kept, Exists
<1>4. ReportsAreAccountedFor'
  BY <1>1 DEF ReportInv, ReportsAreAccountedFor, Exists
<1> QED
  BY <1>2, <1>3, <1>4

LEMMA ReportsStep ==
    ASSUME TypeOK, RunsInHand, ReportInv, [Next]_vars
    PROVE  ReportType' /\ ReportsInHand' /\ ReportsAreAccountedFor'
<1>1. ASSUME NEW r \in Run, Executes(r)
      PROVE  ReportType' /\ ReportsInHand' /\ ReportsAreAccountedFor'
  BY <1>1, StepOfOne, ReportsOfOne, ReportsMade, ReportsLinked
<1>2. CASE (\E r \in Run : Hangs(r)) \/ ReaperLooks \/ ReaperWrites \/ Tick \/ UNCHANGED vars
  <2>1. /\ UNCHANGED <<reportVars, deleting, at>>
        /\ \A r \in Run : Exists(r)' <=> Exists(r)
    BY <1>2 DEF Hangs, Elsewhere, ReaperLooks, ReaperWrites, Tick, vars, rowVars, Exists, ReportInv
  <2> QED
    BY <2>1, ReportsLeft
<1> QED
  BY <1>1, <1>2, ReportsMerged, MergedLinked, ReportDiscarded, ReportLooked, ReportDeleted,
     ReportsAfterRestart DEF Next

-----------------------------------------------------------------------------
(* Every state, and every step.                                            *)

LEMMA InitInv == Init => IndInv
<1> SUFFICES ASSUME Init PROVE IndInv
  OBVIOUS
<1>1. PICK there \in SUBSET Run :
          /\ status = [r \in Run |-> IF r \in there THEN "RUNNING" ELSE "gone"]
          /\ at = [r \in Run |-> IF r \in there THEN "queued" ELSE "done"]
  BY DEF Init
<1>2. /\ rows = [r \in Run |-> <<>>] /\ <<>> \in Seq(Row)
      /\ score = [r \in Run |-> 100] /\ age = [r \in Run |-> 0]
      /\ reportId = [r \in Run |-> NoReport] /\ reports = {} /\ merging = {} /\ orphans = {}
      /\ discarded = {} /\ loaded = [r \in Run |-> "none"] /\ slow = {}
      /\ reaping = {} /\ deleting = NoRun
      /\ reaped = {} /\ unmarked = {} /\ stranded = {} /\ restarts = 0 /\ raises = 0
  BY DEF Init
<1>3. TypeOK
  <2>1. 0 \in 0..(Stale + 1) /\ 100 \in 40..100 /\ 0 \in 0..MaxRestarts /\ 0 \in 0..MaxRaises
    BY Numbers, InspectionAssumption
  <2> QED
    BY <1>1, <1>2, <2>1 DEF TypeOK, Places
<1>4. RunTellsTheTruth
  BY <1>1, <1>2 DEF RunTellsTheTruth
<1>5. RunsInHand
  BY <1>1, <1>2 DEF RunsInHand, VerdictInHand, RowsInHand, Paced, Exists, Open, Commits
<1>6. Scored
  <2>1. ScoreOf(<<>>) \in 40..100
    BY <1>2, SelfCovers, ScoreFalls
  <2>2. ScoreOf(<<>>) <= 100
    <3>1. \A n \in 40..100 : n <= 100
      OBVIOUS
    <3> QED
      BY <2>1, <3>1, Zenon
  <2>3. \A r \in Run : rows[r] = <<>> /\ score[r] = 100
    BY <1>2
  <2> QED
    BY <2>2, <2>3 DEF Scored
<1>7. ReportsInHand
  BY <1>1, <1>2, Names DEF ReportsInHand
<1>8. ReportsAreAccountedFor
  BY <1>2 DEF ReportsAreAccountedFor
<1> QED
  BY <1>3, <1>4, <1>5, <1>6, <1>7, <1>8 DEF IndInv

\* The steps between two others, of time, deletions and the reaper, keep the types.
LEMMA TypesOfTheRest ==
    ASSUME TypeOK, deleting # NoRun => deleting[1] \in Run, [Next]_vars,
           ~\E r \in Run : Executes(r)
    PROVE  /\ status' \in [Run -> Terminal \cup {"RUNNING", "gone"}]
           /\ age' \in [Run -> 0..(Stale + 1)]
           /\ at' \in [Run -> Places] /\ loaded' \in [Run -> {"none", "gone", "RUNNING", "FAILED"}]
           /\ \A x \in {slow', reaping', reaped', unmarked', stranded'} : x \subseteq Run
           /\ restarts' \in 0..MaxRestarts /\ raises' \in 0..MaxRaises
<1>1. /\ status \in [Run -> Terminal \cup {"RUNNING", "gone"}]
      /\ age \in [Run -> 0..(Stale + 1)]
      /\ at \in [Run -> Places] /\ loaded \in [Run -> {"none", "gone", "RUNNING", "FAILED"}]
      /\ slow \subseteq Run /\ reaping \subseteq Run /\ reaped \subseteq Run
      /\ unmarked \subseteq Run /\ stranded \subseteq Run
      /\ restarts \in 0..MaxRestarts /\ raises \in 0..MaxRaises
      /\ Stale \in Nat /\ MaxRestarts \in Nat
  BY Numbers, InspectionAssumption DEF TypeOK
<1>2. CASE \/ \E o \in Run : DeletionLooks(o) \/ Hangs(o)
           \/ \E x \in reports : Discards(x)
           \/ MergesReports \/ LinksMerged \/ UNCHANGED vars
  <2>1. /\ UNCHANGED <<status, age, at, loaded, reaping, reaped, unmarked, stranded,
                       restarts, raises>>
        /\ slow' \subseteq Run
    BY <1>1, <1>2 DEF DeletionLooks, Hangs, Elsewhere, Discards, MergesReports, LinksMerged,
       vars, rowVars, history, bounds
  <2> QED
    BY <1>1, <2>1
<1>3. CASE ReaperLooks
  <2>1. /\ UNCHANGED <<status, age, at, loaded, slow, reaped, unmarked, stranded, restarts,
                       raises>>
        /\ reaping' \subseteq Run
    BY <1>3 DEF ReaperLooks, rowVars, history, bounds
  <2> QED
    BY <1>1, <2>1
<1>4. CASE ReaperWrites
  BY <1>1, <1>4 DEF ReaperWrites, bounds, Terminal
<1>5. CASE DeletionWrites
  BY <1>1, <1>5 DEF DeletionWrites, history, bounds
<1>6. CASE Tick
  BY <1>1, <1>6 DEF Tick, history, bounds
<1>7. CASE Restart
  BY <1>1, <1>7 DEF Restart, rowVars, Places
<1> QED
  BY <1>2, <1>3, <1>4, <1>5, <1>6, <1>7 DEF Next

LEMMA IndStep == IndInv /\ [Next]_vars => IndInv' /\ LowersScore
<1> SUFFICES ASSUME IndInv, [Next]_vars PROVE IndInv' /\ LowersScore
  OBVIOUS
<1>1. TypeOK /\ RunsInHand /\ Scored /\ \A r \in Run : Sound(r)
  BY TruthOfAll DEF IndInv, RunsInHand, Sound
<1>2. ReportInv
  <2>1. \A x \in {reports, orphans, discarded} : x \subseteq Run \cup {Merged}
    BY DEF IndInv, TypeOK
  <2>2. merging \subseteq Run
    BY DEF IndInv, TypeOK
  <2> QED
    BY <2>1, <2>2 DEF IndInv, TypeOK, ReportInv, ReportType
<1>3. deleting # NoRun => deleting[1] \in Run
  BY <1>2 DEF ReportInv, ReportsInHand
<1>4. ReportType' /\ ReportsInHand' /\ ReportsAreAccountedFor'
  BY <1>1, <1>2, ReportsStep
<1>5. /\ rows' \in [Run -> Seq(Row)] /\ score' \in [Run -> 40..100]
      /\ Scored' /\ LowersScore
  BY <1>1, <1>3, RowsStep, ScoreStep
<1>6. \A r \in Run : Sound(r)'
  <2>1. CASE \E o \in Run : Executes(o)
    BY <1>1, <2>1, StaysSound, OthersStaySound
  <2>2. CASE ~\E o \in Run : Executes(o)
    <3>1. \/ \E o \in Run : DeletionLooks(o) \/ Hangs(o)
          \/ \E x \in reports : Discards(x)
          \/ MergesReports \/ LinksMerged \/ ReaperLooks \/ ReaperWrites \/ DeletionWrites
          \/ Tick \/ Restart \/ UNCHANGED vars
      BY <2>2 DEF Next
    <3> QED
      BY <1>1, <1>3, <3>1, TheRestStaysSound
  <2> QED
    BY <2>1, <2>2
<1>7. RunsInHand' /\ RunTellsTheTruth'
  BY <1>6 DEF Sound, RunsInHand, RunTellsTheTruth, Truth, Finished
<1>8. TypeOK'
  <2>1. /\ status' \in [Run -> Terminal \cup {"RUNNING", "gone"}]
        /\ age' \in [Run -> 0..(Stale + 1)]
        /\ at' \in [Run -> Places] /\ loaded' \in [Run -> {"none", "gone", "RUNNING", "FAILED"}]
        /\ \A x \in {slow', reaping', reaped', unmarked', stranded'} : x \subseteq Run
        /\ restarts' \in 0..MaxRestarts /\ raises' \in 0..MaxRaises
    <3>1. CASE \E r \in Run : Executes(r)
      <4>1. PICK r \in Run : OneRun(r)
        BY <1>1, <3>1, StepOfOne
      <4>2. /\ slow \subseteq Run /\ reaping \subseteq Run
            /\ reaped \subseteq Run /\ stranded \subseteq Run
            /\ restarts \in 0..MaxRestarts
        BY <1>1 DEF TypeOK
      <4> QED
        BY <4>1, <4>2 DEF OneRun
    <3>2. CASE ~\E r \in Run : Executes(r)
      BY <1>1, <1>3, <3>2, TypesOfTheRest
    <3> QED
      BY <3>1, <3>2
  <2>2. /\ reportId' \in [Run -> {NoReport, Merged} \cup Run]
        /\ \A r \in Run : reportId'[r] \in {NoReport, Merged, r}
        /\ \A x \in {reports', orphans', discarded', merging'} : x \subseteq Run \cup {Merged}
        /\ merging' \subseteq Run
    BY <1>4 DEF ReportType
  <2> QED
    BY <1>5, <2>1, <2>2 DEF TypeOK
<1> QED
  BY <1>4, <1>5, <1>7, <1>8 DEF IndInv

\* What a step does to verdicts.
LEMMA VerdictStep == IndInv /\ Next => KeepsVerdict /\ ReapsTheSilent
<1> SUFFICES ASSUME IndInv, Next PROVE KeepsVerdict /\ ReapsTheSilent
  OBVIOUS
<1>1. /\ status \in [Run -> Terminal \cup {"RUNNING", "gone"}] /\ at \in [Run -> Places]
      /\ age \in [Run -> 0..(Stale + 1)]
      /\ \A r \in Run : VerdictInHand(r) /\ (Exists(r) => Paced(r))
      /\ \A r \in Run : status[r] = "FAILED" /\ at[r] \in Commits => r \in reaped
  BY DEF IndInv, TypeOK, RunsInHand, RunTellsTheTruth
<1>2. ASSUME NEW r \in Run, Executes(r) PROVE KeepsVerdict /\ ReapsTheSilent
  <2>1. OneRun(r)
    BY <1>2, StepOfOne DEF IndInv
  <2>2. status[r] \in Terminal /\ status'[r] \notin {status[r], "gone"} => r \in reaped
    <3>1. CASE at[r] \in Commits
      BY <1>1, <3>1 DEF VerdictInHand, Commits, Terminal
    <3>2. CASE at[r] \notin Commits
      <4>1. status[r] \in Terminal => status'[r] = status[r]
        BY <1>1, <1>2, <3>2 DEF Executes, Reads, MayStart, Begins, StartItem, FinishItem,
           AppendsItem,
           Summarises, Counts, TimesOut, EndsLate, Finalizes, Raises, AppendsError, Marks,
           MayMark,
           MakesReport, LinksReport, Commits, Terminal, rowVars
      <4> QED
        BY <4>1
    <3> QED
      BY <3>1, <3>2
  <2> QED
    BY <2>1, <2>2 DEF OneRun, KeepsVerdict, ReapsTheSilent
<1>3. CASE \/ \E o \in Run : DeletionLooks(o) \/ Hangs(o)
           \/ \E x \in reports : Discards(x)
           \/ MergesReports \/ LinksMerged \/ Tick \/ Restart
  <2>1. status' = status /\ reaping' \in {reaping, {}}
    BY <1>3 DEF DeletionLooks, Hangs, Elsewhere, Discards, MergesReports, LinksMerged, Tick,
       Restart, rowVars
  <2> QED
    BY <2>1 DEF KeepsVerdict, ReapsTheSilent
<1>4. CASE ReaperLooks
  <2>1. /\ status' = status
        /\ \A r \in Run : status[r] = "RUNNING" => age[r] > Heartbeat
    BY <1>4 DEF ReaperLooks, NobodyAdvances, rowVars
  <2>2. ASSUME NEW r \in Run \ slow, at[r] \in Commits \ {"begin"}, status[r] = "RUNNING"
        PROVE  FALSE
    <3>1. age[r] > Heartbeat /\ age[r] <= Heartbeat /\ age[r] \in Int
      BY <1>1, <2>1, <2>2 DEF Paced, Exists
    <3> QED
      BY <3>1, Numbers
  <2> QED
    BY <2>1, <2>2 DEF KeepsVerdict, ReapsTheSilent
<1>5. CASE ReaperWrites
  BY <1>1, <1>5 DEF ReaperWrites, KeepsVerdict, ReapsTheSilent
<1>6. CASE DeletionWrites
  BY <1>1, <1>6 DEF DeletionWrites, KeepsVerdict, ReapsTheSilent
<1> QED
  BY <1>2, <1>3, <1>4, <1>5, <1>6 DEF Next

\* The inductive invariant: every run's row, its verdict, its score and its reports
\* are in a state that its executor, the reaper and the deletion can go on from.
THEOREM Invariance == Spec => []IndInv
<1>1. IndInv /\ [Next]_vars => IndInv'
  BY IndStep
<1> QED
  BY InitInv, <1>1, PTL DEF Spec

\* A run's row is well formed and tells the truth, however the pool, the reaper,
\* deletions, reports, errors and restarts interleave.
THEOREM RunsAreSound == Spec => []RunIsSound
<1>1. IndInv => RunIsSound
  BY DEF IndInv, RunIsSound
<1> QED
  BY Invariance, <1>1, PTL

\* The report a run refers to is there unless it was discarded, and no report is
\* forgotten but those whose run was deleted or linked anew meanwhile.
THEOREM ReportsAccountedFor == Spec => []ReportsAreAccountedFor
<1>1. IndInv => ReportsAreAccountedFor
  BY DEF IndInv
<1> QED
  BY Invariance, <1>1, PTL

\* No step takes back a verdict that was shown, gives up a run that is at work and does
\* not hang, or lets a score rise.
THEOREM VerdictsAreFinal == Spec => VerdictIsFinal
<1>1. IndInv /\ [Next]_vars => [KeepsVerdict /\ ReapsTheSilent /\ LowersScore]_vars
  BY IndStep, VerdictStep
<1> QED
  BY Invariance, <1>1, PTL DEF Spec, VerdictIsFinal
=============================================================================
