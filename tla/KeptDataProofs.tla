----------------------------- MODULE KeptDataProofs --------------------------
(***************************************************************************)
(* Proofs about LogRetention for any number of rows, cleaners and calls,   *)
(* and any length of a month; and about Backup for any calls, any number   *)
(* of backups that are kept and of versions of the data.                   *)
(***************************************************************************)
EXTENDS LogRetention, Backup, TLAPS

\* The places of the members that are being written.
Busy(m) == {open[c] : c \in {e \in Cleaner : open[e] # 0 /\ Of(e) = m}}

\* The rows of the members whose writing is over.
Safe(m) == UNION {archive[m][i].rows : i \in DOMAIN archive[m] \ Busy(m)}

\* A call writes one member of its own, with the rows it did not find, and deletes
\* nothing but what it selected.
Calls ==
    /\ \A c \in Cleaner : open[c] # 0 <=> pc[c] = "writing"
    /\ \A c \in Cleaner : pc[c] \in {"read", "append", "writing"} => keep[c]
    /\ \A c \in Cleaner : pc[c] # "idle" => Due(c) \subseteq seen[c]
    /\ \A c, d \in Cleaner : c # d /\ open[c] # 0 /\ Of(c) = Of(d) => open[c] # open[d]
    /\ \A c \in Cleaner : open[c] # 0 => archive[Of(c)][open[c]].rows = New(c)

\* What a call found, or is about to delete, and what is gone, is in members whose writing
\* is over; and these can be read unless one was cut off or mixed.
Kept ==
    /\ \A c \in Cleaner : pc[c] \in {"append", "writing"} => known[c] \subseteq Safe(Of(c))
    /\ \A c \in Cleaner : pc[c] = "delete" /\ keep[c] => seen[c] \subseteq Safe(Of(c))
    /\ \A r \in Row \ (table \cup waived) : \E m \in Month : r \in Safe(m)
    /\ \A m \in Month \ cut : Sound(m)

\* Unless calls crossed, one at a time is between reading and closing an archive, and it
\* knows all that is in it.
Once ==
    /\ \A c, d \in Cleaner : /\ pc[c] \in {"append", "writing"} /\ pc[d] \in {"append", "writing"}
                             /\ Of(c) = Of(d) /\ Of(c) \notin crossed
                             => c = d
    /\ \A c \in Cleaner : pc[c] = "append" /\ Of(c) \notin cut \cup crossed
                             => known[c] = Held(Of(c))

\* The inductive invariant.
IndInv == TypeOK /\ Calls /\ Kept /\ Once /\ OncePerArchive

-----------------------------------------------------------------------------
\* A function on 1..n is a sequence of length n.
LEMMA Sequence ==
    ASSUME NEW S, NEW n \in Nat, NEW f \in [1..n -> S]
    PROVE  f \in Seq(S) /\ Len(f) = n /\ DOMAIN f = 1..n
  OBVIOUS

\* div is monotonic.
LEMMA Division ==
    ASSUME NEW a \in Nat, NEW b \in Nat, NEW p \in Nat \ {0}, a <= b
    PROVE  a \div p \in Nat /\ b \div p \in Nat /\ a \div p <= b \div p
<1>1. a \div p \in Nat /\ b \div p \in Nat
  OBVIOUS
<1>2. a \div p <= b \div p
  OBVIOUS
<1> QED
  BY <1>1, <1>2

\* The month of a cutoff is one of the months.
LEMMA Months ==
    ASSUME TypeOK, NEW c \in Cleaner
    PROVE  Of(c) \in Month
<1>1. cutoff[c] \in Nat /\ cutoff[c] <= Rows /\ Rows \in Nat /\ PerMonth \in Nat \ {0}
  BY RetentionAssumption DEF TypeOK
<1>2. Of(c) \in Nat /\ Of(c) <= Rows \div PerMonth /\ Rows \div PerMonth \in Nat
  BY <1>1, Division DEF Of
<1> QED
  BY <1>2 DEF Month

\* The members of an archive.
LEMMA Members ==
    ASSUME TypeOK, NEW m \in Month
    PROVE  /\ archive[m] \in Seq(Member) /\ Len(archive[m]) \in Nat
           /\ DOMAIN archive[m] = 1..Len(archive[m])
           /\ \A i \in 1..Len(archive[m]) : /\ archive[m][i] \in Member
                                            /\ archive[m][i].rows \subseteq Row
                                            /\ archive[m][i].sound \in BOOLEAN
<1>1. archive[m] \in Seq(Member)
  BY DEF TypeOK
<1>2. Len(archive[m]) \in Nat /\ DOMAIN archive[m] = 1..Len(archive[m])
      /\ \A i \in 1..Len(archive[m]) : archive[m][i] \in Member
  BY <1>1
<1> QED
  BY <1>1, <1>2 DEF Member

\* An append leaves the other archives alone, keeps the rows of every member, does not
\* touch those that are closed, and adds one with the rows that were not found.
LEMMA Appended ==
    ASSUME TypeOK, NEW c \in Cleaner, Begins(c)
    PROVE  /\ DOMAIN archive' = Month
           /\ \A k \in Month : archive'[k] \in Seq(Member)
           /\ \A k \in Month \ {Of(c)} : archive'[k] = archive[k]
           /\ Len(archive'[Of(c)]) = Len(archive[Of(c)]) + 1
           /\ \A i \in 1..Len(archive[Of(c)]) :
                 /\ archive'[Of(c)][i].rows = archive[Of(c)][i].rows
                 /\ i \notin Busy(Of(c)) => archive'[Of(c)][i] = archive[Of(c)][i]
           /\ archive'[Of(c)][Len(archive[Of(c)]) + 1].rows = New(c)
           /\ Busy(Of(c)) = {} => archive'[Of(c)][Len(archive[Of(c)]) + 1].sound
           /\ Of(c) \notin cut' => Busy(Of(c)) = {}
           /\ cut \subseteq cut' /\ cut' \subseteq Month
<1> DEFINE m == Of(c)
           n == Len(archive[m])
           others == {e \in Cleaner : open[e] # 0 /\ Of(e) = m}
           marked == [i \in DOMAIN archive[m] |->
                        IF \E e \in others : open[e] = i THEN [archive[m][i] EXCEPT !.sound = FALSE]
                        ELSE archive[m][i]]
           new == [rows |-> New(c), sound |-> others = {}]
<1>1. m \in Month /\ DOMAIN archive = Month
  BY Months DEF TypeOK
<1>2. archive' = [archive EXCEPT ![m] = Append(marked, new)]
  BY DEF Begins
<1>3. n \in Nat /\ DOMAIN archive[m] = 1..n /\ \A i \in 1..n : archive[m][i] \in Member
  BY <1>1, Members
<1>4. \A i \in 1..n : [archive[m][i] EXCEPT !.sound = FALSE] \in Member
                      /\ [archive[m][i] EXCEPT !.sound = FALSE].rows = archive[m][i].rows
  BY <1>3 DEF Member
<1>5. marked \in [1..n -> Member] /\ \A i \in 1..n : marked[i].rows = archive[m][i].rows
  BY <1>3, <1>4
<1>6. marked \in Seq(Member) /\ Len(marked) = n
  BY <1>3, <1>5, Sequence
<1>7. new \in Member
  BY DEF TypeOK, New, Member
<1>14. new.rows = New(c) /\ (others = {} => new.sound)
  OBVIOUS
<1> HIDE DEF new, marked, others
<1>8. Append(marked, new) \in Seq(Member) /\ Len(Append(marked, new)) = n + 1
      /\ (\A i \in 1..n : Append(marked, new)[i] = marked[i]) /\ Append(marked, new)[n + 1] = new
  BY <1>3, <1>6, <1>7
<1>9. archive'[m] = Append(marked, new) /\ DOMAIN archive' = Month
      /\ \A k \in Month \ {m} : archive'[k] = archive[k]
  BY <1>1, <1>2
<1>10. Busy(m) = {} <=> others = {}
  BY DEF Busy, others
<1>11. \A i \in 1..n : i \notin Busy(m) => marked[i] = archive[m][i]
  BY <1>3 DEF Busy, marked, others
<1>12. \A k \in Month : archive'[k] \in Seq(Member)
  BY <1>8, <1>9 DEF TypeOK
<1>13. /\ cut' = IF others = {} THEN cut ELSE cut \cup {m}
       /\ cut \subseteq Month
  BY DEF Begins, TypeOK, others
<1> QED
  BY <1>1, <1>5, <1>8, <1>9, <1>10, <1>11, <1>12, <1>13, <1>14

\* What is left of a member has no row that was not in it.
LEMMA Leftover ==
    ASSUME NEW x \in Member, NEW part
    PROVE  Left(x, part) \in Member /\ Left(x, part).rows \subseteq x.rows
  BY DEF Left, Member

\* A write that fails damages the member that was being written, and no other.
LEMMA Broken ==
    ASSUME TypeOK, Calls, NEW c \in Cleaner, Breaks(c)
    PROVE  /\ Of(c) \in Month /\ open[c] \in 1..Len(archive[Of(c)])
           /\ DOMAIN archive' = Month /\ cut' = cut \cup {Of(c)} /\ cut' \subseteq Month
           /\ \A k \in Month : archive'[k] \in Seq(Member) /\ Len(archive'[k]) = Len(archive[k])
           /\ \A k \in Month \ {Of(c)} : archive'[k] = archive[k]
           /\ \A i \in 1..Len(archive[Of(c)]) :
                 /\ archive'[Of(c)][i].rows \subseteq archive[Of(c)][i].rows
                 /\ i # open[c] => archive'[Of(c)][i] = archive[Of(c)][i]
<1> DEFINE m == Of(c)
           n == Len(archive[m])
<1>1. m \in Month /\ DOMAIN archive = Month /\ archive[m] \in Seq(Member)
      /\ n \in Nat /\ DOMAIN archive[m] = 1..n /\ \A i \in 1..n : archive[m][i] \in Member
  BY Months, Members DEF TypeOK
<1>2. open[c] \in 1..n
  BY <1>1 DEF TypeOK, Calls, Breaks
<1>3. PICK part \in BOOLEAN :
         archive' = [archive EXCEPT ![m][open[c]] = Left(@, part \/ ~@.sound)]
  BY DEF Breaks
<1> DEFINE rest == Left(archive[m][open[c]], part \/ ~archive[m][open[c]].sound)
<1>4. rest \in Member /\ rest.rows \subseteq archive[m][open[c]].rows
  BY <1>1, <1>2, Leftover
<1>5. archive'[m] = [archive[m] EXCEPT ![open[c]] = rest] /\ DOMAIN archive' = Month
      /\ \A k \in Month \ {m} : archive'[k] = archive[k]
  BY <1>1, <1>3
<1> HIDE DEF rest
<1>6. archive'[m] \in Seq(Member) /\ Len(archive'[m]) = n /\ archive'[m][open[c]] = rest
      /\ \A i \in 1..n : i # open[c] => archive'[m][i] = archive[m][i]
  BY <1>1, <1>2, <1>4, <1>5
<1>7. \A i \in 1..n : archive'[m][i].rows \subseteq archive[m][i].rows
  BY <1>2, <1>4, <1>6
<1>8. cut' = cut \cup {m} /\ cut \subseteq Month
  BY DEF Breaks, TypeOK
<1>9. \A k \in Month : archive'[k] \in Seq(Member) /\ Len(archive'[k]) = Len(archive[k])
  BY <1>5, <1>6 DEF TypeOK
<1> QED
  BY <1>1, <1>2, <1>5, <1>6, <1>7, <1>8, <1>9

\* A crash damages the members that were being written, and no other.
LEMMA Crashed ==
    ASSUME TypeOK, Crash
    PROVE  /\ DOMAIN archive' = Month /\ cut \subseteq cut' /\ cut' \subseteq Month
           /\ \A k \in Month : archive'[k] \in Seq(Member) /\ Len(archive'[k]) = Len(archive[k])
           /\ \A k \in Month : \A i \in 1..Len(archive[k]) :
                 /\ archive'[k][i].rows \subseteq archive[k][i].rows
                 /\ i \notin Busy(k) => archive'[k][i] = archive[k][i]
           /\ \A k \in Month \ cut' : Busy(k) = {}
<1>1. PICK part \in BOOLEAN :
         archive' = [m \in Month |-> [i \in DOMAIN archive[m] |->
                       IF i \in Busy(m) THEN Left(archive[m][i], part \/ ~archive[m][i].sound)
                       ELSE archive[m][i]]]
  BY DEF Crash, Busy
<1>2. cut' = cut \cup {m \in Month : Busy(m) # {}} /\ cut \subseteq Month
  BY DEF Crash, Busy, TypeOK
<1>3. ASSUME NEW k \in Month
      PROVE  /\ archive'[k] \in Seq(Member) /\ Len(archive'[k]) = Len(archive[k])
             /\ \A i \in 1..Len(archive[k]) :
                   /\ archive'[k][i].rows \subseteq archive[k][i].rows
                   /\ i \notin Busy(k) => archive'[k][i] = archive[k][i]
  <2> DEFINE n == Len(archive[k])
             rest(i) == Left(archive[k][i], part \/ ~archive[k][i].sound)
  <2>1. n \in Nat /\ DOMAIN archive[k] = 1..n /\ \A i \in 1..n : archive[k][i] \in Member
    BY Members
  <2>2. \A i \in 1..n : rest(i) \in Member /\ rest(i).rows \subseteq archive[k][i].rows
    BY <2>1, Leftover
  <2>3. archive'[k] = [i \in 1..n |-> IF i \in Busy(k) THEN rest(i) ELSE archive[k][i]]
    BY <1>1, <2>1
  <2> HIDE DEF rest
  <2>4. archive'[k] \in [1..n -> Member]
    BY <2>1, <2>2, <2>3
  <2>5. archive'[k] \in Seq(Member) /\ Len(archive'[k]) = n
    BY <2>1, <2>4, Sequence
  <2> QED
    BY <2>2, <2>3, <2>5
<1> QED
  BY <1>1, <1>2, <1>3

-----------------------------------------------------------------------------
\* The archives are empty, nothing is deleted.
LEMMA InitInv ==
    ASSUME Init PROVE IndInv
<1>1. Rows \in Nat /\ PerMonth \in Nat \ {0} /\ MaxRuns \in Nat
  BY RetentionAssumption
<1>2. \A m \in Month : archive[m] = <<>> /\ Busy(m) = {} /\ DOMAIN archive[m] = {}
  BY DEF Init, Busy
<1>3. now \in 0..Rows /\ runs \in 0..MaxRuns /\ table \subseteq Row /\ table = Row
  BY <1>1 DEF Init
<1>4. DOMAIN archive = Month /\ \A m \in Month : archive[m] \in Seq(Member)
  BY <1>2 DEF Init
<1>5. \A c \in Cleaner : Of(c) \in Month
  <2>1. \A c \in Cleaner : cutoff[c] = 0
    BY DEF Init
  <2>2. /\ 0 \div PerMonth \in Nat /\ Rows \div PerMonth \in Nat
        /\ 0 \div PerMonth <= Rows \div PerMonth
    BY <1>1, Division
  <2> QED
    BY <2>1, <2>2 DEF Of, Month
<1>6. open \in [Cleaner -> Nat] /\ \A c \in Cleaner : open[c] <= Len(archive[Of(c)])
  BY <1>2, <1>5 DEF Init
<1>7. cutoff \in [Cleaner -> 0..Rows] /\ keep \in [Cleaner -> BOOLEAN]
  BY <1>1 DEF Init
<1>8. TypeOK
  BY <1>3, <1>4, <1>6, <1>7 DEF Init, TypeOK
<1>9. Calls /\ Kept /\ Once
  BY <1>2, <1>3 DEF Init, Calls, Kept, Once, Sound
<1>10. OncePerArchive
  BY <1>2 DEF OncePerArchive
<1> QED
  BY <1>8, <1>9, <1>10 DEF IndInv

\* The end of a call keeps the types, whatever it does to the archives.
LEMMA EndTypes ==
    ASSUME TypeOK, NEW c \in Cleaner, Ends(c),
           DOMAIN archive' = Month, cut' \subseteq Month,
           table' \subseteq Row, waived' \subseteq Row,
           \A k \in Month : archive'[k] \in Seq(Member) /\ Len(archive'[k]) = Len(archive[k]),
           UNCHANGED <<now, runs, crossed>>
    PROVE  TypeOK'
<1>1. 0 \div PerMonth \in Month /\ Rows \in Nat
  BY Division, RetentionAssumption DEF Month
<1>2. \A k \in Month : Len(archive[k]) \in Nat
  BY Members
<1>3. \A e \in Cleaner : Of(e)' \in Month /\ (e # c => Of(e)' = Of(e))
  BY <1>1, Months DEF Ends, Of, TypeOK
<1>4. \A e \in Cleaner : open'[e] <= Len(archive'[Of(e)'])
  BY <1>2, <1>3 DEF Ends, TypeOK
<1>5. /\ pc' \in [Cleaner -> {"idle", "read", "append", "writing", "delete"}]
      /\ open' \in [Cleaner -> Nat] /\ cutoff' \in [Cleaner -> 0..Rows]
      /\ keep' \in [Cleaner -> BOOLEAN]
      /\ seen' \in [Cleaner -> SUBSET Row] /\ known' \in [Cleaner -> SUBSET Row]
  BY <1>1 DEF Ends, TypeOK
<1> QED
  BY <1>4, <1>5 DEF TypeOK

-----------------------------------------------------------------------------
\* Every step keeps the types.
LEMMA TypeStep ==
    ASSUME IndInv, [Next]_vars
    PROVE  TypeOK'
<1>0. TypeOK /\ Calls /\ Rows \in Nat /\ MaxRuns \in Nat
  BY RetentionAssumption DEF IndInv
<1>1. \A c \in Cleaner : Of(c) \in Month
  BY <1>0, Months
<1>2. ASSUME NEW c \in Cleaner, Selects(c) PROVE TypeOK'
  <2>1. PICK d \in 0..now, b \in BOOLEAN :
           /\ cutoff' = [cutoff EXCEPT ![c] = d] /\ keep' = [keep EXCEPT ![c] = b]
           /\ seen' = [seen EXCEPT ![c] = {r \in table : r <= d}]
           /\ pc' = [pc EXCEPT ![c] = IF b THEN "read" ELSE "delete"]
    BY <1>2 DEF Selects
  <2>2. d \in 0..Rows
    BY <2>1, <1>0 DEF TypeOK
  <2>3. cutoff' \in [Cleaner -> 0..Rows] /\ keep' \in [Cleaner -> BOOLEAN]
        /\ seen' \in [Cleaner -> SUBSET Row]
        /\ pc' \in [Cleaner -> {"idle", "read", "append", "writing", "delete"}]
    BY <2>1, <2>2, <1>0 DEF TypeOK
  <2>4. \A e \in Cleaner : open'[e] <= Len(archive'[Of(e)'])
    <3>1. open[c] = 0 /\ open' = open /\ archive' = archive
      BY <1>2, <1>0 DEF Selects, Calls
    <3>2. \A e \in Cleaner \ {c} : Of(e)' = Of(e)
      BY <2>1, <1>0 DEF Of, TypeOK
    <3>3. Of(c)' = d \div PerMonth /\ Of(c)' \in Month
      <4>1. d \in Nat /\ d <= Rows /\ Rows \in Nat /\ PerMonth \in Nat \ {0}
        BY <2>2, RetentionAssumption
      <4>2. d \div PerMonth \in Month
        BY <4>1, Division DEF Month
      <4> QED
        BY <2>1, <1>0, <4>2 DEF Of, TypeOK
    <3>4. Len(archive[Of(c)']) \in Nat
      BY <3>3, <1>0, Members
    <3>5. open'[c] <= Len(archive'[Of(c)'])
      BY <3>1, <3>4
    <3>6. \A e \in Cleaner \ {c} : open'[e] <= Len(archive'[Of(e)'])
      BY <3>1, <3>2, <1>0 DEF TypeOK
    <3> QED
      BY <3>5, <3>6
  <2>5. runs' \in 0..MaxRuns
    BY <1>2, <1>0 DEF Selects, TypeOK
  <2> QED
    BY <1>2, <1>0, <2>3, <2>4, <2>5 DEF Selects, TypeOK, history
<1>3. ASSUME NEW c \in Cleaner, Reads(c) PROVE TypeOK'
  <2>1. \A found \in Found(c) : found \subseteq Row
    BY <1>0, <1>1, Members DEF Found
  <2>2. known' \in [Cleaner -> SUBSET Row]
        /\ pc' \in [Cleaner -> {"idle", "read", "append", "writing", "delete"}]
    BY <1>3, <1>0, <2>1 DEF Reads, TypeOK
  <2>3. crossed' \subseteq Month
    BY <1>3, <1>0, <1>1 DEF Reads, TypeOK
  <2> QED
    BY <1>3, <1>0, <2>2, <2>3 DEF Reads, TypeOK, Of
<1>4. ASSUME NEW c \in Cleaner, Begins(c) PROVE TypeOK'
  <2>1. /\ DOMAIN archive' = Month /\ cut' \subseteq Month
        /\ \A k \in Month : archive'[k] \in Seq(Member)
        /\ \A k \in Month : Len(archive'[k]) \in Nat /\ Len(archive[k]) \in Nat
        /\ \A k \in Month : Len(archive[k]) <= Len(archive'[k])
        /\ Len(archive'[Of(c)]) = Len(archive[Of(c)]) + 1
    <3>1. \A k \in Month : Len(archive[k]) \in Nat
      BY <1>0, Members
    <3>2. /\ DOMAIN archive' = Month /\ cut' \subseteq Month
          /\ \A k \in Month : archive'[k] \in Seq(Member)
          /\ \A k \in Month \ {Of(c)} : archive'[k] = archive[k]
          /\ Len(archive'[Of(c)]) = Len(archive[Of(c)]) + 1
      BY <1>4, <1>0, Appended
    <3> QED
      BY <1>1, <3>1, <3>2
  <2>2. open' = [open EXCEPT ![c] = Len(archive[Of(c)]) + 1] /\ pc' = [pc EXCEPT ![c] = "writing"]
        /\ UNCHANGED <<now, table, cutoff, keep, seen, known, runs, waived, crossed>>
    BY <1>4 DEF Begins
  <2>3. open' \in [Cleaner -> Nat] /\ \A e \in Cleaner : open'[e] <= Len(archive'[Of(e)'])
    BY <2>1, <2>2, <1>0, <1>1 DEF TypeOK, Of
  <2> QED
    BY <2>1, <2>2, <2>3, <1>0 DEF TypeOK
<1>5. ASSUME NEW c \in Cleaner, Closes(c) PROVE TypeOK'
  <2>1. \A k \in Month : Len(archive[k]) \in Nat
    BY <1>0, Members
  <2>2. open' \in [Cleaner -> Nat] /\ \A e \in Cleaner : open'[e] <= Len(archive'[Of(e)'])
    BY <1>5, <1>0, <1>1, <2>1 DEF Closes, TypeOK, Of
  <2>3. pc' \in [Cleaner -> {"idle", "read", "append", "writing", "delete"}]
    BY <1>5, <1>0 DEF Closes, TypeOK
  <2> QED
    BY <1>5, <1>0, <2>2, <2>3 DEF Closes, TypeOK, history
<1>6. ASSUME NEW c \in Cleaner, Breaks(c) PROVE TypeOK'
  <2>1. /\ DOMAIN archive' = Month /\ cut' \subseteq Month
        /\ \A k \in Month : archive'[k] \in Seq(Member) /\ Len(archive'[k]) = Len(archive[k])
    BY <1>6, <1>0, Broken
  <2>2. Ends(c) /\ UNCHANGED <<now, table, runs, waived, crossed>>
    BY <1>6 DEF Breaks
  <2> QED
    BY <2>1, <2>2, <1>0, EndTypes DEF TypeOK
<1>7. ASSUME NEW c \in Cleaner, Deletes(c) PROVE TypeOK'
  <2>1. Ends(c) /\ table' \subseteq Row /\ waived' \subseteq Row
        /\ UNCHANGED <<now, archive, runs, cut, crossed>>
    BY <1>7, <1>0 DEF Deletes, Due, TypeOK
  <2> QED
    BY <2>1, <1>0, <1>1, EndTypes DEF TypeOK
<1>8. ASSUME Crash PROVE TypeOK'
  <2>1. /\ DOMAIN archive' = Month /\ cut' \subseteq Month
        /\ \A k \in Month : archive'[k] \in Seq(Member) /\ Len(archive'[k]) = Len(archive[k])
    BY <1>8, <1>0, Crashed
  <2>2. /\ pc' = [c \in Cleaner |-> "idle"] /\ open' = [c \in Cleaner |-> 0]
        /\ cutoff' = [c \in Cleaner |-> 0] /\ keep' = [c \in Cleaner |-> TRUE]
        /\ seen' = [c \in Cleaner |-> {}] /\ known' = [c \in Cleaner |-> {}]
        /\ UNCHANGED <<now, table, runs, waived, crossed>>
    BY <1>8 DEF Crash
  <2>3. \A c \in Cleaner : open'[c] <= Len(archive'[Of(c)'])
    <3>1. 0 \div PerMonth \in Month
      BY Division, RetentionAssumption DEF Month
    <3>2. \A c \in Cleaner : Of(c)' \in Month
      BY <2>2, <3>1 DEF Of
    <3>3. \A k \in Month : Len(archive[k]) \in Nat
      BY <1>0, Members
    <3> QED
      BY <2>1, <2>2, <3>2, <3>3
  <2> QED
    BY <2>1, <2>2, <2>3, <1>0 DEF TypeOK
<1>9. CASE TimePasses
  BY <1>9, <1>0 DEF TimePasses, TypeOK, call, history, Of
<1>10. CASE UNCHANGED vars
  BY <1>10, <1>0 DEF vars, TypeOK, call, history, Of
<1> QED
  BY <1>2, <1>3, <1>4, <1>5, <1>6, <1>7, <1>8, <1>9, <1>10 DEF Next

-----------------------------------------------------------------------------
\* Calls stay apart, and write what they did not find.
LEMMA CallsStep ==
    ASSUME IndInv, [Next]_vars
    PROVE  Calls'
<1>0. TypeOK /\ Calls
  BY DEF IndInv
<1>1. \A c \in Cleaner : Of(c) \in Month
  BY <1>0, Months
<1>2. ASSUME NEW c \in Cleaner, Selects(c) PROVE Calls'
  <2>1. PICK d \in 0..now, b \in BOOLEAN :
           /\ cutoff' = [cutoff EXCEPT ![c] = d] /\ keep' = [keep EXCEPT ![c] = b]
           /\ seen' = [seen EXCEPT ![c] = {r \in table : r <= d}]
           /\ pc' = [pc EXCEPT ![c] = IF b THEN "read" ELSE "delete"]
    BY <1>2 DEF Selects
  <2>2. open[c] = 0 /\ UNCHANGED <<open, archive, table, known>>
    BY <1>2, <1>0 DEF Selects, Calls
  <2> QED
    BY <2>1, <2>2, <1>0 DEF Calls, TypeOK, Of, Due, New
<1>3. ASSUME NEW c \in Cleaner, Reads(c) PROVE Calls'
  <2>1. /\ pc[c] = "read" /\ open[c] = 0
        /\ \E where \in {"delete", "append"} : pc' = [pc EXCEPT ![c] = where]
        /\ \E found : known' = [known EXCEPT ![c] = found]
        /\ UNCHANGED <<table, archive, open, cutoff, keep, seen>>
    BY <1>3, <1>0 DEF Reads, Calls
  <2> QED
    BY <2>1, <1>0 DEF Calls, TypeOK, Of, Due, New
<1>4. ASSUME NEW c \in Cleaner, Begins(c) PROVE Calls'
  <2> DEFINE m == Of(c)
             n == Len(archive[m])
  <2>1. /\ open[c] = 0 /\ pc[c] = "append"
        /\ open' = [open EXCEPT ![c] = n + 1] /\ pc' = [pc EXCEPT ![c] = "writing"]
        /\ UNCHANGED <<table, cutoff, keep, seen, known>>
    BY <1>4, <1>0 DEF Begins, Calls
  <2>2. n \in Nat /\ \A e \in Cleaner : open[e] \in Nat /\ (Of(e) = m => open[e] <= n)
    BY <1>0, <1>1, Members DEF TypeOK
  <2>3. /\ archive'[m][n + 1].rows = New(c)
        /\ \A i \in 1..n : archive'[m][i].rows = archive[m][i].rows
        /\ \A k \in Month \ {m} : archive'[k] = archive[k]
    BY <1>4, <1>0, Appended
  <2>4. \A e \in Cleaner : Of(e)' = Of(e) /\ New(e)' = New(e) /\ Due(e)' = Due(e)
    BY <2>1 DEF Of, New, Due
  <2>5. \A e \in Cleaner : open'[e] # 0 => archive'[Of(e)][open'[e]].rows = New(e)
    <3>1. open'[c] = n + 1
      BY <1>0, <2>1 DEF TypeOK
    <3>2. ASSUME NEW e \in Cleaner, e # c, open[e] # 0, Of(e) = m
          PROVE  archive'[m][open[e]].rows = archive[m][open[e]].rows
      BY <2>2, <2>3, <3>2
    <3>3. ASSUME NEW e \in Cleaner, e # c, open[e] # 0, Of(e) # m
          PROVE  archive'[Of(e)] = archive[Of(e)]
      BY <1>1, <2>3, <3>3
    <3>4. \A e \in Cleaner : e # c => open'[e] = open[e]
      BY <2>1, <1>0 DEF TypeOK
    <3> QED
      BY <1>0, <2>3, <3>1, <3>2, <3>3, <3>4 DEF Calls
  <2>6. \A e, f \in Cleaner : e # f /\ open'[e] # 0 /\ Of(e) = Of(f) => open'[e] # open'[f]
    BY <1>0, <2>1, <2>2 DEF Calls, TypeOK
  <2>7. \A e \in Cleaner : open'[e] # 0 <=> pc'[e] = "writing"
    BY <1>0, <2>1, <2>2 DEF Calls, TypeOK
  <2> QED
    BY <1>0, <2>1, <2>4, <2>5, <2>6, <2>7 DEF Calls, TypeOK
<1>5. ASSUME NEW c \in Cleaner, Closes(c) PROVE Calls'
  BY <1>5, <1>0 DEF Closes, Calls, TypeOK, Of, New, Due
<1>6. ASSUME NEW c \in Cleaner, Breaks(c) PROVE Calls'
  <2>1. /\ \A k \in Month \ {Of(c)} : archive'[k] = archive[k]
        /\ \A i \in 1..Len(archive[Of(c)]) : i # open[c] => archive'[Of(c)][i] = archive[Of(c)][i]
        /\ Len(archive[Of(c)]) \in Nat
    BY <1>6, <1>0, <1>1, Broken, Members
  <2>2. Ends(c) /\ table' = table /\ open[c] # 0
    BY <1>6, <1>0 DEF Breaks, Calls
  <2>3. \A e \in Cleaner \ {c} : /\ Of(e)' = Of(e) /\ New(e)' = New(e) /\ Due(e)' = Due(e)
                                 /\ open'[e] = open[e] /\ pc'[e] = pc[e] /\ keep'[e] = keep[e]
                                 /\ seen'[e] = seen[e]
    BY <2>2, <1>0 DEF Ends, TypeOK, Of, New, Due
  <2>4. open'[c] = 0 /\ pc'[c] = "idle"
    BY <2>2, <1>0 DEF Ends, TypeOK
  <2>5. \A e \in Cleaner \ {c} : open[e] # 0 => archive'[Of(e)][open[e]] = archive[Of(e)][open[e]]
    BY <2>1, <2>2, <1>0, <1>1 DEF Calls, TypeOK
  <2> QED
    BY <2>2, <2>3, <2>4, <2>5, <1>0 DEF Calls
<1>7. ASSUME NEW c \in Cleaner, Deletes(c) PROVE Calls'
  <2>1. Ends(c) /\ table' \subseteq table /\ archive' = archive /\ open[c] = 0
    BY <1>7, <1>0 DEF Deletes, Calls
  <2>2. \A e \in Cleaner \ {c} : /\ Of(e)' = Of(e) /\ New(e)' = New(e) /\ Due(e)' \subseteq Due(e)
                                 /\ open'[e] = open[e] /\ pc'[e] = pc[e] /\ keep'[e] = keep[e]
                                 /\ seen'[e] = seen[e]
    BY <2>1, <1>0 DEF Ends, TypeOK, Of, New, Due
  <2>3. open'[c] = 0 /\ pc'[c] = "idle"
    BY <2>1, <1>0 DEF Ends, TypeOK
  <2> QED
    BY <2>1, <2>2, <2>3, <1>0 DEF Calls
<1>8. ASSUME Crash PROVE Calls'
  BY <1>8 DEF Crash, Calls
<1>9. CASE TimePasses
  BY <1>9, <1>0 DEF TimePasses, Calls, call, Of, New, Due
<1>10. CASE UNCHANGED vars
  BY <1>10, <1>0 DEF vars, Calls, call, Of, New, Due
<1> QED
  BY <1>2, <1>3, <1>4, <1>5, <1>6, <1>7, <1>8, <1>9, <1>10 DEF Next

-----------------------------------------------------------------------------
\* What is safe stays safe, unless it is damaged or its place is taken by a writer.
LEMMA SafeGrows ==
    ASSUME NEW m, DOMAIN archive[m] \subseteq DOMAIN archive'[m],
           \A i \in DOMAIN archive[m] \ Busy(m) :
               archive'[m][i].rows = archive[m][i].rows /\ i \notin Busy(m)'
    PROVE  Safe(m) \subseteq Safe(m)'
  BY DEF Safe

\* Every step keeps what is safe.
LEMMA SafeStep ==
    ASSUME IndInv, [Next]_vars, NEW m \in Month
    PROVE  Safe(m) \subseteq Safe(m)'
<1>0. TypeOK /\ Calls
  BY DEF IndInv
<1>1. \A c \in Cleaner : Of(c) \in Month
  BY <1>0, Months
<1>2. Len(archive[m]) \in Nat /\ DOMAIN archive[m] = 1..Len(archive[m])
  BY <1>0, Members
<1>3. ASSUME archive' = archive,
             \A e \in Cleaner : open'[e] # 0 => open'[e] = open[e] /\ Of(e)' = Of(e)
      PROVE  Safe(m) \subseteq Safe(m)'
  <2>1. Busy(m)' \subseteq Busy(m)
    BY <1>3 DEF Busy
  <2> QED
    BY <1>3, <2>1, SafeGrows
<1>4. ASSUME NEW c \in Cleaner, Begins(c) PROVE Safe(m) \subseteq Safe(m)'
  <2>1. /\ open' = [open EXCEPT ![c] = Len(archive[Of(c)]) + 1] /\ open[c] = 0
        /\ cutoff' = cutoff
    BY <1>4, <1>0 DEF Begins, Calls
  <2>2. Busy(m)' \subseteq Busy(m) \cup {Len(archive[m]) + 1}
    BY <2>1, <1>0 DEF Busy, Of, TypeOK
  <2>3. DOMAIN archive'[m] = 1..Len(archive'[m]) /\ Len(archive'[m]) \in Nat
        /\ Len(archive'[m]) >= Len(archive[m])
    <3>1. archive'[m] \in Seq(Member) /\ (m # Of(c) => archive'[m] = archive[m])
          /\ (m = Of(c) => Len(archive'[m]) = Len(archive[m]) + 1)
      BY <1>4, <1>0, Appended
    <3> QED
      BY <3>1, <1>2
  <2>4. \A i \in 1..Len(archive[m]) : archive'[m][i].rows = archive[m][i].rows
    <3>1. /\ \A k \in Month \ {Of(c)} : archive'[k] = archive[k]
          /\ \A i \in 1..Len(archive[Of(c)]) : archive'[Of(c)][i].rows = archive[Of(c)][i].rows
      BY <1>4, <1>0, Appended
    <3> QED
      BY <3>1
  <2> QED
    BY <1>2, <2>2, <2>3, <2>4, SafeGrows
<1>5. ASSUME NEW c \in Cleaner, Breaks(c) PROVE Safe(m) \subseteq Safe(m)'
  <2>1. /\ archive'[m] \in Seq(Member) /\ Len(archive'[m]) = Len(archive[m])
        /\ \A k \in Month \ {Of(c)} : archive'[k] = archive[k]
        /\ \A i \in 1..Len(archive[Of(c)]) : i # open[c] => archive'[Of(c)][i] = archive[Of(c)][i]
    BY <1>5, <1>0, Broken
  <2>2. Ends(c) /\ open[c] # 0
    BY <1>5, <1>0 DEF Breaks, Calls
  <2>3. Busy(m)' \subseteq Busy(m) /\ (m = Of(c) => open[c] \in Busy(m))
    BY <2>2, <1>0 DEF Busy, Ends, TypeOK, Of
  <2>4. DOMAIN archive'[m] = 1..Len(archive[m])
    BY <2>1
  <2> QED
    BY <1>2, <2>1, <2>3, <2>4, SafeGrows
<1>6. ASSUME Crash PROVE Safe(m) \subseteq Safe(m)'
  <2>1. /\ archive'[m] \in Seq(Member) /\ Len(archive'[m]) = Len(archive[m])
        /\ \A i \in 1..Len(archive[m]) : i \notin Busy(m) => archive'[m][i] = archive[m][i]
    BY <1>6, <1>0, Crashed
  <2>2. Busy(m)' = {}
    BY <1>6 DEF Crash, Busy
  <2>3. DOMAIN archive'[m] = 1..Len(archive[m])
    BY <2>1
  <2> QED
    BY <1>2, <2>1, <2>2, <2>3, SafeGrows
<1>7. ASSUME NEW c \in Cleaner, Selects(c) PROVE Safe(m) \subseteq Safe(m)'
  <2>1. PICK d \in 0..now : cutoff' = [cutoff EXCEPT ![c] = d]
    BY <1>7 DEF Selects
  <2>2. UNCHANGED <<archive, open>> /\ open[c] = 0
    BY <1>7, <1>0 DEF Selects, Calls
  <2>3. \A e \in Cleaner : open'[e] # 0 => open'[e] = open[e] /\ Of(e)' = Of(e)
    BY <2>1, <2>2, <1>0 DEF TypeOK, Of
  <2> QED
    BY <1>3, <2>2, <2>3
<1>8. ASSUME NEW c \in Cleaner, Reads(c) PROVE Safe(m) \subseteq Safe(m)'
  <2>1. UNCHANGED <<archive, open, cutoff>>
    BY <1>8 DEF Reads
  <2> QED
    BY <1>3, <2>1 DEF Of
<1>9. ASSUME NEW c \in Cleaner, Closes(c) PROVE Safe(m) \subseteq Safe(m)'
  <2>1. UNCHANGED <<archive, cutoff>> /\ open' = [open EXCEPT ![c] = 0]
    BY <1>9 DEF Closes
  <2> QED
    BY <1>3, <1>0, <2>1 DEF Of, TypeOK
<1>10. ASSUME NEW c \in Cleaner, Deletes(c) PROVE Safe(m) \subseteq Safe(m)'
  <2>1. Ends(c) /\ archive' = archive
    BY <1>10 DEF Deletes
  <2>2. \A e \in Cleaner : open'[e] # 0 => open'[e] = open[e] /\ Of(e)' = Of(e)
    BY <2>1, <1>0 DEF Ends, TypeOK, Of
  <2> QED
    BY <1>3, <2>1, <2>2
<1>11. ASSUME TimePasses \/ UNCHANGED vars PROVE Safe(m) \subseteq Safe(m)'
  <2>1. UNCHANGED <<archive, open, cutoff>>
    BY <1>11 DEF TimePasses, vars, call
  <2> QED
    BY <1>3, <2>1 DEF Of
<1> QED
  BY <1>4, <1>5, <1>6, <1>7, <1>8, <1>9, <1>10, <1>11 DEF Next

\* A closed member is safe.
LEMMA ClosedIsSafe ==
    ASSUME IndInv, NEW c \in Cleaner, Closes(c)
    PROVE  New(c) \subseteq Safe(Of(c))'
<1>0. TypeOK /\ Calls
  BY DEF IndInv
<1>1. /\ pc[c] = "writing" /\ open[c] # 0 /\ open' = [open EXCEPT ![c] = 0]
      /\ UNCHANGED <<archive, cutoff>>
  BY <1>0 DEF Closes, Calls
<1>2. Of(c) \in Month /\ Of(c)' = Of(c)
  BY <1>0, <1>1, Months DEF Of
<1>3. open[c] \in DOMAIN archive[Of(c)]
  BY <1>0, <1>1, <1>2, Members DEF TypeOK
<1>4. open[c] \notin Busy(Of(c))'
  BY <1>0, <1>1, <1>2 DEF Busy, Of, Calls, TypeOK
<1>5. archive[Of(c)][open[c]].rows = New(c)
  BY <1>0, <1>1 DEF Calls
<1> QED
  BY <1>1, <1>2, <1>3, <1>4, <1>5 DEF Safe

\* What a call may find is safe.
LEMMA FoundIsSafe ==
    ASSUME NEW c \in Cleaner, NEW found \in Found(c)
    PROVE  /\ found \subseteq Safe(Of(c))
           /\ Sound(Of(c)) /\ Busy(Of(c)) = {} => found = Held(Of(c))
  BY DEF Found, Safe, Busy, Held

-----------------------------------------------------------------------------
\* Every step keeps what was found, and deletes what is kept.
LEMMA KeptStep ==
    ASSUME IndInv, [Next]_vars
    PROVE  Kept'
<1>0. TypeOK /\ Calls /\ Kept
  BY DEF IndInv
<1>1. \A c \in Cleaner : Of(c) \in Month
  BY <1>0, Months
<1>2. \A m \in Month : Safe(m) \subseteq Safe(m)'
  BY SafeStep
<1>3. ASSUME table' = table, waived' = waived
      PROVE  \A r \in Row \ (table' \cup waived') : \E m \in Month : r \in Safe(m)'
  BY <1>0, <1>2, <1>3 DEF Kept
<1>4. ASSUME archive' = archive, cut' = cut
      PROVE  \A m \in Month \ cut' : Sound(m)'
  BY <1>0, <1>4 DEF Kept, Sound
<1>5. ASSUME NEW c \in Cleaner, Selects(c) PROVE Kept'
  <2>1. PICK d \in 0..now, b \in BOOLEAN :
           /\ cutoff' = [cutoff EXCEPT ![c] = d] /\ keep' = [keep EXCEPT ![c] = b]
           /\ seen' = [seen EXCEPT ![c] = {r \in table : r <= d}]
           /\ pc' = [pc EXCEPT ![c] = IF b THEN "read" ELSE "delete"]
    BY <1>5 DEF Selects
  <2>2. UNCHANGED <<archive, table, known, cut, waived>>
    BY <1>5 DEF Selects, history
  <2>3. \A e \in Cleaner \ {c} : Of(e)' = Of(e)
    BY <2>1, <1>0 DEF Of, TypeOK
  <2>4. \A e \in Cleaner : pc'[e] \in {"append", "writing"} => known'[e] \subseteq Safe(Of(e))'
    BY <2>1, <2>2, <2>3, <1>0, <1>1, <1>2 DEF Kept, TypeOK
  <2>5. \A e \in Cleaner : pc'[e] = "delete" /\ keep'[e] => seen'[e] \subseteq Safe(Of(e))'
    BY <2>1, <2>2, <2>3, <1>0, <1>1, <1>2 DEF Kept, TypeOK
  <2> QED
    BY <2>2, <2>4, <2>5, <1>3, <1>4 DEF Kept
<1>6. ASSUME NEW c \in Cleaner, Reads(c) PROVE Kept'
  <2>1. PICK found \in Found(c) :
           /\ known' = [known EXCEPT ![c] = found]
           /\ pc' = [pc EXCEPT ![c] = IF seen[c] \subseteq found THEN "delete" ELSE "append"]
    BY <1>6 DEF Reads
  <2>2. UNCHANGED <<table, archive, cutoff, keep, seen, waived, cut>>
    BY <1>6 DEF Reads
  <2>3. found \subseteq Safe(Of(c))
    BY FoundIsSafe
  <2>4. \A e \in Cleaner : Of(e)' = Of(e)
    BY <2>2 DEF Of
  <2>5. \A e \in Cleaner : pc'[e] \in {"append", "writing"} => known'[e] \subseteq Safe(Of(e))'
    BY <2>1, <2>3, <2>4, <1>0, <1>1, <1>2 DEF Kept, TypeOK
  <2>6. \A e \in Cleaner : pc'[e] = "delete" /\ keep'[e] => seen'[e] \subseteq Safe(Of(e))'
    BY <2>1, <2>2, <2>3, <2>4, <1>0, <1>1, <1>2 DEF Kept, TypeOK
  <2> QED
    BY <2>2, <2>5, <2>6, <1>3, <1>4 DEF Kept
<1>7. ASSUME NEW c \in Cleaner, Begins(c) PROVE Kept'
  <2>1. /\ pc[c] = "append" /\ pc' = [pc EXCEPT ![c] = "writing"]
        /\ UNCHANGED <<table, cutoff, keep, seen, known, waived>>
    BY <1>7 DEF Begins
  <2>2. \A e \in Cleaner : Of(e)' = Of(e)
    BY <2>1 DEF Of
  <2>3. /\ \A e \in Cleaner : pc'[e] \in {"append", "writing"} => known'[e] \subseteq Safe(Of(e))'
        /\ \A e \in Cleaner : pc'[e] = "delete" /\ keep'[e] => seen'[e] \subseteq Safe(Of(e))'
    BY <2>1, <2>2, <1>0, <1>1, <1>2 DEF Kept, TypeOK
  <2>4. ASSUME NEW m \in Month \ cut' PROVE Sound(m)'
    <3>1. cut \subseteq cut' /\ archive'[m] \in Seq(Member)
      BY <1>7, <1>0, Appended
    <3>2. Sound(m) /\ Len(archive[m]) \in Nat /\ DOMAIN archive[m] = 1..Len(archive[m])
      BY <3>1, <1>0, Members DEF Kept
    <3>3. CASE m # Of(c)
      <4>1. archive'[m] = archive[m]
        BY <3>3, <1>7, <1>0, Appended
      <4> QED
        BY <4>1, <3>2 DEF Sound
    <3>4. CASE m = Of(c)
      <4>1. Busy(m) = {} /\ Len(archive'[m]) = Len(archive[m]) + 1
        BY <3>4, <1>7, <1>0, Appended
      <4>2. DOMAIN archive'[m] = 1..(Len(archive[m]) + 1)
        BY <3>1, <4>1
      <4>3. \A i \in 1..Len(archive[m]) : archive'[m][i] = archive[m][i]
        BY <3>4, <4>1, <1>7, <1>0, Appended
      <4>4. archive'[m][Len(archive[m]) + 1].sound
        BY <3>4, <4>1, <1>7, <1>0, Appended
      <4> QED
        BY <3>2, <4>2, <4>3, <4>4 DEF Sound
    <3> QED
      BY <3>3, <3>4
  <2> QED
    BY <2>1, <2>3, <2>4, <1>3 DEF Kept
<1>8. ASSUME NEW c \in Cleaner, Closes(c) PROVE Kept'
  <2>1. /\ pc[c] = "writing" /\ pc' = [pc EXCEPT ![c] = "delete"]
        /\ UNCHANGED <<table, archive, cutoff, keep, seen, known, waived, cut>>
    BY <1>8 DEF Closes, history
  <2>2. \A e \in Cleaner : Of(e)' = Of(e)
    BY <2>1 DEF Of
  <2>3. seen[c] \subseteq Safe(Of(c))'
    <3>1. New(c) \subseteq Safe(Of(c))'
      BY <1>8, ClosedIsSafe
    <3>2. known[c] \subseteq Safe(Of(c))'
      BY <2>1, <2>2, <1>0, <1>1, <1>2 DEF Kept
    <3> QED
      BY <3>1, <3>2 DEF New
  <2>4. \A e \in Cleaner : pc'[e] \in {"append", "writing"} => known'[e] \subseteq Safe(Of(e))'
    BY <2>1, <2>2, <1>0, <1>1, <1>2 DEF Kept, TypeOK
  <2>5. \A e \in Cleaner : pc'[e] = "delete" /\ keep'[e] => seen'[e] \subseteq Safe(Of(e))'
    BY <2>1, <2>2, <2>3, <1>0, <1>1, <1>2 DEF Kept, TypeOK
  <2> QED
    BY <2>1, <2>4, <2>5, <1>3, <1>4 DEF Kept
<1>9. ASSUME NEW c \in Cleaner, Ends(c) PROVE
          /\ \A e \in Cleaner : pc'[e] \in {"append", "writing"} => known'[e] \subseteq Safe(Of(e))'
          /\ \A e \in Cleaner : pc'[e] = "delete" /\ keep'[e] => seen'[e] \subseteq Safe(Of(e))'
  <2>1. pc'[c] = "idle" /\ \A e \in Cleaner \ {c} : /\ Of(e)' = Of(e) /\ known'[e] = known[e]
                                                  /\ seen'[e] = seen[e] /\ pc'[e] = pc[e]
                                                  /\ keep'[e] = keep[e]
    BY <1>9, <1>0 DEF Ends, TypeOK, Of
  <2> QED
    BY <2>1, <1>0, <1>1, <1>2 DEF Kept
<1>10. ASSUME NEW c \in Cleaner, Breaks(c) PROVE Kept'
  <2>1. Ends(c) /\ table' = table /\ waived' = waived
    BY <1>10 DEF Breaks
  <2>2. \A m \in Month \ cut' : m \notin cut /\ archive'[m] = archive[m]
    BY <1>10, <1>0, Broken
  <2>3. \A m \in Month \ cut' : Sound(m)'
    BY <2>2, <1>0 DEF Kept, Sound
  <2> QED
    BY <2>1, <2>3, <1>3, <1>9 DEF Kept
<1>11. ASSUME NEW c \in Cleaner, Deletes(c) PROVE Kept'
  <2>1. Ends(c) /\ archive' = archive /\ cut' = cut /\ pc[c] = "delete"
    BY <1>11 DEF Deletes
  <2>2. \A r \in Row \ (table' \cup waived') : \E m \in Month : r \in Safe(m)'
    <3>1. CASE table' = table /\ waived' = waived
      BY <3>1, <1>3
    <3>2. CASE keep[c] /\ table' = table \ Due(c) /\ waived' = waived
      <4>1. Due(c) \subseteq Safe(Of(c))
        BY <2>1, <3>2, <1>0 DEF Kept, Calls
      <4>2. \A r \in Row \ (table' \cup waived') : r \in Due(c) \/ r \in Row \ (table \cup waived)
        BY <3>2
      <4> QED
        BY <4>1, <4>2, <1>0, <1>1, <1>2 DEF Kept
    <3>3. CASE ~keep[c] /\ table' = table \ Due(c) /\ waived' = waived \cup Due(c)
      BY <3>3, <1>0, <1>2 DEF Kept
    <3> QED
      BY <1>11, <3>1, <3>2, <3>3 DEF Deletes
  <2> QED
    BY <2>1, <2>2, <1>4, <1>9 DEF Kept
<1>12. ASSUME Crash PROVE Kept'
  <2>1. /\ pc' = [c \in Cleaner |-> "idle"] /\ table' = table /\ waived' = waived
    BY <1>12 DEF Crash
  <2>2. ASSUME NEW m \in Month \ cut' PROVE Sound(m)'
    <3>1. /\ m \notin cut /\ Busy(m) = {} /\ archive'[m] \in Seq(Member)
          /\ Len(archive'[m]) = Len(archive[m])
          /\ \A i \in 1..Len(archive[m]) : i \notin Busy(m) => archive'[m][i] = archive[m][i]
      BY <1>12, <1>0, Crashed
    <3>2. DOMAIN archive'[m] = 1..Len(archive[m]) /\ DOMAIN archive[m] = 1..Len(archive[m])
      BY <3>1, <1>0, Members
    <3> QED
      BY <3>1, <3>2, <1>0 DEF Kept, Sound
  <2> QED
    BY <2>1, <2>2, <1>3 DEF Kept
<1>13. ASSUME TimePasses \/ UNCHANGED vars PROVE Kept'
  <2>1. UNCHANGED <<table, archive, call, history>>
    BY <1>13 DEF TimePasses, vars
  <2>2. \A e \in Cleaner : Of(e)' = Of(e)
    BY <2>1 DEF call, Of
  <2> QED
    BY <2>1, <2>2, <1>0, <1>1, <1>2, <1>3, <1>4 DEF Kept, call, history
<1> QED
  BY <1>5, <1>6, <1>7, <1>8, <1>10, <1>11, <1>12, <1>13 DEF Next

-----------------------------------------------------------------------------
\* Every step keeps the archives without duplicates, unless calls crossed or a member was
\* cut off.
LEMMA OnceStep ==
    ASSUME IndInv, [Next]_vars
    PROVE  Once' /\ OncePerArchive'
<1>0. TypeOK /\ Calls /\ Kept /\ Once /\ OncePerArchive
  BY DEF IndInv
<1>1. \A c \in Cleaner : Of(c) \in Month
  BY <1>0, Months
<1>2. ASSUME archive' = archive, cut \subseteq cut', crossed \subseteq crossed'
      PROVE  OncePerArchive'
  BY <1>0, <1>2 DEF OncePerArchive
\* Most steps bring nobody to an archive, and leave those that stay sound as they are.
<1>3. ASSUME cut \subseteq cut', crossed \subseteq crossed',
             \A m \in Month \ cut' : Held(m)' = Held(m),
             \A e \in Cleaner : pc'[e] \in {"append", "writing"} =>
                 pc'[e] = pc[e] /\ Of(e)' = Of(e) /\ known'[e] = known[e]
      PROVE  Once'
  <2>1. ASSUME NEW e \in Cleaner, NEW f \in Cleaner, pc'[e] \in {"append", "writing"},
               pc'[f] \in {"append", "writing"}, Of(e)' = Of(f)', Of(e)' \notin crossed'
        PROVE  e = f
    BY <1>0, <1>3, <2>1 DEF Once
  <2>2. ASSUME NEW e \in Cleaner, pc'[e] = "append", Of(e)' \notin cut' \cup crossed'
        PROVE  known'[e] = Held(Of(e))'
    <3>1. known[e] = Held(Of(e)) /\ Of(e)' = Of(e) /\ Of(e) \in Month \ cut'
      BY <1>0, <1>1, <1>3, <2>2 DEF Once
    <3> QED
      BY <1>3, <2>2, <3>1
  <2> QED
    BY <2>1, <2>2 DEF Once
<1>4. ASSUME archive' = archive PROVE \A m \in Month : Held(m)' = Held(m)
  BY <1>4 DEF Held
<1>5. ASSUME NEW c \in Cleaner, Ends(c)
      PROVE  \A e \in Cleaner : pc'[e] \in {"append", "writing"} =>
                 pc'[e] = pc[e] /\ Of(e)' = Of(e) /\ known'[e] = known[e]
  BY <1>5, <1>0 DEF Ends, TypeOK, Of
<1>6. ASSUME NEW c \in Cleaner, Selects(c) PROVE Once' /\ OncePerArchive'
  <2>1. PICK d \in 0..now, b \in BOOLEAN :
           /\ cutoff' = [cutoff EXCEPT ![c] = d]
           /\ pc' = [pc EXCEPT ![c] = IF b THEN "read" ELSE "delete"]
    BY <1>6 DEF Selects
  <2>2. UNCHANGED <<archive, known, cut, crossed>>
    BY <1>6 DEF Selects, history
  <2>3. \A e \in Cleaner : pc'[e] \in {"append", "writing"} =>
            pc'[e] = pc[e] /\ Of(e)' = Of(e) /\ known'[e] = known[e]
    BY <2>1, <2>2, <1>0 DEF TypeOK, Of
  <2> QED
    BY <2>2, <2>3, <1>2, <1>3, <1>4
<1>7. ASSUME NEW c \in Cleaner, Reads(c) PROVE Once' /\ OncePerArchive'
  <2>1. PICK found \in Found(c) :
           /\ known' = [known EXCEPT ![c] = found]
           /\ pc' = [pc EXCEPT ![c] = IF seen[c] \subseteq found THEN "delete" ELSE "append"]
    BY <1>7 DEF Reads
  <2>2. /\ UNCHANGED <<archive, open, cutoff, cut>> /\ pc[c] = "read" /\ open[c] = 0
        /\ crossed \subseteq crossed'
        /\ \A e \in Cleaner \ {c} : pc[e] \in {"append", "writing"} /\ Of(e) = Of(c)
              => Of(c) \in crossed'
    BY <1>7, <1>0 DEF Reads, Calls
  <2>3. \A e \in Cleaner : Of(e)' = Of(e)
    BY <2>2 DEF Of
  <2>4. ASSUME NEW e \in Cleaner, NEW f \in Cleaner, pc'[e] \in {"append", "writing"},
               pc'[f] \in {"append", "writing"}, Of(e) = Of(f), Of(e) \notin crossed'
        PROVE  e = f
    BY <1>0, <2>1, <2>2, <2>4 DEF Once, TypeOK
  <2>5. Of(c) \notin cut \cup crossed' => found = Held(Of(c))
    <3>1. ASSUME Of(c) \notin cut \cup crossed' PROVE Busy(Of(c)) = {}
      BY <1>0, <2>2, <3>1 DEF Busy, Calls
    <3>2. ASSUME Of(c) \notin cut PROVE Sound(Of(c))
      BY <1>0, <1>1, <3>2 DEF Kept
    <3> QED
      BY <3>1, <3>2, FoundIsSafe
  <2>6. ASSUME NEW e \in Cleaner, pc'[e] = "append", Of(e) \notin cut' \cup crossed'
        PROVE  known'[e] = Held(Of(e))
    BY <1>0, <2>1, <2>2, <2>5, <2>6 DEF Once, TypeOK
  <2>7. Once'
    BY <2>2, <2>3, <2>4, <2>6, <1>1, <1>4 DEF Once
  <2> QED
    BY <2>2, <2>7, <1>2
<1>8. ASSUME NEW c \in Cleaner, Begins(c) PROVE Once' /\ OncePerArchive'
  <2> DEFINE m == Of(c)
             n == Len(archive[m])
  <2>1. /\ pc[c] = "append" /\ pc' = [pc EXCEPT ![c] = "writing"]
        /\ UNCHANGED <<cutoff, known, crossed>>
    BY <1>8 DEF Begins
  <2>2. \A e \in Cleaner : Of(e)' = Of(e)
    BY <2>1 DEF Of
  <2>3. /\ cut \subseteq cut' /\ archive'[m] \in Seq(Member) /\ Len(archive'[m]) = n + 1
        /\ \A k \in Month \ {m} : archive'[k] = archive[k]
        /\ \A i \in 1..n : archive'[m][i].rows = archive[m][i].rows
        /\ archive'[m][n + 1].rows = New(c)
    BY <1>1, <1>8, <1>0, Appended
  <2>4. ASSUME NEW e \in Cleaner, NEW f \in Cleaner, pc'[e] \in {"append", "writing"},
               pc'[f] \in {"append", "writing"}, Of(e) = Of(f), Of(e) \notin crossed
        PROVE  e = f
    BY <1>0, <2>1, <2>4 DEF Once, TypeOK
  <2>5. ASSUME NEW e \in Cleaner, pc'[e] = "append", Of(e) \notin cut' \cup crossed
        PROVE  known[e] = Held(Of(e))'
    <3>1. e # c /\ pc[e] = "append" /\ Of(e) # m
      BY <1>0, <2>1, <2>5 DEF Once, TypeOK
    <3>2. archive'[Of(e)] = archive[Of(e)] /\ known[e] = Held(Of(e)) /\ Of(e)' = Of(e)
      BY <1>0, <1>1, <2>2, <2>3, <2>5, <3>1 DEF Once
    <3> QED
      BY <3>2 DEF Held
  <2>6. Once'
    BY <2>1, <2>2, <2>4, <2>5 DEF Once
  <2>7. ASSUME NEW k \in Month \ (cut' \cup crossed'), NEW i \in DOMAIN archive'[k],
               NEW j \in DOMAIN archive'[k], i # j
        PROVE  archive'[k][i].rows \cap archive'[k][j].rows = {}
    <3>1. k \in Month \ (cut \cup crossed)
      BY <2>1, <2>3
    <3>2. CASE k # m
      BY <1>0, <2>3, <2>7, <3>1, <3>2 DEF OncePerArchive
    <3>3. CASE k = m
      <4>1. n \in Nat /\ DOMAIN archive[m] = 1..n /\ DOMAIN archive'[m] = 1..(n + 1)
        BY <1>0, <1>1, <2>3, Members
      <4>2. known[c] = Held(m)
        BY <1>0, <2>1, <3>1, <3>3 DEF Once
      <4>3. \A l \in 1..n : New(c) \cap archive'[m][l].rows = {}
        BY <2>3, <4>1, <4>2 DEF New, Held
      <4>4. CASE i \in 1..n /\ j \in 1..n
        BY <1>0, <2>3, <2>7, <3>1, <3>3, <4>1, <4>4 DEF OncePerArchive
      <4>5. CASE i = n + 1
        BY <2>3, <2>7, <3>3, <4>1, <4>3, <4>5
      <4>6. CASE j = n + 1
        BY <2>3, <2>7, <3>3, <4>1, <4>3, <4>6
      <4> QED
        BY <2>7, <3>3, <4>1, <4>4, <4>5, <4>6
    <3> QED
      BY <3>2, <3>3
  <2>8. OncePerArchive'
    BY <2>7 DEF OncePerArchive
  <2> QED
    BY <2>6, <2>8
<1>9. ASSUME NEW c \in Cleaner, Closes(c) PROVE Once' /\ OncePerArchive'
  <2>1. /\ pc[c] = "writing" /\ pc' = [pc EXCEPT ![c] = "delete"]
        /\ UNCHANGED <<archive, cutoff, known, cut, crossed>>
    BY <1>9 DEF Closes, history
  <2>2. \A e \in Cleaner : pc'[e] \in {"append", "writing"} =>
            pc'[e] = pc[e] /\ Of(e)' = Of(e) /\ known'[e] = known[e]
    BY <2>1, <1>0 DEF TypeOK, Of
  <2> QED
    BY <2>1, <2>2, <1>2, <1>3, <1>4
\* Of an archive in which no member was cut off, nothing is lost.
<1>10. ASSUME cut \subseteq cut', crossed' = crossed,
              \A m \in Month \ cut' : /\ DOMAIN archive'[m] = DOMAIN archive[m]
                                      /\ \A i \in DOMAIN archive[m] : archive'[m][i] = archive[m][i]
       PROVE  OncePerArchive' /\ \A m \in Month \ cut' : Held(m)' = Held(m)
  <2>1. OncePerArchive'
    BY <1>0, <1>10 DEF OncePerArchive
  <2>2. ASSUME NEW m \in Month \ cut' PROVE Held(m)' = Held(m)
    BY <1>10, <2>2 DEF Held
  <2> QED
    BY <2>1, <2>2
<1>11. ASSUME NEW c \in Cleaner, Breaks(c) PROVE Once' /\ OncePerArchive'
  <2>1. Ends(c) /\ crossed' = crossed
    BY <1>11 DEF Breaks
  <2>2. cut \subseteq cut' /\ \A m \in Month \ cut' : archive'[m] = archive[m]
    BY <1>11, <1>0, Broken
  <2> QED
    BY <2>1, <2>2, <1>3, <1>5, <1>10
<1>12. ASSUME NEW c \in Cleaner, Deletes(c) PROVE Once' /\ OncePerArchive'
  <2>1. Ends(c) /\ UNCHANGED <<archive, cut, crossed>>
    BY <1>12 DEF Deletes
  <2> QED
    BY <2>1, <1>2, <1>3, <1>4, <1>5
<1>13. ASSUME Crash PROVE Once' /\ OncePerArchive'
  <2>1. crossed' = crossed /\ \A e \in Cleaner : pc'[e] = "idle"
    BY <1>13 DEF Crash
  <2>2. cut \subseteq cut'
    BY <1>13, <1>0, Crashed
  <2>3. ASSUME NEW m \in Month \ cut'
        PROVE  /\ DOMAIN archive'[m] = DOMAIN archive[m]
               /\ \A i \in DOMAIN archive[m] : archive'[m][i] = archive[m][i]
    <3>1. /\ Busy(m) = {} /\ archive'[m] \in Seq(Member) /\ Len(archive'[m]) = Len(archive[m])
          /\ \A i \in 1..Len(archive[m]) : i \notin Busy(m) => archive'[m][i] = archive[m][i]
      BY <1>13, <1>0, Crashed
    <3>2. DOMAIN archive'[m] = 1..Len(archive[m]) /\ DOMAIN archive[m] = 1..Len(archive[m])
      BY <3>1, <1>0, Members
    <3> QED
      BY <3>1, <3>2
  <2> QED
    BY <2>1, <2>2, <2>3, <1>3, <1>10
<1>14. ASSUME TimePasses \/ UNCHANGED vars PROVE Once' /\ OncePerArchive'
  <2>1. UNCHANGED <<archive, call, history>>
    BY <1>14 DEF TimePasses, vars
  <2>2. \A e \in Cleaner : Of(e)' = Of(e)
    BY <2>1 DEF call, Of
  <2> QED
    BY <2>1, <2>2, <1>2, <1>3, <1>4 DEF call, history
<1> QED
  BY <1>6, <1>7, <1>8, <1>9, <1>11, <1>12, <1>13, <1>14 DEF Next

-----------------------------------------------------------------------------
\* Every step keeps the invariant.
LEMMA IndStep ==
    ASSUME IndInv, [Next]_vars
    PROVE  IndInv'
  BY TypeStep, CallsStep, KeptStep, OnceStep DEF IndInv

\* What is safe is in the archive; in one with sound members only it can be read.
LEMMA SafeIsArchived ==
    ASSUME IndInv
    PROVE  GoneIsArchived
<1> SUFFICES ASSUME NEW r \in Row \ (table \cup waived)
             PROVE  \E m \in Month : r \in Readable(m) \/ (m \in cut /\ r \in Held(m))
  BY DEF GoneIsArchived
<1>1. PICK m \in Month : r \in Safe(m)
  BY DEF IndInv, Kept
<1>2. PICK i \in DOMAIN archive[m] : r \in archive[m][i].rows
  BY <1>1 DEF Safe
<1>3. CASE m \in cut
  BY <1>2, <1>3 DEF Held
<1>4. CASE m \notin cut
  <2>1. Sound(m)
    BY <1>4 DEF IndInv, Kept
  <2>2. DOMAIN archive[m] = 1..Len(archive[m]) /\ Len(archive[m]) \in Nat
    BY Members DEF IndInv
  <2>3. \A l \in 1..i : archive[m][l].sound
    BY <1>2, <2>1, <2>2 DEF Sound
  <2> QED
    BY <1>2, <2>3 DEF Readable
<1> QED
  BY <1>3, <1>4

-----------------------------------------------------------------------------
\* The inductive invariant holds, whatever overlaps, fails or is cut off.
THEOREM Inductive == Spec => []IndInv
<1>1. Init => IndInv
  BY InitInv
<1>2. IndInv /\ [Next]_vars => IndInv'
  BY IndStep
<1> QED
  BY <1>1, <1>2, PTL DEF Spec

\* A row leaves the table only when an archive has it or a call was told not to keep it,
\* and an archive has it once, unless calls crossed or a member was cut off: for any
\* number of rows, calls, cleaners and months.
THEOREM ArchiveSound == Spec => []ArchiveIsSound
<1>1. IndInv => ArchiveIsSound
  BY SafeIsArchived DEF IndInv, ArchiveIsSound
<1> QED
  BY <1>1, Inductive, PTL

-----------------------------------------------------------------------------
(* The backups *)


\* Nothing anywhere is newer than the last commit.
Committed ==
    /\ main <= version /\ wal <= version
    /\ \A c \in Op : since[c] <= version /\ want[c] <= version
    /\ \A i \in Files : dir[i] <= version

\* A call that has yet to copy finds what was there when it began, something later, or
\* pages that fit nothing; and while the connections hold an unlinked log no call is owed
\* anything.
Current ==
    /\ stale => \A c \in Op : since[c] = Torn
    /\ \A c \in Op : stage[c] = "copy" => since[c] <= Holds \/ Holds = Torn

\* A backup belongs to one call, from its copy on.
Owned ==
    /\ \A c, d \in Op : mine[c] = mine[d] /\ mine[c] # 0 => c = d
    /\ \A c \in Op : mine[c] # 0 => stage[c] \in {"verify", "retain", "overwrite", "unlink"}
    /\ \A c \in Op : stage[c] \in {"verify", "retain"} => mine[c] # 0
    /\ \A c \in Op : safe[c] /\ stage[c] \in {"overwrite", "unlink"} => mine[c] # 0

\* It is there until somebody else takes it, and holds enough once it was verified.
Secured ==
    \A c \in Op : mine[c] # 0 /\ mine[c] \notin lame \cup taken =>
        /\ mine[c] \in Files
        /\ dir[mine[c]] >= since[c] \/ (stage[c] = "verify" /\ dir[mine[c]] = Torn)

\* The inductive invariant of the backups.
BackupInv == BackupIsSound /\ Committed /\ Current /\ Owned /\ Secured

-----------------------------------------------------------------------------
\* One backup, of the version there is.
LEMMA BackupInitInv ==
    ASSUME BackupInit PROVE BackupInv
<1>1. Files = {1} /\ dir[1] = 1
  BY DEF BackupInit, Files
<1>2. BackupTypeOK
  <2>1. 0 \in Version /\ 1 \in Version /\ 0 \in 0..MaxCalls
    BY BackupAssumption DEF Version
  <2>2. made = 1 /\ made \in Nat \ {0} /\ Files \subseteq 1..made /\ 0 \in 0..made
    BY <1>1 DEF BackupInit
  <2>3. dir \in [Files -> Version] /\ newer \in [Files -> SUBSET Files]
    BY <1>1, <2>1 DEF BackupInit
  <2> QED
    BY <2>1, <2>2, <2>3 DEF BackupInit, BackupTypeOK
<1>3. RestoreIsKept /\ SafetyFirst /\ Current /\ Owned /\ Secured
  BY DEF BackupInit, RestoreIsKept, SafetyFirst, Current, Owned, Secured, Torn
<1>4. Committed
  BY <1>1 DEF BackupInit, Committed
<1> QED
  BY <1>2, <1>3, <1>4 DEF BackupInv, BackupIsSound

\* The directory after a file was written or files were unlinked.
LEMMA WrittenDir ==
    ASSUME BackupTypeOK, NEW i \in Nat \ {0}, NEW v \in Version, NEW after \in SUBSET Files,
           Written(i, v, after)
    PROVE  /\ Files' = Files \cup {i}
           /\ dir' \in [Files' -> Version] /\ newer' \in [Files' -> SUBSET Files']
           /\ dir'[i] = v /\ \A j \in Files : j # i => dir'[j] = dir[j]
<1>1. Files' = Files \cup {i}
  BY DEF Written, Files
<1>2. dir' \in [Files' -> Version] /\ newer' \in [Files' -> SUBSET Files']
  BY <1>1 DEF Written, BackupTypeOK
<1> QED
  BY <1>1, <1>2 DEF Written

LEMMA UnlinkedDir ==
    ASSUME BackupTypeOK, NEW ids, Unlinked(ids)
    PROVE  /\ Files' = Files \ ids
           /\ dir' \in [Files' -> Version] /\ newer' \in [Files' -> SUBSET Files']
           /\ \A j \in Files' : dir'[j] = dir[j]
<1>1. Files' = Files \ ids
  BY DEF Unlinked, Files
<1> QED
  BY <1>1 DEF Unlinked, BackupTypeOK

\* A file just copied gets a number of its own.
LEMMA CopiedDir ==
    ASSUME BackupTypeOK, NEW c \in Op, Copies(c)
    PROVE  /\ made + 1 \notin Files
           /\ Files' = Files \cup {made + 1} /\ Files' \subseteq 1..made'
           /\ dir' \in [Files' -> Version] /\ newer' \in [Files' -> SUBSET Files']
           /\ \A j \in Files : dir'[j] = dir[j]
           /\ \/ dir'[made + 1] = Holds /\ lame' = lame
              \/ dir'[made + 1] = main /\ lame' = lame \cup {made + 1}
<1>1. /\ made + 1 \in Nat \ {0} /\ made' = made + 1 /\ \A i \in 1..made : i # made + 1
      /\ 1..made' = 1..made \cup {made + 1}
  BY DEF BackupTypeOK, Copies
<1>2. made + 1 \notin Files
  BY <1>1 DEF BackupTypeOK
<1>3. Holds \in Version /\ main \in Version
  BY DEF BackupTypeOK, Holds
<1>4. \A after \in {Files} \cup {newer[j] : j \in Files} : after \in SUBSET Files
  BY DEF BackupTypeOK
<1>5. ASSUME NEW v \in Version, NEW after \in SUBSET Files, Written(made + 1, v, after)
      PROVE  /\ Files' = Files \cup {made + 1} /\ Files' \subseteq 1..made'
             /\ dir' \in [Files' -> Version] /\ newer' \in [Files' -> SUBSET Files']
             /\ \A j \in Files : dir'[j] = dir[j]
             /\ dir'[made + 1] = v
  <2>1. /\ Files' = Files \cup {made + 1}
        /\ dir' \in [Files' -> Version] /\ newer' \in [Files' -> SUBSET Files']
        /\ dir'[made + 1] = v /\ \A j \in Files : j # made + 1 => dir'[j] = dir[j]
    BY <1>1, <1>5, WrittenDir
  <2>2. Files' \subseteq 1..made'
    BY <1>1, <2>1 DEF BackupTypeOK
  <2> QED
    BY <1>2, <2>1, <2>2
<1>6. CASE Written(made + 1, Snapshot, {}) /\ UNCHANGED lame
  <2>1. Written(made + 1, Holds, {}) /\ {} \in SUBSET Files
    BY <1>6 DEF Snapshot
  <2> QED
    BY <1>2, <1>3, <1>5, <1>6, <2>1
<1>7. CASE /\ \E after \in {Files} \cup {newer[j] : j \in Files} : Written(made + 1, main, after)
           /\ lame' = lame \cup {made + 1}
  BY <1>2, <1>3, <1>4, <1>5, <1>7
<1> QED
  BY <1>6, <1>7 DEF Copies

\* What becomes of a call that leaves, and of the others.
LEMMA AfterLeaving ==
    ASSUME BackupTypeOK, NEW c \in Op, NEW began \in [Op -> Version], Leaves(c, began)
    PROVE  /\ stage' \in [Op -> {"idle", "copy", "verify", "retain", "overwrite", "unlink"}]
           /\ mine' \in [Op -> 0..made] /\ src' \in [Op -> 0..made] /\ want' \in [Op -> Version]
           /\ safe' \in [Op -> BOOLEAN] /\ since' \in [Op -> Version]
           /\ stage'[c] = "idle" /\ mine'[c] = 0 /\ want'[c] = 0 /\ since'[c] = Torn
           /\ ~safe'[c]
           /\ \A d \in Op \ {c} : /\ stage'[d] = stage[d] /\ mine'[d] = mine[d]
                                  /\ want'[d] = want[d] /\ since'[d] = began[d]
                                  /\ safe'[d] = safe[d] /\ src'[d] = src[d]
<1>1. 0 \in 0..made /\ 0 \in Version /\ Torn \in Version
  BY BackupAssumption DEF BackupTypeOK, Version, Torn
<1> QED
  BY <1>1 DEF Leaves, To, BackupTypeOK

LEMMA AnewType ==
    ASSUME BackupTypeOK, NEW c \in Op
    PROVE  /\ Anew(c) \in [Op -> Version]
           /\ Anew(c)[c] = since[c] /\ \A d \in Op \ {c} : Anew(c)[d] = Torn
  BY BackupAssumption DEF BackupTypeOK, Anew, Version, Torn

\* Every step keeps the types.
LEMMA BackupTypeStep ==
    ASSUME BackupTypeOK, Committed, BackupNext PROVE BackupTypeOK'
<1> USE DEF db, directory, operation, restored
<1> DEFINE Stages == {"idle", "copy", "verify", "retain", "overwrite", "unlink"}
<1>1. 0 \in Version /\ Torn \in Version /\ Torn = 0 /\ 0 \in 0..made /\ Holds \in Version
  BY BackupAssumption DEF BackupTypeOK, Version, Torn, Holds
<1>2. calls < MaxCalls /\ calls' = calls + 1 => calls' \in 0..MaxCalls
  BY BackupAssumption DEF BackupTypeOK
<1>3. ASSUME NEW c \in Op, BeginsBackup(c) PROVE BackupTypeOK'
  BY <1>1, <1>2, <1>3 DEF BeginsBackup, To, BackupTypeOK, Files
<1>4. ASSUME NEW c \in Op, BeginsRestore(c) PROVE BackupTypeOK'
  <2>1. PICK f \in Files, b \in BOOLEAN :
          /\ src' = [src EXCEPT ![c] = f] /\ want' = [want EXCEPT ![c] = dir[f]]
          /\ safe' = [safe EXCEPT ![c] = b] /\ To(c, IF b THEN "copy" ELSE "overwrite")
    BY <1>4 DEF BeginsRestore
  <2>2. f \in 0..made /\ dir[f] \in Version
    BY DEF BackupTypeOK
  <2>3. src' \in [Op -> 0..made] /\ want' \in [Op -> Version] /\ safe' \in [Op -> BOOLEAN]
    BY <2>1, <2>2 DEF BackupTypeOK
  <2>4. stage' \in [Op -> Stages] /\ since' \in [Op -> Version] /\ calls' \in 0..MaxCalls
    BY <1>1, <1>2, <1>4, <2>1 DEF BeginsRestore, To, BackupTypeOK
  <2> QED
    BY <1>4, <2>3, <2>4 DEF BeginsRestore, BackupTypeOK, Files
<1>5. ASSUME NEW c \in Op, Copies(c) PROVE BackupTypeOK'
  <2>1. /\ Files' \subseteq 1..made'
        /\ dir' \in [Files' -> Version] /\ newer' \in [Files' -> SUBSET Files']
        /\ lame' = lame \/ lame' = lame \cup {made + 1}
    BY <1>5, CopiedDir
  <2>2. /\ made' = made + 1 /\ made' \in Nat \ {0} /\ made + 1 \in 0..made'
        /\ 0..made \subseteq 0..made' /\ 1..made \subseteq 1..made' /\ made + 1 \in 1..made'
    BY <1>5 DEF Copies, BackupTypeOK
  <2>3. stage' \in [Op -> Stages] /\ mine' \in [Op -> 0..made']
    BY <1>5, <2>2 DEF Copies, To, BackupTypeOK
  <2>4. src' \in [Op -> 0..made'] /\ lame' \subseteq 1..made' /\ taken' \subseteq 1..made'
    BY <1>5, <2>1, <2>2 DEF Copies, BackupTypeOK
  <2> QED
    BY <1>5, <2>1, <2>2, <2>3, <2>4 DEF Copies, BackupTypeOK
<1>6. ASSUME NEW c \in Op, Verifies(c) PROVE BackupTypeOK'
  <2>1. CASE To(c, "retain") /\ UNCHANGED <<directory, mine, src, want, safe, since>>
    BY <1>6, <2>1 DEF Verifies, To, BackupTypeOK, Files
  <2>2. CASE Leaves(c, since) /\ Unlinked({mine[c]})
    <3>1. Files' \subseteq 1..made /\ dir' \in [Files' -> Version]
          /\ newer' \in [Files' -> SUBSET Files']
      BY <2>2, UnlinkedDir DEF BackupTypeOK
    <3>2. since \in [Op -> Version]
      BY DEF BackupTypeOK
    <3> QED
      BY <1>6, <2>2, <3>1, <3>2, AfterLeaving DEF Verifies, BackupTypeOK
  <2> QED
    BY <1>6, <2>1, <2>2 DEF Verifies
<1>7. ASSUME NEW c \in Op, Retains(c) PROVE BackupTypeOK'
  <2>1. Files' \subseteq 1..made /\ dir' \in [Files' -> Version]
        /\ newer' \in [Files' -> SUBSET Files']
    BY <1>7, UnlinkedDir DEF Retains, BackupTypeOK
  <2>2. taken' \subseteq 1..made
    BY <1>7 DEF Retains, Surplus, BackupTypeOK
  <2>3. CASE Leaves(c, since)
    <3>1. since \in [Op -> Version]
      BY DEF BackupTypeOK
    <3> QED
      BY <1>7, <2>1, <2>2, <2>3, <3>1, AfterLeaving DEF Retains, BackupTypeOK
  <2>4. CASE To(c, "overwrite") /\ UNCHANGED <<mine, src, want, safe, since>>
    BY <1>7, <2>1, <2>2, <2>4 DEF Retains, To, BackupTypeOK
  <2> QED
    BY <1>7, <2>3, <2>4 DEF Retains
<1>8. ASSUME NEW c \in Op, Overwrites(c) PROVE BackupTypeOK'
  <2>1. CASE /\ promised' = 0 /\ main' = want[c] /\ To(c, "unlink") /\ since' = Anew(c)
             /\ UNCHANGED <<mine, src, want, safe>>
    BY <1>1, <1>8, <2>1, AnewType DEF Overwrites, To, BackupTypeOK, Files
  <2>2. CASE promised' = 0 /\ main' = Torn /\ Leaves(c, Anew(c))
    BY <1>1, <1>8, <2>2, AnewType, AfterLeaving DEF Overwrites, BackupTypeOK, Files
  <2>3. CASE Leaves(c, since) /\ UNCHANGED <<main, promised>>
    <3>1. since \in [Op -> Version]
      BY DEF BackupTypeOK
    <3> QED
      BY <1>8, <2>3, <3>1, AfterLeaving DEF Overwrites, BackupTypeOK, Files
  <2> QED
    BY <1>8, <2>1, <2>2, <2>3 DEF Overwrites
<1>9. ASSUME NEW c \in Op, Unlinks(c) PROVE BackupTypeOK'
  <2>1. Anew(c) \in [Op -> Version]
    BY AnewType
  <2>2. wal' \in Version /\ promised' \in Version /\ stale' = TRUE /\ ghost' \in BOOLEAN
        /\ undone' \in BOOLEAN
    BY <1>1, <1>9 DEF Unlinks, LogAfter, BackupTypeOK
  <2> QED
    BY <1>9, <2>1, <2>2, AfterLeaving DEF Unlinks, BackupTypeOK, Files
<1>10. CASE DeletesBackup
  <2>1. PICK f \in Files : Unlinked({f}) /\ taken' = taken \cup {f}
    BY <1>10 DEF DeletesBackup
  <2>2. /\ Files' = Files \ {f} /\ dir' \in [Files' -> Version]
        /\ newer' \in [Files' -> SUBSET Files']
    BY <2>1, UnlinkedDir
  <2>3. Files' \subseteq 1..made /\ taken' \subseteq 1..made
    BY <2>1, <2>2 DEF BackupTypeOK
  <2> QED
    BY <1>10, <2>2, <2>3 DEF DeletesBackup, BackupTypeOK
<1>11. CASE Commits
  <2>1. version' \in Version
    BY <1>11, BackupAssumption DEF Commits, BackupTypeOK, Version
  <2>2. wal' \in Version /\ promised' \in Version /\ undone' \in BOOLEAN
        /\ ghost' \in BOOLEAN /\ (ghost' => stale')
    <3>1. CASE /\ stale /\ ghost' = TRUE
               /\ UNCHANGED <<wal, restored>>
      BY <1>11, <3>1 DEF Commits, BackupTypeOK
    <3>2. CASE /\ ~stale /\ wal' = version' /\ promised' = 0
               /\ UNCHANGED <<ghost, undone>>
      BY <1>1, <1>11, <2>1, <3>2 DEF Commits, BackupTypeOK
    <3> QED
      BY <1>11, <3>1, <3>2 DEF Commits
  <2> QED
    BY <1>11, <2>1, <2>2 DEF Commits, BackupTypeOK, Files
<1>12. CASE Checkpoints
  <2>1. main' \in Version /\ wal' \in Version /\ ghost' = FALSE /\ undone' \in BOOLEAN
    BY <1>1, <1>12 DEF Checkpoints, BackupTypeOK
  <2> QED
    BY <1>12, <2>1 DEF Checkpoints, BackupTypeOK, Files
<1>13. CASE Killed \/ ShutDown
  <2>1. main' \in Version /\ wal' \in Version /\ promised' \in Version /\ undone' \in BOOLEAN
    BY <1>1, <1>13 DEF Killed, ShutDown, BackupTypeOK
  <2>2. Restarted
    BY <1>13 DEF Killed, ShutDown
  <2> QED
    BY <1>1, <2>1, <2>2 DEF Restarted, BackupTypeOK, Files
<1> QED
  BY <1>3, <1>4, <1>5, <1>6, <1>7, <1>8, <1>9, <1>10, <1>11, <1>12, <1>13 DEF BackupNext

\* A commit is the newest version there is.
LEMMA CommittedStep ==
    ASSUME BackupTypeOK, Committed, BackupNext PROVE Committed'
<1> USE DEF db, directory, operation, restored
<1>1. /\ Torn = 0 /\ Holds \in Nat /\ Holds <= version /\ version \in Nat /\ main \in Nat
      /\ wal \in Nat /\ main <= version /\ wal <= version /\ 0 <= version
      /\ \A n \in Version : n \in Nat
  BY DEF BackupTypeOK, Version, Torn, Holds, Committed
<1>2. ASSUME NEW c \in Op, BeginsBackup(c) \/ BeginsRestore(c) PROVE Committed'
  <2>1. \A d \in Op : since'[d] <= version
    BY <1>1, <1>2 DEF BeginsBackup, BeginsRestore, BackupTypeOK, Committed
  <2>2. \A d \in Op : want'[d] <= version
    BY <1>2 DEF BeginsBackup, BeginsRestore, BackupTypeOK, Committed
  <2> QED
    BY <1>2, <2>1, <2>2 DEF BeginsBackup, BeginsRestore, Committed, Files
<1>3. ASSUME NEW c \in Op, NEW began \in [Op -> Version], Leaves(c, began),
             \A d \in Op : began[d] <= version
      PROVE  \A d \in Op : since'[d] <= version /\ want'[d] <= version
  BY <1>1, <1>3, AfterLeaving DEF Committed
<1>4. \A d \in Op : since[d] <= version /\ want[d] <= version
  BY DEF Committed
<1>5. since \in [Op -> Version]
  BY DEF BackupTypeOK
<1>6. ASSUME NEW ids, Unlinked(ids) PROVE \A i \in Files' : dir'[i] <= version
  BY <1>6, UnlinkedDir DEF Committed
<1>7. ASSUME NEW c \in Op, Copies(c) PROVE Committed'
  <2>1. \A i \in Files' : dir'[i] <= version
    BY <1>1, <1>7, CopiedDir DEF Committed
  <2> QED
    BY <1>7, <2>1 DEF Copies, Committed
<1>8. ASSUME NEW c \in Op, Verifies(c) PROVE Committed'
  <2>1. CASE To(c, "retain") /\ UNCHANGED <<directory, mine, src, want, safe, since>>
    BY <1>8, <2>1 DEF Verifies, Committed, Files
  <2>2. CASE Leaves(c, since) /\ Unlinked({mine[c]})
    BY <1>3, <1>4, <1>5, <1>6, <1>8, <2>2 DEF Verifies, Committed
  <2> QED
    BY <1>8, <2>1, <2>2 DEF Verifies
<1>9. ASSUME NEW c \in Op, Retains(c) PROVE Committed'
  <2>1. \A i \in Files' : dir'[i] <= version
    BY <1>6, <1>9 DEF Retains
  <2>2. CASE Leaves(c, since)
    BY <1>3, <1>4, <1>5, <1>9, <2>1, <2>2 DEF Retains, Committed
  <2>3. CASE UNCHANGED <<mine, src, want, safe, since>>
    BY <1>9, <2>1, <2>3 DEF Retains, Committed
  <2> QED
    BY <1>9, <2>2, <2>3 DEF Retains
<1>10. ASSUME NEW c \in Op
       PROVE  Anew(c) \in [Op -> Version] /\ \A d \in Op : Anew(c)[d] <= version
  BY <1>1, <1>4, AnewType
<1>11. ASSUME NEW c \in Op, Overwrites(c) PROVE Committed'
  <2>1. main' <= version /\ UNCHANGED <<version, wal, directory>>
    BY <1>1, <1>4, <1>11 DEF Overwrites
  <2>2. \A d \in Op : since'[d] <= version /\ want'[d] <= version
    BY <1>3, <1>4, <1>5, <1>10, <1>11 DEF Overwrites
  <2> QED
    BY <2>1, <2>2 DEF Committed, Files
<1>12. ASSUME NEW c \in Op, Unlinks(c) PROVE Committed'
  <2>1. \A d \in Op : since'[d] <= version /\ want'[d] <= version
    BY <1>3, <1>10, <1>12 DEF Unlinks
  <2> QED
    BY <1>1, <1>12, <2>1 DEF Unlinks, LogAfter, Committed, Files
<1>13. CASE DeletesBackup
  BY <1>6, <1>13 DEF DeletesBackup, Committed
<1>14. CASE Commits
  <2>1. version' \in Nat /\ version < version' /\ (wal' = version' \/ wal' = wal)
        /\ UNCHANGED <<main, directory, operation>>
    BY <1>1, <1>14 DEF Commits
  <2>2. ASSUME NEW n \in Nat, n <= version PROVE n <= version'
    BY <1>1, <2>1, <2>2
  <2>3. /\ \A d \in Op : since[d] \in Nat /\ want[d] \in Nat
        /\ \A i \in Files : dir[i] \in Nat
    BY <1>1 DEF BackupTypeOK
  <2> QED
    BY <1>1, <1>4, <2>1, <2>2, <2>3 DEF Committed, Files
<1>15. CASE Checkpoints
  BY <1>1, <1>15 DEF Checkpoints, Committed, Files
<1>16. CASE Killed \/ ShutDown
  <2>1. main' <= version /\ wal' <= version /\ Restarted
    BY <1>1, <1>16 DEF Killed, ShutDown
  <2> QED
    BY <1>1, <2>1 DEF Restarted, Committed, Files
<1> QED
  BY <1>2, <1>7, <1>8, <1>9, <1>11, <1>12, <1>13, <1>14, <1>15, <1>16 DEF BackupNext

\* What the database holds only gets newer, or torn, except when a call overwrites it: then
\* nothing is owed to the others any more.
LEMMA CurrentStep ==
    ASSUME BackupTypeOK, Committed, Current, BackupNext PROVE Current'
<1> USE DEF db, directory, operation, restored
<1>1. /\ Torn = 0 /\ Holds \in Nat /\ Holds <= version /\ version \in Nat /\ 0 <= Holds
      /\ \A n \in Version : n \in Nat /\ n <= n /\ 0 <= n
  BY DEF BackupTypeOK, Version, Torn, Holds, Committed
<1>2. ASSUME UNCHANGED <<main, wal, stale>>, NEW c \in Op,
             \A d \in Op \ {c} : stage'[d] = stage[d] /\ since'[d] \in {since[d], Torn},
             stale => since'[c] = Torn,
             stage'[c] = "copy" => since'[c] <= Holds
      PROVE  Current'
  BY <1>1, <1>2 DEF Current, Holds
<1>3. ASSUME NEW c \in Op, BeginsBackup(c) \/ BeginsRestore(c) PROVE Current'
  <2>1. since'[c] = IF stale THEN Torn ELSE Holds
    BY <1>3 DEF BeginsBackup, BeginsRestore, BackupTypeOK
  <2>2. \A d \in Op \ {c} : stage'[d] = stage[d] /\ since'[d] = since[d]
    BY <1>3 DEF BeginsBackup, BeginsRestore, To, BackupTypeOK
  <2> QED
    BY <1>1, <1>2, <1>3, <2>1, <2>2 DEF BeginsBackup, BeginsRestore
<1>4. ASSUME NEW c \in Op, UNCHANGED since,
             To(c, "verify") \/ To(c, "retain") \/ To(c, "overwrite"),
             UNCHANGED <<main, wal, stale>>
      PROVE  Current'
  BY <1>1, <1>2, <1>4 DEF To, BackupTypeOK, Current
<1>5. ASSUME NEW c \in Op, Leaves(c, since), UNCHANGED <<main, wal, stale>> PROVE Current'
  <2>1. since \in [Op -> Version]
    BY DEF BackupTypeOK
  <2>2. stage'[c] = "idle" /\ since'[c] = Torn
        /\ \A d \in Op \ {c} : stage'[d] = stage[d] /\ since'[d] = since[d]
    BY <1>5, <2>1, AfterLeaving
  <2> QED
    BY <1>2, <1>5, <2>2
<1>6. ASSUME NEW c \in Op, Copies(c) \/ Verifies(c) \/ Retains(c) PROVE Current'
  BY <1>4, <1>5, <1>6 DEF Copies, Verifies, Retains
<1>7. ASSUME \A d \in Op : since'[d] = Torn, Holds' \in Nat PROVE Current'
  BY <1>1, <1>7 DEF Current
<1>8. Holds' \in Nat
  <2>1. BackupTypeOK'
    BY BackupTypeStep
  <2> QED
    BY <2>1 DEF BackupTypeOK, Holds, Version
<1>9. ASSUME NEW c \in Op, Overwrites(c) PROVE Current'
  <2>1. CASE To(c, "unlink") /\ since' = Anew(c) /\ UNCHANGED stale
    <3>1. stage'[c] = "unlink" /\ since'[c] = since[c]
          /\ \A d \in Op \ {c} : since'[d] = Torn
      BY <2>1, AnewType DEF To, BackupTypeOK
    <3> QED
      BY <1>1, <1>8, <2>1, <3>1 DEF Current
  <2>2. CASE Leaves(c, Anew(c))
    <3>1. \A d \in Op : since'[d] = Torn
      BY <2>2, AnewType, AfterLeaving
    <3> QED
      BY <1>7, <1>8, <3>1
  <2>3. CASE Leaves(c, since) /\ UNCHANGED <<main, wal, stale>>
    BY <1>5, <2>3
  <2> QED
    BY <1>9, <2>1, <2>2, <2>3 DEF Overwrites
<1>10. ASSUME NEW c \in Op, Unlinks(c) PROVE Current'
  <2>1. \A d \in Op : since'[d] = Torn
    BY <1>10, AnewType, AfterLeaving DEF Unlinks
  <2> QED
    BY <1>7, <1>8, <2>1
<1>11. CASE DeletesBackup
  BY <1>11 DEF DeletesBackup, Current, Holds
<1>12. CASE Commits
  <2>1. CASE stale
    BY <1>1, <1>8, <1>12, <2>1 DEF Commits, Current
  <2>2. CASE ~stale
    <3>1. version' \in Nat /\ version < version' /\ Holds' = version'
          /\ UNCHANGED <<operation, stale>>
      BY <1>1, <1>12, <2>2 DEF Commits, Holds
    <3>2. \A d \in Op : since[d] \in Nat /\ since[d] <= version
      BY <1>1 DEF BackupTypeOK, Committed
    <3>3. \A d \in Op : since[d] <= version'
      BY <1>1, <3>1, <3>2
    <3> QED
      BY <2>2, <3>1, <3>3 DEF Current
  <2> QED
    BY <2>1, <2>2
<1>13. CASE Checkpoints
  <2>1. Holds' = Torn \/ Holds' = Holds
    BY <1>1, <1>13 DEF Checkpoints, Holds, BackupTypeOK
  <2> QED
    BY <1>13, <2>1 DEF Checkpoints, Current
<1>14. CASE Killed \/ ShutDown
  <2>1. \A d \in Op : since'[d] = Torn
    BY <1>14 DEF Killed, ShutDown, Restarted
  <2> QED
    BY <1>7, <1>8, <2>1
<1> QED
  BY <1>3, <1>6, <1>9, <1>10, <1>11, <1>12, <1>13, <1>14 DEF BackupNext

-----------------------------------------------------------------------------
\* A copy has a number nobody else has, and its call keeps it to the end.
LEMMA OwnedStep ==
    ASSUME BackupTypeOK, Owned, BackupNext PROVE Owned'
<1> USE DEF db, directory, operation, restored
<1> DEFINE Working == {"verify", "retain", "overwrite", "unlink"}
<1>1. ASSUME NEW c \in Op, NEW began \in [Op -> Version], Leaves(c, began) PROVE Owned'
  <2>1. /\ stage'[c] = "idle" /\ mine'[c] = 0
        /\ \A d \in Op \ {c} : /\ stage'[d] = stage[d] /\ mine'[d] = mine[d]
                               /\ safe'[d] = safe[d]
    BY <1>1, AfterLeaving
  <2> QED
    BY <2>1 DEF Owned
<1>2. since \in [Op -> Version] /\ \A c \in Op : Anew(c) \in [Op -> Version]
  BY AnewType DEF BackupTypeOK
<1>3. ASSUME NEW c \in Op, UNCHANGED <<mine, safe>>,
             \/ stage[c] = "verify" /\ To(c, "retain")
             \/ mine[c] # 0 /\ To(c, "overwrite")
             \/ stage[c] = "overwrite" /\ To(c, "unlink")
      PROVE  Owned'
  BY <1>3 DEF To, Owned, BackupTypeOK
<1>4. ASSUME NEW c \in Op, BeginsBackup(c) \/ BeginsRestore(c) PROVE Owned'
  <2>1. /\ stage[c] = "idle" /\ mine' = mine
        /\ \A d \in Op \ {c} : stage'[d] = stage[d] /\ safe'[d] = safe[d]
        /\ stage'[c] = "copy" \/ (stage'[c] = "overwrite" /\ ~safe'[c])
    BY <1>4 DEF BeginsBackup, BeginsRestore, To, BackupTypeOK
  <2>2. mine[c] = 0
    BY <2>1 DEF Owned
  <2> QED
    BY <2>1, <2>2 DEF Owned
<1>5. ASSUME NEW c \in Op, Copies(c) PROVE Owned'
  <2>1. /\ mine'[c] = made + 1 /\ made + 1 # 0 /\ stage'[c] = "verify" /\ safe' = safe
        /\ \A d \in Op \ {c} : mine'[d] = mine[d] /\ stage'[d] = stage[d]
    BY <1>5 DEF Copies, To, BackupTypeOK
  <2>2. \A d \in Op : mine[d] # made + 1
    BY DEF BackupTypeOK
  <2> QED
    BY <2>1, <2>2 DEF Owned
<1>6. ASSUME NEW c \in Op, Verifies(c) PROVE Owned'
  BY <1>1, <1>2, <1>3, <1>6 DEF Verifies
<1>7. ASSUME NEW c \in Op, Retains(c) PROVE Owned'
  <2>1. mine[c] # 0
    BY <1>7 DEF Retains, Owned
  <2> QED
    BY <1>1, <1>2, <1>3, <1>7, <2>1 DEF Retains
<1>8. ASSUME NEW c \in Op, Overwrites(c) PROVE Owned'
  BY <1>1, <1>2, <1>3, <1>8 DEF Overwrites
<1>9. ASSUME NEW c \in Op, Unlinks(c) PROVE Owned'
  BY <1>1, <1>2, <1>9 DEF Unlinks
<1>10. CASE DeletesBackup \/ Commits \/ Checkpoints
  BY <1>10 DEF DeletesBackup, Commits, Checkpoints, Owned
<1>11. CASE Killed \/ ShutDown
  BY <1>11 DEF Killed, ShutDown, Restarted, Owned
<1> QED
  BY <1>4, <1>5, <1>6, <1>7, <1>8, <1>9, <1>10, <1>11 DEF BackupNext

\* Files that go are somebody's own that failed its check, or are taken.
LEMMA SecuredStep ==
    ASSUME BackupTypeOK, Current, Owned, Secured, BackupNext PROVE Secured'
<1> USE DEF db, directory, operation, restored
<1>1. /\ Torn = 0 /\ Holds \in Nat
      /\ \A n \in Version : n \in Nat /\ n <= n /\ 0 <= n
  BY DEF BackupTypeOK, Version, Torn, Holds
<1>2. \A d \in Op : since[d] \in Nat
  BY <1>1 DEF BackupTypeOK
<1>3. \A i \in Files : dir[i] \in Nat /\ dir[i] >= 0
  BY <1>1 DEF BackupTypeOK
<1>4. ASSUME lame \subseteq lame', taken \subseteq taken', NEW d \in Op, mine'[d] = mine[d],
             mine'[d] # 0, mine'[d] \notin lame' \cup taken',
             mine[d] \in Files => mine[d] \in Files' /\ dir'[mine[d]] = dir[mine[d]],
             since'[d] \in {since[d], Torn},
             stage'[d] = stage[d] \/ dir[mine[d]] # Torn
      PROVE  /\ mine'[d] \in Files'
             /\ dir'[mine'[d]] >= since'[d] \/ (stage'[d] = "verify" /\ dir'[mine'[d]] = Torn)
  BY <1>1, <1>3, <1>4 DEF Secured
<1>5. ASSUME NEW c \in Op, NEW began \in [Op -> Version], Leaves(c, began),
             \A d \in Op \ {c} : began[d] \in {since[d], Torn},
             lame \subseteq lame', taken \subseteq taken',
             \A d \in Op \ {c} : mine[d] # 0 /\ mine[d] \notin taken' /\ mine[d] \in Files
                 => mine[d] \in Files' /\ dir'[mine[d]] = dir[mine[d]]
      PROVE  Secured'
  <2>1. /\ mine'[c] = 0
        /\ \A d \in Op \ {c} : /\ stage'[d] = stage[d] /\ mine'[d] = mine[d]
                               /\ since'[d] = began[d]
    BY <1>5, AfterLeaving
  <2> SUFFICES ASSUME NEW d \in Op, mine'[d] # 0, mine'[d] \notin lame' \cup taken'
               PROVE  /\ mine'[d] \in Files'
                      /\ dir'[mine'[d]] >= since'[d]
                         \/ (stage'[d] = "verify" /\ dir'[mine'[d]] = Torn)
    BY DEF Secured
  <2> QED
    BY <1>4, <1>5, <2>1
<1>6. since \in [Op -> Version] /\ \A c \in Op : Anew(c) \in [Op -> Version]
  BY AnewType DEF BackupTypeOK
<1>7. ASSUME NEW c \in Op, BeginsBackup(c) \/ BeginsRestore(c) PROVE Secured'
  <2>1. mine[c] = 0
    BY <1>7 DEF BeginsBackup, BeginsRestore, Owned
  <2>2. /\ UNCHANGED <<mine, directory, lame, taken>>
        /\ \A d \in Op \ {c} : stage'[d] = stage[d] /\ since'[d] = since[d]
    BY <1>7 DEF BeginsBackup, BeginsRestore, To, BackupTypeOK
  <2> QED
    BY <2>1, <2>2 DEF Secured, Files
<1>8. ASSUME NEW c \in Op, Copies(c) PROVE Secured'
  <2>1. /\ mine'[c] = made + 1 /\ stage'[c] = "verify" /\ since' = since /\ taken' = taken
        /\ \A d \in Op \ {c} : mine'[d] = mine[d] /\ stage'[d] = stage[d]
    BY <1>8 DEF Copies, To, BackupTypeOK
  <2>2. /\ Files' = Files \cup {made + 1}
        /\ \A j \in Files : dir'[j] = dir[j]
        /\ \/ dir'[made + 1] = Holds /\ lame' = lame
           \/ lame' = lame \cup {made + 1}
    BY <1>8, CopiedDir
  <2>3. since[c] <= Holds \/ Holds = Torn
    BY <1>8 DEF Copies, Current
  <2> SUFFICES ASSUME NEW d \in Op, mine'[d] # 0, mine'[d] \notin lame' \cup taken'
               PROVE  /\ mine'[d] \in Files'
                      /\ dir'[mine'[d]] >= since'[d]
                         \/ (stage'[d] = "verify" /\ dir'[mine'[d]] = Torn)
    BY DEF Secured
  <2>4. CASE d = c
    BY <1>1, <1>2, <2>1, <2>2, <2>3, <2>4
  <2>5. CASE d # c
    BY <1>4, <2>1, <2>2, <2>5
  <2> QED
    BY <2>4, <2>5
<1>9. ASSUME NEW c \in Op, Verifies(c) PROVE Secured'
  <2>1. CASE /\ mine[c] \in Files /\ dir[mine[c]] # Torn
             /\ To(c, "retain") /\ UNCHANGED <<directory, mine, src, want, safe, since>>
    <3>1. \A d \in Op \ {c} : stage'[d] = stage[d]
      BY <2>1 DEF To, BackupTypeOK
    <3>2. UNCHANGED <<mine, since, lame, taken, Files, dir>>
      BY <1>9, <2>1 DEF Verifies, Files
    <3> SUFFICES ASSUME NEW d \in Op, mine'[d] # 0, mine'[d] \notin lame' \cup taken'
                 PROVE  /\ mine'[d] \in Files'
                        /\ dir'[mine'[d]] >= since'[d]
                           \/ (stage'[d] = "verify" /\ dir'[mine'[d]] = Torn)
      BY DEF Secured
    <3>3. stage'[d] = stage[d] \/ dir[mine[d]] # Torn
      BY <2>1, <3>1
    <3> QED
      BY <1>4, <3>2, <3>3
  <2>2. CASE Leaves(c, since) /\ Unlinked({mine[c]})
    <3>1. mine[c] # 0 /\ \A d \in Op \ {c} : mine[d] # mine[c]
      BY <1>9 DEF Verifies, Owned
    <3>2. UNCHANGED <<lame, taken>>
      BY <1>9 DEF Verifies
    <3>3. Files' = Files \ {mine[c]} /\ \A j \in Files' : dir'[j] = dir[j]
      BY <2>2, UnlinkedDir
    <3> QED
      BY <1>5, <1>6, <2>2, <3>1, <3>2, <3>3
  <2> QED
    BY <1>9, <2>1, <2>2 DEF Verifies
<1>10. ASSUME NEW c \in Op, Retains(c) PROVE Secured'
  <2>1. Files' = Files \ Surplus /\ \A j \in Files' : dir'[j] = dir[j]
    BY <1>10, UnlinkedDir DEF Retains
  <2>2. lame' = lame /\ taken \subseteq taken'
        /\ \A d \in Op \ {c} : mine[d] \in Surplus /\ mine[d] # mine[c] => mine[d] \in taken'
    BY <1>10 DEF Retains
  <2>3. mine[c] # 0 /\ \A d \in Op \ {c} : mine[d] # mine[c]
    BY <1>10 DEF Retains, Owned
  <2>4. CASE Leaves(c, since)
    BY <1>5, <1>6, <2>1, <2>2, <2>3, <2>4
  <2>5. CASE /\ mine[c] \in Files \ Surplus /\ To(c, "overwrite")
             /\ UNCHANGED <<mine, src, want, safe, since>>
    <3>1. stage[c] = "retain" /\ \A d \in Op \ {c} : stage'[d] = stage[d]
      BY <1>10, <2>5 DEF Retains, To, BackupTypeOK
    <3> SUFFICES ASSUME NEW d \in Op, mine'[d] # 0, mine'[d] \notin lame' \cup taken'
                 PROVE  /\ mine'[d] \in Files'
                        /\ dir'[mine'[d]] >= since'[d]
                           \/ (stage'[d] = "verify" /\ dir'[mine'[d]] = Torn)
      BY DEF Secured
    <3>2. /\ mine[d] \in Files'
          /\ dir[mine[d]] >= since[d] \/ (stage[d] = "verify" /\ dir[mine[d]] = Torn)
      BY <2>1, <2>2, <2>3, <2>5 DEF Secured
    <3> QED
      BY <2>1, <2>5, <3>1, <3>2
  <2> QED
    BY <1>10, <2>4, <2>5 DEF Retains
<1>11. ASSUME NEW c \in Op, Overwrites(c) PROVE Secured'
  <2>1. UNCHANGED <<lame, taken, Files, dir>>
    BY <1>11 DEF Overwrites, Files
  <2>2. CASE To(c, "unlink") /\ since' = Anew(c) /\ UNCHANGED mine /\ stage[c] = "overwrite"
    <3>1. \A d \in Op \ {c} : stage'[d] = stage[d] /\ since'[d] = Torn
      BY <2>2, AnewType DEF To, BackupTypeOK
    <3>2. since'[c] = since[c]
      BY <2>2, AnewType
    <3> SUFFICES ASSUME NEW d \in Op, mine'[d] # 0, mine'[d] \notin lame' \cup taken'
                 PROVE  /\ mine'[d] \in Files'
                        /\ dir'[mine'[d]] >= since'[d]
                           \/ (stage'[d] = "verify" /\ dir'[mine'[d]] = Torn)
      BY DEF Secured
    <3>3. CASE d = c
      BY <2>1, <2>2, <3>2, <3>3 DEF Secured
    <3>4. CASE d # c
      BY <1>4, <2>1, <2>2, <3>1, <3>4
    <3> QED
      BY <3>3, <3>4
  <2>3. CASE Leaves(c, Anew(c)) \/ Leaves(c, since)
    BY <1>5, <1>6, <2>1, <2>3, AnewType
  <2> QED
    BY <1>11, <2>2, <2>3 DEF Overwrites
<1>12. ASSUME NEW c \in Op, Unlinks(c) PROVE Secured'
  <2>1. UNCHANGED <<lame, taken, Files, dir>> /\ Leaves(c, Anew(c))
    BY <1>12 DEF Unlinks, Files
  <2> QED
    BY <1>5, <1>6, <2>1, AnewType
<1>13. CASE DeletesBackup
  <2>1. PICK f \in Files : Unlinked({f}) /\ taken' = taken \cup {f}
    BY <1>13 DEF DeletesBackup
  <2>2. Files' = Files \ {f} /\ \A j \in Files' : dir'[j] = dir[j]
    BY <2>1, UnlinkedDir
  <2>3. UNCHANGED <<mine, since, stage, lame>>
    BY <1>13 DEF DeletesBackup
  <2> QED
    BY <2>1, <2>2, <2>3 DEF Secured
<1>14. CASE Commits \/ Checkpoints
  BY <1>14 DEF Commits, Checkpoints, Secured, Files
<1>15. CASE Killed \/ ShutDown
  BY <1>15 DEF Killed, ShutDown, Restarted, Secured
<1> QED
  BY <1>7, <1>8, <1>9, <1>10, <1>11, <1>12, <1>13, <1>14, <1>15 DEF BackupNext

-----------------------------------------------------------------------------
\* After a restore the log is empty, and the connections that still have the old one say so
\* when they write over it.
LEMMA RestoredStep ==
    ASSUME BackupTypeOK, RestoreIsKept, BackupNext PROVE RestoreIsKept'
<1> USE DEF db, directory, operation, restored
<1>1. Torn = 0 /\ (ghost => stale)
  BY DEF BackupTypeOK, Torn
<1>2. CASE UNCHANGED <<main, wal, promised, undone>>
  BY <1>2 DEF RestoreIsKept
<1>3. ASSUME NEW c \in Op, BeginsBackup(c) \/ BeginsRestore(c) \/ Copies(c) \/ Verifies(c)
             \/ Retains(c)
      PROVE  UNCHANGED <<main, wal, promised, undone>>
  BY <1>3 DEF BeginsBackup, BeginsRestore, Copies, Verifies, Retains
<1>4. ASSUME NEW c \in Op, Overwrites(c) \/ Unlinks(c) PROVE RestoreIsKept'
  BY <1>4 DEF Overwrites, Unlinks, LogAfter, RestoreIsKept
<1>5. CASE DeletesBackup
  BY <1>2, <1>5 DEF DeletesBackup
<1>6. CASE Commits
  BY <1>6 DEF Commits, RestoreIsKept
<1>7. CASE Checkpoints
  BY <1>1, <1>7 DEF Checkpoints, RestoreIsKept
<1>8. CASE Killed
  BY <1>1, <1>8 DEF Killed, RestoreIsKept
<1>9. CASE ShutDown
  BY <1>1, <1>9 DEF ShutDown, Holds, RestoreIsKept
<1> QED
  BY <1>2, <1>3, <1>4, <1>5, <1>6, <1>7, <1>8, <1>9 DEF BackupNext

\* A step in which nothing of the backups changes keeps the invariant.
LEMMA BackupStutter ==
    ASSUME BackupInv, UNCHANGED backupVars PROVE BackupInv'
<1> USE DEF backupVars, db, directory, operation, restored, BackupInv, BackupIsSound
<1>1. BackupTypeOK'
  BY DEF BackupTypeOK, Files
<1>2. RestoreIsKept' /\ SafetyFirst' /\ Committed' /\ Current' /\ Owned' /\ Secured'
  BY DEF RestoreIsKept, SafetyFirst, Committed, Current, Owned, Secured, Files, Holds
<1> QED
  BY <1>1, <1>2

\* The inductive invariant holds in every reachable state.
THEOREM BackupInvariance == BackupSpec => []BackupInv
<1>1. BackupInit => BackupInv
  BY BackupInitInv
<1>2. BackupInv /\ [BackupNext]_backupVars => BackupInv'
  <2>1. ASSUME BackupInv, BackupNext PROVE BackupInv'
    <3>1. /\ BackupTypeOK' /\ RestoreIsKept' /\ Committed' /\ Current' /\ Owned'
          /\ Secured'
      BY <2>1, BackupTypeStep, RestoredStep, CommittedStep, CurrentStep, OwnedStep, SecuredStep
         DEF BackupInv, BackupIsSound
    <3>2. SafetyFirst'
      BY <3>1 DEF Owned, Secured, SafetyFirst
    <3> QED
      BY <3>1, <3>2 DEF BackupInv, BackupIsSound
  <2> QED
    BY <2>1, BackupStutter
<1> QED
  BY <1>1, <1>2, PTL DEF BackupSpec

\* For any number of calls and files: what a restore put back is what the application finds,
\* and before it overwrites the database its safety backup holds what the database held.
THEOREM BackupSound == BackupSpec => []BackupIsSound
<1>1. BackupInv => BackupIsSound
  BY DEF BackupInv
<1> QED
  BY <1>1, BackupInvariance, PTL
=============================================================================
