---------------------------- MODULE LogRetention ----------------------------
(***************************************************************************)
(* LogRetentionPolicy.execute (app/services/sqlite_cleanup.py) on one      *)
(* table of logs: the timer of main.py and the calls of the endpoint       *)
(* select the old rows, append those an archive does not hold yet to the   *)
(* archive of the cutoff's month, and delete them.                         *)
(*                                                                         *)
(* An archive is a gzip file to which every append adds a member.  A       *)
(* member that was cut off by a crash, or mixed with one that was written  *)
(* at the same time, cannot be read, nor can what comes after it.          *)
(***************************************************************************)
EXTENDS Naturals, FiniteSets, Sequences, SequencesExt, FiniteSetsExt

CONSTANTS
    Cleaner,
    Rows,       \* rows are numbered by age: row r is due when the cutoff has reached r
    PerMonth,   \* how far the cutoff moves in a month
    MaxRuns     \* bound: calls of execute

ASSUME RetentionAssumption ==
    Rows \in Nat /\ PerMonth \in Nat \ {0} /\ MaxRuns \in Nat

Row == 1..Rows
Month == 0..(Rows \div PerMonth)

VARIABLES
    now,        \* the greatest cutoff a call may have by now
    table,      \* the rows in the database
    archive,    \* month -> sequence of members [rows, sound]
    open,       \* cleaner -> the place of the member it is writing, or 0
    pc, cutoff, keep, seen, known,  \* of a call: its cutoff, whether it archives, the
                \* rows it selected, those it found archived
    runs,
    waived,     \* history: rows deleted by a call that was told not to archive
    cut,        \* history: months in which a member was cut off or mixed
    crossed     \* history: months two calls read and appended to at once

call == <<open, pc, cutoff, keep, seen, known>>
history == <<waived, cut, crossed>>
vars == <<now, table, archive, call, runs, history>>

Init ==
    /\ now = 0 /\ table = Row /\ archive = [m \in Month |-> <<>>]
    /\ pc = [c \in Cleaner |-> "idle"] /\ open = [c \in Cleaner |-> 0]
    /\ cutoff = [c \in Cleaner |-> 0] /\ keep = [c \in Cleaner |-> TRUE]
    /\ seen = [c \in Cleaner |-> {}] /\ known = [c \in Cleaner |-> {}]
    /\ runs = 0 /\ waived = {} /\ cut = {} /\ crossed = {}

Of(c) == cutoff[c] \div PerMonth
Sound(m) == \A i \in DOMAIN archive[m] : archive[m][i].sound
Held(m) == UNION {archive[m][i].rows : i \in DOMAIN archive[m]}

\* What a reader of the file gets: the members before the first that is not sound.
Readable(m) ==
    UNION {archive[m][i].rows : i \in {j \in DOMAIN archive[m] :
                                          \A l \in 1..j : archive[m][l].sound}}

Ends(c) ==
    /\ pc' = [pc EXCEPT ![c] = "idle"] /\ open' = [open EXCEPT ![c] = 0]
    /\ seen' = [seen EXCEPT ![c] = {}] /\ known' = [known EXCEPT ![c] = {}]
    /\ cutoff' = [cutoff EXCEPT ![c] = 0] /\ keep' = [keep EXCEPT ![c] = TRUE]

\* execute: the cutoff, then SELECT.  The endpoint names a retention of its own and
\* may choose not to archive.
Selects(c) ==
    /\ pc[c] = "idle" /\ runs < MaxRuns /\ runs' = runs + 1
    /\ \E d \in 0..now, b \in BOOLEAN :
          /\ cutoff' = [cutoff EXCEPT ![c] = d] /\ keep' = [keep EXCEPT ![c] = b]
          /\ seen' = [seen EXCEPT ![c] = {r \in table : r <= d}]
          /\ seen'[c] # {}
          /\ pc' = [pc EXCEPT ![c] = IF b THEN "read" ELSE "delete"]
    /\ UNCHANGED <<now, table, archive, open, known, history>>

\* What the file may be found to hold.  A member that is being written may not have
\* reached the disk, or make the file unreadable; a file that cannot be read is taken
\* to hold nothing.
Found(c) ==
    LET m == Of(c)
        busy == {open[d] : d \in {e \in Cleaner : open[e] # 0 /\ Of(e) = m}}
        done == UNION {archive[m][i].rows : i \in DOMAIN archive[m] \ busy}
    IN  (IF Sound(m) THEN {done} ELSE {}) \cup (IF Sound(m) /\ busy = {} THEN {} ELSE {{}})

Reads(c) ==
    /\ pc[c] = "read"
    /\ \E found \in Found(c) :
          /\ known' = [known EXCEPT ![c] = found]
          /\ pc' = [pc EXCEPT ![c] = IF seen[c] \subseteq found THEN "delete" ELSE "append"]
    /\ crossed' = crossed \cup {Of(d) : d \in {e \in Cleaner \ {c} :
                                  pc[e] \in {"append", "writing"} /\ Of(e) = Of(c)}}
    /\ UNCHANGED <<now, table, archive, open, cutoff, keep, seen, runs, waived, cut>>

New(c) == seen[c] \ known[c]

\* gzip.open(..., "at"): also when the file could not be read.
Begins(c) ==
    LET m == Of(c)
        others == {e \in Cleaner : open[e] # 0 /\ Of(e) = m}
    IN  /\ pc[c] = "append" /\ pc' = [pc EXCEPT ![c] = "writing"]
        /\ archive' = [archive EXCEPT ![m] =
              Append([i \in DOMAIN @ |->
                        IF \E e \in others : open[e] = i THEN [@[i] EXCEPT !.sound = FALSE] ELSE @[i]],
                     [rows |-> New(c), sound |-> others = {}])]
        /\ open' = [open EXCEPT ![c] = Len(archive[m]) + 1]
        /\ cut' = IF others = {} THEN cut ELSE cut \cup {m}
        /\ UNCHANGED <<now, table, cutoff, keep, seen, known, runs, waived, crossed>>

Closes(c) ==
    /\ pc[c] = "writing" /\ pc' = [pc EXCEPT ![c] = "delete"]
    /\ open' = [open EXCEPT ![c] = 0]
    /\ UNCHANGED <<now, table, archive, cutoff, keep, seen, known, runs, history>>

\* What is left of a member whose writing ended early: a part that cannot be read,
\* or nothing at all.
Left(member, part) == IF part THEN [member EXCEPT !.sound = FALSE] ELSE [rows |-> {}, sound |-> TRUE]

\* The write fails (a full disk): the exception passes over the deletion.
Breaks(c) ==
    LET m == Of(c)
    IN  /\ pc[c] = "writing" /\ Ends(c)
        /\ \E part \in BOOLEAN :
              archive' = [archive EXCEPT ![m][open[c]] = Left(@, part \/ ~@.sound)]
        /\ cut' = cut \cup {m}
        /\ UNCHANGED <<now, table, runs, waived, crossed>>

\* Mutant: everything that is due by now, not what was due at the cutoff.
DueByNow(c) == {r \in table : r <= now}

Due(c) == {r \in table : r <= cutoff[c]}

\* DELETE and commit, or an exception and a rollback.
Deletes(c) ==
    /\ pc[c] = "delete" /\ Ends(c)
    /\ \/ table' = table \ Due(c) /\ waived' = IF keep[c] THEN waived ELSE waived \cup Due(c)
       \/ UNCHANGED <<table, waived>>
    /\ UNCHANGED <<now, archive, runs, cut, crossed>>

\* The process stops: a member that was being written stays cut off.
Crash ==
    LET torn(m) == {open[c] : c \in {e \in Cleaner : open[e] # 0 /\ Of(e) = m}}
    IN  /\ \E c \in Cleaner : pc[c] # "idle"
        /\ \E part \in BOOLEAN :
              archive' = [m \in Month |-> [i \in DOMAIN archive[m] |->
                  IF i \in torn(m) THEN Left(archive[m][i], part \/ ~archive[m][i].sound)
                  ELSE archive[m][i]]]
        /\ cut' = cut \cup {m \in Month : torn(m) # {}}
        /\ pc' = [c \in Cleaner |-> "idle"] /\ open' = [c \in Cleaner |-> 0]
        /\ cutoff' = [c \in Cleaner |-> 0] /\ keep' = [c \in Cleaner |-> TRUE]
        /\ seen' = [c \in Cleaner |-> {}] /\ known' = [c \in Cleaner |-> {}]
        /\ UNCHANGED <<now, table, runs, waived, crossed>>

TimePasses == now < Rows /\ now' = now + 1
              /\ UNCHANGED <<table, archive, call, runs, history>>

Next ==
    \/ \E c \in Cleaner : Selects(c) \/ Reads(c) \/ Begins(c) \/ Closes(c) \/ Breaks(c)
                          \/ Deletes(c)
    \/ Crash \/ TimePasses

Spec == Init /\ [][Next]_vars

-----------------------------------------------------------------------------
Member == [rows : SUBSET Row, sound : BOOLEAN]

TypeOK ==
    /\ now \in 0..Rows /\ table \subseteq Row /\ runs \in 0..MaxRuns
    /\ DOMAIN archive = Month /\ \A m \in Month : archive[m] \in Seq(Member)
    /\ pc \in [Cleaner -> {"idle", "read", "append", "writing", "delete"}]
    /\ open \in [Cleaner -> Nat] /\ \A c \in Cleaner : open[c] <= Len(archive[Of(c)])
    /\ cutoff \in [Cleaner -> 0..Rows] /\ keep \in [Cleaner -> BOOLEAN]
    /\ seen \in [Cleaner -> SUBSET Row] /\ known \in [Cleaner -> SUBSET Row]
    /\ waived \subseteq Row /\ cut \subseteq Month /\ crossed \subseteq Month

\* A row that is gone from the table can be read from an archive, whatever calls
\* overlapped, failed or were cut off; unless a call was told not to archive it, or the
\* archives that hold it are months in which a member was cut off.
GoneIsArchived ==
    \A r \in Row \ (table \cup waived) :
        \E m \in Month : r \in Readable(m) \/ (m \in cut /\ r \in Held(m))

\* An archive holds a row once, although calls that failed to delete it come back to it
\* and several calls select the same rows; unless two calls were between the reading and
\* the end of the writing of that archive at once, or a member was cut off.
OncePerArchive ==
    \A m \in Month \ (cut \cup crossed) :
        \A i, j \in DOMAIN archive[m] : i # j => archive[m][i].rows \cap archive[m][j].rows = {}

\* Whatever overlaps, fails or is cut off, a row is deleted only once it is kept
\* elsewhere, and kept once.
ArchiveIsSound == TypeOK /\ GoneIsArchived /\ OncePerArchive
=============================================================================
