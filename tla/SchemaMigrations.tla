--------------------------- MODULE SchemaMigrations ---------------------------
(***************************************************************************)
(* What a start of the application does to a database left by an older     *)
(* release, before it serves: init_db (app/db/base.py) with the list       *)
(* MIGRATIONS and the one-time conversions of app/db/migrations/runner.py, *)
(* ensure_domain_defaults and migrate_server_secrets_at_rest.  The process *)
(* may die at any statement and is started again.                          *)
(*                                                                         *)
(* The sqlite3 driver opens a transaction at the first INSERT, UPDATE or   *)
(* DELETE: a CREATE, ALTER or DROP before it is committed at once.         *)
(*                                                                         *)
(* Tables, columns and migrations are parameters; Schema has those of the  *)
(* code.                                                                   *)
(***************************************************************************)
EXTENDS Naturals, Sequences, Functions

CONSTANTS
    Model,        \* table -> the columns it got over time
    BaseColumns,  \* <<table, column>> pairs that are added without marks
    MIGRATIONS,
    Conversion,   \* conversion -> the version that marks it done
    APPROVAL_CONTEXT_COLUMNS,
    Unmigrated,   \* columns that no migration adds
    Bucket,       \* what config_kv keeps: "assets" and "settings"
    Databases,    \* what an older release may have left
    Defects       \* what may be wrong with the legacy data, "none" included

-----------------------------------------------------------------------------
(* What the parameters are.                                                *)

AI_ANALYSIS_TABLE_DROPS == <<"ai_analysis_findings", "ai_analysis_runs">>
AnalysisTables == Range(AI_ANALYSIS_TABLE_DROPS)
DroppedTables == {m.column : m \in {x \in Range(MIGRATIONS) : x.does = "drop"}}
LegacyTables == DroppedTables \cup AnalysisTables \cup {"config_kv"}

\* Every column that some release lacked, and that is still in the model.
IsColumn(x) == x[1] \in DOMAIN Model /\ x[2] \in Model[x[1]]

\* The statements of backfill_approval_context: the columns of a table, then its
\* rows, for the one and the other.
ContextSteps ==
    [n \in 1..8 |-> <<"ai_action_approvals", APPROVAL_CONTEXT_COLUMNS[n]>>]
    \o <<<<"ai_action_approvals", "">>>>
    \o [n \in 1..8 |-> <<"execution_plans", APPROVAL_CONTEXT_COLUMNS[n]>>]
    \o <<<<"execution_plans", "">>>>
FillsRows(step) == step[2] = ""

Name == STRING \X STRING
Migrations ==
    [version : Nat, table : STRING, column : STRING, needs : SUBSET Name,
     does : {"create", "alter", "index", "drop", "copy", "update", "nothing"}]
Database ==
    [tables : SUBSET (DOMAIN Model \cup LegacyTables), cols : SUBSET Name, marks : SUBSET Nat,
     kv : SUBSET Bucket, row : [Bucket -> {"none", "stored", "legacy", "default", "edited"}],
     old : 0..1, new : 0..1, audits : 0..1, binding : {"none", "alias", "cleared"},
     context : BOOLEAN, sealed : BOOLEAN]

\* An entry of the list adds a column or a table that is in the model, or makes a
\* table that is dropped after the list; the old audit rows are copied once, before
\* their table goes; what an index needs has been added before.
EntryOK(n) ==
    LET m == MIGRATIONS[n] IN
    /\ m.version \notin Range(Conversion)
    /\ m.does = "alter" => m.table # "" /\ m.column # "" /\ IsColumn(<<m.table, m.column>>)
    /\ m.does = "create" =>
          /\ "" \in {m.table, m.column}
          /\ {m.table, m.column} \ {""} \subseteq DOMAIN Model \cup AnalysisTables
    /\ m.does = "drop" =>
          /\ m.table = "" /\ m.column \notin DOMAIN Model \cup AnalysisTables \cup {"config_kv"}
          /\ m.column = "audit_logs" => \E i \in 1..n - 1 : MIGRATIONS[i].does = "copy"
    /\ m.does = "copy" =>
          /\ m.table = "audit_logs" /\ m.column = ""
          /\ \A i \in 1..n - 1 : MIGRATIONS[i].does # "copy"
    /\ \A x \in m.needs :
          \E i \in 1..n - 1 : /\ MIGRATIONS[i].does = "alter"
                             /\ x = <<MIGRATIONS[i].table, MIGRATIONS[i].column>>

\* A mark tells what has been done, and only columns are missing that are added.
Coherent(d) ==
    /\ \A x \in d.cols : IsColumn(x)
    /\ \A m \in Range(MIGRATIONS) : m.version \in d.marks =>
          /\ m.does = "alter" /\ m.table \in d.tables => <<m.table, m.column>> \in d.cols
          /\ m.does = "drop" => m.column \notin d.tables
          /\ m.does = "copy" => d.new = d.audits
    /\ Conversion.config \in d.marks => "config_kv" \notin d.tables
    /\ Conversion.analysis \in d.marks =>
          /\ AnalysisTables \cap d.tables = {}
          /\ \A m \in Range(MIGRATIONS) : m.does = "create" => m.version \in d.marks
    /\ Conversion.tokens \in d.marks => d.binding # "none"
    /\ Conversion.context \in d.marks =>
          /\ d.context
          /\ \A x \in Range(ContextSteps) :
                ~FillsRows(x) /\ x[1] \in d.tables => x \in d.cols
    /\ "config_kv" \notin d.tables => d.kv = {}
    /\ "audit_logs" \notin d.tables => d.old = 0
    /\ d.row["assets"] # "default"
    /\ \A t \in d.tables \cap DOMAIN Model : \A c \in Model[t] : <<t, c>> \notin d.cols =>
             \/ <<t, c>> \in Unmigrated \cup Range(BaseColumns) \cup Range(ContextSteps)
             \/ \E m \in Range(MIGRATIONS) : m.does = "alter" /\ <<m.table, m.column>> = <<t, c>>

\* An old audit row, and a legacy setting or asset, is in exactly one place: where the
\* old release kept it or where this one does.
RowsInOnePlace(d) == d.old + d.new = d.audits
BucketsInOnePlace(d) ==
    \A b \in Bucket : d.audits = 1 /\ d.row[b] # "stored" =>
        (b \in d.kv) # (d.row[b] \in {"legacy", "edited"})

ASSUME ModelAssumption ==
    /\ DOMAIN Model \subseteq STRING \ LegacyTables
    /\ \A t \in DOMAIN Model : Model[t] \subseteq STRING
    /\ BaseColumns \in Seq(Name) /\ \A x \in Range(BaseColumns) : IsColumn(x)
    /\ ContextSteps \in Seq(Name) /\ \E x \in Range(ContextSteps) : FillsRows(x)
    /\ \A x \in Range(ContextSteps) : FillsRows(x) \/ IsColumn(x)

ASSUME ColumnsAssumption == \A t \in DOMAIN Model : "" \notin Model[t]

ASSUME MigrationsAssumption ==
    /\ MIGRATIONS \in Seq(Migrations)
    /\ \A i, j \in DOMAIN MIGRATIONS :
          MIGRATIONS[i].version = MIGRATIONS[j].version => i = j
    /\ \A n \in DOMAIN MIGRATIONS : EntryOK(n)
    /\ "audit_logs" \in DroppedTables
    /\ Conversion \in [{"config", "identity", "analysis", "tokens", "context"} -> Nat]
    /\ \A x, y \in DOMAIN Conversion : Conversion[x] = Conversion[y] => x = y

ASSUME DatabasesAssumption ==
    /\ Bucket = {"assets", "settings"}
    /\ "none" \in Defects
    /\ Defects \subseteq {"none", "config", "asset", "duplicate", "token"}
    /\ \A d \in Databases :
          d \in Database /\ Coherent(d) /\ RowsInOnePlace(d) /\ BucketsInOnePlace(d)

-----------------------------------------------------------------------------
VARIABLES
    disk,      \* the database
    view,      \* the database as the connection sees it
    begun,     \* the driver has opened a transaction
    phase, pos,  \* where the start stands
    defect,    \* what is wrong with the legacy data
    refused,   \* history: why starts failed
    edited     \* history: what operators changed since

schemaVars == <<disk, view, begun, phase, pos, defect, refused, edited>>

Applies(x, d) ==
    CASE x \in {"config", "asset"} -> d.kv # {}
      [] x = "duplicate" -> "services" \in d.tables /\ Conversion.identity \notin d.marks
      [] x = "token" -> d.binding = "none" /\ <<"tool_tokens", "bound_room_ids">> \in d.cols
      [] OTHER -> TRUE

SchemaInit ==
    /\ disk \in Databases
    /\ view = disk /\ begun = FALSE
    /\ phase = "off" /\ pos = 1
    /\ defect \in {x \in Defects : Applies(x, disk)}
    /\ refused = {} /\ edited = {}

-----------------------------------------------------------------------------
(* Statements.                                                             *)

history == <<defect, refused, edited>>
Goto(where, n) == phase' = where /\ pos' = n

\* The file after a CREATE, ALTER or DROP that turns the view into d.
Committed(d) == IF begun THEN disk ELSE d

\* Mutant: the driver opens no transaction, every statement is committed at once.
DmlAutocommit(d) == view' = d /\ disk' = d /\ UNCHANGED begun

Ddl(d) == view' = d /\ disk' = Committed(d) /\ UNCHANGED begun
Dml(d) == view' = d /\ begun' = TRUE /\ UNCHANGED disk
Commit(d) == view' = d /\ disk' = d /\ begun' = FALSE
Marked(d, v) == [d EXCEPT !.marks = @ \cup {v}]
Reads == UNCHANGED <<disk, view, begun>>

\* A statement raises: the transaction is rolled back and the start fails.
Raises(cause) ==
    /\ view' = disk /\ begun' = FALSE /\ Goto("off", 1)
    /\ refused' = refused \cup {cause}
    /\ UNCHANGED <<disk, defect, edited>>

HasColumn(d, t, c) == <<t, c>> \in d.cols
\* A table that is there is left as it is.
WithTables(d, ts) ==
    [d EXCEPT !.tables = @ \cup ts,
              !.cols = @ \cup UNION {{t} \X Model[t] : t \in (ts \ d.tables) \cap DOMAIN Model}]
WithColumn(d, t, c) == [d EXCEPT !.cols = @ \cup {<<t, c>>}]
Without(d, t) ==
    [d EXCEPT !.tables = @ \ {t}, !.kv = IF t = "config_kv" THEN {} ELSE @,
              !.old = IF t = "audit_logs" THEN 0 ELSE @]

-----------------------------------------------------------------------------
(* init_db.                                                                *)

Start ==
    /\ phase = "off" /\ Goto("create", 1)
    /\ UNCHANGED <<disk, view, begun, history>>

\* create_all makes the tables of the model that are missing, one by one: all
\* of them, or it dies before the last.
CreateAll ==
    /\ phase = "create"
    /\ LET missing == DOMAIN Model \ view.tables IN
       \/ Ddl(WithTables(view, missing)) /\ Goto("base", 1)
       \/ \E t \in missing :
            /\ disk' = WithTables(view, missing \ {t}) /\ view' = disk'
            /\ Goto("off", 1) /\ UNCHANGED begun
    /\ UNCHANGED history

\* _run_migrations: every missing column in a transaction of its own.
AddBaseColumn ==
    /\ phase = "base"
    /\ IF pos > Len(BaseColumns) THEN Goto("list", 1) /\ Reads
       ELSE /\ Goto("base", pos + 1)
            /\ Commit(WithColumn(view, BaseColumns[pos][1], BaseColumns[pos][2]))
    /\ UNCHANGED history

Skips(m) ==
    \/ m.version \in view.marks
    \/ m.table # "" /\ m.table \notin view.tables /\ m.does # "create"

\* Mutant: only the marks tell what has been done.
IsDoneNever(m) == FALSE

IsDone(m) == m.column # "" /\ m.table # "" /\ HasColumn(view, m.table, m.column)

Does(m) ==
    CASE m.does = "create" -> WithTables(view, {m.table, m.column} \ {""})
      [] m.does = "alter" -> WithColumn(view, m.table, m.column)
      [] m.does = "drop" -> Without(view, m.column)
      [] m.does = "copy" -> [view EXCEPT !.new = @ + view.old]
      [] OTHER -> view

\* An ALTER of what is there, an index on what is not there yet.
Fails(m) == \/ m.does = "alter" /\ HasColumn(view, m.table, m.column)
            \/ ~(m.needs \subseteq view.cols)

\* One round of the loop in run_schema_migrations; the loop is one transaction.
Migrate ==
    /\ phase = "list" /\ pos <= Len(MIGRATIONS)
    /\ LET m == MIGRATIONS[pos] IN
       \/ Skips(m) /\ Reads /\ Goto("list", pos + 1) /\ UNCHANGED history
       \/ /\ ~Skips(m) /\ IsDone(m) /\ Dml(Marked(view, m.version))
          /\ Goto("list", pos + 1) /\ UNCHANGED history
       \/ ~Skips(m) /\ ~IsDone(m) /\ Fails(m) /\ Raises("statement")
       \/ /\ ~Skips(m) /\ ~IsDone(m) /\ ~Fails(m)
          /\ view' = Marked(Does(m), m.version) /\ begun' = TRUE
          /\ disk' = IF m.does \in {"create", "alter", "drop"} THEN Committed(Does(m)) ELSE disk
          /\ Goto("list", pos + 1) /\ UNCHANGED history

EndList ==
    /\ phase = "list" /\ pos > Len(MIGRATIONS)
    /\ Commit(view) /\ Goto("config", 1) /\ UNCHANGED history

-----------------------------------------------------------------------------
(* retire_config_kv and ensure_service_identity_index.                     *)

HasDuplicates == defect = "duplicate"

SkipConfig ==
    /\ phase = "config"
    /\ \/ Conversion.config \in view.marks /\ Reads
       \/ /\ Conversion.config \notin view.marks /\ "config_kv" \notin view.tables
          /\ Commit(Marked(view, Conversion.config))
    /\ Goto("identity", 1) /\ UNCHANGED history

ToRetire == phase = "config" /\ Conversion.config \notin view.marks /\ "config_kv" \in view.tables

\* JSON that does not parse, or keys nobody knows.
UnknownConfig == defect = "config"

\* Records without a name; pipelines and services of systems that are not there.
BadAssets == defect = "asset"

\* An operator has to repair them.
RefuseConfig ==
    /\ ToRetire
    /\ \/ UnknownConfig /\ Raises("config")
       \/ BadAssets /\ Raises("asset")

\* An asset that is stored already is kept as it is; a setting is overwritten.
CopiedAssets(d) ==
    IF "assets" \in d.kv /\ d.row["assets"] = "none" THEN "legacy" ELSE d.row["assets"]
CopiedSettings(d) == IF "settings" \in d.kv THEN "legacy" ELSE d.row["settings"]

CopyConfig ==
    /\ ToRetire /\ ~UnknownConfig /\ ~BadAssets
    /\ Dml([view EXCEPT !.row["assets"] = CopiedAssets(view),
                        !.row["settings"] = CopiedSettings(view)])
    /\ Goto("drop", 1) /\ UNCHANGED history

DropConfig ==
    /\ phase = "drop"
    /\ Ddl(Without(view, "config_kv")) /\ Goto("retired", 1) /\ UNCHANGED history

\* The unique index, and the marks of both.
RetireConfig ==
    /\ phase = "retired"
    /\ \/ HasDuplicates /\ Raises("duplicate")
       \/ /\ ~HasDuplicates /\ Commit(Marked(Marked(view, Conversion.config), Conversion.identity))
          /\ Goto("identity", 1) /\ UNCHANGED history

IndexIdentity ==
    /\ phase = "identity"
    /\ \/ /\ Conversion.identity \in view.marks \/ "services" \notin view.tables
          /\ Reads /\ Goto("analysis", 1) /\ UNCHANGED history
       \/ /\ Conversion.identity \notin view.marks /\ "services" \in view.tables
          /\ \/ HasDuplicates /\ Raises("duplicate")
             \/ /\ ~HasDuplicates /\ Commit(Marked(view, Conversion.identity))
                /\ Goto("analysis", 1) /\ UNCHANGED history

-----------------------------------------------------------------------------
(* retire_ai_analysis_tables and the two backfills.                        *)

RetireAnalysis ==
    /\ phase = "analysis"
    /\ IF Conversion.analysis \in view.marks THEN Reads /\ Goto("tokens", 1)
       ELSE IF pos > Len(AI_ANALYSIS_TABLE_DROPS)
       THEN Commit(Marked(view, Conversion.analysis)) /\ Goto("tokens", 1)
       ELSE Ddl(Without(view, AI_ANALYSIS_TABLE_DROPS[pos])) /\ Goto("analysis", pos + 1)
    /\ UNCHANGED history

FillsTokens == Conversion.tokens \notin view.marks

\* The bindings of a token that has none are made from its legacy aliases.
BackfillTokens ==
    /\ phase = "tokens"
    /\ \/ ~FillsTokens /\ Reads /\ Goto("context", 1) /\ UNCHANGED history
       \/ FillsTokens /\ defect = "token" /\ Raises("token")
       \/ /\ FillsTokens /\ defect # "token"
          /\ Commit(Marked([view EXCEPT !.binding = "alias"], Conversion.tokens))
          /\ Goto("context", 1) /\ UNCHANGED history

BackfillContext ==
    /\ phase = "context"
    /\ IF Conversion.context \in view.marks THEN Reads /\ Goto("defaults", 1)
       ELSE IF pos > Len(ContextSteps)
       THEN Commit(Marked(view, Conversion.context)) /\ Goto("defaults", 1)
       ELSE /\ Goto("context", pos + 1)
            /\ IF FillsRows(ContextSteps[pos]) THEN Dml([view EXCEPT !.context = TRUE])
               ELSE Ddl(WithColumn(view, ContextSteps[pos][1], ContextSteps[pos][2]))
    /\ UNCHANGED history

-----------------------------------------------------------------------------
(* The rest of the start, service, and the end of the process.             *)

\* ensure_domain_defaults.
SeedDefaults ==
    /\ phase = "defaults"
    /\ Commit([view EXCEPT !.row["settings"] = IF @ = "none" THEN "default" ELSE @])
    /\ Goto("secrets", 1) /\ UNCHANGED history

\* migrate_server_secrets_at_rest.
SealSecrets ==
    /\ phase = "secrets"
    /\ Commit([view EXCEPT !.sealed = TRUE])
    /\ Goto("serving", 1) /\ UNCHANGED history

\* Operators change an asset or a setting, or clear the bindings of a token.
Edit ==
    /\ phase = "serving"
    /\ \/ \E b \in Bucket : /\ Commit([view EXCEPT !.row[b] = "edited"])
                            /\ edited' = edited \cup {b}
       \/ /\ Commit([view EXCEPT !.binding = "cleared"])
          /\ edited' = edited \cup {"binding"}
    /\ UNCHANGED <<phase, pos, defect, refused>>

Repair ==
    /\ phase = "off" /\ defect # "none" /\ defect' = "none"
    /\ UNCHANGED <<disk, view, begun, phase, pos, refused, edited>>

\* The process ends, in the middle of a start or while it serves.
Die ==
    /\ phase # "off" /\ Goto("off", 1)
    /\ view' = disk /\ begun' = FALSE /\ UNCHANGED <<disk, history>>

SchemaNext ==
    \/ Start \/ CreateAll \/ AddBaseColumn \/ Migrate \/ EndList
    \/ SkipConfig \/ RefuseConfig \/ CopyConfig \/ DropConfig \/ RetireConfig
    \/ IndexIdentity \/ RetireAnalysis \/ BackfillTokens \/ BackfillContext
    \/ SeedDefaults \/ SealSecrets \/ Edit \/ Repair \/ Die

SchemaSpec == SchemaInit /\ [][SchemaNext]_schemaVars

-----------------------------------------------------------------------------
(* Properties.                                                             *)

SchemaTypeOK ==
    /\ disk \in Database /\ view \in Database /\ begun \in BOOLEAN /\ pos \in Nat \ {0}
    /\ ~begun => view = disk
    /\ defect \in Defects /\ refused \subseteq Defects \cup {"statement"}
    /\ edited \subseteq Bucket \cup {"binding"}

\* At any moment, should the process die there, nothing old is lost or kept twice.
DataInOnePlace == RowsInOnePlace(disk) /\ BucketsInOnePlace(disk)

\* A conversion is made once: what an operator has changed is not converted again
\* by a later start.
EditsStay ==
    /\ \A b \in Bucket \cap edited : disk.row[b] = "edited"
    /\ "binding" \in edited => disk.binding = "cleared"

\* Whatever statement a start dies at, legacy data is kept once, and edits stay.
StartKeepsData == SchemaTypeOK /\ DataInOnePlace /\ EditsStay

\* Only bad data stops a start, never the order of the statements or what a start
\* that died has left.
OnlyDefectsStop == refused \subseteq Defects

\* What serves finds every table and column of the model, but for one that no
\* migration adds, and nothing left to convert.
SchemaIsCurrent ==
    phase = "serving" =>
        /\ disk.tables = DOMAIN Model
        /\ \A t \in DOMAIN Model : ({t} \X Model[t]) \ disk.cols \subseteq Unmigrated
        /\ disk.kv = {} /\ disk.old = 0 /\ disk.sealed /\ disk.context
        /\ disk.binding # "none" /\ disk.row["settings"] # "none"

\* A database of any release is brought up to date, whatever was interrupted.
StartBringsUpToDate == OnlyDefectsStop /\ SchemaIsCurrent
=============================================================================
