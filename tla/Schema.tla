-------------------------------- MODULE Schema --------------------------------
(***************************************************************************)
(* The schema as data: the tables of app/db/models.py, the list MIGRATIONS *)
(* of app/db/migrations/runner.py, the columns app/db/base.py adds, and    *)
(* from them what a database of an older release looks like.  These are    *)
(* the values of the parameters of SchemaMigrations, where a start is.     *)
(*                                                                         *)
(* Of a table only the columns are named that some release lacked.         *)
(***************************************************************************)
EXTENDS Naturals, SequencesExt

CONSTANTS
    Releases    \* the releases, by the number of their last migrations, that
                \* may have left the database; 0 for one before the list

-----------------------------------------------------------------------------
(* app/db/models.py, in its order: table -> the columns it got over time.  *)

Plain(tables) == [t \in tables |-> {}]

InventoryTables ==
    [users |-> {"session_version", "role"},
     servers |-> {"jump_host", "status", "metadata_json"},
     systems |-> {"message_routing"}]
    @@ Plain({"environments", "system_environments", "capability_settings",
              "retention_policies", "notification_settings"})

SettingsTables ==
    [services |-> {"pipeline_id"}, deployments |-> {"server_group", "version"},
     pipelines |-> {"flow_guide_id"}, pipeline_steps |-> {"config"},
     deploy_tasks |-> {"payload_json", "lock_key", "cancel_requested"},
     server_groups |-> {"metadata_json"}]
    @@ Plain({"inspection_profiles", "workflow_templates", "deployment_defaults",
              "global_variables", "deploy_logs"})

DeploymentTables ==
    [deployment_server_tasks |-> {"current_step", "updated_at", "duration_ms", "task_id"},
     deployment_step_tasks |-> {"sort_order", "updated_at", "duration_ms",
                                "captured_config", "task_id"}]
    @@ Plain({"jump_hosts", "command_execution_logs", "dml_execution_logs",
              "schema_migrations"})

ToolTables ==
    [deployment_package_distributions |-> {"started_at", "finished_at", "task_id", "reused",
                                           "duration_ms", "updated_at"},
     tool_tokens |-> {"updated_at", "description", "bound_room_ids", "approver_matrix_ids",
                      "channel_bindings", "approver_identities"},
     tool_call_logs |-> {"related_job_id"}]
    @@ Plain({"deployment_lock_records", "notification_events", "report_artifacts"})

\* The columns of backfill_approval_context.
ContextColumnNames ==
    <<"channel", "channel_account_id", "conversation_id", "request_message_id",
      "request_sender_id", "approval_message_id", "authorized_identities",
      "temporary_grant_id">>

ApprovalTables ==
    [ai_action_approvals |->
        {"action_digest", "approval_code_hash", "room_id", "request_event_id",
         "approval_event_id", "content_sha256", "routing_ticket_digest",
         "routing_config_revision", "expires_at", "consumed_at", "rejected_by",
         "rejected_at", "package_name", "package_sha256", "package_size_bytes",
         "execution_job_id", "execution_result", "failure_reason", "updated_at"}
        \cup ToSet(ContextColumnNames)]
    @@ Plain({"operation_jobs", "tool_plans", "tool_plan_events"})

PlanTables ==
    [execution_plans |-> ToSet(ContextColumnNames),
     temporary_approval_grants |-> {"confirmation_attempts", "active_scope_key"}]
    @@ Plain({"execution_plan_steps"})

PackageTables ==
    [deploy_packages |-> {"source_context", "source_message_key"},
     database_connections |->
        {"description", "use_ssh_tunnel", "ssh_host", "ssh_port", "ssh_username",
         "ssh_password_encrypted", "ssh_key_path", "ssh_key_passphrase_encrypted",
         "ssh_remote_bind_host", "ssh_target_server_name", "ssh_target_host",
         "ssh_target_port", "ssh_target_username", "ssh_target_password_encrypted",
         "ssh_target_key_path", "ssh_target_key_passphrase_encrypted", "ssh_server_name",
         "allow_dml", "allowed_dml_types", "allowed_tables", "blocked_tables",
         "max_affected_rows_default", "require_dml_reason", "ssh_mode", "ssh_server_id",
         "ssh_key_content_encrypted"}]
    @@ Plain({"deploy_package_refs", "ssh_keys", "deployment_records", "audit_records"})

CleanupTables ==
    [cleanup_jobs |-> {"execution_window_start", "execution_window_end"}]
    @@ Plain({"cleanup_job_batches", "cleanup_job_events", "sql_query_history", "saved_sql",
              "project_server_relations", "inspection_tasks"})

InspectionTables ==
    [inspection_runs |-> {"task_id", "agent_id", "duration_ms", "scope_kind",
                          "item_config_snapshot"},
     inspection_item_results |-> {"parsed_facts"},
     inspection_rules |-> {"rule_content", "deleted"}]
    @@ Plain({"inspection_evidence", "inspection_issues", "security_daily_reports"})

InspectionSettingsTables ==
    Plain({"security_risks", "inspection_item_configs", "inspection_item_rules",
           "inspection_baselines", "inspection_tier_schedules",
           "inspection_notification_routes", "inspection_cascade_policies",
           "agent_lessons"})

MetaData == InventoryTables @@ SettingsTables @@ DeploymentTables @@ ToolTables
         @@ ApprovalTables @@ PlanTables @@ PackageTables @@ CleanupTables
         @@ InspectionTables @@ InspectionSettingsTables

-----------------------------------------------------------------------------
(* Migrations.  One without a table has no such check (see Entry).         *)

Migration(v, does, t, c, needs) ==
    [version |-> v, does |-> does, table |-> t, column |-> c, needs |-> needs]

Table(v, t) == Migration(v, "create", t, "", {})
Columns(v, t, cs) ==
    [n \in 1..Len(cs) |-> Migration(v + n - 1, "alter", t, cs[n], {})]
\* An index on columns that some release lacked.
Index(v, t, cs) == Migration(v, "index", "", "", {<<t, c>> : c \in cs})
Drop(v, t) == Migration(v, "drop", "", t, {})
\* SELECT 1.
Nothing(v, t, c) == Migration(v, "nothing", t, c, {})
TableAnyhow(v, t) == Migration(v, "create", "", t, {})

InspectionTableMigrations ==
    <<Table(71001, "ssh_keys"), Nothing(71002, "", ""),
      Table(60001, "project_server_relations"), Table(60002, "inspection_tasks"),
      Table(60003, "inspection_runs"), Table(60004, "inspection_evidence"),
      Table(60005, "inspection_item_results")>>

InspectionColumnMigrations ==
    <<Table(60006, "inspection_issues"), Table(60007, "inspection_rules"),
      Table(60008, "inspection_baselines")>>
    \o Columns(60009, "inspection_runs", <<"task_id", "agent_id", "duration_ms", "scope_kind">>)
    \o <<Migration(60013, "update", "inspection_runs", "",
                   {<<"inspection_runs", "scope_kind">>})>>
    \o Columns(60014, "inspection_rules", <<"rule_content", "deleted">>)

ServiceMigrations ==
    <<Table(59001, "ai_analysis_runs"), Table(59002, "ai_analysis_findings"),
      Table(59003, "ai_action_approvals")>>
    \o Columns(58001, "services", <<"pipeline_id">>)
    \o Columns(54001, "deployments", <<"server_group">>)
    \o Columns(54002, "servers", <<"jump_host">>)
    \o <<Nothing(55001, "cleanup_jobs", "connection_id")>>

DeploymentMigrations ==
    Columns(56001, "users", <<"session_version">>)
    \o Columns(53007, "deployment_server_tasks", <<"current_step", "updated_at">>)
    \o Columns(53014, "deployment_server_tasks", <<"duration_ms">>)
    \o Columns(53009, "deployment_step_tasks", <<"sort_order", "updated_at">>)
    \o Columns(53015, "deployment_step_tasks", <<"duration_ms">>)
    \o Columns(53013, "deployment_step_tasks", <<"captured_config">>)
    \o Columns(53011, "deployment_package_distributions", <<"started_at", "finished_at">>)
    \o Columns(53001, "deployment_server_tasks", <<"task_id">>)
    \o Columns(53002, "deployment_step_tasks", <<"task_id">>)
    \o Columns(53003, "deployment_package_distributions",
               <<"task_id", "reused", "duration_ms", "updated_at">>)

DatabaseMigrations ==
    Columns(52001, "database_connections",
            <<"ssh_target_server_name", "ssh_target_host", "ssh_target_port",
              "ssh_target_username", "ssh_target_password_encrypted", "ssh_target_key_path",
              "ssh_target_key_passphrase_encrypted">>)
    \o Columns(51001, "database_connections", <<"ssh_server_name">>)
    \o <<Table(48001, "dml_execution_logs")>>
    \o Columns(48002, "database_connections",
               <<"allow_dml", "allowed_dml_types", "allowed_tables", "blocked_tables",
                 "max_affected_rows_default", "require_dml_reason", "ssh_mode",
                 "ssh_server_id", "ssh_server_name", "ssh_key_content_encrypted">>)

JobMigrations ==
    <<Table(39001, "report_artifacts"), Table(35001, "operation_jobs")>>
    \o Columns(35002, "tool_call_logs", <<"related_job_id">>)
    \o <<Table(25001, "deploy_packages"), Table(25002, "deploy_package_refs")>>
    \o Columns(13001, "deploy_tasks", <<"payload_json", "lock_key", "cancel_requested">>)

AssetMigrations ==
    Columns(70001, "servers", <<"status">>)
    \o Columns(70002, "inspection_item_results", <<"parsed_facts">>)
    \o Columns(80001, "servers", <<"metadata_json">>)
    \o Columns(80002, "server_groups", <<"metadata_json">>)
    \o <<Table(80003, "jump_hosts")>>
    \o Columns(80004, "tool_tokens", <<"updated_at">>)
    \o <<Table(80005, "inspection_tier_schedules"),
         Table(80006, "inspection_notification_routes"),
         Table(80007, "inspection_cascade_policies")>>
    \o Columns(80012, "tool_tokens", <<"description">>)

RetirementMigrations ==
    <<Nothing(81001, "config_kv", ""),
      Migration(81002, "copy", "audit_logs", "", {}),
      Drop(81003, "audit_logs"), Drop(81004, "deploy_logs_old"), Drop(81005, "deploy_locks"),
      TableAnyhow(82001, "systems"), Nothing(82002, "config_kv", "")>>

ApprovalMigrations ==
    Columns(72001, "ai_action_approvals",
            <<"action_digest", "approval_code_hash", "room_id", "request_event_id",
              "approval_event_id", "content_sha256", "routing_ticket_digest",
              "routing_config_revision", "expires_at", "consumed_at", "rejected_by",
              "rejected_at", "package_name", "package_sha256", "package_size_bytes",
              "execution_job_id", "execution_result", "failure_reason", "updated_at">>)

PlanMigrations ==
    <<Index(72020, "ai_action_approvals", {"action_digest"}),
      Index(72021, "ai_action_approvals", {"expires_at"}),
      Index(72022, "ai_action_approvals", {"execution_job_id"}),
      Index(72023, "ai_action_approvals", {"room_id", "request_event_id"})>>
    \o Columns(73001, "tool_tokens", <<"bound_room_ids", "approver_matrix_ids">>)
    \o <<Table(74001, "execution_plans"), Table(74002, "execution_plan_steps"),
         Index(74003, "execution_plans", {}), Index(74004, "execution_plans", {}),
         Index(74005, "execution_plans", {}), Index(74006, "execution_plan_steps", {})>>

SettingsMigrations ==
    <<Table(83001, "system_environments")>>
    \o Columns(83002, "systems", <<"message_routing">>)
    \o <<Table(83003, "capability_settings"), Table(83004, "retention_policies"),
         Table(83005, "notification_settings"), TableAnyhow(83006, "inspection_profiles"),
         Table(83007, "workflow_templates"), Table(83008, "deployment_defaults"),
         Table(83009, "global_variables")>>

GrantMigrations ==
    Columns(84002, "tool_tokens", <<"channel_bindings", "approver_identities">>)
    \o <<Table(84006, "temporary_approval_grants"),
         Index(84007, "temporary_approval_grants", {}),
         Index(84008, "temporary_approval_grants", {}),
         Index(84009, "temporary_approval_grants", {}),
         Index(84010, "temporary_approval_grants", {})>>
    \o Columns(84011, "temporary_approval_grants",
               <<"confirmation_attempts", "active_scope_key">>)
    \o <<Index(84013, "temporary_approval_grants", {"active_scope_key"}),
         Nothing(84014, "", "")>>
    \o Columns(84015, "deploy_packages", <<"source_context", "source_message_key">>)
    \o <<Index(84017, "deploy_packages", {"source_message_key"})>>
    \o Columns(84018, "pipelines", <<"flow_guide_id">>)

AllMigrations ==
    InspectionTableMigrations \o InspectionColumnMigrations \o ServiceMigrations
    \o DeploymentMigrations \o DatabaseMigrations \o JobMigrations \o AssetMigrations
    \o RetirementMigrations \o ApprovalMigrations \o PlanMigrations
    \o SettingsMigrations \o GrantMigrations

\* The list of app/db/base.py, which has no marks.
BaseMigrations ==
    <<<<"pipeline_steps", "config">>, <<"users", "role">>, <<"users", "session_version">>,
      <<"deployments", "version">>, <<"cleanup_jobs", "execution_window_start">>,
      <<"cleanup_jobs", "execution_window_end">>>>
    \o [n \in 1..9 |->
            <<"database_connections",
              <<"description", "use_ssh_tunnel", "ssh_host", "ssh_port", "ssh_username",
                "ssh_password_encrypted", "ssh_key_path", "ssh_key_passphrase_encrypted",
                "ssh_remote_bind_host">>[n]>>]

\* The versions of the conversions that follow the list.
ConversionVersions ==
    [config |-> 83010, identity |-> 83011, analysis |-> 84001, tokens |-> 84004,
     context |-> 84005]

-----------------------------------------------------------------------------
(* A database: its tables and columns, the versions in schema_migrations,  *)
(* the buckets of config_kv and what the domain tables hold of them, the   *)
(* copies of the old audit rows, the channel bindings of a token that has  *)
(* a legacy alias, whether a pending approval has its generic context, and *)
(* whether the servers' passwords are encrypted.                           *)

\* The buckets of config_kv.
ConfigKinds == {"assets", "settings"}

Upto(r, v) == v < (r + 1) * 1000
CreatedLater(r) == {IF m.table = "" THEN m.column ELSE m.table :
                       m \in {x \in Range(AllMigrations) :
                                x.does = "create" /\ ~Upto(r, x.version)}}
Altered(r) == {<<m.table, m.column>> :
                  m \in {x \in Range(AllMigrations) : x.does = "alter" /\ Upto(r, x.version)}}
OldTables(r) ==
    {t \in {"audit_logs", "deploy_logs_old", "deploy_locks"} : r < 81}
    \cup {t \in {"config_kv"} : r < 83}
    \cup {t \in {"ai_analysis_runs", "ai_analysis_findings"} : 59 <= r /\ r < 84}
Later == {<<m.table, m.column>> : m \in {x \in Range(AllMigrations) : x.does = "alter"}}
ModelColumns == UNION {{t} \X MetaData[t] : t \in DOMAIN MetaData}
ContextColumns == {"ai_action_approvals", "execution_plans"} \X ToSet(ContextColumnNames)
\* No migration adds this one: scripts/migrate_inspection_item_configs.py does,
\* when an operator runs it.
NeverMigrated == {<<"inspection_runs", "item_config_snapshot">>}

\* What release r left behind; servers were in their own table from 080 on.
Left(r, stored) ==
    [tables |-> (DOMAIN MetaData \ CreatedLater(r)) \cup OldTables(r),
     cols |-> {x \in ModelColumns :
                 /\ x[1] \notin CreatedLater(r)
                 /\ x \in Later => x \in Altered(r)
                 /\ x \in Range(BaseMigrations) => r > 0
                 /\ x \in ContextColumns \cup NeverMigrated => r >= 84},
     marks |-> {v \in {m.version : m \in Range(AllMigrations)} : r > 0 /\ Upto(r, v)}
               \cup {v \in {ConversionVersions.config, ConversionVersions.identity} : r >= 83}
               \cup {v \in {ConversionVersions.analysis, ConversionVersions.tokens,
                            ConversionVersions.context} : r >= 84},
     kv |-> {b \in ConfigKinds : r < 83},
     row |-> [b \in ConfigKinds |-> IF r >= 83 THEN "legacy"
                                    ELSE IF b = "assets" THEN stored ELSE "none"],
     old |-> IF r < 81 THEN 1 ELSE 0,
     new |-> IF r < 81 THEN 0 ELSE 1,
     binding |-> IF r < 84 THEN "none" ELSE "alias",
     context |-> r >= 84, sealed |-> r >= 84, audits |-> 1]

\* A database file that does not exist yet.
Empty ==
    [tables |-> {}, cols |-> {}, marks |-> {}, kv |-> {},
     row |-> [b \in ConfigKinds |-> "none"], old |-> 0, new |-> 0, binding |-> "alias",
     context |-> TRUE, sealed |-> TRUE, audits |-> 0]

\* Before 080 servers were kept in config_kv only.
LeftDatabases ==
    {Left(r, "none") : r \in Releases} \cup {Left(r, "stored") : r \in {x \in Releases : x >= 80}}
    \cup {Empty}
=============================================================================
