----------------------------- MODULE MCKeptData -----------------------------
(***************************************************************************)
(* An instance of the two components that keep data elsewhere before they  *)
(* remove it: the retention of the operation log (LogRetention) and the    *)
(* backups (Backup).  A behaviour is about one of them; the other stays as *)
(* it starts.                                                              *)
(***************************************************************************)
EXTENDS LogRetention, Backup, TLC

CONSTANTS c1, c2

VARIABLE about

MCInit == about \in {"retention", "backup"} /\ Init /\ BackupInit
RetentionNext == about = "retention" /\ Next /\ UNCHANGED <<about, backupVars>>
BackupsNext == about = "backup" /\ BackupNext /\ UNCHANGED <<about, vars>>
MCNext == RetentionNext \/ BackupsNext
MCSpec == MCInit /\ [][MCNext]_<<about, vars, backupVars>>

Symmetric == Permutations({c1, c2})
=============================================================================
