------------------------ MODULE MCDatabaseBackups ------------------------
(* Three processes of one host, of which two run at a time, and two backups. *)
EXTENDS DatabaseBackups, TLC

CONSTANTS p1, p2, p3, o1, o2

OperationSymmetry == Permutations({o1, o2})
ProcessSymmetry == Permutations({p1, p2, p3})
BackupSymmetry == OperationSymmetry \cup ProcessSymmetry
=============================================================================
