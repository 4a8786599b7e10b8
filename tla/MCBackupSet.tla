----------------------------- MODULE MCBackupSet ----------------------------
EXTENDS BackupSet

\* repo-retention-archive-type = full and diff.
CountFull == {"full"}
CountDiff == {"full", "diff"}
=============================================================================
