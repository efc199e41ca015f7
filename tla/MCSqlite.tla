------------------------------ MODULE MCSqlite ------------------------------
(* Three processes on a dataset of three levels: two that open the file    *)
(* and a third that searches or opens it too.                              *)
EXTENDS SqliteCtx

MCErrorCode == {"SQLITE_BUSY", "SQLITE_IOERR"}
=============================================================================
