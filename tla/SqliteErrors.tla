---------------------------- MODULE SqliteErrors ----------------------------
(***************************************************************************)
(* sqliteErrors.zig: how result codes of SQLite become errors of Zig.      *)
(***************************************************************************)
CONSTANT ErrorCode   \* SQLITE_ERROR to SQLITE_WARNING, SQLITE_BUSY among them

NonErrorCode == {"SQLITE_OK", "SQLITE_ROW", "SQLITE_DONE"}

ASSUME SqliteAssumption == /\ "SQLITE_BUSY" \in ErrorCode
                           /\ ErrorCode \cap NonErrorCode = {}

Code == NonErrorCode \cup ErrorCode

(* check(): the error raised, which has the name of its code, or none.     *)
Check(code) == IF code \in NonErrorCode THEN "none" ELSE code

(* stepCheck(): only a row and the end of the rows are no errors of        *)
(* sqlite3_step.                                                           *)
StepCheck(code) ==
  IF code \in {"SQLITE_ROW", "SQLITE_DONE"} THEN "none"
  ELSE IF Check(code) # "none" THEN Check(code)
  ELSE "UnknownSQLiteError"
=============================================================================
