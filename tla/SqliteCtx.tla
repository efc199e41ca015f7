------------------------------ MODULE SqliteCtx ------------------------------
(***************************************************************************)
(* The dataset's file, shared by all the processes that open it: SqliteCtx *)
(* of sqliteCtx.zig, and the searches of watershed.zig as far as they lock *)
(* the file.                                                               *)
(*                                                                         *)
(* init() opens the file for writing and executes eight statements CREATE  *)
(* INDEX IF NOT EXISTS, each a transaction of its own.  The bot's oracle,  *)
(* one run by hand and one started again by systemd may do so at the same  *)
(* time.  SQLite locks the file with a rollback journal, and no busy       *)
(* handler is installed: whoever meets a lock gets SQLITE_BUSY at once.    *)
(***************************************************************************)
EXTENDS Naturals, SqliteErrors

CONSTANTS Process,
          NumIndexes   \* 8

ASSUME CtxAssumption == NumIndexes \in Nat \ {0}

VARIABLES
  created,     \* indices committed to the file
  schema,      \* the indices that each connection knows of
  pc,          \* what each process does
  statement,   \* of init(): the one that sqlite3_exec is at
  lock,        \* on the file
  error        \* how its last run ended

vars == <<created, schema, pc, statement, lock, error>>

Index == 1..NumIndexes

Others(p) == Process \ {p}

Hold(p, l) == lock' = [lock EXCEPT ![p] = l]

-----------------------------------------------------------------------------
(* An earlier run may have come to any point of its statements.            *)
Init == /\ \E n \in 0..NumIndexes : created = 1..n
        /\ schema = [p \in Process |-> {}]
        /\ pc = [p \in Process |-> "down"]
        /\ statement = [p \in Process |-> 1]
        /\ lock = [p \in Process |-> "none"]
        /\ error = [p \in Process |-> "none"]

(* main() returns the error, or the process just ends, and its locks with  *)
(* it.  What it has not committed is rolled back.                          *)
End(p, e) == /\ pc' = [pc EXCEPT ![p] = "down"]
             /\ error' = [error EXCEPT ![p] = e]
             /\ Hold(p, "none")
             /\ UNCHANGED <<created, statement>>

Open(p) == /\ pc[p] = "down"
           /\ pc' = [pc EXCEPT ![p] = "opening"]
           /\ statement' = [statement EXCEPT ![p] = 1]
           /\ schema' = [schema EXCEPT ![p] = {}]
           /\ error' = [error EXCEPT ![p] = "none"]
           /\ UNCHANGED <<created, lock>>

-----------------------------------------------------------------------------
Busy(conflict) == IF conflict THEN "SQLITE_BUSY" ELSE "SQLITE_OK"

(* Nobody begins to read when one is about to commit, one process writes   *)
(* at a time, and it commits when nobody reads.                            *)
SharedCode(p) == Busy(\E q \in Others(p) : lock[q] \in {"pending", "exclusive"})

ReservedCode(p) ==
  Busy(\E q \in Others(p) : lock[q] \in {"reserved", "pending", "exclusive"})

ExclusiveCode(p) == Busy(\E q \in Others(p) : lock[q] # "none")

(* Mutant: one statement too many.                                         *)
AdvancePast(p) ==
  IF statement[p] > NumIndexes
    THEN pc' = [pc EXCEPT ![p] = "ready"] /\ UNCHANGED statement
    ELSE statement' = [statement EXCEPT ![p] = statement[p] + 1] /\ UNCHANGED pc

(* The statement is done, and sqlite3_exec goes on with the next.          *)
Advance(p) ==
  IF statement[p] = NumIndexes
    THEN pc' = [pc EXCEPT ![p] = "ready"] /\ UNCHANGED statement
    ELSE statement' = [statement EXCEPT ![p] = statement[p] + 1] /\ UNCHANGED pc

(* Mutant: a locked database is tried again until it is free.              *)
AttemptAgain(p, code, held) ==
  IF Check(code) = "none"
    THEN Hold(p, held) /\ UNCHANGED <<created, pc, statement, error>>
    ELSE UNCHANGED <<created, pc, statement, lock, error>>

(* Mutant: init() goes on without its indices.                             *)
AttemptIgnored(p, code, held) ==
  /\ UNCHANGED <<created, statement, error>>
  /\ IF Check(code) = "none"
       THEN Hold(p, held) /\ UNCHANGED pc
       ELSE Hold(p, "none") /\ pc' = [pc EXCEPT ![p] = "ready"]

(* sqlite3_exec goes on if it gets the lock.  If not, it gives up, and the *)
(* error that check() makes of its code ends init() and main().            *)
Attempt(p, code, held) ==
  IF Check(code) = "none"
    THEN Hold(p, held) /\ UNCHANGED <<created, pc, statement, error>>
    ELSE End(p, Check(code))

(* Each statement reads the file first, the first one the schema as well.  *)
Read(p) == /\ pc[p] = "opening"
           /\ lock[p] = "none"
           /\ Attempt(p, SharedCode(p), "shared")
           /\ schema' = IF statement[p] = 1 /\ SharedCode(p) = "SQLITE_OK"
                          THEN [schema EXCEPT ![p] = created] ELSE schema

(* Mutant: without IF NOT EXISTS, an index there already is made again.    *)
NeverExists(p) == FALSE

(* IF NOT EXISTS                                                           *)
Exists(p) == statement[p] \in schema[p]

SkipIndex(p) == /\ pc[p] = "opening"
                /\ lock[p] = "shared"
                /\ Exists(p)
                /\ Hold(p, "none")
                /\ Advance(p)
                /\ UNCHANGED <<created, schema, error>>

BeginIndex(p) == /\ pc[p] = "opening"
                 /\ lock[p] = "shared"
                 /\ ~Exists(p)
                 /\ Attempt(p, ReservedCode(p), "reserved")
                 /\ UNCHANGED schema

(* The schema has changed since it was read: the statement is prepared     *)
(* again.                                                                  *)
Reprepare(p) == /\ pc[p] = "opening"
                /\ lock[p] = "reserved"
                /\ schema[p] # created
                /\ schema' = [schema EXCEPT ![p] = created]
                /\ Hold(p, "none")
                /\ UNCHANGED <<created, pc, statement, error>>

(* New readers are kept out first, and then there must be no old ones.     *)
BeginCommit(p) == /\ pc[p] = "opening"
                  /\ lock[p] = "reserved"
                  /\ schema[p] = created
                  /\ Hold(p, "pending")
                  /\ UNCHANGED <<created, schema, pc, statement, error>>

Exclude(p) == /\ pc[p] = "opening"
              /\ lock[p] = "pending"
              /\ Attempt(p, ExclusiveCode(p), "exclusive")
              /\ UNCHANGED schema

Commit(p) == /\ pc[p] = "opening"
             /\ lock[p] = "exclusive"
             /\ created' = created \cup {statement[p]}
             /\ schema' = [schema EXCEPT ![p] = created']
             /\ Hold(p, "none")
             /\ Advance(p)
             /\ UNCHANGED error

-----------------------------------------------------------------------------
SearchCode(p) == IF SharedCode(p) = "SQLITE_OK" THEN "SQLITE_ROW" ELSE SharedCode(p)

(* A search of update(): its statement is stepped, and finalized.          *)
Search(p) == /\ pc[p] = "ready"
             /\ lock[p] = "none"
             /\ IF StepCheck(SearchCode(p)) # "none"
                  THEN End(p, StepCheck(SearchCode(p)))
                  ELSE Hold(p, "shared") /\ UNCHANGED <<created, pc, statement, error>>
             /\ UNCHANGED schema

Finalize(p) == /\ pc[p] = "ready"
               /\ lock[p] = "shared"
               /\ Hold(p, "none")
               /\ UNCHANGED <<created, schema, pc, statement, error>>

(* Its input ends, and deinit() closes the connection.                     *)
Close(p) == /\ pc[p] = "ready"
            /\ lock[p] = "none"
            /\ End(p, "none")
            /\ UNCHANGED schema

(* Any other error of SQLite, or the process is killed.                    *)
Fails(p) == /\ pc[p] # "down"
            /\ \E e \in ErrorCode \ {"SQLITE_BUSY"} : End(p, e)
            /\ UNCHANGED schema

-----------------------------------------------------------------------------
Proceed(p) == \/ Read(p)
              \/ SkipIndex(p)
              \/ BeginIndex(p)
              \/ Reprepare(p)
              \/ BeginCommit(p)
              \/ Exclude(p)
              \/ Commit(p)
              \/ Finalize(p)

Next == \E p \in Process : \/ Open(p)
                           \/ Read(p)
                           \/ SkipIndex(p)
                           \/ BeginIndex(p)
                           \/ Reprepare(p)
                           \/ BeginCommit(p)
                           \/ Exclude(p)
                           \/ Commit(p)
                           \/ Search(p)
                           \/ Finalize(p)
                           \/ Close(p)
                           \/ Fails(p)

Spec == Init /\ [][Next]_vars

(* Each process runs on while it is inside of a call of SQLite.            *)
FairSpec == Spec /\ \A p \in Process : WF_vars(Proceed(p))

-----------------------------------------------------------------------------
(* Type invariant of the file and of what each process is at.              *)
TypeOK ==
  /\ created \in SUBSET Index
  /\ schema \in [Process -> SUBSET Index]
  /\ pc \in [Process -> {"down", "opening", "ready"}]
  /\ statement \in [Process -> Index]
  /\ lock \in [Process -> {"none", "shared", "reserved", "pending", "exclusive"}]
  /\ error \in [Process -> ErrorCode \cup {"none"}]

(* Whatever other processes did while init() ran, and however those ended  *)
(* that began before it: all the indices are there when it returns.        *)
ServedFromIndexes == \A p \in Process : pc[p] = "ready" => created = Index

(* check() turns SQLITE_BUSY into an error that ends the program.  A       *)
(* search never gets it: processes may open the file while others search.  *)
SearchNeverBusy ==
  [][\A p \in Process : pc[p] = "ready" => error'[p] # "SQLITE_BUSY"]_vars

(* Nor does init() because of those that search: it fails with SQLITE_BUSY *)
(* only when another process is inside of its own init(), which goes on.   *)
BusyOnlyAmongOpeners ==
  [][\A p \in Process : error'[p] = "SQLITE_BUSY" /\ error[p] # "SQLITE_BUSY" =>
       \E q \in Others(p) : pc[q] = "opening" /\ UNCHANGED pc[q]]_vars

(* init() returns: two processes that open the file at the same time do    *)
(* not wait for each other's locks.                                        *)
OpeningEnds == \A p \in Process : pc[p] = "opening" ~> pc[p] # "opening"
=============================================================================
