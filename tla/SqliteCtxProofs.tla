--------------------------- MODULE SqliteCtxProofs ---------------------------
(***************************************************************************)
(* Proofs about SqliteCtx, for any number of processes and of indices.     *)
(***************************************************************************)
EXTENDS SqliteCtx, TLAPS

Writing(p) == lock[p] \in {"reserved", "pending", "exclusive"}

Committing(p) == lock[p] \in {"pending", "exclusive"}

(* What each process may rely on whatever the others do: its schema is not *)
(* ahead of the file, and its statements so far are done.                  *)
Progress(p) ==
  /\ schema[p] \subseteq created
  /\ pc[p] = "opening" => \A i \in Index : i < statement[p] => i \in created
  /\ pc[p] = "ready" => created = Index

(* Who writes is inside of init(), and lacks the index that it makes.  An  *)
(* error is what a process ended with.                                     *)
Locked(p) ==
  /\ pc[p] # "down" => error[p] = "none"
  /\ pc[p] = "down" => lock[p] = "none"
  /\ Writing(p) => pc[p] = "opening" /\ statement[p] \notin schema[p]
  /\ Committing(p) => schema[p] = created

OneWriter == \A p, q \in Process : Writing(p) /\ Writing(q) => p = q

(* The inductive invariant.                                                *)
IInv == /\ TypeOK
        /\ \A p \in Process : Progress(p)
        /\ \A p \in Process : Locked(p)
        /\ OneWriter

LEMMA Codes ==
  /\ Check("SQLITE_OK") = "none"
  /\ Check("SQLITE_BUSY") = "SQLITE_BUSY"
  /\ StepCheck("SQLITE_ROW") = "none"
  /\ StepCheck("SQLITE_BUSY") = "SQLITE_BUSY"
BY DEF Check, StepCheck, NonErrorCode

LEMMA BusyIsAnError == "SQLITE_BUSY" \in ErrorCode /\ "none" # "SQLITE_BUSY"
BY SqliteAssumption

LEMMA InitIInv == Init => IInv
BY CtxAssumption DEF Init, IInv, TypeOK, Progress, Locked, OneWriter, Writing, Committing, Index

-----------------------------------------------------------------------------
(* A process that ends leaves the file as it is.                           *)
LEMMA EndIInv ==
  ASSUME IInv, NEW p \in Process, NEW e \in ErrorCode \cup {"none"}, End(p, e), UNCHANGED schema
  PROVE  IInv'
BY DEF IInv, TypeOK, Progress, Locked, OneWriter, Writing, Committing, End, Hold

(* A lock that nobody who writes has a conflict with may be taken.         *)
LEMMA OpenIInv == ASSUME IInv, NEW p \in Process, Open(p) PROVE IInv'
BY CtxAssumption DEF IInv, TypeOK, Progress, Locked, OneWriter, Writing, Committing, Open, Index

LEMMA ReadIInv == ASSUME IInv, NEW p \in Process, Read(p) PROVE IInv'
<1>1. CASE SharedCode(p) = "SQLITE_BUSY"
  <2>1. End(p, "SQLITE_BUSY") /\ UNCHANGED schema
    BY <1>1, Codes DEF Read, Attempt
  <2> QED BY <2>1, EndIInv, BusyIsAnError
<1>2. CASE SharedCode(p) = "SQLITE_OK"
  <2>1. /\ Hold(p, "shared")
        /\ UNCHANGED <<created, pc, statement, error>>
        /\ schema' = IF statement[p] = 1 THEN [schema EXCEPT ![p] = created] ELSE schema
    BY <1>2, Codes DEF Read, Attempt
  <2> QED BY <2>1 DEF Read, Hold, IInv, TypeOK, Progress, Locked, OneWriter, Writing, Committing
<1> QED BY <1>1, <1>2 DEF SharedCode, Busy

LEMMA AdvanceProgress ==
  ASSUME IInv, NEW p \in Process, pc[p] = "opening", Advance(p),
         created' \in SUBSET Index, created \subseteq created', statement[p] \in created'
  PROVE  /\ pc' \in [Process -> {"down", "opening", "ready"}]
         /\ statement' \in [Process -> Index]
         /\ \A q \in Process \ {p} : pc'[q] = pc[q] /\ statement'[q] = statement[q]
         /\ pc'[p] \in {"opening", "ready"}
         /\ pc'[p] = "opening" => \A i \in Index : i < statement'[p] => i \in created'
         /\ pc'[p] = "ready" => created' = Index
<1>0. /\ statement[p] \in 1..NumIndexes
      /\ NumIndexes \in Nat
      /\ \A i \in Index : i < statement[p] => i \in created'
  BY CtxAssumption DEF IInv, TypeOK, Progress, Index
<1>1. CASE statement[p] = NumIndexes
  <2>1. pc' = [pc EXCEPT ![p] = "ready"] /\ statement' = statement
    BY <1>1 DEF Advance
  <2>2. \A i \in Index : i = statement[p] \/ i < statement[p]
    BY <1>0, <1>1 DEF Index
  <2>3. created' = Index
    BY <1>0, <2>2
  <2> QED BY <2>1, <2>3 DEF IInv, TypeOK
<1>2. CASE statement[p] # NumIndexes
  <2>1. statement' = [statement EXCEPT ![p] = statement[p] + 1] /\ pc' = pc
    BY <1>2 DEF Advance
  <2>2. statement[p] + 1 \in Index
    BY <1>0, <1>2 DEF Index
  <2>3. \A i \in Index : i < statement[p] + 1 => i = statement[p] \/ i < statement[p]
    BY <1>0 DEF Index
  <2> QED BY <1>0, <2>1, <2>2, <2>3 DEF IInv, TypeOK
<1> QED BY <1>1, <1>2

LEMMA SkipIInv == ASSUME IInv, NEW p \in Process, SkipIndex(p) PROVE IInv'
<1>1. statement[p] \in created
  BY DEF SkipIndex, Exists, IInv, Progress
<1>2. /\ pc' \in [Process -> {"down", "opening", "ready"}]
      /\ statement' \in [Process -> Index]
      /\ \A q \in Process \ {p} : pc'[q] = pc[q] /\ statement'[q] = statement[q]
      /\ pc'[p] \in {"opening", "ready"}
      /\ pc'[p] = "opening" => \A i \in Index : i < statement'[p] => i \in created'
      /\ pc'[p] = "ready" => created' = Index
  BY <1>1, AdvanceProgress DEF SkipIndex, IInv, TypeOK
<1>3. /\ UNCHANGED <<created, schema, error>>
      /\ lock' = [lock EXCEPT ![p] = "none"]
      /\ pc[p] = "opening"
  BY DEF SkipIndex, Hold
<1> QED BY <1>2, <1>3 DEF IInv, TypeOK, Progress, Locked, OneWriter, Writing, Committing

LEMMA BeginIndexIInv == ASSUME IInv, NEW p \in Process, BeginIndex(p) PROVE IInv'
<1>1. CASE ReservedCode(p) = "SQLITE_BUSY"
  BY <1>1, Codes, EndIInv, BusyIsAnError DEF BeginIndex, Attempt
<1>2. CASE ReservedCode(p) = "SQLITE_OK"
  <2>1. /\ Hold(p, "reserved")
        /\ UNCHANGED <<created, schema, pc, statement, error>>
        /\ \A q \in Others(p) : ~Writing(q)
    BY <1>2, Codes DEF BeginIndex, Attempt, ReservedCode, Busy, Writing
  <2> QED BY <2>1 DEF BeginIndex, Exists, Others, Hold, IInv, TypeOK, Progress, Locked,
                      OneWriter, Writing, Committing
<1> QED BY <1>1, <1>2 DEF ReservedCode, Busy

LEMMA ReprepareIInv == ASSUME IInv, NEW p \in Process, Reprepare(p) PROVE IInv'
BY DEF Reprepare, Hold, IInv, TypeOK, Progress, Locked, OneWriter, Writing, Committing

LEMMA BeginCommitIInv == ASSUME IInv, NEW p \in Process, BeginCommit(p) PROVE IInv'
BY DEF BeginCommit, Hold, IInv, TypeOK, Progress, Locked, OneWriter, Writing, Committing

LEMMA ExcludeIInv == ASSUME IInv, NEW p \in Process, Exclude(p) PROVE IInv'
<1>1. CASE ExclusiveCode(p) = "SQLITE_BUSY"
  BY <1>1, Codes, EndIInv, BusyIsAnError DEF Exclude, Attempt
<1>2. CASE ExclusiveCode(p) = "SQLITE_OK"
  <2>1. Hold(p, "exclusive") /\ UNCHANGED <<created, schema, pc, statement, error>>
    BY <1>2, Codes DEF Exclude, Attempt
  <2> QED BY <2>1 DEF Exclude, Hold, IInv, TypeOK, Progress, Locked, OneWriter, Writing, Committing
<1> QED BY <1>1, <1>2 DEF ExclusiveCode, Busy

(* Nobody else is about to commit, so that the schemas of those who write  *)
(* stay current.                                                           *)
LEMMA CommitIInv == ASSUME IInv, NEW p \in Process, Commit(p) PROVE IInv'
<1>1. /\ created' = created \cup {statement[p]}
      /\ schema' = [schema EXCEPT ![p] = created']
      /\ lock' = [lock EXCEPT ![p] = "none"]
      /\ UNCHANGED error
  BY DEF Commit, Hold
<1>2. /\ created' \in SUBSET Index
      /\ created \subseteq created'
      /\ statement[p] \in created'
  BY <1>1 DEF IInv, TypeOK
<1>3. /\ pc' \in [Process -> {"down", "opening", "ready"}]
      /\ statement' \in [Process -> Index]
      /\ \A q \in Process \ {p} : pc'[q] = pc[q] /\ statement'[q] = statement[q]
      /\ pc'[p] \in {"opening", "ready"}
      /\ pc'[p] = "opening" => \A i \in Index : i < statement'[p] => i \in created'
      /\ pc'[p] = "ready" => created' = Index
  BY <1>2, AdvanceProgress DEF Commit
<1>4. TypeOK'
  BY <1>1, <1>2, <1>3 DEF IInv, TypeOK
<1>5. ASSUME NEW q \in Process PROVE Progress(q)'
  BY <1>1, <1>2, <1>3 DEF IInv, TypeOK, Progress
<1>6. ASSUME NEW q \in Process PROVE Locked(q)'
  BY <1>1, <1>3 DEF Commit, IInv, TypeOK, Locked, OneWriter, Writing, Committing
<1>7. OneWriter'
  BY <1>1 DEF IInv, TypeOK, OneWriter, Writing, Committing
<1> QED BY <1>4, <1>5, <1>6, <1>7 DEF IInv

(* A search and its end only change a lock that is not for writing.        *)
LEMMA SearchIInv == ASSUME IInv, NEW p \in Process, Search(p) \/ Finalize(p) PROVE IInv'
<1>1. CASE Finalize(p)
  BY <1>1 DEF Finalize, Hold, IInv, TypeOK, Progress, Locked, OneWriter, Writing, Committing
<1>2. CASE Search(p) /\ SharedCode(p) = "SQLITE_BUSY"
  BY <1>2, Codes, EndIInv, BusyIsAnError DEF Search, SearchCode
<1>3. CASE Search(p) /\ SharedCode(p) = "SQLITE_OK"
  <2>1. /\ Hold(p, "shared")
        /\ UNCHANGED <<created, schema, pc, statement, error>>
        /\ pc[p] = "ready"
    BY <1>3, Codes DEF Search, SearchCode
  <2> QED BY <2>1 DEF Hold, IInv, TypeOK, Progress, Locked, OneWriter, Writing, Committing
<1> QED BY <1>1, <1>2, <1>3 DEF SharedCode, Busy

LEMMA NextIInv == IInv /\ [Next]_vars => IInv'
<1> SUFFICES ASSUME IInv, [Next]_vars PROVE IInv'
  OBVIOUS
<1>1. CASE UNCHANGED vars
  BY <1>1 DEF vars, IInv, TypeOK, Progress, Locked, OneWriter, Writing, Committing
<1>2. ASSUME NEW p \in Process, Open(p) PROVE IInv'
  BY <1>2, OpenIInv
<1>3. ASSUME NEW p \in Process, Read(p) PROVE IInv'
  BY <1>3, ReadIInv
<1>4. ASSUME NEW p \in Process, SkipIndex(p) PROVE IInv'
  BY <1>4, SkipIInv
<1>5. ASSUME NEW p \in Process, BeginIndex(p) PROVE IInv'
  BY <1>5, BeginIndexIInv
<1>6. ASSUME NEW p \in Process, Reprepare(p) PROVE IInv'
  BY <1>6, ReprepareIInv
<1>7. ASSUME NEW p \in Process, BeginCommit(p) PROVE IInv'
  BY <1>7, BeginCommitIInv
<1>8. ASSUME NEW p \in Process, Commit(p) PROVE IInv'
  BY <1>8, CommitIInv
<1>11. ASSUME NEW p \in Process, Exclude(p) PROVE IInv'
  BY <1>11, ExcludeIInv
<1>9. ASSUME NEW p \in Process, Search(p) \/ Finalize(p) PROVE IInv'
  BY <1>9, SearchIInv
<1>10. ASSUME NEW p \in Process, Close(p) \/ Fails(p) PROVE IInv'
  BY <1>10, EndIInv DEF Close, Fails
<1> QED
  BY <1>1, <1>2, <1>3, <1>4, <1>5, <1>6, <1>7, <1>8, <1>9, <1>10, <1>11 DEF Next

-----------------------------------------------------------------------------
(* At most one process writes, and wherever a process is in its init() the *)
(* indices of its statements so far are in the file.                       *)
THEOREM Invariance == Spec => []IInv
BY InitIInv, NextIInv, PTL DEF Spec

(* The types of the state are kept.                                        *)
THEOREM TypeCorrect == Spec => []TypeOK
<1>1. IInv => TypeOK
  BY DEF IInv
<1> QED BY <1>1, Invariance, PTL

(* However many processes open the file at once, and wherever others have  *)
(* ended, init() returns with all of the indices in the file.              *)
THEOREM IndexesServed == Spec => []ServedFromIndexes
<1>1. IInv => ServedFromIndexes
  BY DEF IInv, Progress, ServedFromIndexes
<1> QED BY <1>1, Invariance, PTL

(* Nobody commits while another process is past init().                    *)
LEMMA NoCommitOnceReady ==
  ASSUME IInv, NEW p \in Process, pc[p] = "ready", NEW q \in Process
  PROVE  ~Committing(q) /\ ~(Writing(q) /\ schema[q] = created)
BY DEF IInv, TypeOK, Progress, Locked, Writing, Committing

(* Who newly fails with SQLITE_BUSY met a lock.                            *)
LEMMA WhoIsBusy ==
  ASSUME IInv, Next, NEW p \in Process, error'[p] = "SQLITE_BUSY", error[p] # "SQLITE_BUSY"
  PROVE  /\ \A q \in Process \ {p} : pc'[q] = pc[q]
         /\ \/ \E q \in Others(p) : Committing(q)
            \/ pc[p] = "opening" /\ \E q \in Others(p) : Writing(q)
            \/ pc[p] = "opening" /\ Writing(p) /\ schema[p] = created
                                 /\ \E q \in Others(p) : lock[q] # "none"
<1>1. PICK r \in Process :
        \/ Open(r) \/ Read(r) \/ SkipIndex(r) \/ BeginIndex(r) \/ Reprepare(r)
        \/ BeginCommit(r) \/ Exclude(r) \/ Commit(r) \/ Search(r) \/ Finalize(r) \/ Close(r)
        \/ Fails(r)
  BY DEF Next
<1>2. error'[r] # error[r] => \A q \in Process \ {r} : pc'[q] = pc[q]
  BY <1>1 DEF Open, Read, SkipIndex, BeginIndex, Reprepare, BeginCommit, Exclude, Commit,
              Search, Finalize, Close, Fails, Attempt, End, IInv, TypeOK
<1>3. p = r
  BY <1>1 DEF Open, Read, SkipIndex, BeginIndex, Reprepare, BeginCommit, Exclude, Commit,
              Search, Finalize, Close, Fails, Attempt, End, IInv, TypeOK
<1>4. error'[p] # error[p]
  OBVIOUS
<1>5. ~Open(p) /\ ~Close(p) /\ ~Fails(p)
  BY DEF Open, Close, Fails, End, IInv, TypeOK
<1>6. Read(p) \/ BeginIndex(p) \/ Exclude(p) \/ Search(p)
  BY <1>1, <1>3, <1>4, <1>5 DEF SkipIndex, Reprepare, BeginCommit, Commit, Finalize
<1>7. CASE Read(p) \/ Search(p)
  <2>1. SharedCode(p) = "SQLITE_BUSY"
    BY <1>4, <1>7, Codes DEF Read, Search, SearchCode, Attempt, SharedCode, Busy
  <2>2. \E q \in Others(p) : Committing(q)
    BY <2>1 DEF SharedCode, Busy, Committing
  <2> QED BY <1>2, <1>3, <1>4, <2>2
<1>8. CASE BeginIndex(p)
  <2>1. ReservedCode(p) = "SQLITE_BUSY" /\ pc[p] = "opening"
    BY <1>4, <1>8, Codes DEF BeginIndex, Attempt, ReservedCode, Busy
  <2>2. \E q \in Others(p) : Writing(q)
    BY <2>1 DEF ReservedCode, Busy, Writing
  <2> QED BY <1>2, <1>3, <1>4, <2>1, <2>2
<1>9. CASE Exclude(p)
  <2>1. ExclusiveCode(p) = "SQLITE_BUSY"
    BY <1>4, <1>9, Codes DEF Exclude, Attempt, ExclusiveCode, Busy
  <2>2. /\ \E q \in Others(p) : lock[q] # "none"
        /\ pc[p] = "opening" /\ Writing(p) /\ schema[p] = created
    BY <1>9, <2>1 DEF Exclude, ExclusiveCode, Busy, Writing, Committing, IInv, Locked
  <2> QED BY <1>2, <1>3, <1>4, <2>2
<1> QED BY <1>6, <1>7, <1>8, <1>9

(* A search of update() never meets a lock.                                *)
THEOREM SearchesNeverBusy == Spec => SearchNeverBusy
<1>1. ASSUME IInv, [Next]_vars
      PROVE  [\A p \in Process : pc[p] = "ready" => error'[p] # "SQLITE_BUSY"]_vars
  <2> SUFFICES ASSUME Next, NEW p \in Process, pc[p] = "ready", error'[p] = "SQLITE_BUSY"
               PROVE  FALSE
    BY <1>1 DEF vars
  <2>1. error[p] # "SQLITE_BUSY"
    BY <1>1 DEF IInv, Locked
  <2>2. \E q \in Others(p) : Committing(q)
    BY <1>1, <2>1, WhoIsBusy
  <2> QED BY <1>1, <2>2, NoCommitOnceReady DEF Others
<1> QED BY <1>1, Invariance, PTL DEF Spec, SearchNeverBusy

(* A process that opens the file is not kept from it by those that search. *)
THEOREM OpenersOnlyMeetOpeners == Spec => BusyOnlyAmongOpeners
<1>1. ASSUME IInv, [Next]_vars
      PROVE  [\A p \in Process : error'[p] = "SQLITE_BUSY" /\ error[p] # "SQLITE_BUSY" =>
                \E q \in Others(p) : pc[q] = "opening" /\ UNCHANGED pc[q]]_vars
  <2> SUFFICES ASSUME Next, NEW p \in Process,
                      error'[p] = "SQLITE_BUSY", error[p] # "SQLITE_BUSY"
               PROVE  \E q \in Others(p) : pc[q] = "opening" /\ pc'[q] = pc[q]
    BY <1>1 DEF vars
  <2>1. \A q \in Process : Writing(q) => pc[q] = "opening"
    BY <1>1 DEF IInv, Locked
  <2>2. ASSUME Writing(p), schema[p] = created, NEW q \in Process, lock[q] # "none"
        PROVE  pc[q] = "opening"
    BY <1>1, <2>2, NoCommitOnceReady DEF IInv, TypeOK, Locked
  <2>3. \E q \in Others(p) : pc[q] = "opening"
    BY <1>1, <2>1, <2>2, WhoIsBusy DEF Others, Writing, Committing
  <2> QED BY <1>1, <2>3, WhoIsBusy DEF Others
<1> QED BY <1>1, Invariance, PTL DEF Spec, BusyOnlyAmongOpeners
-----------------------------------------------------------------------------
(* How far a statement of init() has come by the lock that it holds.       *)
Stage == [none |-> 0, shared |-> 1, reserved |-> 2, pending |-> 3, exclusive |-> 4]

Stays(p) == statement'[p] = statement[p] /\ schema'[p] = schema[p] /\ lock'[p] = lock[p]

(* The next statement, or the same one with a newer schema, or with the    *)
(* same schema and a higher lock.                                          *)
Advances(p) ==
  \/ statement'[p] \in Index /\ statement'[p] > statement[p]
  \/ /\ statement'[p] = statement[p]
     /\ \/ schema[p] \subseteq schema'[p] /\ schema'[p] # schema[p]
        \/ schema'[p] = schema[p] /\ Stage[lock'[p]] > Stage[lock[p]]

(* Who takes a step, and that it leaves the others alone.                  *)
LEMMA OneSteps ==
  ASSUME IInv, Next
  PROVE  \E p \in Process :
           /\ \/ Open(p) \/ Read(p) \/ SkipIndex(p) \/ BeginIndex(p) \/ Reprepare(p)
              \/ BeginCommit(p) \/ Exclude(p) \/ Commit(p) \/ Search(p) \/ Finalize(p)
              \/ Close(p) \/ Fails(p)
           /\ \A q \in Process : q # p => Stays(q)
<1>1. PICK p \in Process :
        \/ Open(p) \/ Read(p) \/ SkipIndex(p) \/ BeginIndex(p) \/ Reprepare(p)
        \/ BeginCommit(p) \/ Exclude(p) \/ Commit(p) \/ Search(p) \/ Finalize(p) \/ Close(p)
        \/ Fails(p)
  BY DEF Next
<1>2. ASSUME NEW q \in Process, q # p PROVE Stays(q)
  BY <1>1, <1>2 DEF Open, Read, SkipIndex, BeginIndex, Reprepare, BeginCommit, Exclude,
     Commit, Search, Finalize, Close, Fails, Attempt, Advance, End, Hold, Stays, IInv, TypeOK
<1> QED BY <1>1, <1>2

(* A step of init() that neither ends nor finishes it brings it nearer to  *)
(* its end.                                                                *)
LEMMA OpenerAdvances ==
  ASSUME IInv, NEW p \in Process, pc[p] = "opening", pc'[p] = "opening",
         \/ Read(p) \/ SkipIndex(p) \/ BeginIndex(p) \/ Reprepare(p)
         \/ BeginCommit(p) \/ Exclude(p) \/ Commit(p)
  PROVE  Advances(p)
<1>t. /\ schema \in [Process -> SUBSET Index] /\ schema[p] \subseteq created
      /\ statement \in [Process -> Index] /\ statement[p] \in 1..NumIndexes
      /\ lock \in [Process -> {"none", "shared", "reserved", "pending", "exclusive"}]
      /\ pc \in [Process -> {"down", "opening", "ready"}]
      /\ NumIndexes \in Nat
  BY CtxAssumption DEF IInv, TypeOK, Progress, Index
<1>e. \A e : ~End(p, e)
  BY <1>t DEF End
<1>1. CASE Read(p)
  <2>1. lock' = [lock EXCEPT ![p] = "shared"] /\ lock[p] = "none" /\ statement' = statement
    BY <1>1, <1>e DEF Read, Attempt, Hold
  <2>2. schema[p] \subseteq schema'[p]
    BY <1>1, <1>t DEF Read
  <2> QED BY <1>t, <2>1, <2>2 DEF Advances, Stage
<1>2. CASE BeginIndex(p)
  <2>1. /\ lock' = [lock EXCEPT ![p] = "reserved"] /\ lock[p] = "shared"
        /\ statement' = statement /\ schema' = schema
    BY <1>2, <1>e DEF BeginIndex, Attempt, Hold
  <2> QED BY <1>t, <2>1 DEF Advances, Stage
<1>3. CASE BeginCommit(p)
  <2>1. /\ lock' = [lock EXCEPT ![p] = "pending"] /\ lock[p] = "reserved"
        /\ statement' = statement /\ schema' = schema
    BY <1>3 DEF BeginCommit, Hold
  <2> QED BY <1>t, <2>1 DEF Advances, Stage
<1>6. CASE Exclude(p)
  <2>1. /\ lock' = [lock EXCEPT ![p] = "exclusive"] /\ lock[p] = "pending"
        /\ statement' = statement /\ schema' = schema
    BY <1>6, <1>e DEF Exclude, Attempt, Hold
  <2> QED BY <1>t, <2>1 DEF Advances, Stage
<1>4. CASE Reprepare(p)
  BY <1>4, <1>t DEF Reprepare, Advances
<1>5. CASE SkipIndex(p) \/ Commit(p)
  <2>1. Advance(p)
    BY <1>5 DEF SkipIndex, Commit
  <2>2. statement[p] # NumIndexes
    BY <1>t, <2>1 DEF Advance
  <2>3. statement'[p] = statement[p] + 1
    BY <1>t, <2>1, <2>2 DEF Advance
  <2> QED BY <1>t, <2>2, <2>3 DEF Advances, Index
<1> QED BY <1>1, <1>2, <1>3, <1>4, <1>5, <1>6

(* init() never goes in circles: a statement is prepared again only after  *)
(* another process has made an index, and of those there are NumIndexes.   *)
(* This is what OpeningEnds rests on.                                      *)
THEOREM OpeningAdvances ==
  Spec => [][\A p \in Process : pc[p] = "opening" /\ pc'[p] = "opening" =>
                Stays(p) \/ Advances(p)]_vars
<1>1. ASSUME IInv, [Next]_vars
      PROVE  [\A p \in Process : pc[p] = "opening" /\ pc'[p] = "opening" =>
                 Stays(p) \/ Advances(p)]_vars
  <2> SUFFICES ASSUME Next, NEW p \in Process, pc[p] = "opening", pc'[p] = "opening"
               PROVE  Stays(p) \/ Advances(p)
    BY <1>1
  <2>1. PICK r \in Process :
          /\ \/ Open(r) \/ Read(r) \/ SkipIndex(r) \/ BeginIndex(r) \/ Reprepare(r)
             \/ BeginCommit(r) \/ Exclude(r) \/ Commit(r) \/ Search(r) \/ Finalize(r) \/ Close(r)
             \/ Fails(r)
          /\ \A q \in Process : q # r => Stays(q)
    BY <1>1, OneSteps
  <2>2. CASE r # p
    BY <2>1, <2>2
  <2>3. CASE r = p
    <3>1. ~Open(p) /\ ~Search(p) /\ ~Finalize(p) /\ ~Close(p)
      BY DEF Open, Search, Finalize, Close
    <3>2. ~Fails(p)
      BY <1>1 DEF Fails, End, IInv, TypeOK
    <3> QED BY <1>1, <2>1, <2>3, <3>1, <3>2, OpenerAdvances
  <2> QED BY <2>2, <2>3
<1> QED BY <1>1, Invariance, PTL DEF Spec
=============================================================================
