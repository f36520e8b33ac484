----------------------- MODULE OrchestratorRunProofs -----------------------
(***************************************************************************)
(* A run keeps its types, its two files in step, its retry budgets and its *)
(* life cycle, and releases only what its last dispatch has built, for     *)
(* every set of subsystems, workers and failure codes and any number of    *)
(* dispatches and crashes.  The invariant says what the driver has in      *)
(* memory at each step of a save (SaveInv) and what the processes of the   *)
(* last dispatch have done to the output directories (BuildInv).           *)
(***************************************************************************)
EXTENDS OrchestratorRun, TLAPS

-----------------------------------------------------------------------------
(* The invariant.                                                          *)

Saving == pc \in {"saveSpec", "saveState"}

\* The driver is at a label, or will be once it has saved.
Towards(L) == pc \in L \/ (Saving /\ cont \in L)

\* Where the two files differ, the driver is between them or was killed there, or the
\* spec was given another status.
SaveInv ==
  /\ stateFile.is = "absent" => stateFile.current = "draft"
  /\ pc = "editSpec" => cont \in {"session", "off"}
  /\ Saving => mem.status = mem.current /\ cont \notin {"saveSpec", "saveState", "editSpec"}
  /\ pc = "saveState" => specFile.status = mem.status
  /\ pc \notin {"off", "saveSpec"} => specFile.is = "ok"
  /\ ~cut /\ ~edited /\ pc # "saveState" /\ specFile.is = "ok" => specFile.status = stateFile.current

Dispatched == {"dispatch", "g4", "g5", "g6", "g7"}

\* Without a clash only this dispatch's workers are at work, and a STEP file is of
\* the one that wrote last; past the dispatch all of them have ended well.
BuildInv ==
  /\ Towards(Dispatched) => attempt \in 1..MaxAttempts
  /\ attempt # 0 /\ attempt \notin clashed =>
       /\ \A p \in Procs : Alive(p) => p[2] = attempt
       /\ \A w \in Workers : proc[<<w, attempt>>] \in {"wrote", "ok"} => step[w] = attempt
  /\ Towards({"g4", "g5", "g6", "g7"}) =>
       \A w \in Workers : proc[<<w, attempt>>] \in {"ok", "idled"}
  /\ Towards({"g5", "g6", "g7"}) => \A w \in Workers : step[w] # 0

IInv == TypeOK /\ SaveInv /\ BudgetEndsRun /\ BuildInv

-----------------------------------------------------------------------------
(* The tables.                                                             *)

LEMMA EndsAreFinal ==
  ASSUME NEW from \in Final, NEW to
  PROVE  ~CanStep(from, to)
BY DEF CanStep, Steps, Final

LEMMA RetryTargetType == ASSUME NEW c PROVE RetryTarget(c) \in Status
BY DEF RetryTarget, Status

LEMMA StatusFacts ==
  /\ Final \subseteq Status
  /\ {"draft", "building", "geometry_validating", "scoring", "release_packaging",
      "awaiting_human", "failed"} \subseteq Status
BY DEF Final, Status

LEMMA FailingIsFinal ==
  ASSUME NEW from
  PROVE  from \in Final \/ CanStep(from, "failed")
BY DEF CanStep

LEMMA FreshType ==
  /\ Fresh \in [current: Status, status: Status]
  /\ Fresh.current = "draft" /\ Fresh.status = "draft"
  /\ NoCounts \in [Counters -> 0..(MaxRetries + 1)]
  /\ \A k \in Counters : NoCounts[k] = 0
BY StatusFacts, RetriesAssumption DEF Fresh, NoCounts

LEMMA LoadedType ==
  ASSUME TypeOK
  PROVE  Loaded \in [current: Status, status: Status]
BY StatusFacts DEF TypeOK, Loaded

LEMMA InitInv == Init => IInv
<1> SUFFICES ASSUME Init PROVE IInv
  OBVIOUS
<1> USE DEF Init
<1>1. TypeOK
  <2>1. /\ specFile \in [is: FileState, status: Status]
        /\ stateFile \in [is: FileState, current: Status]
        /\ mem \in [current: Status, status: Status]
    BY FreshType, StatusFacts DEF FileState
  <2>2. counts \in [Counters -> 0..(MaxRetries + 1)]
    BY FreshType
  <2>3. proc \in [Procs -> ProcState] /\ \A p \in Procs : proc[p] = "none"
    BY DEF ProcState
  <2>4. step \in [Workers -> 0..MaxAttempts] /\ \A w \in Workers : step[w] <= attempt
    BY AttemptsAssumption
  <2>5. cut \in BOOLEAN /\ edited \in BOOLEAN
    OBVIOUS
  <2>6. /\ pc = "off" => mem = Fresh /\ counts = NoCounts
        /\ specFile.is = "absent" => stateFile.is = "absent"
    OBVIOUS
  <2>7. /\ pc \in Labels /\ cont \in Labels
        /\ attempt \in 0..MaxAttempts /\ clashed \subseteq 1..MaxAttempts
    BY AttemptsAssumption DEF Labels
  <2> QED
    BY <2>1, <2>2, <2>3, <2>4, <2>5, <2>6, <2>7, Zenon DEF TypeOK
<1>2. SaveInv
  BY DEF SaveInv, Saving
<1>3. BudgetEndsRun
  BY FreshType, RetriesAssumption DEF BudgetEndsRun
<1>4. BuildInv
  BY DEF BuildInv, Towards, Saving, Dispatched
<1> QED
  BY <1>1, <1>2, <1>3, <1>4 DEF IInv

-----------------------------------------------------------------------------
(* Types.                                                                  *)

LEMMA OffType ==
  ASSUME TypeOK, Off, UNCHANGED buildVars,
         specFile' \in [is: FileState, status: Status],
         stateFile' \in [is: FileState, current: Status],
         specFile'.is = "absent" => stateFile'.is = "absent",
         cut' \in BOOLEAN, edited' \in BOOLEAN
  PROVE  TypeOK'
<1>1. /\ proc' \in [Procs -> ProcState] /\ \A p \in Procs : p[2] > attempt' => proc'[p] = "none"
  BY DEF Off, TypeOK, ProcState, buildVars
<1>2. /\ mem' = Fresh /\ counts' = NoCounts /\ pc' = "off" /\ cont' = "off"
      /\ "off" \in Labels
  BY DEF Off, Labels
<1> QED
  BY <1>1, <1>2, FreshType DEF TypeOK, buildVars

LEMMA EnterType ==
  ASSUME TypeOK, NEW to \in Status, NEW k \in Labels, Enter(to, k)
  PROVE  /\ mem' \in [current: Status, status: Status]
         /\ mem'.current = to /\ mem'.status = to
         /\ pc' = "saveSpec" /\ cont' = k
BY DEF Enter, SaveThen, TypeOK

LEMMA TypeStep ==
  ASSUME TypeOK, SaveInv, [Next]_vars
  PROVE  TypeOK'
<1> USE StatusFacts, FreshType DEF TypeOK
<1>1. CASE SaveSpec
  BY <1>1 DEF SaveSpec, Goto, Labels, FileState, SaveInv, buildVars, saveVars
<1>2. CASE SaveState \/ SaveEdited \/ EndSession \/ GateG4
  <2>1. /\ specFile' \in [is: FileState, status: Status]
        /\ stateFile' \in [is: FileState, current: Status]
        /\ specFile'.is = "absent" => stateFile'.is = "absent"
    BY <1>2 DEF SaveState, SaveEdited, EndSession, GateG4, FileState, SaveInv, fileVars
  <2>2. /\ UNCHANGED buildVars
        /\ cut' \in BOOLEAN /\ edited' \in BOOLEAN
    BY <1>2 DEF SaveState, SaveEdited, EndSession, GateG4, saveVars
  <2>3. CASE Off
    BY <2>1, <2>2, <2>3, OffType
  <2>4. CASE pc' \in Labels \ {"off"} /\ UNCHANGED <<mem, counts, proc>> /\ cont' = cont
    BY <2>1, <2>2, <2>4 DEF buildVars
  <2> QED
    BY <1>2, <2>3, <2>4 DEF SaveState, SaveEdited, EndSession, GateG4, Goto, Labels
<1>3. CASE \E k \in {"takeSpec", "session"} : NewRun(k)
  BY <1>3 DEF NewRun, SaveThen, Labels, fileVars, buildVars, saveVars
<1>4. CASE StartSession
  BY <1>4, LoadedType DEF StartSession, Goto, Labels, fileVars, buildVars, saveVars
<1>5. ASSUME NEW to \in Status, SessionEnter(to)
      PROVE  TypeOK'
  BY <1>5, EnterType DEF SessionEnter, Labels, fileVars, buildVars, saveVars
<1>6. ASSUME NEW s \in Edited(mem.status), SessionEdits(s) \/ TakeSpec(s)
      PROVE  TypeOK'
  <2>1. s \in Status
    BY OtherAssumption DEF Edited
  <2>2. mem' \in [current: Status, status: Status]
    BY <1>6, <2>1 DEF SessionEdits, TakeSpec, EditThen
  <2> QED
    BY <1>6, <2>2 DEF SessionEdits, TakeSpec, EditThen, Labels, fileVars, buildVars, saveVars
<1>7. ASSUME NEW s \in Subsystems, NEW c \in Codes, RecordFailure(s, c)
      PROVE  TypeOK'
  <2>1. RetryTarget(c) \in Status /\ "failed" \in Status /\ <<s, c>> \in Counters
    BY RetryTargetType DEF Counters
  <2>2. mem' \in [current: Status, status: Status]
    BY <1>7, <2>1 DEF RecordFailure
  <2>3. counts' \in [Counters -> 0..(MaxRetries + 1)]
    BY <1>7, <2>1, RetriesAssumption DEF RecordFailure
  <2> QED
    BY <1>7, <2>2, <2>3 DEF RecordFailure, fileVars, buildVars, saveVars
<1>9. ASSUME NEW s \in Edited(specFile.status), EditByHand(s)
      PROVE  TypeOK'
  <2>1. s \in Status
    BY OtherAssumption DEF Edited
  <2>2. specFile' \in [is: FileState, status: Status] /\ specFile'.is = "ok" /\ edited' \in BOOLEAN
    BY <1>9, <2>1 DEF EditByHand
  <2> QED
    BY <1>9, <2>2 DEF EditByHand, buildVars
<1>11. CASE Resume
  <2>1. mem' \in [current: Status, status: Status]
    BY <1>11, LoadedType DEF Resume
  <2>2. attempt' \in 0..MaxAttempts /\ attempt' = attempt + 1
    BY <1>11, AttemptsAssumption DEF Resume
  <2>3. clashed' \subseteq 1..MaxAttempts
    BY <1>11, <2>2, AttemptsAssumption DEF Resume
  <2>4. \A p \in Procs : p[2] > attempt' => proc'[p] = "none"
    BY <1>11, <2>2, AttemptsAssumption DEF Resume, Procs
  <2>5. \A w \in Workers : step'[w] <= attempt'
    BY <1>11, <2>2, AttemptsAssumption DEF Resume
  <2> QED
    BY <1>11, <2>1, <2>2, <2>3, <2>4, <2>5 DEF Resume, SaveThen, Labels, fileVars, saveVars
<1>12. ASSUME NEW w \in Workers, Launch(w) \/ TimeOut(w)
       PROVE  TypeOK'
  <2>1. proc' \in [Procs -> ProcState]
    BY <1>12 DEF Launch, TimeOut, ProcState
  <2>2. \A q \in Procs : q[2] > attempt => proc'[q] = "none"
    BY <1>12, AttemptsAssumption DEF Launch, TimeOut, Procs
  <2> QED
    BY <1>12, <2>1, <2>2 DEF Launch, TimeOut, fileVars, saveVars
<1>13. CASE Assess \/ GateG5 \/ GateG6 \/ GateG7
  <2>1. \E to \in Status, k \in Labels : Enter(to, k)
    BY <1>13 DEF Assess, GateG5, GateG6, GateG7, Labels
  <2>2. /\ mem' \in [current: Status, status: Status]
        /\ pc' = "saveSpec" /\ cont' \in Labels
    BY <2>1, EnterType
  <2> QED
    BY <1>13, <2>2 DEF Assess, GateG5, GateG6, GateG7, Labels, fileVars, buildVars, saveVars
<1>15. CASE Crash
  <2>1. /\ stateFile' \in [is: FileState, current: Status]
        /\ specFile' \in [is: FileState, status: Status]
    BY <1>15 DEF Crash, FileState, fileVars
  <2>2. specFile'.is = "absent" => stateFile'.is = "absent"
    BY <1>15 DEF Crash, FileState, fileVars, SaveInv
  <2>3. cut' \in BOOLEAN /\ edited' \in BOOLEAN /\ Off /\ UNCHANGED buildVars
    BY <1>15 DEF Crash
  <2> QED
    BY <2>1, <2>2, <2>3, OffType
<1>16. ASSUME NEW p \in Procs, Writes(p)
       PROVE  TypeOK'
  <2>1. p[1] \in Workers /\ p[2] \in 1..MaxAttempts /\ p[2] <= attempt
    BY <1>16 DEF Writes, Procs
  <2>2. step' \in [Workers -> 0..MaxAttempts] /\ \A w \in Workers : step'[w] <= attempt
    BY <1>16, <2>1, AttemptsAssumption DEF Writes
  <2>3. proc' \in [Procs -> ProcState] /\ \A q \in Procs : q[2] > attempt => proc'[q] = "none"
    BY <1>16, <2>1, AttemptsAssumption DEF Writes, ProcState
  <2> QED
    BY <1>16, <2>2, <2>3 DEF Writes, fileVars, saveVars
<1>17. ASSUME NEW p \in Procs, Exits(p)
       PROVE  TypeOK'
  <2>1. p[2] <= attempt
    BY <1>17, AttemptsAssumption DEF Exits, Alive, Procs
  <2>2. proc' \in [Procs -> ProcState] /\ \A q \in Procs : q[2] > attempt => proc'[q] = "none"
    BY <1>17, <2>1, AttemptsAssumption DEF Exits, ProcState, Procs
  <2> QED
    BY <1>17, <2>2 DEF Exits, fileVars, saveVars
<1>18. CASE UNCHANGED vars
  BY <1>18 DEF vars, fileVars, buildVars, Alive, saveVars
<1> QED
  BY <1>1, <1>2, <1>3, <1>4, <1>5, <1>6, <1>7, <1>9, <1>11, <1>12, <1>13,
     <1>15, <1>16, <1>17, <1>18 DEF Next

-----------------------------------------------------------------------------
(* The two files.                                                          *)

LEMMA SaveStep ==
  ASSUME TypeOK, SaveInv, [Next]_vars
  PROVE  SaveInv'
<1> USE FreshType DEF SaveInv, Saving
<1>0. ASSUME UNCHANGED <<fileVars, mem, pc, cont, saveVars>>
      PROVE  SaveInv'
  BY <1>0 DEF fileVars, saveVars
<1>1. CASE SaveSpec
  <2>1. /\ specFile'.is = "ok" /\ specFile'.status = mem.status
        /\ UNCHANGED <<stateFile, mem, cont, cut>> /\ pc = "saveSpec" /\ pc' = "saveState"
    BY <1>1 DEF SaveSpec, Goto, saveVars
  <2> QED
    BY <2>1
<1>2. CASE SaveState
  <2>1. /\ stateFile'.is = "ok" /\ stateFile'.current = mem.current
        /\ pc' = cont /\ pc = "saveState" /\ UNCHANGED specFile
    BY <1>2 DEF SaveState, Goto, Off
  <2> QED
    BY <2>1
<1>3. CASE SaveEdited
  <2>1. /\ specFile'.is = "ok" /\ specFile'.status = mem.status
        /\ edited' = (edited \/ mem.status # specFile.status)
        /\ UNCHANGED <<stateFile, cut>> /\ pc = "editSpec" /\ pc' = cont
    BY <1>3 DEF SaveEdited, Goto, Off
  <2> QED
    BY <2>1
<1>4. CASE (\E k \in {"takeSpec", "session"} : NewRun(k)) \/ StartSession
  <2>1. /\ pc = "off" /\ UNCHANGED <<fileVars, saveVars>>
        /\ \/ pc' = "saveSpec" /\ mem' = Fresh /\ cont' \in {"takeSpec", "session"}
           \/ pc' = "session" /\ specFile.is = "ok"
    BY <1>4 DEF NewRun, SaveThen, StartSession, Goto
  <2> QED
    BY <2>1 DEF fileVars, saveVars
<1>5. ASSUME NEW to \in Status, SessionEnter(to)
      PROVE  SaveInv'
  <2>1. /\ mem'.current = to /\ mem'.status = to /\ pc' = "saveSpec" /\ cont' = "session"
        /\ pc = "session" /\ UNCHANGED <<fileVars, saveVars>>
    BY <1>5, EnterType DEF SessionEnter, Labels
  <2> QED
    BY <2>1 DEF fileVars, saveVars
<1>6. CASE \E s \in Edited(mem.status) : SessionEdits(s) \/ TakeSpec(s)
  BY <1>6 DEF SessionEdits, TakeSpec, EditThen, fileVars, saveVars
<1>7. CASE \E s \in Subsystems, c \in Codes : RecordFailure(s, c)
  BY <1>7 DEF RecordFailure, fileVars, saveVars
<1>8. CASE EndSession \/ GateG4
  BY <1>8 DEF EndSession, GateG4, Goto, Off, fileVars, saveVars
<1>9. ASSUME NEW s \in Edited(specFile.status), EditByHand(s)
      PROVE  SaveInv'
  <2>1. /\ specFile'.is = "ok" /\ specFile'.status = s
        /\ edited' = (edited \/ s # specFile.status)
        /\ pc = "off" /\ specFile.is = "ok" /\ UNCHANGED <<stateFile, mem, pc, cont, cut>>
    BY <1>9 DEF EditByHand, TypeOK
  <2> QED
    BY <2>1
<1>11. CASE Resume
  <2>1. /\ mem'.current = "building" /\ mem'.status = "building" /\ pc' = "saveSpec"
        /\ cont' = "dispatch" /\ pc = "off" /\ UNCHANGED <<fileVars, saveVars>>
    BY <1>11, LoadedType DEF Resume, SaveThen
  <2> QED
    BY <2>1 DEF fileVars, saveVars
<1>12. ASSUME NEW w \in Workers, Launch(w) \/ TimeOut(w)
       PROVE  SaveInv'
  BY <1>0, <1>12 DEF Launch, TimeOut
<1>13. CASE Assess \/ GateG5 \/ GateG6 \/ GateG7
  <2>1. \E to \in Status, k \in {"off", "g4", "g6", "g7"} : Enter(to, k)
    BY <1>13, StatusFacts DEF Assess, GateG5, GateG6, GateG7
  <2>2. /\ mem'.current = mem'.status /\ pc' = "saveSpec" /\ UNCHANGED <<fileVars, saveVars>>
        /\ cont' \in {"off", "g4", "g6", "g7"}
        /\ pc \notin {"off", "saveSpec", "saveState"}
    BY <1>13, <2>1, EnterType DEF Assess, GateG5, GateG6, GateG7, Labels
  <2> QED
    BY <2>2 DEF fileVars, saveVars
<1>15. CASE Crash
  <2>1. pc' = "off" /\ edited' = edited /\ (~cut' => ~cut /\ pc # "saveState")
    BY <1>15 DEF Crash, Off, TypeOK
  <2>2. /\ specFile'.is = "ok" => specFile' = specFile
        /\ stateFile'.current = stateFile.current
        /\ stateFile'.is = "absent" => stateFile.is = "absent"
    <3>1. CASE UNCHANGED fileVars
      BY <3>1 DEF fileVars
    <3>2. CASE specFile' = [is |-> "torn", status |-> "draft"] /\ UNCHANGED stateFile
      BY <3>2
    <3>3. CASE stateFile' = [stateFile EXCEPT !.is = "torn"] /\ UNCHANGED specFile
      BY <3>3 DEF TypeOK
    <3> QED
      BY <1>15, <3>1, <3>2, <3>3 DEF Crash
  <2> QED
    BY <2>1, <2>2
<1>16. CASE \E p \in Procs : Writes(p) \/ Exits(p)
  BY <1>0, <1>16 DEF Writes, Exits
<1>17. CASE UNCHANGED vars
  BY <1>0, <1>17 DEF vars
<1> QED
  BY <1>1, <1>2, <1>3, <1>4, <1>5, <1>6, <1>7, <1>8, <1>9, <1>11, <1>12, <1>13,
     <1>15, <1>16, <1>17 DEF Next

-----------------------------------------------------------------------------
(* The budgets.                                                            *)

LEMMA CountStep ==
  ASSUME TypeOK, BudgetEndsRun, [Next]_vars
  PROVE  BudgetEndsRun'
<1> USE DEF BudgetEndsRun
<1>0. ASSUME UNCHANGED <<mem, counts>>
      PROVE  BudgetEndsRun'
  BY <1>0
<1>1. ASSUME counts' = NoCounts
      PROVE  BudgetEndsRun'
  BY <1>1, FreshType, RetriesAssumption
<1>2. ASSUME NEW to, NEW k, Enter(to, k), UNCHANGED counts
      PROVE  BudgetEndsRun'
  <2>1. mem.current \notin Final
    BY <1>2, EndsAreFinal DEF Enter
  <2> QED
    BY <1>2, <2>1
<1>3. ASSUME NEW s \in Subsystems, NEW c \in Codes, RecordFailure(s, c)
      PROVE  BudgetEndsRun'
  <2> DEFINE k == <<s, c>>
  <2>1. k \in Counters
    BY DEF Counters
  <2>2. ASSUME NEW j \in Counters, counts'[j] > MaxRetries
        PROVE  mem'.current \in Final
    <3>1. CASE mem.current \in Final
      BY <1>3, <3>1, EndsAreFinal DEF RecordFailure
    <3>2. CASE mem.current \notin Final
      <4>1. counts[j] \in Nat /\ counts[j] <= MaxRetries
        BY <3>2, RetriesAssumption DEF TypeOK
      <4>2. j = k
        BY <1>3, <2>2, <4>1, RetriesAssumption DEF RecordFailure, TypeOK
      <4>3. counts[k] >= MaxRetries
        BY <1>3, <2>1, <2>2, <4>1, <4>2, RetriesAssumption DEF RecordFailure, TypeOK
      <4>4. CanStep(mem.current, "failed") /\ "failed" \in Final
        BY <3>2 DEF CanStep, Final
      <4>5. mem'.current = "failed"
        BY <1>3, <4>3, <4>4 DEF RecordFailure, TypeOK
      <4> QED
        BY <4>4, <4>5
    <3> QED
      BY <3>1, <3>2
  <2> QED
    BY <2>2
<1>4. CASE SaveSpec \/ SaveState \/ SaveEdited
  BY <1>0, <1>1, <1>4 DEF SaveSpec, SaveState, SaveEdited, Off
<1>5. CASE \E k \in {"takeSpec", "session"} : NewRun(k)
  BY <1>1, <1>5 DEF NewRun
<1>6. CASE StartSession \/ EndSession \/ Crash \/ Resume
  BY <1>1, <1>6 DEF StartSession, EndSession, Crash, Resume, Off
<1>7. ASSUME NEW to \in Status, SessionEnter(to)
      PROVE  BudgetEndsRun'
  BY <1>2, <1>7 DEF SessionEnter
<1>8. CASE \E s \in Edited(mem.status) : SessionEdits(s) \/ TakeSpec(s)
  BY <1>8 DEF SessionEdits, TakeSpec, EditThen, TypeOK
<1>9. CASE Assess \/ GateG5 \/ GateG6 \/ GateG7
  BY <1>2, <1>9 DEF Assess, GateG5, GateG6, GateG7
<1>10. CASE GateG4
  BY <1>0, <1>1, <1>10 DEF GateG4, Off
<1>11. CASE \/ \E s \in Edited(specFile.status) : EditByHand(s)
            \/ \E w \in Workers : Launch(w) \/ TimeOut(w)
            \/ \E p \in Procs : Writes(p) \/ Exits(p)
  BY <1>0, <1>11 DEF EditByHand, Launch, TimeOut, Writes, Exits
<1>12. CASE UNCHANGED vars
  BY <1>0, <1>12 DEF vars
<1> QED
  BY <1>3, <1>4, <1>5, <1>6, <1>7, <1>8, <1>9, <1>10, <1>11, <1>12 DEF Next

-----------------------------------------------------------------------------
(* The builds.                                                             *)

Past == {"g4", "g5", "g6", "g7"}
Gated == {"g5", "g6", "g7"}

\* A step of the driver that leaves the workers alone and gets no further.
LEMMA DriverStep ==
  ASSUME BuildInv, UNCHANGED <<proc, buildVars>>,
         Towards(Dispatched)' => Towards(Dispatched),
         Towards(Past)' => Towards(Past) \/ \A w \in Workers : proc[<<w, attempt>>] \in {"ok", "idled"},
         Towards(Gated)' => Towards(Gated) \/ \A w \in Workers : step[w] # 0
  PROVE  BuildInv'
BY DEF BuildInv, buildVars, Past, Gated, Alive, Dispatched

\* The end of a driver, which forgets how its workers ended.
LEMMA OffStep ==
  ASSUME TypeOK, BuildInv, Off, UNCHANGED buildVars
  PROVE  BuildInv'
<1>1. ~Towards(Dispatched)' /\ ~Towards(Past)' /\ ~Towards(Gated)'
  BY DEF Off, Towards, Saving, Dispatched, Past, Gated
<1>2. ASSUME attempt # 0, attempt \notin clashed
      PROVE  /\ \A p \in Procs : Alive(p)' => p[2] = attempt
             /\ \A w \in Workers : proc'[<<w, attempt>>] \in {"wrote", "ok"} => step[w] = attempt
  <2>1. \A p \in Procs : proc'[p] \in {proc[p], "none"}
    BY DEF Off
  <2>2. \A w \in Workers : <<w, attempt>> \in Procs
    BY <1>2, AttemptsAssumption DEF TypeOK, Procs
  <2> QED
    BY <1>2, <2>1, <2>2 DEF BuildInv, Alive
<1> QED
  BY <1>1, <1>2 DEF BuildInv, buildVars, Past, Gated

\* A step of a process, if it keeps what the driver has seen.
LEMMA WorkerStep ==
  ASSUME TypeOK, BuildInv, UNCHANGED <<pc, cont, attempt, clashed>>,
         NEW p \in Procs,
         \A q \in Procs : q # p => proc'[q] = proc[q],
         proc[p] \notin {"ok", "idled"},
         Towards(Past) => p[2] # attempt,
         Alive(p)' => Alive(p) \/ p[2] = attempt,
         p[2] = attempt /\ proc'[p] = "ok" => proc[p] = "wrote",
         p[2] = attempt /\ proc'[p] = "wrote" => proc[p] = "wrote" \/ step'[p[1]] = attempt,
         \/ step' = step
         \/ Alive(p) /\ step' = [step EXCEPT ![p[1]] = p[2]]
  PROVE  BuildInv'
<1>0. p[1] \in Workers /\ p[2] \in 1..MaxAttempts /\ p = <<p[1], p[2]>>
  BY DEF Procs
<1>1. \A w \in Workers : attempt # 0 => <<w, attempt>> \in Procs
  BY AttemptsAssumption DEF TypeOK, Procs
<1>2. Towards(Dispatched)' => attempt' \in 1..MaxAttempts
  BY DEF BuildInv, Towards, Saving
<1>3. ASSUME attempt' # 0, attempt' \notin clashed'
      PROVE  /\ \A q \in Procs : Alive(q)' => q[2] = attempt'
             /\ \A w \in Workers : proc'[<<w, attempt'>>] \in {"wrote", "ok"} => step'[w] = attempt'
  <2>1. /\ \A q \in Procs : Alive(q) => q[2] = attempt
        /\ \A w \in Workers : proc[<<w, attempt>>] \in {"wrote", "ok"} => step[w] = attempt
    BY <1>3 DEF BuildInv
  <2>2. ASSUME NEW q \in Procs, Alive(q)'
        PROVE  q[2] = attempt'
    BY <2>1, <2>2 DEF Alive
  <2>3. ASSUME NEW w \in Workers, proc'[<<w, attempt'>>] \in {"wrote", "ok"}
        PROVE  step'[w] = attempt'
    <3>1. CASE p = <<w, attempt>>
      BY <1>0, <2>1, <2>3, <3>1 DEF TypeOK
    <3>2. CASE p # <<w, attempt>>
      <4>1. proc'[<<w, attempt>>] = proc[<<w, attempt>>] /\ step[w] = attempt
        BY <1>1, <1>3, <2>1, <2>3, <3>2
      <4>2. step' = step \/ p[2] = attempt
        BY <2>1
      <4> QED
        BY <1>0, <4>1, <4>2 DEF TypeOK
    <3> QED
      BY <3>1, <3>2
  <2> QED
    BY <2>2, <2>3
<1>4. ASSUME Towards(Past)', NEW w \in Workers
      PROVE  proc'[<<w, attempt'>>] \in {"ok", "idled"}
  <2>1. Towards(Past) /\ attempt # 0
    BY <1>4 DEF Towards, Saving, BuildInv, Past, Dispatched
  <2>2. proc[<<w, attempt>>] \in {"ok", "idled"}
    BY <2>1 DEF BuildInv, Past
  <2>3. p # <<w, attempt>> /\ <<w, attempt>> \in Procs
    BY <1>1, <2>1, <2>2
  <2> QED
    BY <2>2, <2>3
<1>5. ASSUME Towards(Gated)', NEW w \in Workers
      PROVE  step'[w] # 0
  <2>1. Towards(Gated)
    BY <1>5 DEF Towards, Saving
  <2>2. step[w] # 0
    BY <2>1 DEF BuildInv, Gated
  <2> QED
    BY <1>0, <2>2 DEF TypeOK
<1> QED
  BY <1>2, <1>3, <1>4, <1>5 DEF BuildInv, Past, Gated, Dispatched

LEMMA BuildStep ==
  ASSUME TypeOK, SaveInv, BuildInv, [Next]_vars
  PROVE  BuildInv'
<1> USE DEF Towards, Saving, Dispatched, Past, Gated
<1>1. CASE SaveSpec \/ SaveState \/ SaveEdited \/ EndSession \/ GateG4 \/ Crash
  <2>0. UNCHANGED buildVars
    BY <1>1 DEF SaveSpec, SaveState, SaveEdited, EndSession, GateG4, Crash
  <2>1. CASE Off
    BY <2>0, <2>1, OffStep
  <2>2. CASE ~Off
    <3>1. /\ Towards(Dispatched)' => Towards(Dispatched)
          /\ Towards(Past)' => Towards(Past)
          /\ Towards(Gated)' => Towards(Gated) \/ \A w \in Workers : step[w] # 0
          /\ UNCHANGED proc
      BY <1>1, <2>2 DEF SaveSpec, SaveState, SaveEdited, EndSession, GateG4, Crash, Goto, SaveInv
    <3> QED
      BY <2>0, <3>1, DriverStep
  <2> QED
    BY <2>1, <2>2
<1>2. CASE \/ \E k \in {"takeSpec", "session"} : NewRun(k)
           \/ StartSession
           \/ \E s \in Edited(mem.status) : SessionEdits(s) \/ TakeSpec(s)
  <2>1. /\ ~Towards(Dispatched)' /\ ~Towards(Past)' /\ ~Towards(Gated)'
    BY <1>2 DEF NewRun, SaveThen, StartSession, Goto, SessionEdits, TakeSpec, EditThen
  <2> QED
    BY <1>2, <2>1, DriverStep DEF NewRun, StartSession, SessionEdits, TakeSpec
<1>3. ASSUME NEW to \in Status, SessionEnter(to)
      PROVE  BuildInv'
  <2>1. /\ ~Towards(Dispatched)' /\ ~Towards(Past)' /\ ~Towards(Gated)'
    BY <1>3 DEF SessionEnter, Enter, SaveThen
  <2> QED
    BY <1>3, <2>1, DriverStep DEF SessionEnter
<1>4. CASE \/ \E s \in Subsystems, c \in Codes : RecordFailure(s, c)
           \/ \E s \in Edited(specFile.status) : EditByHand(s)
           \/ UNCHANGED vars
  <2>1. UNCHANGED <<pc, cont, proc, buildVars>>
    BY <1>4 DEF RecordFailure, EditByHand, vars
  <2> QED
    BY <2>1, DriverStep
<1>5. CASE Resume
  <2>1. /\ attempt' = attempt + 1 /\ attempt' \in 1..MaxAttempts
        /\ UNCHANGED <<proc, step>>
    BY <1>5, AttemptsAssumption DEF Resume, TypeOK
  <2>2. ~Towards(Past)' /\ ~Towards(Gated)'
    BY <1>5 DEF Resume, SaveThen
  <2>3. attempt' \notin clashed' => \A p \in Procs : ~Alive(p)
    BY <1>5 DEF Resume
  <2>4. \A w \in Workers : proc[<<w, attempt'>>] = "none"
    BY <2>1, AttemptsAssumption DEF TypeOK, Procs
  <2> QED
    BY <2>1, <2>2, <2>3, <2>4 DEF BuildInv, Alive
<1>6. ASSUME NEW w \in Workers, Launch(w) \/ TimeOut(w)
      PROVE  BuildInv'
  <2> DEFINE p == <<w, attempt>>
  <2>1. p \in Procs /\ ~Towards(Past) /\ p[2] = attempt
    BY <1>6 DEF Launch, TimeOut, BuildInv, Procs
  <2>2. /\ proc[p] \notin {"ok", "idled"} /\ proc'[p] \in {"ran", "failed"} /\ step' = step
        /\ \A q \in Procs : q # p => proc'[q] = proc[q]
        /\ UNCHANGED <<pc, cont, attempt, clashed>>
    BY <1>6, <2>1 DEF Launch, TimeOut, TypeOK, Alive
  <2> QED
    BY <2>1, <2>2, WorkerStep DEF Alive
<1>7. CASE Assess
  <2>1. Towards(Dispatched) /\ UNCHANGED <<proc, buildVars>> /\ ~Towards(Gated)'
    BY <1>7 DEF Assess, Enter, SaveThen
  <2>2. Towards(Past)' => \A w \in Workers : proc[<<w, attempt>>] \in {"ok", "idled"}
    BY <1>7 DEF Assess, Enter, SaveThen, Results
  <2> QED
    BY <2>1, <2>2, DriverStep
<1>9. CASE GateG5 \/ GateG6 \/ GateG7
  <2>1. Towards(Dispatched) /\ Towards(Past) /\ Towards(Gated) /\ UNCHANGED <<proc, buildVars>>
    BY <1>9 DEF GateG5, GateG6, GateG7
  <2> QED
    BY <2>1, DriverStep
<1>10. ASSUME NEW p \in Procs, Writes(p)
       PROVE  BuildInv'
  <2>1. p[1] \in Workers /\ p[2] \in 1..MaxAttempts /\ p = <<p[1], p[2]>>
    BY DEF Procs
  <2>2. /\ proc[p] = "ran" /\ proc'[p] = "wrote" /\ step'[p[1]] = p[2]
        /\ step' = [step EXCEPT ![p[1]] = p[2]]
        /\ \A q \in Procs : q # p => proc'[q] = proc[q]
        /\ UNCHANGED <<pc, cont, attempt, clashed>>
    BY <1>10, <2>1 DEF Writes, TypeOK
  <2>3. Towards(Past) => p[2] # attempt
    BY <2>1, <2>2 DEF BuildInv
  <2> QED
    BY <2>1, <2>2, <2>3, WorkerStep DEF Alive
<1>11. ASSUME NEW p \in Procs, Exits(p)
       PROVE  BuildInv'
  <2>1. p[1] \in Workers /\ p[2] \in 1..MaxAttempts /\ p = <<p[1], p[2]>>
    BY DEF Procs
  <2>2. /\ Alive(p) /\ proc'[p] \in {"ok", "idled", "failed", "none"}
        /\ proc'[p] = "ok" => proc[p] = "wrote"
        /\ step' = step
        /\ \A q \in Procs : q # p => proc'[q] = proc[q]
        /\ UNCHANGED <<pc, cont, attempt, clashed>>
    BY <1>11 DEF Exits, TypeOK
  <2>3. Towards(Past) => p[2] # attempt
    BY <2>1, <2>2 DEF BuildInv, Alive
  <2> QED
    BY <2>1, <2>2, <2>3, WorkerStep DEF Alive
<1> QED
  BY <1>1, <1>2, <1>3, <1>4, <1>5, <1>6, <1>7, <1>9, <1>10, <1>11 DEF Next

-----------------------------------------------------------------------------
(* The theorems.                                                           *)

LEMMA Invariance == Spec => []IInv
<1>1. IInv /\ [Next]_vars => IInv'
  BY TypeStep, SaveStep, CountStep, BuildStep DEF IInv
<1> QED
  BY InitInv, <1>1, PTL DEF Spec

\* Every reachable state of a run, its driver and its workers is well typed.
THEOREM TypeCorrect == Spec => []TypeOK
<1>1. IInv => TypeOK
  BY DEF IInv
<1> QED
  BY Invariance, <1>1, PTL

\* With no driver at work and none killed between two writes, spec.yaml and
\* state.json agree, however many sessions, commands and crashes there were, unless
\* other hands than a transition's have changed the spec's status since the last one:
\* its save puts right whatever edits and cut saves left.
THEOREM FilesInStep == Spec => []FilesAgree
<1>1. IInv => FilesAgree
  BY DEF IInv, SaveInv, FilesAgree
<1> QED
  BY Invariance, <1>1, PTL

\* A failure that exceeds its budget ends the run, for every budget and code.
THEOREM BudgetsEnd == Spec => []BudgetEndsRun
<1>1. IInv => BudgetEndsRun
  BY DEF IInv
<1> QED
  BY Invariance, <1>1, PTL

\* A run whose dispatch no older worker overlapped goes on with its own STEP files.
THEOREM ReleasesOwn == Spec => []ReleasesThisBuild
<1>1. ASSUME IInv PROVE ReleasesThisBuild
  <2>1. SUFFICES ASSUME pc \in {"g5", "g6", "g7"}, attempt \notin clashed, NEW w \in Workers
                 PROVE  \/ step[w] = attempt
                        \/ step[w] # 0 /\ proc[<<w, attempt>>] = "idled"
    BY DEF ReleasesThisBuild
  <2>2. /\ attempt # 0 /\ step[w] # 0 /\ proc[<<w, attempt>>] \in {"ok", "idled"}
        /\ proc[<<w, attempt>>] = "ok" => step[w] = attempt
    BY <1>1, <2>1 DEF IInv, BuildInv, Towards, Dispatched
  <2> QED
    BY <2>2
<1> QED
  BY Invariance, <1>1, PTL

-----------------------------------------------------------------------------
(* The life cycle.                                                         *)

\* RunLifecycle's two variables, as OrchestratorRun maps them.
Current == IF pc = "off" THEN Loaded.current ELSE mem.current
Saved == Loaded.current

LEMMA SavedIsFile ==
  ASSUME SaveInv
  PROVE  Saved = stateFile.current
BY DEF Saved, Loaded, SaveInv

LEMMA LifecycleStep ==
  ASSUME IInv, IInv', [Next]_vars
  PROVE  [Lifecycle!Next]_<<Current, Saved>>
<1>0. /\ Saved = stateFile.current /\ Saved' = stateFile'.current
      /\ pc = "off" => Current = stateFile.current
      /\ pc # "off" => Current = mem.current
      /\ pc' = "off" => Current' = stateFile'.current
      /\ pc' # "off" => Current' = mem'.current
  BY SavedIsFile DEF IInv, Current, Saved, SaveInv, Loaded
<1>a. ASSUME Saved' = Saved, Current' = Current \/ Current' = Saved
      PROVE  [Lifecycle!Next]_<<Current, Saved>>
  BY <1>a DEF Lifecycle!Next, Lifecycle!Lose, Current, Saved
<1>b. ASSUME NEW to \in Status, Saved' = Saved, Current' = to, CanStep(Current, to)
      PROVE  [Lifecycle!Next]_<<Current, Saved>>
  BY <1>b DEF Lifecycle!Next, Lifecycle!Move, Current, Saved, Lifecycle!CanStep, CanStep,
              Lifecycle!Steps, Steps, Lifecycle!Final, Final, Lifecycle!Status, Status
<1>c. ASSUME Saved' = Current, Current' = Current
      PROVE  [Lifecycle!Next]_<<Current, Saved>>
  BY <1>c DEF Lifecycle!Next, Lifecycle!Save, Current, Saved
<1>1. CASE SaveSpec \/ SaveEdited
  BY <1>0, <1>1, <1>a DEF SaveSpec, SaveEdited, Off, Goto, IInv, SaveInv
<1>2. CASE SaveState
  BY <1>0, <1>2, <1>c DEF SaveState, Goto, Off
<1>3. CASE \E k \in {"takeSpec", "session"} : NewRun(k)
  <2>1. pc = "off" /\ Current = Saved /\ Current' = "draft" /\ Saved' = Saved
    BY <1>0, <1>3, FreshType DEF NewRun, SaveThen, fileVars
  <2> QED
    BY <2>1 DEF Lifecycle!Next, Lifecycle!Restart, Current, Saved
<1>4. CASE StartSession
  BY <1>0, <1>4, <1>a DEF StartSession, Goto, fileVars, Saved
<1>5. ASSUME NEW to \in Status, SessionEnter(to)
      PROVE  [Lifecycle!Next]_<<Current, Saved>>
  <2>1. /\ CanStep(mem.current, to) /\ mem'.current = to
        /\ pc = "session" /\ pc' = "saveSpec" /\ stateFile' = stateFile
    BY <1>5 DEF SessionEnter, Enter, SaveThen, fileVars, IInv, TypeOK
  <2> QED
    BY <1>0, <1>b, <2>1
<1>6. CASE \E s \in Edited(mem.status) : SessionEdits(s) \/ TakeSpec(s)
  BY <1>0, <1>6, <1>a DEF SessionEdits, TakeSpec, EditThen, fileVars, IInv, TypeOK
<1>7. ASSUME NEW s \in Subsystems, NEW c \in Codes, RecordFailure(s, c)
      PROVE  [Lifecycle!Next]_<<Current, Saved>>
  <2>1. /\ pc = "session" /\ pc' = pc /\ stateFile' = stateFile
        /\ \/ mem' = mem
           \/ \E to \in Status : CanStep(mem.current, to) /\ mem'.current = to
    BY <1>7, RetryTargetType, StatusFacts DEF RecordFailure, fileVars, IInv, TypeOK
  <2> QED
    BY <1>0, <1>a, <1>b, <2>1
<1>8. CASE EndSession \/ Crash
  <2>1. pc' = "off" /\ stateFile'.current = stateFile.current
    BY <1>8 DEF EndSession, Crash, Off, fileVars, IInv, TypeOK
  <2> QED
    BY <1>0, <1>a, <2>1
<1>9. CASE \E s \in Edited(specFile.status) : EditByHand(s)
  <2>1. pc = "off" /\ pc' = "off" /\ stateFile'.current = stateFile.current
    BY <1>9 DEF EditByHand
  <2> QED
    BY <1>0, <1>a, <2>1
<1>10. CASE Resume
  <2>1. /\ CanStep(Saved, "building") /\ mem'.current = "building"
        /\ pc = "off" /\ pc' = "saveSpec" /\ stateFile' = stateFile
    BY <1>10, LoadedType DEF Resume, SaveThen, fileVars, IInv, Saved
  <2> QED
    BY <1>0, <1>b, <2>1, StatusFacts
<1>11. CASE Assess \/ GateG5 \/ GateG6 \/ GateG7
  <2>1. \E to \in Status : CanStep(mem.current, to) /\ mem'.current = to
    BY <1>11, StatusFacts DEF Assess, GateG5, GateG6, GateG7, Enter, IInv, TypeOK
  <2>2. pc # "off" /\ pc' = "saveSpec" /\ stateFile' = stateFile
    BY <1>11 DEF Assess, GateG5, GateG6, GateG7, Enter, SaveThen, fileVars
  <2> QED
    BY <1>0, <1>b, <2>1, <2>2
<1>12. CASE GateG4
  BY <1>0, <1>12, <1>a DEF GateG4, Goto, Off, fileVars
<1>13. CASE \/ \E w \in Workers : Launch(w) \/ TimeOut(w)
            \/ \E p \in Procs : Writes(p) \/ Exits(p)
            \/ UNCHANGED vars
  <2>1. UNCHANGED <<pc, mem, fileVars>>
    BY <1>13 DEF Launch, TimeOut, Writes, Exits, vars
  <2> QED
    BY <1>0, <1>a, <2>1 DEF fileVars
<1> QED
  BY <1>1, <1>2, <1>3, <1>4, <1>5, <1>6, <1>7, <1>8, <1>9, <1>10, <1>11, <1>12, <1>13
     DEF Next

\* Every behaviour of the files and their drivers, crashes included, is one of the
\* abstract life cycle: the table's steps, a save, the loss of unsaved steps, or a
\* new run over the old one.
THEOREM RunRefinement == Spec => KeepsLifecycle
<1>1. Init => Lifecycle!Init
  BY FreshType DEF Init, Lifecycle!Init, Loaded
<1>2. IInv /\ IInv' /\ [Next]_vars => [Lifecycle!Next]_<<Current, Saved>>
  BY LifecycleStep
<1> QED
  BY <1>1, <1>2, Invariance, PTL DEF Spec, KeepsLifecycle, Lifecycle!Spec, Current, Saved

\* A driver of a run that is over on disk is in that final state, but for init_run
\* between its two files.
EndInv ==
  pc # "off" /\ stateFile.current \in Final =>
    mem.current = stateFile.current \/ (Saving /\ mem.current = "draft")

EndKept == stateFile.current \in Final => stateFile'.current \in {stateFile.current, "draft"}

LEMMA EndStep ==
  ASSUME IInv, EndInv, [Next]_vars
  PROVE  EndInv' /\ EndKept
<1> USE DEF EndInv, EndKept, Saving
<1>0. ASSUME pc # "off", ~Saving, stateFile.current \in Final
      PROVE  mem.current \in Final /\ \A to : ~CanStep(mem.current, to)
  BY <1>0, EndsAreFinal
<1>1. CASE SaveSpec
  BY <1>1 DEF SaveSpec, Goto
<1>2. CASE SaveState
  <2>1. pc = "saveState" /\ stateFile'.current = mem.current /\ (pc' = "off" \/ mem' = mem)
    BY <1>2 DEF SaveState, Off, Goto
  <2> QED
    BY <2>1
<1>3. CASE SaveEdited \/ GateG4
  <2>1. /\ ~Saving /\ pc # "off" /\ stateFile' = stateFile
        /\ pc' = "off" \/ mem' = mem
    BY <1>3 DEF SaveEdited, GateG4, Off, Goto, fileVars
  <2> QED
    BY <2>1
<1>4. CASE \E k \in {"takeSpec", "session"} : NewRun(k)
  BY <1>4, FreshType DEF NewRun, SaveThen, fileVars
<1>5. CASE StartSession
  <2>1. stateFile' = stateFile /\ mem'.current = stateFile.current
    BY <1>5, SavedIsFile DEF StartSession, fileVars, IInv, Saved
  <2> QED
    BY <2>1
<1>6. CASE \E s \in Edited(mem.status) : SessionEdits(s) \/ TakeSpec(s)
  <2>1. /\ ~Saving /\ pc # "off" /\ stateFile' = stateFile /\ mem'.current = mem.current
    BY <1>6 DEF SessionEdits, TakeSpec, EditThen, fileVars, IInv, TypeOK
  <2> QED
    BY <2>1
<1>7. CASE \/ \E to \in Status : SessionEnter(to)
           \/ Assess \/ GateG5 \/ GateG6 \/ GateG7
  <2>1. /\ ~Saving /\ pc # "off" /\ stateFile' = stateFile
        /\ \E to \in Status : CanStep(mem.current, to)
    BY <1>7, StatusFacts DEF SessionEnter, Assess, GateG5, GateG6, GateG7, Enter, fileVars
  <2> QED
    BY <1>0, <2>1
<1>8. CASE \E s \in Subsystems, c \in Codes : RecordFailure(s, c)
  <2>1. /\ ~Saving /\ pc # "off" /\ stateFile' = stateFile
        /\ mem' = mem \/ \E to : CanStep(mem.current, to)
    BY <1>8 DEF RecordFailure, fileVars
  <2> QED
    BY <1>0, <2>1
<1>9. CASE EndSession \/ Crash
  <2>1. pc' = "off" /\ stateFile'.current = stateFile.current
    BY <1>9 DEF EndSession, Crash, Off, fileVars, IInv, TypeOK
  <2> QED
    BY <2>1
<1>10. CASE Resume
  <2>1. stateFile' = stateFile /\ CanStep(stateFile.current, "building")
    BY <1>10, SavedIsFile DEF Resume, fileVars, IInv, Saved
  <2> QED
    BY <2>1, EndsAreFinal
<1>11. CASE \/ \E s \in Edited(specFile.status) : EditByHand(s)
            \/ \E w \in Workers : Launch(w) \/ TimeOut(w)
            \/ \E p \in Procs : Writes(p) \/ Exits(p)
            \/ UNCHANGED vars
  <2>1. UNCHANGED <<pc, mem, stateFile>>
    BY <1>11 DEF EditByHand, Launch, TimeOut, Writes, Exits, vars, fileVars
  <2> QED
    BY <2>1
<1> QED
  BY <1>1, <1>2, <1>3, <1>4, <1>5, <1>6, <1>7, <1>8, <1>9, <1>10, <1>11 DEF Next

\* What no driver can undo: a run whose end is on disk stays ended, because whoever
\* drives it is in that same final state; only init_run in its directory makes it draft.
THEOREM EndsForGood ==
  Spec => [][(stateFile.current \in Final) => stateFile'.current \in {stateFile.current, "draft"}]_vars
<1>1. Init => EndInv
  BY DEF Init, EndInv
<1>2. IInv /\ EndInv /\ [Next]_vars => EndInv' /\ EndKept
  BY EndStep
<1>3. EndKept <=> ((stateFile.current \in Final) => stateFile'.current \in {stateFile.current, "draft"})
  BY DEF EndKept
<1> QED
  BY <1>1, <1>2, <1>3, Invariance, PTL DEF Spec
=============================================================================
