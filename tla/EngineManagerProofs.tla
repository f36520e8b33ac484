------------------------ MODULE EngineManagerProofs ------------------------
(***************************************************************************)
(* The engine manager, for any number of engines, processes and threads of *)
(* calls: it is well typed; it forgets no live process of an engine that   *)
(* no two calls were about at once, whatever signals, crashes and foreign  *)
(* listeners do; and a shutdown that no exception ends stops every process *)
(* it tracks.  Where two calls do meet (raced) both are false, because     *)
(* start_engine launches, and stop_engine drains, outside the lock; one    *)
(* thread of calls, which is what the MCP server has, never gets there.    *)
(***************************************************************************)
EXTENDS EngineManager, TLAPS

-----------------------------------------------------------------------------
(* Types, for any threads.                                                 *)

USE DEF histVars

Holding == {"spawned", "wait"} \cup StopLabels

\* The process a call works on was launched for the engine the call is about.
HoldInv(f) ==
  pc[f] \in Holding => owner[mine[f]] = arg[f] /\ proc[mine[f]] # "none"

TInv == TypeOK /\ \A f \in Frames : HoldInv(f)

LEMMA NoBackendType == NoBackend \in Backends
BY BackendsAssumption DEF NoBackend

LEMMA FrameFacts ==
  /\ Main \in Threads /\ Exit \notin Threads /\ Main # Exit
  /\ Main \in Frames /\ Exit \in Frames /\ Threads \subseteq Frames
BY ThreadsAssumption DEF Frames

LEMMA InitTypes == Init => TInv
<1> SUFFICES ASSUME Init PROVE TInv
  OBVIOUS
<1> USE NoBackendType, FrameFacts, ProcsAssumption DEF Init
<1>1. TypeOK
  <2>1. /\ status \in [Backends -> Status] /\ handle \in [Backends -> 0..MaxProcs]
        /\ proc \in [Procs -> ProcState] /\ owner \in [Procs -> Backends]
        /\ sent \in [Procs -> {"none", "term", "kill"}]
    BY DEF Status, ProcState
  <2>2. /\ pc \in [Frames -> Labels] /\ arg \in [Frames -> Backends] /\ mine \in [Frames -> 0..MaxProcs]
    BY DEF Labels
  <2>3. /\ \A b \in Backends : handle[b] = 0
        /\ \A f \in Frames : pc[f] = "idle"
    OBVIOUS
  <2> QED
    BY <2>1, <2>2, <2>3 DEF TypeOK, StopLabels
<1>2. \A f \in Frames : HoldInv(f)
  BY DEF HoldInv, Holding, StopLabels
<1> QED
  BY <1>1, <1>2 DEF TInv

\* What a section of stop_engine leaves of the types.
LEMMA StopSectionTypes ==
  ASSUME TInv, NEW f \in Frames, NEW b \in Backends, StopSection(f, b), pc[f] = "idle",
         UNCHANGED exitVars \/ (UNCHANGED <<server, aborted>> /\ todo' \subseteq Backends),
         raced' \subseteq Backends
  PROVE  TInv'
<1>0. /\ TypeOK /\ raced' \subseteq Backends
      /\ UNCHANGED <<proc, owner, sent, lost, server, aborted>> /\ todo' \subseteq Backends
  BY DEF StopSection, TInv, TypeOK, exitVars
<1>1. CASE UNCHANGED <<handle, external, pc, arg, mine>> /\ status' = status
  BY <1>0, <1>1 DEF TInv, TypeOK, HoldInv
<1>2. CASE /\ status' = [status EXCEPT ![b] = "stopped"]
           /\ handle' = [handle EXCEPT ![b] = 0]
           /\ UNCHANGED <<external, pc, arg, mine>>
  BY <1>0, <1>2, ProcsAssumption DEF TInv, TypeOK, HoldInv, Status
<1>3. CASE /\ handle[b] # 0
           /\ status' = [status EXCEPT ![b] = "draining"]
           /\ arg' = [arg EXCEPT ![f] = b]
           /\ mine' = [mine EXCEPT ![f] = handle[b]]
           /\ external' \in {external, external \ {b}}
           /\ Goto(f, "drain")
           /\ UNCHANGED handle
  <2>1. /\ pc' \in [Frames -> Labels] /\ status' \in [Backends -> Status]
        /\ arg' \in [Frames -> Backends] /\ mine' \in [Frames -> 0..MaxProcs]
        /\ external' \subseteq Backends
        /\ pc'[Exit] \in {"idle"} \cup StopLabels
    BY <1>0, <1>3, FrameFacts DEF TypeOK, Goto, Labels, StopLabels, Status
  <2>2. \A g \in Frames : pc'[g] \in Holding =>
          mine'[g] # 0 /\ owner[mine'[g]] = arg'[g] /\ proc[mine'[g]] # "none"
    BY <1>0, <1>3 DEF TInv, TypeOK, HoldInv, Goto, Holding
  <2> QED
    BY <1>0, <1>3, <2>1, <2>2 DEF TInv, TypeOK, HoldInv, Holding
<1> QED
  BY <1>1, <1>2, <1>3 DEF StopSection

\* A step that keeps the records and moves one call to a label where it holds no more
\* than it did.
LEMMA MoveTypes ==
  ASSUME TInv, NEW f \in Frames, NEW l \in Labels, Goto(f, l),
         f = Exit => l \in {"idle"} \cup StopLabels,
         l \in Holding => pc[f] \in Holding,
         UNCHANGED <<status, handle, proc, owner, external, arg, mine, exitVars, histVars>>,
         sent' \in [Procs -> {"none", "term", "kill"}]
  PROVE  TInv'
<1>1. pc' = [pc EXCEPT ![f] = l] /\ TypeOK
  BY DEF Goto, TInv
<1>2. pc' \in [Frames -> Labels] /\ pc'[Exit] \in {"idle"} \cup StopLabels
  BY <1>1, FrameFacts DEF TypeOK
<1>3. \A g \in Frames : pc'[g] \in Holding => pc[g] \in Holding
  BY <1>1 DEF TypeOK
<1>4. TypeOK'
  BY <1>1, <1>2, <1>3 DEF TypeOK, Holding, exitVars
<1> QED
  BY <1>3, <1>4 DEF TInv, HoldInv

\* The end of a call.
LEMMA ReturnTypes ==
  ASSUME TInv, NEW f \in Frames, Return(f),
         status' \in [Backends -> Status], handle' \in [Backends -> 0..MaxProcs],
         \A b \in Backends : handle'[b] # 0 => handle'[b] = handle[b],
         server' \in {"up", "handler", "atexit", "gone"}, todo' \subseteq Backends,
         aborted' \in BOOLEAN, UNCHANGED <<procVars, histVars>>
  PROVE  TInv'
<1>1. /\ TypeOK /\ pc' = [pc EXCEPT ![f] = "idle"]
      /\ arg' = [arg EXCEPT ![f] = NoBackend] /\ mine' = [mine EXCEPT ![f] = 0]
  BY DEF Return, TInv
<1>2. /\ pc' \in [Frames -> Labels] /\ arg' \in [Frames -> Backends] /\ mine' \in [Frames -> 0..MaxProcs]
      /\ pc'[Exit] \in {"idle"} \cup StopLabels
  BY <1>1, NoBackendType, FrameFacts, ProcsAssumption DEF TypeOK, Labels
<1>3. \A g \in Frames : pc'[g] \in Holding => g # f /\ pc[g] \in Holding
  BY <1>1 DEF TypeOK, Holding, StopLabels
<1>4. \A g \in Frames : pc'[g] \in Holding =>
        mine'[g] # 0 /\ mine'[g] = mine[g] /\ arg'[g] = arg[g]
  BY <1>1, <1>3 DEF TypeOK, Holding
<1>5. TypeOK'
  BY <1>1, <1>2, <1>4 DEF TypeOK, Holding, procVars
<1> QED
  BY <1>3, <1>4, <1>5 DEF TInv, HoldInv, procVars

LEMMA RacedType ==
  ASSUME TypeOK, NEW f, NEW b \in Backends, NoteRace(f, b)
  PROVE  raced' \subseteq Backends
BY DEF NoteRace, TypeOK

LEMMA TypeStep ==
  ASSUME TInv, [Next]_vars
  PROVE  TInv'
<1> USE FrameFacts, ProcsAssumption
<1>0. TypeOK
  BY DEF TInv
<1>1. ASSUME NEW t \in Threads, NEW b \in Backends, StartBegin(t, b)
      PROVE  TInv'
  <2>1. /\ status' \in [Backends -> Status] /\ arg' \in [Frames -> Backends]
        /\ UNCHANGED <<handle, procVars, mine, exitVars, lost>> /\ raced' \subseteq Backends
    BY <1>0, <1>1, RacedType DEF StartBegin, TypeOK, Status
  <2>2. /\ pc' \in [Frames -> Labels] /\ pc'[Exit] = pc[Exit]
        /\ \A g \in Frames : pc'[g] \in Holding => pc[g] \in Holding /\ arg'[g] = arg[g]
    BY <1>0, <1>1 DEF StartBegin, Goto, TypeOK, Labels, Holding, StopLabels
  <2>3. TypeOK'
    BY <1>0, <2>1, <2>2 DEF TypeOK, Holding, procVars, exitVars
  <2> QED
    BY <2>1, <2>2, <2>3 DEF TInv, HoldInv, procVars
<1>2. ASSUME NEW t \in Threads, Launch(t)
      PROVE  TInv'
  <2>1. PICK p \in Procs :
          /\ proc[p] = "none"
          /\ proc' = [proc EXCEPT ![p] = "silent"]
          /\ owner' = [owner EXCEPT ![p] = arg[t]]
          /\ mine' = [mine EXCEPT ![t] = p]
    BY <1>2 DEF Launch
  <2>2. /\ pc' = [pc EXCEPT ![t] = "spawned"] /\ t # Exit
        /\ UNCHANGED <<status, handle, sent, external, arg, exitVars, histVars>>
    BY <1>2 DEF Launch, Goto
  <2>3. /\ proc' \in [Procs -> ProcState] /\ owner' \in [Procs -> Backends]
        /\ mine' \in [Frames -> 0..MaxProcs] /\ mine'[t] = p /\ p # 0
        /\ pc' \in [Frames -> Labels] /\ pc'[Exit] = pc[Exit]
    BY <1>0, <2>1, <2>2 DEF TypeOK, ProcState, Labels, Procs
  <2>4. \A q \in Procs : proc[q] # "none" => owner'[q] = owner[q] /\ proc'[q] # "none"
    BY <1>0, <2>1 DEF TypeOK
  <2>5. \A q \in 0..MaxProcs : q # 0 => q \in Procs
    BY DEF Procs
  <2>6. \A b \in Backends : handle'[b] # 0 => owner'[handle'[b]] = b /\ proc'[handle'[b]] # "none"
    BY <1>0, <2>2, <2>4, <2>5 DEF TypeOK
  <2>7. ASSUME NEW g \in Frames, pc'[g] \in Holding
        PROVE  mine'[g] # 0 /\ owner'[mine'[g]] = arg'[g] /\ proc'[mine'[g]] # "none"
    <3>1. CASE g = t
      BY <1>0, <2>1, <2>2, <2>3, <3>1 DEF TypeOK
    <3>2. CASE g # t
      <4>1. pc[g] \in Holding /\ mine'[g] = mine[g] /\ arg'[g] = arg[g]
        BY <1>0, <2>1, <2>2, <2>7, <3>2 DEF TypeOK
      <4>2. mine[g] # 0 /\ mine[g] \in 0..MaxProcs
        BY <1>0, <4>1 DEF TypeOK, Holding
      <4> QED
        BY <2>4, <2>5, <4>1, <4>2 DEF TInv, HoldInv
    <3> QED
      BY <3>1, <3>2
  <2> QED
    BY <1>0, <2>2, <2>3, <2>6, <2>7 DEF TInv, TypeOK, HoldInv, Holding, exitVars
<1>3. ASSUME NEW t \in Threads, LaunchFails(t)
      PROVE  TInv'
  BY <1>0, <1>3, MoveTypes DEF LaunchFails, Labels, Holding, StopLabels, TypeOK, procVars
<1>4. ASSUME NEW t \in Threads, Record(t)
      PROVE  TInv'
  <2>1. /\ pc[t] = "spawned" /\ mine[t] # 0 /\ mine[t] \in 0..MaxProcs /\ arg[t] \in Backends
        /\ owner[mine[t]] = arg[t] /\ proc[mine[t]] # "none"
    BY <1>0, <1>4 DEF Record, TInv, TypeOK, HoldInv, Holding
  <2>2. /\ handle' = [handle EXCEPT ![arg[t]] = mine[t]] /\ pc' = [pc EXCEPT ![t] = "wait"]
        /\ lost' \subseteq Procs /\ t # Exit
        /\ UNCHANGED <<status, procVars, arg, mine, exitVars, raced>>
    BY <1>0, <1>4 DEF Record, Goto, TypeOK
  <2>3. /\ handle' \in [Backends -> 0..MaxProcs] /\ pc' \in [Frames -> Labels]
        /\ \A b \in Backends : handle'[b] # 0 => owner[handle'[b]] = b /\ proc[handle'[b]] # "none"
        /\ \A g \in Frames : pc'[g] \in Holding => pc[g] \in Holding
        /\ pc'[Exit] = pc[Exit]
    BY <1>0, <2>1, <2>2 DEF TypeOK, Labels, Holding
  <2> QED
    BY <1>0, <2>2, <2>3 DEF TInv, TypeOK, HoldInv, Holding, procVars, exitVars
<1>5. ASSUME NEW t \in Threads, AwaitReady(t)
      PROVE  TInv'
  <2>1. \E l \in {"started", "startFailed"} : Goto(t, l)
    BY <1>5 DEF AwaitReady
  <2>2. sent' \in [Procs -> {"none", "term", "kill"}]
    BY <1>0, <1>5 DEF AwaitReady, TypeOK
  <2> QED
    BY <1>5, <2>1, <2>2, MoveTypes DEF AwaitReady, Labels, Holding, StopLabels
<1>6. ASSUME NEW t \in Threads, StartEnd(t)
      PROVE  TInv'
  <2>1. status' \in [Backends -> Status]
    BY <1>0, <1>6 DEF StartEnd, TypeOK, Status
  <2>2. UNCHANGED <<handle, procVars, exitVars, histVars>> /\ Return(t) /\ t \in Frames
    BY <1>6 DEF StartEnd
  <2> QED
    BY <1>0, <2>1, <2>2, ReturnTypes DEF TypeOK, exitVars
<1>7. ASSUME NEW t \in Threads, NEW b \in Backends, StopBegin(t, b)
      PROVE  TInv'
  BY <1>0, <1>7, RacedType, StopSectionTypes DEF StopBegin
<1>8. ASSUME NEW f \in Frames, Waited(f)
      PROVE  TInv'
  BY <1>0, <1>8, MoveTypes DEF Waited, Labels, Holding, StopLabels, TypeOK, procVars
<1>9. ASSUME NEW f \in Frames, Escalate(f)
      PROVE  TInv'
  <2>1. \E l \in {"term", "kill"} : Goto(f, l)
    BY <1>9 DEF Escalate
  <2>2. sent' \in [Procs -> {"none", "term", "kill"}]
    BY <1>0, <1>9 DEF Escalate, TypeOK
  <2> QED
    BY <1>9, <2>1, <2>2, MoveTypes DEF Escalate, Labels, Holding, StopLabels
<1>10. ASSUME NEW f \in Frames, StopEnd(f)
       PROVE  TInv'
  <2>1. /\ status' \in [Backends -> Status] /\ handle' \in [Backends -> 0..MaxProcs]
        /\ \A b \in Backends : handle'[b] # 0 => handle'[b] = handle[b]
    BY <1>0, <1>10 DEF StopEnd, TypeOK, Status
  <2>2. UNCHANGED <<procVars, exitVars, histVars>> /\ Return(f)
    BY <1>10 DEF StopEnd
  <2> QED
    BY <1>0, <2>1, <2>2, ReturnTypes DEF TypeOK, exitVars
<1>11. ASSUME NEW f \in Frames, StopRaises(f)
       PROVE  TInv'
  <2>1. CASE Return(f) /\ lost' = lost
    BY <1>0, <1>11, <2>1, ReturnTypes DEF StopRaises, TypeOK, exitVars
  <2>2. CASE /\ f = Exit
             /\ server' = "up" /\ todo' = {}
             /\ pc' = [pc EXCEPT ![f] = "idle", ![Main] = "idle"]
             /\ arg' = [arg EXCEPT ![f] = NoBackend, ![Main] = NoBackend]
             /\ mine' = [mine EXCEPT ![f] = 0, ![Main] = 0]
             /\ lost' = lost \cup {p \in Procs : pc[Main] = "spawned" /\ p = mine[Main]}
             /\ UNCHANGED aborted
    <3>1. UNCHANGED <<status, handle, procVars, raced>>
      BY <1>11 DEF StopRaises
    <3>2. /\ pc' \in [Frames -> Labels] /\ arg' \in [Frames -> Backends]
          /\ mine' \in [Frames -> 0..MaxProcs] /\ lost' \subseteq Procs
          /\ pc'[Exit] = "idle" /\ pc'[Main] = "idle"
      BY <1>0, <2>2, NoBackendType DEF TypeOK, Labels
    <3>3. \A g \in Frames : pc'[g] \in Holding =>
            pc[g] \in Holding /\ arg'[g] = arg[g] /\ mine'[g] = mine[g]
      BY <1>0, <2>2, <3>2 DEF TypeOK, Holding, StopLabels
    <3> QED
      BY <1>0, <2>2, <3>1, <3>2, <3>3 DEF TInv, TypeOK, HoldInv, Holding, procVars
  <2> QED
    BY <1>11, <2>1, <2>2 DEF StopRaises
<1>12. CASE Signal \/ EndOfInput \/ ShutdownEnd
  <2>1. /\ UNCHANGED <<status, handle, procVars, pc, arg, mine, aborted, histVars>>
        /\ server' \in {"up", "handler", "atexit", "gone"} /\ todo' \subseteq Backends
    BY <1>0, <1>12 DEF Signal, EndOfInput, ShutdownEnd, TypeOK
  <2> QED
    BY <1>0, <2>1 DEF TInv, TypeOK, HoldInv, procVars
<1>13. ASSUME NEW b \in Backends, ShutdownNext(b)
       PROVE  TInv'
  BY <1>0, <1>13, RacedType, StopSectionTypes DEF ShutdownNext, TypeOK
<1>14. CASE NoticeCrash
  <2>1. status' \in [Backends -> Status]
    BY <1>0, <1>14 DEF NoticeCrash, TypeOK, Status
  <2> QED
    BY <1>0, <1>14, <2>1 DEF NoticeCrash, TInv, TypeOK, HoldInv, procVars, exitVars
<1>15. ASSUME NEW p \in Procs, ProcReady(p) \/ ProcDeaf(p) \/ ProcDies(p)
       PROVE  TInv'
  <2>1. /\ proc' \in [Procs -> ProcState]
        /\ \A q \in Procs : proc[q] # "none" => proc'[q] # "none"
        /\ UNCHANGED <<status, handle, owner, sent, external, pc, arg, mine, exitVars, histVars>>
    BY <1>0, <1>15 DEF ProcReady, ProcDeaf, ProcDies, TypeOK, ProcState
  <2>2. \A q \in 0..MaxProcs : q # 0 => q \in Procs
    BY DEF Procs
  <2>3. TypeOK'
    BY <1>0, <2>1, <2>2 DEF TypeOK, exitVars
  <2>4. \A f \in Frames : pc[f] \in Holding => mine[f] \in Procs
    BY <1>0, <2>2 DEF TypeOK, Holding
  <2> QED
    BY <2>1, <2>3, <2>4 DEF TInv, HoldInv
<1>16. ASSUME NEW b \in Backends, ExternalChanges(b)
       PROVE  TInv'
  <2>1. external' \subseteq Backends
    BY <1>0, <1>16 DEF ExternalChanges, TypeOK
  <2> QED
    BY <1>0, <1>16, <2>1 DEF ExternalChanges, TInv, TypeOK, HoldInv, exitVars
<1>17. CASE UNCHANGED vars
  BY <1>0, <1>17 DEF vars, TInv, TypeOK, HoldInv, procVars, exitVars
<1> QED
  BY <1>1, <1>2, <1>3, <1>4, <1>5, <1>6, <1>7, <1>8, <1>9, <1>10, <1>11, <1>12, <1>13, <1>14,
     <1>15, <1>16, <1>17 DEF Next, CallStep, StopStep, ExitStep

LEMMA Types == Spec => []TInv
BY InitTypes, TypeStep, PTL DEF Spec

\* Every reachable state is well typed, with any number of threads: a handle is of a
\* process that was launched for its engine, and a call that works on one has one.
THEOREM TypeCorrect == Spec => []TypeOK
<1>1. TInv => TypeOK
  BY DEF TInv
<1> QED
  BY Types, <1>1, PTL

-----------------------------------------------------------------------------
(* Calls that do not race, for any threads.                                *)

Starting == {"launch", "spawned", "wait", "started", "startFailed"}
Exiting == server \in {"handler", "atexit"}

\* The frame of f can still run: it is not under a signal handler.
Awake(f) == f = Main => server = "up"

\* Frame f is in a call about engine b.
Busy(f, b) == pc[f] # "idle" /\ arg[f] = b

\* Only a signal handler is in a call about an engine that another call is about.
AloneInv ==
  \A f, g \in Frames, b \in Backends \ raced :
    f # g /\ Busy(f, b) /\ Busy(g, b) => {f, g} = {Main, Exit}

\* What a stop works on is what the record holds, until it has died.
DrainInv(f) ==
  /\ pc[f] \in StopLabels /\ Awake(f) /\ arg[f] \notin raced => handle[arg[f]] = mine[f]
  /\ pc[f] = "stopEnd" => ~Alive(mine[f])

\* A record is stopped only when it holds nothing.
RecordInv ==
  /\ \A b \in Backends \ raced : status[b] = "stopped" => handle[b] = 0
  /\ \A t \in Threads : Awake(t) /\ pc[t] \in Starting /\ arg[t] \notin raced => status[arg[t]] # "stopped"

\* An engine shutdown_all is done with holds nothing, unless it is being drained, and
\* no thread but the interrupted one is in a call about it.
ExitInv ==
  /\ pc[Exit] # "idle" => Exiting
  /\ Exiting => \A b \in Backends \ (todo \cup raced) :
                  /\ handle[b] = 0 \/ Busy(Exit, b)
                  /\ \A t \in Threads \ {Main} : ~Busy(t, b)
  /\ server = "gone" /\ ~aborted =>
       \A b \in Backends \ raced : handle[b] = 0 /\ \A t \in Threads \ {Main} : ~Busy(t, b)

SInv ==
  /\ TInv
  /\ AloneInv
  /\ \A f \in Frames : DrainInv(f)
  /\ RecordInv
  /\ ExitInv
  /\ NothingForgotten

LEMMA InitSafe == Init => SInv
<1> SUFFICES ASSUME Init PROVE SInv
  OBVIOUS
<1>1. TInv
  BY InitTypes
<1>2. AloneInv /\ \A f \in Frames : DrainInv(f)
  BY DEF Init, DrainInv, AloneInv, Busy, StopLabels
<1>3. RecordInv
  BY FrameFacts DEF Init, RecordInv, Starting
<1>4. ExitInv
  BY FrameFacts DEF Init, ExitInv, Exiting
<1>5. NothingForgotten
  BY DEF Init, NothingForgotten, Alive
<1> QED
  BY <1>1, <1>2, <1>3, <1>4, <1>5 DEF SInv

\* A step of the world, or of a call under way, that leaves the records alone: what
\* matters of the calls can only come to an end.
LEMMA RecordsKept ==
  ASSUME SInv, TInv', UNCHANGED <<handle, server, todo, aborted, raced>>,
         \A b \in Backends : status'[b] = "stopped" => status[b] = "stopped",
         \A f \in Frames : /\ pc'[f] # "idle" => pc[f] # "idle" /\ arg'[f] = arg[f] /\ mine'[f] = mine[f]
                           /\ pc'[f] \in StopLabels => pc[f] \in StopLabels
                           /\ pc'[f] = "stopEnd" => pc[f] = "stopEnd" \/ ~Alive(mine[f])
                           /\ pc'[f] \in Starting => pc[f] \in Starting,
         pc'[Exit] = "idle" => pc[Exit] = "idle",
         \A p \in Procs : Alive(p)' => Alive(p),
         NothingForgotten'
  PROVE  SInv'
<1>1. /\ TypeOK /\ Main \in Frames /\ Exit \in Frames /\ Threads \subseteq Frames
      /\ AloneInv /\ RecordInv /\ ExitInv /\ \A f \in Frames : DrainInv(f)
  BY FrameFacts DEF SInv, TInv
<1>2. \A f \in Frames : DrainInv(f)'
  <2>1. \A f \in Frames : pc[f] \in StopLabels => mine[f] \in Procs
    BY <1>1, ProcsAssumption DEF TypeOK, Procs
  <2> QED
    BY <1>1, <2>1 DEF DrainInv, Awake, StopLabels
<1>3. \A f \in Frames, b \in Backends : Busy(f, b)' => Busy(f, b)
  BY DEF Busy
<1>4. AloneInv'
  BY <1>1, <1>3 DEF AloneInv
<1>5. RecordInv'
  BY <1>1 DEF RecordInv, Awake, Starting, TypeOK
<1>6. ExitInv'
  <2>1. \A b \in Backends : Busy(Exit, b) => Busy(Exit, b)'
    BY <1>1 DEF Busy
  <2> QED
    BY <1>1, <1>3, <2>1 DEF ExitInv, Exiting
<1> QED
  BY <1>2, <1>4, <1>5, <1>6 DEF SInv

\* Who is in a call about b as one begins that does not make b raced.
LEMMA NoRace ==
  ASSUME SInv, NEW f \in Frames, NEW b \in Backends, NoteRace(f, b),
         f \in Threads => server # "gone"
  PROVE  /\ raced \subseteq raced'
         /\ \A c \in Backends : c # b => (c \in raced' <=> c \in raced)
         /\ b \notin raced' =>
              /\ b \notin raced
              /\ f # Exit => server = "up" /\ pc[Exit] = "idle"
              /\ \A g \in Frames \ {f} : Busy(g, b) => f = Exit /\ g = Main
BY DEF NoteRace, Races, Busy, SInv, ExitInv, Exiting

\* The first section of a stop, by a thread or by shutdown_all.
LEMMA StopSectionStep ==
  ASSUME SInv, TInv', NEW f \in Frames, NEW b \in Backends, StopSection(f, b), pc[f] = "idle", NoteRace(f, b),
         \/ f # Exit /\ CanRun(f) /\ UNCHANGED <<server, todo, aborted>>
         \/ f = Exit /\ Exiting /\ UNCHANGED <<server, aborted>> /\ todo' = todo \ {b}
  PROVE  SInv'
<1>0. /\ TypeOK /\ Main \in Frames /\ Exit \in Frames /\ Main # Exit /\ Threads \subseteq Frames
      /\ UNCHANGED <<proc, owner, sent, lost, server, aborted>>
      /\ \A g \in Frames : DrainInv(g)
      /\ AloneInv /\ RecordInv /\ ExitInv /\ NothingForgotten
      /\ Frames = Threads \cup {Exit} /\ Exit \notin Threads
  BY FrameFacts DEF SInv, TInv, StopSection, Frames
<1>r. /\ raced \subseteq raced'
      /\ \A c \in Backends : c # b => (c \in raced' <=> c \in raced)
      /\ b \notin raced' =>
           /\ b \notin raced
           /\ f # Exit => server = "up" /\ pc[Exit] = "idle"
           /\ \A g \in Frames \ {f} : Busy(g, b) => f = Exit /\ g = Main
  BY <1>0, NoRace DEF CanRun
<1>u. /\ f # Exit => server # "gone" /\ Awake(f) /\ todo' = todo
      /\ f = Exit => Exiting /\ ~Awake(Main) /\ server # "gone" /\ todo' = todo \ {b}
  BY <1>0 DEF CanRun, Awake, Exiting
<1>1. CASE UNCHANGED <<handle, external, pc, arg, mine>> /\ status' = status /\ status[b] = "stopped"
  <2>1. b \notin raced' => handle[b] = 0
    BY <1>0, <1>1, <1>r DEF RecordInv
  <2>2. \A g \in Frames : DrainInv(g)'
    BY <1>0, <1>1, <1>r DEF DrainInv, Awake, Alive, TypeOK
  <2>3. AloneInv' /\ RecordInv' /\ NothingForgotten'
    BY <1>0, <1>1, <1>r DEF AloneInv, Busy, RecordInv, NothingForgotten, Alive, Awake, TypeOK
  <2>4. ExitInv'
    BY <1>0, <1>1, <1>r, <1>u, <2>1 DEF ExitInv, Exiting, Busy
  <2> QED
    BY <2>2, <2>3, <2>4 DEF SInv
<1>2. CASE /\ handle[b] = 0 \/ HandleDead(b)
           /\ status' = [status EXCEPT ![b] = "stopped"]
           /\ handle' = [handle EXCEPT ![b] = 0]
           /\ UNCHANGED <<external, pc, arg, mine>>
  <2>1. /\ handle'[b] = 0 /\ status'[b] = "stopped"
        /\ \A c \in Backends : c # b => handle'[c] = handle[c] /\ status'[c] = status[c]
    BY <1>0, <1>2 DEF TypeOK
  <2>2. \A g \in Frames : pc[g] # "idle" /\ Awake(g) /\ arg[g] \notin raced' => arg[g] # b /\ arg[g] \notin raced
    BY <1>0, <1>r, <1>u DEF Busy, TypeOK
  <2>3. \A g \in Frames : DrainInv(g)'
    BY <1>0, <1>2, <2>1, <2>2 DEF DrainInv, Awake, Alive, TypeOK, StopLabels
  <2>4. RecordInv'
    BY <1>0, <1>2, <1>r, <2>1, <2>2 DEF RecordInv, Awake, Starting, TypeOK
  <2>5. AloneInv'
    BY <1>2, <1>0, <1>r DEF AloneInv, Busy
  <2>6. ExitInv'
    BY <1>0, <1>2, <1>r, <1>u, <2>1 DEF ExitInv, Exiting, Busy
  <2>7. ASSUME NEW p \in Procs, Alive(p)', handle[owner[p]] = p
        PROVE  handle'[owner[p]] = p
    <3>1. owner[p] # b
      BY <1>0, <1>2, <2>7 DEF HandleDead, Alive, Procs
    <3> QED
      BY <1>0, <2>1, <2>7, <3>1 DEF TypeOK
  <2>8. NothingForgotten'
    BY <1>0, <1>2, <1>r, <2>7 DEF NothingForgotten, Alive
  <2> QED
    BY <2>3, <2>4, <2>5, <2>6, <2>8 DEF SInv
<1>3. CASE /\ handle[b] # 0
           /\ status' = [status EXCEPT ![b] = "draining"]
           /\ arg' = [arg EXCEPT ![f] = b]
           /\ mine' = [mine EXCEPT ![f] = handle[b]]
           /\ Goto(f, "drain")
           /\ UNCHANGED handle
  <2>1. /\ pc'[f] = "drain" /\ arg'[f] = b /\ mine'[f] = handle[b]
        /\ \A g \in Frames : g # f => pc'[g] = pc[g] /\ arg'[g] = arg[g] /\ mine'[g] = mine[g]
        /\ status'[b] = "draining"
        /\ \A c \in Backends : c # b => status'[c] = status[c]
    BY <1>0, <1>3 DEF TypeOK, Goto
  <2>2. ASSUME NEW g \in Frames PROVE DrainInv(g)'
    <3>1. CASE g = f
      BY <1>3, <2>1, <3>1 DEF DrainInv
    <3>2. CASE g # f
      <4>1. arg[g] \in Backends /\ (arg[g] \notin raced' => arg[g] \notin raced)
        BY <1>0, <1>r DEF TypeOK
      <4> QED
        BY <1>0, <1>3, <2>1, <3>2, <4>1 DEF DrainInv, Awake, Alive
    <3> QED
      BY <3>1, <3>2
  <2>3. RecordInv'
    <3>1. \A c \in Backends \ raced' : status'[c] = "stopped" => handle'[c] = 0
      BY <1>0, <1>3, <1>r, <2>1 DEF RecordInv
    <3>2. \A t \in Threads : pc'[t] \in Starting => t # f /\ pc[t] \in Starting /\ arg'[t] = arg[t] /\ arg[t] \in Backends
      BY <1>0, <2>1 DEF Starting, TypeOK
    <3>3. \A c \in Backends : status'[c] = "stopped" => status[c] = "stopped"
      BY <2>1
    <3> QED
      BY <1>0, <1>r, <3>1, <3>2, <3>3 DEF RecordInv, Awake
  <2>4. \A g \in Frames, c \in Backends : Busy(g, c)' => (g = f /\ c = b) \/ (g # f /\ Busy(g, c))
    BY <1>0, <2>1 DEF Busy
  <2>5. AloneInv'
    BY <1>0, <1>r, <2>4 DEF AloneInv
  <2>6. ExitInv'
    <3>1. CASE f = Exit
      <4>1. Busy(Exit, b)' /\ pc[Exit] = "idle"
        BY <2>1, <3>1 DEF Busy
      <4>2. \A c \in Backends : ~Busy(Exit, c)
        BY <4>1 DEF Busy
      <4>3. \A c \in Backends \ (todo' \cup raced') : c # b => handle[c] = 0 /\ \A t \in Threads \ {Main} : ~Busy(t, c)'
        BY <1>0, <1>r, <1>u, <2>4, <3>1, <4>2 DEF ExitInv
      <4>4. b \notin raced' => \A t \in Threads \ {Main} : ~Busy(t, b)'
        BY <1>0, <1>r, <2>4, <3>1
      <4> QED
        BY <1>0, <1>3, <1>u, <3>1, <4>1, <4>3, <4>4 DEF ExitInv, Exiting
    <3>2. CASE f # Exit
      <4>1. pc'[Exit] = pc[Exit] /\ \A c \in Backends : Busy(Exit, c)' <=> Busy(Exit, c)
        BY <1>0, <2>1, <3>2 DEF Busy
      <4>2. Exiting => b \in raced'
        BY <1>r, <3>2 DEF Exiting
      <4> QED
        BY <1>0, <1>3, <1>r, <1>u, <2>4, <3>2, <4>1, <4>2 DEF ExitInv, Exiting
    <3> QED
      BY <3>1, <3>2
  <2>7. NothingForgotten'
    <3>1. \A t \in Threads : pc[t] = "spawned" => pc'[t] = "spawned" /\ mine'[t] = mine[t]
      BY <1>0, <2>1
    <3> QED
      BY <1>0, <1>3, <1>r, <3>1 DEF NothingForgotten, Alive
  <2> QED
    BY <2>2, <2>3, <2>5, <2>6, <2>7 DEF SInv
<1> QED
  BY <1>1, <1>2, <1>3 DEF StopSection

LEMMA SafeStep ==
  ASSUME SInv, TInv', [Next]_vars
  PROVE  SInv'
<1>0. /\ TypeOK /\ Threads \subseteq Frames /\ Main \in Threads /\ Exit \in Frames /\ Exit \notin Threads
      /\ AloneInv /\ RecordInv /\ ExitInv /\ NothingForgotten /\ \A f \in Frames : DrainInv(f)
      /\ server = "up" => pc[Exit] = "idle"
  BY FrameFacts DEF SInv, TInv, ExitInv, Exiting
<1>1. ASSUME NEW t \in Threads, NEW b \in Backends, StartBegin(t, b)
      PROVE  SInv'
  <2>1. /\ pc[t] = "idle" /\ server # "gone" /\ t # Exit /\ NoteRace(t, b)
        /\ pc'[t] \in {"idle", "launch"}
        /\ pc'[t] = "launch" => arg'[t] = b
        /\ \A g \in Frames : g # t => pc'[g] = pc[g] /\ arg'[g] = arg[g]
        /\ UNCHANGED <<handle, procVars, mine, exitVars, lost>>
        /\ status'[b] = "stopped" => status[b] = "stopped"
        /\ \A c \in Backends : c # b => status'[c] = status[c]
        /\ pc'[t] = "launch" => status'[b] # "stopped"
    BY <1>0, <1>1 DEF StartBegin, CanRun, Goto, TypeOK
  <2>2. /\ raced \subseteq raced'
        /\ \A c \in Backends : c # b => (c \in raced' <=> c \in raced)
        /\ b \notin raced' =>
             /\ b \notin raced /\ server = "up" /\ pc[Exit] = "idle"
             /\ \A g \in Frames \ {t} : ~Busy(g, b)
    BY <1>0, <2>1, NoRace
  <2>3. \A g \in Frames, c \in Backends : Busy(g, c)' => (g = t /\ c = b) \/ (g # t /\ Busy(g, c))
    BY <2>1 DEF Busy
  <2>4. AloneInv'
    BY <1>0, <2>2, <2>3 DEF AloneInv
  <2>5. ASSUME NEW g \in Frames PROVE DrainInv(g)'
    <3>1. pc'[g] \in StopLabels => g # t
      BY <2>1 DEF StopLabels
    <3>2. arg[g] \in Backends
      BY <1>0 DEF TypeOK
    <3> QED
      BY <1>0, <2>1, <2>2, <3>1, <3>2 DEF DrainInv, Awake, Alive, procVars, exitVars, StopLabels
  <2>6. RecordInv'
    <3>1. ASSUME NEW u \in Threads, Awake(u)', pc'[u] \in Starting, arg'[u] \notin raced'
          PROVE  status'[arg'[u]] # "stopped"
      <4>1. CASE u = t
        BY <2>1, <3>1, <4>1 DEF Starting
      <4>2. CASE u # t
        <5>1. pc[u] \in Starting /\ arg'[u] = arg[u] /\ arg[u] \in Backends /\ Awake(u) /\ arg[u] \notin raced
          BY <1>0, <2>1, <2>2, <3>1, <4>2 DEF Awake, exitVars, TypeOK
        <5> QED
          BY <1>0, <2>1, <5>1 DEF RecordInv
      <4> QED
        BY <4>1, <4>2
    <3> QED
      BY <1>0, <2>1, <2>2, <3>1 DEF RecordInv
  <2>7. ExitInv'
    <3>1. pc'[Exit] = pc[Exit] /\ \A c \in Backends : Busy(Exit, c)' <=> Busy(Exit, c)
      BY <1>0, <2>1 DEF Busy
    <3>2. Exiting => b \in raced'
      BY <2>2 DEF Exiting
    <3> QED
      BY <1>0, <2>1, <2>2, <2>3, <3>1, <3>2 DEF ExitInv, Exiting, exitVars
  <2>8. NothingForgotten'
    <3>1. \A u \in Threads : pc[u] = "spawned" => pc'[u] = "spawned"
      BY <1>0, <2>1
    <3> QED
      BY <1>0, <2>1, <2>2, <3>1 DEF NothingForgotten, Alive, procVars
  <2> QED
    BY <2>4, <2>5, <2>6, <2>7, <2>8 DEF SInv
<1>2. ASSUME NEW t \in Threads, Launch(t)
      PROVE  SInv'
  <2>1. PICK p \in Procs :
          /\ proc[p] = "none"
          /\ proc' = [proc EXCEPT ![p] = "silent"]
          /\ owner' = [owner EXCEPT ![p] = arg[t]]
          /\ mine' = [mine EXCEPT ![t] = p]
    BY <1>2 DEF Launch
  <2>2. /\ pc[t] = "launch" /\ pc'[t] = "spawned" /\ mine'[t] = p /\ t # Exit
        /\ \A g \in Frames : g # t => pc'[g] = pc[g] /\ mine'[g] = mine[g]
        /\ UNCHANGED <<status, handle, arg, exitVars, histVars>>
    BY <1>0, <1>2, <2>1 DEF Launch, Goto, TypeOK
  <2>3. \A g \in Frames, c \in Backends : Busy(g, c)' <=> Busy(g, c)
    BY <2>2 DEF Busy
  <2>4. ASSUME NEW q \in Procs, Alive(q)', q # p
        PROVE  Alive(q) /\ owner'[q] = owner[q]
    BY <1>0, <2>1, <2>4 DEF Alive, TypeOK
  <2>5. ASSUME NEW g \in Frames PROVE DrainInv(g)'
    <3>1. ASSUME pc'[g] \in StopLabels
          PROVE  g # t /\ mine'[g] = mine[g] /\ mine[g] \in Procs /\ proc[mine[g]] # "none"
      <4>1. g # t /\ mine'[g] = mine[g] /\ pc[g] \in StopLabels
        BY <2>2, <3>1 DEF StopLabels
      <4>2. mine[g] \in Procs
        BY <1>0, <4>1, ProcsAssumption DEF TypeOK, Procs
      <4> QED
        BY <4>1, <4>2 DEF SInv, TInv, HoldInv, Holding
    <3>2. pc'[g] \in StopLabels => mine[g] # p
      BY <2>1, <3>1
    <3> QED
      BY <1>0, <2>2, <2>4, <3>1, <3>2 DEF DrainInv, Awake, exitVars, StopLabels
  <2>6. AloneInv' /\ RecordInv' /\ ExitInv'
    <3>1. \A u \in Threads : pc'[u] \in Starting => pc[u] \in Starting
      BY <1>0, <2>2 DEF Starting
    <3>2. RecordInv'
      BY <1>0, <2>2, <3>1 DEF RecordInv, Awake, exitVars
    <3>3. pc'[Exit] = pc[Exit]
      BY <1>0, <2>2
    <3> QED
      BY <1>0, <2>2, <2>3, <3>2, <3>3 DEF AloneInv, ExitInv, Exiting, exitVars
  <2>7. ASSUME NEW q \in Procs, Alive(q)'
        PROVE  \/ handle'[owner'[q]] = q \/ q \in lost' \/ owner'[q] \in raced'
               \/ \E u \in Threads : pc'[u] = "spawned" /\ mine'[u] = q
    <3>1. CASE q = p
      BY <2>2, <3>1
    <3>2. CASE q # p
      <4>1. \A u \in Threads : pc[u] = "spawned" => u # t /\ pc'[u] = "spawned" /\ mine'[u] = mine[u]
        BY <1>0, <2>2
      <4> QED
        BY <1>0, <2>2, <2>4, <2>7, <3>2, <4>1 DEF NothingForgotten
    <3> QED
      BY <3>1, <3>2
  <2> QED
    BY <2>5, <2>6, <2>7 DEF SInv, NothingForgotten
<1>3. ASSUME NEW t \in Threads, LaunchFails(t) \/ AwaitReady(t)
      PROVE  SInv'
  <2>1. /\ pc[t] \in {"launch", "wait"} /\ pc'[t] \in {"started", "startFailed"} /\ t # Exit
        /\ \A g \in Frames : g # t => pc'[g] = pc[g]
        /\ proc' = proc /\ owner' = owner
        /\ UNCHANGED <<status, handle, mine, arg, server, todo, aborted, histVars>>
    BY <1>0, <1>3 DEF LaunchFails, AwaitReady, Goto, TypeOK, procVars, exitVars
  <2>2. NothingForgotten'
    BY <1>0, <2>1 DEF NothingForgotten, Alive
  <2>3. \A p \in Procs : Alive(p)' => Alive(p)
    BY <2>1 DEF Alive
  <2> QED
    BY <1>0, <2>1, <2>2, <2>3, RecordsKept DEF StopLabels, Starting
<1>4. ASSUME NEW t \in Threads, Record(t)
      PROVE  SInv'
  <2> DEFINE b == arg[t]
  <2>1. /\ pc[t] = "spawned" /\ pc'[t] = "wait" /\ t # Exit
        /\ \A g \in Frames : g # t => pc'[g] = pc[g]
        /\ b \in Backends /\ mine[t] # 0 /\ owner[mine[t]] = b
        /\ handle' = [handle EXCEPT ![b] = mine[t]]
        /\ lost' = lost \cup {p \in Procs : p = handle[b] /\ Alive(p)}
        /\ UNCHANGED <<status, procVars, arg, mine, exitVars, raced>>
    BY <1>0, <1>4 DEF Record, Goto, TypeOK, SInv, TInv, HoldInv, Holding
  <2>2. Awake(t) /\ server # "gone" /\ Busy(t, b) /\ (t = Main => ~Exiting)
    BY <1>4, <2>1 DEF Record, CanRun, Awake, Busy, Exiting
  <2>3. \A g \in Frames, c \in Backends : Busy(g, c)' <=> Busy(g, c)
    BY <2>1 DEF Busy
  <2>4. ASSUME NEW g \in Frames PROVE DrainInv(g)'
    <3>1. pc'[g] \in StopLabels => g # t /\ pc[g] \in StopLabels
      BY <2>1 DEF StopLabels
    <3>2. pc'[g] \in StopLabels /\ Awake(g) /\ arg[g] \notin raced => arg[g] # b
      <4>1. SUFFICES ASSUME pc'[g] \in StopLabels, Awake(g), arg[g] \notin raced, arg[g] = b PROVE FALSE
        OBVIOUS
      <4>2. Busy(g, b) /\ g # t
        BY <3>1, <4>1 DEF Busy, StopLabels
      <4>3. {g, t} = {Main, Exit}
        BY <1>0, <2>1, <2>2, <4>1, <4>2 DEF AloneInv
      <4>4. t = Main /\ g = Exit
        BY <2>1, <4>3
      <4> QED
        BY <1>0, <2>2, <4>2, <4>4 DEF Awake, Busy
    <3> QED
      BY <1>0, <2>1, <3>1, <3>2 DEF DrainInv, Awake, Alive, procVars, exitVars, TypeOK, StopLabels
  <2>5. b \notin raced => status[b] # "stopped"
    BY <1>0, <2>1, <2>2 DEF RecordInv, Starting
  <2>6. RecordInv'
    <3>1. \A u \in Threads : pc'[u] \in Starting => pc[u] \in Starting
      BY <1>0, <2>1 DEF Starting
    <3> QED
      BY <1>0, <2>1, <2>5, <3>1 DEF RecordInv, Awake, exitVars, TypeOK
  <2>7. ExitInv'
    <3>1. Exiting => b \in todo \cup raced
      BY <1>0, <2>1, <2>2 DEF ExitInv
    <3>2. pc'[Exit] = pc[Exit]
      BY <1>0, <2>1
    <3>3. \A c \in Backends : c # b => handle'[c] = handle[c]
      BY <1>0, <2>1 DEF TypeOK
    <3> QED
      BY <1>0, <2>1, <2>2, <2>3, <3>1, <3>2, <3>3 DEF ExitInv, Exiting, exitVars
  <2>8. ASSUME NEW p \in Procs, Alive(p)', p \notin lost', owner'[p] \notin raced'
        PROVE  handle'[owner'[p]] = p \/ \E u \in Threads : pc'[u] = "spawned" /\ mine'[u] = p
    <3>1. Alive(p) /\ p \notin lost /\ p # handle[b] /\ owner[p] \in Backends /\ owner[p] \notin raced
      BY <1>0, <2>1, <2>8 DEF Alive, procVars, TypeOK
    <3>2. CASE mine[t] = p
      BY <1>0, <2>1, <3>1, <3>2 DEF TypeOK, procVars
    <3>3. CASE mine[t] # p /\ handle[owner[p]] = p
      BY <1>0, <2>1, <3>1, <3>3 DEF TypeOK, procVars
    <3>4. CASE mine[t] # p /\ \E u \in Threads : pc[u] = "spawned" /\ mine[u] = p
      BY <1>0, <2>1, <3>4
    <3> QED
      BY <1>0, <3>1, <3>2, <3>3, <3>4 DEF NothingForgotten
  <2>9. NothingForgotten'
    BY <2>8 DEF NothingForgotten
  <2> QED
    BY <1>0, <2>1, <2>3, <2>4, <2>6, <2>7, <2>9 DEF SInv, AloneInv
<1>5. ASSUME NEW t \in Threads, StartEnd(t)
      PROVE  SInv'
  <2>1. /\ pc[t] \in {"started", "startFailed"} /\ pc'[t] = "idle" /\ t # Exit
        /\ \A g \in Frames : g # t => pc'[g] = pc[g] /\ arg'[g] = arg[g] /\ mine'[g] = mine[g]
        /\ UNCHANGED <<handle, procVars, server, todo, aborted, histVars>>
        /\ \A c \in Backends : status'[c] = "stopped" => status[c] = "stopped"
    BY <1>0, <1>5 DEF StartEnd, Return, TypeOK, exitVars
  <2>2. NothingForgotten'
    <3>1. \A u \in Threads : pc[u] = "spawned" => u # t
      BY <2>1
    <3> QED
      BY <1>0, <2>1, <3>1 DEF NothingForgotten, Alive, procVars
  <2>3. \A p \in Procs : Alive(p)' => Alive(p)
    BY <2>1 DEF Alive, procVars
  <2> QED
    BY <1>0, <2>1, <2>2, <2>3, RecordsKept DEF StopLabels, Starting
<1>6. ASSUME NEW t \in Threads, NEW b \in Backends, StopBegin(t, b)
      PROVE  SInv'
  BY <1>0, <1>6, StopSectionStep DEF StopBegin, exitVars
<1>7. ASSUME NEW f \in Frames, Waited(f) \/ Escalate(f)
      PROVE  SInv'
  <2>1. /\ pc[f] \in {"drain", "term", "kill"} /\ pc'[f] \in {"term", "kill", "stopEnd"}
        /\ pc'[f] = "stopEnd" => ~Alive(mine[f])
        /\ \A g \in Frames : g # f => pc'[g] = pc[g]
        /\ proc' = proc /\ owner' = owner
        /\ UNCHANGED <<status, handle, mine, arg, server, todo, aborted, histVars>>
    BY <1>0, <1>7 DEF Waited, Escalate, Goto, TypeOK, procVars, exitVars
  <2>2. NothingForgotten'
    BY <1>0, <2>1 DEF NothingForgotten, Alive
  <2>3. \A p \in Procs : Alive(p)' => Alive(p)
    BY <2>1 DEF Alive
  <2> QED
    BY <1>0, <2>1, <2>2, <2>3, RecordsKept DEF StopLabels, Starting
<1>8. ASSUME NEW f \in Frames, StopEnd(f)
      PROVE  SInv'
  <2> DEFINE b == arg[f]
  <2>1. /\ CanRun(f) /\ pc[f] = "stopEnd" /\ pc'[f] = "idle" /\ b \in Backends
        /\ \A g \in Frames : g # f => pc'[g] = pc[g] /\ arg'[g] = arg[g] /\ mine'[g] = mine[g]
        /\ handle' = [handle EXCEPT ![b] = 0] /\ status' = [status EXCEPT ![b] = "stopped"]
        /\ UNCHANGED <<procVars, exitVars, histVars>>
    BY <1>0, <1>8 DEF StopEnd, Return, TypeOK
  <2>2. /\ Awake(f) /\ ~Alive(mine[f]) /\ Busy(f, b) /\ server # "gone"
        /\ b \notin raced => handle[b] = mine[f]
        /\ f = Exit => Exiting
    BY <1>0, <2>1 DEF CanRun, Awake, DrainInv, StopLabels, Busy, ExitInv
  <2>3. \A g \in Frames, c \in Backends : Busy(g, c)' => g # f /\ Busy(g, c)
    BY <2>1 DEF Busy
  \* Nobody else who can run is in a call about b.
  <2>4. ASSUME NEW g \in Frames \ {f}, pc[g] # "idle", Awake(g), arg[g] \notin raced
        PROVE  arg[g] # b
    <3>1. SUFFICES ASSUME arg[g] = b PROVE FALSE
      OBVIOUS
    <3>2. {f, g} = {Main, Exit}
      BY <1>0, <2>1, <2>2, <2>4, <3>1 DEF AloneInv, Busy
    <3> QED
      BY <1>0, <2>2, <2>4, <3>2 DEF Awake, Exiting
  <2>5. \A g \in Frames : DrainInv(g)'
    BY <1>0, <2>1, <2>4 DEF DrainInv, Awake, Alive, StopLabels, procVars, exitVars, TypeOK
  <2>6. RecordInv'
    <3>1. \A u \in Threads : pc'[u] \in Starting => u # f /\ pc[u] \in Starting /\ pc[u] # "idle" /\ arg'[u] = arg[u]
      BY <1>0, <2>1 DEF Starting
    <3>2. \A c \in Backends : c # b => handle'[c] = handle[c] /\ status'[c] = status[c]
      BY <1>0, <2>1 DEF TypeOK
    <3>3. handle'[b] = 0
      BY <1>0, <2>1 DEF TypeOK
    <3> QED
      BY <1>0, <2>1, <2>4, <3>1, <3>2, <3>3 DEF RecordInv, Awake, exitVars, TypeOK
  <2>7. ExitInv'
    <3>1. \A c \in Backends : handle'[c] = 0 \/ (c # b /\ handle'[c] = handle[c])
      BY <1>0, <2>1 DEF TypeOK
    <3>2. \A c \in Backends : c # b /\ Busy(Exit, c) => Busy(Exit, c)'
      BY <1>0, <2>1 DEF Busy
    <3>3. pc'[Exit] # "idle" => pc[Exit] # "idle"
      BY <1>0, <2>1
    <3> QED
      BY <1>0, <2>1, <2>2, <2>3, <3>1, <3>2, <3>3 DEF ExitInv, Exiting, exitVars
  <2>8. ASSUME NEW p \in Procs, Alive(p)', owner[p] \notin raced, handle[owner[p]] = p
        PROVE  handle'[owner[p]] = p
    BY <1>0, <2>1, <2>2, <2>8 DEF Alive, procVars, TypeOK
  <2>9. NothingForgotten'
    <3>1. \A u \in Threads : pc[u] = "spawned" => pc'[u] = "spawned" /\ mine'[u] = mine[u]
      BY <1>0, <2>1
    <3> QED
      BY <1>0, <2>1, <2>8, <3>1 DEF NothingForgotten, Alive, procVars
  <2> QED
    BY <1>0, <2>1, <2>3, <2>5, <2>6, <2>7, <2>9 DEF SInv, AloneInv
<1>9. ASSUME NEW f \in Frames, StopRaises(f)
      PROVE  SInv'
  <2>1. /\ CanRun(f) /\ pc[f] = "kill" /\ pc'[f] = "idle"
        /\ UNCHANGED <<status, handle, procVars, raced>>
    BY <1>0, <1>9 DEF StopRaises, Return, TypeOK
  <2>2. CASE f # Exit
    <3>1. /\ \A g \in Frames : g # f => pc'[g] = pc[g] /\ arg'[g] = arg[g] /\ mine'[g] = mine[g]
          /\ UNCHANGED <<server, todo, aborted, lost>>
      BY <1>0, <1>9, <2>1, <2>2 DEF StopRaises, Return, TypeOK, exitVars
    <3>2. NothingForgotten'
      <4>1. \A u \in Threads : pc[u] = "spawned" => u # f
        BY <2>1
      <4> QED
        BY <1>0, <2>1, <3>1, <4>1 DEF NothingForgotten, procVars, Alive
    <3>3. \A p \in Procs : Alive(p)' => Alive(p)
      BY <2>1 DEF Alive, procVars
    <3> QED
      BY <1>0, <2>1, <2>2, <3>1, <3>2, <3>3, RecordsKept DEF StopLabels, Starting
  <2>3. CASE f = Exit /\ (server = "atexit" \/ pc[Main] = "idle")
    <3>1. /\ \A g \in Frames : g # Exit => pc'[g] = pc[g] /\ arg'[g] = arg[g] /\ mine'[g] = mine[g]
          /\ lost' = lost /\ server # "up" /\ server' # "up"
          /\ \/ server' = "gone" /\ aborted'
             \/ server' = "atexit" /\ todo' = Backends
      BY <1>0, <1>9, <2>1, <2>3 DEF StopRaises, Return, TypeOK
    <3>2. \A g \in Frames, c \in Backends : Busy(g, c)' => Busy(g, c)
      BY <2>1, <2>3, <3>1 DEF Busy
    <3>3. \A g \in Frames : DrainInv(g)'
      BY <1>0, <2>1, <2>3, <3>1 DEF DrainInv, StopLabels, Awake, Alive, procVars
    <3>4. RecordInv' /\ ExitInv'
      BY <1>0, <2>1, <2>3, <3>1 DEF RecordInv, ExitInv, Exiting, Awake
    <3>5. NothingForgotten' /\ AloneInv'
      BY <1>0, <2>1, <3>1, <3>2 DEF NothingForgotten, procVars, Alive, AloneInv
    <3> QED
      BY <3>3, <3>4, <3>5 DEF SInv
  <2>4. CASE f = Exit /\ server = "handler" /\ pc[Main] # "idle"
    <3>1. /\ pc'[Exit] = "idle" /\ pc'[Main] = "idle" /\ server' = "up"
          /\ \A g \in Frames \ {Exit, Main} : pc'[g] = pc[g] /\ arg'[g] = arg[g] /\ mine'[g] = mine[g]
          /\ lost' = lost \cup {p \in Procs : pc[Main] = "spawned" /\ p = mine[Main]}
      BY <1>0, <1>9, <2>1, <2>4 DEF StopRaises, TypeOK
    <3>2. \A g \in Frames, c \in Backends : Busy(g, c)' => g \notin {Exit, Main} /\ Busy(g, c)
      BY <3>1 DEF Busy
    <3>3. \A g \in Frames : DrainInv(g)'
      BY <1>0, <2>1, <3>1 DEF DrainInv, StopLabels, Awake, Alive, procVars
    <3>4. RecordInv' /\ ExitInv'
      BY <1>0, <2>1, <3>1 DEF RecordInv, ExitInv, Exiting, Starting, Awake
    <3>5. NothingForgotten' /\ AloneInv'
      BY <1>0, <2>1, <3>1, <3>2 DEF NothingForgotten, procVars, Alive, AloneInv
    <3> QED
      BY <3>3, <3>4, <3>5 DEF SInv
  <2> QED
    BY <1>0, <1>9, <2>2, <2>3, <2>4 DEF StopRaises
<1>10. CASE Signal \/ EndOfInput
  <2>1. /\ UNCHANGED <<status, handle, procVars, pc, arg, mine, aborted, histVars>>
        /\ server = "up" /\ server' \in {"handler", "atexit"} /\ todo' = Backends
    BY <1>10 DEF Signal, EndOfInput
  <2>2. \A g \in Frames : DrainInv(g)'
    BY <1>0, <2>1 DEF DrainInv, Awake, Alive, procVars
  <2>3. RecordInv' /\ ExitInv' /\ NothingForgotten' /\ AloneInv'
    BY <1>0, <2>1 DEF RecordInv, ExitInv, NothingForgotten, Exiting, procVars, Alive, AloneInv, Busy, Awake
  <2> QED
    BY <2>2, <2>3 DEF SInv
<1>11. CASE ShutdownEnd
  <2>1. /\ UNCHANGED <<status, handle, procVars, pc, arg, mine, aborted, histVars>>
        /\ Exiting /\ server' = "gone" /\ todo = {} /\ todo' = todo /\ pc[Exit] = "idle"
    BY <1>11 DEF ShutdownEnd, Exiting
  <2>2. \A g \in Frames : DrainInv(g)'
    BY <1>0, <2>1 DEF DrainInv, Awake, Alive, procVars
  <2>3. RecordInv' /\ ExitInv' /\ NothingForgotten' /\ AloneInv'
    BY <1>0, <2>1 DEF RecordInv, ExitInv, NothingForgotten, Exiting, procVars, Alive, AloneInv, Busy, Awake
  <2> QED
    BY <2>2, <2>3 DEF SInv
<1>12. ASSUME NEW b \in Backends, ShutdownNext(b)
       PROVE  SInv'
  BY <1>0, <1>12, StopSectionStep DEF ShutdownNext, Exiting
<1>13. CASE NoticeCrash
  <2>1. /\ UNCHANGED <<handle, procVars, pc, arg, mine, exitVars, histVars>>
        /\ \A c \in Backends : status'[c] = "stopped" <=> status[c] = "stopped"
    BY <1>0, <1>13 DEF NoticeCrash, TypeOK
  <2>2. NothingForgotten' /\ \A p \in Procs : Alive(p)' => Alive(p)
    BY <1>0, <2>1 DEF NothingForgotten, procVars, Alive
  <2> QED
    BY <2>1, <2>2, RecordsKept DEF exitVars
<1>14. CASE \/ \E p \in Procs : ProcReady(p) \/ ProcDeaf(p) \/ ProcDies(p)
            \/ \E b \in Backends : ExternalChanges(b)
            \/ UNCHANGED vars
  <2>1. /\ UNCHANGED <<status, handle, owner, pc, arg, mine, server, todo, aborted, histVars>>
        /\ \A p \in Procs : Alive(p)' => Alive(p)
    BY <1>0, <1>14 DEF ProcReady, ProcDeaf, ProcDies, ExternalChanges, vars, Alive, TypeOK, exitVars
  <2>2. NothingForgotten'
    BY <1>0, <2>1 DEF NothingForgotten
  <2> QED
    BY <2>1, <2>2, RecordsKept
<1> QED
  BY <1>1, <1>2, <1>3, <1>4, <1>5, <1>6, <1>7, <1>8, <1>9, <1>10, <1>11, <1>12, <1>13, <1>14
     DEF Next, CallStep, StopStep, ExitStep

LEMMA Safe == Spec => []SInv
<1>1. Init => SInv
  BY InitSafe
<1>2. SInv /\ [Next]_vars => SInv'
  BY TypeStep, SafeStep DEF SInv
<1> QED
  BY <1>1, <1>2, PTL DEF Spec

\* A live process stays within reach of stop_engine unless a relaunch wrote over its
\* handle, a signal unwound its spawn, or two calls were about its engine at once,
\* for any number of threads and engines (NothingForgotten).
THEOREM NothingIsForgotten == Spec => []NothingForgotten
<1>1. SInv => NothingForgotten
  BY DEF SInv
<1> QED
  BY Safe, <1>1, PTL

\* A shutdown that no exception ended has stopped every process that was tracked
\* when the signal or the end of input came, whatever other threads did with other
\* engines meanwhile (ExitStopsTracked).
THEOREM ExitStops == Spec => []ExitStopsTracked
<1>1. ASSUME SInv PROVE ExitStopsTracked
  <2>1. SUFFICES ASSUME server = "gone", ~aborted, NEW p \in Procs, Alive(p), owner[p] \notin raced
                 PROVE  p \in lost \/ (pc[Main] = "spawned" /\ mine[Main] = p)
    BY DEF ExitStopsTracked
  <2>2. owner[p] \in Backends /\ p # 0
    <3>1. p \in 1..MaxProcs /\ proc[p] # "unborn"
      BY <2>1 DEF Procs, Alive
    <3> QED
      BY <1>1, <3>1, ProcsAssumption DEF SInv, TInv, TypeOK, Procs
  <2>3. handle[owner[p]] = 0 /\ \A t \in Threads \ {Main} : ~Busy(t, owner[p])
    BY <1>1, <2>1, <2>2 DEF SInv, ExitInv
  <2>4. ASSUME NEW t \in Threads, pc[t] = "spawned", mine[t] = p, t # Main PROVE FALSE
    <3>1. arg[t] = owner[p]
      BY <1>1, <2>4, FrameFacts DEF SInv, TInv, HoldInv, Holding
    <3> QED
      BY <2>3, <2>4, <3>1 DEF Busy
  <2> QED
    BY <1>1, <2>1, <2>2, <2>3, <2>4 DEF SInv, NothingForgotten
<1> QED
  BY Safe, <1>1, PTL

NeverRaces == raced = {}

\* With one thread of calls, which is what the MCP server has, no two calls are
\* ever about one engine at once, so the two theorems above then hold of every
\* engine (raced, of NothingForgotten and ExitStopsTracked).
THEOREM OneThreadNeverRaces == (Threads = {Main}) => (Spec => []NeverRaces)
<1> SUFFICES ASSUME Threads = {Main} PROVE Spec => []NeverRaces
  OBVIOUS
<1>1. Init => NeverRaces
  BY DEF Init, NeverRaces
<1>2. SInv /\ NeverRaces /\ [Next]_vars => NeverRaces'
  <2> SUFFICES ASSUME SInv, raced = {}, [Next]_vars PROVE raced' = {}
    BY DEF NeverRaces
  <2>1. Frames = {Main, Exit} /\ (server = "up" => pc[Exit] = "idle")
    BY DEF SInv, ExitInv, Exiting, Frames
  <2>2. ASSUME NEW b \in Backends, StartBegin(Main, b) \/ StopBegin(Main, b) PROVE raced' = {}
    BY <2>1, <2>2 DEF StartBegin, StopBegin, CanRun, NoteRace, Races
  <2>3. ASSUME NEW b \in Backends, ShutdownNext(b) PROVE raced' = {}
    BY <2>1, <2>3 DEF ShutdownNext, NoteRace, Races
  <2>4. CASE UNCHANGED vars
    BY <2>4 DEF vars
  <2>5. ASSUME NEW t \in Threads, CallStep(t) PROVE raced' = {}
    BY <2>5 DEF CallStep, Launch, LaunchFails, Record, AwaitReady, StartEnd
  <2>6. ASSUME NEW f \in Frames, StopStep(f) PROVE raced' = {}
    BY <2>6 DEF StopStep, Waited, Escalate, StopEnd, StopRaises
  <2>7. CASE Signal \/ EndOfInput \/ ShutdownEnd \/ NoticeCrash
    BY <2>7 DEF Signal, EndOfInput, ShutdownEnd, NoticeCrash
  <2>8. ASSUME NEW p \in Procs, ProcReady(p) \/ ProcDeaf(p) \/ ProcDies(p) PROVE raced' = {}
    BY <2>8 DEF ProcReady, ProcDeaf, ProcDies
  <2>9. ASSUME NEW b \in Backends, ExternalChanges(b) PROVE raced' = {}
    BY <2>9 DEF ExternalChanges
  <2> QED
    BY <2>2, <2>3, <2>4, <2>5, <2>6, <2>7, <2>8, <2>9 DEF Next, ExitStep
<1> QED
  BY <1>1, <1>2, Safe, PTL DEF Spec
=============================================================================
