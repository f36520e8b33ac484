-------------------------- MODULE EvalStoreProofs --------------------------
(***************************************************************************)
(* EvalStore keeps its types, its refs complete and its failures justified *)
(* for every set of revisions, requests, environments and evaluators, and  *)
(* never recomputes what it has.  All of it rests on one invariant, IInv:  *)
(* what each process has already written before each of its steps.         *)
(***************************************************************************)
EXTENDS EvalStore, TLAPS

-----------------------------------------------------------------------------
(* The invariant.                                                          *)

\* A commit has put what it is past; a manifest in the store is complete.
CommitInv(r) ==
  /\ commit[r] \in {"params", "manifest", "lineage", "ref", "done"} => Structure(r) \in objects
  /\ commit[r] \in {"manifest", "lineage", "ref", "done"} => Params(r) \in objects
  /\ commit[r] \in {"lineage", "ref", "done"} => Manifest(r) \in objects
  /\ commit[r] \in {"ref", "done"} => Manifest(r) \in lineage
  /\ commit[r] # "parent" /\ ParentOf[r] # None => Manifest(ParentOf[r]) \in objects
  /\ r \in revRef => commit[r] = "done"
  /\ Manifest(r) \in objects => ManifestInputs(r) \subseteq objects

\* The entry of a key is complete and of that key.
RefInv(k) ==
  resRef[k] # None =>
    /\ resRef[k].key = k
    /\ Stored(resRef[k]) \in lineage
    /\ {Stored(resRef[k])} \union ResultInputs(k) \subseteq objects

Started == {"lookup", "replay", "manifest", "docs", "putBound", "putMaterialized",
            "stages", "putResult", "lineage", "ref", "write", "exit"}

\* What an evaluator holds.
HoldInv(e) ==
  /\ Alive(e) => dir[e] \in Dirs /\ env[e] \in Envs
  /\ ~Alive(e) => dir[e] = None /\ got[e] = None
  /\ At(e, "read") => request[dir[e]] \in Requests
  /\ pc[e] \in Started => req[e] \in Requests
  /\ code[e] # None => At(e, "dead")
  /\ pc[e] \in {"putResult", "lineage", "ref"} => got[e] = Computed(req[e], env[e])
  /\ pc[e] \in {"replay", "write", "exit"} /\ got[e] # Failure =>
       got[e] \in Results /\ got[e].key = MyKey(e)
  /\ pc[e] # "exit" /\ Alive(e) => answer[e] = None /\ asked[e] = None
  /\ At(e, "unborn") => answer[e] = None /\ asked[e] = None

\* What the store held when it began, it holds still.
EarlyInv(e) ==
  pc[e] \in Started =>
    /\ early[e].manifest => Manifest(req[e].rev) \in objects
    /\ early[e].result => resRef[MyKey(e)] # None
    /\ pc[e] \in {"manifest", "docs", "putBound", "putMaterialized", "stages"} => ~early[e].result

\* What it has found in the store or written to it.
WroteInv(e) ==
  /\ pc[e] \in {"docs", "putBound", "putMaterialized", "stages", "putResult", "lineage", "ref"} =>
       Manifest(req[e].rev) \in objects
  /\ pc[e] \in {"putMaterialized", "stages", "putResult", "lineage", "ref"} =>
       Bound(req[e].rev, req[e].bind) \in objects
  /\ pc[e] \in {"stages", "putResult", "lineage", "ref"} =>
       Materialized(req[e].rev, req[e].bind) \in objects
  /\ pc[e] \in {"lineage", "ref"} => Stored(got[e]) \in objects
  /\ At(e, "ref") => Stored(got[e]) \in lineage
  /\ At(e, "replay") => got[e] # Failure /\ Stored(got[e]) \in objects
  /\ pc[e] \in {"replay", "write", "exit"} /\ got[e] # Failure => resRef[MyKey(e)] # None
  /\ got[e] = Failure =>
       /\ pc[e] \in {"write", "exit"}
       /\ ~early[e].manifest \/ Fate[req[e].bind] # "ok"

RunInv(e) == HoldInv(e) /\ EarlyInv(e) /\ WroteInv(e)

\* A directory nobody was lost in has one evaluator at a time, its caller's, and
\* result.json is that evaluator's once it has ended well.
DirInv(d) ==
  /\ caller[d] # None => request[d] \in Requests /\ ~At(caller[d], "unborn")
  /\ d \notin lost =>
       \A e \in Evaluators :
         /\ dir[e] = d => caller[d] = e
         /\ caller[d] = e =>
              /\ Alive(e) => dir[e] = d
              /\ pc[e] \in Started => req[e] = request[d]
              /\ At(e, "exit") /\ got[e] # Failure => result[d] = got[e]
              /\ code[e] = "ok" => /\ result[d] \in Results
                                   /\ result[d].key.rev = request[d].rev
                                   /\ result[d].key.bind = request[d].bind

IInv ==
  /\ TypeOK
  /\ \A r \in Revs : CommitInv(r)
  /\ \A k \in Keys : RefInv(k)
  /\ \A e \in Evaluators : RunInv(e)
  /\ \A d \in Dirs : DirInv(d)
  /\ OutcomeOfRequest

-----------------------------------------------------------------------------
(* Types of the documents.                                                 *)

LEMMA ComputedType ==
  ASSUME NEW q \in Requests, NEW v \in Envs
  PROVE  Computed(q, v) \in Results /\ Computed(q, v).key = Key(q, v) /\ Key(q, v) \in Keys
BY DEF Requests, Computed, Results, Key, Keys

LEMMA InitInv == Init => IInv
<1> SUFFICES ASSUME Init PROVE IInv
  OBVIOUS
<1> USE DEF Init
<1>1. TypeOK
  BY DEF TypeOK, Opt, Commits, Labels
<1>2. \A r \in Revs : CommitInv(r)
  BY DEF CommitInv
<1>3. \A k \in Keys : RefInv(k)
  BY DEF RefInv
<1>4. \A e \in Evaluators : RunInv(e)
  BY NoneAssumption DEF RunInv, HoldInv, EarlyInv, WroteInv, Alive, At, Started
<1>5. \A d \in Dirs : DirInv(d)
  BY NoneAssumption DEF DirInv
<1>6. OutcomeOfRequest
  BY DEF OutcomeOfRequest
<1> QED
  BY <1>1, <1>2, <1>3, <1>4, <1>5, <1>6 DEF IInv

-----------------------------------------------------------------------------
(* What a step leaves alone.                                               *)

\* The store only grows, and an entry of the cache may be replaced but not lost.
Grows ==
  /\ objects \subseteq objects'
  /\ lineage \subseteq lineage'
  /\ \A k \in Keys : resRef[k] # None => resRef'[k] # None

Keeps(e) ==
  /\ pc'[e] = pc[e] /\ dir'[e] = dir[e] /\ env'[e] = env[e] /\ req'[e] = req[e]
  /\ got'[e] = got[e] /\ code'[e] = code[e]
  /\ answer'[e] = answer[e] /\ asked'[e] = asked[e] /\ early'[e] = early[e]

\* No new manifest and no other change to the commits.
KeepsCommits ==
  /\ commit' = commit /\ revRef' = revRef
  /\ \A r \in Revs : Manifest(r) \in objects' => Manifest(r) \in objects

LEMMA KeepsRun ==
  ASSUME TypeOK, Grows, NEW e \in Evaluators, Keeps(e), RunInv(e),
         At(e, "read") => request'[dir[e]] \in Requests
  PROVE  RunInv(e)'
<1>1. pc[e] \in Started => MyKey(e) \in Keys
  BY DEF TypeOK, Opt, RunInv, HoldInv, Started, MyKey, Key, Keys, Requests, Alive, Labels
<1>2. MyKey(e)' = MyKey(e)
  BY DEF Keeps, MyKey, Key
<1>3. HoldInv(e)'
  BY <1>2 DEF RunInv, HoldInv, Keeps, Alive, At, Computed
<1>4. EarlyInv(e)'
  BY <1>1, <1>2 DEF RunInv, EarlyInv, Keeps, Grows, Manifest
<1>5. WroteInv(e)'
  BY <1>1, <1>2 DEF RunInv, WroteInv, Keeps, Grows, Manifest, Bound, Materialized, Stored, At, Started
<1> QED
  BY <1>3, <1>4, <1>5 DEF RunInv

LEMMA KeepsCommit ==
  ASSUME Grows, KeepsCommits, NEW r \in Revs, CommitInv(r)
  PROVE  CommitInv(r)'
BY DEF Grows, KeepsCommits, CommitInv, Structure, Params, Manifest, ManifestInputs

LEMMA KeepsRef ==
  ASSUME Grows, NEW k \in Keys, RefInv(k), resRef'[k] = resRef[k]
  PROVE  RefInv(k)'
BY DEF Grows, RefInv, Stored, ResultInputs, Manifest, Bound, Materialized

-----------------------------------------------------------------------------
(* The steps of an evaluator.                                              *)

\* What IInv says of one evaluator and its request.
LEMMA RunFacts ==
  ASSUME IInv, NEW e \in Evaluators
  PROVE  /\ TypeOK /\ HoldInv(e) /\ EarlyInv(e) /\ WroteInv(e)
         /\ Alive(e) => env[e] \in Envs /\ dir[e] \in Dirs
         /\ pc[e] \in Started =>
              /\ req[e] \in Requests
              /\ MyKey(e) \in Keys
              /\ Computed(req[e], env[e]) \in Results
              /\ Computed(req[e], env[e]).key = MyKey(e)
         /\ got[e] \in Results => got[e] # None /\ got[e] # Failure
<1>1. TypeOK /\ HoldInv(e) /\ EarlyInv(e) /\ WroteInv(e)
  BY DEF IInv, RunInv
<1>2. Alive(e) => env[e] \in Envs /\ dir[e] \in Dirs
  BY <1>1 DEF HoldInv
<1>3. pc[e] \in Started => Alive(e) /\ req[e] \in Requests
  BY <1>1 DEF HoldInv, Started, Alive
<1> QED
  BY <1>1, <1>2, <1>3, ComputedType, NoneAssumption DEF MyKey

LEMMA EvalFrame ==
  ASSUME IInv, NEW e \in Evaluators, Evaluate(e) \/ Killed(e)
  PROVE  /\ Grows /\ KeepsCommits
         /\ \A f \in Evaluators \ {e} : Keeps(f)
         /\ UNCHANGED <<request, caller, lost, outcome>>
         /\ Alive(e)
         /\ \A d \in Dirs : ~At(e, "write") \/ d # dir[e] => result'[d] = result[d]
<1> USE RunFacts DEF Grows, KeepsCommits, Keeps, TypeOK, Manifest, At, Alive, Goto, Step
<1>1. CASE ReadRequest(e)
  BY <1>1 DEF ReadRequest, storeVars, callVars
<1>2. CASE Lookup(e)
  BY <1>2 DEF Lookup, storeVars, callVars, histVars
<1>3. CASE Replay(e)
  BY <1>3 DEF Replay, Fail, storeVars, callVars, histVars
<1>4. CASE LoadManifest(e)
  BY <1>4 DEF LoadManifest, Fail, storeVars, callVars, histVars
<1>5. CASE LoadDocs(e)
  BY <1>5 DEF LoadDocs, Fail, storeVars, callVars, histVars
<1>6. CASE PutBound(e)
  BY <1>6 DEF PutBound, Bound, callVars, histVars
<1>7. CASE PutMaterialized(e)
  BY <1>7 DEF PutMaterialized, Materialized, callVars, histVars
<1>8. CASE RunStages(e)
  BY <1>8 DEF RunStages, Fail, storeVars, callVars, histVars
<1>9. CASE PutResult(e)
  BY <1>9 DEF PutResult, Stored, callVars, histVars
<1>10. CASE RecordLineage(e)
  BY <1>10 DEF RecordLineage, callVars, histVars
<1>11. CASE SetRef(e)
  <2>1. got[e] \in Results
    BY <1>11 DEF SetRef, HoldInv, Started
  <2> QED
    BY <1>11, <2>1 DEF SetRef, callVars, histVars
<1>12. CASE WriteResult(e)
  BY <1>12 DEF WriteResult, storeVars
<1>13. CASE Exit(e) \/ Killed(e)
  BY <1>13 DEF Exit, Killed, Dies, storeVars, callVars
<1> QED
  BY <1>1, <1>2, <1>3, <1>4, <1>5, <1>6, <1>7, <1>8, <1>9, <1>10, <1>11, <1>12, <1>13
     DEF Evaluate

\* An evaluator keeps its own part of the invariant.
LEMMA OwnStep ==
  ASSUME IInv, NEW e \in Evaluators, Evaluate(e) \/ Killed(e)
  PROVE  RunInv(e)'
<1> USE RunFacts
<1>1. CASE ReadRequest(e)
  <2>1. /\ pc'[e] = "lookup" /\ req'[e] = request[dir[e]] /\ request[dir[e]] \in Requests
        /\ early'[e] = [result   |-> resRef[Key(request[dir[e]], env[e])] # None,
                        manifest |-> Manifest(request[dir[e]].rev) \in objects]
        /\ dir'[e] = dir[e] /\ env'[e] = env[e] /\ got'[e] = got[e] /\ code'[e] = code[e]
        /\ answer'[e] = answer[e] /\ asked'[e] = asked[e] /\ resRef' = resRef /\ objects' = objects
        /\ dir[e] \in Dirs /\ env[e] \in Envs /\ answer[e] = None /\ asked[e] = None /\ code[e] = None
        /\ got[e] # Failure
    BY <1>1 DEF ReadRequest, storeVars, callVars, TypeOK, HoldInv, WroteInv, At, Alive, Step, Goto
  <2>2. MyKey(e)' = Key(request[dir[e]], env[e])
    BY <2>1 DEF MyKey, Key
  <2>3. HoldInv(e)'
    BY <2>1 DEF HoldInv, Alive, At, Started
  <2>4. EarlyInv(e)'
    <3> DEFINE hit   == resRef[Key(request[dir[e]], env[e])] # None
               known == Manifest(request[dir[e]].rev) \in objects
    <3> HIDE DEF hit, known
    <3>0. early'[e] = [result |-> hit, manifest |-> known]
      BY ONLY <2>1 DEF hit, known
    <3>1. early'[e].result = hit
      BY ONLY <3>0
    <3>2. early'[e].manifest = known
      BY ONLY <3>0
    <3> QED
      BY <2>1, <2>2, <3>1, <3>2 DEF EarlyInv, Manifest, hit, known
  <2>5. WroteInv(e)'
    BY <2>1 DEF WroteInv, At
  <2> QED
    BY <2>3, <2>4, <2>5 DEF RunInv
<1>2. CASE Lookup(e)
  <2> DEFINE found == resRef[MyKey(e)]
  <2>1. At(e, "lookup") /\ pc[e] \in Started /\ pc[e] # "read" /\ got[e] # Failure
    BY <1>2 DEF Lookup, At, Started, WroteInv
  <2>2. found # None => /\ found \in Results /\ found.key = MyKey(e)
                        /\ found # Failure /\ Stored(found) \in objects
    <3>1. MyKey(e) \in Keys
      BY <2>1
    <3>2. found \in Opt(Results)
      BY <3>1 DEF TypeOK
    <3> QED
      BY <3>1, <3>2, NoneAssumption DEF IInv, RefInv, Opt
  <2>3. /\ pc'[e] = IF found # None THEN "replay" ELSE "manifest"
        /\ got'[e] = found
        /\ dir'[e] = dir[e] /\ env'[e] = env[e] /\ req'[e] = req[e] /\ code'[e] = code[e]
       
  /\ answer'[e] = answer[e] /\ asked'[e] = asked[e] /\ early'[e] = early[e]
        /\ resRef' = resRef /\ objects' = objects
    BY <1>2 DEF Lookup, storeVars, callVars, histVars, TypeOK, Goto
  <2>4. MyKey(e)' = MyKey(e)
    BY <2>3 DEF MyKey, Key
  <2>5. HoldInv(e)'
    BY <2>1, <2>2, <2>3, <2>4 DEF HoldInv, Alive, At, Started
  <2>6. EarlyInv(e)'
    BY <2>1, <2>3, <2>4 DEF EarlyInv, Manifest
  <2>7. WroteInv(e)'
    BY <2>1, <2>2, <2>3, <2>4, NoneAssumption DEF WroteInv, At, Stored
  <2> QED
    BY <2>5, <2>6, <2>7 DEF RunInv
<1>3. CASE Replay(e)
  BY <1>3, NoneAssumption
  DEF Replay, Fail, storeVars, callVars, histVars, Manifest, TypeOK, RunInv, HoldInv, EarlyInv,
      WroteInv, At, Alive, Goto, MyKey, Key, Started
<1>4. CASE LoadManifest(e)
  BY <1>4, NoneAssumption
  DEF LoadManifest, Fail, storeVars, callVars, histVars, Manifest, TypeOK, RunInv, HoldInv,
      EarlyInv, WroteInv, At, Alive, Goto, MyKey, Key, Started
<1>5. CASE LoadDocs(e)
  <2>1. {Structure(req[e].rev), Params(req[e].rev)} \subseteq objects
    BY <1>5 DEF LoadDocs, IInv, CommitInv, ManifestInputs, Requests, WroteInv, At, Started
  <2> QED
    BY <1>5, <2>1, NoneAssumption
    DEF LoadDocs, Fail, storeVars, callVars, histVars, Manifest, TypeOK, RunInv, HoldInv,
        EarlyInv, WroteInv, At, Alive, Goto, MyKey, Key, Started
<1>6. CASE PutBound(e)
  BY <1>6, NoneAssumption
  DEF PutBound, callVars, histVars, Manifest, Bound, TypeOK, RunInv, HoldInv, EarlyInv,
      WroteInv, At, Alive, Goto, Step, MyKey, Key, Started
<1>7. CASE PutMaterialized(e)
  BY <1>7, NoneAssumption
  DEF PutMaterialized, callVars, histVars, Manifest, Bound, Materialized, TypeOK, RunInv,
      HoldInv, EarlyInv, WroteInv, At, Alive, Goto, Step, MyKey, Key, Started
<1>8. CASE RunStages(e)
  <2>1. /\ At(e, "stages") /\ pc[e] \in Started
        /\ Computed(req[e], env[e]) # Failure
    <3>1. At(e, "stages")
      BY <1>8 DEF RunStages
    <3>2. pc[e] \in Started
      BY <3>1 DEF At, Started
    <3>3. Computed(req[e], env[e]) \in Results
      BY <3>2
    <3> QED
      BY <3>1, <3>2, <3>3, NoneAssumption
  <2>2. /\ \/ pc'[e] = "write" /\ got'[e] = Failure /\ Fate[req[e].bind] # "ok"
           \/ pc'[e] = "putResult" /\ got'[e] = Computed(req[e], env[e])
        /\ dir'[e] = dir[e] /\ env'[e] = env[e] /\ req'[e] = req[e] /\ code'[e] = code[e]
       
  /\ answer'[e] = answer[e] /\ asked'[e] = asked[e] /\ early'[e] = early[e]
        /\ resRef' = resRef /\ objects' = objects
    BY <1>8 DEF RunStages, Fail, Goto, storeVars, callVars, histVars, TypeOK
  <2>3. HoldInv(e)'
    <3>1. Computed(req[e], env[e])' = Computed(req[e], env[e])
      BY <2>2 DEF Computed
    <3> QED
      BY <2>1, <2>2, <3>1 DEF HoldInv, Alive, At, Started
  <2>4. EarlyInv(e)'
    BY <2>1, <2>2 DEF EarlyInv, Manifest, Started, MyKey, Key
  <2>5. WroteInv(e)'
    BY <2>1, <2>2 DEF WroteInv, At, Manifest, Bound, Materialized
  <2> QED
    BY <2>3, <2>4, <2>5 DEF RunInv
<1>9. CASE PutResult(e)
  <2>1. /\ At(e, "putResult") /\ pc[e] \in Started /\ got[e] = Computed(req[e], env[e])
    BY <1>9 DEF PutResult, At, Started, Step, HoldInv
  <2>2. /\ pc'[e] = "lineage" /\ objects' = objects \union {Stored(got[e])}
        /\ UNCHANGED <<dir, env, req, got, code, answer, asked, early, resRef>>
    BY <1>9 DEF PutResult, Step, Goto, callVars, histVars, TypeOK
  <2>3. HoldInv(e)'
    BY <2>1, <2>2 DEF HoldInv, Alive, At, Started, Computed
  <2>4. EarlyInv(e)'
    BY <2>1, <2>2 DEF EarlyInv, Manifest, MyKey, Key
  <2>5. WroteInv(e)'
    BY <2>1, <2>2 DEF WroteInv, At, Manifest, Bound, Materialized, Stored
  <2> QED
    BY <2>3, <2>4, <2>5 DEF RunInv
<1>10. CASE RecordLineage(e)
  <2>1. /\ At(e, "lineage") /\ pc[e] \in Started /\ got[e] = Computed(req[e], env[e])
    BY <1>10 DEF RecordLineage, At, Started, Step, HoldInv
  <2>2. /\ pc'[e] = "ref" /\ lineage' = lineage \union {Stored(got[e])}
        /\ UNCHANGED <<dir, env, req, got, code, answer, asked, early, resRef, objects>>
    BY <1>10 DEF RecordLineage, Step, Goto, callVars, histVars, TypeOK
  <2>3. HoldInv(e)'
    BY <2>1, <2>2 DEF HoldInv, Alive, At, Started, Computed
  <2>4. EarlyInv(e)'
    BY <2>1, <2>2 DEF EarlyInv, Manifest, MyKey, Key
  <2>5. WroteInv(e)'
    BY <2>1, <2>2 DEF WroteInv, At, Manifest, Bound, Materialized, Stored
  <2> QED
    BY <2>3, <2>4, <2>5 DEF RunInv
<1>11. CASE SetRef(e)
  <2>1. /\ At(e, "ref") /\ pc[e] \in Started
        /\ got[e] \in Results /\ got[e].key = MyKey(e) /\ MyKey(e) \in Keys
        /\ got[e] # None /\ got[e] # Failure
    BY <1>11 DEF SetRef, At, Started, Step, HoldInv
  <2>2. /\ pc'[e] = "write" /\ resRef' = [resRef EXCEPT ![MyKey(e)] = got[e]]
        /\ UNCHANGED <<dir, env, req, got, code, answer, asked, early, objects, lineage>>
    BY <1>11 DEF SetRef, Step, Goto, callVars, histVars, TypeOK
  <2>3. resRef'[MyKey(e)] # None /\ MyKey(e)' = MyKey(e)
    BY <2>1, <2>2 DEF TypeOK, MyKey, Key
  <2>4. HoldInv(e)'
    BY <2>1, <2>2, <2>3 DEF HoldInv, Alive, At, Started, Computed
  <2>5. EarlyInv(e)'
    BY <2>1, <2>2, <2>3 DEF EarlyInv, Manifest
  <2>6. WroteInv(e)'
    BY <2>1, <2>2, <2>3 DEF WroteInv, At
  <2> QED
    BY <2>4, <2>5, <2>6 DEF RunInv
<1>12. CASE WriteResult(e)
  BY <1>12, NoneAssumption
  DEF WriteResult, storeVars, Manifest, TypeOK, RunInv, HoldInv, EarlyInv, WroteInv, At, Alive,
      Goto, Step, MyKey, Key, Started
<1>13. CASE Exit(e) \/ Killed(e)
  <2>1. /\ pc'[e] = "dead" /\ dir'[e] = None /\ got'[e] = None
    BY <1>13 DEF Exit, Killed, Dies, Goto, TypeOK
  <2>2. HoldInv(e)'
    BY <2>1 DEF HoldInv, Alive, At, Started
  <2>3. EarlyInv(e)' /\ WroteInv(e)'
    BY <2>1, NoneAssumption DEF EarlyInv, WroteInv, At, Started
  <2> QED
    BY <2>2, <2>3 DEF RunInv
<1> QED
  BY <1>1, <1>2, <1>3, <1>4, <1>5, <1>6, <1>7, <1>8, <1>9, <1>10, <1>11, <1>12, <1>13
     DEF Evaluate
\* An evaluator reads the request of its own directory, writes its result there
\* before it ends, and ends well only with a result.
LEMMA EvalOwn ==
  ASSUME IInv, NEW e \in Evaluators, Evaluate(e) \/ Killed(e)
  PROVE  /\ pc'[e] # "unborn"
         /\ dir'[e] # None => dir'[e] = dir[e]
         /\ Alive(e)' => dir'[e] = dir[e]
         /\ pc'[e] \in Started =>
              \/ At(e, "read") /\ req'[e] = request[dir[e]]
              \/ pc[e] \in Started /\ req'[e] = req[e]
         /\ pc'[e] = "exit" =>
              At(e, "write") /\ got'[e] = got[e] /\ result'[dir[e]] = got[e]
         /\ code'[e] = "ok" =>
              At(e, "exit") /\ got[e] # Failure /\ result' = result /\ objects' = objects
<1>0. code[e] # "ok" /\ dir[e] \in Dirs /\ pc[e] # "unborn"
  <2>1. Alive(e) /\ HoldInv(e)
    BY EvalFrame, RunFacts
  <2> QED
    BY <2>1, NoneAssumption DEF HoldInv, Alive, At
<1> USE RunFacts DEF HoldInv, Started, At, Alive, Goto, Step, TypeOK
<1>1. CASE ReadRequest(e)
  BY <1>0, <1>1 DEF ReadRequest, storeVars, callVars
<1>2. CASE Lookup(e)
  BY <1>0, <1>2 DEF Lookup, storeVars, callVars, histVars
<1>3. CASE Replay(e)
  BY <1>0, <1>3 DEF Replay, Fail, storeVars, callVars, histVars
<1>4. CASE LoadManifest(e)
  BY <1>0, <1>4 DEF LoadManifest, Fail, storeVars, callVars, histVars
<1>5. CASE LoadDocs(e)
  BY <1>0, <1>5 DEF LoadDocs, Fail, storeVars, callVars, histVars
<1>6. CASE PutBound(e)
  BY <1>0, <1>6 DEF PutBound, callVars, histVars
<1>7. CASE PutMaterialized(e)
  BY <1>0, <1>7 DEF PutMaterialized, callVars, histVars
<1>8. CASE RunStages(e)
  BY <1>0, <1>8 DEF RunStages, Fail, storeVars, callVars, histVars
<1>9. CASE PutResult(e)
  BY <1>0, <1>9 DEF PutResult, callVars, histVars
<1>10. CASE RecordLineage(e)
  BY <1>0, <1>10 DEF RecordLineage, callVars, histVars
<1>11. CASE SetRef(e)
  BY <1>0, <1>11 DEF SetRef, callVars, histVars
<1>12. CASE WriteResult(e)
  <2>1. /\ pc'[e] = "exit" /\ pc[e] = "write"
        /\ UNCHANGED <<dir, req, got, code>>
        /\ result' = [result EXCEPT ![dir[e]] = got[e]]
    BY <1>12 DEF WriteResult
  <2>2. result'[dir[e]] = got[e]
    BY <1>0, <2>1
  <2> QED
    BY <1>0, <2>1, <2>2
<1>13. CASE Exit(e) \/ Killed(e)
  BY <1>0, <1>13 DEF Exit, Killed, Dies, storeVars, callVars
<1> QED
  BY <1>1, <1>2, <1>3, <1>4, <1>5, <1>6, <1>7, <1>8, <1>9, <1>10, <1>11, <1>12, <1>13
     DEF Evaluate

\* Only SetRef changes an entry, and what it puts there is complete.
LEMMA RefStep ==
  ASSUME IInv, NEW e \in Evaluators, Evaluate(e) \/ Killed(e), NEW k \in Keys
  PROVE  RefInv(k)'
<1>0. RefInv(k) /\ Grows
  BY EvalFrame DEF IInv
<1>1. CASE SetRef(e) /\ k = MyKey(e)
  <2>1. /\ At(e, "ref") /\ req[e] \in Requests
        /\ got[e] = Computed(req[e], env[e]) /\ got[e].key = k
        /\ WroteInv(e)
    BY <1>1, RunFacts DEF SetRef, Step, At, Started, HoldInv
  <2>2. resRef'[k] = got[e] /\ objects' = objects /\ lineage' = lineage
    BY <1>1, RunFacts DEF SetRef, TypeOK
  <2>3. k.rev = req[e].rev /\ k.bind = req[e].bind
    BY <1>1 DEF MyKey, Key
  <2>4. /\ Stored(got[e]) \in lineage /\ Stored(got[e]) \in objects
        /\ Manifest(k.rev) \in objects /\ Bound(k.rev, k.bind) \in objects
        /\ Materialized(k.rev, k.bind) \in objects
    BY <2>1, <2>3 DEF WroteInv, At
  <2> QED
    BY <2>1, <2>2, <2>4 DEF RefInv, Stored, ResultInputs, Manifest, Bound, Materialized
<1>2. CASE SetRef(e) /\ k # MyKey(e)
  <2>1. resRef'[k] = resRef[k]
    BY <1>2, RunFacts DEF SetRef, TypeOK
  <2> QED
    BY <1>0, <2>1, KeepsRef
<1>3. CASE ~SetRef(e)
  <2>1. resRef' = resRef
    BY <1>3 DEF Evaluate, Killed, ReadRequest, Lookup, Replay, LoadManifest, LoadDocs, PutBound,
                PutMaterialized, RunStages, PutResult, RecordLineage, WriteResult, Exit, Dies,
                storeVars
  <2> QED
    BY <1>0, <2>1, KeepsRef
<1> QED
  BY <1>1, <1>2, <1>3

\* The work directories after a step of an evaluator.
LEMMA EvalDirStep ==
  ASSUME IInv, NEW e \in Evaluators, Evaluate(e) \/ Killed(e), NEW d \in Dirs
  PROVE  DirInv(d)'
<1>1. /\ request' = request /\ caller' = caller /\ lost' = lost
      /\ Alive(e) /\ dir[e] \in Dirs /\ code[e] = None /\ DirInv(d)
      /\ \A f \in Evaluators \ {e} : Keeps(f)
  BY EvalFrame, RunFacts, NoneAssumption DEF IInv, HoldInv, Alive, At
<1>2. caller'[d] # None => request'[d] \in Requests /\ ~At(caller[d], "unborn")'
  <2> SUFFICES ASSUME caller[d] # None
               PROVE  ~At(caller[d], "unborn")'
    BY <1>1 DEF DirInv
  <2>1. caller[d] \in Evaluators /\ pc[caller[d]] # "unborn"
    BY <1>1, RunFacts DEF TypeOK, Opt, DirInv, At
  <2> QED
    BY <1>1, <2>1, EvalOwn DEF At, Keeps
<1>3. ASSUME d \notin lost, NEW f \in Evaluators \ {e}
      PROVE  /\ dir'[f] = d => caller'[d] = f
             /\ caller'[d] = f =>
                  /\ Alive(f)' => dir'[f] = d
                  /\ pc'[f] \in Started => req'[f] = request'[d]
                  /\ pc'[f] = "exit" /\ got'[f] # Failure => result'[d] = got'[f]
                  /\ code'[f] = "ok" => /\ result'[d] \in Results
                                        /\ result'[d].key.rev = request'[d].rev
                                        /\ result'[d].key.bind = request'[d].bind
  <2>1. caller[d] = f => result'[d] = result[d]
    BY <1>1, <1>3, EvalFrame DEF DirInv
  <2> QED
    BY <1>1, <1>3, <2>1 DEF DirInv, Keeps, Alive, At
<1>4. ASSUME d \notin lost
      PROVE  /\ dir'[e] = d => caller'[d] = e
             /\ caller'[d] = e =>
                  /\ Alive(e)' => dir'[e] = d
                  /\ pc'[e] \in Started => req'[e] = request'[d]
                  /\ pc'[e] = "exit" /\ got'[e] # Failure => result'[d] = got'[e]
                  /\ code'[e] = "ok" => /\ result'[d] \in Results
                                        /\ result'[d].key.rev = request'[d].rev
                                        /\ result'[d].key.bind = request'[d].bind
  <2>1. dir'[e] = d => caller'[d] = e
    BY <1>1, <1>4, EvalOwn, NoneAssumption DEF DirInv
  <2>2. caller[d] = e => dir[e] = d /\ (pc[e] \in Started => req[e] = request[d])
    BY <1>1, <1>4 DEF DirInv
  <2>3. ASSUME caller[d] = e, code'[e] = "ok"
        PROVE  /\ result'[d] \in Results
               /\ result'[d].key.rev = request'[d].rev
               /\ result'[d].key.bind = request'[d].bind
    <3>1. At(e, "exit") /\ got[e] # Failure /\ result' = result
      BY <2>3, EvalOwn
    <3>2. result[d] = got[e]
      BY <1>1, <1>4, <2>3, <3>1 DEF DirInv
    <3>3. got[e] \in Results /\ got[e].key = MyKey(e) /\ req[e] = request[d]
      BY <2>2, <2>3, <3>1, RunFacts DEF HoldInv, At, Started
    <3> QED
      BY <1>1, <3>1, <3>2, <3>3 DEF MyKey, Key
  <2> QED
    BY <1>1, <2>1, <2>2, <2>3, EvalOwn
<1> QED
  BY <1>1, <1>2, <1>3, <1>4 DEF DirInv, Alive, At
LEMMA EvalTypeStep ==
  ASSUME IInv, NEW e \in Evaluators, Evaluate(e) \/ Killed(e)
  PROVE  TypeOK'
<1> USE DEF TypeOK, Opt, Goto, Step, At, Labels
<1>0. /\ TypeOK
      /\ pc[e] \in Started => /\ req[e] \in Requests /\ MyKey(e) \in Keys
                              /\ Computed(req[e], env[e]) \in Results
      /\ Alive(e) => env[e] \in Envs /\ dir[e] \in Dirs
  BY RunFacts
<1>1. CASE ReadRequest(e)
  <2>1. dir[e] \in Dirs
    BY <1>0, <1>1 DEF ReadRequest, Alive
  <2>2. early' \in [Evaluators -> Opt([result : BOOLEAN, manifest : BOOLEAN])]
    BY <1>0, <1>1 DEF ReadRequest
  <2> QED
    BY <1>0, <1>1, <2>1, <2>2 DEF ReadRequest, storeVars, callVars
<1>2. CASE Lookup(e)
  BY <1>0, <1>2 DEF Lookup, storeVars, callVars, histVars, Started
<1>3. CASE Replay(e)
  BY <1>0, <1>3 DEF Replay, Fail, storeVars, callVars, histVars
<1>4. CASE LoadManifest(e)
  BY <1>0, <1>4 DEF LoadManifest, Fail, storeVars, callVars, histVars
<1>5. CASE LoadDocs(e)
  BY <1>0, <1>5 DEF LoadDocs, Fail, storeVars, callVars, histVars
<1>6. CASE PutBound(e)
  BY <1>0, <1>6 DEF PutBound, callVars, histVars
<1>7. CASE PutMaterialized(e)
  BY <1>0, <1>7 DEF PutMaterialized, callVars, histVars
<1>8. CASE RunStages(e)
  BY <1>0, <1>8 DEF RunStages, Fail, storeVars, callVars, histVars, Started
<1>9. CASE PutResult(e)
  BY <1>0, <1>9 DEF PutResult, callVars, histVars
<1>10. CASE RecordLineage(e)
  <2>1. Stored(got[e]) \in objects
    BY <1>10, RunFacts DEF RecordLineage, WroteInv
  <2> QED
    BY <1>0, <1>10, <2>1 DEF RecordLineage, callVars, histVars
<1>11. CASE SetRef(e)
  <2>1. MyKey(e) \in Keys /\ got[e] \in Results
    BY <1>0, <1>11, RunFacts DEF SetRef, Started, HoldInv
  <2> QED
    BY <1>0, <1>11, <2>1 DEF SetRef, callVars, histVars
<1>12. CASE WriteResult(e)
  <2>1. req[e] \in Requests /\ env[e] \in Envs
    BY <1>0, <1>12 DEF WriteResult, Started, Alive
  <2>2. result' \in [Dirs -> Opt(Results) \union {Failure}]
    BY <1>0, <1>12 DEF WriteResult
  <2>3. answer' \in [Evaluators -> Opt(Results)]
    BY <1>0, <1>12 DEF WriteResult
  <2>4. asked' \in [Evaluators -> Opt(Requests \X Envs)]
    BY <1>0, <1>12, <2>1 DEF WriteResult
  <2> QED
    BY <1>0, <1>12, <2>2, <2>3, <2>4 DEF WriteResult, storeVars
<1>13. CASE Exit(e) \/ Killed(e)
  BY <1>0, <1>13 DEF Exit, Killed, Dies, storeVars, callVars
<1> QED
  BY <1>1, <1>2, <1>3, <1>4, <1>5, <1>6, <1>7, <1>8, <1>9, <1>10, <1>11, <1>12, <1>13
     DEF Evaluate

LEMMA EvaluatorStep ==
  ASSUME IInv, NEW e \in Evaluators, Evaluate(e) \/ Killed(e)
  PROVE  IInv'
<1>1. /\ Grows /\ KeepsCommits /\ Alive(e)
      /\ \A f \in Evaluators \ {e} : Keeps(f)
      /\ UNCHANGED <<request, caller, lost, outcome>>
  BY EvalFrame
<1>2. TypeOK'
  BY EvalTypeStep
<1>3. \A r \in Revs : CommitInv(r)'
  BY <1>1, KeepsCommit DEF IInv
<1>4. \A k \in Keys : RefInv(k)'
  BY RefStep
<1>5. \A f \in Evaluators : RunInv(f)'
  <2> SUFFICES ASSUME NEW f \in Evaluators \ {e}
               PROVE  RunInv(f)'
    BY OwnStep
  <2>1. At(f, "read") => request[dir[f]] \in Requests
    BY DEF IInv, RunInv, HoldInv
  <2> QED
    BY <1>1, <2>1, KeepsRun DEF IInv
<1>6. \A d \in Dirs : DirInv(d)'
  BY EvalDirStep
<1>7. OutcomeOfRequest'
  BY <1>1 DEF IInv, OutcomeOfRequest
<1> QED
  BY <1>2, <1>3, <1>4, <1>5, <1>6, <1>7 DEF IInv

-----------------------------------------------------------------------------
(* The steps of a commit and of a work directory.                          *)

\* A commit leaves every process, directory and cache entry as it was.
LEMMA CommitStepInv ==
  ASSUME IInv, NEW r \in Revs, Commit(r)
  PROVE  IInv'
<1>1. /\ UNCHANGED <<callVars, evalVars, histVars, resRef>>
      /\ Grows
  BY DEF Commit, CheckParent, CommitPut, CommitLineage, CommitRef, storeVars, Grows
<1>2. TypeOK'
  <2>1. Manifest(r) \in objects \/ ~CommitLineage(r)
    BY DEF IInv, CommitInv, CommitLineage, CommitStep
  <2> QED
    BY <1>1, <2>1 DEF IInv, TypeOK, Commit, CheckParent, CommitPut, CommitLineage, CommitRef,
       CommitStep, Commits, storeVars, callVars, evalVars, histVars
<1>3. ASSUME NEW s \in Revs
      PROVE  CommitInv(s)'
  <2>0. CommitInv(r) /\ CommitInv(s) /\ commit \in [Revs -> Commits]
    BY DEF IInv, TypeOK
  <2> USE <2>0 DEF CommitInv, CommitStep, Structure, Params, Manifest, ManifestInputs
  <2>1. CASE CheckParent(r)
    BY <2>1 DEF CheckParent, storeVars
  <2>2. CASE CommitPut(r)
    <3>1. lineage' = lineage /\ revRef' = revRef
      BY <2>2 DEF CommitPut
    <3>2. CASE /\ commit[r] = "structure" /\ commit' = [commit EXCEPT ![r] = "params"]
               /\ objects' = objects \union {Structure(r)}
      BY <3>1, <3>2
    <3>3. CASE /\ commit[r] = "params" /\ commit' = [commit EXCEPT ![r] = "manifest"]
               /\ objects' = objects \union {Params(r)}
      BY <3>1, <3>3
    <3>4. CASE /\ commit[r] = "manifest" /\ commit' = [commit EXCEPT ![r] = "lineage"]
               /\ objects' = objects \union {Manifest(r)}
      BY <3>1, <3>4
    <3> QED
      BY <2>2, <3>2, <3>3, <3>4 DEF CommitPut
  <2>3. CASE CommitLineage(r)
    BY <2>3 DEF CommitLineage
  <2>4. CASE CommitRef(r)
    BY <2>4 DEF CommitRef
  <2> QED
    BY <2>1, <2>2, <2>3, <2>4 DEF Commit
<1>4. \A k \in Keys : RefInv(k)'
  BY <1>1, KeepsRef DEF IInv
<1>5. ASSUME NEW e \in Evaluators
      PROVE  RunInv(e)'
  <2>1. Keeps(e) /\ request' = request
    BY <1>1 DEF Keeps, callVars, evalVars, histVars
  <2>2. At(e, "read") => request[dir[e]] \in Requests
    BY DEF IInv, RunInv, HoldInv
  <2> QED
    BY <1>1, <2>1, <2>2, KeepsRun DEF IInv
<1>6. ASSUME NEW d \in Dirs
      PROVE  DirInv(d)'
  BY <1>1 DEF IInv, DirInv, callVars, evalVars, At, Alive
<1>7. OutcomeOfRequest'
  BY <1>1 DEF IInv, OutcomeOfRequest, callVars
<1> QED
  BY <1>2, <1>3, <1>4, <1>5, <1>6, <1>7 DEF IInv

\* A call that touches neither the store nor a commit keeps their parts.
LEMMA CallFrame ==
  ASSUME IInv, UNCHANGED <<storeVars, commit>>
  PROVE  Grows /\ (\A r \in Revs : CommitInv(r)') /\ (\A k \in Keys : RefInv(k)')
<1>1. Grows /\ KeepsCommits /\ resRef' = resRef
  BY DEF Grows, KeepsCommits, storeVars
<1> QED
  BY <1>1, KeepsCommit, KeepsRef DEF IInv

LEMMA LaunchStep ==
  ASSUME IInv, NEW d \in Dirs, NEW q \in Requests, Launch(d, q)
  PROVE  IInv'
<1>1. PICK e \in Evaluators, v \in Envs :
        /\ pc[e] = "unborn"
        /\ pc' = [pc EXCEPT ![e] = "read"]
        /\ dir' = [dir EXCEPT ![e] = d]
        /\ env' = [env EXCEPT ![e] = v]
        /\ caller' = [caller EXCEPT ![d] = e]
  BY DEF Launch
<1>2. /\ caller[d] = None /\ request' = [request EXCEPT ![d] = q]
      /\ UNCHANGED <<storeVars, commit, result, lost, outcome, req, got, code, histVars>>
  BY DEF Launch
<1>3. TypeOK /\ RunInv(e) /\ e # None
  BY NoneAssumption DEF IInv
<1>4. Grows /\ (\A r \in Revs : CommitInv(r)') /\ (\A k \in Keys : RefInv(k)')
  BY <1>2, CallFrame
<1>5. TypeOK'
  BY <1>1, <1>2, <1>3 DEF TypeOK, Opt, Labels, storeVars, histVars
<1>6. \A x \in Dirs : request[x] \in Requests => request'[x] \in Requests
  BY <1>2, <1>3 DEF TypeOK
<1>7. RunInv(e)'
  <2>1. /\ pc'[e] = "read" /\ dir'[e] = d /\ env'[e] = v /\ request'[d] = q
        /\ got'[e] = got[e] /\ code'[e] = code[e] /\ answer'[e] = answer[e] /\ asked'[e] = asked[e]
    BY <1>1, <1>2, <1>3 DEF TypeOK, histVars
  <2>2. got[e] = None /\ code[e] = None /\ answer[e] = None /\ asked[e] = None
    BY <1>1, <1>3 DEF RunInv, HoldInv, Alive, At
  <2> QED
    BY <2>1, <2>2, NoneAssumption DEF RunInv, HoldInv, EarlyInv, WroteInv, At, Alive, Started
<1>8. ASSUME NEW f \in Evaluators \ {e}
      PROVE  RunInv(f)'
  <2>1. Keeps(f)
    BY <1>1, <1>2, <1>3 DEF TypeOK, Keeps, histVars
  <2>2. RunInv(f)
    BY DEF IInv
  <2>3. At(f, "read") => request'[dir[f]] \in Requests
    BY <1>6, <2>2 DEF RunInv, HoldInv, Alive, At
  <2> QED
    BY <1>3, <1>4, <2>1, <2>2, <2>3, KeepsRun
<1>9. ASSUME NEW x \in Dirs
      PROVE  DirInv(x)'
  <2>0. DirInv(x)
    BY DEF IInv
  <2>1. CASE x = d
    <3>1. /\ caller'[x] = e /\ request'[x] = q /\ pc'[e] = "read" /\ dir'[e] = x
          /\ code'[e] # "ok" /\ lost' = lost
      <4>1. code[e] = None
        BY <1>1, <1>3 DEF RunInv, HoldInv, At
      <4> QED
        BY <1>1, <1>2, <1>3, <2>1, <4>1, NoneAssumption DEF TypeOK
    <3>2. \A f \in Evaluators : f # e /\ x \notin lost => dir'[f] # x
      BY <1>1, <1>2, <1>3, <2>0, <2>1, NoneAssumption DEF DirInv, TypeOK
    <3> QED
      BY <3>1, <3>2 DEF DirInv, At, Started, Alive
  <2>2. CASE x # d
    <3>1. /\ caller'[x] = caller[x] /\ request'[x] = request[x] /\ caller'[x] # e
          /\ result' = result /\ lost' = lost
      BY <1>1, <1>2, <1>3, <2>0, <2>2 DEF DirInv, TypeOK, At
    <3>2. dir'[e] # x
      BY <1>1, <1>3, <2>2 DEF TypeOK
    <3>3. \A f \in Evaluators : f # e =>
            /\ pc'[f] = pc[f] /\ dir'[f] = dir[f] /\ req'[f] = req[f]
            /\ got'[f] = got[f] /\ code'[f] = code[f]
      BY <1>1, <1>2, <1>3 DEF TypeOK
    <3>4. caller[x] # None => caller[x] \in Evaluators
      BY <1>3 DEF TypeOK, Opt
    <3> QED
      BY <2>0, <3>1, <3>2, <3>3, <3>4 DEF DirInv, At, Alive
  <2> QED
    BY <2>1, <2>2
<1>10. OutcomeOfRequest'
  BY <1>2 DEF IInv, OutcomeOfRequest
<1> QED
  BY <1>4, <1>5, <1>7, <1>8, <1>9, <1>10 DEF IInv

\* CollectPoint and RunnerLost let go of an evaluator and touch no process.
LEMMA LetGoFrame ==
  ASSUME IInv, UNCHANGED <<storeVars, commit, request, result, evalVars, histVars>>
  PROVE  /\ \A r \in Revs : CommitInv(r)'
         /\ \A k \in Keys : RefInv(k)'
         /\ \A e \in Evaluators : RunInv(e)'
<1>1. Grows /\ (\A r \in Revs : CommitInv(r)') /\ (\A k \in Keys : RefInv(k)')
  BY CallFrame
<1>2. ASSUME NEW e \in Evaluators
      PROVE  RunInv(e)'
  <2>1. Keeps(e) /\ request' = request
    BY DEF Keeps, evalVars, histVars
  <2>2. At(e, "read") => request[dir[e]] \in Requests
    BY DEF IInv, RunInv, HoldInv
  <2> QED
    BY <1>1, <2>1, <2>2, KeepsRun DEF IInv
<1> QED
  BY <1>1, <1>2

LEMMA CollectStep ==
  ASSUME IInv, NEW d \in Dirs, CollectPoint(d)
  PROVE  IInv'
<1>1. /\ caller[d] # None /\ pc[caller[d]] = "dead"
      /\ outcome' = [outcome EXCEPT ![d] =
           IF Accepted(d) THEN <<request[d], result[d]>> ELSE None]
      /\ caller' = [caller EXCEPT ![d] = None]
      /\ UNCHANGED <<storeVars, commit, request, result, lost, evalVars, histVars>>
  BY DEF CollectPoint
<1>2. TypeOK /\ DirInv(d) /\ OutcomeOfRequest
  BY DEF IInv
<1>3. /\ \A r \in Revs : CommitInv(r)'
      /\ \A k \in Keys : RefInv(k)'
      /\ \A e \in Evaluators : RunInv(e)'
  BY <1>1, LetGoFrame
<1>4. caller[d] \in Evaluators /\ request[d] \in Requests /\ dir[caller[d]] = None
  BY <1>1, <1>2, NoneAssumption DEF TypeOK, Opt, DirInv, IInv, RunInv, HoldInv, Alive
<1>5. Accepted(d) => result[d] \in Results
  BY <1>2 DEF TypeOK, Opt, Accepted
<1>6. TypeOK'
  <2>1. outcome' \in [Dirs -> Opt(Requests \X Results)]
    BY <1>1, <1>2, <1>4, <1>5 DEF TypeOK, Opt
  <2> QED
    BY <1>1, <1>2, <2>1 DEF TypeOK, Opt, storeVars, evalVars, histVars
<1>7. ASSUME NEW x \in Dirs
      PROVE  DirInv(x)'
  <2>0. DirInv(x)
    BY DEF IInv
  <2>1. CASE x = d
    <3>1. caller'[x] = None
      BY <1>1, <1>2, <2>1 DEF TypeOK
    <3>2. ASSUME d \notin lost, NEW f \in Evaluators
          PROVE  dir'[f] # x
      BY <1>1, <1>2, <1>4, <2>1, <3>2, NoneAssumption DEF DirInv, evalVars
    <3> QED
      BY <1>1, <2>1, <3>1, <3>2, NoneAssumption DEF DirInv
  <2>2. CASE x # d
    BY <1>1, <1>2, <2>0, <2>2 DEF DirInv, TypeOK, evalVars, At, Alive
  <2> QED
    BY <2>1, <2>2
<1>8. OutcomeOfRequest'
  <2> SUFFICES ASSUME NEW x \in Dirs, x \notin lost, outcome'[x] # None
               PROVE  /\ outcome'[x][2].key.rev = outcome'[x][1].rev
                      /\ outcome'[x][2].key.bind = outcome'[x][1].bind
    BY <1>1 DEF OutcomeOfRequest
  <2>1. CASE x = d
    <3>1. Accepted(d) /\ outcome'[d] = <<request[d], result[d]>>
      BY <1>1, <1>2, <2>1 DEF TypeOK
    <3>2. result[d].key.rev = request[d].rev /\ result[d].key.bind = request[d].bind
      BY <1>2, <1>4, <2>1, <3>1 DEF DirInv, Accepted
    <3> QED
      BY <2>1, <3>1, <3>2
  <2>2. CASE x # d
    BY <1>1, <1>2, <2>2 DEF TypeOK, OutcomeOfRequest
  <2> QED
    BY <2>1, <2>2
<1> QED
  BY <1>3, <1>6, <1>7, <1>8 DEF IInv

LEMMA LostStep ==
  ASSUME IInv, NEW d \in Dirs, RunnerLost(d)
  PROVE  IInv'
<1>1. /\ caller' = [caller EXCEPT ![d] = None]
      /\ lost' = lost \union {d}
      /\ UNCHANGED <<storeVars, commit, request, result, outcome, evalVars, histVars>>
  BY DEF RunnerLost
<1>2. TypeOK /\ OutcomeOfRequest
  BY DEF IInv
<1>3. /\ \A r \in Revs : CommitInv(r)'
      /\ \A k \in Keys : RefInv(k)'
      /\ \A e \in Evaluators : RunInv(e)'
  BY <1>1, LetGoFrame
<1>4. TypeOK'
  BY <1>1, <1>2 DEF TypeOK, Opt, storeVars, evalVars, histVars
<1>5. ASSUME NEW x \in Dirs
      PROVE  DirInv(x)'
  BY <1>1, <1>2 DEF IInv, DirInv, TypeOK, evalVars, At, Alive
<1>6. OutcomeOfRequest'
  BY <1>1, <1>2 DEF OutcomeOfRequest
<1> QED
  BY <1>3, <1>4, <1>5, <1>6 DEF IInv

LEMMA NextInv == IInv /\ [Next]_vars => IInv'
<1> SUFFICES ASSUME IInv, [Next]_vars
             PROVE  IInv'
  OBVIOUS
<1>1. CASE UNCHANGED vars
  <2>1. UNCHANGED <<storeVars, commit, callVars, evalVars, histVars>>
    BY <1>1 DEF vars
  <2>2. TypeOK' /\ OutcomeOfRequest'
    BY <2>1 DEF IInv, TypeOK, OutcomeOfRequest, storeVars, callVars, evalVars, histVars
  <2>3. \A d \in Dirs : DirInv(d)'
    BY <2>1 DEF IInv, DirInv, callVars, evalVars, At, Alive
  <2> QED
    BY <2>1, <2>2, <2>3, LetGoFrame DEF IInv, callVars
<1>2. CASE \E r \in Revs : Commit(r)
  BY <1>2, CommitStepInv
<1>3. CASE \E e \in Evaluators : Evaluate(e) \/ Killed(e)
  BY <1>3, EvaluatorStep
<1>4. CASE \E d \in Dirs : \E q \in Requests : Launch(d, q)
  BY <1>4, LaunchStep
<1>5. CASE \E d \in Dirs : CollectPoint(d) \/ RunnerLost(d)
  BY <1>5, CollectStep, LostStep
<1> QED
  BY <1>1, <1>2, <1>3, <1>4, <1>5 DEF Next

LEMMA Invariance == Spec => []IInv
<1> QED
  BY InitInv, NextInv, PTL DEF Spec
-----------------------------------------------------------------------------
(* What the store promises.                                                *)

\* The state of the store, the evaluators and the work directories stays typed;
\* lineage is only ever recorded of objects that are there.
THEOREM TypeCorrect == Spec => []TypeOK
<1>1. IInv => TypeOK
  BY DEF IInv
<1> QED
  BY <1>1, Invariance, PTL

\* Whatever refs/ names is complete at every instant, however many committers
\* and evaluators run and wherever they are killed.
THEOREM StoreComplete == Spec => []RefsComplete
<1>1. ASSUME IInv
      PROVE  RefsComplete
  <2>1. ASSUME NEW k \in Keys, resRef[k] # None
        PROVE  /\ Stored(resRef[k]) \in lineage
               /\ {Stored(resRef[k])} \union ResultInputs(resRef[k].key) \subseteq objects
    BY <1>1, <2>1 DEF IInv, RefInv
  <2>2. ASSUME NEW r \in revRef
        PROVE  /\ Manifest(r) \in lineage
               /\ {Manifest(r)} \union ManifestInputs(r) \subseteq objects
    BY <1>1, <2>2 DEF IInv, TypeOK, CommitInv
  <2> QED
    BY <2>1, <2>2 DEF RefsComplete
<1> QED
  BY <1>1, Invariance, PTL

\* An evaluator fails only for what its request asked, whatever others do to the
\* store while it runs.
THEOREM FailuresHaveReason == Spec => []FailuresJustified
<1>1. IInv => FailuresJustified
  BY DEF IInv, RunInv, WroteInv, FailuresJustified
<1> QED
  BY <1>1, Invariance, PTL

\* A cached point is replayed by every evaluator that starts after it was stored.
THEOREM CacheIsUsed == Spec => []CachedNeverRecomputed
<1>1. IInv => CachedNeverRecomputed
  BY DEF IInv, RunInv, EarlyInv, CachedNeverRecomputed, Started
<1> QED
  BY <1>1, Invariance, PTL

\* A point of a study is credited with a result of its own revision and bindings.
THEOREM OutcomesOwn == Spec => []OutcomeOfRequest
<1>1. IInv => OutcomeOfRequest
  BY DEF IInv
<1> QED
  BY <1>1, Invariance, PTL

-----------------------------------------------------------------------------
(* The cache implements a memo table.                                      *)

LEMMA MemoStep ==
  ASSUME IInv, [Next]_vars
  PROVE  [Memo!Next]_<<resRef, asked, answer>>
<1>1. ASSUME NEW e \in Evaluators, SetRef(e)
      PROVE  [Memo!Next]_<<resRef, asked, answer>>
  <2> DEFINE k == MyKey(e)
  <2>1. /\ k \in Keys /\ req[e] \in Requests
        /\ got[e] = Computed(req[e], env[e])
    BY <1>1, RunFacts DEF SetRef, Step, At, Started, HoldInv
  <2>2. got[e] = [key |-> k, ord |-> req[e].ord] /\ req[e].ord \in Orders
    BY <2>1 DEF Computed, MyKey, Key, Requests
  <2>3. got[e] \in Memo!ResultsOf(k)
    BY <2>2 DEF Memo!ResultsOf
  <2>4. resRef' = [resRef EXCEPT ![k] = got[e]] /\ UNCHANGED <<asked, answer>>
    BY <1>1 DEF SetRef, histVars
  <2>5. Memo!Store(k)
    BY <2>3, <2>4 DEF Memo!Store
  <2> QED
    BY <2>1, <2>5 DEF Memo!Next
<1>2. ASSUME NEW e \in Evaluators, WriteResult(e)
      PROVE  [Memo!Next]_<<resRef, asked, answer>>
  <2> DEFINE k == MyKey(e)
  <2>0. At(e, "write") /\ pc[e] \in Started
    BY <1>2 DEF WriteResult, Step, At, Started
  <2>1. /\ At(e, "write") /\ k \in Keys /\ HoldInv(e) /\ WroteInv(e)
        /\ req[e] \in Requests /\ env[e] \in Envs
        /\ answer \in [Evaluators -> Opt(Results)]
        /\ asked \in [Evaluators -> Opt(Requests \X Envs)]
    BY <2>0, RunFacts DEF HoldInv, At, Alive, IInv, TypeOK
  <2>2. answer[e] = None /\ asked[e] = None
    BY <2>1 DEF HoldInv, At, Alive
  <2>3. resRef' = resRef
    BY <1>2 DEF WriteResult, storeVars
  <2>4. CASE got[e] = Failure
    BY <1>2, <2>1, <2>2, <2>3, <2>4 DEF WriteResult
  <2>5. CASE got[e] # Failure
    <3>1. got[e] \in Results /\ got[e].key = k /\ resRef[k] # None
      BY <2>1, <2>5 DEF HoldInv, WroteInv, At
    <3>2. k = Memo!KeyOf(req[e], env[e])
      BY DEF MyKey, Key, Memo!KeyOf
    <3>3. got[e] \in Memo!ResultsOf(k)
      BY <3>1 DEF Results, Memo!ResultsOf
    <3>4. /\ answer' = [answer EXCEPT ![e] = got[e]]
          /\ asked' = [asked EXCEPT ![e] = <<req[e], env[e]>>]
      BY <1>2, <2>5 DEF WriteResult
    <3>5. Memo!Answer(e, req[e], env[e])
      BY <2>2, <2>3, <3>1, <3>2, <3>3, <3>4 DEF Memo!Answer
    <3> QED
      BY <2>1, <3>5 DEF Memo!Next
  <2> QED
    BY <2>4, <2>5
<1>3. CASE \E r \in Revs : Commit(r)
  BY <1>3 DEF Commit, CheckParent, CommitPut, CommitLineage, CommitRef, storeVars, histVars
<1>4. ASSUME NEW e \in Evaluators, Evaluate(e) \/ Killed(e), ~SetRef(e), ~WriteResult(e)
      PROVE  UNCHANGED <<resRef, asked, answer>>
  BY <1>4 DEF Evaluate, Killed, ReadRequest, Lookup, Replay, LoadManifest, LoadDocs, PutBound,
              PutMaterialized, RunStages, PutResult, RecordLineage, Exit, Dies, storeVars, histVars
<1>5. CASE \E d \in Dirs : (\E q \in Requests : Launch(d, q)) \/ CollectPoint(d) \/ RunnerLost(d)
  BY <1>5 DEF Launch, CollectPoint, RunnerLost, storeVars, histVars
<1>6. CASE UNCHANGED vars
  BY <1>6 DEF vars, storeVars, histVars
<1> QED
  BY <1>1, <1>2, <1>3, <1>4, <1>5, <1>6 DEF Next

\* The cache is a memo table whatever crashes and races, for requests listed in any
\* number of orders: an entry is of its own key and never goes, and every answer is of
\* the key of the request it answers.
THEOREM CacheIsMemo == Spec => MemoTable
<1>1. Init => Memo!Init
  BY DEF Init, Memo!Init
<1>2. IInv /\ [Next]_vars => [Memo!Next]_<<resRef, asked, answer>>
  BY MemoStep
<1> QED
  BY <1>1, <1>2, Invariance, PTL DEF Spec, MemoTable, Memo!Spec
=============================================================================
