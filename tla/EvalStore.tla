----------------------------- MODULE EvalStore -----------------------------
(***************************************************************************)
(* Design-graph evaluation: the content-addressed store                    *)
(* (server/artifact_store.py), the commits of design revisions into it     *)
(* (server/dg_store.py), the evaluator processes that fill and replay its  *)
(* result cache (server/evaluator.py), and the work directory through      *)
(* which a study's backend calls them (study_driver_runner.evaluate).      *)
(*                                                                         *)
(* Nothing here takes a lock: what keeps the store usable is the order of  *)
(* the writes.  Each file of the store is replaced atomically, so a write  *)
(* is one step; a process may be killed between any two.  An object is     *)
(* named by the hash of its bytes, so the object and its hash are one      *)
(* value, and putting an object twice is putting it once.  Numbers are     *)
(* abstracted: a result is known by what was evaluated, where and in which *)
(* order the models were listed.                                           *)
(***************************************************************************)
EXTENDS FiniteSets

CONSTANTS
  Revs,           \* design revisions that are committed sooner or later
  StructureOf,    \* StructureOf[r]: the structure document of revision r
  ParamsOf,       \* ParamsOf[r]: its params document
  ParentOf,       \* ParentOf[r]: the revision it was derived from, or None
  Binds,          \* binding sets a request may carry
  Fate,           \* Fate[b]: how an evaluation with bindings b must end
  Envs,           \* environment identities (interpreter, package versions)
  Orders,         \* orders in which a request may list its bindings and models
  Evaluators,     \* evaluator processes that may ever be launched (a bound)
  Dirs,           \* work directories: one per study and variant id
  None,           \* no such file, no such ref, nothing yet
  Failure,        \* a result document that reports a failure
  Faults          \* the faults that may happen, a subset of FaultKinds

FaultKinds == {"kill",     \* an evaluator is killed, or terminated on timeout
               "orphan"}   \* a runner dies and leaves its evaluator behind

Fates == {"ok", "binding_error", "model_error"}

ASSUME RevAssumption ==
  /\ DOMAIN StructureOf = Revs /\ DOMAIN ParamsOf = Revs
  /\ ParentOf \in [Revs -> Revs \union {None}]
ASSUME FateAssumption  == Fate \in [Binds -> Fates]
ASSUME FaultAssumption == Faults \subseteq FaultKinds

VARIABLES
  objects,  \* the objects in objects/
  lineage,  \* those that have a record in lineage/
  revRef,   \* the revisions that have a ref in refs/dg_revisions
  resRef,   \* resRef[k]: the object refs/eval_results names for cache key k
  commit,   \* commit[r]: the next write of the commit of r
  request,  \* request[d]: what request.json in d asks
  result,   \* result[d]: what result.json in d holds: a result, Failure, None
  caller,   \* caller[d]: the evaluator a runner waits for in d, or None
  lost,     \* history: the directories in which a runner left an evaluator behind
  outcome,  \* outcome[d]: history: <<request, result>> of the last ok point of d
  pc,       \* pc[e]: the next step of evaluator e
  dir,      \* dir[e]: its work directory
  env,      \* env[e]: its environment
  req,      \* req[e]: the request it has read
  got,      \* got[e]: the result it holds, Failure, or None
  code,     \* code[e]: its exit code: "ok", "error", or None before it ends
  answer,   \* history: answer[e]: the result e has given
  asked,    \* history: asked[e]: the request and environment it is an answer for
  early     \* history: early[e]: what the store held for e's request when it read it

storeVars == <<objects, lineage, revRef, resRef>>
callVars  == <<request, result, caller, lost, outcome>>
evalVars  == <<pc, dir, env, req, got, code>>
histVars  == <<answer, asked, early>>
vars == <<storeVars, commit, callVars, evalVars, histVars>>

-----------------------------------------------------------------------------
(* The objects.                                                            *)

Structure(r) == <<"structure", StructureOf[r]>>
Params(r)    == <<"params", ParamsOf[r]>>
Manifest(r)  == <<"manifest", r>>

\* The params with the bindings applied, and the inputs derived for the stages.
Bound(r, b)        == <<"bound", ParamsOf[r], b>>
Materialized(r, b) == <<"materialized", StructureOf[r], ParamsOf[r], b>>

Requests == [rev : Revs, bind : Binds, ord : Orders]

\* put_json of a result document.
Stored(res) == <<"result", res>>

\* record_lineage of a manifest names the documents and the parent ...
ManifestInputs(r) ==
  {Structure(r), Params(r)}
    \union (IF ParentOf[r] = None THEN {} ELSE {Manifest(ParentOf[r])})

\* ... and of a result the revision and what was derived from it.
ResultInputs(k) == {Manifest(k.rev), Bound(k.rev, k.bind), Materialized(k.rev, k.bind)}

Keys == [rev : Revs, bind : Binds, env : Envs]

Results == [key : Keys, ord : Orders]

ASSUME NoneAssumption ==
  /\ None \notin Results /\ Failure \notin Results \union {None}
  /\ None \notin Dirs /\ None \notin Evaluators /\ None \notin Requests
  /\ None \notin {"ok", "error"}

\* Faulty: a cache key without the identity of the environment.
KeyAnyEnv(q, v) == [rev |-> q.rev, bind |-> q.bind, env |-> CHOOSE w \in Envs : TRUE]

\* request_hash: bindings are sorted by path and models by name.
Key(q, v) == [rev |-> q.rev, bind |-> q.bind, env |-> v]

\* The result document of request q computed in environment v.
Computed(q, v) == [key |-> [rev |-> q.rev, bind |-> q.bind, env |-> v], ord |-> q.ord]

-----------------------------------------------------------------------------
(* commit_revision: objects first, then the lineage, then the ref.  It may *)
(* stop anywhere; doing it again puts again what is there already.         *)

Commits == {"parent", "structure", "params", "manifest", "lineage", "ref", "done"}

CommitStep(r, from, to) == commit[r] = from /\ commit' = [commit EXCEPT ![r] = to]

\* The parent named must be there already.
CheckParent(r) ==
  /\ ParentOf[r] # None => Manifest(ParentOf[r]) \in objects
  /\ CommitStep(r, "parent", "structure")
  /\ UNCHANGED storeVars

\* Faulty: the manifest goes first.
CommitPutManifestFirst(r) ==
  /\ \/ CommitStep(r, "structure", "params")  /\ objects' = objects \union {Manifest(r)}
     \/ CommitStep(r, "params", "manifest")   /\ objects' = objects \union {Structure(r)}
     \/ CommitStep(r, "manifest", "lineage")  /\ objects' = objects \union {Params(r)}
  /\ UNCHANGED <<lineage, revRef, resRef>>

CommitPut(r) ==
  /\ \/ CommitStep(r, "structure", "params")  /\ objects' = objects \union {Structure(r)}
     \/ CommitStep(r, "params", "manifest")   /\ objects' = objects \union {Params(r)}
     \/ CommitStep(r, "manifest", "lineage")  /\ objects' = objects \union {Manifest(r)}
  /\ UNCHANGED <<lineage, revRef, resRef>>

CommitLineage(r) ==
  /\ CommitStep(r, "lineage", "ref")
  /\ lineage' = lineage \union {Manifest(r)}
  /\ UNCHANGED <<objects, revRef, resRef>>

CommitRef(r) ==
  /\ CommitStep(r, "ref", "done")
  /\ revRef' = revRef \union {r}
  /\ UNCHANGED <<objects, lineage, resRef>>

Commit(r) ==
  /\ CheckParent(r) \/ CommitPut(r) \/ CommitLineage(r) \/ CommitRef(r)
  /\ UNCHANGED <<callVars, evalVars, histVars>>

-----------------------------------------------------------------------------
(* The evaluator process.                                                  *)

Labels == {"unborn", "read", "lookup", "replay", "manifest", "docs", "putBound",
           "putMaterialized", "stages", "putResult", "lineage", "ref", "write",
           "exit", "dead"}

Alive(e) == pc[e] \notin {"unborn", "dead"}

At(e, l) == pc[e] = l

Goto(e, l) == pc' = [pc EXCEPT ![e] = l]

Step(e, from, to) == At(e, from) /\ Goto(e, to)

\* A failure is written to result.json and never to the store.
Fail(e) == Goto(e, "write") /\ got' = [got EXCEPT ![e] = Failure]

MyKey(e) == Key(req[e], env[e])

\* main reads request.json; resolve passes a revision id through unlooked at.
ReadRequest(e) ==
  /\ Step(e, "read", "lookup")
  /\ req' = [req EXCEPT ![e] = request[dir[e]]]
  /\ early' = [early EXCEPT ![e] =
       [result   |-> resRef[Key(request[dir[e]], env[e])] # None,
        manifest |-> Manifest(request[dir[e]].rev) \in objects]]
  /\ UNCHANGED <<storeVars, commit, callVars, dir, env, got, code, answer, asked>>

\* get_ref of the cache key: a hit holds the hash only ...
Lookup(e) ==
  /\ At(e, "lookup")
  /\ Goto(e, IF resRef[MyKey(e)] # None THEN "replay" ELSE "manifest")
  /\ got' = [got EXCEPT ![e] = resRef[MyKey(e)]]
  /\ UNCHANGED <<storeVars, commit, callVars, dir, env, req, code, histVars>>

\* ... get_json reads the object, which has to be there.
Replay(e) ==
  /\ At(e, "replay")
  /\ IF Stored(got[e]) \in objects THEN Goto(e, "write") /\ UNCHANGED got ELSE Fail(e)
  /\ UNCHANGED <<storeVars, commit, callVars, dir, env, req, code, histVars>>

\* load_revision: the manifest, then its two documents; then layer 1 of the
\* binding check.
LoadManifest(e) ==
  /\ At(e, "manifest")
  /\ IF Manifest(req[e].rev) \in objects THEN Goto(e, "docs") /\ UNCHANGED got ELSE Fail(e)
  /\ UNCHANGED <<storeVars, commit, callVars, dir, env, req, code, histVars>>

LoadDocs(e) ==
  /\ At(e, "docs")
  /\ IF /\ {Structure(req[e].rev), Params(req[e].rev)} \subseteq objects
        /\ Fate[req[e].bind] # "binding_error"
     THEN Goto(e, "putBound") /\ UNCHANGED got
     ELSE Fail(e)
  /\ UNCHANGED <<storeVars, commit, callVars, dir, env, req, code, histVars>>

PutBound(e) ==
  /\ Step(e, "putBound", "putMaterialized")
  /\ objects' = objects \union {Bound(req[e].rev, req[e].bind)}
  /\ UNCHANGED <<lineage, revRef, resRef, commit, callVars, dir, env, req, got, code, histVars>>

PutMaterialized(e) ==
  /\ Step(e, "putMaterialized", "stages")
  /\ objects' = objects \union {Materialized(req[e].rev, req[e].bind)}
  /\ UNCHANGED <<lineage, revRef, resRef, commit, callVars, dir, env, req, got, code, histVars>>

\* Faulty: the failure of a stage is stored like a result.
RunStagesStoreFailure(e) ==
  /\ Step(e, "stages", "putResult")
  /\ got' = [got EXCEPT ![e] =
       IF Fate[req[e].bind] = "model_error" THEN Failure ELSE Computed(req[e], env[e])]
  /\ UNCHANGED <<storeVars, commit, callVars, dir, env, req, code, histVars>>

RunStages(e) ==
  /\ At(e, "stages")
  /\ IF Fate[req[e].bind] = "model_error"
     THEN Fail(e)
     ELSE Goto(e, "putResult") /\ got' = [got EXCEPT ![e] = Computed(req[e], env[e])]
  /\ UNCHANGED <<storeVars, commit, callVars, dir, env, req, code, histVars>>

\* Faulty: the ref is set before the lineage is recorded.
PutResultNoLineage(e) ==
  /\ Step(e, "putResult", "ref")
  /\ objects' = objects \union {Stored(got[e])}
  /\ UNCHANGED <<lineage, revRef, resRef, commit, callVars, dir, env, req, got, code, histVars>>

PutResult(e) ==
  /\ Step(e, "putResult", "lineage")
  /\ objects' = objects \union {Stored(got[e])}
  /\ UNCHANGED <<lineage, revRef, resRef, commit, callVars, dir, env, req, got, code, histVars>>

RecordLineage(e) ==
  /\ Step(e, "lineage", "ref")
  /\ lineage' = lineage \union {Stored(got[e])}
  /\ UNCHANGED <<objects, revRef, resRef, commit, callVars, dir, env, req, got, code, histVars>>

\* set_ref: the last writer wins.
SetRef(e) ==
  /\ Step(e, "ref", "write")
  /\ resRef' = [resRef EXCEPT ![MyKey(e)] = got[e]]
  /\ UNCHANGED <<objects, lineage, revRef, commit, callVars, dir, env, req, got, code, histVars>>

\* _write_result_file: a temporary file, then os.replace.
WriteResult(e) ==
  /\ Step(e, "write", "exit")
  /\ result' = [result EXCEPT ![dir[e]] = got[e]]
  /\ answer' = [answer EXCEPT ![e] = IF got[e] = Failure THEN None ELSE got[e]]
  /\ asked' = [asked EXCEPT ![e] = IF got[e] = Failure THEN None ELSE <<req[e], env[e]>>]
  /\ UNCHANGED <<storeVars, commit, request, caller, lost, outcome, dir, env, req, got, code, early>>

\* The process ends; its exit code is all that is left of it.
Dies(e, c) ==
  /\ Goto(e, "dead")
  /\ code' = [code EXCEPT ![e] = c]
  /\ dir' = [dir EXCEPT ![e] = None]
  /\ env' = [env EXCEPT ![e] = None]
  /\ req' = [req EXCEPT ![e] = None]
  /\ got' = [got EXCEPT ![e] = None]
  /\ early' = [early EXCEPT ![e] = None]
  /\ UNCHANGED <<storeVars, commit, callVars, answer, asked>>

Exit(e) == pc[e] = "exit" /\ Dies(e, IF got[e] = Failure THEN "error" ELSE "ok")

Killed(e) == "kill" \in Faults /\ Alive(e) /\ Dies(e, "error")

-----------------------------------------------------------------------------
(* SubprocessEvaluatorBackend.evaluate in one work directory.              *)

\* request.json is rewritten, an evaluator started; result.json of an earlier
\* call stays where it is.
Launch(d, q) ==
  /\ caller[d] = None
  /\ request' = [request EXCEPT ![d] = q]
  /\ \E e \in Evaluators, v \in Envs :
       /\ pc[e] = "unborn"
       /\ pc' = [pc EXCEPT ![e] = "read"]
       /\ dir' = [dir EXCEPT ![e] = d]
       /\ env' = [env EXCEPT ![e] = v]
       /\ caller' = [caller EXCEPT ![d] = e]
  /\ UNCHANGED <<storeVars, commit, result, lost, outcome, req, got, code, histVars>>

\* Faulty: a point is accepted for its result file alone.
AcceptedAnyCode(d) == result[d] \notin {None, Failure}

\* A point is ok if the evaluator exited with 0 and result.json says ok.
Accepted(d) == code[caller[d]] = "ok" /\ result[d] \notin {None, Failure}

\* communicate() returns; the point is recorded ok or failed.
CollectPoint(d) ==
  /\ caller[d] # None
  /\ pc[caller[d]] = "dead"
  /\ outcome' = [outcome EXCEPT ![d] =
       IF Accepted(d) THEN <<request[d], result[d]>> ELSE None]
  /\ caller' = [caller EXCEPT ![d] = None]
  /\ UNCHANGED <<storeVars, commit, request, result, lost, evalVars, histVars>>

\* The runner is killed; its evaluator goes on, and the study is run again.
RunnerLost(d) ==
  /\ "orphan" \in Faults
  /\ caller[d] # None
  /\ caller' = [caller EXCEPT ![d] = None]
  /\ lost' = lost \union {d}
  /\ UNCHANGED <<storeVars, commit, request, result, outcome, evalVars, histVars>>

-----------------------------------------------------------------------------
Init ==
  /\ objects = {} /\ lineage = {} /\ revRef = {}
  /\ resRef = [k \in Keys |-> None]
  /\ commit = [r \in Revs |-> "parent"]
  /\ request = [d \in Dirs |-> None]
  /\ result = [d \in Dirs |-> None]
  /\ caller = [d \in Dirs |-> None]
  /\ lost = {}
  /\ outcome = [d \in Dirs |-> None]
  /\ pc = [e \in Evaluators |-> "unborn"]
  /\ dir = [e \in Evaluators |-> None]
  /\ env = [e \in Evaluators |-> None]
  /\ req = [e \in Evaluators |-> None]
  /\ got = [e \in Evaluators |-> None]
  /\ code = [e \in Evaluators |-> None]
  /\ answer = [e \in Evaluators |-> None]
  /\ asked = [e \in Evaluators |-> None]
  /\ early = [e \in Evaluators |-> None]

Evaluate(e) ==
  \/ ReadRequest(e) \/ Lookup(e) \/ Replay(e) \/ LoadManifest(e) \/ LoadDocs(e)
  \/ PutBound(e) \/ PutMaterialized(e) \/ RunStages(e) \/ PutResult(e)
  \/ RecordLineage(e) \/ SetRef(e) \/ WriteResult(e) \/ Exit(e)

Next ==
  \/ \E r \in Revs : Commit(r)
  \/ \E e \in Evaluators : Evaluate(e) \/ Killed(e)
  \/ \E d \in Dirs : (\E q \in Requests : Launch(d, q)) \/ CollectPoint(d) \/ RunnerLost(d)

Spec == Init /\ [][Next]_vars

-----------------------------------------------------------------------------
(* Safety.                                                                 *)

Opt(S) == S \union {None}

TypeOK ==
  /\ lineage \subseteq objects
  /\ revRef \subseteq Revs
  /\ resRef \in [Keys -> Opt(Results)]
  /\ commit \in [Revs -> Commits]
  /\ request \in [Dirs -> Opt(Requests)]
  /\ result \in [Dirs -> Opt(Results) \union {Failure}]
  /\ caller \in [Dirs -> Opt(Evaluators)]
  /\ lost \subseteq Dirs
  /\ outcome \in [Dirs -> Opt(Requests \X Results)]
  /\ pc \in [Evaluators -> Labels]
  /\ dir \in [Evaluators -> Opt(Dirs)]
  /\ env \in [Evaluators -> Opt(Envs)]
  /\ req \in [Evaluators -> Opt(Requests)]
  /\ got \in [Evaluators -> Opt(Results) \union {Failure}]
  /\ code \in [Evaluators -> {"ok", "error", None}]
  /\ answer \in [Evaluators -> Opt(Results)]
  /\ asked \in [Evaluators -> Opt(Requests \X Envs)]
  /\ early \in [Evaluators -> Opt([result : BOOLEAN, manifest : BOOLEAN])]

\* Whatever a ref names is complete at every instant, so also after a crash of
\* any process: the object, its lineage, and every input the lineage names.
RefsComplete ==
  /\ \A k \in Keys : resRef[k] # None =>
       /\ Stored(resRef[k]) \in lineage
       /\ {Stored(resRef[k])} \union ResultInputs(resRef[k].key) \subseteq objects
  /\ \A r \in revRef :
       /\ Manifest(r) \in lineage
       /\ {Manifest(r)} \union ManifestInputs(r) \subseteq objects

\* An evaluator reports a failure only for a reason that lies in the request: a
\* revision that was not committed when it started, or bindings that must fail.
FailuresJustified ==
  \A e \in Evaluators : got[e] = Failure =>
    ~early[e].manifest \/ Fate[req[e].bind] # "ok"

\* A point that is in the cache when its evaluator starts is never computed again.
CachedNeverRecomputed ==
  \A e \in Evaluators : pc[e] \in {"manifest", "docs", "putBound", "putMaterialized", "stages"} =>
    ~early[e].result

\* The metrics recorded for a design point are those of its bindings, on its
\* revision, whatever earlier calls left in the work directory: result.json of a
\* point that succeeded before is still there when its successor is killed.
\* (Where a dead runner left its evaluator running, the two share result.json.)
OutcomeOfRequest ==
  \A d \in Dirs \ lost : outcome[d] # None =>
    /\ outcome[d][2].key.rev = outcome[d][1].rev
    /\ outcome[d][2].key.bind = outcome[d][1].bind

\* The cache is a memo table over cache keys: an entry is of its own key and never
\* goes, and every answer is of the key of the request it answers, asked in the
\* environment it was asked in, and given once the table has that key.  Only the order
\* a request was listed in may change from one answer to the next.
Memo == INSTANCE EvalMemo WITH memo <- resRef
MemoTable == Memo!Spec
=============================================================================
