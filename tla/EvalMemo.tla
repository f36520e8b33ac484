------------------------------ MODULE EvalMemo ------------------------------
(***************************************************************************)
(* What server/evaluator.py promises of the evaluation cache: a memo table *)
(* over cache keys.  An entry is a result of its own key, and once there   *)
(* is one there always is.  Every successful answer is a result of the key *)
(* of the request it answers, given when the table has one.  The metrics   *)
(* of a result are those of its key, so an identical request is answered   *)
(* with the same metrics for ever; but a result also shows the order its   *)
(* request was listed in, and requests that differ in that only share a    *)
(* key, so evaluators that race may replace an entry by its like.          *)
(* Evaluators that crash or repeat each other's work are invisible here.   *)
(***************************************************************************)
CONSTANTS
  Requests,       \* what evaluators are asked
  Envs,           \* the environments they run in
  Keys,           \* cache keys: what request_hash keeps of both
  Orders,         \* what else a result shows of the request it was made for
  Evaluators,     \* evaluator processes, each answering one request at most
  None            \* no entry, no answer

VARIABLES
  memo,     \* memo[k]: the result stored for key k, or None
  asked,    \* asked[e]: the request and environment e has answered, or None
  answer    \* answer[e]: the result evaluator e has given, or None

KeyOf(q, v) == [rev |-> q.rev, bind |-> q.bind, env |-> v]

ResultsOf(k) == [key : {k}, ord : Orders]

Init ==
  /\ memo = [k \in Keys |-> None]
  /\ asked = [e \in Evaluators |-> None]
  /\ answer = [e \in Evaluators |-> None]

Store(k) ==
  /\ \E res \in ResultsOf(k) : memo' = [memo EXCEPT ![k] = res]
  /\ UNCHANGED <<asked, answer>>

Answer(e, q, v) ==
  /\ answer[e] = None
  /\ memo[KeyOf(q, v)] # None
  /\ asked' = [asked EXCEPT ![e] = <<q, v>>]
  /\ \E res \in ResultsOf(KeyOf(q, v)) : answer' = [answer EXCEPT ![e] = res]
  /\ UNCHANGED memo

Next ==
  \/ \E k \in Keys : Store(k)
  \/ \E e \in Evaluators, q \in Requests, v \in Envs : Answer(e, q, v)

Spec == Init /\ [][Next]_<<memo, asked, answer>>
=============================================================================
