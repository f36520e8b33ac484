------------------------- MODULE FreeCadBridgeProofs -------------------------
(***************************************************************************)
(* A command runs at most once and in the order of its connection, and its *)
(* caller reads its own response, for any number of clients, calls,        *)
(* connections and restarts and with every fault.  The invariant says      *)
(* where clients, threads and the main thread can be (TInv), over which    *)
(* connection a call found anywhere was sent (SentInv), that the places a  *)
(* call goes through keep the order of the calls (OrderInv), what is on    *)
(* the way of a client that never timed out (PairInv), and what has been   *)
(* said and returned (CallInv, OutInv): with these the bridge implements   *)
(* the contract of send_command.                                           *)
(***************************************************************************)
EXTENDS FreeCadBridge, SequenceTheorems, TLAPS

-----------------------------------------------------------------------------
(* Sequences.                                                              *)

InSeq(n, s) == \E i \in 1 .. Len(s) : s[i] = n
Increasing(s) == \A i, j \in 1 .. Len(s) : i < j => s[i] < s[j]

LEMMA AppendElements ==
  ASSUME NEW S, NEW s \in Seq(S), NEW x \in S
  PROVE  /\ Append(s, x) \in Seq(S) /\ Append(s, x) # <<>> /\ Len(Append(s, x)) = Len(s) + 1
         /\ \A n : InSeq(n, Append(s, x)) <=> InSeq(n, s) \/ n = x
<1>1. /\ Append(s, x) \in Seq(S) /\ Append(s, x) # <<>> /\ Len(Append(s, x)) = Len(s) + 1
      /\ \A i \in 1 .. Len(s) : Append(s, x)[i] = s[i]
      /\ Append(s, x)[Len(s) + 1] = x
  BY AppendProperties
<1>2. Len(s) \in Nat
  BY LenProperties
<1> QED
  BY <1>1, <1>2 DEF InSeq

LEMMA TailElements ==
  ASSUME NEW S, NEW s \in Seq(S), s # <<>>
  PROVE  /\ Head(s) \in S /\ Tail(s) \in Seq(S) /\ Len(s) \in Nat \ {0} /\ Len(Tail(s)) = Len(s) - 1
         /\ Head(s) = s[1] /\ \A i \in 1 .. Len(s) - 1 : Tail(s)[i] = s[i + 1]
         /\ \A n : InSeq(n, s) <=> n = Head(s) \/ InSeq(n, Tail(s))
<1>1. Len(s) \in Nat \ {0}
  BY EmptySeq
<1>2. /\ Head(s) \in S /\ Tail(s) \in Seq(S) /\ Len(Tail(s)) = Len(s) - 1
      /\ Head(s) = s[1] /\ \A i \in 1 .. Len(s) - 1 : Tail(s)[i] = s[i + 1]
  BY <1>1, HeadTailProperties
<1>3. ASSUME NEW n, InSeq(n, s) PROVE n = Head(s) \/ InSeq(n, Tail(s))
  <2>1. PICK i \in 1 .. Len(s) : s[i] = n
    BY <1>3 DEF InSeq
  <2>2. CASE i = 1
    BY <1>2, <2>1, <2>2
  <2>3. CASE i # 1
    <3>1. i - 1 \in 1 .. Len(s) - 1 /\ (i - 1) + 1 = i
      BY <1>1, <2>1, <2>3
    <3>2. Tail(s)[i - 1] = n
      BY <1>2, <2>1, <3>1
    <3> QED
      BY <1>2, <3>1, <3>2 DEF InSeq
  <2> QED
    BY <2>2, <2>3
<1>4. ASSUME NEW n, InSeq(n, Tail(s)) PROVE InSeq(n, s)
  <2>1. PICK i \in 1 .. Len(s) - 1 : Tail(s)[i] = n
    BY <1>2, <1>4 DEF InSeq
  <2>2. i + 1 \in 1 .. Len(s) /\ s[i + 1] = n
    BY <1>1, <1>2, <2>1
  <2> QED
    BY <2>2 DEF InSeq
<1>5. InSeq(Head(s), s)
  BY <1>1, <1>2 DEF InSeq
<1> QED
  BY <1>1, <1>2, <1>3, <1>4, <1>5

LEMMA TailEmpty ==
  ASSUME NEW S, NEW s \in Seq(S), s # <<>>
  PROVE  /\ Len(s) > 1 => Tail(s) # <<>>
         /\ Len(s) = 1 => Tail(s) = <<>>
<1>1. Len(s) \in Nat \ {0} /\ Tail(s) \in Seq(S) /\ Len(Tail(s)) = Len(s) - 1
  BY TailElements
<1>2. \A m, n \in Nat : n = m - 1 => (m > 1 => n # 0) /\ (m = 1 => n = 0)
  OBVIOUS
<1>3. Len(Tail(s)) \in Nat
  BY <1>1, LenProperties
<1>4. (Len(s) > 1 => Len(Tail(s)) # 0) /\ (Len(s) = 1 => Len(Tail(s)) = 0)
  BY <1>1, <1>2, <1>3, Zenon
<1>5. Len(Tail(s)) = 0 <=> Tail(s) = <<>>
  BY <1>1, EmptySeq
<1> QED
  BY <1>4, <1>5, Zenon

LEMMA ElementsIn ==
  ASSUME NEW S, NEW s \in Seq(S)
  PROVE  \A n : InSeq(n, s) => n \in S
BY ElementOfSeq DEF InSeq

LEMMA EmptyElements == \A n : ~InSeq(n, <<>>)
BY DEF InSeq

LEMMA IncreasingAppend ==
  ASSUME NEW S, NEW s \in Seq(S), NEW x \in S, Increasing(s), \A n : InSeq(n, s) => n < x
  PROVE  Increasing(Append(s, x))
<1>1. /\ Len(Append(s, x)) = Len(s) + 1
      /\ \A i \in 1 .. Len(s) : Append(s, x)[i] = s[i]
      /\ Append(s, x)[Len(s) + 1] = x
  BY AppendProperties
<1>2. Len(s) \in Nat /\ \A i \in 1 .. Len(s) : s[i] < x
  BY LenProperties DEF InSeq
<1> QED
  BY <1>1, <1>2 DEF Increasing

LEMMA IncreasingTail ==
  ASSUME NEW S, NEW s \in Seq(S), s # <<>>, Increasing(s)
  PROVE  Increasing(Tail(s)) /\ \A n : InSeq(n, Tail(s)) => Head(s) < n
<1>1. /\ Len(s) \in Nat \ {0} /\ Len(Tail(s)) = Len(s) - 1
      /\ Head(s) = s[1] /\ \A i \in 1 .. Len(s) - 1 : Tail(s)[i] = s[i + 1]
  BY TailElements
<1>2. ASSUME NEW i \in 1 .. Len(s) - 1, NEW j \in 1 .. Len(s) - 1, i < j PROVE Tail(s)[i] < Tail(s)[j]
  <2>1. i + 1 \in 1 .. Len(s) /\ j + 1 \in 1 .. Len(s) /\ i + 1 < j + 1
    BY <1>1, <1>2
  <2>2. s[i + 1] < s[j + 1]
    BY <2>1 DEF Increasing
  <2> QED
    BY <1>1, <2>2
<1>3. ASSUME NEW i \in 1 .. Len(s) - 1 PROVE Head(s) < Tail(s)[i]
  <2>1. 1 \in 1 .. Len(s) /\ i + 1 \in 1 .. Len(s) /\ 1 < i + 1
    BY <1>1
  <2>2. s[1] < s[i + 1]
    BY <2>1 DEF Increasing
  <2> QED
    BY <1>1, <2>2
<1> QED
  BY <1>1, <1>2, <1>3 DEF Increasing, InSeq

\* The stream of a thread: what it takes out of it, what comes in at the end, and
\* what one recv moves within it.
LEMMA StreamTail ==
  ASSUME NEW S, NEW s \in Seq(S), NEW t \in Seq(S), s # <<>>
  PROVE  s \o t \in Seq(S) /\ s \o t # <<>> /\ Head(s \o t) = Head(s) /\ Tail(s \o t) = Tail(s) \o t
<1>1. /\ Len(s) \in Nat \ {0} /\ Len(t) \in Nat
      /\ s \o t \in Seq(S) /\ Len(s \o t) = Len(s) + Len(t)
      /\ \A i \in 1 .. Len(s) + Len(t) : (s \o t)[i] = IF i <= Len(s) THEN s[i] ELSE t[i - Len(s)]
  BY ConcatProperties, EmptySeq, LenProperties
<1>2. s \o t # <<>>
  BY <1>1, EmptySeq
<1>3. Tail(s) \in Seq(S) /\ Len(Tail(s)) = Len(s) - 1 /\ Head(s) = s[1] /\ \A i \in 1 .. Len(s) - 1 : Tail(s)[i] = s[i + 1]
  BY TailElements
<1>4. /\ Tail(s \o t) \in Seq(S) /\ Len(Tail(s \o t)) = Len(s) + Len(t) - 1 /\ Head(s \o t) = (s \o t)[1]
      /\ \A i \in 1 .. Len(s) + Len(t) - 1 : Tail(s \o t)[i] = (s \o t)[i + 1]
  BY <1>1, <1>2, TailElements
<1>5. /\ Tail(s) \o t \in Seq(S) /\ Len(Tail(s) \o t) = Len(s) - 1 + Len(t)
      /\ \A i \in 1 .. Len(s) - 1 + Len(t) : (Tail(s) \o t)[i] = IF i <= Len(s) - 1 THEN Tail(s)[i] ELSE t[i - (Len(s) - 1)]
  BY <1>1, <1>3, ConcatProperties
<1>6. Head(s \o t) = Head(s)
  BY <1>1, <1>3, <1>4
<1>7. ASSUME NEW i \in 1 .. Len(s) + Len(t) - 1 PROVE Tail(s \o t)[i] = (Tail(s) \o t)[i]
  <2>1. Tail(s \o t)[i] = IF i + 1 <= Len(s) THEN s[i + 1] ELSE t[i + 1 - Len(s)]
    BY <1>1, <1>4
  <2>2. (Tail(s) \o t)[i] = IF i + 1 <= Len(s) THEN s[i + 1] ELSE t[i - (Len(s) - 1)]
    BY <1>1, <1>3, <1>5
  <2>3. i - (Len(s) - 1) = i + 1 - Len(s)
    BY <1>1
  <2> QED
    BY <2>1, <2>2, <2>3
<1> QED
  BY <1>1, <1>2, <1>4, <1>5, <1>6, <1>7, SeqEqual

LEMMA StreamAppend ==
  ASSUME NEW S, NEW s \in Seq(S), NEW t \in Seq(S), NEW x \in S
  PROVE  s \o t \in Seq(S) /\ s \o Append(t, x) = Append(s \o t, x)
BY ConcatProperties, AppendIsConcat, ConcatAssociative

LEMMA StreamReceive ==
  ASSUME NEW S, NEW t \in Seq(S), NEW n \in 1 .. Len(t)
  PROVE  /\ SubSeq(t, 1, n) \in Seq(S) /\ SubSeq(t, 1, n) # <<>> /\ SubSeq(t, n + 1, Len(t)) \in Seq(S)
         /\ SubSeq(t, 1, n) \o SubSeq(t, n + 1, Len(t)) = <<>> \o t
<1>1. Len(t) \in Nat /\ n \in Nat \ {0}
  BY LenProperties
<1>2. SubSeq(t, 1, n) \in Seq(S) /\ Len(SubSeq(t, 1, n)) = n /\ SubSeq(t, n + 1, Len(t)) \in Seq(S)
  BY <1>1, SubSeqProperties
<1>3. SubSeq(t, 1, n) # <<>>
  BY <1>1, <1>2, EmptySeq
<1>4. SubSeq(t, 1, n) \o SubSeq(t, n + 1, Len(t)) = SubSeq(t, 1, Len(t))
  BY <1>1, ConcatAdjacentSubSeq
<1> QED
  BY <1>2, <1>3, <1>4, SubSeqFull, ConcatEmptySeq

\* Taking the first and appending one commute.
LEMMA TailAppend ==
  ASSUME NEW S, NEW s \in Seq(S), NEW x \in S, s # <<>>
  PROVE  Tail(Append(s, x)) = Append(Tail(s), x) /\ Head(Append(s, x)) = Head(s)
<1>1. Append(s, x) = s \o <<x>> /\ <<x>> \in Seq(S)
  BY AppendIsConcat
<1>2. Tail(s) \in Seq(S)
  BY TailElements
<1>3. Append(Tail(s), x) = Tail(s) \o <<x>>
  BY <1>2, AppendIsConcat
<1> QED
  BY <1>1, <1>3, StreamTail

-----------------------------------------------------------------------------
(* Types, and where everybody can be.                                      *)

\* Where a client is, what it has sent, and over which connection.
ClientInv ==
  /\ \A k \in Clients :
       /\ cpc[k] = "idle" <=> cur[k] = None
       /\ cpc[k] = "connect" => sock[k] = None
       /\ cpc[k] \in {"send", "read"} => sock[k] # None
       /\ sock[k] # None => sock[k] <= conns
       /\ cur[k] # None => cur[k] <= calls
       /\ cpc[k] \in {"connect", "send"} => via[cur[k]] = None
  /\ \A k, l \in Clients : k # l /\ sock[k] # None => sock[k] # sock[l]
  /\ \A k, l \in Clients : k # l /\ cur[k] # None => cur[k] # cur[l]
  /\ \A n \in Calls : via[n] # None => n <= calls /\ via[n] <= conns

\* A thread has lines while it works on one, and a connection not yet made has nothing.
ThreadInv ==
  \A c \in Conns :
    /\ hpc[c] \in {"new", "recv"} => lines[c] = <<>>
    /\ hpc[c] \in {"dispatch", "wait", "reply"} => lines[c] # <<>>
    /\ c > conns => hpc[c] = "closed" /\ lines[c] = <<>> /\ inbox[c] = <<>> /\ outbox[c] = <<>>
    /\ c <= conns => srv[c] # 0 /\ srv[c] <= server

\* A timer runs for the current server only and never again once it is stopped, and
\* nothing is in a queue before its timer was started.
MainInv ==
  /\ job # None <=> mpc = "running"
  /\ server = 0 => mpc = "idle"
  /\ mpc = "starting" => running[server]
  /\ mpc = "running" => timer[server]
  /\ \A s \in Servers :
       /\ timer[s] => running[s] /\ mpc # "starting"
       /\ running[s] => s = server
       /\ queue[s] # <<>> => s < server \/ (s = server /\ mpc # "starting")

TInv == TypeOK /\ ClientInv /\ ThreadInv /\ MainInv

LEMMA Constants ==
  /\ MaxCalls \in Nat /\ MaxConns \in Nat /\ MaxServers \in Nat
  /\ None \notin Nat /\ None \notin Calls /\ None \notin Conns
BY BoundAssumption, FaultAssumption DEF Calls, Conns

LEMMA InitTypes == Init => TInv
<1> SUFFICES ASSUME Init PROVE TInv
  OBVIOUS
<1>1. /\ inbox \in [Conns -> Seq(Calls)] /\ outbox \in [Conns -> Seq(Response)] /\ lines \in [Conns -> Seq(Calls)]
      /\ queue \in [Servers -> Seq(Calls)] /\ log \in Seq(Calls \X {"main", "connection"})
  BY EmptySeq DEF Init
<1>2. Pending \in Returned
  BY DEF Pending, Returned, Failed
<1>3. /\ clean \in [Clients -> BOOLEAN] /\ copen \in [Conns -> BOOLEAN]
      /\ running \in [Servers -> BOOLEAN] /\ timer \in [Servers -> BOOLEAN]
  BY DEF Init
<1>4. TypeOK
  BY <1>1, <1>2, <1>3, Constants DEF Init, TypeOK
<1>5. ClientInv /\ ThreadInv /\ MainInv
  BY Constants DEF Init, ClientInv, ThreadInv, MainInv, Conns, Servers
<1> QED
  BY <1>4, <1>5 DEF TInv

\* The call and the connection of a client that works on one.
LEMMA AtWork ==
  ASSUME TInv, NEW k \in Clients, cpc[k] # "idle"
  PROVE  /\ cur[k] \in Calls /\ cur[k] # None
         /\ cpc[k] \in {"send", "read"} => sock[k] \in Conns /\ sock[k] # None /\ sock[k] <= conns
BY Constants DEF TInv, TypeOK, ClientInv

LEMMA ReturnTypes ==
  ASSUME TInv, NEW k \in Clients, cpc[k] # "idle", NEW what \in Returned, Return(k, what)
  PROVE  /\ cpc' \in [Clients -> {"idle", "connect", "send", "read"}] /\ cpc'[k] = "idle"
         /\ cur' \in [Clients -> Calls \union {None}] /\ cur'[k] = None
         /\ answer' \in [Calls -> Returned]
         /\ \A l \in Clients : l # k => cpc'[l] = cpc[l] /\ cur'[l] = cur[l]
BY DEF TInv, TypeOK, Return, ClientGoto

LEMMA CallTypes ==
  ASSUME TInv, NEW k \in Clients, Call(k)
  PROVE  TInv'
<1>1. calls + 1 \in Calls /\ calls' \in 0 .. MaxCalls /\ calls \in Nat
  BY Constants DEF Call, TInv, TypeOK, Calls
<1>2. TypeOK'
  BY <1>1 DEF Call, TInv, TypeOK, ClientGoto, ClientAt, connVars, threadVars, mainVars
<1>3. ClientInv'
  BY <1>1, Constants DEF Call, TInv, TypeOK, ClientInv, ClientGoto, ClientAt, connVars, Calls
<1>4. ThreadInv' /\ MainInv'
  BY DEF Call, TInv, ThreadInv, MainInv, connVars, threadVars, mainVars
<1> QED
  BY <1>2, <1>3, <1>4 DEF TInv

LEMMA ConnectTypes ==
  ASSUME TInv, NEW k \in Clients, Connect(k)
  PROVE  TInv'
<1>1. conns + 1 \in Conns /\ conns' \in 0 .. MaxConns /\ conns \in Nat /\ conns' = conns + 1
  BY Constants DEF Connect, TInv, TypeOK, Conns
<1>2. server \in Servers /\ server # 0 /\ server <= server
  BY Constants DEF Connect, TInv, TypeOK, Servers
<1>3. clean' \in [Clients -> BOOLEAN] /\ copen' \in [Conns -> BOOLEAN]
  BY <1>1 DEF Connect, TInv, TypeOK
<1>4. TypeOK'
  BY <1>1, <1>2, <1>3 DEF Connect, TInv, TypeOK, ClientGoto, ClientAt, mainVars
<1>5. /\ \A l \in Clients : l # k => sock'[l] = sock[l] /\ cpc'[l] = cpc[l]
      /\ sock'[k] = conns + 1 /\ cpc'[k] = "send" /\ cpc[k] = "connect"
      /\ UNCHANGED <<calls, cur, via>>
  BY DEF Connect, ClientGoto, ClientAt, TInv, TypeOK
<1>5a. /\ \A l \in Clients : sock[l] # None => sock[l] \in Nat /\ sock[l] <= conns
       /\ \A n \in Calls : via[n] # None => n <= calls /\ via[n] \in Nat /\ via[n] <= conns
  BY DEF TInv, TypeOK, ClientInv, Conns
<1>5b. \A l \in Clients : sock'[l] # None => sock'[l] <= conns'
  BY <1>1, <1>5, <1>5a
<1>5c. \A l, m \in Clients : l # m /\ sock'[l] # None => sock'[l] # sock'[m]
  <2>1. conns + 1 # None /\ \A l \in Clients : sock[l] # conns + 1
    BY <1>1, <1>5a, Constants
  <2> QED
    BY <1>5, <2>1 DEF TInv, ClientInv
<1>5d. \A n \in Calls : via'[n] # None => n <= calls' /\ via'[n] <= conns'
  BY <1>1, <1>5, <1>5a
<1>5e. ClientInv'
  BY <1>1, <1>5, <1>5b, <1>5c, <1>5d, Constants DEF TInv, ClientInv
<1>6. ThreadInv' /\ MainInv'
  BY <1>1, <1>2 DEF Connect, TInv, TypeOK, ThreadInv, MainInv, mainVars, Conns
<1> QED
  BY <1>4, <1>5e, <1>6 DEF TInv

LEMMA SendTypes ==
  ASSUME TInv, NEW k \in Clients, Send(k)
  PROVE  TInv'
<1>1. cur[k] \in Calls /\ sock[k] \in Conns /\ sock[k] # None /\ sock[k] <= conns
  BY AtWork DEF Send, ClientAt
<1>2. inbox[sock[k]] \in Seq(Calls)
  BY <1>1 DEF TInv, TypeOK
<1>3. inbox' \in [Conns -> Seq(Calls)]
  BY <1>1, <1>2, AppendElements DEF Send, TInv, TypeOK
<1>4. TypeOK'
  BY <1>1, <1>3 DEF Send, TInv, TypeOK, ClientGoto, ClientAt, threadVars, mainVars
<1>5. ClientInv'
  BY <1>1, Constants DEF Send, TInv, TypeOK, ClientInv, ClientGoto, ClientAt
<1>6. ThreadInv'
  BY <1>1 DEF Send, TInv, TypeOK, ThreadInv, threadVars, mainVars, Conns
<1>7. MainInv'
  BY DEF Send, TInv, MainInv, mainVars
<1> QED
  BY <1>4, <1>5, <1>6, <1>7 DEF TInv

\* A call that ends.
LEMMA EndTypes ==
  ASSUME TInv, NEW k \in Clients, ConnectFails(k) \/ ConnectionLost(k) \/ Read(k) \/ ReadTimeout(k)
  PROVE  TInv'
<1>1. cpc[k] # "idle" /\ cur[k] \in Calls
  BY AtWork DEF ConnectFails, ConnectionLost, Read, ReadTimeout, ClientAt
<1>2. Read(k) => /\ sock[k] \in Conns /\ outbox[sock[k]] \in Seq(Response) /\ outbox[sock[k]] # <<>>
                 /\ sock[k] <= conns
  BY AtWork DEF Read, ClientAt, TInv, TypeOK
<1>3. Read(k) => Head(outbox[sock[k]]) \in Response /\ Tail(outbox[sock[k]]) \in Seq(Response)
  BY <1>2, TailElements
<1>4. PICK what \in Returned : Return(k, what)
  BY <1>3 DEF ConnectFails, ConnectionLost, Read, ReadTimeout, Returned
<1>5. /\ cpc' \in [Clients -> {"idle", "connect", "send", "read"}] /\ cpc'[k] = "idle"
      /\ cur' \in [Clients -> Calls \union {None}] /\ cur'[k] = None
      /\ answer' \in [Calls -> Returned]
      /\ \A l \in Clients : l # k => cpc'[l] = cpc[l] /\ cur'[l] = cur[l]
  BY <1>1, <1>4, ReturnTypes
<1>6. outbox' \in [Conns -> Seq(Response)] /\ \A c \in Conns : c > conns => outbox'[c] = outbox[c]
  <2>1. CASE Read(k)
    <3>1. outbox' = [outbox EXCEPT ![sock[k]] = Tail(outbox[sock[k]])]
      BY <2>1 DEF Read
    <3>2. ~(sock[k] > conns)
      BY <1>2, <2>1, Constants DEF TInv, TypeOK, Conns
    <3> QED
      BY <1>2, <1>3, <2>1, <3>1, <3>2 DEF TInv, TypeOK
  <2>2. CASE outbox' = outbox
    BY <2>2 DEF TInv, TypeOK
  <2> QED
    BY <2>1, <2>2 DEF ConnectFails, ConnectionLost, ReadTimeout, connVars
<1>7. /\ sock' \in [Clients -> Conns \union {None}]
      /\ \A l \in Clients : sock'[l] # None => sock'[l] = sock[l]
      /\ \A l \in Clients : l # k => sock'[l] = sock[l]
      /\ cpc[k] = "connect" => sock' = sock
  BY DEF ConnectFails, ConnectionLost, Read, ReadTimeout, TInv, TypeOK, ClientAt
<1>8. clean' \in [Clients -> BOOLEAN] /\ copen' \in [Conns -> BOOLEAN]
  BY AtWork DEF ConnectFails, ConnectionLost, Read, ReadTimeout, TInv, TypeOK, connVars, ClientAt
<1>9. UNCHANGED <<calls, conns, srv, inbox, via, threadVars, mainVars, queue, response, log>>
  BY DEF ConnectFails, ConnectionLost, Read, ReadTimeout, connVars
<1>10. TypeOK'
  BY <1>5, <1>6, <1>7, <1>8, <1>9 DEF TInv, TypeOK, threadVars, mainVars
<1>11. ClientInv'
  <2>1. \A l \in Clients : l # k => cpc'[l] = cpc[l] /\ cur'[l] = cur[l] /\ sock'[l] = sock[l]
    BY <1>5, <1>7
  <2>2. \A l, m \in Clients : l # m /\ sock'[l] # None => sock'[l] # sock'[m]
    BY <1>7 DEF TInv, ClientInv
  <2>3. \A l, m \in Clients : l # m /\ cur'[l] # None => cur'[l] # cur'[m]
    BY <1>5 DEF TInv, ClientInv
  <2>4. sock'[k] # None => sock'[k] <= conns'
    BY <1>7, <1>9 DEF TInv, ClientInv
  <2> QED
    BY <1>5, <1>9, <2>1, <2>2, <2>3, <2>4 DEF TInv, ClientInv
<1>12. ThreadInv' /\ MainInv'
  BY <1>6, <1>9 DEF TInv, ThreadInv, MainInv, threadVars, mainVars
<1> QED
  BY <1>10, <1>11, <1>12 DEF TInv

LEMMA RestartTypes ==
  ASSUME TInv, NEW k \in Clients, ClientRestart(k)
  PROVE  TInv'
<1>1. copen' \in [Conns -> BOOLEAN]
  BY DEF ClientRestart, TInv, TypeOK
<1>2. TypeOK'
  BY <1>1 DEF ClientRestart, TInv, TypeOK, ClientGoto, threadVars, mainVars
<1>3. ClientInv'
  BY Constants DEF ClientRestart, TInv, TypeOK, ClientInv, ClientGoto
<1>4. ThreadInv' /\ MainInv'
  BY DEF ClientRestart, TInv, ThreadInv, MainInv, threadVars, mainVars
<1> QED
  BY <1>2, <1>3, <1>4 DEF TInv

\* A thread that works has a line of a connection that was made.
LEMMA ThreadAtWork ==
  ASSUME TInv, NEW c \in Conns
  PROVE  /\ lines[c] \in Seq(Calls) /\ inbox[c] \in Seq(Calls) /\ outbox[c] \in Seq(Response)
         /\ hpc[c] # "closed" => c <= conns /\ srv[c] \in Servers /\ srv[c] <= server /\ server # 0
         /\ hpc[c] \in {"dispatch", "wait", "reply"} =>
              /\ lines[c] # <<>> /\ Head(lines[c]) \in Calls /\ Tail(lines[c]) \in Seq(Calls)
<1>1. lines[c] \in Seq(Calls) /\ inbox[c] \in Seq(Calls) /\ outbox[c] \in Seq(Response)
  BY DEF TInv, TypeOK
<1>2. hpc[c] # "closed" => c <= conns /\ srv[c] \in Servers /\ srv[c] <= server /\ server # 0
  BY DEF TInv, TypeOK, ThreadInv, Conns, Servers
<1> QED
  BY <1>1, <1>2, TailElements DEF TInv, ThreadInv

LEMMA ThreadFrame ==
  ASSUME TInv, NEW c \in Conns, c <= conns, UNCHANGED <<conns, srv, server>>,
         \A d \in Conns : d # c => /\ hpc'[d] = hpc[d] /\ lines'[d] = lines[d]
                                  /\ inbox'[d] = inbox[d] /\ outbox'[d] = outbox[d],
         hpc'[c] \in {"new", "recv"} => lines'[c] = <<>>,
         hpc'[c] \in {"dispatch", "wait", "reply"} => lines'[c] # <<>>
  PROVE  ThreadInv'
<1>1. ~(c > conns)
  BY Constants DEF TInv, TypeOK, Conns
<1>2. ASSUME NEW d \in Conns, d # c
      PROVE  /\ hpc'[d] \in {"new", "recv"} => lines'[d] = <<>>
             /\ hpc'[d] \in {"dispatch", "wait", "reply"} => lines'[d] # <<>>
             /\ d > conns' => hpc'[d] = "closed" /\ lines'[d] = <<>> /\ inbox'[d] = <<>> /\ outbox'[d] = <<>>
             /\ d <= conns' => srv'[d] # 0 /\ srv'[d] <= server'
  BY <1>2 DEF TInv, ThreadInv
<1>3. srv'[c] # 0 /\ srv'[c] <= server'
  BY DEF TInv, ThreadInv
<1> QED
  BY <1>1, <1>2, <1>3 DEF ThreadInv

LEMMA ReceiveTypes ==
  ASSUME TInv, NEW c \in Conns, ThreadStart(c) \/ Receive(c) \/ ReceiveEof(c)
  PROVE  TInv'
<1>1. c <= conns /\ conns \in Nat /\ c \in Nat
  BY ThreadAtWork DEF ThreadStart, Receive, ReceiveEof, ThreadAt, TInv, TypeOK, Conns
<1>2. CASE Receive(c)
  <2>1. PICK n \in 1 .. Len(inbox[c]) :
          /\ lines' = [lines EXCEPT ![c] = SubSeq(inbox[c], 1, n)]
          /\ inbox' = [inbox EXCEPT ![c] = SubSeq(inbox[c], n + 1, Len(inbox[c]))]
    BY <1>2 DEF Receive
  <2>2. SubSeq(inbox[c], 1, n) \in Seq(Calls) /\ SubSeq(inbox[c], 1, n) # <<>> /\ SubSeq(inbox[c], n + 1, Len(inbox[c])) \in Seq(Calls)
    BY ThreadAtWork, StreamReceive
  <2>3. lines' \in [Conns -> Seq(Calls)] /\ inbox' \in [Conns -> Seq(Calls)]
    BY <2>1, <2>2 DEF TInv, TypeOK
  <2>4. TypeOK'
    BY <1>2, <2>3 DEF Receive, ThreadGoto, TInv, TypeOK, clientVars, mainVars
  <2>5. ClientInv' /\ MainInv'
    BY <1>2 DEF Receive, TInv, ClientInv, MainInv, clientVars, mainVars
  <2>6. ThreadInv'
    <3>1. /\ UNCHANGED <<conns, srv, server>>
          /\ \A d \in Conns : d # c => /\ hpc'[d] = hpc[d] /\ lines'[d] = lines[d]
                                       /\ inbox'[d] = inbox[d] /\ outbox'[d] = outbox[d]
          /\ hpc'[c] = "dispatch" /\ lines'[c] # <<>>
      BY <1>2, <2>1, <2>2 DEF Receive, ThreadGoto, TInv, TypeOK, mainVars
    <3> QED
      BY <1>1, <3>1, ThreadFrame
  <2> QED
    BY <2>4, <2>5, <2>6 DEF TInv
<1>3. CASE ThreadStart(c) \/ ReceiveEof(c)
  <2>1. TypeOK'
    BY <1>3 DEF ThreadStart, ReceiveEof, ThreadGoto, TInv, TypeOK, clientVars, connVars, mainVars
  <2>2. ClientInv' /\ MainInv'
    BY <1>3 DEF ThreadStart, ReceiveEof, TInv, ClientInv, MainInv, clientVars, connVars, mainVars
  <2>3. ThreadInv'
    BY <1>1, <1>3 DEF ThreadStart, ReceiveEof, ThreadAt, ThreadGoto, TInv, TypeOK, ThreadInv, connVars, mainVars
  <2> QED
    BY <2>1, <2>2, <2>3 DEF TInv
<1> QED
  BY <1>2, <1>3

LEMMA DispatchTypes ==
  ASSUME TInv, NEW c \in Conns, Enqueue(c) \/ RunDirect(c)
  PROVE  TInv'
<1>1. /\ c <= conns /\ conns \in Nat /\ c \in Nat /\ srv[c] \in Servers /\ server # 0
      /\ hpc[c] = "dispatch" /\ lines[c] # <<>> /\ Head(lines[c]) \in Calls
  BY ThreadAtWork DEF Enqueue, RunDirect, ThreadAt, TInv, TypeOK, Conns
<1>2. ThreadInv'
  <2>1. /\ UNCHANGED <<conns, srv, server, lines, inbox, outbox>>
        /\ \A d \in Conns : d # c => hpc'[d] = hpc[d]
        /\ hpc'[c] \in {"wait", "reply"}
    BY DEF Enqueue, RunDirect, ThreadGoto, TInv, TypeOK, connVars, mainVars
  <2> QED
    BY <1>1, <2>1, ThreadFrame
<1>3. ClientInv'
  BY DEF Enqueue, RunDirect, TInv, ClientInv, clientVars, connVars
<1>4. CASE Enqueue(c)
  <2>1. queue' \in [Servers -> Seq(Calls)]
    BY <1>1, <1>4, AppendElements DEF Enqueue, TInv, TypeOK
  <2>2. TypeOK'
    BY <1>4, <2>1 DEF Enqueue, ThreadGoto, TInv, TypeOK, clientVars, connVars, mainVars
  <2>3. MainInv'
    BY <1>1, <1>4 DEF Enqueue, TInv, TypeOK, MainInv, mainVars
  <2> QED
    BY <1>2, <1>3, <2>2, <2>3 DEF TInv
<1>5. CASE RunDirect(c)
  <2>1. log' \in Seq(Calls \X {"main", "connection"})
    BY <1>1, <1>5, AppendElements DEF RunDirect, TInv, TypeOK
  <2>2. response' \in [Calls -> Outcomes \union {"none"}]
    BY <1>1, <1>5 DEF RunDirect, TInv, TypeOK
  <2>3. TypeOK'
    BY <1>5, <2>1, <2>2 DEF RunDirect, ThreadGoto, TInv, TypeOK, clientVars, connVars, mainVars
  <2>4. MainInv'
    BY <1>5 DEF RunDirect, TInv, MainInv, mainVars
  <2> QED
    BY <1>2, <1>3, <2>3, <2>4 DEF TInv
<1> QED
  BY <1>4, <1>5

LEMMA AnswerTypes ==
  ASSUME TInv, NEW c \in Conns, hpc[c] \in {"wait", "reply"}, NEW what \in Outcomes \union {"timeout"}, Answer(c, what)
  PROVE  TInv'
<1>1. /\ c <= conns /\ conns \in Nat /\ c \in Nat
      /\ lines[c] # <<>> /\ Head(lines[c]) \in Calls /\ Tail(lines[c]) \in Seq(Calls) /\ outbox[c] \in Seq(Response)
  BY ThreadAtWork DEF TInv, TypeOK, Conns
<1>2. <<Head(lines[c]), what>> \in Response
  BY <1>1 DEF Response
<1>3. outbox' \in [Conns -> Seq(Response)]
  BY <1>1, <1>2, AppendElements DEF Answer, TInv, TypeOK
<1>4. lines' \in [Conns -> Seq(Calls)]
  BY <1>1 DEF Answer, TInv, TypeOK
<1>5. PICK l \in {"dispatch", "recv", "closed"} :
        /\ hpc' = [hpc EXCEPT ![c] = l]
        /\ l = "dispatch" => Len(lines[c]) > 1
        /\ l = "recv" => Len(lines[c]) = 1
  BY DEF Answer, ThreadGoto, AfterReply
<1>6. TypeOK'
  <2>1. hpc' \in [Conns -> {"new", "recv", "dispatch", "wait", "reply", "closed"}]
    BY <1>5 DEF TInv, TypeOK
  <2> QED
    BY <1>3, <1>4, <2>1 DEF Answer, TInv, TypeOK, clientVars, mainVars
<1>7. ClientInv' /\ MainInv'
  BY DEF Answer, TInv, ClientInv, MainInv, clientVars, mainVars
<1>8. /\ Len(lines[c]) > 1 => Tail(lines[c]) # <<>>
      /\ Len(lines[c]) = 1 => Tail(lines[c]) = <<>>
  BY <1>1, ThreadAtWork, TailEmpty
<1>9. ThreadInv'
  <2>1. /\ UNCHANGED <<conns, srv, server, inbox>>
        /\ \A d \in Conns : d # c => hpc'[d] = hpc[d] /\ lines'[d] = lines[d] /\ outbox'[d] = outbox[d]
        /\ hpc'[c] \in {"dispatch", "recv", "closed"} /\ lines'[c] = Tail(lines[c])
        /\ hpc'[c] = "dispatch" => Len(lines[c]) > 1
        /\ hpc'[c] = "recv" => Len(lines[c]) = 1
    BY <1>5 DEF Answer, TInv, TypeOK, mainVars
  <2> QED
    BY <1>1, <1>8, <2>1, ThreadFrame
<1> QED
  BY <1>6, <1>7, <1>9 DEF TInv

LEMMA ReplyTypes ==
  ASSUME TInv, NEW c \in Conns, ReplyDone(c) \/ ReplyTimeout(c)
  PROVE  TInv'
<1>1. hpc[c] \in {"wait", "reply"}
  BY DEF ReplyDone, ReplyTimeout, ThreadAt
<1>2. ReplyDone(c) => response[Head(lines[c])] \in Outcomes
  BY <1>1, ThreadAtWork DEF ReplyDone, TInv, TypeOK
<1> QED
  BY <1>1, <1>2, AnswerTypes DEF ReplyDone, ReplyTimeout

LEMMA MainTypes ==
  ASSUME TInv, MainStep \/ StartServer \/ StopServer
  PROVE  TInv'
<1>1. ClientInv'
  BY DEF MainStep, StartTimer, TakeJob, FinishJob, StartServer, StopServer, TInv, ClientInv, clientVars, connVars
<1>2. server \in Nat /\ server <= server' /\ server' \in Servers \union {0}
  BY Constants DEF MainStep, StartTimer, TakeJob, FinishJob, StartServer, StopServer, TInv, TypeOK, Servers
<1>3. ThreadInv'
  <2>1. UNCHANGED <<connVars, threadVars>>
    BY DEF MainStep, StartTimer, TakeJob, FinishJob, StartServer, StopServer
  <2>2. \A c \in Conns : srv[c] <= server => srv[c] <= server'
    BY <1>2, Constants DEF TInv, TypeOK, Servers
  <2> QED
    BY <2>1, <2>2 DEF TInv, ThreadInv, connVars, threadVars
<1>4. CASE StartTimer
  <2>1. server \in Servers
    BY <1>4 DEF StartTimer, TInv, TypeOK, MainInv
  <2>2. timer' \in [Servers -> BOOLEAN]
    BY <1>4 DEF StartTimer, TInv, TypeOK
  <2>3. TypeOK'
    BY <1>4, <2>2 DEF StartTimer, TInv, TypeOK, clientVars, connVars, threadVars
  <2>4. running[server]
    BY <1>4 DEF StartTimer, TInv, MainInv
  <2>5. MainInv'
    BY <1>4, <2>1, <2>4 DEF StartTimer, TInv, TypeOK, MainInv
  <2> QED
    BY <1>1, <1>3, <2>3, <2>5 DEF TInv
<1>5. CASE TakeJob
  <2>1. queue[server] \in Seq(Calls) /\ queue[server] # <<>> /\ server \in Servers
    BY <1>5 DEF TakeJob, TInv, TypeOK
  <2>2. job' \in Calls /\ queue' \in [Servers -> Seq(Calls)]
    BY <1>5, <2>1, TailElements DEF TakeJob, TInv, TypeOK
  <2>3. TypeOK'
    BY <1>5, <2>2 DEF TakeJob, TInv, TypeOK, clientVars, connVars, threadVars
  <2>4. MainInv'
    BY <1>5, <2>1, <2>2, Constants DEF TakeJob, TInv, TypeOK, MainInv
  <2> QED
    BY <1>1, <1>3, <2>3, <2>4 DEF TInv
<1>6. CASE FinishJob
  <2>1. job \in Calls
    BY <1>6 DEF FinishJob, TInv, TypeOK, MainInv
  <2>2. log' \in Seq(Calls \X {"main", "connection"})
    BY <1>6, <2>1, AppendElements DEF FinishJob, TInv, TypeOK
  <2>3. response' \in [Calls -> Outcomes \union {"none"}]
    BY <1>6 DEF FinishJob, TInv, TypeOK
  <2>4. TypeOK'
    BY <1>6, <2>2, <2>3 DEF FinishJob, TInv, TypeOK, clientVars, connVars, threadVars
  <2>5. MainInv'
    BY <1>6 DEF FinishJob, TInv, MainInv
  <2> QED
    BY <1>1, <1>3, <2>4, <2>5 DEF TInv
<1>7. CASE StartServer
  <2>1. server + 1 \in Servers /\ server' = server + 1
    BY <1>7, Constants DEF StartServer, TInv, TypeOK, Servers
  <2>2. running' \in [Servers -> BOOLEAN]
    BY <1>7, <2>1 DEF StartServer, TInv, TypeOK
  <2>3. TypeOK'
    BY <1>7, <2>1, <2>2 DEF StartServer, TInv, TypeOK, clientVars, connVars, threadVars
  <2>4. \A s \in Servers : ~running[s] /\ ~timer[s]
    BY <1>7, Constants DEF StartServer, TInv, MainInv, Servers
  <2>5. MainInv'
    BY <1>2, <1>7, <2>1, <2>4 DEF StartServer, TInv, TypeOK, MainInv, Servers
  <2> QED
    BY <1>1, <1>3, <2>3, <2>5 DEF TInv
<1>8. CASE StopServer
  <2>1. running' \in [Servers -> BOOLEAN] /\ timer' \in [Servers -> BOOLEAN]
    BY <1>8 DEF StopServer, TInv, TypeOK
  <2>2. TypeOK'
    BY <1>8, <2>1 DEF StopServer, TInv, TypeOK, clientVars, connVars, threadVars
  <2>3. MainInv'
    BY <1>8 DEF StopServer, TInv, TypeOK, MainInv
  <2> QED
    BY <1>1, <1>3, <2>2, <2>3 DEF TInv
<1> QED
  BY <1>4, <1>5, <1>6, <1>7, <1>8 DEF MainStep

LEMMA TypeStep == TInv /\ [Next]_vars => TInv'
<1> SUFFICES ASSUME TInv, [Next]_vars PROVE TInv'
  OBVIOUS
<1>1. ASSUME NEW k \in Clients, Call(k) \/ ClientStep(k) \/ ConnectFails(k) \/ ClientRestart(k)
      PROVE  TInv'
  BY <1>1, CallTypes, ConnectTypes, SendTypes, EndTypes, RestartTypes DEF ClientStep
<1>2. ASSUME NEW c \in Conns, ThreadStep(c)
      PROVE  TInv'
  BY <1>2, ReceiveTypes, DispatchTypes, ReplyTypes DEF ThreadStep
<1>3. CASE UNCHANGED vars
  BY <1>3 DEF vars, clientVars, connVars, threadVars, mainVars, TInv, TypeOK, ClientInv, ThreadInv, MainInv
<1> QED
  BY <1>1, <1>2, <1>3, MainTypes DEF Next

\* Every variable keeps its type: no message, job or log entry is of a call that was
\* not made, whoever timed out, restarted or was stopped (TypeOK).
THEOREM TypeCorrect == Spec => []TypeOK
<1>1. TInv => TypeOK
  BY DEF TInv
<1> QED
  BY InitTypes, TypeStep, <1>1, PTL DEF Spec

-----------------------------------------------------------------------------
(* Order.                                                                  *)

\* What the thread of a connection has got or will get, and what of it it has not
\* yet given to anyone to run.
Stream(c) == lines[c] \o inbox[c]
Rest(c) == IF hpc[c] \in {"wait", "reply"} THEN Tail(Stream(c)) ELSE Stream(c)

\* The jobs a timer will run; what a stopped server left in its queue never runs.
Live == IF server # 0 /\ timer[server] THEN queue[server] ELSE <<>>

\* A call that was run or is being run, and one that will be.
Begun(n) == Ran(n) \/ job = n
Started(n) == Begun(n) \/ InSeq(n, Live)

\* Calls found anywhere were sent, over the connection they are found on.
SentInv ==
  /\ \A k \in Clients : cpc[k] = "send" => \A n \in Calls : via[n] = sock[k] => n < cur[k]
  /\ \A c \in Conns : Increasing(Stream(c)) /\ \A n \in Calls : InSeq(n, Stream(c)) => via[n] = c
  /\ \A n \in Calls : Started(n) => via[n] # None
  /\ \A n \in Calls : job = n \/ InSeq(n, Live) => srv[via[n]] = server

Ordered(s, f) == \A i, j \in 1 .. Len(s) : i < j /\ f[s[i]] = f[s[j]] => s[i] < s[j]

\* Of the calls of one connection those that were run are before the one that is
\* being run, that before those queued, and these before the rest.
OrderInv ==
  /\ RunInOrder
  /\ \A m \in Calls : job # None /\ Ran(m) /\ via[m] = via[job] => m < job
  /\ \A m, n \in Calls : Begun(m) /\ InSeq(n, Live) /\ via[m] = via[n] => m < n
  /\ Ordered(Live, via)
  /\ \A c \in Conns : \A m, n \in Calls : Started(m) /\ via[m] = c /\ InSeq(n, Rest(c)) => m < n

OInv == TInv /\ SentInv /\ OrderInv

LEMMA OrderedAppend ==
  ASSUME NEW S, NEW s \in Seq(S), NEW x \in S, NEW f, Ordered(s, f),
         \A n : InSeq(n, s) /\ f[n] = f[x] => n < x
  PROVE  Ordered(Append(s, x), f)
<1>1. /\ Len(Append(s, x)) = Len(s) + 1
      /\ \A i \in 1 .. Len(s) : Append(s, x)[i] = s[i]
      /\ Append(s, x)[Len(s) + 1] = x
  BY AppendProperties
<1>2. Len(s) \in Nat /\ \A i \in 1 .. Len(s) : f[s[i]] = f[x] => s[i] < x
  BY LenProperties DEF InSeq
<1> QED
  BY <1>1, <1>2 DEF Ordered

LEMMA OrderedTail ==
  ASSUME NEW S, NEW s \in Seq(S), s # <<>>, NEW f, Ordered(s, f)
  PROVE  Ordered(Tail(s), f) /\ \A n : InSeq(n, Tail(s)) /\ f[Head(s)] = f[n] => Head(s) < n
<1>1. /\ Len(s) \in Nat \ {0} /\ Len(Tail(s)) = Len(s) - 1
      /\ Head(s) = s[1] /\ \A i \in 1 .. Len(s) - 1 : Tail(s)[i] = s[i + 1]
  BY TailElements
<1>2. ASSUME NEW i \in 1 .. Len(s) - 1, NEW j \in 1 .. Len(s) - 1, i < j, f[Tail(s)[i]] = f[Tail(s)[j]]
      PROVE  Tail(s)[i] < Tail(s)[j]
  <2>1. i + 1 \in 1 .. Len(s) /\ j + 1 \in 1 .. Len(s) /\ i + 1 < j + 1
    BY <1>1, <1>2
  <2>2. Tail(s)[i] = s[i + 1] /\ Tail(s)[j] = s[j + 1]
    BY <1>1
  <2>3. s[i + 1] < s[j + 1]
    BY <1>2, <2>1, <2>2 DEF Ordered
  <2> QED
    BY <2>2, <2>3
<1>3. ASSUME NEW i \in 1 .. Len(s) - 1, f[Head(s)] = f[Tail(s)[i]] PROVE Head(s) < Tail(s)[i]
  <2>1. 1 \in 1 .. Len(s) /\ i + 1 \in 1 .. Len(s) /\ 1 < i + 1
    BY <1>1
  <2>2. s[1] < s[i + 1]
    BY <1>1, <1>3, <2>1 DEF Ordered
  <2> QED
    BY <1>1, <2>2
<1> QED
  BY <1>1, <1>2, <1>3 DEF Ordered, InSeq

LEMMA InitOrder == Init => OInv
<1> SUFFICES ASSUME Init PROVE OInv
  OBVIOUS
<1>1. TInv
  BY InitTypes
<1>2. Live = <<>> /\ Len(log) = 0 /\ job = None
  BY DEF Init, Live
<1>3. \A n \in Calls : ~Started(n) /\ ~Ran(n) /\ job # n /\ ~InSeq(n, Live)
  BY <1>2, EmptyElements, Constants DEF Started, Begun, Ran
<1>4. \A c \in Conns : Stream(c) = <<>>
  BY ConcatEmptySeq, EmptySeq DEF Init, Stream
<1>5. Increasing(<<>>)
  BY DEF Increasing
<1>6. SentInv
  BY <1>3, <1>4, <1>5, EmptyElements DEF Init, SentInv
<1>7. RunInOrder /\ Ordered(Live, via)
  BY <1>2 DEF RunInOrder, Ordered
<1>8. OrderInv
  BY <1>2, <1>3, <1>7 DEF OrderInv
<1> QED
  BY <1>1, <1>6, <1>8 DEF OInv

\* The stream and the rest of one connection.
LEMMA StreamTypes ==
  ASSUME TInv, NEW c \in Conns
  PROVE  /\ Stream(c) \in Seq(Calls) /\ Rest(c) \in Seq(Calls)
         /\ \A n : InSeq(n, Rest(c)) => n \in Calls /\ InSeq(n, Stream(c))
         /\ hpc[c] \in {"dispatch", "wait", "reply"} => Stream(c) # <<>> /\ Head(Stream(c)) = Head(lines[c])
         /\ Increasing(Stream(c)) => Increasing(Rest(c))
<1>1. lines[c] \in Seq(Calls) /\ inbox[c] \in Seq(Calls) /\ (hpc[c] \in {"dispatch", "wait", "reply"} => lines[c] # <<>>)
  BY ThreadAtWork
<1>2. Stream(c) \in Seq(Calls)
  BY <1>1, ConcatProperties DEF Stream
<1>3. hpc[c] \in {"dispatch", "wait", "reply"} => Stream(c) # <<>> /\ Head(Stream(c)) = Head(lines[c])
  <2>1. SUFFICES ASSUME lines[c] # <<>> PROVE Stream(c) # <<>> /\ Head(Stream(c)) = Head(lines[c])
    BY <1>1
  <2>2. lines[c] \o inbox[c] # <<>> /\ Head(lines[c] \o inbox[c]) = Head(lines[c])
    BY <1>1, <2>1, StreamTail
  <2> QED
    BY <2>2 DEF Stream
<1>4. CASE hpc[c] \in {"wait", "reply"}
  <2>1. Rest(c) = Tail(Stream(c)) /\ Stream(c) # <<>>
    BY <1>3, <1>4 DEF Rest
  <2> QED
    BY <1>2, <1>3, <2>1, TailElements, ElementsIn, IncreasingTail
<1>5. CASE hpc[c] \notin {"wait", "reply"}
  BY <1>2, <1>3, <1>5, ElementsIn DEF Rest
<1> QED
  BY <1>4, <1>5

LEMMA LiveTypes ==
  ASSUME TInv
  PROVE  Live \in Seq(Calls) /\ \A n : InSeq(n, Live) => n \in Calls
<1>1. Live \in Seq(Calls)
  BY EmptySeq DEF Live, TInv, TypeOK
<1> QED
  BY <1>1, ElementsIn

\* Nothing starts, and no call is sent.
LEMMA StillOrdered ==
  ASSUME OInv, UNCHANGED <<log, job, Live, server, via>>,
         \A n \in Calls : via[n] # None => srv'[via[n]] = srv[via[n]],
         \A c \in Conns : /\ Rest(c)' = Rest(c)
                          /\ Stream(c)' = Stream(c) \/ (Stream(c) # <<>> /\ Stream(c)' = Tail(Stream(c))),
         \A k \in Clients : cpc'[k] = "send" => \A n \in Calls : via[n] = sock'[k] => n < cur'[k]
  PROVE  SentInv' /\ OrderInv'
<1>1. \A n : (Ran(n)' <=> Ran(n)) /\ (Begun(n)' <=> Begun(n)) /\ (Started(n)' <=> Started(n))
  BY DEF Ran, Begun, Started
<1>2. ASSUME NEW c \in Conns
      PROVE  /\ Increasing(Stream(c)) => Increasing(Stream(c)')
             /\ \A n : InSeq(n, Stream(c)') => InSeq(n, Stream(c))
  <2>1. Stream(c) \in Seq(Calls)
    BY StreamTypes DEF OInv
  <2>2. CASE Stream(c)' = Stream(c)
    BY <2>2
  <2>3. CASE Stream(c) # <<>> /\ Stream(c)' = Tail(Stream(c))
    BY <2>1, <2>3, TailElements, IncreasingTail
  <2> QED
    BY <2>2, <2>3
<1>3. \A n \in Calls : job = n \/ InSeq(n, Live) => via[n] # None
  BY DEF OInv, SentInv, Started, Begun
<1>4. SentInv'
  BY <1>1, <1>2, <1>3 DEF OInv, SentInv
<1>5. RunInOrder'
  BY DEF OInv, OrderInv, RunInOrder
<1>6. Ordered(Live, via)'
  BY DEF OInv, OrderInv, Ordered
<1>7. OrderInv'
  BY <1>1, <1>5, <1>6 DEF OInv, OrderInv
<1> QED
  BY <1>4, <1>7

\* A line of the log more.
LEMMA LogAppend ==
  ASSUME TInv, RunInOrder, NEW n \in Calls, NEW t \in {"main", "connection"}, log' = Append(log, <<n, t>>), via' = via,
         \A m \in Calls : Ran(m) /\ via[m] = via[n] => m < n
  PROVE  RunInOrder' /\ \A m : Ran(m)' <=> Ran(m) \/ m = n
<1>1. log \in Seq(Calls \X {"main", "connection"}) /\ Len(log) \in Nat
  BY LenProperties DEF TInv, TypeOK
<1>2. /\ Len(log') = Len(log) + 1
      /\ \A i \in 1 .. Len(log) : log'[i] = log[i]
      /\ log'[Len(log) + 1] = <<n, t>>
  BY <1>1, AppendProperties
<1>3. \A i \in 1 .. Len(log) : log[i][1] \in Calls
  BY <1>1, ElementOfSeq
<1>4. \A m : Ran(m)' <=> Ran(m) \/ m = n
  BY <1>1, <1>2 DEF Ran
<1>5. ASSUME NEW i \in 1 .. Len(log'), NEW j \in 1 .. Len(log'), i < j, via[log'[i][1]] = via[log'[j][1]]
      PROVE  log'[i][1] < log'[j][1]
  <2>1. i \in 1 .. Len(log) /\ log'[i] = log[i]
    BY <1>1, <1>2, <1>5
  <2>2. CASE j \in 1 .. Len(log)
    BY <1>2, <1>5, <2>1, <2>2 DEF RunInOrder
  <2>3. CASE j = Len(log) + 1
    <3>1. log'[j][1] = n /\ Ran(log[i][1]) /\ log[i][1] \in Calls
      BY <1>2, <1>3, <2>1, <2>3 DEF Ran
    <3> QED
      BY <1>5, <2>1, <3>1
  <2> QED
    BY <1>1, <1>2, <2>2, <2>3
<1>6. RunInOrder'
  BY <1>5 DEF RunInOrder
<1> QED
  BY <1>4, <1>6

\* Steps of a client other than Send.
LEMMA ClientOrder ==
  ASSUME OInv, NEW k \in Clients,
         Call(k) \/ Connect(k) \/ ConnectFails(k) \/ ConnectionLost(k) \/ Read(k) \/ ReadTimeout(k) \/ ClientRestart(k)
  PROVE  SentInv' /\ OrderInv'
<1>1. UNCHANGED <<log, job, queue, server, timer, via, lines, inbox>>
  BY DEF Call, Connect, ConnectFails, ConnectionLost, Read, ReadTimeout, ClientRestart, connVars, threadVars, mainVars
<1>2. ASSUME NEW c \in Conns, c <= conns PROVE srv'[c] = srv[c]
  <2>1. CASE Connect(k)
    <3>1. conns \in Nat /\ c # conns + 1
      BY <1>2 DEF OInv, TInv, TypeOK, Conns
    <3> QED
      BY <2>1, <3>1 DEF Connect, OInv, TInv, TypeOK
  <2>2. CASE ~Connect(k)
    BY <2>2 DEF Call, ConnectFails, ConnectionLost, Read, ReadTimeout, ClientRestart, connVars
  <2> QED
    BY <2>1, <2>2
<1>3. \A n \in Calls : via[n] # None => srv'[via[n]] = srv[via[n]]
  BY <1>2 DEF OInv, TInv, TypeOK, ClientInv
<1>4. ASSUME NEW c \in Conns
      PROVE  hpc'[c] = hpc[c] \/ (hpc[c] \notin {"wait", "reply"} /\ hpc'[c] \notin {"wait", "reply"})
  <2>1. CASE Connect(k)
    <3>1. conns + 1 \in Conns => hpc[conns + 1] = "closed"
      BY DEF OInv, TInv, TypeOK, ThreadInv, Conns
    <3>2. c = conns + 1 => hpc'[c] = "new"
      BY <2>1 DEF Connect, OInv, TInv, TypeOK
    <3>3. c # conns + 1 => hpc'[c] = hpc[c]
      BY <2>1 DEF Connect, OInv, TInv, TypeOK
    <3> QED
      BY <3>1, <3>2, <3>3
  <2>2. CASE ~Connect(k)
    BY <2>2 DEF Call, ConnectFails, ConnectionLost, Read, ReadTimeout, ClientRestart, threadVars
  <2> QED
    BY <2>1, <2>2
<1>5. \A c \in Conns : Rest(c)' = Rest(c) /\ Stream(c)' = Stream(c)
  BY <1>1, <1>4 DEF Rest, Stream
<1>6. Live' = Live
  BY <1>1 DEF Live
<1>7. ASSUME NEW l \in Clients, cpc'[l] = "send", NEW n \in Calls, via[n] = sock'[l] PROVE n < cur'[l]
  <2>1. CASE l # k \/ ~(Call(k) \/ Connect(k))
    <3>1. cpc[l] = "send" /\ sock'[l] = sock[l] /\ cur'[l] = cur[l]
      BY <1>7, <2>1 DEF Call, Connect, ConnectFails, ConnectionLost, Read, ReadTimeout, ClientRestart, Return, ClientGoto,
         ClientAt, OInv, TInv, TypeOK
    <3> QED
      BY <1>7, <3>1 DEF OInv, SentInv
  <2>2. CASE l = k /\ Call(k)
    <3>1. sock'[k] = sock[k] /\ cur'[k] = calls + 1 /\ sock[k] # None
      BY <1>7, <2>2 DEF Call, ClientGoto, OInv, TInv, TypeOK
    <3>2. n <= calls
      BY <1>7, <2>2, <3>1 DEF OInv, TInv, ClientInv
    <3> QED
      BY <2>2, <3>1, <3>2 DEF OInv, TInv, TypeOK, Calls
  <2>3. CASE l = k /\ Connect(k)
    <3>1. sock'[k] = conns + 1 /\ conns \in Nat
      BY <2>3 DEF Connect, OInv, TInv, TypeOK
    <3>2. via[n] = conns + 1
      BY <1>7, <2>3, <3>1
    <3>3. via[n] # None
      BY <3>1, <3>2, Constants
    <3>4. via[n] <= conns
      BY <3>3 DEF OInv, TInv, ClientInv
    <3> QED
      BY <3>1, <3>2, <3>4
  <2> QED
    BY <2>1, <2>2, <2>3
<1> QED
  BY <1>1, <1>3, <1>5, <1>6, <1>7, StillOrdered

\* What Send does to the stream of its connection, unless the thread has closed it.
LEMMA SendStream ==
  ASSUME OInv, NEW c \in Conns, NEW n \in Calls, inbox'[c] = Append(inbox[c], n), lines'[c] = lines[c], hpc'[c] = hpc[c]
  PROVE  Stream(c)' = Append(Stream(c), n) /\ Rest(c)' = Append(Rest(c), n)
<1>1. lines[c] \in Seq(Calls) /\ inbox[c] \in Seq(Calls)
  BY DEF OInv, TInv, TypeOK
<1>2. lines[c] \o Append(inbox[c], n) = Append(lines[c] \o inbox[c], n)
  <2> DEFINE s == lines[c]
             t == inbox[c]
  <2>1. s \in Seq(Calls) /\ t \in Seq(Calls) /\ n \in Calls
    BY <1>1
  <2> HIDE DEF s, t
  <2>2. s \o Append(t, n) = Append(s \o t, n)
    BY <2>1, StreamAppend
  <2> QED
    BY <2>2 DEF s, t
<1>3. Stream(c)' = Append(Stream(c), n)
  BY <1>2 DEF Stream
<1>4. CASE hpc[c] \in {"wait", "reply"}
  <2>1. Stream(c) # <<>> /\ Stream(c) \in Seq(Calls)
    BY <1>4, StreamTypes DEF OInv
  <2>2. Tail(Append(Stream(c), n)) = Append(Tail(Stream(c)), n)
    BY <2>1, TailAppend
  <2>3. Rest(c)' = Tail(Stream(c)') /\ Rest(c) = Tail(Stream(c))
    BY <1>4 DEF Rest
  <2> QED
    BY <1>3, <2>2, <2>3
<1>5. CASE hpc[c] \notin {"wait", "reply"}
  BY <1>3, <1>5 DEF Rest
<1> QED
  BY <1>4, <1>5

LEMMA SendOrder ==
  ASSUME OInv, NEW k \in Clients, Send(k), NEW n \in Calls, NEW c \in Conns, n = cur[k], c = sock[k]
  PROVE  SentInv' /\ OrderInv'
<1>1. c # None /\ cpc[k] = "send" /\ via[n] = None
  BY AtWork DEF Send, ClientAt, OInv, TInv, ClientInv
<1>2. /\ via' = [via EXCEPT ![n] = c]
      /\ inbox' = [inbox EXCEPT ![c] = IF ServerOpen(c) THEN Append(inbox[c], n) ELSE inbox[c]]
      /\ UNCHANGED <<cur, sock, log, job, queue, server, timer, srv, lines, hpc>>
      /\ \A l \in Clients : cpc'[l] = "send" => l # k /\ cpc[l] = "send"
  BY DEF Send, threadVars, mainVars, ClientGoto, OInv, TInv, TypeOK
<1>3. /\ Live' = Live
      /\ \A m : (Ran(m)' <=> Ran(m)) /\ (Begun(m)' <=> Begun(m)) /\ (Started(m)' <=> Started(m))
  BY <1>2 DEF Live, Ran, Begun, Started
<1>4. via \in [Calls -> Conns \union {None}] /\ \A m \in Calls : m # n => via'[m] = via[m]
  BY <1>2 DEF OInv, TInv, TypeOK
<1>5. via'[n] = c
  BY <1>1, <1>2, <1>4
<1>6. \A m \in Calls : Started(m) => m # n /\ via'[m] = via[m] /\ via[m] # None
  BY <1>1, <1>4 DEF OInv, SentInv
<1>7. \A m \in Calls : via[m] = c => m < n
  BY <1>1 DEF OInv, SentInv
<1>8. \A d \in Conns : Stream(d) \in Seq(Calls) /\ Rest(d) \in Seq(Calls)
  BY StreamTypes DEF OInv
<1>9. \/ Stream(c)' = Append(Stream(c), n) /\ Rest(c)' = Append(Rest(c), n)
      \/ Stream(c)' = Stream(c) /\ Rest(c)' = Rest(c)
  <2>1. CASE ServerOpen(c)
    <3>1. inbox'[c] = Append(inbox[c], n) /\ lines'[c] = lines[c] /\ hpc'[c] = hpc[c]
      BY <1>2, <2>1 DEF OInv, TInv, TypeOK
    <3> QED
      BY <3>1, SendStream
  <2>2. CASE ~ServerOpen(c)
    <3>1. inbox'[c] = inbox[c] /\ lines'[c] = lines[c] /\ hpc'[c] = hpc[c]
      BY <1>2, <2>2 DEF OInv, TInv, TypeOK
    <3> QED
      BY <3>1 DEF Stream, Rest
  <2> QED
    BY <2>1, <2>2
<1>10. ASSUME NEW d \in Conns, d # c PROVE Stream(d)' = Stream(d) /\ Rest(d)' = Rest(d)
  <2>1. inbox'[d] = inbox[d] /\ lines'[d] = lines[d] /\ hpc'[d] = hpc[d]
    BY <1>2, <1>10 DEF OInv, TInv, TypeOK
  <2> QED
    BY <2>1 DEF Stream, Rest
<1>11. /\ \A m : InSeq(m, Stream(c)') => InSeq(m, Stream(c)) \/ m = n
       /\ \A m : InSeq(m, Rest(c)') => InSeq(m, Rest(c)) \/ m = n
  <2>1. /\ \A m : InSeq(m, Append(Stream(c), n)) <=> InSeq(m, Stream(c)) \/ m = n
        /\ \A m : InSeq(m, Append(Rest(c), n)) <=> InSeq(m, Rest(c)) \/ m = n
    BY <1>8, AppendElements
  <2> QED
    BY <1>9, <2>1
<1>12. SentInv'
  <2>1. \A l \in Clients : cpc'[l] = "send" => \A m \in Calls : via'[m] = sock'[l] => m < cur'[l]
    <3>1. \A l \in Clients : l # k => sock[l] # c
      BY <1>1 DEF OInv, TInv, ClientInv
    <3> QED
      BY <1>2, <1>4, <1>5, <3>1 DEF OInv, SentInv
  <2>2. Increasing(Stream(c)')
    <3>1. \A m : InSeq(m, Stream(c)) => m < n
      BY <1>7, <1>8, ElementsIn DEF OInv, SentInv
    <3>2. Increasing(Stream(c))
      BY DEF OInv, SentInv
    <3>3. Increasing(Append(Stream(c), n))
      BY <1>8, <3>1, <3>2, IncreasingAppend
    <3> QED
      BY <1>9, <3>2, <3>3
  <2>3. ASSUME NEW d \in Conns PROVE Increasing(Stream(d)')
    <3>1. CASE d = c
      BY <2>2, <3>1
    <3>2. CASE d # c
      BY <1>10, <3>2 DEF OInv, SentInv
    <3> QED
      BY <3>1, <3>2
  <2>4. ASSUME NEW d \in Conns, NEW m \in Calls, InSeq(m, Stream(d)') PROVE via'[m] = d
    <3>1. InSeq(m, Stream(d)) \/ (d = c /\ m = n)
      BY <1>10, <1>11, <2>4
    <3>2. InSeq(m, Stream(d)) => via[m] = d /\ m # n
      BY <1>1, Constants DEF OInv, SentInv
    <3> QED
      BY <1>4, <1>5, <3>1, <3>2
  <2>5. \A m \in Calls : Started(m)' => via'[m] # None
    BY <1>3, <1>6
  <2>6. \A m \in Calls : (job = m \/ InSeq(m, Live))' => srv'[via'[m]] = server'
    BY <1>2, <1>3, <1>6 DEF OInv, SentInv, Started, Begun
  <2> QED
    BY <2>1, <2>3, <2>4, <2>5, <2>6 DEF SentInv
<1>13. OrderInv'
  <2>1. RunInOrder'
    <3>1. \A i \in 1 .. Len(log) : log[i][1] \in Calls /\ Started(log[i][1])
      BY ElementOfSeq DEF OInv, TInv, TypeOK, Started, Begun, Ran
    <3> QED
      BY <1>2, <1>6, <3>1 DEF OInv, OrderInv, RunInOrder
  <2>2. \A m \in Calls : job' # None /\ Ran(m)' /\ via'[m] = via'[job'] => m < job'
    <3>1. job # None => job \in Calls /\ Started(job)
      BY DEF OInv, TInv, TypeOK, Started, Begun
    <3> QED
      BY <1>2, <1>3, <1>6, <3>1 DEF OInv, OrderInv, Started, Begun
  <2>3. \A m, x \in Calls : Begun(m)' /\ InSeq(x, Live') /\ via'[m] = via'[x] => m < x
    BY <1>3, <1>6 DEF OInv, OrderInv, Started
  <2>4. Ordered(Live, via)'
    <3>1. \A i \in 1 .. Len(Live) : Live[i] \in Calls /\ Started(Live[i])
      BY LiveTypes, ElementOfSeq DEF OInv, Started, InSeq
    <3> QED
      BY <1>3, <1>6, <3>1 DEF OInv, OrderInv, Ordered
  <2>5. ASSUME NEW d \in Conns, NEW m \in Calls, NEW x \in Calls, Started(m)', via'[m] = d, InSeq(x, Rest(d)') PROVE m < x
    <3>1. Started(m) /\ via[m] = d
      BY <1>3, <1>6, <2>5
    <3>2. CASE InSeq(x, Rest(d))
      BY <3>1, <3>2 DEF OInv, OrderInv
    <3>3. CASE d = c /\ x = n
      BY <1>7, <3>1, <3>3
    <3>4. InSeq(x, Rest(d)) \/ (d = c /\ x = n)
      BY <1>10, <1>11, <2>5
    <3> QED
      BY <3>2, <3>3, <3>4
  <2> QED
    BY <2>1, <2>2, <2>3, <2>4, <2>5 DEF OrderInv
<1> QED
  BY <1>12, <1>13

\* Steps of a thread that start nothing.
LEMMA ThreadOrder ==
  ASSUME OInv, NEW c \in Conns,
         ThreadStart(c) \/ Receive(c) \/ ReceiveEof(c) \/ ReplyDone(c) \/ ReplyTimeout(c)
  PROVE  SentInv' /\ OrderInv'
<1>1. /\ UNCHANGED <<log, job, queue, server, timer, via, srv, cpc, cur, sock>>
      /\ \A d \in Conns : d # c => lines'[d] = lines[d] /\ inbox'[d] = inbox[d] /\ hpc'[d] = hpc[d]
  BY DEF ThreadStart, Receive, ReceiveEof, ReplyDone, ReplyTimeout, Answer, ThreadGoto, clientVars, connVars, mainVars,
     OInv, TInv, TypeOK
<1>2. \A d \in Conns : d # c => Rest(d)' = Rest(d) /\ Stream(d)' = Stream(d)
  BY <1>1 DEF Rest, Stream
<1>3. Live' = Live
  BY <1>1 DEF Live
<1>4. CASE ThreadStart(c) \/ ReceiveEof(c)
  <2>1. lines' = lines /\ inbox' = inbox /\ hpc[c] \notin {"wait", "reply"} /\ hpc'[c] \notin {"wait", "reply"}
    BY <1>4 DEF ThreadStart, ReceiveEof, ThreadGoto, ThreadAt, connVars, OInv, TInv, TypeOK
  <2>2. Rest(c)' = Rest(c) /\ Stream(c)' = Stream(c)
    BY <2>1 DEF Rest, Stream
  <2> QED
    BY <1>1, <1>2, <1>3, <2>2, StillOrdered DEF OInv, SentInv
<1>5. CASE Receive(c)
  <2>1. PICK n \in 1 .. Len(inbox[c]) :
          /\ lines' = [lines EXCEPT ![c] = SubSeq(inbox[c], 1, n)]
          /\ inbox' = [inbox EXCEPT ![c] = SubSeq(inbox[c], n + 1, Len(inbox[c]))]
    BY <1>5 DEF Receive
  <2>2. lines[c] = <<>> /\ inbox[c] \in Seq(Calls)
    BY <1>5, ThreadAtWork DEF Receive, ThreadAt, OInv, TInv, ThreadInv
  <2>3. lines'[c] \o inbox'[c] = lines[c] \o inbox[c]
    BY <2>1, <2>2, StreamReceive DEF OInv, TInv, TypeOK
  <2>4. hpc[c] \notin {"wait", "reply"} /\ hpc'[c] \notin {"wait", "reply"}
    BY <1>5 DEF Receive, ThreadGoto, ThreadAt, OInv, TInv, TypeOK
  <2>5. Rest(c)' = Rest(c) /\ Stream(c)' = Stream(c)
    BY <2>3, <2>4 DEF Rest, Stream
  <2> QED
    BY <1>1, <1>2, <1>3, <2>5, StillOrdered DEF OInv, SentInv
<1>6. CASE ReplyDone(c) \/ ReplyTimeout(c)
  <2>1. hpc[c] \in {"wait", "reply"} /\ hpc'[c] \notin {"wait", "reply"}
    BY <1>6 DEF ReplyDone, ReplyTimeout, Answer, AfterReply, ThreadGoto, ThreadAt, OInv, TInv, TypeOK
  <2>2. inbox'[c] = inbox[c] /\ lines'[c] = Tail(lines[c])
    BY <1>6 DEF ReplyDone, ReplyTimeout, Answer, OInv, TInv, TypeOK
  <2>3. lines[c] \in Seq(Calls) /\ inbox[c] \in Seq(Calls) /\ lines[c] # <<>>
    BY <2>1, ThreadAtWork DEF OInv
  <2>4. Tail(lines[c] \o inbox[c]) = Tail(lines[c]) \o inbox[c] /\ lines[c] \o inbox[c] # <<>>
    BY <2>3, StreamTail
  <2>5. Stream(c)' = Tail(Stream(c)) /\ Stream(c) # <<>>
    BY <2>2, <2>4 DEF Stream
  <2>6. Rest(c)' = Rest(c)
    BY <2>1, <2>5 DEF Rest
  <2> QED
    BY <1>1, <1>2, <1>3, <2>5, <2>6, StillOrdered DEF OInv, SentInv
<1> QED
  BY <1>4, <1>5, <1>6

\* A thread takes up the next call of its stream: no call of its connection that
\* has started is later, and those that remain are.
LEMMA TakesUp ==
  ASSUME OInv, NEW c \in Conns, NEW n, n = Head(lines[c]), hpc[c] = "dispatch",
         \/ hpc' = [hpc EXCEPT ![c] = "wait"]
         \/ hpc' = [hpc EXCEPT ![c] = "reply"],
         UNCHANGED <<lines, inbox>>
  PROVE  /\ n \in Calls /\ via[n] = c /\ c # None
         /\ \A m \in Calls : Started(m) /\ via[m] = c => m < n
         /\ \A d \in Conns : Stream(d)' = Stream(d)
         /\ \A d \in Conns : d # c => Rest(d)' = Rest(d)
         /\ \A m : InSeq(m, Rest(c)') => InSeq(m, Rest(c)) /\ n < m
<1>1. Stream(c) \in Seq(Calls) /\ Stream(c) # <<>> /\ Head(Stream(c)) = n
  BY StreamTypes DEF OInv
<1>2. n \in Calls /\ InSeq(n, Stream(c)) /\ Tail(Stream(c)) \in Seq(Calls)
      /\ \A m : InSeq(m, Tail(Stream(c))) => InSeq(m, Stream(c))
  BY <1>1, TailElements
<1>3. \A d \in Conns : Stream(d)' = Stream(d)
  BY DEF Stream
<1>4. Rest(c) = Stream(c)
  BY DEF Rest
<1>5. Rest(c)' = Tail(Stream(c))
  <2>1. hpc'[c] \in {"wait", "reply"}
    BY DEF OInv, TInv, TypeOK
  <2> QED
    BY <1>3, <2>1 DEF Rest
<1>6. ASSUME NEW d \in Conns, d # c PROVE Rest(d)' = Rest(d)
  <2>1. hpc'[d] = hpc[d]
    BY <1>6 DEF OInv, TInv, TypeOK
  <2> QED
    BY <1>3, <2>1 DEF Rest
<1>7. via[n] = c /\ c # None
  BY <1>2, Constants DEF OInv, SentInv
<1>8. \A m \in Calls : Started(m) /\ via[m] = c => m < n
  BY <1>2, <1>4 DEF OInv, OrderInv
<1>9. \A m : InSeq(m, Tail(Stream(c))) => n < m
  BY <1>1, IncreasingTail DEF OInv, SentInv
<1> QED
  BY <1>2, <1>3, <1>4, <1>5, <1>6, <1>7, <1>8, <1>9

\* A connection whose server has no timer has no call in a queue that is served.
LEMMA TimerConnection ==
  ASSUME OInv, NEW c \in Conns, hpc[c] = "dispatch"
  PROVE  /\ srv[c] \in Servers
         /\ timer[srv[c]] => srv[c] = server /\ Live = queue[server]
         /\ ~timer[srv[c]] => \A n \in Calls : job = n \/ InSeq(n, Live) => via[n] # c
<1>1. srv[c] \in Servers
  <2>1. ~(c > conns)
    BY DEF OInv, TInv, ThreadInv
  <2>2. c <= conns
    BY <2>1 DEF OInv, TInv, TypeOK, Conns
  <2> QED
    BY <2>2 DEF OInv, TInv, TypeOK, ThreadInv
<1>2. timer[srv[c]] => srv[c] = server /\ server # 0
  BY <1>1 DEF OInv, TInv, MainInv, Servers
<1>3. timer[srv[c]] => Live = queue[server]
  BY <1>2 DEF Live
<1>4. ASSUME NEW n \in Calls, job = n \/ InSeq(n, Live) PROVE srv[via[n]] = server /\ timer[server]
  <2>1. srv[via[n]] = server
    BY <1>4 DEF OInv, SentInv
  <2>2. job = n => timer[server]
    <3>1. n # None
      BY Constants
    <3>2. job = n => mpc = "running"
      BY <3>1 DEF OInv, TInv, MainInv
    <3> QED
      BY <3>2, Zenon DEF OInv, TInv, MainInv
  <2>3. InSeq(n, Live) => timer[server]
    BY EmptyElements, Zenon DEF Live
  <2> QED
    BY <1>4, <2>1, <2>2, <2>3
<1>5. ASSUME ~timer[srv[c]], NEW n \in Calls, job = n \/ InSeq(n, Live) PROVE via[n] # c
  BY <1>4, <1>5
<1> QED
  BY <1>1, <1>2, <1>3, <1>5

LEMMA EnqueueOrder ==
  ASSUME OInv, NEW c \in Conns, Enqueue(c), NEW n, n = Head(lines[c])
  PROVE  SentInv' /\ OrderInv'
<1>1. /\ hpc[c] = "dispatch" /\ hpc' = [hpc EXCEPT ![c] = "wait"]
      /\ queue' = [queue EXCEPT ![srv[c]] = Append(queue[srv[c]], n)]
      /\ UNCHANGED <<lines, inbox, log, job, server, timer, via, srv, cpc, cur, sock>>
  BY DEF Enqueue, ThreadAt, ThreadGoto, clientVars, connVars, mainVars
<1>2. /\ n \in Calls /\ via[n] = c /\ c # None
      /\ \A m \in Calls : Started(m) /\ via[m] = c => m < n
      /\ \A d \in Conns : Stream(d)' = Stream(d)
      /\ \A d \in Conns : d # c => Rest(d)' = Rest(d)
      /\ \A m : InSeq(m, Rest(c)') => InSeq(m, Rest(c)) /\ n < m
  BY <1>1, TakesUp
<1>3. srv[c] \in Servers /\ srv[c] = server /\ Live = queue[server]
  BY <1>1, TimerConnection DEF Enqueue
<1>4. Live' = Append(Live, n)
  <2>1. queue'[server] = Append(queue[server], n)
    BY <1>1, <1>3 DEF OInv, TInv, TypeOK
  <2>2. server # 0 /\ timer'[server]
    BY <1>1, <1>3 DEF Servers, Enqueue
  <2>3. Live' = queue'[server]
    BY <1>1, <2>2 DEF Live
  <2> QED
    BY <1>3, <2>1, <2>3
<1>5. Live \in Seq(Calls) /\ \A m : InSeq(m, Live) => m \in Calls
  BY LiveTypes DEF OInv
<1>6. \A m : InSeq(m, Live') <=> InSeq(m, Live) \/ m = n
  <2>1. \A m : InSeq(m, Append(Live, n)) <=> InSeq(m, Live) \/ m = n
    BY <1>2, <1>5, AppendElements
  <2> QED
    BY <1>4, <2>1
<1>7. \A m : (Ran(m)' <=> Ran(m)) /\ (Begun(m)' <=> Begun(m))
  BY <1>1 DEF Ran, Begun
<1>8. \A m : Started(m)' <=> Started(m) \/ m = n
  BY <1>6, <1>7 DEF Started
<1>9. SentInv'
  <2>1. \A m \in Calls : job' = m \/ InSeq(m, Live') => srv'[via'[m]] = server'
    BY <1>1, <1>2, <1>3, <1>6 DEF OInv, SentInv
  <2> QED
    BY <1>1, <1>2, <1>8, <2>1 DEF OInv, SentInv
<1>10. OrderInv'
  <2>1. RunInOrder'
    BY <1>1 DEF OInv, OrderInv, RunInOrder
  <2>2. \A m \in Calls : job' # None /\ Ran(m)' /\ via'[m] = via'[job'] => m < job'
    BY <1>1, <1>7 DEF OInv, OrderInv
  <2>3. ASSUME NEW m \in Calls, NEW x \in Calls, Begun(m)', InSeq(x, Live'), via'[m] = via'[x] PROVE m < x
    <3>1. Begun(m) /\ via[m] = via[x] /\ Started(m)
      BY <1>1, <1>7, <2>3 DEF Started
    <3> QED
      BY <1>2, <1>6, <2>3, <3>1 DEF OInv, OrderInv
  <2>4. Ordered(Live, via)'
    <3>1. \A m : InSeq(m, Live) /\ via[m] = via[n] => m < n
      BY <1>2, <1>5 DEF Started
    <3>2. Ordered(Append(Live, n), via)
      BY <1>2, <1>5, <3>1, OrderedAppend DEF OInv, OrderInv
    <3> QED
      BY <1>1, <1>4, <3>2 DEF Ordered
  <2>5. ASSUME NEW d \in Conns, NEW m \in Calls, NEW x \in Calls, Started(m)', via'[m] = d, InSeq(x, Rest(d)')
        PROVE  m < x
    <3>1. via[m] = d /\ (Started(m) \/ m = n)
      BY <1>1, <1>8, <2>5
    <3>2. InSeq(x, Rest(d)) /\ (m = n => n < x)
      BY <1>2, <2>5, <3>1
    <3> QED
      BY <3>1, <3>2 DEF OInv, OrderInv
  <2> QED
    BY <2>1, <2>2, <2>3, <2>4, <2>5 DEF OrderInv
<1> QED
  BY <1>9, <1>10

LEMMA DirectOrder ==
  ASSUME OInv, NEW c \in Conns, RunDirect(c), NEW n, n = Head(lines[c])
  PROVE  SentInv' /\ OrderInv'
<1>1. /\ hpc[c] = "dispatch" /\ hpc' = [hpc EXCEPT ![c] = "reply"] /\ ~timer[srv[c]]
      /\ log' = Append(log, <<n, "connection">>)
      /\ UNCHANGED <<lines, inbox, queue, job, server, timer, via, srv, cpc, cur, sock>>
  BY DEF RunDirect, ThreadAt, ThreadGoto, clientVars, connVars, mainVars
<1>2. /\ n \in Calls /\ via[n] = c /\ c # None
      /\ \A m \in Calls : Started(m) /\ via[m] = c => m < n
      /\ \A d \in Conns : Stream(d)' = Stream(d)
      /\ \A d \in Conns : d # c => Rest(d)' = Rest(d)
      /\ \A m : InSeq(m, Rest(c)') => InSeq(m, Rest(c)) /\ n < m
  BY <1>1, TakesUp
<1>3. \A m \in Calls : job = m \/ InSeq(m, Live) => via[m] # c
  BY <1>1, TimerConnection
<1>4. Live' = Live
  BY <1>1 DEF Live
<1>5. Live \in Seq(Calls) /\ \A m : InSeq(m, Live) => m \in Calls
  BY LiveTypes DEF OInv
<1>6. RunInOrder' /\ \A m : Ran(m)' <=> Ran(m) \/ m = n
  BY <1>1, <1>2, LogAppend DEF OInv, OrderInv, Started, Begun
<1>7. \A m : (Begun(m)' <=> Begun(m) \/ m = n) /\ (Started(m)' <=> Started(m) \/ m = n)
  BY <1>1, <1>4, <1>6 DEF Begun, Started
<1>8. SentInv'
  BY <1>1, <1>2, <1>4, <1>7 DEF OInv, SentInv
<1>9. OrderInv'
  <2>1. ASSUME NEW m \in Calls, job' # None, Ran(m)', via'[m] = via'[job'] PROVE m < job'
    <3>1. job \in Calls /\ via[m] = via[job] /\ job # None
      BY <1>1, <2>1 DEF OInv, TInv, TypeOK
    <3>2. m # n
      BY <1>2, <1>3, <3>1
    <3> QED
      BY <1>1, <1>6, <2>1, <3>1, <3>2 DEF OInv, OrderInv
  <2>2. ASSUME NEW m \in Calls, NEW x \in Calls, Begun(m)', InSeq(x, Live'), via'[m] = via'[x] PROVE m < x
    <3>1. m # n
      BY <1>1, <1>2, <1>3, <1>4, <2>2
    <3> QED
      BY <1>1, <1>4, <1>7, <2>2, <3>1 DEF OInv, OrderInv
  <2>3. Ordered(Live, via)'
    BY <1>1, <1>4 DEF OInv, OrderInv, Ordered
  <2>4. ASSUME NEW d \in Conns, NEW m \in Calls, NEW x \in Calls, Started(m)', via'[m] = d, InSeq(x, Rest(d)')
        PROVE  m < x
    <3>1. via[m] = d /\ (Started(m) \/ m = n)
      BY <1>1, <1>7, <2>4
    <3>2. InSeq(x, Rest(d)) /\ (m = n => n < x)
      BY <1>2, <2>4, <3>1
    <3> QED
      BY <3>1, <3>2 DEF OInv, OrderInv
  <2> QED
    BY <1>6, <2>1, <2>2, <2>3, <2>4 DEF OrderInv
<1> QED
  BY <1>8, <1>9

\* Starting and stopping the server: nothing runs and nothing waits for a timer.
LEMMA ServerOrder ==
  ASSUME OInv, StartServer \/ StartTimer \/ StopServer
  PROVE  SentInv' /\ OrderInv'
<1>1. UNCHANGED <<log, job, queue, via, srv, lines, inbox, hpc, cpc, cur, sock>>
  BY DEF StartServer, StartTimer, StopServer, clientVars, connVars, threadVars
<1>2. job = None
  BY DEF StartServer, StartTimer, StopServer, OInv, TInv, MainInv
<1>3. Live' = <<>>
  <2>1. CASE StartServer
    <3>1. server' = server + 1 /\ timer' = timer /\ server \in Nat /\ server + 1 \in Servers
      BY <2>1, Constants DEF StartServer, OInv, TInv, TypeOK, Servers
    <3>2. ~timer[server + 1]
      BY <3>1 DEF OInv, TInv, MainInv
    <3> QED
      BY <3>1, <3>2 DEF Live
  <2>2. CASE StartTimer
    <3>1. mpc = "starting" /\ server' = server
      BY <2>2 DEF StartTimer
    <3>2. server \in Servers => queue[server] = <<>>
      BY <3>1 DEF OInv, TInv, TypeOK, MainInv, Servers
    <3> QED
      BY <1>1, <3>1, <3>2 DEF Live, OInv, TInv, TypeOK
  <2>3. CASE StopServer
    <3>1. server \in Servers /\ server' = server /\ timer' = [timer EXCEPT ![server] = FALSE]
      BY <2>3 DEF StopServer, OInv, TInv, TypeOK
    <3>2. ~timer'[server]
      BY <3>1 DEF OInv, TInv, TypeOK
    <3> QED
      BY <3>1, <3>2 DEF Live
  <2> QED
    BY <2>1, <2>2, <2>3
<1>4. \A m \in Calls : job' # m /\ ~InSeq(m, Live')
  BY <1>1, <1>2, <1>3, EmptyElements, Constants
<1>5. \A m : (Ran(m)' <=> Ran(m)) /\ (Begun(m)' <=> Begun(m)) /\ (Started(m)' => Started(m))
  BY <1>1, <1>3, EmptyElements DEF Ran, Begun, Started
<1>6. \A c \in Conns : Stream(c)' = Stream(c) /\ Rest(c)' = Rest(c)
  BY <1>1 DEF Stream, Rest
<1>7. SentInv'
  BY <1>1, <1>4, <1>5, <1>6 DEF OInv, SentInv
<1>8. OrderInv'
  <2>1. RunInOrder'
    BY <1>1 DEF OInv, OrderInv, RunInOrder
  <2>2. Ordered(Live, via)'
    BY <1>3 DEF Ordered
  <2> QED
    BY <1>1, <1>2, <1>4, <1>5, <1>6, <2>1, <2>2 DEF OInv, OrderInv
<1> QED
  BY <1>7, <1>8

\* The job taken is the first of those of its connection that wait.
LEMMA TakeOrder ==
  ASSUME OInv, TakeJob
  PROVE  SentInv' /\ OrderInv'
<1>1. UNCHANGED <<log, via, server, timer, srv, lines, inbox, hpc, cpc, cur, sock>>
  BY DEF TakeJob, clientVars, connVars, threadVars
<1>2. job = None
  BY DEF TakeJob, OInv, TInv, MainInv
<1>3. server \in Servers /\ Live = queue[server] /\ Live # <<>>
  BY DEF TakeJob, OInv, TInv, TypeOK, Live
<1>4. job' = Head(Live) /\ Live' = Tail(Live)
  <2>1. queue'[server] = Tail(queue[server])
    BY <1>3 DEF TakeJob, OInv, TInv, TypeOK
  <2>2. Live' = queue'[server]
    BY <1>1, <1>3 DEF Live, TakeJob
  <2> QED
    BY <1>3, <2>1, <2>2 DEF TakeJob
<1>5. /\ Live \in Seq(Calls) /\ job' \in Calls
      /\ \A m : InSeq(m, Live) <=> m = job' \/ InSeq(m, Live')
  BY <1>3, <1>4, LiveTypes, TailElements DEF OInv
<1>6. \A m \in Calls : (Ran(m)' <=> Ran(m)) /\ (Begun(m) <=> Ran(m)) /\ (Begun(m)' <=> Begun(m) \/ m = job')
  BY <1>1, <1>2, Constants DEF Ran, Begun
<1>7. \A m \in Calls : Started(m)' <=> Started(m)
  BY <1>5, <1>6 DEF Started
<1>8. \A c \in Conns : Stream(c)' = Stream(c) /\ Rest(c)' = Rest(c)
  BY <1>1 DEF Stream, Rest
<1>9. SentInv'
  BY <1>1, <1>5, <1>7, <1>8 DEF OInv, SentInv
<1>10. OrderInv'
  <2>1. RunInOrder'
    BY <1>1 DEF OInv, OrderInv, RunInOrder
  <2>2. Ordered(Tail(Live), via) /\ \A n : InSeq(n, Tail(Live)) /\ via[Head(Live)] = via[n] => Head(Live) < n
    BY <1>3, <1>5, OrderedTail DEF OInv, OrderInv
  <2>3. Ordered(Live, via)'
    BY <1>1, <1>4, <2>2 DEF Ordered
  <2>4. \A m \in Calls : job' # None /\ Ran(m)' /\ via'[m] = via'[job'] => m < job'
    BY <1>1, <1>5, <1>6 DEF OInv, OrderInv
  <2>5. \A m, x \in Calls : Begun(m)' /\ InSeq(x, Live') /\ via'[m] = via'[x] => m < x
    BY <1>1, <1>4, <1>5, <1>6, <2>2 DEF OInv, OrderInv
  <2>6. \A c \in Conns : \A m, x \in Calls : Started(m)' /\ via'[m] = c /\ InSeq(x, Rest(c)') => m < x
    BY <1>1, <1>7, <1>8 DEF OInv, OrderInv
  <2> QED
    BY <2>1, <2>3, <2>4, <2>5, <2>6 DEF OrderInv
<1> QED
  BY <1>9, <1>10

LEMMA FinishOrder ==
  ASSUME OInv, FinishJob
  PROVE  SentInv' /\ OrderInv'
<1>1. /\ UNCHANGED <<queue, via, server, timer, srv, lines, inbox, hpc, cpc, cur, sock>>
      /\ log' = Append(log, <<job, "main">>) /\ job' = None
  BY DEF FinishJob, clientVars, connVars, threadVars
<1>2. job \in Calls /\ job # None
  BY DEF FinishJob, OInv, TInv, MainInv, TypeOK
<1>3. Live' = Live
  BY <1>1 DEF Live
<1>4. RunInOrder' /\ \A m : Ran(m)' <=> Ran(m) \/ m = job
  BY <1>1, <1>2, LogAppend DEF OInv, OrderInv
<1>5. \A m \in Calls : (Begun(m)' <=> Begun(m)) /\ (Started(m)' <=> Started(m))
  BY <1>1, <1>3, <1>4, Constants DEF Begun, Started
<1>6. \A c \in Conns : Stream(c)' = Stream(c) /\ Rest(c)' = Rest(c)
  BY <1>1 DEF Stream, Rest
<1>7. SentInv'
  BY <1>1, <1>3, <1>5, <1>6, Constants DEF OInv, SentInv
<1>8. OrderInv'
  <2>1. Ordered(Live, via)'
    BY <1>1, <1>3 DEF OInv, OrderInv, Ordered
  <2> QED
    BY <1>1, <1>3, <1>4, <1>5, <1>6, <2>1 DEF OInv, OrderInv
<1> QED
  BY <1>7, <1>8

LEMMA OrderStep == OInv /\ [Next]_vars => OInv'
<1> SUFFICES ASSUME OInv, [Next]_vars PROVE OInv'
  OBVIOUS
<1>1. TInv'
  BY TypeStep DEF OInv
<1>2. ASSUME NEW k \in Clients, Call(k) \/ ClientStep(k) \/ ConnectFails(k) \/ ClientRestart(k)
      PROVE  SentInv' /\ OrderInv'
  <2>1. CASE Send(k)
    <3>1. cur[k] \in Calls /\ sock[k] \in Conns
      BY <2>1, AtWork DEF Send, ClientAt, OInv
    <3>2. PICK n \in Calls : n = cur[k]
      BY <3>1
    <3>3. PICK c \in Conns : c = sock[k]
      BY <3>1
    <3> QED
      BY <2>1, <3>2, <3>3, SendOrder
  <2>2. CASE ~Send(k)
    BY <1>2, <2>2, ClientOrder DEF ClientStep
  <2> QED
    BY <2>1, <2>2
<1>3. ASSUME NEW c \in Conns, ThreadStep(c)
      PROVE  SentInv' /\ OrderInv'
  BY <1>3, ThreadOrder, EnqueueOrder, DirectOrder DEF ThreadStep
<1>4. ASSUME MainStep \/ StartServer \/ StopServer
      PROVE  SentInv' /\ OrderInv'
  <2>1. CASE StartServer \/ StartTimer \/ StopServer
    BY <2>1, ServerOrder
  <2>2. CASE TakeJob
    BY <2>2, TakeOrder
  <2>3. CASE FinishJob
    BY <2>3, FinishOrder
  <2> QED
    BY <1>4, <2>1, <2>2, <2>3 DEF MainStep
<1>5. ASSUME UNCHANGED vars
      PROVE  SentInv' /\ OrderInv'
  <2>1. UNCHANGED <<log, job, queue, via, server, timer, srv, lines, inbox, hpc, cpc, cur, sock>>
    BY <1>5 DEF vars, clientVars, connVars, threadVars, mainVars
  <2>2. Live' = Live /\ \A c \in Conns : Stream(c)' = Stream(c) /\ Rest(c)' = Rest(c)
    BY <2>1 DEF Live, Stream, Rest
  <2>3. \A l \in Clients : cpc'[l] = "send" => \A n \in Calls : via[n] = sock'[l] => n < cur'[l]
    BY <2>1 DEF OInv, SentInv
  <2>4. UNCHANGED <<log, job, Live, server, via>> /\ srv' = srv
    BY <2>1, <2>2
  <2> QED
    BY <2>2, <2>3, <2>4, StillOrdered
<1>6. SentInv' /\ OrderInv'
  BY <1>2, <1>3, <1>4, <1>5 DEF Next
<1> QED
  BY <1>1, <1>6 DEF OInv

\* The commands of one connection run in the order they were sent, through both
\* ways a thread has to run one (RunInOrder).
THEOREM RunsAsSent == Spec => []RunInOrder
<1>1. OInv => RunInOrder
  BY DEF OInv, OrderInv
<1> QED
  BY InitOrder, OrderStep, <1>1, PTL DEF Spec

\* A command changes the document once: no timeout, restart or stop makes its
\* handler run again (RunsAtMostOnce).
THEOREM RunsOnce == Spec => []RunsAtMostOnce
<1>1. OInv => RunsAtMostOnce
  <2>1. SUFFICES ASSUME OInv, NEW i \in 1 .. Len(log), NEW j \in 1 .. Len(log), log[i][1] = log[j][1], i # j
                 PROVE  FALSE
    BY DEF RunsAtMostOnce
  <2>2. log[i][1] \in Nat /\ log[j][1] \in Nat
    <3>1. log \in Seq(Calls \X {"main", "connection"})
      BY <2>1 DEF OInv, TInv, TypeOK
    <3>2. log[i] \in Calls \X {"main", "connection"} /\ log[j] \in Calls \X {"main", "connection"}
      BY <2>1, <3>1, ElementOfSeq
    <3> QED
      BY <3>2 DEF Calls
  <2>3. i < j \/ j < i
    BY <2>1
  <2> QED
    BY <2>1, <2>2, <2>3 DEF OInv, OrderInv, RunInOrder
<1> QED
  BY InitOrder, OrderStep, <1>1, PTL DEF Spec

-----------------------------------------------------------------------------
(* Requests and responses.                                                 *)

\* Over a connection nothing is on its way, or the one call n, or its response.
Quiet(c) == Stream(c) = <<>> /\ outbox[c] = <<>>
Asked(c, n) == Stream(c) = <<n>> /\ outbox[c] = <<>>
Answered(c, n) == Stream(c) = <<>> /\ \E what \in Outcomes \union {"timeout"} : outbox[c] = << <<n, what>> >>

\* A client that never timed out on its connection has nothing on it but the call
\* whose response it waits for.
PairOf(k) ==
  sock[k] # None /\ clean[k] =>
    Quiet(sock[k]) \/ (cpc[k] = "read" /\ (Asked(sock[k], cur[k]) \/ Answered(sock[k], cur[k])))

PairInv == \A k \in Clients : PairOf(k)

PInv == TInv /\ PairInv

LEMMA Single ==
  ASSUME NEW x
  PROVE  Append(<<>>, x) = <<x>> /\ Tail(<<x>>) = <<>> /\ Head(<<x>>) = x /\ <<x>> # <<>>
OBVIOUS

LEMMA InitPair == Init => PInv
<1> SUFFICES ASSUME Init PROVE PInv
  OBVIOUS
<1>1. PairInv
  BY DEF Init, PairInv, PairOf
<1> QED
  BY <1>1, InitTypes DEF PInv

\* A step that touches neither the client nor its connection.
LEMMA PairFrame ==
  ASSUME PInv, NEW k \in Clients,
         sock'[k] = sock[k], clean'[k] = clean[k], cpc'[k] = cpc[k], cur'[k] = cur[k],
         NEW c, c = sock[k],
         c # None => Stream(c)' = Stream(c) /\ outbox'[c] = outbox[c]
  PROVE  PairOf(k)'
<1> SUFFICES ASSUME sock'[k] # None, clean'[k]
             PROVE  (Quiet(sock[k]) \/ (cpc[k] = "read" /\ (Asked(sock[k], cur[k]) \/ Answered(sock[k], cur[k]))))'
  BY DEF PairOf
<1>1. c # None /\ (Quiet(c) \/ (cpc[k] = "read" /\ (Asked(c, cur[k]) \/ Answered(c, cur[k]))))
  BY Zenon DEF PInv, PairInv, PairOf
<1>2. (Quiet(c)' <=> Quiet(c)) /\ \A n : (Asked(c, n)' <=> Asked(c, n)) /\ (Answered(c, n)' <=> Answered(c, n))
  BY <1>1 DEF Quiet, Asked, Answered
<1> QED
  BY <1>1, <1>2 DEF Quiet, Asked, Answered

LEMMA ClientPair ==
  ASSUME PInv, NEW k \in Clients, Call(k) \/ ClientStep(k) \/ ConnectFails(k) \/ ClientRestart(k)
  PROVE  PairInv'
<1>1. ASSUME NEW l \in Clients, l # k PROVE PairOf(l)'
  <2> DEFINE c == sock[l]
  <2>1. sock'[l] = sock[l] /\ cpc'[l] = cpc[l] /\ cur'[l] = cur[l]
    BY <1>1 DEF Call, ClientStep, Connect, Send, ConnectionLost, Read, ReadTimeout, ConnectFails, ClientRestart, Return,
       ClientGoto, PInv, TInv, TypeOK
  <2>2. clean'[l] = clean[l]
    BY <1>1 DEF Call, ClientStep, Connect, Send, ConnectionLost, Read, ReadTimeout, ConnectFails, ClientRestart,
       PInv, TInv, TypeOK
  <2>3. ASSUME NEW d \in Conns, d = sock[l] PROVE Stream(d)' = Stream(d) /\ outbox'[d] = outbox[d]
    <3>1. d # sock[k]
      BY <1>1, <2>3, Constants DEF PInv, TInv, ClientInv
    <3>2. inbox'[d] = inbox[d] /\ outbox'[d] = outbox[d] /\ lines'[d] = lines[d]
      BY <3>1 DEF Call, ClientStep, Connect, Send, ConnectionLost, Read, ReadTimeout, ConnectFails, ClientRestart,
         connVars, threadVars, PInv, TInv, TypeOK
    <3> QED
      BY <3>2 DEF Stream
  <2>4. CASE sock[l] = None
    BY <2>1, <2>4 DEF PairOf
  <2>5. CASE sock[l] # None
    <3>1. PICK d \in Conns : d = sock[l]
      BY <2>5 DEF PInv, TInv, TypeOK
    <3> QED
      BY <2>1, <2>2, <2>3, <3>1, PairFrame
  <2> QED
    BY <2>4, <2>5
<1>2. PairOf(k)'
  <2>1. CASE Call(k)
    <3>1. Quiet(sock[k]) \/ sock[k] = None \/ ~clean[k]
      BY <2>1, Zenon DEF PInv, PairInv, PairOf, Call, ClientAt
    <3> QED
      BY <2>1, <3>1 DEF PairOf, Quiet, Stream, Call, connVars, threadVars
  <2>2. CASE Connect(k)
    <3>1. conns + 1 \in Conns /\ conns + 1 > conns /\ sock'[k] = conns + 1
      BY <2>2, Constants DEF Connect, PInv, TInv, TypeOK, Conns
    <3>2. PICK c \in Conns : c = conns + 1
      BY <3>1
    <3>3. lines'[c] = <<>> /\ inbox'[c] = <<>> /\ outbox'[c] = <<>>
      BY <2>2, <3>1, <3>2 DEF Connect, PInv, TInv, ThreadInv
    <3>4. Quiet(c)'
      BY <3>3, EmptySeq, ConcatEmptySeq DEF Quiet, Stream
    <3> QED
      BY <3>1, <3>2, <3>4 DEF PairOf, Quiet
  <2>3. CASE Send(k)
    <3>1. cur[k] \in Calls /\ sock[k] \in Conns /\ sock[k] # None /\ cpc[k] = "send"
      BY <2>3, AtWork DEF Send, ClientAt, PInv
    <3>2. PICK c \in Conns : c = sock[k]
      BY <3>1
    <3>3. SUFFICES ASSUME clean[k] PROVE PairOf(k)'
      BY <2>3 DEF Send, PairOf
    <3>4. Stream(c) = <<>> /\ outbox[c] = <<>>
      BY <3>1, <3>2, <3>3 DEF PInv, PairInv, PairOf, Quiet
    <3>5. /\ inbox'[c] = inbox[c] \/ inbox'[c] = Append(inbox[c], cur[k])
          /\ lines'[c] = lines[c] /\ outbox'[c] = outbox[c]
          /\ sock'[k] = c /\ cur'[k] = cur[k] /\ cpc'[k] = "read"
      BY <2>3, <3>1, <3>2 DEF Send, threadVars, ClientGoto, PInv, TInv, TypeOK
    <3>6. lines[c] \in Seq(Calls) /\ inbox[c] \in Seq(Calls)
      BY DEF PInv, TInv, TypeOK
    <3>7. CASE inbox'[c] = inbox[c]
      <4>1. Quiet(c)'
        BY <3>4, <3>5, <3>7 DEF Quiet, Stream
      <4> QED
        BY <3>5, <4>1 DEF PairOf, Quiet
    <3>8. CASE inbox'[c] = Append(inbox[c], cur[k])
      <4>1. PICK n \in Calls : n = cur[k]
        BY <3>1
      <4>2. lines[c] \o Append(inbox[c], n) = Append(lines[c] \o inbox[c], n)
        <5> DEFINE s == lines[c]
                   t == inbox[c]
        <5>1. s \in Seq(Calls) /\ t \in Seq(Calls)
          BY <3>6
        <5> HIDE DEF s, t
        <5>2. s \o Append(t, n) = Append(s \o t, n)
          BY <5>1, StreamAppend
        <5> QED
          BY <5>2 DEF s, t
      <4>3. Stream(c)' = <<n>> /\ outbox'[c] = <<>>
        BY <3>4, <3>5, <3>8, <4>1, <4>2, Single DEF Stream
      <4> QED
        BY <3>5, <4>1, <4>3 DEF PairOf, Asked
    <3> QED
      BY <3>5, <3>7, <3>8
  <2>4. CASE ConnectionLost(k) \/ ClientRestart(k)
    BY <2>4 DEF ConnectionLost, ClientRestart, PairOf, PInv, TInv, TypeOK
  <2>5. CASE Read(k)
    <3>1. sock[k] \in Conns /\ sock[k] # None
      BY <2>5, AtWork DEF Read, ClientAt, PInv
    <3>2. PICK c \in Conns : c = sock[k]
      BY <3>1
    <3>3. SUFFICES ASSUME clean[k] PROVE PairOf(k)'
      BY <2>5 DEF Read, PairOf
    <3>4. outbox[c] # <<>> /\ outbox'[c] = Tail(outbox[c]) /\ sock'[k] = c /\ inbox' = inbox /\ lines' = lines
      BY <2>5, <3>2 DEF Read, threadVars, PInv, TInv, TypeOK
    <3>5. Answered(c, cur[k])
      BY <3>1, <3>2, <3>3, <3>4 DEF PInv, PairInv, PairOf, Quiet, Asked
    <3>6. Quiet(c)'
      BY <3>4, <3>5, Single DEF Answered, Quiet, Stream
    <3> QED
      BY <3>4, <3>6 DEF PairOf, Quiet
  <2>6. CASE ReadTimeout(k)
    <3>1. clean'[k] = FALSE
      BY <2>6 DEF ReadTimeout, PInv, TInv, TypeOK
    <3> QED
      BY <3>1 DEF PairOf
  <2>7. CASE ConnectFails(k)
    <3>1. sock'[k] = None
      BY <2>7 DEF ConnectFails, ClientAt, PInv, TInv, ClientInv
    <3> QED
      BY <3>1 DEF PairOf
  <2> QED
    BY <2>1, <2>2, <2>3, <2>4, <2>5, <2>6, <2>7 DEF ClientStep
<1> QED
  BY <1>1, <1>2 DEF PairInv

\* The thread of a connection answers the call it was asked, and moves no other.
LEMMA ThreadPair ==
  ASSUME PInv, NEW c \in Conns, ThreadStep(c)
  PROVE  PairInv'
<1>1. /\ UNCHANGED clientVars
      /\ \A d \in Conns : d # c => lines'[d] = lines[d] /\ inbox'[d] = inbox[d] /\ outbox'[d] = outbox[d]
  BY DEF ThreadStep, ThreadStart, Receive, ReceiveEof, Enqueue, RunDirect, ReplyDone, ReplyTimeout, Answer, connVars,
     PInv, TInv, TypeOK
<1>2. \/ Stream(c)' = Stream(c) /\ outbox'[c] = outbox[c]
      \/ \E what \in Outcomes \union {"timeout"} :
           /\ Stream(c) # <<>>
           /\ outbox'[c] = Append(outbox[c], <<Head(Stream(c)), what>>)
           /\ Stream(c)' = Tail(Stream(c))
  <2>1. CASE ThreadStart(c) \/ ReceiveEof(c) \/ Enqueue(c) \/ RunDirect(c)
    BY <2>1 DEF ThreadStart, ReceiveEof, Enqueue, RunDirect, connVars, Stream
  <2>2. CASE Receive(c)
    <3>1. PICK n \in 1 .. Len(inbox[c]) :
            /\ lines' = [lines EXCEPT ![c] = SubSeq(inbox[c], 1, n)]
            /\ inbox' = [inbox EXCEPT ![c] = SubSeq(inbox[c], n + 1, Len(inbox[c]))]
            /\ outbox' = outbox
      BY <2>2 DEF Receive
    <3>2. lines[c] = <<>> /\ inbox[c] \in Seq(Calls)
      BY <2>2, ThreadAtWork DEF Receive, ThreadAt, PInv, TInv, ThreadInv
    <3>3. lines'[c] \o inbox'[c] = lines[c] \o inbox[c]
      BY <3>1, <3>2, StreamReceive DEF PInv, TInv, TypeOK
    <3> QED
      BY <3>1, <3>3 DEF Stream
  <2>3. CASE ReplyDone(c) \/ ReplyTimeout(c)
    <3>1. hpc[c] \in {"wait", "reply"} /\ Stream(c) # <<>> /\ Head(Stream(c)) = Head(lines[c])
      BY <2>3, StreamTypes DEF ReplyDone, ReplyTimeout, ThreadAt, PInv
    <3>2. lines[c] \in Seq(Calls) /\ inbox[c] \in Seq(Calls) /\ lines[c] # <<>>
      BY <3>1, ThreadAtWork DEF PInv
    <3>3. PICK what \in Outcomes \union {"timeout"} : Answer(c, what)
      <4>1. Head(lines[c]) \in Calls
        BY <3>2, TailElements
      <4>2. response[Head(lines[c])] \in Outcomes \union {"none"}
        BY <4>1 DEF PInv, TInv, TypeOK
      <4> QED
        BY <2>3, <4>2 DEF ReplyDone, ReplyTimeout
    <3>4. /\ outbox'[c] = Append(outbox[c], <<Head(lines[c]), what>>)
          /\ lines'[c] = Tail(lines[c]) /\ inbox'[c] = inbox[c]
      BY <3>3 DEF Answer, PInv, TInv, TypeOK
    <3>5. Tail(lines[c] \o inbox[c]) = Tail(lines[c]) \o inbox[c]
      BY <3>2, StreamTail
    <3>6. Stream(c)' = Tail(Stream(c))
      BY <3>4, <3>5 DEF Stream
    <3> QED
      BY <3>1, <3>4, <3>6
  <2> QED
    BY <2>1, <2>2, <2>3 DEF ThreadStep
<1>3. ASSUME NEW k \in Clients PROVE PairOf(k)'
  <2>1. sock'[k] = sock[k] /\ cpc'[k] = cpc[k] /\ cur'[k] = cur[k] /\ clean'[k] = clean[k]
    BY <1>1 DEF clientVars
  <2>2. CASE sock[k] = None
    BY <2>1, <2>2 DEF PairOf
  <2>3. CASE sock[k] # None /\ (sock[k] # c \/ (Stream(c)' = Stream(c) /\ outbox'[c] = outbox[c]))
    <3>1. PICK d \in Conns : d = sock[k]
      BY <2>3 DEF PInv, TInv, TypeOK
    <3>2. Stream(d)' = Stream(d) /\ outbox'[d] = outbox[d]
      BY <1>1, <2>3, <3>1 DEF Stream
    <3> QED
      BY <2>1, <3>1, <3>2, PairFrame
  <2>4. CASE sock[k] = c /\ sock[k] # None /\ ~(Stream(c)' = Stream(c) /\ outbox'[c] = outbox[c])
    <3>1. SUFFICES ASSUME clean[k] PROVE PairOf(k)'
      BY <2>1 DEF PairOf
    <3>2. PICK what \in Outcomes \union {"timeout"} :
            /\ Stream(c) # <<>>
            /\ outbox'[c] = Append(outbox[c], <<Head(Stream(c)), what>>)
            /\ Stream(c)' = Tail(Stream(c))
      BY <1>2, <2>4
    <3>3. cpc[k] = "read" /\ Stream(c) = <<cur[k]>> /\ outbox[c] = <<>>
      BY <2>4, <3>1, <3>2 DEF PInv, PairInv, PairOf, Quiet, Asked, Answered
    <3>4. Stream(c)' = <<>> /\ outbox'[c] = << <<cur[k], what>> >>
      BY <3>2, <3>3, Single
    <3> QED
      BY <2>1, <2>4, <3>3, <3>4 DEF PairOf, Answered
  <2> QED
    BY <2>2, <2>3, <2>4
<1> QED
  BY <1>3 DEF PairInv

LEMMA PairStep == PInv /\ [Next]_vars => PInv'
<1> SUFFICES ASSUME PInv, [Next]_vars PROVE PInv'
  OBVIOUS
<1>1. TInv'
  BY TypeStep DEF PInv
<1>2. ASSUME MainStep \/ StartServer \/ StopServer \/ UNCHANGED vars PROVE PairInv'
  <2>1. UNCHANGED <<cpc, cur, sock, clean, inbox, outbox, lines>>
    BY <1>2 DEF MainStep, StartTimer, TakeJob, FinishJob, StartServer, StopServer, vars, clientVars, connVars, threadVars
  <2> QED
    BY <2>1 DEF PInv, PairInv, PairOf, Quiet, Asked, Answered, Stream
<1>3. PairInv'
  BY <1>2, ClientPair, ThreadPair DEF Next
<1> QED
  BY <1>1, <1>3 DEF PInv

\* A client none of whose reads timed out on its connection reads the response of its
\* own call, although messages carry no number (OwnAnswer).
THEOREM ReadsOwnAnswer == Spec => []OwnAnswer
<1>1. PInv => OwnAnswer
  <2>1. SUFFICES ASSUME PInv, NEW k \in Clients, cpc[k] = "read", clean[k], outbox[sock[k]] # <<>>
                 PROVE  Head(outbox[sock[k]])[1] = cur[k]
    BY DEF OwnAnswer, ClientAt
  <2>2. sock[k] # None
    BY <2>1 DEF PInv, TInv, ClientInv
  <2>3. PICK what \in Outcomes \union {"timeout"} : outbox[sock[k]] = << <<cur[k], what>> >>
    BY <2>1, <2>2 DEF PInv, PairInv, PairOf, Quiet, Asked, Answered
  <2> QED
    BY <2>3, Single
<1> QED
  BY InitPair, PairStep, <1>1, PTL DEF Spec

-----------------------------------------------------------------------------
(* The contract.                                                           *)

\* A client's call has not returned; every other call of its connection has, and has
\* not found it broken; and a client that is not clean had a read time out on it.
CallOf(k) ==
  /\ cur[k] # None => answer[cur[k]] = Pending
  /\ cpc[k] = "read" => via[cur[k]] = sock[k]
  /\ sock[k] # None => \A m \in Calls : via[m] = sock[k] =>
       /\ cur[k] # None => m <= cur[k]
       /\ m # cur[k] => answer[m] \notin {Pending, Failed("lost")}
  /\ sock[k] # None /\ ~clean[k] =>
       \E m \in Calls : via[m] = sock[k] /\ answer[m] = Failed("timed out")

AnswerInv == \A n \in Calls : (n > calls => answer[n] = Pending) /\ answer[n][1] <= n

CallInv == AnswerInv /\ \A k \in Clients : CallOf(k)

\* The responses on the way to a client are true and of calls of its connection, in
\* their order: after those that were returned, before those not yet answered.
OutOf(c) ==
  /\ \A i, j \in 1 .. Len(outbox[c]) : i < j => outbox[c][i][1] < outbox[c][j][1]
  /\ \A r \in Response : InSeq(r, outbox[c]) =>
       /\ via[r[1]] = c
       /\ r[2] # "timeout" => response[r[1]] = r[2]
       /\ \A n \in Calls : InSeq(n, Stream(c)) => r[1] < n
       /\ \A l \in Calls : via[l] = c => answer[l][1] < r[1]
  /\ \A n, l \in Calls : InSeq(n, Stream(c)) /\ via[l] = c => answer[l][1] < n

OutInv == \A c \in Conns : OutOf(c)

RanInv == \A n \in Calls : response[n] # "none" <=> Ran(n)

RefInv == OInv /\ PairInv /\ CallInv /\ OutInv /\ RanInv

LEMMA ReturnedNumber ==
  ASSUME TInv, NEW n \in Calls
  PROVE  n \in Nat \ {0} /\ answer[n][1] \in Nat
<1>1. n \in Nat \ {0}
  BY Constants DEF Calls
<1>1a. answer[n] \in Returned
  BY DEF TInv, TypeOK
<1>2. CASE answer[n] \in Response
  BY <1>2 DEF Response, Calls
<1>3. CASE answer[n] \notin Response
  <2>1. PICK why : answer[n] = <<0, why>>
    BY <1>1a, <1>3 DEF Returned, Failed
  <2> QED
    BY <1>1, <2>1
<1> QED
  BY <1>1, <1>2, <1>3

LEMMA MadeCalls ==
  ASSUME TInv
  PROVE  \A m, n \in Calls : n <= calls /\ m > calls => m # n
<1>1. calls \in Nat
  BY DEF TInv, TypeOK
<1> QED
  BY <1>1 DEF Calls

LEMMA InitRef == Init => RefInv
<1> SUFFICES ASSUME Init PROVE RefInv
  OBVIOUS
<1>1. OInv /\ PairInv
  BY InitOrder, InitPair DEF PInv
<1>2. CallInv
  <2>1. \A n \in Calls : answer[n] = Pending /\ answer[n][1] <= n
    BY DEF Init, Pending, Failed, Calls
  <2> QED
    BY <2>1 DEF Init, CallInv, AnswerInv, CallOf
<1>3. OutInv
  <2>1. \A c \in Conns : outbox[c] = <<>> /\ Stream(c) = <<>>
    BY EmptySeq, ConcatEmptySeq DEF Init, Stream
  <2>2. Len(<<>>) = 0
    OBVIOUS
  <2> QED
    BY <2>1, <2>2, EmptyElements DEF OutInv, OutOf
<1>4. RanInv
  BY DEF Init, RanInv, Ran
<1> QED
  BY <1>1, <1>2, <1>3, <1>4 DEF RefInv

\* Steps of clients that neither send nor return: what was sent and returned is as it was.
LEMMA CallKept ==
  ASSUME RefInv, NEW k \in Clients, Call(k) \/ Connect(k) \/ ClientRestart(k)
  PROVE  CallInv' /\ UNCHANGED <<via, answer, outbox, response, log>>
<1>1. /\ UNCHANGED <<via, answer, outbox, response, log>>
      /\ \A l \in Clients : l # k => cur'[l] = cur[l] /\ cpc'[l] = cpc[l] /\ sock'[l] = sock[l] /\ clean'[l] = clean[l]
  BY DEF Call, Connect, ClientRestart, ClientGoto, connVars, RefInv, OInv, TInv, TypeOK
<1>2. calls' >= calls /\ calls \in Nat /\ calls' \in Nat
  BY DEF Call, Connect, ClientRestart, RefInv, OInv, TInv, TypeOK
<1>3. AnswerInv'
  <2>1. AnswerInv
    BY DEF RefInv, CallInv
  <2> QED
    BY <1>1, <1>2, <2>1 DEF AnswerInv, Calls
<1>4. CallOf(k)
  BY DEF RefInv, CallInv
<1>5. ASSUME NEW m \in Calls, sock'[k] # None, via[m] = sock'[k]
      PROVE  /\ cur'[k] # None => m <= cur'[k]
             /\ m # cur'[k] => answer[m] \notin {Pending, Failed("lost")}
  <2>1. CASE Call(k)
    <3>1. cur[k] = None /\ sock'[k] = sock[k] /\ cur'[k] = calls + 1
      BY <2>1 DEF Call, ClientAt, RefInv, OInv, TInv, TypeOK, ClientInv
    <3>2. m <= calls /\ m \in Nat
      BY <1>5 DEF RefInv, OInv, TInv, ClientInv, Calls
    <3>3. m # cur[k]
      BY <3>1, Constants
    <3>4. m <= cur'[k]
      BY <1>2, <3>1, <3>2
    <3> QED
      BY <1>4, <1>5, <3>1, <3>3, <3>4 DEF CallOf
  <2>2. CASE Connect(k)
    <3>1. sock'[k] = conns + 1 /\ conns \in Nat
      BY <2>2 DEF Connect, RefInv, OInv, TInv, TypeOK
    <3>2. via[m] # None
      BY <1>5
    <3>3. via[m] <= conns
      BY <3>2 DEF RefInv, OInv, TInv, ClientInv
    <3> QED
      BY <1>5, <3>1, <3>3
  <2>3. CASE ClientRestart(k)
    BY <1>5, <2>3 DEF ClientRestart, RefInv, OInv, TInv, TypeOK
  <2> QED
    BY <2>1, <2>2, <2>3
<1>6. cur'[k] # None => answer[cur'[k]] = Pending
  <2>1. CASE Call(k)
    <3>1. cur'[k] = calls + 1 /\ calls + 1 \in Calls /\ calls + 1 > calls
      BY <1>2, <2>1, Constants DEF Call, RefInv, OInv, TInv, TypeOK, Calls
    <3>2. AnswerInv
      BY DEF RefInv, CallInv
    <3> QED
      BY <3>1, <3>2 DEF AnswerInv
  <2>2. CASE Connect(k) \/ ClientRestart(k)
    BY <1>4, <2>2 DEF Connect, ClientRestart, RefInv, OInv, TInv, TypeOK, CallOf
  <2> QED
    BY <2>1, <2>2
<1>7. cpc'[k] # "read"
  BY DEF Call, Connect, ClientRestart, ClientGoto, RefInv, OInv, TInv, TypeOK
<1>8. sock'[k] # None /\ ~clean'[k] => sock'[k] = sock[k] /\ ~clean[k]
  BY DEF Call, Connect, ClientRestart, RefInv, OInv, TInv, TypeOK
<1>9. CallOf(k)'
  BY <1>1, <1>4, <1>5, <1>6, <1>7, <1>8 DEF CallOf
<1>10. ASSUME NEW l \in Clients, l # k PROVE CallOf(l)'
  <2>1. CallOf(l)
    BY DEF RefInv, CallInv
  <2> QED
    BY <1>1, <1>10, <2>1 DEF CallOf
<1> QED
  BY <1>1, <1>3, <1>9, <1>10 DEF CallInv

LEMMA CallSent ==
  ASSUME RefInv, NEW k \in Clients, Send(k), NEW n \in Calls, NEW c \in Conns, n = cur[k], c = sock[k]
  PROVE  /\ Contract!Send(n, c)
         /\ \A m \in Calls : via[m] = c => m < n
         /\ via[n] = None /\ answer[n] = Pending /\ c # None
         /\ CallInv'
<1>1. /\ cpc[k] = "send" /\ c # None /\ n # None
      /\ via' = [via EXCEPT ![n] = c] /\ cpc' = [cpc EXCEPT ![k] = "read"]
      /\ UNCHANGED <<calls, cur, sock, clean, answer, response, log>>
  BY AtWork DEF Send, ClientAt, ClientGoto, RefInv, OInv
<1>2. via[n] = None
  BY <1>1 DEF RefInv, OInv, TInv, ClientInv
<1>3. \A m \in Calls : via[m] = c => m < n
  BY <1>1 DEF RefInv, OInv, SentInv
<1>4. CallOf(k)
  BY DEF RefInv, CallInv
<1>5. answer[n] = Pending
  BY <1>1, <1>4 DEF CallOf
<1>6. \A m \in Calls : via[m] = c => answer[m] \notin {Pending, Failed("lost")}
  <2>1. \A m \in Calls : via[m] = c => m # n
    BY <1>1, <1>2
  <2> QED
    BY <1>1, <1>4, <2>1 DEF CallOf
<1>7. Contract!Send(n, c)
  BY <1>1, <1>2, <1>3, <1>5, <1>6 DEF Contract!Send, Contract!Before, Contract!Pending, Contract!Failed, Pending, Failed
<1>8. \A m \in Calls : via'[m] = IF m = n THEN c ELSE via[m]
  BY <1>1 DEF RefInv, OInv, TInv, TypeOK
<1>9. \A l \in Clients : cpc'[l] = IF l = k THEN "read" ELSE cpc[l]
  BY <1>1 DEF RefInv, OInv, TInv, TypeOK
<1>10. \A l \in Clients : l # k => sock[l] # c /\ cur[l] # n
  BY <1>1 DEF RefInv, OInv, TInv, ClientInv
<1>11. ASSUME NEW l \in Clients, sock[l] # None, ~clean[l]
       PROVE  \E m \in Calls : via'[m] = sock[l] /\ answer[m] = Failed("timed out")
  <2>1. CallOf(l)
    BY DEF RefInv, CallInv
  <2>2. PICK m \in Calls : via[m] = sock[l] /\ answer[m] = Failed("timed out")
    BY <1>11, <2>1 DEF CallOf
  <2>3. via'[m] = sock[l]
    BY <1>2, <1>8, <1>11, <2>2
  <2> QED
    BY <2>2, <2>3
<1>12. CallOf(k)'
  <2>1. ASSUME NEW m \in Calls, via'[m] = c
        PROVE  m <= n /\ (m # n => answer[m] \notin {Pending, Failed("lost")})
    BY <1>3, <1>6, <1>8, <2>1 DEF Calls
  <2>2. via'[n] = c
    BY <1>8
  <2> QED
    BY <1>1, <1>5, <1>11, <2>1, <2>2 DEF CallOf
<1>13. ASSUME NEW l \in Clients, l # k PROVE CallOf(l)'
  <2>1. CallOf(l)
    BY DEF RefInv, CallInv
  <2>2. cpc[l] = "read" => via'[cur[l]] = sock[l]
    <3>1. cpc[l] = "read" => cur[l] \in Calls
      BY AtWork DEF RefInv, OInv
    <3> QED
      BY <1>8, <1>10, <1>13, <2>1, <3>1 DEF CallOf
  <2>3. \A m \in Calls : via'[m] = sock[l] => via[m] = sock[l]
    BY <1>8, <1>10, <1>13
  <2> QED
    BY <1>1, <1>9, <1>11, <1>13, <2>1, <2>2, <2>3 DEF CallOf
<1>14. AnswerInv'
  BY <1>1 DEF RefInv, CallInv, AnswerInv
<1> QED
  BY <1>1, <1>2, <1>3, <1>5, <1>7, <1>12, <1>13, <1>14 DEF CallInv

\* A call returns: an outcome, or a failure.
LEMMA CallReturned ==
  ASSUME RefInv, NEW k \in Clients, NEW n \in Calls, n = cur[k], cpc[k] # "idle",
         NEW what \in Returned, Return(k, what), what # Pending, what[1] <= n,
         UNCHANGED <<calls, via>>,
         \A l \in Clients : l # k => sock'[l] = sock[l] /\ clean'[l] = clean[l],
         sock'[k] # None => /\ sock'[k] = sock[k] /\ what # Failed("lost")
                            /\ clean'[k] = clean[k] \/ (via[n] = sock[k] /\ what = Failed("timed out"))
  PROVE  CallInv'
<1>1. /\ \A l \in Clients : l # k => cur'[l] = cur[l] /\ cpc'[l] = cpc[l]
      /\ cur'[k] = None /\ cpc'[k] = "idle"
      /\ \A m \in Calls : answer'[m] = IF m = n THEN what ELSE answer[m]
  BY DEF Return, ClientGoto, RefInv, OInv, TInv, TypeOK
<1>2. n # None /\ \A l \in Clients : l # k => cur[l] # n
  BY Constants DEF RefInv, OInv, TInv, ClientInv
<1>3. AnswerInv /\ \A l \in Clients : CallOf(l)
  BY DEF RefInv, CallInv
<1>4. answer[n] = Pending
  BY <1>2, <1>3 DEF CallOf
<1>5. AnswerInv'
  <2>1. n <= calls
    BY <1>2 DEF RefInv, OInv, TInv, ClientInv
  <2>2. \A m \in Calls : m > calls => m # n
    BY <2>1, MadeCalls, Zenon DEF RefInv, OInv
  <2>3. calls' = calls
    OBVIOUS
  <2> QED
    BY <1>1, <1>3, <2>2, <2>3 DEF AnswerInv
<1>6. ASSUME NEW l \in Clients, sock'[l] # None, ~clean'[l]
      PROVE  \E m \in Calls : via[m] = sock'[l] /\ answer'[m] = Failed("timed out")
  <2>1. CASE clean'[l] = clean[l] /\ sock'[l] = sock[l]
    <3>1. PICK m \in Calls : via[m] = sock[l] /\ answer[m] = Failed("timed out")
      BY <1>3, <1>6, <2>1 DEF CallOf
    <3>2. Failed("timed out") # Pending
      BY DEF Pending, Failed
    <3> QED
      BY <1>1, <1>4, <2>1, <3>1, <3>2
  <2>2. CASE l = k /\ via[n] = sock[k] /\ what = Failed("timed out")
    BY <1>1, <1>6, <2>2
  <2> QED
    BY <1>6, <2>1, <2>2
<1>7. CallOf(k)'
  <2>1. ASSUME NEW m \in Calls, sock'[k] # None, via[m] = sock'[k]
        PROVE  answer'[m] \notin {Pending, Failed("lost")}
    <3>1. m # n => answer[m] \notin {Pending, Failed("lost")}
      BY <1>3, <2>1 DEF CallOf
    <3> QED
      BY <1>1, <2>1, <3>1
  <2> QED
    BY <1>1, <1>6, <2>1 DEF CallOf
<1>8. via[n] = None \/ via[n] = sock[k]
  <2>1. cpc[k] = "read" => via[n] = sock[k]
    BY <1>3 DEF CallOf
  <2>2. cpc[k] # "read" => via[n] = None
    BY DEF RefInv, OInv, TInv, TypeOK, ClientInv
  <2> QED
    BY <2>1, <2>2
<1>9. ASSUME NEW l \in Clients, l # k PROVE CallOf(l)'
  <2>1. CallOf(l) /\ sock'[l] = sock[l] /\ cur'[l] = cur[l] /\ cpc'[l] = cpc[l]
    BY <1>1, <1>3, <1>9
  <2>2. sock[l] # None => via[n] # sock[l]
    BY <1>8, <1>9 DEF RefInv, OInv, TInv, ClientInv
  <2>3. \A m \in Calls : sock[l] # None /\ via[m] = sock[l] => answer'[m] = answer[m]
    BY <1>1, <2>2
  <2>4. cur[l] # None => answer'[cur[l]] = answer[cur[l]]
    <3>1. cur[l] # None => cur[l] \in Calls
      BY DEF RefInv, OInv, TInv, TypeOK
    <3> QED
      BY <1>1, <1>2, <1>9, <3>1
  <2> QED
    BY <1>6, <2>1, <2>3, <2>4 DEF CallOf
<1> QED
  BY <1>5, <1>7, <1>9 DEF CallInv

\* Over this connection nothing was sent, answered or returned.
LEMMA OutFrame ==
  ASSUME RefInv, NEW c \in Conns, outbox'[c] = outbox[c], Stream(c)' = Stream(c), via' = via, response' = response,
         \A l \in Calls : via[l] = c => answer'[l] = answer[l] \/ answer'[l][1] = 0
  PROVE  OutOf(c)'
<1>1. OutOf(c)
  BY DEF RefInv, OutInv
<1>2. \A l \in Calls : via[l] = c => answer'[l][1] = answer[l][1] \/ answer'[l][1] = 0
  OBVIOUS
<1>3. \A l \in Calls : 0 < l
  BY Constants DEF Calls
<1>4. \A r \in Response : r[1] \in Calls
  BY DEF Response
<1> QED
  BY <1>1, <1>2, <1>3, <1>4 DEF OutOf

\* A call sent is later than all that was sent over its connection before.
LEMMA OutSent ==
  ASSUME RefInv, NEW k \in Clients, Send(k), NEW n \in Calls, NEW c \in Conns, n = cur[k], c = sock[k]
  PROVE  OutInv'
<1>1. /\ \A m \in Calls : via[m] = c => m < n
      /\ via[n] = None /\ answer[n] = Pending /\ c # None
  BY CallSent
<1>2. /\ via' = [via EXCEPT ![n] = c]
      /\ inbox' = [inbox EXCEPT ![c] = IF ServerOpen(c) THEN Append(inbox[c], n) ELSE inbox[c]]
      /\ UNCHANGED <<outbox, lines, answer, response>>
  BY DEF Send, threadVars
<1>3. \A m \in Calls : via'[m] = IF m = n THEN c ELSE via[m]
  BY <1>2 DEF RefInv, OInv, TInv, TypeOK
<1>4. ASSUME NEW d \in Conns, d # c PROVE OutOf(d)'
  <2>1. OutOf(d)
    BY DEF RefInv, OutInv
  <2>2. inbox'[d] = inbox[d]
    BY <1>2, <1>4 DEF RefInv, OInv, TInv, TypeOK
  <2>3. Stream(d)' = Stream(d)
    BY <1>2, <2>2 DEF Stream
  <2>4. \A m \in Calls : (via'[m] = d => via[m] = d) /\ (via[m] = d => via'[m] = d)
    BY <1>1, <1>3, <1>4, Constants
  <2>5. \A r \in Response : r[1] \in Calls
    BY DEF Response
  <2> QED
    BY <1>2, <2>1, <2>3, <2>4, <2>5 DEF OutOf
<1>5. OutOf(c)'
  <2>1. OutOf(c)
    BY DEF RefInv, OutInv
  <2>2. \A m : InSeq(m, Stream(c)') => InSeq(m, Stream(c)) \/ m = n
    <3>1. CASE inbox'[c] = Append(inbox[c], n)
      <4>1. lines'[c] = lines[c] /\ hpc'[c] = hpc[c]
        BY DEF Send, threadVars
      <4>2. Stream(c)' = Append(Stream(c), n) /\ Stream(c) \in Seq(Calls)
        BY <3>1, <4>1, SendStream, StreamTypes DEF RefInv, OInv
      <4> QED
        BY <4>2, AppendElements
    <3>2. CASE inbox'[c] = inbox[c]
      BY <1>2, <3>2 DEF Stream
    <3> QED
      BY <1>2, <3>1, <3>2 DEF RefInv, OInv, TInv, TypeOK
  <2>3. \A r \in Response : r[1] \in Calls /\ r[1] \in Nat \ {0}
    BY Constants DEF Response, Calls
  <2>4. \A l \in Calls : via'[l] = c => answer[l][1] < n /\ (l # n => via[l] = c)
    <3>1. \A l \in Calls : answer[l][1] <= l /\ answer[l][1] \in Nat /\ l \in Nat \ {0}
      BY ReturnedNumber DEF RefInv, CallInv, AnswerInv, OInv
    <3>2. answer[n][1] = 0
      BY <1>1 DEF Pending, Failed
    <3> QED
      BY <1>1, <1>3, <3>1, <3>2
  <2>5. ASSUME NEW r \in Response, InSeq(r, outbox[c]) PROVE r[1] < n /\ via'[r[1]] = c
    BY <1>1, <1>3, <2>1, <2>3, <2>5 DEF OutOf
  <2>6. ASSUME NEW r \in Response, InSeq(r, outbox[c]), NEW l \in Calls, via'[l] = c PROVE answer[l][1] < r[1]
    <3>1. l = n => answer[l][1] = 0
      BY <1>1 DEF Pending, Failed
    <3>2. l # n => answer[l][1] < r[1]
      BY <2>1, <2>4, <2>6 DEF OutOf
    <3> QED
      BY <2>3, <3>1, <3>2
  <2>7. ASSUME NEW m \in Calls, NEW l \in Calls, InSeq(m, Stream(c)), via'[l] = c PROVE answer[l][1] < m
    <3>1. l = n => answer[l][1] = 0
      BY <1>1 DEF Pending, Failed
    <3>2. l # n => answer[l][1] < m
      BY <2>1, <2>4, <2>7 DEF OutOf
    <3>3. m \in Nat \ {0}
      BY Constants DEF Calls
    <3> QED
      BY <3>1, <3>2, <3>3
  <2> QED
    BY <1>2, <2>1, <2>2, <2>4, <2>5, <2>6, <2>7 DEF OutOf
<1> QED
  BY <1>4, <1>5 DEF OutInv

\* A response read is before all that follow it on its connection.
LEMMA OutRead ==
  ASSUME RefInv, NEW k \in Clients, Read(k), NEW n \in Calls, NEW c \in Conns, n = cur[k], c = sock[k],
         NEW r, r = Head(outbox[c])
  PROVE  /\ Contract!Answer(n, r[1], r[2])
         /\ r \in Response /\ r[1] <= n
         /\ OutInv'
<1>1. /\ cpc[k] = "read" /\ c # None /\ n # None /\ outbox[c] # <<>>
      /\ outbox' = [outbox EXCEPT ![c] = Tail(outbox[c])]
      /\ answer' = [answer EXCEPT ![n] = r]
      /\ UNCHANGED <<via, inbox, lines, response, log>>
  BY AtWork DEF Read, Return, ClientAt, threadVars, RefInv, OInv
<1>2. outbox[c] \in Seq(Response)
  BY DEF RefInv, OInv, TInv, TypeOK
<1>3. /\ r \in Response /\ Tail(outbox[c]) \in Seq(Response)
      /\ Len(outbox[c]) \in Nat \ {0} /\ Len(Tail(outbox[c])) = Len(outbox[c]) - 1
      /\ r = outbox[c][1] /\ \A i \in 1 .. Len(outbox[c]) - 1 : Tail(outbox[c])[i] = outbox[c][i + 1]
      /\ \A x : InSeq(x, outbox[c]) <=> x = r \/ InSeq(x, Tail(outbox[c]))
  BY <1>1, <1>2, TailElements
<1>4. OutOf(c) /\ CallOf(k) /\ PairOf(k)
  BY DEF RefInv, OutInv, CallInv, PairInv
<1>5. r[1] \in Calls /\ r[2] \in Outcomes \union {"timeout"} /\ r = <<r[1], r[2]>>
  BY <1>3 DEF Response
<1>6. via[n] = c /\ via[r[1]] = c /\ (r[2] # "timeout" => response[r[1]] = r[2])
  BY <1>1, <1>3, <1>4 DEF CallOf, OutOf
<1>7. \A l \in Calls : via[l] = c => answer[l][1] < r[1]
  BY <1>3, <1>4 DEF OutOf
<1>8. r[1] <= n
  BY <1>1, <1>4, <1>5, <1>6 DEF CallOf
<1>9. ASSUME r[1] # n PROVE r[1] < n /\ \E l \in Calls : l # n /\ via[l] = c /\ answer[l] = Failed("timed out")
  <2>1. r[1] < n
    BY <1>5, <1>8, <1>9 DEF Calls
  <2>2. ~clean[k]
    <3>1. SUFFICES ASSUME clean[k] PROVE FALSE
      OBVIOUS
    <3>2. PICK what \in Outcomes \union {"timeout"} : outbox[c] = << <<n, what>> >>
      BY <1>1, <1>4, <3>1 DEF PairOf, Quiet, Asked, Answered
    <3> QED
      BY <1>9, <3>2, Single
  <2>3. PICK l \in Calls : via[l] = c /\ answer[l] = Failed("timed out")
    BY <1>1, <1>4, <2>2 DEF CallOf
  <2>4. l # n
    <3>1. answer[n] = Pending
      BY <1>1, <1>4 DEF CallOf
    <3>2. Failed("timed out") # Pending
      BY DEF Pending, Failed
    <3> QED
      BY <2>3, <3>1, <3>2
  <2> QED
    BY <2>1, <2>3, <2>4
<1>10. Contract!Answer(n, r[1], r[2])
  <2>1. answer[n] = Contract!Pending
    BY <1>1, <1>4 DEF CallOf, Pending, Failed, Contract!Pending, Contract!Failed
  <2>2. \A l \in Contract!Before(n, via[n]) : answer[l][1] < r[1]
    BY <1>6, <1>7 DEF Contract!Before
  <2>3. r[1] # n => r[1] < n /\ \E l \in Contract!Before(n, via[n]) : answer[l] = Contract!Failed("timed out")
    BY <1>6, <1>9 DEF Contract!Before, Failed, Contract!Failed
  <2>4. answer' = [answer EXCEPT ![n] = <<r[1], r[2]>>]
    BY <1>1, <1>5
  <2> QED
    BY <1>1, <1>6, <2>1, <2>2, <2>3, <2>4 DEF Contract!Answer
<1>11. \A l \in Calls : answer'[l] = IF l = n THEN r ELSE answer[l]
  BY <1>1 DEF RefInv, OInv, TInv, TypeOK
<1>12. ASSUME NEW d \in Conns, d # c PROVE OutOf(d)'
  <2>1. outbox'[d] = outbox[d]
    BY <1>1, <1>12 DEF RefInv, OInv, TInv, TypeOK
  <2>2. Stream(d)' = Stream(d)
    BY <1>1 DEF Stream
  <2>3. \A l \in Calls : via[l] = d => answer'[l] = answer[l]
    BY <1>6, <1>11, <1>12
  <2> QED
    BY <1>1, <2>1, <2>2, <2>3, OutFrame
<1>13. OutOf(c)'
  <2>1. outbox'[c] = Tail(outbox[c]) /\ Stream(c)' = Stream(c)
    BY <1>1 DEF Stream, RefInv, OInv, TInv, TypeOK
  <2>2. ASSUME NEW i \in 1 .. Len(outbox'[c]), NEW j \in 1 .. Len(outbox'[c]), i < j
        PROVE  outbox'[c][i][1] < outbox'[c][j][1]
    <3>1. i + 1 \in 1 .. Len(outbox[c]) /\ j + 1 \in 1 .. Len(outbox[c]) /\ i + 1 < j + 1
      BY <1>3, <2>1, <2>2
    <3>2. outbox'[c][i] = outbox[c][i + 1] /\ outbox'[c][j] = outbox[c][j + 1]
      BY <1>3, <2>1
    <3> QED
      BY <1>4, <3>1, <3>2 DEF OutOf
  <2>3. ASSUME NEW q \in Response, InSeq(q, outbox'[c]) PROVE r[1] < q[1]
    <3>1. PICK i \in 1 .. Len(outbox'[c]) : outbox'[c][i] = q
      BY <2>3 DEF InSeq
    <3>2. i + 1 \in 1 .. Len(outbox[c]) /\ 1 \in 1 .. Len(outbox[c]) /\ 1 < i + 1 /\ q = outbox[c][i + 1]
      BY <1>3, <2>1, <3>1
    <3> QED
      BY <1>3, <1>4, <3>2 DEF OutOf
  <2>4. \A q : InSeq(q, outbox'[c]) => InSeq(q, outbox[c])
    BY <1>3, <2>1
  <2>5. \A m \in Calls : InSeq(m, Stream(c)) => r[1] < m
    BY <1>3, <1>4 DEF OutOf
  <2>6. ASSUME NEW q \in Response, InSeq(q, outbox'[c]), NEW l \in Calls, via[l] = c PROVE answer'[l][1] < q[1]
    BY <1>4, <1>11, <2>3, <2>4, <2>6 DEF OutOf
  <2>7. ASSUME NEW m \in Calls, NEW l \in Calls, InSeq(m, Stream(c)), via[l] = c PROVE answer'[l][1] < m
    BY <1>4, <1>11, <2>5, <2>7 DEF OutOf
  <2> QED
    BY <1>1, <1>4, <2>1, <2>2, <2>4, <2>6, <2>7 DEF OutOf
<1> QED
  BY <1>3, <1>8, <1>10, <1>12, <1>13 DEF OutInv

\* A thread answers the first call of its stream, as its handler did or with a timeout.
LEMMA OutAnswered ==
  ASSUME RefInv, NEW c \in Conns, ReplyDone(c) \/ ReplyTimeout(c)
  PROVE  OutInv'
<1> DEFINE n == Head(lines[c])
<1>1. hpc[c] \in {"wait", "reply"}
  BY DEF ReplyDone, ReplyTimeout, ThreadAt
<1>2. /\ lines[c] \in Seq(Calls) /\ inbox[c] \in Seq(Calls) /\ lines[c] # <<>> /\ n \in Calls
      /\ outbox[c] \in Seq(Response)
      /\ Stream(c) \in Seq(Calls) /\ Stream(c) # <<>> /\ Head(Stream(c)) = n
  BY <1>1, ThreadAtWork, StreamTypes DEF RefInv, OInv
<1>3. PICK what \in Outcomes \union {"timeout"} : Answer(c, what) /\ (what # "timeout" => response[n] = what)
  <2>1. response[n] \in Outcomes \union {"none"}
    BY <1>2 DEF RefInv, OInv, TInv, TypeOK
  <2>2. CASE ReplyDone(c)
    BY <2>1, <2>2 DEF ReplyDone
  <2>3. CASE ReplyTimeout(c)
    BY <2>3 DEF ReplyTimeout
  <2> QED
    BY <2>2, <2>3
<1>4. /\ outbox' = [outbox EXCEPT ![c] = Append(outbox[c], <<n, what>>)]
      /\ lines' = [lines EXCEPT ![c] = Tail(lines[c])]
      /\ UNCHANGED <<via, answer, inbox, response>>
  BY <1>3 DEF Answer, clientVars
<1>5. ASSUME NEW d \in Conns, d # c PROVE OutOf(d)'
  <2>1. outbox'[d] = outbox[d] /\ lines'[d] = lines[d]
    BY <1>4, <1>5 DEF RefInv, OInv, TInv, TypeOK
  <2>2. Stream(d)' = Stream(d)
    BY <1>4, <2>1 DEF Stream
  <2> QED
    BY <1>4, <2>1, <2>2, OutFrame
<1>6. OutOf(c)'
  <2> DEFINE r == <<n, what>>
  <2>1. OutOf(c)
    BY DEF RefInv, OutInv
  <2>2. r \in Response /\ r[1] = n /\ r[2] = what
    BY <1>2 DEF Response
  <2> HIDE DEF r
  <2>3. /\ outbox'[c] = Append(outbox[c], r) /\ Len(outbox[c]) \in Nat /\ Len(outbox'[c]) = Len(outbox[c]) + 1
        /\ \A i \in 1 .. Len(outbox[c]) : outbox'[c][i] = outbox[c][i]
        /\ outbox'[c][Len(outbox[c]) + 1] = r
        /\ \A q : InSeq(q, outbox'[c]) <=> InSeq(q, outbox[c]) \/ q = r
    <3>1. outbox'[c] = Append(outbox[c], r)
      BY <1>4 DEF r, RefInv, OInv, TInv, TypeOK
    <3> QED
      BY <1>2, <2>2, <3>1, AppendProperties, AppendElements, LenProperties
  <2>4. Stream(c)' = Tail(Stream(c))
    <3>1. lines'[c] = Tail(lines[c]) /\ inbox'[c] = inbox[c]
      BY <1>4 DEF RefInv, OInv, TInv, TypeOK
    <3>2. Tail(lines[c] \o inbox[c]) = Tail(lines[c]) \o inbox[c]
      BY <1>2, StreamTail
    <3> QED
      BY <3>1, <3>2 DEF Stream
  <2>5. /\ InSeq(n, Stream(c)) /\ \A m : InSeq(m, Stream(c)') => InSeq(m, Stream(c))
        /\ \A m : InSeq(m, Stream(c)') => n < m
    <3>1. Increasing(Stream(c))
      BY DEF RefInv, OInv, SentInv
    <3> QED
      BY <1>2, <2>4, <3>1, TailElements, IncreasingTail
  <2>6. via[n] = c
    BY <1>2, <2>5 DEF RefInv, OInv, SentInv
  <2>7. ASSUME NEW i \in 1 .. Len(outbox'[c]), NEW j \in 1 .. Len(outbox'[c]), i < j
        PROVE  outbox'[c][i][1] < outbox'[c][j][1]
    <3>1. i \in 1 .. Len(outbox[c]) /\ outbox'[c][i] = outbox[c][i]
      BY <2>3, <2>7
    <3>2. CASE j \in 1 .. Len(outbox[c])
      BY <2>1, <2>3, <2>7, <3>1, <3>2 DEF OutOf
    <3>3. CASE j = Len(outbox[c]) + 1
      <4>1. outbox'[c][j] = r
        BY <2>3, <3>3
      <4>2. outbox[c][i] \in Response /\ InSeq(outbox[c][i], outbox[c])
        BY <1>2, <3>1, ElementOfSeq DEF InSeq
      <4> QED
        BY <1>2, <2>1, <2>2, <2>5, <3>1, <4>1, <4>2 DEF OutOf
    <3> QED
      BY <2>3, <3>2, <3>3
  <2>8. ASSUME NEW q \in Response, InSeq(q, outbox'[c])
        PROVE  /\ via[q[1]] = c
               /\ q[2] # "timeout" => response[q[1]] = q[2]
               /\ \A m \in Calls : InSeq(m, Stream(c)') => q[1] < m
               /\ \A l \in Calls : via[l] = c => answer[l][1] < q[1]
    <3>1. CASE q = r
      BY <1>2, <1>3, <2>1, <2>2, <2>5, <2>6, <3>1 DEF OutOf
    <3>2. CASE InSeq(q, outbox[c])
      BY <2>1, <2>5, <3>2 DEF OutOf
    <3> QED
      BY <2>3, <2>8, <3>1, <3>2
  <2>9. \A m, l \in Calls : InSeq(m, Stream(c)') /\ via[l] = c => answer[l][1] < m
    BY <2>1, <2>5 DEF OutOf
  <2> QED
    BY <1>4, <2>7, <2>8, <2>9 DEF OutOf
<1> QED
  BY <1>5, <1>6 DEF OutInv

\* A handler runs for the first time, and after those of its connection that have run.
LEMMA OutRun ==
  ASSUME RefInv, NEW n \in Calls, NEW o \in Outcomes, NEW t \in {"main", "connection"},
         ~Ran(n), via[n] # None, \A m \in Calls : Ran(m) /\ via[m] = via[n] => m < n,
         response' = [response EXCEPT ![n] = o], log' = Append(log, <<n, t>>),
         UNCHANGED <<via, answer, outbox, lines, inbox>>
  PROVE  /\ Contract!Run(n, o, t)
         /\ OutInv' /\ RanInv'
<1>1. \A m \in Calls : response[m] # "none" <=> Ran(m)
  BY DEF RefInv, RanInv
<1>2. Contract!Run(n, o, t)
  <2>1. \A m \in Contract!Before(n, via[n]) : response[m] # "none" => m < n
    BY <1>1 DEF Contract!Before
  <2> QED
    BY <1>1, <2>1 DEF Contract!Run
<1>3. \A m \in Calls : response'[m] = IF m = n THEN o ELSE response[m]
  BY DEF RefInv, OInv, TInv, TypeOK
<1>4. \A m : Ran(m)' <=> Ran(m) \/ m = n
  BY LogAppend DEF RefInv, OInv, OrderInv
<1>5. RanInv'
  BY <1>1, <1>3, <1>4 DEF RanInv, Outcomes
<1>6. ASSUME NEW c \in Conns PROVE OutOf(c)'
  <2>1. OutOf(c)
    BY DEF RefInv, OutInv
  <2>2. \A r \in Response : r[1] \in Calls /\ r[2] \in Outcomes \union {"timeout"}
    BY DEF Response
  <2>3. ASSUME NEW r \in Response, InSeq(r, outbox[c]), r[2] # "timeout" PROVE response'[r[1]] = r[2]
    <3>1. response[r[1]] = r[2] /\ r[2] # "none" /\ r[1] \in Calls
      BY <2>1, <2>2, <2>3 DEF OutOf, Outcomes
    <3>2. r[1] # n
      BY <1>1, <3>1
    <3> QED
      BY <1>3, <3>1, <3>2
  <2>4. Stream(c)' = Stream(c)
    BY DEF Stream
  <2> QED
    BY <2>1, <2>3, <2>4 DEF OutOf
<1> QED
  BY <1>2, <1>5, <1>6 DEF OutInv

LEMMA ContractInit == Init => Contract!Init
BY DEF Init, Contract!Init, Contract!Pending, Contract!Failed, Pending, Failed

\* Every step of a client.
LEMMA ClientRef ==
  ASSUME RefInv, NEW k \in Clients, Call(k) \/ ClientStep(k) \/ ConnectFails(k) \/ ClientRestart(k)
  PROVE  /\ CallInv' /\ OutInv' /\ RanInv'
         /\ Contract!Next \/ UNCHANGED <<via, response, answer, log>>
<1>1. RanInv'
  <2>1. UNCHANGED <<response, log>>
    BY DEF Call, ClientStep, Connect, Send, ConnectionLost, Read, ReadTimeout, ConnectFails, ClientRestart
  <2> QED
    BY <2>1 DEF RefInv, RanInv, Ran
<1>2. UNCHANGED lines /\ (~Send(k) => UNCHANGED <<via, inbox>>)
  BY DEF Call, ClientStep, Connect, Send, ConnectionLost, Read, ReadTimeout, ConnectFails, ClientRestart, connVars, threadVars
<1>3. CASE Call(k) \/ Connect(k) \/ ClientRestart(k)
  <2>1. CallInv' /\ UNCHANGED <<via, answer, outbox, response, log>>
    BY <1>3, CallKept
  <2>2. inbox' = inbox
    BY <1>3 DEF Call, Connect, ClientRestart, connVars
  <2>3. \A c \in Conns : OutOf(c)'
    BY <1>2, <2>1, <2>2, OutFrame DEF Stream
  <2> QED
    BY <1>1, <2>1, <2>3 DEF OutInv
<1>4. CASE Send(k)
  <2>1. cur[k] \in Calls /\ sock[k] \in Conns
    BY <1>4, AtWork DEF Send, ClientAt, RefInv, OInv
  <2>2. PICK n \in Calls, c \in Conns : n = cur[k] /\ c = sock[k]
    BY <2>1
  <2>3. Contract!Send(n, c) /\ CallInv' /\ OutInv'
    BY <1>4, <2>2, CallSent, OutSent
  <2> QED
    BY <1>1, <2>3 DEF Contract!Next
<1>5. CASE Read(k)
  <2>1. cpc[k] = "read" /\ cur[k] \in Calls /\ sock[k] \in Conns
    BY <1>5, AtWork DEF Read, ClientAt, RefInv, OInv
  <2>2. PICK n \in Calls, c \in Conns : n = cur[k] /\ c = sock[k]
    BY <2>1
  <2>3. PICK r : r = Head(outbox[c])
    OBVIOUS
  <2>4. Contract!Answer(n, r[1], r[2]) /\ r \in Response /\ r[1] <= n /\ OutInv'
    BY <1>5, <2>2, <2>3, OutRead
  <2>5. r[1] \in Calls /\ r[2] \in {"result", "error", "timeout"} /\ r # Pending /\ r # Failed("lost")
    BY <2>4, Constants DEF Response, Outcomes, Pending, Failed, Calls
  <2>6. Return(k, r) /\ UNCHANGED <<calls, via, sock, clean>>
    BY <1>5, <2>2, <2>3 DEF Read
  <2>7. CallInv'
    <3>1. r \in Returned
      BY <2>4 DEF Returned
    <3> QED
      BY <2>1, <2>2, <2>4, <2>5, <2>6, <3>1, CallReturned
  <2> QED
    BY <1>1, <2>4, <2>5, <2>7 DEF Contract!Next
<1>6. CASE ConnectFails(k) \/ ConnectionLost(k) \/ ReadTimeout(k)
  <2>1. cpc[k] # "idle" /\ cur[k] \in Calls
    BY <1>6, AtWork DEF ConnectFails, ConnectionLost, ReadTimeout, ClientAt, RefInv, OInv
  <2>2. PICK n \in Calls : n = cur[k]
    BY <2>1
  <2>3. 0 <= n
    BY Constants DEF Calls
  <2>4. PICK why \in {"unreachable", "lost", "timed out"} :
          /\ Return(k, Failed(why))
          /\ why = "unreachable" => cpc[k] = "connect" /\ UNCHANGED <<sock, clean>>
          /\ why = "timed out" => cpc[k] = "read" /\ sock' = sock /\ clean' = [clean EXCEPT ![k] = FALSE]
          /\ why = "lost" => sock' = [sock EXCEPT ![k] = None] /\ clean' = clean
    BY <1>6 DEF ConnectFails, ConnectionLost, ReadTimeout, ClientAt
  <2>5. UNCHANGED <<calls, via, outbox, inbox, lines, response, log>>
    BY <1>6 DEF ConnectFails, ConnectionLost, ReadTimeout, connVars, threadVars
  <2>6. CallOf(k) /\ n # None
    BY <2>1, <2>2, AtWork DEF RefInv, CallInv, OInv
  <2>7. answer[n] = Pending
    BY <2>2, <2>6 DEF CallOf
  <2>8. why = "unreachable" => via[n] = None
    BY <2>2, <2>4 DEF RefInv, OInv, TInv, ClientInv
  <2>9. why = "timed out" => via[n] = sock[k] /\ via[n] # None
    BY <2>2, <2>4, <2>6 DEF CallOf, RefInv, OInv, TInv, ClientInv
  <2>10. Contract!Fail(n, why)
    <3>1. answer' = [answer EXCEPT ![n] = Contract!Failed(why)]
      BY <2>2, <2>4 DEF Return, Failed, Contract!Failed
    <3>2. answer[n] = Contract!Pending
      BY <2>7 DEF Pending, Failed, Contract!Pending, Contract!Failed
    <3> QED
      BY <2>5, <2>8, <2>9, <3>1, <3>2 DEF Contract!Fail
  <2>11. Failed(why) \in Returned /\ Failed(why) # Pending /\ Failed(why)[1] = 0
    BY DEF Returned, Pending, Failed
  <2>12. CallInv'
    <3>1. Failed(why)[1] <= n
      BY <2>3, <2>11, Zenon
    <3>2. \A l \in Clients : l # k => sock'[l] = sock[l] /\ clean'[l] = clean[l]
      BY <2>4 DEF RefInv, OInv, TInv, TypeOK
    <3>3. sock'[k] # None => /\ sock'[k] = sock[k] /\ Failed(why) # Failed("lost")
                             /\ clean'[k] = clean[k] \/ (via[n] = sock[k] /\ Failed(why) = Failed("timed out"))
      <4>1. why = "lost" => sock'[k] = None
        BY <2>4 DEF RefInv, OInv, TInv, TypeOK
      <4> QED
        BY <2>4, <2>9, <4>1 DEF Failed
    <3> QED
      BY <2>1, <2>2, <2>4, <2>5, <2>11, <3>1, <3>2, <3>3, CallReturned
  <2>13. OutInv'
    <3>1. \A l \in Calls : answer'[l] = answer[l] \/ answer'[l][1] = 0
      BY <2>2, <2>4, <2>11 DEF Return, RefInv, OInv, TInv, TypeOK
    <3>2. \A c \in Conns : OutOf(c)'
      BY <2>5, <3>1, OutFrame DEF Stream
    <3> QED
      BY <3>2 DEF OutInv
  <2> QED
    BY <1>1, <2>10, <2>12, <2>13 DEF Contract!Next
<1> QED
  BY <1>3, <1>4, <1>5, <1>6 DEF ClientStep

\* Every step of a thread or of the main thread.
LEMMA AddonRef ==
  ASSUME RefInv, (\E c \in Conns : ThreadStep(c)) \/ MainStep \/ StartServer \/ StopServer
  PROVE  /\ CallInv' /\ OutInv' /\ RanInv'
         /\ Contract!Next \/ UNCHANGED <<via, response, answer, log>>
<1>1. UNCHANGED <<calls, cpc, cur, sock, clean, answer, via>>
  BY DEF ThreadStep, ThreadStart, Receive, ReceiveEof, Enqueue, RunDirect, ReplyDone, ReplyTimeout, Answer,
     MainStep, StartTimer, TakeJob, FinishJob, StartServer, StopServer, clientVars, connVars
<1>2. CallInv'
  BY <1>1 DEF RefInv, CallInv, AnswerInv, CallOf
<1>3. ASSUME UNCHANGED <<outbox, response, log>>, \A c \in Conns : Stream(c)' = Stream(c)
      PROVE  OutInv' /\ RanInv'
  <2>1. \A c \in Conns : OutOf(c)'
    BY <1>1, <1>3, OutFrame
  <2> QED
    BY <1>3, <2>1 DEF OutInv, RefInv, RanInv, Ran
<1>4. ASSUME NEW c \in Conns, ThreadStart(c) \/ Receive(c) \/ ReceiveEof(c) \/ Enqueue(c)
      PROVE  OutInv' /\ RanInv' /\ UNCHANGED <<response, log>>
  <2>1. UNCHANGED <<outbox, response, log>>
    BY <1>4 DEF ThreadStart, Receive, ReceiveEof, Enqueue, connVars
  <2>2. \A d \in Conns : Stream(d)' = Stream(d)
    <3>1. CASE Receive(c)
      <4>1. PICK n \in 1 .. Len(inbox[c]) :
              /\ lines' = [lines EXCEPT ![c] = SubSeq(inbox[c], 1, n)]
              /\ inbox' = [inbox EXCEPT ![c] = SubSeq(inbox[c], n + 1, Len(inbox[c]))]
        BY <3>1 DEF Receive
      <4>2. lines[c] = <<>> /\ inbox[c] \in Seq(Calls)
        BY <3>1, ThreadAtWork DEF Receive, ThreadAt, RefInv, OInv, TInv, ThreadInv
      <4>3. lines'[c] \o inbox'[c] = lines[c] \o inbox[c]
        BY <4>1, <4>2, StreamReceive DEF RefInv, OInv, TInv, TypeOK
      <4>4. \A d \in Conns : d # c => lines'[d] = lines[d] /\ inbox'[d] = inbox[d]
        BY <4>1 DEF RefInv, OInv, TInv, TypeOK
      <4> QED
        BY <4>3, <4>4 DEF Stream
    <3>2. CASE ThreadStart(c) \/ ReceiveEof(c) \/ Enqueue(c)
      BY <3>2 DEF ThreadStart, ReceiveEof, Enqueue, connVars, Stream
    <3> QED
      BY <1>4, <3>1, <3>2
  <2> QED
    BY <1>3, <2>1, <2>2
<1>5. ASSUME NEW c \in Conns, ReplyDone(c) \/ ReplyTimeout(c)
      PROVE  OutInv' /\ RanInv' /\ UNCHANGED <<response, log>>
  <2>1. UNCHANGED <<response, log>>
    BY <1>5 DEF ReplyDone, ReplyTimeout, Answer
  <2> QED
    BY <1>5, <2>1, OutAnswered DEF RefInv, RanInv, Ran
<1>6. ASSUME NEW c \in Conns, RunDirect(c)
      PROVE  OutInv' /\ RanInv' /\ Contract!Next
  <2>1. PICK n : n = Head(lines[c])
    OBVIOUS
  <2>2. PICK o \in Outcomes : response' = [response EXCEPT ![n] = o]
    BY <1>6, <2>1 DEF RunDirect
  <2>3. /\ hpc[c] = "dispatch" /\ hpc' = [hpc EXCEPT ![c] = "reply"]
        /\ log' = Append(log, <<n, "connection">>) /\ UNCHANGED <<lines, inbox, outbox>>
    BY <1>6, <2>1 DEF RunDirect, ThreadAt, ThreadGoto, connVars
  <2>4. n \in Calls /\ via[n] = c /\ c # None /\ \A m \in Calls : Started(m) /\ via[m] = c => m < n
    BY <2>1, <2>3, TakesUp DEF RefInv
  <2>5. ~Ran(n) /\ \A m \in Calls : Ran(m) /\ via[m] = via[n] => m < n
    BY <2>4, Constants DEF Started, Begun, Calls
  <2>6. Contract!Run(n, o, "connection") /\ OutInv' /\ RanInv'
    BY <1>1, <2>2, <2>3, <2>4, <2>5, OutRun
  <2> QED
    BY <2>4, <2>6 DEF Contract!Next, Outcomes
<1>7. ASSUME FinishJob
      PROVE  OutInv' /\ RanInv' /\ Contract!Next
  <2>1. job \in Calls /\ job # None
    BY <1>7 DEF FinishJob, RefInv, OInv, TInv, MainInv, TypeOK
  <2>2. PICK n \in Calls : n = job
    BY <2>1
  <2>3. PICK o \in Outcomes : response' = [response EXCEPT ![n] = o]
    BY <1>7, <2>2 DEF FinishJob
  <2>4. log' = Append(log, <<n, "main">>) /\ UNCHANGED <<lines, inbox, outbox>>
    BY <1>7, <2>2 DEF FinishJob, connVars, threadVars
  <2>5. via[n] # None
    BY <2>2 DEF RefInv, OInv, SentInv, Started, Begun
  <2>6. ~Ran(n) /\ \A m \in Calls : Ran(m) /\ via[m] = via[n] => m < n
    BY <2>1, <2>2 DEF RefInv, OInv, OrderInv, Calls
  <2>7. Contract!Run(n, o, "main") /\ OutInv' /\ RanInv'
    BY <1>1, <2>3, <2>4, <2>5, <2>6, OutRun
  <2> QED
    BY <2>7 DEF Contract!Next, Outcomes
<1>8. ASSUME StartTimer \/ TakeJob \/ StartServer \/ StopServer
      PROVE  OutInv' /\ RanInv' /\ UNCHANGED <<response, log>>
  <2>1. UNCHANGED <<outbox, inbox, lines, response, log>>
    BY <1>8 DEF StartTimer, TakeJob, StartServer, StopServer, connVars, threadVars
  <2> QED
    BY <1>3, <2>1 DEF Stream
<1> QED
  BY <1>1, <1>2, <1>4, <1>5, <1>6, <1>7, <1>8 DEF ThreadStep, MainStep

LEMMA RefStep ==
  RefInv /\ [Next]_vars => RefInv' /\ (Contract!Next \/ UNCHANGED Contract!vars)
<1> SUFFICES ASSUME RefInv, [Next]_vars PROVE RefInv' /\ (Contract!Next \/ UNCHANGED Contract!vars)
  OBVIOUS
<1>1. OInv' /\ PairInv'
  BY OrderStep, PairStep DEF RefInv, OInv, PInv
<1>2. CASE UNCHANGED vars
  <2>1. UNCHANGED <<calls, cpc, cur, sock, clean, answer, via, outbox, inbox, lines, response, log>>
    BY <1>2 DEF vars, clientVars, connVars, threadVars
  <2>2. CallInv'
    BY <2>1 DEF RefInv, CallInv, AnswerInv, CallOf
  <2>3. OutInv'
    BY <2>1, OutFrame DEF OutInv, Stream
  <2>4. RanInv'
    BY <2>1 DEF RefInv, RanInv, Ran
  <2> QED
    BY <1>1, <2>1, <2>2, <2>3, <2>4 DEF RefInv, Contract!vars
<1>3. CASE Next
  <2>1. CallInv' /\ OutInv' /\ RanInv' /\ (Contract!Next \/ UNCHANGED <<via, response, answer, log>>)
    BY <1>3, ClientRef, AddonRef DEF Next
  <2> QED
    BY <1>1, <2>1 DEF RefInv, Contract!vars
<1> QED
  BY <1>2, <1>3

\* Clients, connections, threads and the main thread, with every timeout, loss and
\* restart, implement the contract of send_command (KeepsBridgeContract).
THEOREM BridgeRefinement == Spec => KeepsBridgeContract
<1>1. Init => Contract!Init
  BY InitRef, ContractInit
<1>2. RefInv /\ [Next]_vars => RefInv' /\ [Contract!Next]_(Contract!vars)
  BY RefStep
<1> QED
  BY InitRef, <1>1, <1>2, PTL DEF Spec, KeepsBridgeContract, Contract!Spec
=============================================================================
