----------------------------- MODULE BridgeProofs -----------------------------
(***************************************************************************)
(* Theorems about Bridge, for any number of callers, clients, connections, *)
(* calls and retries.                                                      *)
(***************************************************************************)
EXTENDS Bridge, FiniteSetTheorems, TLAPS

\* The lock: exactly the caller that is past Enter owns its client.
LockOK ==
  \A c \in Callers : pc[c] \in {"loop", "await"} <=> owner[ClientOf[c]] = c

\* A call in progress has a number and a command; a caller that awaits is connected.
JobOK ==
  \A c \in Callers :
    /\ pc[c] # "idle" => calls[c] # 0
    /\ \A n \in 1..calls[c] : command[c][n] \in Commands
    /\ pc[c] = "await" => Mine(c) # 0

\* A socket thread that waits, waits for a request; connections are numbered.
ServerOK ==
  \A i \in Conns :
    /\ hpc[i] = "wait" => hreq[i] # None
    /\ i > made => hpc[i] = "none"

TypeInv == TypeOK /\ LockOK /\ JobOK /\ ServerOK

LEMMA NoneIsNew == None \notin Callers /\ None \notin Commands /\ None \notin Requests
  BY BridgeAssumption

LEMMA RequestType ==
  ASSUME TypeInv, NEW c \in Callers, pc[c] \in {"loop", "await"}
  PROVE  Request(c) \in Requests
  <1>1. calls[c] \in 1..MaxCalls
    BY BridgeAssumption DEF TypeInv, TypeOK, JobOK
  <1>2. Command(c) \in Commands
    BY <1>1 DEF TypeInv, JobOK, Command
  <1>3. job[c].try \in 0..MaxRetries
    BY DEF TypeInv, TypeOK
  <1> QED BY <1>1, <1>2, <1>3 DEF Request, Requests

\* What ending a call, closing a connection and replying leave behind.
FinishOK(c) ==
  /\ result' \in [Callers -> [1..MaxCalls -> Results]]
  /\ pc' \in [Callers -> {"idle", "enter", "loop", "await"}]
  /\ owner' \in [Clients -> Callers \cup {None}]
  /\ \A d \in Callers : pc'[d] = IF d = c THEN "idle" ELSE pc[d]
  /\ \A k \in Clients : owner'[k] = IF k = ClientOf[c] THEN None ELSE owner[k]

CloseOK(k) ==
  /\ conn' \in [Clients -> 0..MaxConns]
  /\ epoch' \in [Clients -> Nat]
  /\ timed' \in [Clients -> BOOLEAN]
  /\ outbox' \in [Conns -> Seq(Replies)]
  /\ \A j \in Clients : conn'[j] = IF j = k THEN 0 ELSE conn[j]

RepliedOK(i) ==
  /\ outbox' \in [Conns -> Seq(Replies)]
  /\ hreq' = [hreq EXCEPT ![i] = None]
  /\ \E p \in {"recv", "done"} : hpc' = [hpc EXCEPT ![i] = p]

LEMMA FinishType ==
  ASSUME TypeInv, NEW c \in Callers, NEW r \in Results, Finish(c, r)
  PROVE  FinishOK(c)
  <1>1. result' \in [Callers -> [1..MaxCalls -> Results]]
    <2>1. [result[c] EXCEPT ![calls[c]] = r] \in [1..MaxCalls -> Results]
      BY DEF TypeInv, TypeOK
    <2> QED BY <2>1 DEF TypeInv, TypeOK, Finish
  <1> QED BY <1>1 DEF FinishOK, TypeInv, TypeOK, Finish

LEMMA CloseType ==
  ASSUME TypeInv, NEW k \in Clients, CloseLocked(k)
  PROVE  CloseOK(k)
  <1>1. /\ conn \in [Clients -> 0..MaxConns] /\ epoch \in [Clients -> Nat]
        /\ timed \in [Clients -> BOOLEAN]
    BY DEF TypeInv, TypeOK
  <1>2. outbox \in [Conns -> Seq(Replies)] /\ <<>> \in Seq(Replies)
    BY DEF TypeInv, TypeOK
  <1>3. CASE conn[k] = 0
    BY <1>1, <1>2, <1>3 DEF CloseOK, CloseLocked
  <1>4. CASE conn[k] # 0
    <2>1. /\ conn' = [conn EXCEPT ![k] = 0]
          /\ epoch' = [epoch EXCEPT ![k] = @ + 1]
          /\ timed' = [timed EXCEPT ![k] = FALSE]
          /\ outbox' = [outbox EXCEPT ![conn[k]] = <<>>]
      BY <1>4 DEF CloseLocked
    <2>2. conn' \in [Clients -> 0..MaxConns]
      BY <1>1, <2>1, BridgeAssumption
    <2>3. epoch' \in [Clients -> Nat] /\ timed' \in [Clients -> BOOLEAN]
      BY <1>1, <2>1
    <2>4. outbox' \in [Conns -> Seq(Replies)]
      BY <1>2, <2>1
    <2> QED BY <1>1, <2>1, <2>2, <2>3, <2>4 DEF CloseOK
  <1> QED BY <1>3, <1>4

\* The lock is released by whoever may have held it.
LEMMA FinishLock ==
  ASSUME TypeInv, NEW c \in Callers, owner[ClientOf[c]] \in {None, c}, FinishOK(c)
  PROVE  LockOK'
  <1> SUFFICES ASSUME NEW d \in Callers
               PROVE  pc'[d] \in {"loop", "await"} <=> owner'[ClientOf[d]] = d
    BY DEF LockOK
  <1>1. ClientOf[d] \in Clients /\ ClientOf[c] \in Clients /\ None # d
    BY BridgeAssumption, NoneIsNew
  <1>2. /\ pc'[d] = IF d = c THEN "idle" ELSE pc[d]
        /\ owner'[ClientOf[d]] = IF ClientOf[d] = ClientOf[c] THEN None ELSE owner[ClientOf[d]]
    BY <1>1 DEF FinishOK
  <1>3. pc[d] \in {"loop", "await"} <=> owner[ClientOf[d]] = d
    BY DEF TypeInv, LockOK
  <1>4. CASE d = c
    BY <1>1, <1>2, <1>4
  <1>5. CASE d # c
    BY <1>1, <1>2, <1>3, <1>5
  <1> QED BY <1>4, <1>5

LEMMA NewConnectionType ==
  ASSUME TypeInv, NEW k \in Clients, NewConnection(k)
  PROVE  /\ conn' \in [Clients -> 0..MaxConns]
         /\ epoch' \in [Clients -> Nat]
         /\ made' \in 0..MaxConns
         /\ \A j \in Clients : conn'[j] = IF j = k THEN made + 1 ELSE conn[j]
         /\ made + 1 # 0
  <1>1. /\ made \in 0..MaxConns /\ MaxConns \in Nat /\ made < MaxConns
        /\ conn \in [Clients -> 0..MaxConns] /\ epoch \in [Clients -> Nat]
    BY BridgeAssumption DEF TypeInv, TypeOK, NewConnection
  <1> QED BY <1>1 DEF NewConnection

\* A caller that loses its connection no longer awaits anything; nobody else does,
\* because the lock is its own.
LEMMA CloseJobs ==
  ASSUME TypeInv, NEW c \in Callers, pc[c] \in {"loop", "await"}, CloseOK(ClientOf[c]),
         UNCHANGED <<calls, command>>,
         \A d \in Callers : d # c => pc'[d] = pc[d],
         pc'[c] \in {"idle", "loop"}
  PROVE  JobOK'
  <1>1. calls[c] # 0
    BY DEF TypeInv, JobOK
  <1>2. ASSUME NEW d \in Callers, pc'[d] = "await" PROVE Mine(d)' # 0
    <2>1. d # c /\ pc[d] = "await"
      BY <1>2
    <2>2. owner[ClientOf[d]] = d /\ owner[ClientOf[c]] = c
      BY <2>1 DEF TypeInv, LockOK
    <2>3. ClientOf[d] # ClientOf[c] /\ ClientOf[d] \in Clients
      BY <2>1, <2>2, BridgeAssumption
    <2>4. conn'[ClientOf[d]] = conn[ClientOf[d]]
      BY <2>3 DEF CloseOK
    <2> QED BY <2>1, <2>4 DEF TypeInv, JobOK, Mine
  <1> QED BY <1>1, <1>2 DEF TypeInv, JobOK

LEMMA RepliedType ==
  ASSUME TypeInv, NEW i \in Conns, hreq[i] \in Requests,
         NEW s \in {"ok", "error", "TIMEOUT"}, Replied(i, s)
  PROVE  RepliedOK(i)
  <1>1. [req |-> hreq[i], status |-> s] \in Replies
    BY DEF Replies
  <1>2. outbox \in [Conns -> Seq(Replies)] /\ hpc \in [Conns -> {"none", "recv", "wait", "done"}]
    BY DEF TypeInv, TypeOK
  <1>3. outbox' \in [Conns -> Seq(Replies)]
    <2>1. Append(outbox[i], [req |-> hreq[i], status |-> s]) \in Seq(Replies)
      BY <1>1, <1>2
    <2> QED BY <1>2, <2>1 DEF Replied, Reply
  <1> QED BY <1>3 DEF RepliedOK, Replied

LEMMA CurrentType ==
  ASSUME TypeInv, Pending
  PROVE  Current \in Requests /\ Rest \in Seq(Requests)
  BY DEF TypeInv, TypeOK, Pending, Current, Rest

LEMMA TypeInit == Init => TypeInv
  <1> SUFFICES ASSUME Init PROVE TypeInv
    OBVIOUS
  <1>1. TypeOK
    BY BridgeAssumption DEF Init, TypeOK, Results
  <1>2. LockOK
    BY BridgeAssumption, NoneIsNew DEF Init, LockOK
  <1>3. JobOK /\ ServerOK
    BY BridgeAssumption DEF Init, JobOK, ServerOK
  <1> QED BY <1>1, <1>2, <1>3 DEF TypeInv

LEMMA TypeStep == TypeInv /\ [Next]_vars => TypeInv'
  <1> SUFFICES ASSUME TypeInv, [Next]_vars PROVE TypeInv'
    OBVIOUS
  <1> USE BridgeAssumption, NoneIsNew
  <1>1. ASSUME NEW c \in Callers, Snapshot(c) PROVE TypeInv'
    BY <1>1 DEF TypeInv, TypeOK, LockOK, JobOK, ServerOK, Snapshot, serverVars, uiVars, Mine
  <1>2. ASSUME NEW c \in Callers, NEW cmd \in Commands, NEW b \in BOOLEAN, BeginCall(c, cmd, b)
        PROVE  TypeInv'
    <2>1. TypeOK'
      BY <1>2 DEF TypeInv, TypeOK, BeginCall, serverVars, uiVars
    <2>2. LockOK'
      BY <1>2 DEF TypeInv, TypeOK, LockOK, BeginCall
    <2>3. JobOK'
      <3>1. /\ calls \in [Callers -> 0..MaxCalls] /\ calls[c] < MaxCalls
            /\ command \in [Callers -> [1..MaxCalls -> Commands \cup {None}]]
            /\ pc \in [Callers -> {"idle", "enter", "loop", "await"}]
            /\ calls' = [calls EXCEPT ![c] = @ + 1] /\ conn' = conn
            /\ command' = [command EXCEPT ![c][calls[c] + 1] = cmd]
            /\ pc' = [pc EXCEPT ![c] = "enter"]
        BY <1>2 DEF TypeInv, TypeOK, BeginCall
      <3>2. calls[c] \in 0..MaxCalls /\ calls[c] + 1 # 0 /\ calls[c] + 1 \in 1..MaxCalls
        BY <3>1
      <3>3. /\ \A d \in Callers : d # c => calls'[d] = calls[d] /\ command'[d] = command[d]
                                          /\ pc'[d] = pc[d] /\ Mine(d)' = Mine(d)
            /\ calls'[c] = calls[c] + 1 /\ pc'[c] = "enter"
            /\ command'[c] = [command[c] EXCEPT ![calls[c] + 1] = cmd]
        BY <3>1 DEF Mine
      <3>4. \A n \in 1..calls'[c] : command'[c][n] \in Commands
        <4>1. \A n \in 1..calls'[c] : n \in 1..MaxCalls /\ (n = calls[c] + 1 \/ n \in 1..calls[c])
          BY <3>2, <3>3
        <4>2. \A n \in 1..calls[c] : command[c][n] \in Commands
          BY DEF TypeInv, JobOK
        <4> QED BY <3>1, <3>3, <4>1, <4>2
      <3> QED BY <3>2, <3>3, <3>4 DEF TypeInv, JobOK
    <2>4. ServerOK'
      BY <1>2 DEF TypeInv, ServerOK, BeginCall, serverVars
    <2> QED BY <2>1, <2>2, <2>3, <2>4 DEF TypeInv
  <1>3. ASSUME NEW c \in Callers, Enter(c) PROVE TypeInv'
    <2>1. CASE job[c].atEpoch /\ (Mine(c) = 0 \/ epoch[ClientOf[c]] # seen[c].epoch)
      <3>0. Finish(c, "mismatch") /\ pc[c] = "enter" /\ "mismatch" \in Results
        BY <1>3, <2>1 DEF Enter, Results
      <3>f. FinishOK(c)
        BY <3>0, FinishType
      <3>1. TypeOK'
        BY <1>3, <3>f DEF FinishOK, TypeInv, TypeOK, Enter, serverVars, uiVars
      <3>2. LockOK'
        BY <1>3, <3>f, FinishLock DEF Enter
      <3>3. JobOK' /\ ServerOK'
        BY <1>3, <3>0, <3>f DEF FinishOK, TypeInv, TypeOK, JobOK, ServerOK, Enter, serverVars, Mine
      <3> QED BY <3>1, <3>2, <3>3 DEF TypeInv
    <2>2. CASE ~(job[c].atEpoch /\ (Mine(c) = 0 \/ epoch[ClientOf[c]] # seen[c].epoch))
      <3>0. /\ owner' = [owner EXCEPT ![ClientOf[c]] = c] /\ UNCHANGED result
            /\ pc' = [pc EXCEPT ![c] = "loop"] /\ pc[c] = "enter"
        BY <1>3, <2>2 DEF Enter
      <3>1. TypeOK'
        BY <1>3, <3>0 DEF TypeInv, TypeOK, Enter, serverVars, uiVars
      <3>2. LockOK'
        BY <1>3, <3>0 DEF TypeInv, TypeOK, LockOK, Enter
      <3>3. JobOK' /\ ServerOK'
        BY <1>3, <3>0 DEF TypeInv, TypeOK, JobOK, ServerOK, Enter, serverVars, Mine
      <3> QED BY <3>1, <3>2, <3>3 DEF TypeInv
    <2> QED BY <2>1, <2>2
  <1>4. ASSUME NEW c \in Callers, Connect(c) PROVE TypeInv'
    <2>1. TypeOK'
      BY <1>4, NewConnectionType DEF TypeInv, TypeOK, Connect, serverVars, uiVars
    <2>2. LockOK'
      BY <1>4 DEF TypeInv, TypeOK, LockOK, Connect, NewConnection, Conns, clientVars
    <2>3. JobOK'
      BY <1>4 DEF TypeInv, TypeOK, LockOK, JobOK, Connect, NewConnection, Conns, Mine, clientVars
    <2>4. ServerOK'
      BY <1>4 DEF TypeInv, TypeOK, ServerOK, Connect, NewConnection, Conns, serverVars
    <2> QED BY <2>1, <2>2, <2>3, <2>4 DEF TypeInv
  <1>5. ASSUME NEW c \in Callers, Send(c) PROVE TypeInv'
    <2>0. Request(c) \in Requests /\ Mine(c) \in Conns
      <3>1. Request(c) \in Requests
        BY <1>5, RequestType DEF Send
      <3>2. conn \in [Clients -> 0..MaxConns] /\ ClientOf[c] \in Clients /\ MaxConns \in Nat
        BY DEF TypeInv, TypeOK
      <3> QED BY <1>5, <3>1, <3>2 DEF Send, Mine, Conns
    <2>i. inbox' \in [Conns -> Seq(Requests)]
      <3>1. inbox \in [Conns -> Seq(Requests)]
        BY DEF TypeInv, TypeOK
      <3>2. Append(inbox[Mine(c)], Request(c)) \in Seq(Requests)
        BY <2>0, <3>1
      <3> QED BY <1>5, <3>1, <3>2 DEF Send
    <2>1. TypeOK'
      BY <1>5, <2>i DEF TypeInv, TypeOK, Send, serverVars, uiVars
    <2>2. LockOK'
      BY <1>5 DEF TypeInv, TypeOK, LockOK, Send
    <2>3. JobOK' /\ ServerOK'
      BY <1>5 DEF TypeInv, TypeOK, JobOK, ServerOK, Send, serverVars, Mine
    <2> QED BY <2>1, <2>2, <2>3 DEF TypeInv
  <1>6. ASSUME NEW c \in Callers, TimeOut(c) PROVE TypeInv'
    <2>c. CloseOK(ClientOf[c])
      BY <1>6, CloseType DEF TimeOut
    <2>0. pc[c] \in {"loop", "await"}
      BY <1>6 DEF TimeOut
    <2>o. owner[ClientOf[c]] \in {None, c}
      BY <2>0 DEF TypeInv, LockOK
    <2>f. FinishOK(c)
      BY <1>6, FinishType DEF TimeOut, Results
    <2>1. TypeOK'
      BY <1>6, <2>f, <2>c DEF FinishOK, CloseOK, TypeInv, TypeOK, TimeOut, serverVars, uiVars
    <2>2. LockOK'
      BY <2>f, <2>o, FinishLock
    <2>3. JobOK'
      BY <1>6, <2>0, <2>f, <2>c, CloseJobs DEF FinishOK, TimeOut
    <2>4. ServerOK'
      BY <1>6 DEF TypeInv, ServerOK, TimeOut, serverVars
    <2> QED BY <2>1, <2>2, <2>3, <2>4 DEF TypeInv
  <1>7. ASSUME NEW c \in Callers, ConnectionError(c) PROVE TypeInv'
    <2>c. CloseOK(ClientOf[c])
      BY <1>7, CloseType DEF ConnectionError
    <2>0. pc[c] \in {"loop", "await"}
      BY <1>7 DEF ConnectionError
    <2>1. CASE MayRetry(c)
      <3>0. /\ job' = [job EXCEPT ![c].try = @ + 1] /\ job[c].try < MaxRetries
            /\ pc' = [pc EXCEPT ![c] = "loop"] /\ UNCHANGED <<owner, result>>
        BY <1>7, <2>1 DEF ConnectionError, MayRetry
      <3>1. job' \in [Callers -> [atEpoch : BOOLEAN, try : 0..MaxRetries]]
        <4>1. job \in [Callers -> [atEpoch : BOOLEAN, try : 0..MaxRetries]] /\ MaxRetries \in Nat
          BY DEF TypeInv, TypeOK
        <4>2. job[c].try + 1 \in 0..MaxRetries
          BY <3>0, <4>1
        <4>3. [job[c] EXCEPT !.try = @ + 1] \in [atEpoch : BOOLEAN, try : 0..MaxRetries]
          BY <4>1, <4>2
        <4> QED BY <3>0, <4>1, <4>3
      <3>2. TypeOK'
        BY <1>7, <3>0, <3>1, <2>c DEF CloseOK, TypeInv, TypeOK, ConnectionError, serverVars, uiVars
      <3>3. LockOK'
        BY <1>7, <2>0, <3>0 DEF TypeInv, TypeOK, LockOK
      <3>4. JobOK'
        <4>1. pc'[c] = "loop" /\ \A d \in Callers : d # c => pc'[d] = pc[d]
          BY <3>0 DEF TypeInv, TypeOK
        <4> QED BY <1>7, <2>0, <2>c, <4>1, CloseJobs DEF ConnectionError
      <3> QED BY <1>7, <3>2, <3>3, <3>4 DEF TypeInv, ServerOK, ConnectionError, serverVars
    <2>2. CASE ~MayRetry(c)
      <3>f. FinishOK(c) /\ UNCHANGED job
        BY <1>7, <2>2, FinishType DEF ConnectionError, Results
      <3>1. TypeOK'
        BY <1>7, <3>f, <2>c DEF FinishOK, CloseOK, TypeInv, TypeOK, ConnectionError, serverVars, uiVars
      <3>o. owner[ClientOf[c]] \in {None, c}
        BY <2>0 DEF TypeInv, LockOK
      <3>2. LockOK'
        BY <3>o, <3>f, FinishLock
      <3>3. JobOK'
        BY <1>7, <2>0, <3>f, <2>c, CloseJobs DEF FinishOK, ConnectionError
      <3> QED BY <1>7, <3>1, <3>2, <3>3 DEF TypeInv, ServerOK, ConnectionError, serverVars
    <2> QED BY <2>1, <2>2
  <1>8. ASSUME NEW c \in Callers, Receive(c) PROVE TypeInv'
    <2>0. /\ pc[c] = "await" /\ Mine(c) \in Conns
          /\ outbox[Mine(c)] \in Seq(Replies) /\ outbox[Mine(c)] # <<>>
      BY <1>8 DEF Receive, TypeInv, TypeOK, JobOK, Mine, Conns
    <2>s. Head(outbox[Mine(c)]) \in Replies /\ Tail(outbox[Mine(c)]) \in Seq(Replies)
      BY <2>0
    <2>r. Head(outbox[Mine(c)]).status \in Results
      BY <2>s DEF Replies, Results
    <2>f. FinishOK(c)
      BY <1>8, <2>r, FinishType DEF Receive
    <2>1. TypeOK'
      BY <1>8, <2>f, <2>s DEF FinishOK, TypeInv, TypeOK, Receive, serverVars, uiVars
    <2>o. owner[ClientOf[c]] \in {None, c}
      BY <2>0 DEF TypeInv, LockOK
    <2>2. LockOK'
      BY <2>o, <2>f, FinishLock
    <2>3. JobOK'
      BY <1>8, <2>0, <2>f DEF FinishOK, TypeInv, TypeOK, JobOK, Receive, Mine
    <2> QED BY <1>8, <2>1, <2>2, <2>3 DEF TypeInv, ServerOK, Receive, serverVars
  <1>9. ASSUME NEW k \in Clients, ConnectClient(k) PROVE TypeInv'
    <2>1. TypeOK'
      BY <1>9 DEF TypeInv, TypeOK, ConnectClient, NewConnection, Conns, serverVars, uiVars
    <2>2. LockOK'
      BY <1>9 DEF TypeInv, TypeOK, LockOK, ConnectClient, NewConnection, Conns, clientVars
    <2>3. JobOK'
      BY <1>9 DEF TypeInv, TypeOK, LockOK, JobOK, ConnectClient, NewConnection, Conns, Mine, clientVars
    <2>4. ServerOK'
      BY <1>9 DEF TypeInv, TypeOK, ServerOK, ConnectClient, NewConnection, Conns, serverVars
    <2> QED BY <2>1, <2>2, <2>3, <2>4 DEF TypeInv
  <1>10. ASSUME NEW k \in Clients, CloseClient(k) PROVE TypeInv'
    <2>c. CloseOK(k)
      BY <1>10, CloseType DEF CloseClient
    <2>1. TypeOK'
      BY <1>10, <2>c DEF CloseOK, TypeInv, TypeOK, CloseClient, serverVars, uiVars
    <2>2. LockOK'
      BY <1>10 DEF TypeInv, TypeOK, LockOK, CloseClient
    <2>3. JobOK'
      BY <1>10, <2>c DEF CloseOK, TypeInv, TypeOK, LockOK, JobOK, CloseClient, Mine
    <2> QED BY <1>10, <2>1, <2>2, <2>3 DEF TypeInv, ServerOK, CloseClient, serverVars
  <1>11. ASSUME NEW i \in Conns, Serve(i) PROVE TypeInv'
    <2>1. TypeOK'
      BY <1>11 DEF TypeInv, TypeOK, Serve, clientVars, serverVars, uiVars
    <2>2. LockOK' /\ JobOK'
      BY <1>11 DEF TypeInv, LockOK, JobOK, Serve, clientVars, Mine
    <2>3. ServerOK'
      <3>1. /\ hpc' = [hpc EXCEPT ![i] = "recv"] /\ i <= made
            /\ UNCHANGED <<made, hreq>>
        BY <1>11 DEF Serve
      <3>2. hpc \in [Conns -> {"none", "recv", "wait", "done"}] /\ made \in Int /\ Conns \subseteq Int
        BY DEF TypeInv, TypeOK, Conns
      <3> QED BY <3>1, <3>2 DEF TypeInv, ServerOK
    <2> QED BY <2>1, <2>2, <2>3 DEF TypeInv
  <1>12. ASSUME NEW i \in Conns, Enqueue(i) PROVE TypeInv'
    <2>h. inbox[i] \in Seq(Requests) /\ inbox[i] # <<>>
      BY <1>12 DEF Enqueue, TypeInv, TypeOK
    <2>s. Head(inbox[i]) \in Requests /\ Tail(inbox[i]) \in Seq(Requests)
      BY <2>h
    <2>1. TypeOK'
      BY <1>12, <2>s DEF TypeInv, TypeOK, Enqueue, clientVars, serverVars, uiVars
    <2>2. LockOK' /\ JobOK'
      BY <1>12 DEF TypeInv, LockOK, JobOK, Enqueue, clientVars, Mine
    <2>3. ServerOK'
      BY <1>12, <2>s DEF TypeInv, TypeOK, ServerOK, Enqueue, serverVars
    <2> QED BY <2>1, <2>2, <2>3 DEF TypeInv
  <1>13. ASSUME NEW i \in Conns, Block(i) PROVE TypeInv'
    <2>h. inbox[i] \in Seq(Requests) /\ inbox[i] # <<>>
      BY <1>13 DEF Block, TypeInv, TypeOK
    <2>s. Head(inbox[i]) \in Requests /\ Tail(inbox[i]) \in Seq(Requests)
      BY <2>h
    <2>r. outbox' \in [Conns -> Seq(Replies)]
      <3>1. [req |-> Head(inbox[i]), status |-> "error"] \in Replies
        BY <2>s DEF Replies
      <3>2. outbox \in [Conns -> Seq(Replies)]
        BY DEF TypeInv, TypeOK
      <3>3. Append(outbox[i], [req |-> Head(inbox[i]), status |-> "error"]) \in Seq(Replies)
        BY <3>1, <3>2
      <3> QED BY <1>13, <3>2, <3>3 DEF Block, Reply
    <2>1. TypeOK'
      BY <1>13, <2>s, <2>r DEF TypeInv, TypeOK, Block, clientVars, serverVars, uiVars
    <2>2. LockOK' /\ JobOK'
      BY <1>13 DEF TypeInv, LockOK, JobOK, Block, clientVars, Mine
    <2>3. ServerOK'
      BY <1>13, <2>s, <2>r DEF TypeInv, TypeOK, ServerOK, Block, serverVars
    <2> QED BY <2>1, <2>2, <2>3 DEF TypeInv
  <1>14. ASSUME NEW i \in Conns, RejectFrame(i) PROVE TypeInv'
    <2>h. inbox[i] \in Seq(Requests) /\ inbox[i] # <<>>
      BY <1>14 DEF RejectFrame, TypeInv, TypeOK
    <2>s. Head(inbox[i]) \in Requests /\ Tail(inbox[i]) \in Seq(Requests)
      BY <2>h
    <2>r. outbox' \in [Conns -> Seq(Replies)]
      <3>1. [req |-> Head(inbox[i]), status |-> "error"] \in Replies
        BY <2>s DEF Replies
      <3>2. outbox \in [Conns -> Seq(Replies)]
        BY DEF TypeInv, TypeOK
      <3>3. Append(outbox[i], [req |-> Head(inbox[i]), status |-> "error"]) \in Seq(Replies)
        BY <3>1, <3>2
      <3> QED BY <1>14, <3>2, <3>3 DEF RejectFrame, Reply
    <2>i. /\ inbox' \in [Conns -> Seq(Requests)]
          /\ up' \in [Conns -> BOOLEAN]
          /\ hpc' \in [Conns -> {"none", "recv", "wait", "done"}]
      <3>1. <<>> \in Seq(Requests)
        OBVIOUS
      <3> QED BY <1>14, <3>1 DEF RejectFrame, Reset, TypeInv, TypeOK
    <2>1. TypeOK'
      BY <1>14, <2>r, <2>i DEF TypeInv, TypeOK, RejectFrame, Reset, clientVars, serverVars, uiVars
    <2>2. LockOK' /\ JobOK'
      BY <1>14 DEF TypeInv, LockOK, JobOK, RejectFrame, clientVars, Mine
    <2>3. ServerOK'
      BY <1>14, <2>s, <2>r DEF TypeInv, TypeOK, ServerOK, RejectFrame, Reset, serverVars
    <2> QED BY <2>1, <2>2, <2>3 DEF TypeInv
  <1>15. ASSUME NEW i \in Conns, Answer(i) PROVE TypeInv'
    <2>a. hreq[i] \in Requests /\ hpc[i] = "wait"
      BY <1>15 DEF Answer, TypeInv, TypeOK, ServerOK
    <2>p. PICK a \in answers : a.req = hreq[i] /\ Replied(i, a.status)
      BY <1>15 DEF Answer
    <2>q. a.status \in {"ok", "error", "TIMEOUT"}
      BY DEF TypeInv, TypeOK, Replies
    <2>r. RepliedOK(i)
      BY <2>a, <2>p, <2>q, RepliedType
    <2>1. TypeOK'
      <3>1. /\ UNCHANGED <<clientVars, made, up, inbox, queue, uiVars, breaks, restarts>>
        BY <1>15 DEF Answer
      <3>2. hpc' \in [Conns -> {"none", "recv", "wait", "done"}] /\ hreq' \in [Conns -> Requests \cup {None}]
            /\ outbox' \in [Conns -> Seq(Replies)]
        BY <2>r DEF TypeInv, TypeOK, RepliedOK
      <3> QED BY <3>1, <3>2 DEF TypeInv, TypeOK, clientVars, uiVars
    <2>2. LockOK' /\ JobOK'
      BY <1>15 DEF TypeInv, LockOK, JobOK, Answer, clientVars, Mine
    <2>3. ServerOK'
      BY <1>15, <2>r DEF TypeInv, TypeOK, ServerOK, Answer, RepliedOK, serverVars
    <2> QED BY <2>1, <2>2, <2>3 DEF TypeInv
  <1>16. ASSUME NEW i \in Conns, GiveUp(i) PROVE TypeInv'
    <2>a. hreq[i] \in Requests /\ hpc[i] = "wait"
      BY <1>16 DEF GiveUp, TypeInv, TypeOK, ServerOK
    <2>r. RepliedOK(i)
      BY <1>16, <2>a, RepliedType DEF GiveUp
    <2>1. TypeOK'
      BY <1>16, <2>r DEF TypeInv, TypeOK, GiveUp, RepliedOK, clientVars, serverVars, uiVars
    <2>2. LockOK' /\ JobOK'
      BY <1>16 DEF TypeInv, LockOK, JobOK, GiveUp, clientVars, Mine
    <2>3. ServerOK'
      BY <1>16, <2>r DEF TypeInv, TypeOK, ServerOK, GiveUp, RepliedOK, serverVars
    <2> QED BY <2>1, <2>2, <2>3 DEF TypeInv
  <1>17. ASSUME NEW i \in Conns, HangUp(i) PROVE TypeInv'
    <2>1. TypeOK'
      BY <1>17 DEF TypeInv, TypeOK, HangUp, Reset, clientVars, serverVars, uiVars
    <2>2. LockOK' /\ JobOK'
      BY <1>17 DEF TypeInv, LockOK, JobOK, HangUp, clientVars, Mine
    <2>3. ServerOK'
      BY <1>17 DEF TypeInv, TypeOK, ServerOK, HangUp, Reset, serverVars
    <2> QED BY <2>1, <2>2, <2>3 DEF TypeInv
  <1>18. ASSUME NEW i \in Conns, Break(i) PROVE TypeInv'
    <2>1. TypeOK'
      BY <1>18 DEF TypeInv, TypeOK, Break, Reset, clientVars, serverVars, uiVars
    <2>2. LockOK' /\ JobOK' /\ ServerOK'
      BY <1>18 DEF TypeInv, LockOK, JobOK, ServerOK, Break, Reset, clientVars, serverVars, Mine
    <2> QED BY <2>1, <2>2 DEF TypeInv
  <1>19. ASSUME Tick PROVE TypeInv'
    <2>1. TypeOK'
      BY <1>19 DEF TypeInv, TypeOK, Tick, clientVars, serverVars, uiVars
    <2>2. LockOK' /\ JobOK' /\ ServerOK'
      BY <1>19 DEF TypeInv, LockOK, JobOK, ServerOK, Tick, clientVars, serverVars, Mine
    <2> QED BY <2>1, <2>2 DEF TypeInv
  <1>20. ASSUME Yield PROVE TypeInv'
    <2>s. Current \in Requests /\ Rest \in Seq(Requests)
      BY <1>20, CurrentType DEF Yield
    <2>1. TypeOK'
      BY <1>20, <2>s DEF TypeInv, TypeOK, Yield, clientVars, serverVars, uiVars
    <2>2. LockOK' /\ JobOK' /\ ServerOK'
      BY <1>20 DEF TypeInv, LockOK, JobOK, ServerOK, Yield, clientVars, serverVars, Mine
    <2> QED BY <2>1, <2>2 DEF TypeInv
  <1>21. ASSUME NEW status \in {"ok", "error"}, Complete(status) PROVE TypeInv'
    <2>s. Current \in Requests /\ Rest \in Seq(Requests)
      BY <1>21, CurrentType DEF Complete
    <2>a. [req |-> Current, status |-> status] \in Replies
      BY <2>s DEF Replies
    <2>1. TypeOK'
      BY <1>21, <2>s, <2>a DEF TypeInv, TypeOK, Complete, clientVars, serverVars, uiVars
    <2>2. LockOK' /\ JobOK' /\ ServerOK'
      BY <1>21 DEF TypeInv, LockOK, JobOK, ServerOK, Complete, clientVars, serverVars, Mine
    <2> QED BY <2>1, <2>2 DEF TypeInv
  <1>22. ASSUME TickEnds PROVE TypeInv'
    <2>1. TypeOK'
      BY <1>22 DEF TypeInv, TypeOK, TickEnds, clientVars, serverVars, uiVars
    <2>2. LockOK' /\ JobOK' /\ ServerOK'
      BY <1>22 DEF TypeInv, LockOK, JobOK, ServerOK, TickEnds, clientVars, serverVars, Mine
    <2> QED BY <2>1, <2>2 DEF TypeInv
  <1>23. ASSUME Restart PROVE TypeInv'
    <2>1. TypeOK'
      BY <1>23 DEF TypeInv, TypeOK, Restart, Conns, clientVars, serverVars, uiVars
    <2>2. LockOK' /\ JobOK'
      BY <1>23 DEF TypeInv, LockOK, JobOK, Restart, clientVars, Mine
    <2>3. ServerOK'
      <3>1. \A i \in Conns : i > made => hpc[i] = "none"
        BY DEF TypeInv, ServerOK
      <3>2. made' = made /\ \A i \in Conns : hpc'[i] \in {"done", "none"} /\ (i > made => hpc'[i] = "none")
        <4>1. hpc' = [i \in Conns |-> IF i <= made THEN "done" ELSE hpc[i]]
          BY <1>23 DEF Restart
        <4>2. made \in Int /\ Conns \subseteq Int
          BY DEF TypeInv, TypeOK, Conns
        <4>3. ASSUME NEW i \in Conns
              PROVE  hpc'[i] \in {"done", "none"} /\ (i > made => hpc'[i] = "none")
          <5>1. i \in Int /\ (i <= made \/ i > made) /\ ~(i <= made /\ i > made)
            BY <4>2
          <5> QED BY <3>1, <4>1, <5>1
        <4>4. made' = made
          BY <1>23 DEF Restart
        <4> QED BY <4>3, <4>4
      <3> QED BY <3>2 DEF ServerOK
    <2> QED BY <2>1, <2>2, <2>3 DEF TypeInv
  <1>24. CASE UNCHANGED vars
    BY <1>24 DEF TypeInv, TypeOK, LockOK, JobOK, ServerOK, Mine, vars, clientVars, serverVars, uiVars
  <1> QED
    BY <1>1, <1>2, <1>3, <1>4, <1>5, <1>6, <1>7, <1>8, <1>9, <1>10, <1>11, <1>12, <1>13, <1>14, <1>15, <1>16, <1>17, <1>18, <1>19, <1>20, <1>21, <1>22, <1>23, <1>24
    DEF Next, CallStep, Socket, Live

\* Every variable keeps its type, the lock is held by exactly the caller that is in
\* its call, and every caller that awaits a reply has a connection to await it on.
THEOREM TypeCorrect == Spec => [](TypeOK /\ LockOK /\ JobOK)
  <1>1. Spec => []TypeInv
    BY TypeInit, TypeStep, PTL DEF Spec
  <1> QED BY <1>1, PTL DEF TypeInv
------------------------------------------------------------------------------
(*************************** at most once **********************************)
\* A request that has been sent and not lost.
InFlight(r) ==
  \/ r = active
  \/ \E i \in DOMAIN queue : queue[i] = r
  \/ \E i \in Conns : \E j \in DOMAIN inbox[i] : inbox[i][j] = r
Known(r) == r \in started \/ InFlight(r)

\* What is known of a call matches what was asked, and a mutation was only ever
\* sent at its first attempt.
KnownOK ==
  \A r \in Requests : Known(r) =>
    /\ r.no <= calls[r.caller]
    /\ r.cmd = command[r.caller][r.no]
    /\ r.cmd \in Mutations => r.try = 0

FirstTry ==
  \A c \in Callers : calls[c] # 0 /\ Command(c) \in Mutations => job[c].try = 0

OnceInv == TypeInv /\ KnownOK /\ FirstTry

\* Only Send makes a request known.
LEMMA KnownStep ==
  ASSUME TypeInv, [Next]_vars, NEW r \in Requests, Known(r)'
  PROVE  Known(r) \/ \E c \in Callers : Send(c) /\ r = Request(c)
  <1> USE BridgeAssumption
  <1>1. ASSUME UNCHANGED <<queue, active, inbox, started>> PROVE Known(r)
    BY <1>1 DEF Known, InFlight
  <1>2. ASSUME NEW c \in Callers, Send(c) PROVE Known(r) \/ r = Request(c)
    <2>1. /\ inbox \in [Conns -> Seq(Requests)] /\ Mine(c) \in Conns
          /\ Request(c) \in Requests
      <3>1. conn \in [Clients -> 0..MaxConns] /\ ClientOf[c] \in Clients
        BY DEF TypeInv, TypeOK
      <3>2. Mine(c) \in 0..MaxConns /\ Mine(c) # 0 /\ MaxConns \in Nat
        BY <1>2, <3>1 DEF Send, Mine
      <3>3. Request(c) \in Requests
        BY <1>2, RequestType DEF Send
      <3>4. inbox \in [Conns -> Seq(Requests)]
        BY DEF TypeInv, TypeOK
      <3> QED BY <3>2, <3>3, <3>4 DEF Conns
    <2>2. CASE r \in started \/ r = active \/ \E i \in DOMAIN queue : queue[i] = r
      BY <2>2 DEF Known, InFlight
    <2>3. ASSUME NEW i \in Conns, NEW j \in DOMAIN inbox'[i], inbox'[i][j] = r
          PROVE  Known(r) \/ r = Request(c)
      <3>1. CASE inbox'[i] = inbox[i]
        BY <2>3, <3>1 DEF Known, InFlight
      <3>2. CASE inbox'[i] # inbox[i]
        <4>1. inbox'[i] = Append(inbox[i], Request(c)) /\ inbox[i] \in Seq(Requests)
          BY <1>2, <2>1, <3>2 DEF Send
        <4>2. (j \in DOMAIN inbox[i] /\ inbox[i][j] = r) \/ r = Request(c)
          BY <2>1, <2>3, <4>1
        <4> QED BY <4>2 DEF Known, InFlight
      <3> QED BY <3>1, <3>2
    <2>4. /\ UNCHANGED <<queue, active, started>>
      BY <1>2 DEF Send, uiVars
    <2> QED BY <2>2, <2>3, <2>4 DEF Known, InFlight
  <1>3. ASSUME NEW i \in Conns, inbox[i] \in Seq(Requests), inbox[i] # <<>>,
               inbox' = [inbox EXCEPT ![i] = Tail(@)], UNCHANGED <<active, started>>,
               queue' = queue \/ queue' = Append(queue, Head(inbox[i]))
        PROVE  Known(r)
    <2>0. /\ inbox \in [Conns -> Seq(Requests)] /\ queue \in Seq(Requests)
          /\ 1 \in DOMAIN inbox[i] /\ Head(inbox[i]) = inbox[i][1]
          /\ Head(inbox[i]) \in Requests
      BY <1>3 DEF TypeInv, TypeOK
    <2>1. ASSUME NEW n \in DOMAIN queue', queue'[n] = r PROVE Known(r)
      <3>1. CASE n \in DOMAIN queue /\ queue[n] = r
        BY <3>1 DEF Known, InFlight
      <3>2. CASE r = inbox[i][1]
        BY <2>0, <3>2 DEF Known, InFlight
      <3>3. CASE queue' = queue
        BY <2>1, <3>1, <3>3
      <3>4. CASE queue' = Append(queue, Head(inbox[i]))
        BY <2>0, <2>1, <3>1, <3>2, <3>4
      <3> QED BY <1>3, <3>3, <3>4
    <2>2. ASSUME NEW k \in Conns, NEW n \in DOMAIN inbox'[k], inbox'[k][n] = r PROVE Known(r)
      <3>1. \E m \in DOMAIN inbox[k] : inbox[k][m] = r
        <4>1. CASE k = i
          <5>1. inbox'[k] = Tail(inbox[i])
            BY <1>3, <2>0, <4>1
          <5>2. n + 1 \in DOMAIN inbox[i] /\ inbox[i][n + 1] = r
            BY <1>3, <2>0, <2>2, <4>1, <5>1
          <5> QED BY <5>2, <4>1
        <4>2. CASE k # i
          BY <1>3, <2>0, <2>2, <4>2
        <4> QED BY <4>1, <4>2
      <3> QED BY <3>1 DEF Known, InFlight
    <2> QED BY <1>3, <2>1, <2>2 DEF Known, InFlight
  <1>4. ASSUME Pending, queue' = Rest, active' \in {None, Current},
               started' = started \cup {Current}, UNCHANGED inbox
        PROVE  Known(r)
    <2>0. queue \in Seq(Requests) /\ r # None
      BY NoneIsNew DEF TypeInv, TypeOK
    <2>1. Known(Current)
      BY <1>4, <2>0 DEF Pending, Current, Known, InFlight
    <2>2. ASSUME NEW n \in DOMAIN queue', queue'[n] = r PROVE Known(r)
      <3>1. CASE active = None
        <4>1. queue' = Tail(queue) /\ queue # <<>>
          BY <1>4, <3>1 DEF Rest, Pending
        <4>2. n + 1 \in DOMAIN queue /\ queue[n + 1] = r
          BY <2>0, <2>2, <4>1
        <4> QED BY <4>2 DEF Known, InFlight
      <3>2. CASE active # None
        BY <1>4, <2>2, <3>2 DEF Rest, Known, InFlight
      <3> QED BY <3>1, <3>2
    <2> QED BY <1>4, <2>0, <2>1, <2>2 DEF Known, InFlight
  <1>5. ASSUME NEW i \in Conns, Reset(i), UNCHANGED <<queue, active, started>>
        PROVE  Known(r)
    <2>1. \A k \in Conns : inbox'[k] = inbox[k] \/ inbox'[k] = <<>>
      BY <1>5 DEF Reset, TypeInv, TypeOK
    <2>2. \A k \in Conns : \A n \in DOMAIN inbox'[k] : n \in DOMAIN inbox[k] /\ inbox'[k][n] = inbox[k][n]
      BY <2>1
    <2> QED BY <1>5, <2>2 DEF Known, InFlight
  <1>6. ASSUME Restart PROVE Known(r)
    <2>1. /\ \A k \in Conns : DOMAIN inbox'[k] = {}
          /\ DOMAIN queue' = {} /\ active' = None /\ started' = started /\ r # None
      BY <1>6, NoneIsNew DEF Restart
    <2> QED BY <2>1 DEF Known, InFlight
  <1>a. ASSUME NEW c \in Callers,
               Snapshot(c) \/ (\E cmd \in Commands, b \in BOOLEAN : BeginCall(c, cmd, b))
                 \/ Enter(c) \/ Connect(c) \/ TimeOut(c) \/ ConnectionError(c) \/ Receive(c)
        PROVE  Known(r)
    BY <1>a, <1>1 DEF Snapshot, BeginCall, Enter, Connect, TimeOut, ConnectionError, Receive, uiVars
  <1>b. ASSUME NEW k \in Clients, ConnectClient(k) \/ CloseClient(k) PROVE Known(r)
    BY <1>b, <1>1 DEF ConnectClient, CloseClient, uiVars
  <1>c. ASSUME NEW i \in Conns, Serve(i) \/ Answer(i) \/ GiveUp(i) PROVE Known(r)
    BY <1>c, <1>1 DEF Serve, Answer, GiveUp, uiVars
  <1>d. ASSUME NEW i \in Conns, Enqueue(i) \/ Block(i) PROVE Known(r)
    BY <1>d, <1>3 DEF Enqueue, Block, uiVars, TypeInv, TypeOK
  <1>e. ASSUME NEW i \in Conns, RejectFrame(i) \/ HangUp(i) \/ Break(i) PROVE Known(r)
    BY <1>e, <1>5 DEF RejectFrame, HangUp, Break, uiVars
  <1>f. ASSUME Yield \/ \E status \in {"ok", "error"} : Complete(status) PROVE Known(r)
    BY <1>f, <1>4 DEF Yield, Complete
  <1>g. ASSUME Tick \/ TickEnds \/ UNCHANGED vars PROVE Known(r)
    BY <1>g, <1>1 DEF Tick, TickEnds, vars, uiVars
  <1> QED
    BY <1>2, <1>6, <1>a, <1>b, <1>c, <1>d, <1>e, <1>f, <1>g DEF Next, CallStep, Socket, Live

LEMMA OnceInit == Init => OnceInv
  <1> SUFFICES ASSUME Init PROVE OnceInv
    OBVIOUS
  <1>1. TypeInv
    BY TypeInit
  <1>2. \A r \in Requests : ~Known(r)
    BY NoneIsNew DEF Init, Known, InFlight
  <1>3. FirstTry
    BY DEF Init, FirstTry
  <1> QED BY <1>1, <1>2, <1>3 DEF OnceInv, KnownOK

\* The calls of a caller other than its current one are never touched again.
LEMMA CallsStep ==
  ASSUME TypeInv, [Next]_vars, NEW c \in Callers
  PROVE  \/ calls'[c] = calls[c] /\ command'[c] = command[c]
         \/ /\ calls'[c] = calls[c] + 1
            /\ \A n \in 1..calls[c] : command'[c][n] = command[c][n]
            /\ job'[c].try = 0
  <1>1. ASSUME NEW d \in Callers, NEW cmd \in Commands, NEW b \in BOOLEAN, BeginCall(d, cmd, b)
        PROVE  \/ calls'[c] = calls[c] /\ command'[c] = command[c]
               \/ /\ calls'[c] = calls[c] + 1
                  /\ \A n \in 1..calls[c] : command'[c][n] = command[c][n]
                  /\ job'[c].try = 0
    <2>1. /\ calls \in [Callers -> 0..MaxCalls]
          /\ command \in [Callers -> [1..MaxCalls -> Commands \cup {None}]]
          /\ job \in [Callers -> [atEpoch : BOOLEAN, try : 0..MaxRetries]]
      BY DEF TypeInv, TypeOK
    <2>2. CASE d = c
      <3>1. calls'[c] = calls[c] + 1 /\ job'[c] = [atEpoch |-> b, try |-> 0]
        BY <1>1, <2>1, <2>2 DEF BeginCall
      <3>2. command'[c] = [command[c] EXCEPT ![calls[c] + 1] = cmd]
        BY <1>1, <2>1, <2>2 DEF BeginCall
      <3>3. \A n \in 1..calls[c] : command'[c][n] = command[c][n]
        BY <2>1, <3>2, BridgeAssumption
      <3> QED BY <3>1, <3>3
    <2>3. CASE d # c
      BY <1>1, <2>1, <2>3 DEF BeginCall
    <2> QED BY <2>2, <2>3
  <1>2. CASE UNCHANGED <<calls, command>>
    BY <1>2
  <1>3. UNCHANGED <<calls, command>>
          \/ \E d \in Callers, cmd \in Commands, b \in BOOLEAN : BeginCall(d, cmd, b)
    BY DEF Next, CallStep, Socket, Live, Snapshot, Enter, Connect, Send, TimeOut,
           ConnectionError, Receive, ConnectClient, CloseClient, Serve, Enqueue, Block,
           RejectFrame, Answer, GiveUp, HangUp, Tick, Yield, Complete, TickEnds, Break,
           Restart, vars, clientVars
  <1> QED BY <1>1, <1>2, <1>3

LEMMA OnceStep == OnceInv /\ [Next]_vars => OnceInv'
  <1> SUFFICES ASSUME OnceInv, [Next]_vars PROVE OnceInv'
    OBVIOUS
  <1>0. TypeInv
    BY DEF OnceInv
  <1>1. TypeInv'
    BY <1>0, TypeStep
  <1>2. ASSUME NEW r \in Requests, Known(r)'
        PROVE  /\ r.no <= calls'[r.caller]
               /\ r.cmd = command'[r.caller][r.no]
               /\ r.cmd \in Mutations => r.try = 0
    <2>0. /\ r.caller \in Callers /\ r.no \in 1..MaxCalls
          /\ calls[r.caller] \in 0..MaxCalls /\ MaxCalls \in Nat
      BY <1>0, BridgeAssumption DEF Requests, TypeInv, TypeOK
    <2>1. CASE Known(r)
      <3>1. /\ r.no <= calls[r.caller] /\ r.cmd = command[r.caller][r.no]
            /\ r.cmd \in Mutations => r.try = 0
        BY <2>1 DEF OnceInv, KnownOK
      <3>2. r.no \in 1..calls[r.caller]
        BY <2>0, <3>1
      <3> QED BY <1>0, <2>0, <3>1, <3>2, CallsStep
    <2>2. ASSUME NEW c \in Callers, Send(c), r = Request(c)
          PROVE  /\ r.no <= calls'[r.caller]
                 /\ r.cmd = command'[r.caller][r.no]
                 /\ r.cmd \in Mutations => r.try = 0
      <3>1. /\ r.caller = c /\ r.no = calls[c] /\ r.try = job[c].try /\ r.cmd = Command(c)
        BY <2>2 DEF Request
      <3>2. calls[c] # 0
        BY <1>0, <2>2 DEF Send, TypeInv, JobOK
      <3>3. UNCHANGED <<calls, command>>
        BY <2>2 DEF Send
      <3> QED BY <2>0, <3>1, <3>2, <3>3 DEF OnceInv, FirstTry, Command
    <2> QED BY <1>0, <1>2, <2>1, <2>2, KnownStep
  <1>3. ASSUME NEW c \in Callers, calls'[c] # 0, Command(c)' \in Mutations
        PROVE  job'[c].try = 0
    <2>1. CASE job'[c].try = 0
      BY <2>1
    <2>2. CASE calls'[c] = calls[c] /\ command'[c] = command[c]
      <3>1. job[c].try = 0 /\ Command(c) \in Mutations
        BY <1>3, <2>2 DEF OnceInv, FirstTry, Command
      <3>2. job'[c].try = job[c].try \/ job'[c].try = 0 \/ (ConnectionError(c) /\ MayRetry(c))
        <4>1. job \in [Callers -> [atEpoch : BOOLEAN, try : 0..MaxRetries]]
          BY <1>0 DEF TypeInv, TypeOK
        <4>2. ASSUME NEW d \in Callers, ConnectionError(d)
              PROVE  job'[c].try = job[c].try \/ (ConnectionError(c) /\ MayRetry(c))
          BY <4>1, <4>2 DEF ConnectionError
        <4>3. ASSUME NEW d \in Callers, NEW cmd \in Commands, NEW b \in BOOLEAN,
                     BeginCall(d, cmd, b)
              PROVE  job'[c].try = job[c].try \/ job'[c].try = 0
          BY <4>1, <4>3 DEF BeginCall
        <4>4. \/ UNCHANGED job
              \/ \E d \in Callers : ConnectionError(d)
              \/ \E d \in Callers, cmd \in Commands, b \in BOOLEAN : BeginCall(d, cmd, b)
          BY DEF Next, CallStep, Socket, Live, Snapshot, Enter, Connect, Send, TimeOut,
                 Receive, ConnectClient, CloseClient, Serve, Enqueue, Block,
                 RejectFrame, Answer, GiveUp, HangUp, Tick, Yield, Complete, TickEnds, Break,
                 Restart, vars, clientVars
        <4> QED BY <4>2, <4>3, <4>4
      <3> QED BY <3>1, <3>2 DEF MayRetry
    <2> QED BY <1>0, <2>1, <2>2, CallsStep
  <1> QED BY <1>1, <1>2, <1>3 DEF OnceInv, KnownOK, FirstTry

\* However connections break and deadlines expire, a mutation begins to run at most
\* once per call, if callers spell the names of mutations as the catalogue does.
THEOREM MutationsRunOnce == PlainNames => (Spec => []AtMostOnce)
  <1> SUFFICES ASSUME PlainNames PROVE Spec => []AtMostOnce
    OBVIOUS
  <1>1. OnceInv => AtMostOnce
    <2> SUFFICES ASSUME OnceInv, NEW r \in started, NEW s \in started,
                        r.caller = s.caller, r.no = s.no, Normal[r.cmd] \in Mutations
                 PROVE  r = s
      BY DEF AtMostOnce
    <2>1. r \in Requests /\ s \in Requests /\ Known(r) /\ Known(s)
      BY DEF OnceInv, TypeInv, TypeOK, Known
    <2>2. r.cmd = s.cmd
      BY <2>1 DEF OnceInv, KnownOK
    <2>3. r.cmd \in Mutations
      BY <2>1 DEF PlainNames, Requests
    <2>4. r.try = 0 /\ s.try = 0
      BY <2>1, <2>2, <2>3 DEF OnceInv, KnownOK
    <2> QED BY <2>1, <2>2, <2>4 DEF Requests
  <1> QED BY <1>1, OnceInit, OnceStep, PTL DEF Spec
------------------------------------------------------------------------------
(*************************** the steps of one caller **********************)
\* What one step does to one caller: nothing, or it begins, goes on with or ends its
\* call. Only a reply settles a call, only Enter refuses one.
Stays(c) ==
  /\ pc'[c] = pc[c] /\ result'[c] = result[c]
  /\ calls'[c] = calls[c] /\ command'[c] = command[c] /\ job'[c] = job[c]
Begins(c) ==
  /\ pc[c] = "idle" /\ pc'[c] = "enter"
  /\ calls'[c] = calls[c] + 1 /\ result'[c] = result[c]
GoesOn(c) ==
  /\ pc[c] # "idle" /\ pc'[c] \in {"loop", "await"}
  /\ calls'[c] = calls[c] /\ command'[c] = command[c] /\ result'[c] = result[c]
Ends(c, s) ==
  /\ pc[c] # "idle" /\ pc'[c] = "idle"
  /\ calls'[c] = calls[c] /\ command'[c] = command[c]
  /\ result'[c] = [result[c] EXCEPT ![calls[c]] = s]
  /\ s # "none"
  /\ s = "mismatch" <=> pc[c] = "enter"
  /\ s \in {"ok", "error"} => Receive(c) /\ s = Head(outbox[Mine(c)]).status

\* The whole step: one caller begins, goes on with or ends its call, or none does.
Ending(d, s) ==
  /\ Finish(d, s) /\ UNCHANGED <<calls, command, started>>
  /\ pc[d] # "idle" /\ s # "none"
  /\ s = "mismatch" <=> pc[d] = "enter"
  /\ s \in {"ok", "error"} => Receive(d) /\ s = Head(outbox[Mine(d)]).status
Going(d) ==
  /\ pc[d] # "idle" /\ \E p \in {"loop", "await"} : pc' = [pc EXCEPT ![d] = p]
  /\ \A c \in Callers : c # d => job'[c] = job[c]
  /\ UNCHANGED <<result, calls, command, started>>

LEMMA StepKinds ==
  ASSUME TypeInv, [Next]_vars
  PROVE  \/ \E d \in Callers, cmd \in Commands, b \in BOOLEAN : BeginCall(d, cmd, b)
         \/ \E d \in Callers, s \in Results : Ending(d, s) /\ UNCHANGED job
         \/ \E d \in Callers : Going(d)
         \/ UNCHANGED <<pc, result, calls, command, job>>
  <1>4. ASSUME NEW d \in Callers, Enter(d)
        PROVE  Going(d) \/ \E s \in Results : Ending(d, s) /\ UNCHANGED job
    <2>0. UNCHANGED <<calls, command, job, started>> /\ pc[d] = "enter"
      BY <1>4 DEF Enter, uiVars
    <2>1. CASE job[d].atEpoch /\ (Mine(d) = 0 \/ epoch[ClientOf[d]] # seen[d].epoch)
      <3>1. Finish(d, "mismatch") /\ "mismatch" \in Results
        BY <1>4, <2>1 DEF Enter, Results
      <3> QED BY <2>0, <3>1 DEF Ending
    <2>2. CASE ~(job[d].atEpoch /\ (Mine(d) = 0 \/ epoch[ClientOf[d]] # seen[d].epoch))
      <3>1. pc' = [pc EXCEPT ![d] = "loop"] /\ UNCHANGED result
        BY <1>4, <2>2 DEF Enter
      <3> QED BY <2>0, <3>1 DEF Going
    <2> QED BY <2>1, <2>2
  <1>5. ASSUME NEW d \in Callers, Send(d) PROVE Going(d)
    BY <1>5 DEF Send, Going, uiVars
  <1>6. ASSUME NEW d \in Callers, TimeOut(d)
        PROVE  \E s \in Results : Ending(d, s) /\ UNCHANGED job
    <2>1. PICK s \in {"ambiguous", "timeout"} : Finish(d, s)
      BY <1>6 DEF TimeOut
    <2>2. s \in Results /\ pc[d] \in {"loop", "await"} /\ UNCHANGED <<calls, command, job, started>>
      BY <1>6 DEF TimeOut, Results, uiVars
    <2> QED BY <2>1, <2>2 DEF Ending
  <1>7. ASSUME NEW d \in Callers, ConnectionError(d)
        PROVE  Going(d) \/ \E s \in Results : Ending(d, s) /\ UNCHANGED job
    <2>0. pc[d] \in {"loop", "await"} /\ UNCHANGED <<calls, command, started>>
      BY <1>7 DEF ConnectionError, uiVars
    <2>1. CASE MayRetry(d)
      <3>1. /\ pc' = [pc EXCEPT ![d] = "loop"] /\ UNCHANGED result
            /\ job' = [job EXCEPT ![d].try = @ + 1]
        BY <1>7, <2>1 DEF ConnectionError
      <3>2. \A c \in Callers : c # d => job'[c] = job[c]
        BY <3>1 DEF TypeInv, TypeOK
      <3> QED BY <2>0, <3>1, <3>2 DEF Going
    <2>2. CASE ~MayRetry(d)
      <3>1. PICK s \in {"ambiguous", "unavailable"} : Finish(d, s)
        BY <1>7, <2>2 DEF ConnectionError
      <3>2. s \in Results /\ UNCHANGED job
        BY <1>7, <2>2 DEF ConnectionError, Results
      <3> QED BY <2>0, <3>1, <3>2 DEF Ending
    <2> QED BY <2>1, <2>2
  <1>8. ASSUME NEW d \in Callers, Receive(d)
        PROVE  \E s \in Results : Ending(d, s) /\ UNCHANGED job
    <2> DEFINE s == Head(outbox[Mine(d)]).status
    <2>1. /\ pc[d] = "await" /\ Mine(d) \in Conns
          /\ outbox[Mine(d)] \in Seq(Replies) /\ outbox[Mine(d)] # <<>>
      BY <1>8, BridgeAssumption DEF Receive, TypeInv, TypeOK, JobOK, Mine, Conns
    <2>2. Head(outbox[Mine(d)]) \in Replies
      BY <2>1
    <2>3. s \in {"ok", "error", "TIMEOUT"}
      BY <2>2 DEF Replies
    <2>4. s \in Results /\ s # "none" /\ s # "mismatch"
      BY <2>3 DEF Results
    <2>5. Finish(d, s) /\ UNCHANGED <<calls, command, job, started>>
      BY <1>8 DEF Receive, uiVars
    <2> HIDE DEF s
    <2>6. s \in {"ok", "error"} => Receive(d) /\ s = Head(outbox[Mine(d)]).status
      BY <1>8 DEF s
    <2> QED BY <2>1, <2>4, <2>5, <2>6 DEF Ending
  <1>9. ASSUME NEW d \in Callers, Snapshot(d) \/ Connect(d) PROVE UNCHANGED <<pc, result, calls, command, job>>
    BY <1>9 DEF Snapshot, Connect
  <1>10. ASSUME NEW k \in Clients, ConnectClient(k) \/ CloseClient(k)
         PROVE  UNCHANGED <<pc, result, calls, command, job>>
    BY <1>10 DEF ConnectClient, CloseClient
  <1>11. ASSUME (\E i \in Conns : Socket(i) \/ Break(i)) \/ Live \/ Restart \/ UNCHANGED vars
         PROVE  UNCHANGED <<pc, result, calls, command, job>>
    BY <1>11 DEF Socket, Live, Serve, Enqueue, Block, RejectFrame, Answer, GiveUp, HangUp,
       Tick, Yield, Complete, TickEnds, Break, Restart, vars, clientVars
  <1> QED BY <1>4, <1>5, <1>6, <1>7, <1>8, <1>9, <1>10, <1>11 DEF Next, CallStep

LEMMA CallerStep ==
  ASSUME TypeInv, [Next]_vars, NEW c \in Callers
  PROVE  Stays(c) \/ Begins(c) \/ GoesOn(c) \/ \E s \in Results : Ends(c, s)
  <1>0. /\ pc \in [Callers -> {"idle", "enter", "loop", "await"}]
        /\ calls \in [Callers -> 0..MaxCalls]
        /\ command \in [Callers -> [1..MaxCalls -> Commands \cup {None}]]
        /\ job \in [Callers -> [atEpoch : BOOLEAN, try : 0..MaxRetries]]
        /\ result \in [Callers -> [1..MaxCalls -> Results]]
    BY DEF TypeInv, TypeOK
  <1>1. ASSUME UNCHANGED <<pc, result, calls, command, job>> PROVE Stays(c)
    BY <1>1 DEF Stays
  <1>2. ASSUME NEW d \in Callers, NEW cmd \in Commands, NEW b \in BOOLEAN, BeginCall(d, cmd, b)
        PROVE  Stays(c) \/ Begins(c)
    BY <1>0, <1>2 DEF BeginCall, Stays, Begins
  <1>3. ASSUME NEW d \in Callers, NEW s \in Results, Ending(d, s), UNCHANGED job
        PROVE  Stays(c) \/ Ends(c, s)
    BY <1>0, <1>3 DEF Ending, Finish, Stays, Ends
  <1>4. ASSUME NEW d \in Callers, Going(d) PROVE Stays(c) \/ GoesOn(c)
    BY <1>0, <1>4 DEF Going, Stays, GoesOn
  <1> QED BY <1>1, <1>2, <1>3, <1>4, StepKinds
------------------------------------------------------------------------------
(*************************** refused calls *********************************)
\* A call has no result before it returns.
ResultOK ==
  \A c \in Callers :
    /\ \A n \in 1..MaxCalls : n > calls[c] => result[c][n] = "none"
    /\ pc[c] # "idle" => result[c][calls[c]] = "none"

\* What was sent was sent by a call that is past the epoch test.
EnteredOK ==
  \A r \in Requests : Known(r) =>
    /\ result[r.caller][r.no] # "mismatch"
    /\ r.no = calls[r.caller] => pc[r.caller] # "enter"

RefusalInv == OnceInv /\ ResultOK /\ EnteredOK

LEMMA RefusalInit == Init => RefusalInv
  <1> SUFFICES ASSUME Init PROVE RefusalInv
    OBVIOUS
  <1>1. OnceInv
    BY OnceInit
  <1>2. \A r \in Requests : ~Known(r)
    BY NoneIsNew DEF Init, Known, InFlight
  <1>3. ResultOK
    BY DEF Init, ResultOK
  <1> QED BY <1>1, <1>2, <1>3 DEF RefusalInv, EnteredOK

\* A call in progress has a number among those it may have.
LEMMA CallNo ==
  ASSUME TypeInv, NEW c \in Callers
  PROVE  calls[c] \in 0..MaxCalls /\ (pc[c] # "idle" => calls[c] \in 1..MaxCalls)
         /\ result[c] \in [1..MaxCalls -> Results] /\ MaxCalls \in Nat
  BY BridgeAssumption DEF TypeInv, TypeOK, JobOK

LEMMA RefusalStep == RefusalInv /\ [Next]_vars => RefusalInv'
  <1> SUFFICES ASSUME RefusalInv, [Next]_vars PROVE RefusalInv'
    OBVIOUS
  <1>0. OnceInv /\ TypeInv /\ KnownOK
    BY DEF RefusalInv, OnceInv
  <1>1. OnceInv' /\ TypeInv'
    BY <1>0, OnceStep DEF OnceInv
  <1>2. ResultOK'
    <2> SUFFICES ASSUME NEW c \in Callers
                 PROVE  /\ \A n \in 1..MaxCalls : n > calls'[c] => result'[c][n] = "none"
                        /\ pc'[c] # "idle" => result'[c][calls'[c]] = "none"
      BY DEF ResultOK
    <2>1. /\ \A n \in 1..MaxCalls : n > calls[c] => result[c][n] = "none"
          /\ pc[c] # "idle" => result[c][calls[c]] = "none"
      BY DEF RefusalInv, ResultOK
    <2>2. /\ calls[c] \in 0..MaxCalls /\ (pc[c] # "idle" => calls[c] \in 1..MaxCalls)
          /\ result[c] \in [1..MaxCalls -> Results] /\ MaxCalls \in Nat
      BY <1>0, CallNo
    <2>3. calls'[c] \in 0..MaxCalls /\ (pc'[c] # "idle" => calls'[c] \in 1..MaxCalls)
      BY <1>1 DEF TypeInv, TypeOK, JobOK
    <2>4. CASE Stays(c)
      BY <2>1, <2>4 DEF Stays
    <2>5. CASE Begins(c)
      BY <2>1, <2>2, <2>3, <2>5 DEF Begins
    <2>6. CASE GoesOn(c)
      BY <2>1, <2>6 DEF GoesOn
    <2>7. ASSUME NEW s \in Results, Ends(c, s)
          PROVE  /\ \A n \in 1..MaxCalls : n > calls'[c] => result'[c][n] = "none"
                 /\ pc'[c] # "idle" => result'[c][calls'[c]] = "none"
      BY <2>1, <2>2, <2>7 DEF Ends
    <2> QED BY <1>0, <2>4, <2>5, <2>6, <2>7, CallerStep
  <1>3. EnteredOK'
    <2> SUFFICES ASSUME NEW r \in Requests, Known(r)'
                 PROVE  /\ result'[r.caller][r.no] # "mismatch"
                        /\ r.no = calls'[r.caller] => pc'[r.caller] # "enter"
      BY DEF EnteredOK
    <2> DEFINE c == r.caller
    <2>1. c \in Callers /\ r.no \in 1..MaxCalls
      BY DEF Requests
    <2>2. /\ calls[c] \in 0..MaxCalls /\ (pc[c] # "idle" => calls[c] \in 1..MaxCalls)
          /\ result[c] \in [1..MaxCalls -> Results] /\ MaxCalls \in Nat
      BY <1>0, <2>1, CallNo
    <2>3. CASE Known(r)
      <3>1. /\ r.no <= calls[c] /\ result[c][r.no] # "mismatch"
            /\ r.no = calls[c] => pc[c] # "enter"
        BY <1>0, <2>3 DEF KnownOK, RefusalInv, EnteredOK
      <3> HIDE DEF c
      <3>2. CASE Stays(c)
        BY <3>1, <3>2 DEF Stays, c
      <3>3. CASE Begins(c)
        BY <2>1, <2>2, <3>1, <3>3 DEF Begins, c
      <3>4. CASE GoesOn(c)
        BY <3>1, <3>4 DEF GoesOn, c
      <3>5. ASSUME NEW s \in Results, Ends(c, s)
            PROVE  result'[c][r.no] # "mismatch" /\ pc'[c] # "enter"
        BY <2>1, <2>2, <3>1, <3>5 DEF Ends
      <3> QED BY <1>0, <2>1, <3>2, <3>3, <3>4, <3>5, CallerStep DEF c
    <2>4. ASSUME NEW d \in Callers, Send(d), r = Request(d)
          PROVE  /\ result'[c][r.no] # "mismatch"
                 /\ r.no = calls'[c] => pc'[c] # "enter"
      <3>1. c = d /\ r.no = calls[d] /\ pc[d] = "loop"
        BY <2>4 DEF Request, Send
      <3>2. result[d][calls[d]] = "none"
        BY <3>1 DEF RefusalInv, ResultOK
      <3>3. result' = result /\ pc' = [pc EXCEPT ![d] = "await"]
        BY <2>4 DEF Send
      <3>4. pc'[d] = "await"
        BY <1>0, <3>3 DEF TypeInv, TypeOK
      <3> QED BY <3>1, <3>2, <3>3, <3>4
    <2> QED BY <1>0, <2>3, <2>4, KnownStep
  <1> QED BY <1>1, <1>2, <1>3 DEF RefusalInv
------------------------------------------------------------------------------
(*************************** epochs ****************************************)
\* A caller's snapshot is of the past, and while the epoch is still its own so is the
\* connection.
SnapOK ==
  \A c \in Callers :
    /\ seen[c].epoch <= epoch[ClientOf[c]]
    /\ seen[c].epoch = epoch[ClientOf[c]] => Mine(c) = seen[c].conn

\* A bound call that is past the epoch test has the connection of its snapshot.
BoundOK ==
  \A c \in Callers : pc[c] \in {"loop", "await"} /\ job[c].atEpoch =>
    Mine(c) # 0 /\ Mine(c) = seen[c].conn

\* What it sent lies nowhere else.
Holds(i, r) == \E j \in DOMAIN inbox[i] : inbox[i][j] = r
FramesOK ==
  \A c \in Callers : pc[c] # "idle" /\ job[c].atEpoch =>
    \A i \in Conns : Holds(i, Request(c)) => i = seen[c].conn

EpochInv == OnceInv /\ SnapOK /\ BoundOK /\ FramesOK

\* The epoch of a client counts every change of its connection, and only the caller that
\* holds its lock changes it: before it is connected, to retry a call that is not bound,
\* or as its call ends.
LEMMA EpochStep ==
  ASSUME TypeInv, [Next]_vars, NEW k \in Clients
  PROVE  \/ conn'[k] = conn[k] /\ epoch'[k] = epoch[k]
         \/ /\ epoch'[k] = epoch[k] + 1
            /\ \/ owner[k] = None
               \/ \E c \in Callers : /\ owner[k] = c
                                     /\ pc'[c] = "idle" \/ ~job[c].atEpoch \/ Mine(c) = 0
  <1>0. /\ conn \in [Clients -> 0..MaxConns] /\ epoch \in [Clients -> Nat]
        /\ pc \in [Callers -> {"idle", "enter", "loop", "await"}]
        /\ ClientOf \in [Callers -> Clients]
    BY BridgeAssumption DEF TypeInv, TypeOK
  <1>1. ASSUME NEW l \in Clients, CloseLocked(l)
        PROVE  \/ conn'[k] = conn[k] /\ epoch'[k] = epoch[k]
               \/ k = l /\ epoch'[k] = epoch[k] + 1
    BY <1>0, <1>1 DEF CloseLocked
  <1>2. ASSUME NEW l \in Clients, NewConnection(l)
        PROVE  \/ conn'[k] = conn[k] /\ epoch'[k] = epoch[k]
               \/ k = l /\ epoch'[k] = epoch[k] + 1
    BY <1>0, <1>2 DEF NewConnection
  <1>3. ASSUME NEW c \in Callers, pc[c] \in {"loop", "await"} PROVE owner[ClientOf[c]] = c
    BY <1>3 DEF TypeInv, LockOK
  <1>4. ASSUME NEW c \in Callers, Connect(c)
        PROVE  \/ conn'[k] = conn[k] /\ epoch'[k] = epoch[k]
               \/ epoch'[k] = epoch[k] + 1 /\ owner[k] = c /\ Mine(c) = 0
    BY <1>0, <1>2, <1>3, <1>4 DEF Connect
  <1>5. ASSUME NEW c \in Callers, TimeOut(c)
        PROVE  \/ conn'[k] = conn[k] /\ epoch'[k] = epoch[k]
               \/ epoch'[k] = epoch[k] + 1 /\ owner[k] = c /\ pc'[c] = "idle"
    <2>1. pc[c] \in {"loop", "await"} /\ pc'[c] = "idle"
      BY <1>0, <1>5 DEF TimeOut, Finish
    <2> QED BY <1>0, <1>1, <1>3, <1>5, <2>1 DEF TimeOut
  <1>6. ASSUME NEW c \in Callers, ConnectionError(c)
        PROVE  \/ conn'[k] = conn[k] /\ epoch'[k] = epoch[k]
               \/ /\ epoch'[k] = epoch[k] + 1 /\ owner[k] = c
                  /\ pc'[c] = "idle" \/ ~job[c].atEpoch
    <2>1. pc[c] \in {"loop", "await"}
      BY <1>6 DEF ConnectionError
    <2>2. pc'[c] = "idle" \/ ~job[c].atEpoch
      BY <1>0, <1>6 DEF ConnectionError, Finish, MayRetry
    <2> QED BY <1>0, <1>1, <1>3, <1>6, <2>1, <2>2 DEF ConnectionError
  <1>7. ASSUME NEW l \in Clients, ConnectClient(l) \/ CloseClient(l)
        PROVE  \/ conn'[k] = conn[k] /\ epoch'[k] = epoch[k]
               \/ epoch'[k] = epoch[k] + 1 /\ owner[k] = None
    BY <1>1, <1>2, <1>7 DEF ConnectClient, CloseClient
  <1>8. \/ UNCHANGED <<conn, epoch>>
        \/ \E c \in Callers : Connect(c) \/ TimeOut(c) \/ ConnectionError(c)
        \/ \E l \in Clients : ConnectClient(l) \/ CloseClient(l)
    BY DEF Next, CallStep, Socket, Live, Snapshot, BeginCall, Enter, Send, Receive, Serve,
           Enqueue, Block, RejectFrame, Answer, GiveUp, HangUp, Tick, Yield, Complete,
           TickEnds, Break, Restart, vars, clientVars
  <1> QED BY <1>4, <1>5, <1>6, <1>7, <1>8

\* Only Enter takes a caller past the epoch test.
LEMMA EnterStep ==
  ASSUME TypeInv, [Next]_vars, NEW c \in Callers, pc'[c] \in {"loop", "await"}
  PROVE  pc[c] \in {"loop", "await"} \/ Enter(c)
  <1>0. pc \in [Callers -> {"idle", "enter", "loop", "await"}]
    BY DEF TypeInv, TypeOK
  <1>1. ASSUME NEW d \in Callers, NEW p \in {"idle", "enter"}, pc' = [pc EXCEPT ![d] = p]
        PROVE  pc[c] \in {"loop", "await"}
    BY <1>0, <1>1
  <1>2. ASSUME NEW d \in Callers, pc[d] \in {"loop", "await"}, NEW p, pc' = [pc EXCEPT ![d] = p]
        PROVE  pc[c] \in {"loop", "await"}
    BY <1>0, <1>2
  <1>3. ASSUME NEW d \in Callers, Enter(d) PROVE pc[c] \in {"loop", "await"} \/ d = c
    BY <1>0, <1>3 DEF Enter, Finish
  <1>4. \/ UNCHANGED pc
        \/ \E d \in Callers : Enter(d)
        \/ \E d \in Callers, p \in {"idle", "enter"} : pc' = [pc EXCEPT ![d] = p]
        \/ \E d \in Callers, p \in {"loop", "await"} :
             pc[d] \in {"loop", "await"} /\ pc' = [pc EXCEPT ![d] = p]
    <2>1. ASSUME NEW d \in Callers, NEW cmd \in Commands, NEW b \in BOOLEAN, BeginCall(d, cmd, b)
          PROVE  pc' = [pc EXCEPT ![d] = "enter"]
      BY <2>1 DEF BeginCall
    <2>2. ASSUME NEW d \in Callers, TimeOut(d) \/ Receive(d)
          PROVE  pc' = [pc EXCEPT ![d] = "idle"]
      BY <2>2 DEF TimeOut, Receive, Finish
    <2>3. ASSUME NEW d \in Callers, ConnectionError(d)
          PROVE  \/ pc' = [pc EXCEPT ![d] = "idle"]
                 \/ pc[d] \in {"loop", "await"} /\ pc' = [pc EXCEPT ![d] = "loop"]
      BY <2>3 DEF ConnectionError, Finish
    <2>4. ASSUME NEW d \in Callers, Send(d)
          PROVE  pc[d] \in {"loop", "await"} /\ pc' = [pc EXCEPT ![d] = "await"]
      BY <2>4 DEF Send
    <2>5. \/ UNCHANGED pc
          \/ \E d \in Callers : Enter(d) \/ Send(d) \/ TimeOut(d) \/ ConnectionError(d) \/ Receive(d)
          \/ \E d \in Callers, cmd \in Commands, b \in BOOLEAN : BeginCall(d, cmd, b)
      BY DEF Next, CallStep, Socket, Live, Snapshot, Connect, ConnectClient, CloseClient, Serve,
             Enqueue, Block, RejectFrame, Answer, GiveUp, HangUp, Tick, Yield, Complete,
             TickEnds, Break, Restart, vars, clientVars
    <2> QED BY <2>1, <2>2, <2>3, <2>4, <2>5
  <1> QED BY <1>1, <1>2, <1>3, <1>4

\* While a bound call is in progress, neither it nor its caller's snapshot changes.
LEMMA BoundStep ==
  ASSUME TypeInv, [Next]_vars, NEW c \in Callers, pc'[c] # "idle", job'[c].atEpoch
  PROVE  \/ Begins(c)
         \/ /\ pc[c] # "idle" /\ job'[c] = job[c] /\ seen'[c] = seen[c]
            /\ calls'[c] = calls[c] /\ command'[c] = command[c]
  <1>0. /\ job \in [Callers -> [atEpoch : BOOLEAN, try : 0..MaxRetries]]
        /\ seen \in [Callers -> [epoch : Nat, conn : 0..MaxConns]]
    BY DEF TypeInv, TypeOK
  <1>1. ASSUME pc[c] # "idle" PROVE seen'[c] = seen[c]
    <2>1. ASSUME NEW d \in Callers, Snapshot(d) PROVE seen'[c] = seen[c]
      BY <1>0, <1>1, <2>1 DEF Snapshot
    <2>2. UNCHANGED seen \/ \E d \in Callers : Snapshot(d)
      BY DEF Next, CallStep, Socket, Live, BeginCall, Enter, Connect, Send, TimeOut,
             ConnectionError, Receive, ConnectClient, CloseClient, Serve, Enqueue, Block,
             RejectFrame, Answer, GiveUp, HangUp, Tick, Yield, Complete, TickEnds, Break,
             Restart, vars, clientVars
    <2> QED BY <2>1, <2>2
  <1>2. ASSUME GoesOn(c) PROVE job'[c] = job[c]
    <2>1. ASSUME NEW d \in Callers, ConnectionError(d) PROVE job'[c] = job[c]
      <3>1. CASE MayRetry(d)
        <4>1. job' = [job EXCEPT ![d].try = @ + 1] /\ ~job[d].atEpoch
          BY <2>1, <3>1 DEF ConnectionError, MayRetry
        <4>2. job'[d].atEpoch = job[d].atEpoch /\ (d # c => job'[c] = job[c])
          BY <1>0, <4>1
        <4> QED BY <4>1, <4>2
      <3>2. CASE ~MayRetry(d)
        BY <2>1, <3>2 DEF ConnectionError
      <3> QED BY <3>1, <3>2
    <2>2. ASSUME NEW d \in Callers, NEW cmd \in Commands, NEW b \in BOOLEAN, BeginCall(d, cmd, b)
          PROVE  job'[c] = job[c]
      BY <1>0, <1>2, <2>2 DEF BeginCall, GoesOn
    <2>3. \/ UNCHANGED job
          \/ \E d \in Callers : ConnectionError(d)
          \/ \E d \in Callers, cmd \in Commands, b \in BOOLEAN : BeginCall(d, cmd, b)
      BY DEF Next, CallStep, Socket, Live, Snapshot, Enter, Connect, Send, TimeOut,
             Receive, ConnectClient, CloseClient, Serve, Enqueue, Block,
             RejectFrame, Answer, GiveUp, HangUp, Tick, Yield, Complete, TickEnds, Break,
             Restart, vars, clientVars
    <2> QED BY <2>1, <2>2, <2>3
  <1>3. ASSUME NEW s \in Results, Ends(c, s) PROVE FALSE
    BY <1>3 DEF Ends
  <1> QED BY <1>1, <1>2, <1>3, CallerStep DEF Stays, GoesOn

\* Only Send puts a frame on a connection, the one its client has.
LEMMA FrameStep ==
  ASSUME TypeInv, [Next]_vars, NEW i \in Conns, NEW r \in Requests, Holds(i, r)'
  PROVE  Holds(i, r) \/ \E c \in Callers : Send(c) /\ r = Request(c) /\ i = Mine(c)
  <1>0. inbox \in [Conns -> Seq(Requests)]
    BY DEF TypeInv, TypeOK
  <1>1. CASE inbox'[i] = inbox[i]
    BY <1>1 DEF Holds
  <1>2. CASE inbox'[i] = <<>>
    BY <1>2 DEF Holds
  <1>3. CASE inbox[i] # <<>> /\ inbox'[i] = Tail(inbox[i])
    <2>1. PICK j \in DOMAIN inbox'[i] : inbox'[i][j] = r
      BY DEF Holds
    <2>2. j + 1 \in DOMAIN inbox[i] /\ inbox[i][j + 1] = r
      BY <1>0, <1>3, <2>1
    <2> QED BY <2>2 DEF Holds
  <1>4. ASSUME NEW c \in Callers, Send(c), inbox'[i] # inbox[i]
        PROVE  Holds(i, r) \/ (r = Request(c) /\ i = Mine(c))
    <2>1. Request(c) \in Requests
      BY <1>4, RequestType DEF Send
    <2>2. i = Mine(c) /\ inbox'[i] = Append(inbox[i], Request(c))
      BY <1>0, <1>4 DEF Send
    <2>3. PICK j \in DOMAIN inbox'[i] : inbox'[i][j] = r
      BY DEF Holds
    <2>4. (j \in DOMAIN inbox[i] /\ inbox[i][j] = r) \/ r = Request(c)
      BY <1>0, <2>1, <2>2, <2>3
    <2> QED BY <2>2, <2>4 DEF Holds
  <1>5. ASSUME NEW k \in Conns, Socket(k) \/ Break(k)
        PROVE  \/ inbox'[i] = inbox[i] \/ inbox'[i] = <<>>
               \/ inbox[i] # <<>> /\ inbox'[i] = Tail(inbox[i])
    BY <1>0, <1>5 DEF Socket, Break, Serve, Enqueue, Block, RejectFrame, Answer, GiveUp, HangUp, Reset
  <1>6. CASE Restart
    BY <1>2, <1>6 DEF Restart
  <1>7. \/ UNCHANGED inbox
        \/ \E c \in Callers : Send(c)
        \/ \E k \in Conns : Socket(k) \/ Break(k)
        \/ Restart
    BY DEF Next, CallStep, Live, Snapshot, BeginCall, Enter, Connect, TimeOut, ConnectionError,
           Receive, ConnectClient, CloseClient, Tick, Yield, Complete, TickEnds, vars
  <1> QED BY <1>1, <1>2, <1>3, <1>4, <1>5, <1>6, <1>7

LEMMA EpochInit == Init => EpochInv
  <1> SUFFICES ASSUME Init PROVE EpochInv
    OBVIOUS
  <1>1. OnceInv
    BY OnceInit
  <1>2. SnapOK
    BY BridgeAssumption DEF Init, SnapOK, Mine
  <1>3. BoundOK /\ FramesOK
    BY DEF Init, BoundOK, FramesOK
  <1> QED BY <1>1, <1>2, <1>3 DEF EpochInv

LEMMA EpochInvStep == EpochInv /\ [Next]_vars => EpochInv'
  <1> SUFFICES ASSUME EpochInv, [Next]_vars PROVE EpochInv'
    OBVIOUS
  <1>0. /\ OnceInv /\ TypeInv /\ KnownOK /\ ClientOf \in [Callers -> Clients]
        /\ epoch \in [Clients -> Nat] /\ seen \in [Callers -> [epoch : Nat, conn : 0..MaxConns]]
    BY BridgeAssumption DEF EpochInv, OnceInv, TypeInv, TypeOK
  <1>1. OnceInv' /\ TypeInv'
    BY <1>0, OnceStep DEF OnceInv
  <1>2. SnapOK'
    <2> SUFFICES ASSUME NEW c \in Callers
                 PROVE  /\ seen'[c].epoch <= epoch'[ClientOf[c]]
                        /\ seen'[c].epoch = epoch'[ClientOf[c]] => conn'[ClientOf[c]] = seen'[c].conn
      BY DEF SnapOK, Mine
    <2>1. /\ ClientOf[c] \in Clients /\ seen[c].epoch \in Nat /\ epoch[ClientOf[c]] \in Nat
          /\ seen[c].epoch <= epoch[ClientOf[c]]
          /\ seen[c].epoch = epoch[ClientOf[c]] => conn[ClientOf[c]] = seen[c].conn
      BY <1>0 DEF EpochInv, SnapOK, Mine
    <2>2. CASE Snapshot(c)
      <3>1. seen'[c] = [epoch |-> epoch[ClientOf[c]], conn |-> Mine(c)] /\ UNCHANGED <<epoch, conn>>
        BY <1>0, <2>2 DEF Snapshot
      <3> QED BY <2>1, <3>1 DEF Mine
    <2>3. CASE seen'[c] = seen[c]
      <3>1. CASE conn'[ClientOf[c]] = conn[ClientOf[c]] /\ epoch'[ClientOf[c]] = epoch[ClientOf[c]]
        BY <2>1, <2>3, <3>1
      <3>2. CASE epoch'[ClientOf[c]] = epoch[ClientOf[c]] + 1
        <4>1. /\ seen[c].epoch <= epoch[ClientOf[c]] + 1
              /\ seen[c].epoch # epoch[ClientOf[c]] + 1
          BY <2>1
        <4> QED BY <2>3, <3>2, <4>1
      <3> QED BY <1>0, <2>1, <3>1, <3>2, EpochStep
    <2>4. Snapshot(c) \/ seen'[c] = seen[c]
      <3>1. ASSUME NEW d \in Callers, Snapshot(d), d # c PROVE seen'[c] = seen[c]
        BY <1>0, <3>1 DEF Snapshot
      <3>2. UNCHANGED seen \/ \E d \in Callers : Snapshot(d)
        BY DEF Next, CallStep, Socket, Live, BeginCall, Enter, Connect, Send, TimeOut,
               ConnectionError, Receive, ConnectClient, CloseClient, Serve, Enqueue, Block,
               RejectFrame, Answer, GiveUp, HangUp, Tick, Yield, Complete, TickEnds, Break,
               Restart, vars, clientVars
      <3> QED BY <3>1, <3>2
    <2> QED BY <2>2, <2>3, <2>4
  <1>3. BoundOK'
    <2> SUFFICES ASSUME NEW c \in Callers, pc'[c] \in {"loop", "await"}, job'[c].atEpoch
                 PROVE  conn'[ClientOf[c]] # 0 /\ conn'[ClientOf[c]] = seen'[c].conn
      BY DEF BoundOK, Mine
    <2>0. ClientOf[c] \in Clients /\ c # None
      BY <1>0, NoneIsNew
    <2>1. pc[c] # "idle" /\ job'[c] = job[c] /\ seen'[c] = seen[c] /\ job[c].atEpoch
      <3>1. ~Begins(c)
        BY DEF Begins
      <3>2. pc'[c] # "idle"
        OBVIOUS
      <3> QED BY <1>0, <3>1, <3>2, BoundStep
    <2>2. CASE Enter(c)
      <3>1. Mine(c) # 0 /\ epoch[ClientOf[c]] = seen[c].epoch /\ UNCHANGED conn
        <4>1. pc \in [Callers -> {"idle", "enter", "loop", "await"}]
          BY <1>0 DEF TypeInv, TypeOK
        <4>2. ~Finish(c, "mismatch")
          BY <4>1 DEF Finish
        <4> QED BY <2>1, <2>2, <4>2 DEF Enter
      <3> QED BY <2>1, <3>1 DEF EpochInv, SnapOK, Mine
    <2>3. CASE pc[c] \in {"loop", "await"}
      <3>1. conn[ClientOf[c]] # 0 /\ conn[ClientOf[c]] = seen[c].conn
        BY <2>1, <2>3 DEF EpochInv, BoundOK, Mine
      <3>2. owner[ClientOf[c]] = c
        BY <1>0, <2>3 DEF TypeInv, LockOK
      <3>3. conn'[ClientOf[c]] = conn[ClientOf[c]]
        BY <1>0, <2>0, <2>1, <3>1, <3>2, EpochStep DEF Mine
      <3> QED BY <2>1, <3>1, <3>3
    <2> QED BY <1>0, <2>2, <2>3, EnterStep
  <1>4. FramesOK'
    <2> SUFFICES ASSUME NEW c \in Callers, pc'[c] # "idle", job'[c].atEpoch,
                        NEW i \in Conns, NEW j \in DOMAIN inbox'[i],
                        inbox'[i][j] = Request(c)'
                 PROVE  i = seen'[c].conn
      BY DEF FramesOK, Holds
    <2>0. inbox'[i][j] \in Requests
      BY <1>1 DEF TypeInv, TypeOK
    <2>1. CASE Begins(c)
      <3>1. Request(c)'.caller = c /\ Request(c)'.no = calls[c] + 1
        BY <2>1 DEF Request, Begins
      <3>2. PICK r \in Requests : r = Request(c)'
        BY <2>0
      <3>3. calls[c] \in Nat
        BY <1>0, BridgeAssumption DEF TypeInv, TypeOK
      <3>4. ~Holds(i, r)
        <4>1. SUFFICES ASSUME Holds(i, r) PROVE FALSE
          OBVIOUS
        <4>2. Known(r)
          BY <4>1 DEF Holds, Known, InFlight
        <4>3. r.no <= calls[c]
          BY <1>0, <3>1, <3>2, <4>2 DEF KnownOK
        <4> QED BY <3>1, <3>2, <3>3, <4>3
      <3>5. ASSUME NEW d \in Callers, Send(d), r = Request(d) PROVE FALSE
        <4>1. d = c /\ pc[c] = "loop"
          BY <3>1, <3>2, <3>5 DEF Request, Send
        <4> QED BY <2>1, <4>1 DEF Begins
      <3>6. Holds(i, r)'
        BY <3>2 DEF Holds
      <3> QED BY <1>0, <3>4, <3>5, <3>6, FrameStep
    <2>2. CASE /\ pc[c] # "idle" /\ job'[c] = job[c] /\ seen'[c] = seen[c]
               /\ calls'[c] = calls[c] /\ command'[c] = command[c]
      <3>1. Request(c)' = Request(c)
        BY <2>2 DEF Request, Command
      <3>2. PICK r \in Requests : r = Request(c)
        BY <2>0, <3>1
      <3>3. Holds(i, r)'
        BY <3>1, <3>2 DEF Holds
      <3>4. CASE Holds(i, r)
        BY <2>2, <3>2, <3>4 DEF EpochInv, FramesOK
      <3>5. ASSUME NEW d \in Callers, Send(d), r = Request(d), i = Mine(d)
            PROVE  i = seen'[c].conn
        <4>1. d = c
          BY <3>2, <3>5 DEF Request
        <4>2. pc[c] \in {"loop", "await"} /\ job[c].atEpoch
          BY <2>2, <3>5, <4>1 DEF Send
        <4> QED BY <2>2, <3>5, <4>1, <4>2 DEF EpochInv, BoundOK
      <3> QED BY <1>0, <3>3, <3>4, <3>5, FrameStep
    <2> QED BY <1>0, <2>1, <2>2, BoundStep
  <1> QED BY <1>1, <1>2, <1>3, <1>4 DEF EpochInv

\* Whatever threads open, close or lose connections in between, and whatever is retried:
\* an epoch stands for one connection of its client, and a frame bound to the epoch of a
\* snapshot lies on the connection of that snapshot and on no other.
THEOREM EpochsNameConnections == Spec => []EpochNamesConnection
  <1>1. EpochInv => EpochNamesConnection
    BY DEF EpochInv, SnapOK, FramesOK, Holds, EpochNamesConnection
  <1> QED BY <1>1, EpochInit, EpochInvStep, PTL DEF Spec
------------------------------------------------------------------------------
(*************************** answers are own *******************************)
\* A connection carries nothing, or one request of the caller that awaits its reply:
\* as a frame, with the socket thread, or as a reply.
Empty(i) == inbox[i] = <<>> /\ hpc[i] # "wait" /\ outbox[i] = <<>>
Carrying(i, r) ==
  \/ Empty(i)
  \/ inbox[i] = <<r>> /\ hpc[i] # "wait" /\ outbox[i] = <<>>
  \/ inbox[i] = <<>> /\ hpc[i] = "wait" /\ hreq[i] = r /\ outbox[i] = <<>>
  \/ inbox[i] = <<>> /\ hpc[i] # "wait"
     /\ \E s \in {"ok", "error", "TIMEOUT"} : outbox[i] = <<[req |-> r, status |-> s]>>

\* A connection belongs to one client, and is unused before it is made.
ConnsOK ==
  /\ \A k \in Clients : conn[k] <= made
  /\ \A k, l \in Clients : conn[k] = conn[l] /\ conn[k] # 0 => k = l
  /\ \A i \in Conns : i > made => Empty(i)

Awaits(c, k) == ClientOf[c] = k /\ pc[c] = "await"
LaneOf(k) == \/ conn[k] = 0 \/ Empty(conn[k])
             \/ \E c \in Callers : Awaits(c, k) /\ Carrying(conn[k], Request(c))
LanesOK == \A k \in Clients : LaneOf(k)

LaneInv == TypeInv /\ ConnsOK /\ LanesOK

LEMMA LaneInit == Init => LaneInv
  <1> SUFFICES ASSUME Init PROVE LaneInv
    OBVIOUS
  <1>1. TypeInv
    BY TypeInit
  <1>2. \A i \in Conns : Empty(i)
    BY DEF Init, Empty
  <1> QED BY <1>1, <1>2 DEF Init, LaneInv, ConnsOK, LanesOK, LaneOf

\* Whatever a socket thread, a reset or Live does, what a connection carries stays
\* the business of the caller it was sent by.
KeepsLane(i) == (Empty(i) => Empty(i)') /\ \A r \in Requests : Carrying(i, r) => Carrying(i, r)'

LEMMA SameLane ==
  ASSUME NEW i \in Conns, inbox'[i] = inbox[i], outbox'[i] = outbox[i], hpc'[i] = hpc[i],
         hreq'[i] = hreq[i]
  PROVE  KeepsLane(i)
  BY DEF KeepsLane, Empty, Carrying

LEMMA SocketLane ==
  ASSUME TypeInv, NEW i \in Conns, Socket(i) \/ Break(i), NEW j \in Conns
  PROVE  KeepsLane(j)
  <1>0. /\ inbox \in [Conns -> Seq(Requests)] /\ outbox \in [Conns -> Seq(Replies)]
        /\ hpc \in [Conns -> {"none", "recv", "wait", "done"}]
        /\ hreq \in [Conns -> Requests \cup {None}] /\ up \in [Conns -> BOOLEAN]
        /\ hpc[i] = "wait" => hreq[i] # None
    BY DEF TypeInv, TypeOK, ServerOK
  <1>1. CASE j # i
    <2>1. inbox'[j] = inbox[j] /\ outbox'[j] = outbox[j] /\ hpc'[j] = hpc[j] /\ hreq'[j] = hreq[j]
      BY <1>0, <1>1 DEF Socket, Serve, Enqueue, Block, RejectFrame, Answer, GiveUp, HangUp, Break,
         Replied, Reply, Reset, clientVars, serverVars
    <2> QED BY <2>1, SameLane
  <1>2. CASE j = i
    <2>1. CASE Serve(i)
      BY <1>0, <1>2, <2>1 DEF Serve, KeepsLane, Empty, Carrying
    <2>2. CASE Enqueue(i)
      <3>1. /\ hpc[i] = "recv" /\ inbox[i] # <<>> /\ hpc'[i] = "wait"
            /\ hreq'[i] = Head(inbox[i]) /\ inbox'[i] = Tail(inbox[i]) /\ outbox' = outbox
        BY <1>0, <2>2 DEF Enqueue
      <3>2. ASSUME NEW r \in Requests, Carrying(i, r) PROVE Carrying(i, r)'
        <4>1. inbox[i] = <<r>> /\ outbox[i] = <<>>
          BY <3>1, <3>2 DEF Carrying, Empty
        <4>2. Tail(<<r>>) = <<>> /\ Head(<<r>>) = r
          OBVIOUS
        <4>3. inbox'[i] = <<>> /\ hreq'[i] = r
          BY <3>1, <4>1, <4>2
        <4> QED BY <3>1, <4>1, <4>3 DEF Carrying
      <3>3. ~Empty(i)
        BY <3>1 DEF Empty
      <3> QED BY <1>2, <3>2, <3>3 DEF KeepsLane
    <2>3. CASE Block(i)
      <3>1. /\ hpc[i] = "recv" /\ inbox[i] # <<>> /\ hpc' = hpc /\ inbox'[i] = Tail(inbox[i])
            /\ \/ outbox'[i] = outbox[i]
               \/ outbox'[i] = Append(outbox[i], [req |-> Head(inbox[i]), status |-> "error"])
        BY <1>0, <2>3 DEF Block, Reply, serverVars
      <3>2. ASSUME NEW r \in Requests, Carrying(i, r) PROVE Carrying(i, r)'
        <4>1. inbox[i] = <<r>> /\ outbox[i] = <<>>
          BY <3>1, <3>2 DEF Carrying, Empty
        <4>2. /\ Tail(<<r>>) = <<>> /\ Head(<<r>>) = r
              /\ Append(<<>>, [req |-> r, status |-> "error"]) = <<[req |-> r, status |-> "error"]>>
          OBVIOUS
        <4>3. inbox'[i] = <<>> /\ hpc'[i] # "wait"
          BY <3>1, <4>1, <4>2
        <4>4. outbox'[i] = <<>> \/ outbox'[i] = <<[req |-> r, status |-> "error"]>>
          BY <3>1, <4>1, <4>2
        <4> QED BY <4>3, <4>4 DEF Carrying, Empty
      <3>3. ~Empty(i)
        BY <3>1 DEF Empty
      <3> QED BY <1>2, <3>2, <3>3 DEF KeepsLane
    <2>4. CASE RejectFrame(i)
      <3>1. /\ hpc[i] = "recv" /\ inbox[i] # <<>> /\ hpc'[i] = "done" /\ inbox'[i] = <<>>
            /\ \/ outbox'[i] = outbox[i]
               \/ outbox'[i] = Append(outbox[i], [req |-> Head(inbox[i]), status |-> "error"])
        BY <1>0, <2>4 DEF RejectFrame, Reply, Reset
      <3>2. ASSUME NEW r \in Requests, Carrying(i, r) PROVE Carrying(i, r)'
        <4>1. inbox[i] = <<r>> /\ outbox[i] = <<>>
          BY <3>1, <3>2 DEF Carrying, Empty
        <4>2. /\ Tail(<<r>>) = <<>> /\ Head(<<r>>) = r
              /\ Append(<<>>, [req |-> r, status |-> "error"]) = <<[req |-> r, status |-> "error"]>>
          OBVIOUS
        <4>3. inbox'[i] = <<>> /\ hpc'[i] # "wait"
          BY <3>1, <4>1, <4>2
        <4>4. outbox'[i] = <<>> \/ outbox'[i] = <<[req |-> r, status |-> "error"]>>
          BY <3>1, <4>1, <4>2
        <4> QED BY <4>3, <4>4 DEF Carrying, Empty
      <3>3. ~Empty(i)
        BY <3>1 DEF Empty
      <3> QED BY <1>2, <3>2, <3>3 DEF KeepsLane
    <2>5. CASE Answer(i) \/ GiveUp(i)
      <3>1. PICK s \in {"ok", "error", "TIMEOUT"} : Replied(i, s)
        BY <2>5 DEF Answer, GiveUp, TypeInv, TypeOK, Replies
      <3>2. hpc[i] = "wait" /\ inbox' = inbox
        BY <2>5 DEF Answer, GiveUp
      <3>3. /\ hpc'[i] \in {"recv", "done"}
            /\ outbox'[i] = outbox[i] \/ outbox'[i] = Append(outbox[i], [req |-> hreq[i], status |-> s])
        BY <1>0, <3>1 DEF Replied, Reply
      <3> QED BY <1>2, <3>2, <3>3 DEF KeepsLane, Empty, Carrying
    <2>6. CASE HangUp(i) \/ Break(i)
      <3>1. /\ inbox'[i] = <<>> /\ outbox' = outbox /\ hreq' = hreq
            /\ hpc'[i] = hpc[i] \/ (hpc[i] = "recv" /\ hpc'[i] = "done")
        BY <1>0, <2>6 DEF HangUp, Break, Reset, serverVars
      <3> QED BY <1>2, <3>1 DEF KeepsLane, Empty, Carrying
    <2> QED BY <2>1, <2>2, <2>3, <2>4, <2>5, <2>6 DEF Socket
  <1> QED BY <1>1, <1>2

\* The number of a connection, once it is one.
LEMMA ConnNo ==
  ASSUME TypeInv, NEW k \in Clients, conn[k] # 0
  PROVE  conn[k] \in Conns
  BY BridgeAssumption DEF TypeInv, TypeOK, Conns

LEMMA LaneStep == LaneInv /\ [Next]_vars => LaneInv'
  <1> SUFFICES ASSUME LaneInv, [Next]_vars PROVE LaneInv'
    OBVIOUS
  <1>0. TypeInv /\ ConnsOK /\ LanesOK /\ TypeInv'
    BY TypeStep DEF LaneInv
  <1>t. /\ made \in 0..MaxConns /\ MaxConns \in Nat /\ conn \in [Clients -> 0..MaxConns]
        /\ outbox \in [Conns -> Seq(Replies)] /\ inbox \in [Conns -> Seq(Requests)]
        /\ hpc \in [Conns -> {"none", "recv", "wait", "done"}]
        /\ pc \in [Callers -> {"idle", "enter", "loop", "await"}]
        /\ ClientOf \in [Callers -> Clients]
        /\ \A i \in Conns : i > made => hpc[i] = "none"
    BY <1>0, BridgeAssumption DEF TypeInv, TypeOK, ServerOK
  <1>1. ASSUME UNCHANGED <<conn, made, pc, calls, command, job>>, \A i \in Conns : KeepsLane(i)
        PROVE  ConnsOK' /\ LanesOK'
    <2>1. ConnsOK'
      BY <1>0, <1>1, <1>t DEF ConnsOK, KeepsLane
    <2>2. ASSUME NEW k \in Clients PROVE LaneOf(k)'
      <3>1. \A c \in Callers : Request(c)' = Request(c) /\ (Awaits(c, k)' <=> Awaits(c, k))
        BY <1>1 DEF Request, Command, Awaits
      <3>2. CASE conn[k] = 0
        BY <1>1, <3>2 DEF LaneOf
      <3>3. CASE conn[k] # 0 /\ Empty(conn[k])
        <4>1. conn[k] \in Conns
          BY <1>0, <3>3, ConnNo
        <4>2. Empty(conn[k])'
          BY <1>1, <3>3, <4>1 DEF KeepsLane, Empty
        <4> QED BY <4>2 DEF LaneOf
      <3>4. ASSUME NEW i \in Conns, conn[k] = i, NEW c \in Callers, NEW r \in Requests,
                   Request(c) = r, Awaits(c, k), Carrying(i, r)
            PROVE  LaneOf(k)'
        <4>1. Carrying(i, r)'
          BY <1>1, <3>4 DEF KeepsLane
        <4>2. conn'[k] = i /\ Request(c)' = r /\ Awaits(c, k)'
          BY <1>1, <3>1, <3>4
        <4>3. Carrying(conn[k], Request(c))'
          BY <4>1, <4>2 DEF Carrying, Empty
        <4> QED BY <4>2, <4>3 DEF LaneOf
      <3>5. ASSUME conn[k] # 0, NEW c \in Callers, Awaits(c, k), Carrying(conn[k], Request(c))
            PROVE  LaneOf(k)'
        <4>1. conn[k] \in Conns /\ Request(c) \in Requests
          BY <1>0, <3>5, ConnNo, RequestType DEF Awaits
        <4> QED BY <3>4, <3>5, <4>1
      <3> QED BY <1>0, <3>2, <3>3, <3>5 DEF LanesOK, LaneOf
    <2> QED BY <2>1, <2>2 DEF LanesOK
  <1>2. ASSUME NEW i \in Conns, Socket(i) \/ Break(i) PROVE ConnsOK' /\ LanesOK'
    <2>1. UNCHANGED <<conn, made, pc, calls, command, job>>
      BY <1>2 DEF Socket, Serve, Enqueue, Block, RejectFrame, Answer, GiveUp, HangUp, Break, clientVars
    <2>2. \A j \in Conns : KeepsLane(j)
      BY <1>0, <1>2, SocketLane
    <2> QED BY <1>1, <2>1, <2>2
  <1>3. ASSUME Live \/ UNCHANGED vars \/ \E c \in Callers : Snapshot(c) PROVE ConnsOK' /\ LanesOK'
    <2>1. UNCHANGED <<conn, made, pc, calls, command, job, inbox, outbox, hpc, hreq>>
      BY <1>3 DEF Live, Tick, Yield, Complete, TickEnds, Snapshot, vars, clientVars, serverVars
    <2>2. \A j \in Conns : KeepsLane(j)
      BY <2>1, SameLane
    <2> QED BY <1>1, <2>1, <2>2
  <1>4. ASSUME Restart PROVE ConnsOK' /\ LanesOK'
    <2>1. UNCHANGED <<conn, made, pc, calls, command, job>>
      BY <1>4 DEF Restart, clientVars
    <2>2. \A j \in Conns : KeepsLane(j)
      <3> SUFFICES ASSUME NEW j \in Conns PROVE KeepsLane(j)
        OBVIOUS
      <3>1. /\ inbox'[j] = <<>> /\ outbox' = outbox
            /\ hpc'[j] # "wait"
        BY <1>4, <1>t DEF Restart, Conns
      <3> QED BY <3>1 DEF KeepsLane, Empty, Carrying
    <2> QED BY <1>1, <2>1, <2>2
  \* The steps of a caller leave other clients' connections alone.
  <1>l. ASSUME NEW c \in Callers, pc[c] \in {"loop", "await"}, NEW d \in Callers, ClientOf[d] = ClientOf[c],
               pc[d] \in {"loop", "await"}
        PROVE  d = c
    BY <1>0, <1>l DEF TypeInv, LockOK
  <1>5. ASSUME NEW k \in Clients, NewConnection(k), conn[k] = 0,
               UNCHANGED <<pc, calls, command, job, inbox, outbox, hpc, hreq>>
        PROVE  ConnsOK' /\ LanesOK'
    <2>1. made' = made + 1 /\ \A l \in Clients : conn'[l] = IF l = k THEN made + 1 ELSE conn[l]
      BY <1>5, <1>t DEF NewConnection
    <2>2. \A i \in Conns : Empty(i)' <=> Empty(i)
      BY <1>5 DEF Empty
    <2>3. \A l \in Clients : conn[l] \in Int /\ conn[l] <= made
      BY <1>0, <1>t DEF ConnsOK
    <2>4. ConnsOK'
      <3>1. \A l \in Clients : conn'[l] <= made'
        BY <1>t, <2>1, <2>3
      <3>2. \A l, m \in Clients : conn'[l] = conn'[m] /\ conn'[l] # 0 => l = m
        <4>1. \A l \in Clients : conn[l] # made + 1
          BY <1>t, <2>3
        <4> QED BY <1>0, <2>1, <4>1 DEF ConnsOK
      <3>3. \A i \in Conns : i > made' => Empty(i)'
        <4>1. \A i \in Conns : i > made' => i > made
          BY <1>t, <2>1 DEF Conns
        <4> QED BY <1>0, <2>2, <4>1 DEF ConnsOK
      <3> QED BY <3>1, <3>2, <3>3 DEF ConnsOK
    <2>5. ASSUME NEW l \in Clients PROVE LaneOf(l)'
      <3>1. CASE l = k
        <4>1. conn'[k] = made + 1 /\ made + 1 \in Conns /\ made + 1 > made
          BY <1>5, <1>t, <2>1 DEF NewConnection, Conns
        <4>2. Empty(made + 1)
          BY <1>0, <4>1 DEF ConnsOK
        <4>3. inbox'[made + 1] = <<>> /\ hpc'[made + 1] # "wait" /\ outbox'[made + 1] = <<>>
          BY <1>5, <4>2 DEF Empty
        <4> QED BY <3>1, <4>1, <4>3 DEF LaneOf, Empty
      <3>2. CASE l # k
        <4>1. conn'[l] = conn[l] /\ \A c \in Callers : Request(c)' = Request(c) /\ (Awaits(c, l)' <=> Awaits(c, l))
          BY <1>5, <2>1, <3>2 DEF Request, Command, Awaits
        <4>2. LaneOf(l)
          BY <1>0 DEF LanesOK
        <4> QED BY <1>5, <4>1, <4>2 DEF LaneOf, Empty, Carrying
      <3> QED BY <3>1, <3>2
    <2> QED BY <2>4, <2>5 DEF LanesOK
  <1>6. ASSUME NEW k \in Clients, CloseLocked(k), UNCHANGED <<made, inbox, hpc, hreq>>,
               \A c \in Callers : ClientOf[c] # k => Request(c)' = Request(c) /\ pc'[c] = pc[c]
        PROVE  ConnsOK' /\ LanesOK'
    <2>1. \A l \in Clients : conn'[l] = IF l = k THEN 0 ELSE conn[l]
      BY <1>6, <1>t DEF CloseLocked
    <2>2. \A i \in Conns : outbox'[i] = outbox[i] \/ outbox'[i] = <<>>
      BY <1>6, <1>t DEF CloseLocked
    <2>3. \A i \in Conns : i # conn[k] => outbox'[i] = outbox[i]
      BY <1>6, <1>t DEF CloseLocked
    <2>4. \A i \in Conns : Empty(i) => Empty(i)'
      BY <1>6, <2>2 DEF Empty
    <2>5. ConnsOK'
      <3>1. \A l \in Clients : conn'[l] <= made'
        <4>1. made' = made /\ 0 <= made /\ \A l \in Clients : conn[l] <= made
          BY <1>0, <1>6, <1>t DEF ConnsOK
        <4> QED BY <2>1, <4>1
      <3>2. \A l, m \in Clients : conn'[l] = conn'[m] /\ conn'[l] # 0 => l = m
        BY <1>0, <2>1 DEF ConnsOK
      <3> QED BY <1>0, <1>6, <2>4, <3>1, <3>2 DEF ConnsOK
    <2>6. ASSUME NEW l \in Clients PROVE LaneOf(l)'
      <3>1. CASE l = k \/ conn[l] = 0
        BY <2>1, <3>1 DEF LaneOf
      <3>2. CASE l # k /\ conn[l] # 0
        <4>1. conn'[l] = conn[l] /\ conn[l] \in Conns /\ conn[l] # conn[k]
          BY <1>0, <2>1, <3>2, ConnNo DEF ConnsOK
        <4>2. outbox'[conn[l]] = outbox[conn[l]]
          BY <2>3, <4>1
        <4>3. \A c \in Callers : Awaits(c, l) => Request(c)' = Request(c) /\ Awaits(c, l)'
          BY <1>6, <3>2 DEF Awaits
        <4>4. LaneOf(l)
          BY <1>0 DEF LanesOK
        <4>5. CASE Empty(conn[l])
          BY <1>6, <4>1, <4>2, <4>5 DEF LaneOf, Empty
        <4>6. ASSUME NEW c \in Callers, Awaits(c, l), Carrying(conn[l], Request(c)) PROVE LaneOf(l)'
          <5>1. Request(c)' = Request(c) /\ Awaits(c, l)'
            BY <4>3, <4>6
          <5>2. Carrying(conn[l], Request(c))'
            BY <1>6, <4>1, <4>2, <4>6, <5>1 DEF Carrying, Empty
          <5> QED BY <5>1, <5>2 DEF LaneOf
        <4> QED BY <3>2, <4>4, <4>5, <4>6 DEF LaneOf
      <3> QED BY <3>1, <3>2
    <2> QED BY <2>5, <2>6 DEF LanesOK
  \* A call that begins or enters, sends nothing and reads nothing.
  <1>7. ASSUME NEW c \in Callers, pc[c] \in {"idle", "enter"}, pc'[c] # "await",
               \A d \in Callers : d # c => pc'[d] = pc[d] /\ Request(d)' = Request(d),
               UNCHANGED <<conn, made, inbox, outbox, hpc, hreq>>
        PROVE  ConnsOK' /\ LanesOK'
    <2>1. ConnsOK'
      BY <1>0, <1>7 DEF ConnsOK, Empty
    <2>2. ASSUME NEW k \in Clients PROVE LaneOf(k)'
      <3>1. \A d \in Callers : Awaits(d, k) => Awaits(d, k)' /\ Request(d)' = Request(d)
        BY <1>7 DEF Awaits
      <3>2. LaneOf(k)
        BY <1>0 DEF LanesOK
      <3> QED BY <1>7, <3>1, <3>2 DEF LaneOf, Empty, Carrying
    <2> QED BY <2>1, <2>2 DEF LanesOK
  <1>8. ASSUME NEW c \in Callers, NEW cmd \in Commands, NEW b \in BOOLEAN, BeginCall(c, cmd, b)
        PROVE  ConnsOK' /\ LanesOK'
    <2>1. /\ pc[c] = "idle" /\ pc'[c] = "enter" /\ UNCHANGED <<conn, made, inbox, outbox, hpc, hreq>>
          /\ \A d \in Callers : d # c => pc'[d] = pc[d] /\ calls'[d] = calls[d]
                                         /\ command'[d] = command[d] /\ job'[d] = job[d]
      BY <1>0, <1>8, <1>t DEF BeginCall, serverVars, TypeInv, TypeOK
    <2>2. \A d \in Callers : d # c => Request(d)' = Request(d)
      BY <2>1 DEF Request, Command
    <2> QED BY <1>7, <2>1, <2>2
  <1>9. ASSUME NEW c \in Callers, Enter(c) PROVE ConnsOK' /\ LanesOK'
    <2>1. /\ pc[c] = "enter" /\ pc'[c] \in {"idle", "loop"}
          /\ \A d \in Callers : d # c => pc'[d] = pc[d]
          /\ UNCHANGED <<conn, made, inbox, outbox, hpc, hreq, calls, command, job>>
      BY <1>9, <1>t DEF Enter, Finish, serverVars
    <2>2. \A d \in Callers : Request(d)' = Request(d)
      BY <2>1 DEF Request, Command
    <2> QED BY <1>7, <2>1, <2>2
  <1>10. ASSUME NEW c \in Callers, Connect(c) PROVE ConnsOK' /\ LanesOK'
    BY <1>5, <1>10, <1>t DEF Connect, Mine, serverVars
  <1>11. ASSUME NEW k \in Clients, ConnectClient(k) PROVE ConnsOK' /\ LanesOK'
    BY <1>5, <1>11 DEF ConnectClient, serverVars
  <1>12. ASSUME NEW k \in Clients, CloseClient(k) PROVE ConnsOK' /\ LanesOK'
    <2>1. UNCHANGED <<made, inbox, hpc, hreq, pc, calls, command, job>> /\ CloseLocked(k)
      BY <1>12 DEF CloseClient, serverVars
    <2>2. \A d \in Callers : Request(d)' = Request(d)
      BY <2>1 DEF Request, Command
    <2> QED BY <1>6, <2>1, <2>2
  <1>13. ASSUME NEW c \in Callers, TimeOut(c) \/ ConnectionError(c) PROVE ConnsOK' /\ LanesOK'
    <2>1. UNCHANGED <<made, inbox, hpc, hreq, calls, command>> /\ CloseLocked(ClientOf[c])
      BY <1>13 DEF TimeOut, ConnectionError, serverVars
    <2>2. \A d \in Callers : d # c => pc'[d] = pc[d] /\ job'[d] = job[d]
      BY <1>0, <1>13, <1>t DEF TimeOut, ConnectionError, Finish, TypeInv, TypeOK
    <2>3. \A d \in Callers : ClientOf[d] # ClientOf[c] => Request(d)' = Request(d) /\ pc'[d] = pc[d]
      BY <2>1, <2>2 DEF Request, Command
    <2> QED BY <1>6, <1>t, <2>1, <2>3
  <1>14. ASSUME NEW c \in Callers, Send(c) PROVE ConnsOK' /\ LanesOK'
    <2> DEFINE k == ClientOf[c]
    <2>1. /\ pc[c] = "loop" /\ pc' = [pc EXCEPT ![c] = "await"] /\ conn[k] # 0 /\ k \in Clients
          /\ UNCHANGED <<conn, made, outbox, hpc, hreq, calls, command, job>>
          /\ inbox' = IF up[conn[k]] THEN [inbox EXCEPT ![conn[k]] = Append(@, Request(c))] ELSE inbox
      BY <1>14, <1>t DEF Send, Mine, serverVars
    <2>2. conn[k] \in Conns /\ conn[k] <= made
      BY <1>0, <2>1, ConnNo DEF ConnsOK
    <2> HIDE DEF k
    <2>3. \A d \in Callers : Request(d)' = Request(d)
      BY <2>1 DEF Request, Command
    <2>4. Empty(conn[k])
      <3>1. \A d \in Callers : ~Awaits(d, k)
        BY <1>l, <2>1 DEF Awaits, k
      <3> QED BY <1>0, <2>1, <3>1 DEF LanesOK, LaneOf
    <2>5. \A i \in Conns : i # conn[k] => inbox'[i] = inbox[i]
      BY <1>t, <2>1
    <2>6. ConnsOK'
      <3>1. \A i \in Conns : i > made => i # conn[k]
        BY <1>t, <2>2 DEF Conns
      <3> QED BY <1>0, <2>1, <2>5, <3>1 DEF ConnsOK, Empty
    <2>7. LaneOf(k)'
      <3> DEFINE r == Request(c)
      <3>1. inbox'[conn[k]] = <<>> \/ inbox'[conn[k]] = <<r>>
        <4>1. inbox[conn[k]] = <<>> /\ Append(<<>>, r) = <<r>>
          BY <2>4 DEF Empty
        <4> HIDE DEF r
        <4>2. inbox'[conn[k]] = inbox[conn[k]] \/ inbox'[conn[k]] = Append(inbox[conn[k]], r)
          BY <1>t, <2>1, <2>2 DEF r
        <4> QED BY <4>1, <4>2
      <3>2. Awaits(c, k)' /\ Request(c)' = r /\ conn'[k] = conn[k]
        BY <1>t, <2>1, <2>3 DEF Awaits, k
      <3> HIDE DEF r
      <3>3. Carrying(conn[k], Request(c))'
        BY <2>1, <2>4, <3>1, <3>2 DEF Carrying, Empty
      <3> QED BY <3>2, <3>3 DEF LaneOf
    <2>8. ASSUME NEW l \in Clients, l # k PROVE LaneOf(l)'
      <3>1. LaneOf(l)
        BY <1>0 DEF LanesOK
      <3>2. CASE conn[l] = 0
        BY <2>1, <3>2 DEF LaneOf
      <3>3. CASE conn[l] # 0
        <4>1. conn[l] \in Conns /\ conn[l] # conn[k]
          BY <1>0, <2>1, <2>8, <3>3, ConnNo DEF ConnsOK
        <4>2. inbox'[conn[l]] = inbox[conn[l]]
          BY <2>5, <4>1
        <4>3. \A d \in Callers : Awaits(d, l) => Awaits(d, l)'
          BY <1>t, <2>1 DEF Awaits
        <4> QED BY <2>1, <2>3, <3>1, <4>2, <4>3 DEF LaneOf, Empty, Carrying
      <3> QED BY <3>2, <3>3
    <2> QED BY <2>6, <2>7, <2>8 DEF LanesOK
  <1>15. ASSUME NEW c \in Callers, Receive(c) PROVE ConnsOK' /\ LanesOK'
    <2> DEFINE k == ClientOf[c]
    <2>1. /\ pc[c] = "await" /\ conn[k] # 0 /\ outbox[conn[k]] # <<>> /\ k \in Clients
          /\ pc' = [pc EXCEPT ![c] = "idle"]
          /\ UNCHANGED <<conn, made, inbox, hpc, hreq, calls, command, job>>
          /\ outbox' = [outbox EXCEPT ![conn[k]] = Tail(@)]
      BY <1>15, <1>t DEF Receive, Finish, Mine, serverVars
    <2>2. conn[k] \in Conns
      BY <1>0, <2>1, ConnNo
    <2>3. Carrying(conn[k], Request(c))
      <3>1. \A d \in Callers : Awaits(d, k) => d = c
        BY <1>l, <2>1 DEF Awaits
      <3> HIDE DEF k
      <3>2. LaneOf(k)
        BY <1>0, <2>1 DEF LanesOK
      <3> QED BY <2>1, <3>1, <3>2 DEF LaneOf, Carrying
    <2> HIDE DEF k
    <2>4. Empty(conn[k])'
      <3>1. \E x : outbox[conn[k]] = <<x>>
        BY <2>1, <2>3 DEF Carrying, Empty
      <3>2. \A x : Tail(<<x>>) = <<>>
        OBVIOUS
      <3>3. outbox'[conn[k]] = <<>>
        BY <1>t, <2>1, <2>2, <3>1, <3>2
      <3> QED BY <2>1, <2>3, <3>3 DEF Carrying, Empty
    <2>5. \A i \in Conns : i # conn[k] => outbox'[i] = outbox[i]
      BY <1>t, <2>1
    <2>6. \A d \in Callers : Request(d)' = Request(d)
      BY <2>1 DEF Request, Command
    <2>7. ConnsOK'
      <3>1. ASSUME NEW i \in Conns, i > made PROVE Empty(i)'
        <4>1. Empty(i)
          BY <1>0, <3>1 DEF ConnsOK
        <4>2. CASE i = conn[k]
          BY <2>1, <2>4, <4>2 DEF Empty
        <4>3. CASE i # conn[k]
          BY <2>1, <2>5, <4>1, <4>3 DEF Empty
        <4> QED BY <4>2, <4>3
      <3> QED BY <1>0, <2>1, <3>1 DEF ConnsOK
    <2>8. ASSUME NEW l \in Clients PROVE LaneOf(l)'
      <3>1. LaneOf(l)
        BY <1>0 DEF LanesOK
      <3>2. CASE conn[l] = 0
        BY <2>1, <3>2 DEF LaneOf
      <3>3. CASE l = k
        BY <2>4, <3>3 DEF LaneOf
      <3>4. CASE l # k /\ conn[l] # 0
        <4>1. conn[l] \in Conns /\ conn[l] # conn[k]
          BY <1>0, <2>1, <3>4, ConnNo DEF ConnsOK
        <4>2. outbox'[conn[l]] = outbox[conn[l]]
          BY <2>5, <4>1
        <4>3. \A d \in Callers : Awaits(d, l) => Awaits(d, l)'
          BY <1>t, <2>1, <3>4 DEF Awaits, k
        <4> QED BY <2>1, <2>6, <3>1, <4>2, <4>3 DEF LaneOf, Empty, Carrying
      <3> QED BY <3>2, <3>3, <3>4
    <2> QED BY <2>7, <2>8 DEF LanesOK
  <1>16. ConnsOK' /\ LanesOK'
    BY <1>2, <1>3, <1>4, <1>8, <1>9, <1>10, <1>11, <1>12, <1>13, <1>14, <1>15 DEF Next, CallStep
  <1> QED BY <1>0, <1>16 DEF LaneInv

\* The reply a caller reads is the one to the request it sent last, although requests it
\* gave up go on running: their connection was closed. (client.py, _close_locked)
THEOREM AnswersAreOwn == Spec => []OwnAnswer
  <1>1. LaneInv => OwnAnswer
    <2> SUFFICES ASSUME LaneInv, NEW c \in Callers, pc[c] = "await", Mine(c) # 0,
                        NEW i \in DOMAIN outbox[Mine(c)]
                 PROVE  outbox[Mine(c)][i].req = Request(c)
      BY DEF OwnAnswer
    <2>1. ClientOf[c] \in Clients /\ \A d \in Callers : Awaits(d, ClientOf[c]) => d = c
      BY BridgeAssumption DEF LaneInv, TypeInv, LockOK, Awaits
    <2>2. Carrying(Mine(c), Request(c))
      BY <2>1 DEF LaneInv, LanesOK, LaneOf, Mine, Carrying
    <2>3. PICK s : outbox[Mine(c)] = <<[req |-> Request(c), status |-> s]>>
      <3>1. outbox[Mine(c)] # <<>>
        OBVIOUS
      <3> QED BY <2>2, <3>1 DEF Carrying, Empty
    <2> QED BY <2>3
  <1> QED BY <1>1, LaneInit, LaneStep, PTL DEF Spec
------------------------------------------------------------------------------
(*************************** the contract of the callers *******************)
\* What the socket thread refuses never reaches Live.
Refused(r) == r.cmd \in Oversized \/ Normal[r.cmd] \in Blocked
QueueOK ==
  /\ active # None => ~Refused(active)
  /\ \A i \in DOMAIN queue : ~Refused(queue[i])

\* What a reply says of the request it answers.
AnswersOK == \A a \in answers : a.req \in started
TellsTrue(x) ==
  /\ x.status = "ok" => x.req \in started
  /\ x.status = "error" => x.req \in started \/ Refused(x.req)
RepliesOK == \A i \in Conns : \A j \in DOMAIN outbox[i] : TellsTrue(outbox[i][j])

\* A mutation whose call was answered has begun to run, or never will.
SettledOK ==
  \A r \in Requests :
    r.cmd \in Mutations /\ Known(r) /\ result[r.caller][r.no] \in {"ok", "error"}
      => r \in started \/ Refused(r)

RunInv == IsFiniteSet(started) /\ QueueOK /\ AnswersOK /\ RepliesOK
ContractInv == RefusalInv /\ LaneInv /\ RunInv /\ SettledOK

LEMMA ContractInvInit == Init => ContractInv
  <1> SUFFICES ASSUME Init PROVE ContractInv
    OBVIOUS
  <1>1. RefusalInv /\ LaneInv
    BY RefusalInit, LaneInit
  <1>2. RunInv
    BY FS_EmptySet DEF Init, RunInv, QueueOK, AnswersOK, RepliesOK
  <1>3. \A r \in Requests : ~Known(r)
    BY NoneIsNew DEF Init, Known, InFlight
  <1> QED BY <1>1, <1>2, <1>3 DEF ContractInv, SettledOK

\* Live's thread: what it begins to run is what it takes next.
LEMMA RunStep ==
  ASSUME TypeInv, [Next]_vars
  PROVE  \/ started' = started
         \/ /\ Pending /\ Current \in Requests /\ started' = started \cup {Current}
            /\ UNCHANGED <<calls, command, result, outbox>>
  <1>1. CASE Yield \/ \E status \in {"ok", "error"} : Complete(status)
    BY <1>1, CurrentType DEF Yield, Complete, clientVars
  <1>2. CASE UNCHANGED started
    BY <1>2
  <1> QED BY <1>1, <1>2 DEF Next, CallStep, Socket, Live, Snapshot, BeginCall, Enter, Connect, Send,
     TimeOut, ConnectionError, Receive, ConnectClient, CloseClient, Serve, Enqueue, Block,
     RejectFrame, Answer, GiveUp, HangUp, Tick, TickEnds, Break, Restart, vars, uiVars

\* How the replies of one connection change: not, one is added, one is read, or all
\* are lost with the connection.
LEMMA OutboxStep ==
  ASSUME TypeInv, [Next]_vars, NEW i \in Conns
  PROVE  \/ outbox'[i] = outbox[i]
         \/ outbox'[i] = <<>>
         \/ outbox[i] # <<>> /\ outbox'[i] = Tail(outbox[i])
         \/ \E r \in Requests, s \in {"ok", "error", "TIMEOUT"} :
              /\ outbox'[i] = Append(outbox[i], [req |-> r, status |-> s])
              /\ \/ s = "TIMEOUT"
                 \/ s = "error" /\ Refused(r)
                 \/ [req |-> r, status |-> s] \in answers
  <1>0. /\ outbox \in [Conns -> Seq(Replies)] /\ inbox \in [Conns -> Seq(Requests)]
        /\ answers \subseteq Replies /\ conn \in [Clients -> 0..MaxConns] /\ MaxConns \in Nat
        /\ ClientOf \in [Callers -> Clients]
    BY BridgeAssumption DEF TypeInv, TypeOK
  <1>1. CASE outbox' = outbox
    BY <1>1
  <1>2. ASSUME NEW k \in Clients, CloseLocked(k)
        PROVE  outbox'[i] = outbox[i] \/ outbox'[i] = <<>>
    BY <1>0, <1>2 DEF CloseLocked
  <1>3. ASSUME NEW c \in Callers, Receive(c)
        PROVE  outbox'[i] = outbox[i] \/ (outbox[i] # <<>> /\ outbox'[i] = Tail(outbox[i]))
    BY <1>0, <1>3 DEF Receive
  <1>4. ASSUME NEW j \in Conns, NEW r \in Requests, NEW s \in {"ok", "error", "TIMEOUT"}, Reply(j, r, s)
        PROVE  outbox'[i] = outbox[i] \/ outbox'[i] = Append(outbox[i], [req |-> r, status |-> s])
    BY <1>0, <1>4 DEF Reply
  <1>5. ASSUME NEW j \in Conns, Block(j) \/ RejectFrame(j)
        PROVE  \/ outbox'[i] = outbox[i]
               \/ \E r \in Requests : /\ outbox'[i] = Append(outbox[i], [req |-> r, status |-> "error"])
                                      /\ Refused(r)
    <2>1. Head(inbox[j]) \in Requests /\ Refused(Head(inbox[j]))
      BY <1>0, <1>5 DEF Block, RejectFrame, Refused
    <2>2. Reply(j, Head(inbox[j]), "error") \/ outbox' = outbox
      BY <1>5 DEF Block, RejectFrame
    <2> QED BY <1>4, <2>1, <2>2
  <1>6. ASSUME NEW j \in Conns, Answer(j)
        PROVE  \/ outbox'[i] = outbox[i]
               \/ \E r \in Requests, s \in {"ok", "error", "TIMEOUT"} :
                    /\ outbox'[i] = Append(outbox[i], [req |-> r, status |-> s])
                    /\ [req |-> r, status |-> s] \in answers
    <2>1. PICK a \in answers : a.req = hreq[j] /\ Replied(j, a.status)
      BY <1>6 DEF Answer
    <2>2. /\ a.req \in Requests /\ a.status \in {"ok", "error", "TIMEOUT"}
          /\ a = [req |-> a.req, status |-> a.status]
      BY <1>0 DEF Replies
    <2>3. Reply(j, a.req, a.status) \/ outbox' = outbox
      BY <2>1 DEF Replied
    <2> QED BY <1>4, <2>2, <2>3
  <1>7. ASSUME NEW j \in Conns, GiveUp(j)
        PROVE  \/ outbox'[i] = outbox[i]
               \/ \E r \in Requests : outbox'[i] = Append(outbox[i], [req |-> r, status |-> "TIMEOUT"])
    <2>1. hreq[j] \in Requests
      BY <1>7 DEF GiveUp, TypeInv, TypeOK, ServerOK
    <2>2. Reply(j, hreq[j], "TIMEOUT") \/ outbox' = outbox
      BY <1>7 DEF GiveUp, Replied
    <2> QED BY <1>4, <2>1, <2>2
  <1>8. ASSUME NEW k \in Clients, CloseClient(k) PROVE outbox'[i] = outbox[i] \/ outbox'[i] = <<>>
    BY <1>2, <1>8 DEF CloseClient
  <1>9. ASSUME NEW c \in Callers, TimeOut(c) \/ ConnectionError(c)
        PROVE  outbox'[i] = outbox[i] \/ outbox'[i] = <<>>
    BY <1>0, <1>2, <1>9 DEF TimeOut, ConnectionError
  <1>10. \/ outbox' = outbox
         \/ \E c \in Callers : Receive(c) \/ TimeOut(c) \/ ConnectionError(c)
         \/ \E k \in Clients : CloseClient(k)
         \/ \E j \in Conns : Block(j) \/ RejectFrame(j) \/ Answer(j) \/ GiveUp(j)
    BY DEF Next, CallStep, Socket, Live, Snapshot, BeginCall, Enter, Connect, Send,
     ConnectClient, Serve, Enqueue, HangUp, Tick, Yield, Complete, TickEnds, Break, Restart, vars
  <1> QED BY <1>1, <1>3, <1>5, <1>6, <1>7, <1>8, <1>9, <1>10

LEMMA RunInvStep == TypeInv /\ RunInv /\ [Next]_vars => RunInv'
  <1> SUFFICES ASSUME TypeInv, RunInv, [Next]_vars PROVE RunInv'
    OBVIOUS
  <1>1. IsFiniteSet(started') /\ started \subseteq started'
    BY RunStep, FS_AddElement DEF RunInv
  <1>2. QueueOK'
    <2>0. queue \in Seq(Requests) /\ inbox \in [Conns -> Seq(Requests)]
      BY DEF TypeInv, TypeOK
    <2>1. ASSUME NEW i \in Conns, Enqueue(i) PROVE QueueOK'
      <3>1. /\ queue' = Append(queue, Head(inbox[i])) /\ active' = active
            /\ ~Refused(Head(inbox[i])) /\ Head(inbox[i]) \in Requests
        BY <2>0, <2>1 DEF Enqueue, uiVars, Refused
      <3>2. \A n \in DOMAIN queue' : (n \in DOMAIN queue /\ queue'[n] = queue[n]) \/ queue'[n] = Head(inbox[i])
        BY <2>0, <3>1
      <3> QED BY <3>1, <3>2 DEF RunInv, QueueOK, Refused
    <2>2. ASSUME Pending, queue' = Rest, active' \in {None, Current} PROVE QueueOK'
      <3>1. /\ Pending => 1 \in DOMAIN queue \/ active # None
            /\ active = None => Current = queue[1] /\ \A n \in DOMAIN Rest : n + 1 \in DOMAIN queue /\ Rest[n] = queue[n + 1]
        BY <2>0, <2>2 DEF Pending, Current, Rest
      <3>2. ~Refused(Current) /\ \A n \in DOMAIN Rest : ~Refused(Rest[n])
        <4>1. CASE active = None
          BY <2>2, <3>1, <4>1 DEF RunInv, QueueOK
        <4>2. CASE active # None
          BY <4>2 DEF RunInv, QueueOK, Current, Rest
        <4> QED BY <4>1, <4>2
      <3> QED BY <2>2, <3>2 DEF QueueOK, Refused
    <2>3. CASE Yield \/ \E status \in {"ok", "error"} : Complete(status)
      BY <2>2, <2>3 DEF Yield, Complete
    <2>4. CASE Restart
      BY <2>4 DEF Restart, QueueOK
    <2>5. CASE UNCHANGED <<queue, active>>
      BY <2>5 DEF RunInv, QueueOK, Refused
    <2> QED BY <2>1, <2>3, <2>4, <2>5 DEF Next, CallStep, Socket, Live, Snapshot, BeginCall, Enter,
       Connect, Send, TimeOut, ConnectionError, Receive, ConnectClient, CloseClient, Serve, Block,
       RejectFrame, Answer, GiveUp, HangUp, Tick, TickEnds, Break, vars, uiVars
  <1>3. AnswersOK'
    <2>1. ASSUME NEW status \in {"ok", "error"}, Complete(status) PROVE AnswersOK'
      BY <2>1 DEF Complete, RunInv, AnswersOK
    <2>2. CASE UNCHANGED answers
      BY <1>1, <2>2 DEF RunInv, AnswersOK
    <2> QED BY <2>1, <2>2 DEF Next, CallStep, Socket, Live, Snapshot, BeginCall, Enter,
       Connect, Send, TimeOut, ConnectionError, Receive, ConnectClient, CloseClient, Serve, Enqueue,
       Block, RejectFrame, Answer, GiveUp, HangUp, Tick, Yield, TickEnds, Break, Restart, vars, uiVars
  <1>4. RepliesOK'
    <2>2. ASSUME NEW x, TellsTrue(x) PROVE TellsTrue(x)'
      BY <1>1, <2>2 DEF TellsTrue, Refused
    <2> SUFFICES ASSUME NEW i \in Conns, NEW j \in DOMAIN outbox'[i], NEW x, x = outbox'[i][j]
                 PROVE  TellsTrue(x)'
      BY DEF RepliesOK, TellsTrue, Refused
    <2>0. outbox[i] \in Seq(Replies)
      BY DEF TypeInv, TypeOK
    <2>1. \A n \in DOMAIN outbox[i] : TellsTrue(outbox[i][n])
      BY DEF RunInv, RepliesOK
    <2>3. ASSUME NEW n \in DOMAIN outbox[i], x = outbox[i][n] PROVE TellsTrue(x)
      BY <2>1, <2>3
    <2>4. CASE outbox'[i] = outbox[i] \/ outbox'[i] = <<>>
      BY <2>2, <2>3, <2>4
    <2>5. CASE outbox[i] # <<>> /\ outbox'[i] = Tail(outbox[i])
      <3>1. j + 1 \in DOMAIN outbox[i] /\ x = outbox[i][j + 1]
        BY <2>0, <2>5
      <3> QED BY <2>2, <2>3, <3>1
    <2>6. ASSUME NEW r \in Requests, NEW s \in {"ok", "error", "TIMEOUT"},
                 outbox'[i] = Append(outbox[i], [req |-> r, status |-> s]),
                 \/ s = "TIMEOUT"
                 \/ s = "error" /\ Refused(r)
                 \/ [req |-> r, status |-> s] \in answers
          PROVE  TellsTrue(x)'
      <3> DEFINE y == [req |-> r, status |-> s]
      <3>1. (j \in DOMAIN outbox[i] /\ x = outbox[i][j]) \/ x = y
        BY <2>0, <2>6
      <3>2. TellsTrue(y)
        BY <2>6 DEF RunInv, AnswersOK, TellsTrue
      <3> QED BY <2>2, <2>3, <3>1, <3>2
    <2> QED BY <2>4, <2>5, <2>6, OutboxStep
  <1> QED BY <1>1, <1>2, <1>3, <1>4 DEF RunInv

\* A reply that is received answers the request of the call it ends.
LEMMA ReceivedReply ==
  ASSUME LaneInv, RunInv, NEW c \in Callers, Receive(c)
  PROVE  /\ Head(outbox[Mine(c)]).status = "ok" => Request(c) \in started
         /\ Head(outbox[Mine(c)]).status = "error" => Request(c) \in started \/ Refused(Request(c))
  <1>0. pc[c] = "await" /\ Mine(c) # 0 /\ outbox[Mine(c)] # <<>>
    BY DEF Receive
  <1>1. ClientOf[c] \in Clients /\ \A d \in Callers : Awaits(d, ClientOf[c]) => d = c
    BY <1>0, BridgeAssumption DEF LaneInv, TypeInv, LockOK, Awaits
  <1>2. Carrying(Mine(c), Request(c))
    BY <1>0, <1>1 DEF LaneInv, LanesOK, LaneOf, Mine, Carrying
  <1>3. PICK s \in {"ok", "error", "TIMEOUT"} :
          outbox[Mine(c)] = <<[req |-> Request(c), status |-> s]>>
    BY <1>0, <1>2 DEF Carrying, Empty
  <1>4. Mine(c) \in Conns
    BY <1>0, <1>1, ConnNo DEF LaneInv, Mine
  <1> DEFINE x == [req |-> Request(c), status |-> s]
  <1>5. TellsTrue(x)
    BY <1>3, <1>4 DEF RunInv, RepliesOK
  <1>6. Head(outbox[Mine(c)]) = x
    BY <1>3
  <1> QED BY <1>5, <1>6 DEF TellsTrue

LEMMA SettledStep == ContractInv /\ [Next]_vars => SettledOK'
  <1> SUFFICES ASSUME ContractInv, [Next]_vars, NEW r \in Requests, r.cmd \in Mutations, Known(r)',
                      result'[r.caller][r.no] \in {"ok", "error"}
               PROVE  r \in started' \/ Refused(r)
    BY DEF SettledOK, Refused
  <1>0. /\ TypeInv /\ OnceInv /\ KnownOK /\ FirstTry /\ ResultOK /\ LaneInv /\ RunInv /\ SettledOK
        /\ r.caller \in Callers /\ r.no \in 1..MaxCalls
    BY DEF ContractInv, RefusalInv, OnceInv, Requests
  <1>1. started \subseteq started'
    BY <1>0, RunStep
  <1>2. CASE result'[r.caller][r.no] = result[r.caller][r.no]
    <2>1. ASSUME NEW c \in Callers, Send(c), r = Request(c) PROVE FALSE
      <3>1. r.caller = c /\ r.no = calls[c] /\ pc[c] = "loop"
        BY <2>1 DEF Request, Send
      <3> QED BY <1>0, <1>2, <3>1 DEF ResultOK
    <2>2. Known(r)
      BY <1>0, <2>1, KnownStep
    <2> QED BY <1>0, <1>1, <1>2, <2>2 DEF SettledOK
  <1>3. CASE result'[r.caller][r.no] # result[r.caller][r.no]
    <2> DEFINE c == r.caller
    <2>1. PICK s \in Results : Ends(c, s)
      BY <1>0, <1>3, CallerStep DEF Stays, Begins, GoesOn
    <2>2. r.no = calls[c] /\ s \in {"ok", "error"} /\ calls[c] # 0
      BY <1>0, <1>3, <2>1, CallNo DEF Ends
    <2>3. Receive(c) /\ s = Head(outbox[Mine(c)]).status
      BY <2>1, <2>2 DEF Ends
    <2>4. Request(c) \in started \/ Refused(Request(c))
      BY <1>0, <2>2, <2>3, ReceivedReply
    <2>5. ASSUME NEW d \in Callers, Send(d) PROVE FALSE
      BY <1>3, <2>5 DEF Send
    <2>6. Known(r)
      BY <1>0, <2>5, KnownStep
    <2>7. r.try = 0 /\ r.cmd = Command(c)
      BY <1>0, <2>2, <2>6 DEF KnownOK, Command
    <2>8. job[c].try = 0
      BY <1>0, <2>2, <2>7 DEF FirstTry
    <2>9. r = Request(c)
      BY <2>2, <2>7, <2>8 DEF Requests, Request
    <2> QED BY <1>1, <2>4, <2>9
  <1> QED BY <1>2, <1>3

LEMMA ContractInvStep == ContractInv /\ [Next]_vars => ContractInv'
  BY RefusalStep, LaneStep, RunInvStep, SettledStep DEF ContractInv, LaneInv
------------------------------------------------------------------------------
(*************************** the refinement ********************************)
\* Two functions that differ at one point.
LEMMA ExceptAt ==
  ASSUME NEW D, NEW f, NEW g, NEW x \in D, NEW v,
         f = [i \in D |-> f[i]], g = [i \in D |-> g[i]],
         \A i \in D : g[i] = IF i = x THEN v ELSE f[i]
  PROVE  g = [f EXCEPT ![x] = v]
  OBVIOUS

\* The contract's variables are functions of the calls, before a step and after it.
LEMMA MappedFunctions ==
  /\ CallPhase = [i \in CallIds |-> CallPhase[i]] /\ CallPhase' = [i \in CallIds |-> CallPhase'[i]]
  /\ IsMutation = [i \in CallIds |-> IsMutation[i]] /\ IsMutation' = [i \in CallIds |-> IsMutation'[i]]
  /\ CallRuns = [i \in CallIds |-> CallRuns[i]] /\ CallRuns' = [i \in CallIds |-> CallRuns'[i]]
  BY DEF CallPhase, IsMutation, CallRuns, CallIds

LEMMA CallId ==
  ASSUME NEW i \in CallIds
  PROVE  i[1] \in Callers /\ i[2] \in 1..MaxCalls /\ i = <<i[1], i[2]>>
  BY DEF CallIds

\* The phase of a call, its kind and its runs, one call at a time.
LEMMA PhaseAt ==
  ASSUME NEW i \in CallIds
  PROVE  /\ i[2] > calls[i[1]] => CallPhase[i] = "new"
         /\ ~(i[2] > calls[i[1]]) =>
              /\ result[i[1]][i[2]] = "none" => CallPhase[i] = "open"
              /\ result[i[1]][i[2]] \in {"ok", "error"} => CallPhase[i] = result[i[1]][i[2]]
              /\ result[i[1]][i[2]] = "mismatch" => CallPhase[i] = "refused"
              /\ result[i[1]][i[2]] \notin {"none", "ok", "error", "mismatch"} => CallPhase[i] = "unknown"
         /\ IsMutation[i] = (i[2] <= calls[i[1]] /\ Normal[command[i[1]][i[2]]] \in Mutations)
         /\ CallRuns[i] = Cardinality(RunsOf(i))
  <1>1. CallPhase[i] =
          IF i[2] > calls[i[1]] THEN "new"
          ELSE CASE result[i[1]][i[2]] = "none" -> "open"
                 [] result[i[1]][i[2]] \in {"ok", "error"} -> result[i[1]][i[2]]
                 [] result[i[1]][i[2]] = "mismatch" -> "refused"
                 [] OTHER -> "unknown"
    BY DEF CallPhase
  <1>2. i[2] > calls[i[1]] => CallPhase[i] = "new"
    BY <1>1
  <1>3. ~(i[2] > calls[i[1]]) =>
          /\ result[i[1]][i[2]] = "none" => CallPhase[i] = "open"
          /\ result[i[1]][i[2]] \in {"ok", "error"} => CallPhase[i] = result[i[1]][i[2]]
          /\ result[i[1]][i[2]] = "mismatch" => CallPhase[i] = "refused"
          /\ result[i[1]][i[2]] \notin {"none", "ok", "error", "mismatch"} => CallPhase[i] = "unknown"
    <2> SUFFICES ASSUME ~(i[2] > calls[i[1]])
                 PROVE  /\ result[i[1]][i[2]] = "none" => CallPhase[i] = "open"
                        /\ result[i[1]][i[2]] \in {"ok", "error"} => CallPhase[i] = result[i[1]][i[2]]
                        /\ result[i[1]][i[2]] = "mismatch" => CallPhase[i] = "refused"
                        /\ result[i[1]][i[2]] \notin {"none", "ok", "error", "mismatch"} => CallPhase[i] = "unknown"
      OBVIOUS
    <2>1. CASE result[i[1]][i[2]] = "none"
      BY <1>1, <2>1
    <2>2. CASE result[i[1]][i[2]] = "ok"
      BY <1>1, <2>2
    <2>3. CASE result[i[1]][i[2]] = "error"
      BY <1>1, <2>3
    <2>4. CASE result[i[1]][i[2]] = "mismatch"
      BY <1>1, <2>4
    <2>5. CASE result[i[1]][i[2]] \notin {"none", "ok", "error", "mismatch"}
      BY <1>1, <2>5
    <2> QED BY <2>1, <2>2, <2>3, <2>4, <2>5
  <1>4. IsMutation[i] = (i[2] <= calls[i[1]] /\ Normal[command[i[1]][i[2]]] \in Mutations)
    BY Zenon DEF IsMutation
  <1>5. CallRuns[i] = Cardinality(RunsOf(i))
    BY DEF CallRuns
  <1> QED BY <1>2, <1>3, <1>4, <1>5

LEMMA PhaseAtNext ==
  ASSUME NEW i \in CallIds
  PROVE  /\ i[2] > calls'[i[1]] => CallPhase'[i] = "new"
         /\ ~(i[2] > calls'[i[1]]) =>
              /\ result'[i[1]][i[2]] = "none" => CallPhase'[i] = "open"
              /\ result'[i[1]][i[2]] \in {"ok", "error"} => CallPhase'[i] = result'[i[1]][i[2]]
              /\ result'[i[1]][i[2]] = "mismatch" => CallPhase'[i] = "refused"
              /\ result'[i[1]][i[2]] \notin {"none", "ok", "error", "mismatch"} => CallPhase'[i] = "unknown"
         /\ IsMutation'[i] = (i[2] <= calls'[i[1]] /\ Normal[command'[i[1]][i[2]]] \in Mutations)
         /\ CallRuns'[i] = Cardinality(RunsOf(i)')
  <1>1. CallPhase'[i] =
          IF i[2] > calls'[i[1]] THEN "new"
          ELSE CASE result'[i[1]][i[2]] = "none" -> "open"
                 [] result'[i[1]][i[2]] \in {"ok", "error"} -> result'[i[1]][i[2]]
                 [] result'[i[1]][i[2]] = "mismatch" -> "refused"
                 [] OTHER -> "unknown"
    BY DEF CallPhase
  <1>2. i[2] > calls'[i[1]] => CallPhase'[i] = "new"
    BY <1>1
  <1>3. ~(i[2] > calls'[i[1]]) =>
          /\ result'[i[1]][i[2]] = "none" => CallPhase'[i] = "open"
          /\ result'[i[1]][i[2]] \in {"ok", "error"} => CallPhase'[i] = result'[i[1]][i[2]]
          /\ result'[i[1]][i[2]] = "mismatch" => CallPhase'[i] = "refused"
          /\ result'[i[1]][i[2]] \notin {"none", "ok", "error", "mismatch"} => CallPhase'[i] = "unknown"
    <2> SUFFICES ASSUME ~(i[2] > calls'[i[1]])
                 PROVE  /\ result'[i[1]][i[2]] = "none" => CallPhase'[i] = "open"
                        /\ result'[i[1]][i[2]] \in {"ok", "error"} => CallPhase'[i] = result'[i[1]][i[2]]
                        /\ result'[i[1]][i[2]] = "mismatch" => CallPhase'[i] = "refused"
                        /\ result'[i[1]][i[2]] \notin {"none", "ok", "error", "mismatch"} => CallPhase'[i] = "unknown"
      OBVIOUS
    <2>1. CASE result'[i[1]][i[2]] = "none"
      BY <1>1, <2>1
    <2>2. CASE result'[i[1]][i[2]] = "ok"
      BY <1>1, <2>2
    <2>3. CASE result'[i[1]][i[2]] = "error"
      BY <1>1, <2>3
    <2>4. CASE result'[i[1]][i[2]] = "mismatch"
      BY <1>1, <2>4
    <2>5. CASE result'[i[1]][i[2]] \notin {"none", "ok", "error", "mismatch"}
      BY <1>1, <2>5
    <2> QED BY <2>1, <2>2, <2>3, <2>4, <2>5
  <1>4. IsMutation'[i] = (i[2] <= calls'[i[1]] /\ Normal[command'[i[1]][i[2]]] \in Mutations)
    BY Zenon DEF IsMutation
  <1>5. CallRuns'[i] = Cardinality(RunsOf(i)')
    BY DEF CallRuns
  <1> QED BY <1>2, <1>3, <1>4, <1>5

\* A call whose caller, number and result stay the same is the same call to the contract.
LEMMA SamePhase ==
  ASSUME NEW i \in CallIds, result'[i[1]][i[2]] = result[i[1]][i[2]],
         i[2] > calls'[i[1]] <=> i[2] > calls[i[1]]
  PROVE  CallPhase'[i] = CallPhase[i]
  BY DEF CallPhase

LEMMA SameRuns == started' = started => CallRuns' = CallRuns
  <1> SUFFICES ASSUME started' = started PROVE CallRuns' = CallRuns
    OBVIOUS
  <1>1. \A i \in CallIds : RunsOf(i)' = RunsOf(i)
    BY DEF RunsOf
  <1> QED BY <1>1 DEF CallRuns, CallIds

LEMMA BeginSimulates ==
  ASSUME ContractInv, NEW d \in Callers, NEW cmd \in Commands, NEW b \in BOOLEAN, BeginCall(d, cmd, b)
  PROVE  Contract!ContractNext
  <1> DEFINE id == <<d, calls[d] + 1>>
             m == Normal[cmd] \in Mutations
  <1>0. /\ calls \in [Callers -> 0..MaxCalls] /\ calls[d] < MaxCalls /\ MaxCalls \in Nat
        /\ command \in [Callers -> [1..MaxCalls -> Commands \cup {None}]]
        /\ result \in [Callers -> [1..MaxCalls -> Results]]
        /\ calls' = [calls EXCEPT ![d] = @ + 1] /\ result' = result /\ started' = started
        /\ command' = [command EXCEPT ![d][calls[d] + 1] = cmd]
    BY BridgeAssumption DEF ContractInv, RefusalInv, OnceInv, TypeInv, TypeOK, BeginCall, uiVars
  <1>1. calls[d] \in 0..MaxCalls /\ calls[d] + 1 \in 1..MaxCalls /\ id \in CallIds
    BY <1>0 DEF CallIds
  <1>2. id[1] = d /\ id[2] = calls[d] + 1 /\ calls'[d] = calls[d] + 1
    BY <1>0
  <1>3. CallPhase[id] = "new" /\ CallPhase'[id] = "open"
    <2>1. result[d][calls[d] + 1] = "none"
      BY <1>0, <1>1 DEF ContractInv, RefusalInv, ResultOK
    <2> QED BY <1>0, <1>1, <1>2, <2>1, PhaseAt, PhaseAtNext
  <1>4. IsMutation'[id] = m
    <2>1. command'[d][calls[d] + 1] = cmd
      BY <1>0, <1>1
    <2>2. id[2] <= calls'[id[1]]
      BY <1>1, <1>2
    <2> QED BY <1>1, <1>2, <2>1, <2>2, PhaseAtNext
  <1>5. ASSUME NEW i \in CallIds, i # id
        PROVE  CallPhase'[i] = CallPhase[i] /\ IsMutation'[i] = IsMutation[i]
    <2>1. i[1] \in Callers /\ i[2] \in 1..MaxCalls /\ i = <<i[1], i[2]>>
      BY CallId
    <2>2. i[2] > calls'[i[1]] <=> i[2] > calls[i[1]]
      BY <1>0, <1>1, <1>5, <2>1
    <2>3. i[2] <= calls'[i[1]] <=> i[2] <= calls[i[1]]
      BY <1>0, <1>1, <1>5, <2>1
    <2>4. command'[i[1]][i[2]] = command[i[1]][i[2]]
      BY <1>0, <1>1, <1>5, <2>1
    <2>5. CallPhase'[i] = CallPhase[i]
      BY <1>0, <2>2, SamePhase
    <2> QED BY <2>3, <2>4, <2>5, PhaseAt, PhaseAtNext
  <1> HIDE DEF id, m
  <1>6. CallPhase' = [CallPhase EXCEPT ![id] = "open"]
    BY <1>1, <1>3, <1>5, MappedFunctions, ExceptAt
  <1>7. IsMutation' = [IsMutation EXCEPT ![id] = m]
    BY <1>1, <1>4, <1>5, MappedFunctions, ExceptAt
  <1>8. Contract!Begin(id, m)
    BY <1>0, <1>3, <1>6, <1>7, SameRuns DEF Contract!Begin
  <1>9. m \in BOOLEAN
    BY DEF m
  <1> QED BY <1>1, <1>8, <1>9 DEF Contract!ContractNext

\* How the contract sees a result.
HowOf(s) == IF s \in {"ok", "error"} THEN s ELSE IF s = "mismatch" THEN "refused" ELSE "unknown"

LEMMA EndSimulates ==
  ASSUME ContractInv, NEW d \in Callers, NEW s \in Results, Ending(d, s)
  PROVE  Contract!ContractNext
  <1> DEFINE id == <<d, calls[d]>>
  <1>0. /\ calls \in [Callers -> 0..MaxCalls] /\ MaxCalls \in Nat
        /\ result \in [Callers -> [1..MaxCalls -> Results]]
        /\ calls' = calls /\ started' = started /\ command' = command
        /\ result' = [result EXCEPT ![d][calls[d]] = s] /\ s # "none" /\ pc[d] # "idle"
        /\ TypeInv /\ OnceInv /\ ResultOK /\ EnteredOK /\ LaneInv /\ RunInv
    BY BridgeAssumption DEF ContractInv, RefusalInv, OnceInv, TypeInv, TypeOK, Ending, Finish
  <1>1. calls[d] \in 1..MaxCalls /\ id \in CallIds
    BY <1>0, CallNo DEF CallIds
  <1>2. id[1] = d /\ id[2] = calls[d] /\ result'[d][calls[d]] = s /\ ~(calls[d] > calls[d])
    BY <1>0, <1>1
  <1>3. CallPhase[id] = "open" /\ CallPhase'[id] = HowOf(s)
    <2>1. result[d][calls[d]] = "none"
      BY <1>0 DEF ResultOK
    <2>2. CallPhase[id] = "open"
      BY <1>1, <1>2, <2>1, PhaseAt
    <2>3. ~(id[2] > calls'[id[1]]) /\ result'[id[1]][id[2]] = s
      BY <1>0, <1>2
    <2> HIDE DEF id
    <2>4. CallPhase'[id] = HowOf(s)
      <3>1. CASE s \in {"ok", "error"}
        BY <1>1, <2>3, <3>1, PhaseAtNext DEF HowOf
      <3>2. CASE s = "mismatch"
        BY <1>1, <2>3, <3>2, PhaseAtNext DEF HowOf
      <3>3. CASE s \notin {"ok", "error", "mismatch"}
        BY <1>0, <1>1, <2>3, <3>3, PhaseAtNext DEF HowOf
      <3> QED BY <3>1, <3>2, <3>3
    <2> QED BY <2>2, <2>4
  <1>4. ASSUME NEW i \in CallIds, i # id PROVE CallPhase'[i] = CallPhase[i]
    <2>1. i[1] \in Callers /\ i[2] \in 1..MaxCalls /\ i = <<i[1], i[2]>>
      BY CallId
    <2>2. result'[i[1]][i[2]] = result[i[1]][i[2]]
      BY <1>0, <1>1, <1>4, <2>1
    <2> QED BY <1>0, <2>2, SamePhase
  <1>5. IsMutation' = IsMutation
    BY <1>0 DEF IsMutation, CallIds
  <1>6. HowOf(s) = "ok" => CallRuns[id] > 0
    <2> SUFFICES ASSUME s = "ok" PROVE CallRuns[id] > 0
      BY DEF HowOf
    <2>1. Receive(d) /\ Head(outbox[Mine(d)]).status = "ok"
      BY DEF Ending
    <2>2. Request(d) \in started
      BY <1>0, <2>1, ReceivedReply
    <2>3. Request(d) \in RunsOf(id) /\ RunsOf(id) \subseteq started
      BY <2>2 DEF RunsOf, Request
    <2>4. IsFiniteSet(RunsOf(id))
      BY <1>0, <2>3, FS_Subset DEF RunInv
    <2>5. Cardinality(RunsOf(id)) # 0 /\ Cardinality(RunsOf(id)) \in Nat
      BY <2>3, <2>4, FS_EmptySet, FS_CardinalityType
    <2>6. CallRuns[id] = Cardinality(RunsOf(id))
      BY <1>1, PhaseAt
    <2> HIDE DEF id
    <2> QED BY <2>5, <2>6
  <1>7. HowOf(s) = "refused" => CallRuns[id] = 0
    <2> SUFFICES ASSUME s = "mismatch" PROVE CallRuns[id] = 0
      BY DEF HowOf
    <2>1. pc[d] = "enter"
      BY DEF Ending
    <2>2. ASSUME NEW r \in RunsOf(id) PROVE FALSE
      <3>1. r \in started /\ r.caller = d /\ r.no = calls[d]
        BY <2>2 DEF RunsOf
      <3>2. r \in Requests /\ Known(r)
        BY <1>0, <3>1 DEF TypeInv, TypeOK, Known
      <3> QED BY <1>0, <2>1, <3>1, <3>2 DEF EnteredOK
    <2>3. RunsOf(id) = {}
      BY <2>2
    <2>4. CallRuns[id] = Cardinality(RunsOf(id))
      BY <1>1, PhaseAt
    <2> HIDE DEF id
    <2> QED BY <2>3, <2>4, FS_EmptySet
  <1> HIDE DEF id
  <1>8. CallPhase' = [CallPhase EXCEPT ![id] = HowOf(s)]
    BY <1>1, <1>3, <1>4, MappedFunctions, ExceptAt
  <1>9. Contract!Return(id, HowOf(s))
    BY <1>0, <1>3, <1>5, <1>6, <1>7, <1>8, SameRuns DEF Contract!Return
  <1>10. HowOf(s) \in {"ok", "error", "refused", "unknown"}
    BY DEF HowOf
  <1> QED BY <1>1, <1>9, <1>10 DEF Contract!ContractNext

\* What Live's thread takes was sent.
LEMMA CurrentKnown ==
  ASSUME TypeInv, Pending
  PROVE  Known(Current)
  BY DEF TypeInv, TypeOK, Pending, Current, Known, InFlight

LEMMA RunSimulates ==
  ASSUME PlainNames, ContractInv, Pending, NEW r \in Requests, r = Current, r \notin started,
         started' = started \cup {r}, UNCHANGED <<calls, command, result>>
  PROVE  Contract!ContractNext
  <1> DEFINE id == <<r.caller, r.no>>
  <1>0. /\ TypeInv /\ KnownOK /\ EnteredOK /\ RunInv /\ SettledOK /\ MaxCalls \in Nat
        /\ calls \in [Callers -> 0..MaxCalls] /\ started \subseteq Requests
        /\ result \in [Callers -> [1..MaxCalls -> Results]]
    BY BridgeAssumption DEF ContractInv, RefusalInv, OnceInv, TypeInv, TypeOK
  <1>1. Known(r) /\ r \in Requests
    BY <1>0, CurrentKnown
  <1>2. ~Refused(r)
    <2>1. queue \in Seq(Requests)
      BY <1>0 DEF TypeInv, TypeOK
    <2>2. CASE active # None
      BY <1>0, <2>2 DEF Current, RunInv, QueueOK
    <2>3. CASE active = None
      <3>1. queue # <<>> /\ Current = queue[1] /\ 1 \in DOMAIN queue
        BY <2>1, <2>3 DEF Pending, Current
      <3> QED BY <1>0, <3>1 DEF RunInv, QueueOK
    <2> QED BY <2>2, <2>3
  <1>3. r.caller \in Callers /\ r.no \in 1..MaxCalls /\ id \in CallIds /\ r.cmd \in Commands
        /\ id[1] = r.caller /\ id[2] = r.no
    BY <1>1 DEF Requests, CallIds
  <1>4. r.no <= calls[r.caller] /\ r.cmd = command[r.caller][r.no] /\ (r.cmd \in Mutations => r.try = 0)
    BY <1>0, <1>1 DEF KnownOK
  <1>5. ~(r.no > calls[r.caller]) /\ result[r.caller][r.no] \in Results
        /\ result[r.caller][r.no] # "mismatch"
    BY <1>0, <1>1, <1>3, <1>4 DEF EnteredOK
  <1> HIDE DEF id
  <1>6. CallPhase[id] \in Contract!Phases \ {"new", "refused"}
    BY <1>3, <1>5, PhaseAt DEF Contract!Phases
  <1>7. IsMutation[id] => r.cmd \in Mutations
    <2>1. IsMutation[id] = (id[2] <= calls[id[1]] /\ Normal[command[id[1]][id[2]]] \in Mutations)
      BY <1>3, PhaseAt
    <2>2. command[id[1]][id[2]] = r.cmd /\ Normal[r.cmd] = r.cmd
      BY <1>3, <1>4 DEF PlainNames
    <2> QED BY <2>1, <2>2
  <1>8. IsMutation[id] => CallPhase[id] \in {"open", "unknown"}
    <2> SUFFICES ASSUME IsMutation[id] PROVE CallPhase[id] \in {"open", "unknown"}
      OBVIOUS
    <2>1. result[r.caller][r.no] \notin {"ok", "error"}
      BY <1>0, <1>1, <1>2, <1>7 DEF SettledOK
    <2> QED BY <1>3, <1>5, <2>1, PhaseAt
  <1>9. IsMutation[id] => CallRuns[id] = 0
    <2> SUFFICES ASSUME IsMutation[id] PROVE CallRuns[id] = 0
      OBVIOUS
    <2>1. ASSUME NEW q \in RunsOf(id) PROVE FALSE
      <3>1. q \in started /\ q \in Requests /\ q.caller = r.caller /\ q.no = r.no
        BY <1>0, <1>3, <2>1 DEF RunsOf
      <3>2. Known(q)
        BY <3>1 DEF Known
      <3>3. q.cmd = r.cmd /\ q.try = 0 /\ r.try = 0
        BY <1>0, <1>4, <1>7, <3>1, <3>2 DEF KnownOK
      <3>4. q = r
        BY <1>1, <3>1, <3>3 DEF Requests
      <3> QED BY <3>1, <3>4
    <2>2. RunsOf(id) = {}
      BY <2>1
    <2> QED BY <1>3, <2>2, PhaseAt, FS_EmptySet
  <1>10. CallRuns'[id] = CallRuns[id] + 1
    <2>1. RunsOf(id)' = RunsOf(id) \cup {r} /\ r \notin RunsOf(id) /\ RunsOf(id) \subseteq started
      BY <1>3 DEF RunsOf
    <2>2. IsFiniteSet(RunsOf(id))
      BY <1>0, <2>1, FS_Subset DEF RunInv
    <2>3. Cardinality(RunsOf(id) \cup {r}) = Cardinality(RunsOf(id)) + 1
      BY <2>1, <2>2, FS_AddElement
    <2>4. CallRuns[id] = Cardinality(RunsOf(id)) /\ CallRuns'[id] = Cardinality(RunsOf(id)')
      BY <1>3, PhaseAt, PhaseAtNext
    <2> QED BY <2>1, <2>3, <2>4
  <1>11. ASSUME NEW i \in CallIds, i # id PROVE CallRuns'[i] = CallRuns[i]
    <2>1. i = <<i[1], i[2]>>
      BY CallId
    <2>2. ~(r.caller = i[1] /\ r.no = i[2])
      BY <1>11, <2>1 DEF id
    <2>3. RunsOf(i)' = RunsOf(i)
      BY <2>2 DEF RunsOf
    <2> QED BY <2>3, PhaseAt, PhaseAtNext
  <1>12. CallRuns' = [CallRuns EXCEPT ![id] = CallRuns[id] + 1]
    BY <1>3, <1>10, <1>11, MappedFunctions, ExceptAt
  <1>13. CallPhase' = CallPhase /\ IsMutation' = IsMutation
    BY DEF CallPhase, IsMutation, CallIds
  <1>14. Contract!Run(id)
    BY <1>6, <1>8, <1>9, <1>12, <1>13 DEF Contract!Run
  <1> QED BY <1>3, <1>14 DEF Contract!ContractNext

\* Every step of the bridge is a step of the contract, or none.
LEMMA ContractStep ==
  ASSUME PlainNames, ContractInv, [Next]_vars
  PROVE  [Contract!ContractNext]_(Contract!contractVars)
  <1>0. TypeInv
    BY DEF ContractInv, RefusalInv, OnceInv
  <1>1. ASSUME UNCHANGED <<calls, command, result>>
        PROVE  [Contract!ContractNext]_(Contract!contractVars)
    <2>1. CallPhase' = CallPhase /\ IsMutation' = IsMutation
      BY <1>1 DEF CallPhase, IsMutation, CallIds
    <2>2. CASE started' = started
      BY <2>1, <2>2, SameRuns DEF Contract!contractVars
    <2>3. CASE /\ Pending /\ Current \in Requests /\ started' = started \cup {Current}
               /\ started' # started
      <3>1. PICK r \in Requests : r = Current
        BY <2>3
      <3>2. r \notin started /\ started' = started \cup {r}
        BY <2>3, <3>1
      <3> QED BY <1>1, <2>3, <3>1, <3>2, RunSimulates
    <2> QED BY <1>0, <2>2, <2>3, RunStep
  <1>2. ASSUME NEW d \in Callers, NEW cmd \in Commands, NEW b \in BOOLEAN, BeginCall(d, cmd, b)
        PROVE  Contract!ContractNext
    BY <1>2, BeginSimulates
  <1>3. ASSUME NEW d \in Callers, NEW s \in Results, Ending(d, s)
        PROVE  Contract!ContractNext
    BY <1>3, EndSimulates
  <1> QED BY <1>0, <1>1, <1>2, <1>3, StepKinds DEF Going

LEMMA ContractStart == Init => Contract!ContractInit
  <1> SUFFICES ASSUME Init PROVE Contract!ContractInit
    OBVIOUS
  <1>1. ASSUME NEW i \in CallIds
        PROVE  CallPhase[i] = "new" /\ IsMutation[i] = FALSE /\ CallRuns[i] = 0
    <2>1. i[1] \in Callers /\ i[2] \in 1..MaxCalls /\ MaxCalls \in Nat
      BY CallId, BridgeAssumption
    <2>2. calls[i[1]] = 0 /\ RunsOf(i) = {}
      BY <2>1 DEF Init, RunsOf
    <2>3. i[2] > calls[i[1]] /\ ~(i[2] <= calls[i[1]])
      BY <2>1, <2>2
    <2>4. IsMutation[i] = (i[2] <= calls[i[1]] /\ Normal[command[i[1]][i[2]]] \in Mutations)
      BY PhaseAt
    <2> QED BY <2>2, <2>3, <2>4, PhaseAt, FS_EmptySet
  <1> QED BY <1>1, MappedFunctions DEF Contract!ContractInit

\* The bridge keeps the contract of CallContract, if callers spell the names of mutations
\* as the catalogue does: each step of the client, the socket threads and Live's thread is a
\* call that is made, a run of its command or its return as the contract allows it, so a
\* mutation that was answered, or refused, never runs again, and ok means that it ran.
THEOREM BridgeKeepsContract == PlainNames => (Spec => KeepsContract)
  <1> SUFFICES ASSUME PlainNames PROVE Spec => KeepsContract
    OBVIOUS
  <1>1. ContractInv /\ [Next]_vars => [Contract!ContractNext]_(Contract!contractVars)
    BY ContractStep
  <1> QED BY <1>1, ContractStart, ContractInvInit, ContractInvStep, PTL
          DEF Spec, KeepsContract, Contract!ContractSpec
==============================================================================
