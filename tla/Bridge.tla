-------------------------------- MODULE Bridge --------------------------------
(***************************************************************************)
(* A call over the TCP bridge, end to end: Client.call and call_at_epoch   *)
(* of the MCP server (client.py), the connection, the socket thread that   *)
(* serves it and the queue that Live's thread drains (socket_server.py).   *)
(*                                                                         *)
(* A caller holds the client's lock for the whole call; the connection,    *)
(* its socket thread and Live's thread go on without it when it gives up.  *)
(* Timeouts may expire at any moment at which they are being waited for.   *)
(***************************************************************************)
EXTENDS Integers, Sequences, FiniteSets

CONSTANTS
  Callers,      \* threads that use a client
  Clients,      \* Client objects
  ClientOf,     \* the client each caller uses
  Commands,     \* command names, as callers spell them
  Normal,       \* command.strip().lower()
  Mutations,    \* ALLOWED_MUTATIONS
  Blocked,      \* READ_ONLY_COMMANDS, refused by the socket thread
  Oversized,    \* commands whose frame exceeds 1 MiB
  Large,        \* commands whose frame need not fit the buffers of a socket
  MaxRetries,   \* max_retries
  MaxPerTick,   \* max_requests of process_pending
  MaxCalls,     \* bound: calls per caller
  MaxConns,     \* bound: connections ever established
  MaxSteps,     \* bound: ticks a deferred command yields to Live
  MaxBreaks,    \* bound: connections that break by themselves
  MaxRestarts,  \* bound: restarts of the Remote Script
  None          \* Python's None

Conns == 1..MaxConns

\* A request as it travels: the attempt it was sent for, and its command.
Requests == [caller : Callers, no : 1..MaxCalls, try : 0..MaxRetries, cmd : Commands]
ASSUME BridgeAssumption ==
  /\ ClientOf \in [Callers -> Clients]
  /\ Normal \in [Commands -> Commands]
  /\ Mutations \subseteq Commands /\ Blocked \subseteq Commands
  /\ Oversized \subseteq Large /\ Large \subseteq Commands
  /\ MaxRetries \in Nat /\ MaxCalls \in Nat /\ MaxConns \in Nat
  /\ MaxPerTick \in Nat \ {0}
  /\ MaxSteps \in Nat /\ MaxBreaks \in Nat /\ MaxRestarts \in Nat
  /\ None \notin Callers \cup Commands \cup Requests

\* What every caller in the repository does: it names commands as the catalogue
\* spells them, so that the client's view of a command is Live's.
PlainNames == \A cmd \in Commands : Normal[cmd] = cmd

Replies  == [req : Requests, status : {"ok", "error", "TIMEOUT"}]
Results  == {"none", "ok", "error", "TIMEOUT",        \* answered
             "timeout", "unavailable",                \* Client.call gave up
             "mismatch", "ambiguous"}                 \* Client.call_at_epoch

VARIABLES
  \* client.py
  owner,      \* per client: the caller that holds _lock
  conn,       \* per client: its connection, 0 when not connected
  epoch,      \* per client: _connection_epoch
  timed,      \* per client: its socket has a deadline
  pc,         \* per caller: where it is in its call
  calls,      \* per caller: number of calls made
  command,    \* per caller and call: the command it asked for
  job,        \* per caller: the mode of its call, and the attempt it is at
  seen,       \* per caller: the connection snapshot it took last
  result,     \* per caller and call: how the call ended
  \* the connections
  made,       \* number of connections established
  up,         \* per connection: it has not been reset
  inbox,      \* per connection: frames the socket thread has not read
  outbox,     \* per connection: replies the client has not read
  \* socket_server.py
  hpc,        \* per connection: its socket thread
  hreq,       \* per connection: the request its socket thread waits for
  queue,      \* request_queue
  active,     \* active_request
  steps,      \* times the active request has yielded
  budget,     \* requests Live's thread may still finish in this tick, 0 between ticks
  answers,    \* what was put into response queues (each belongs to one request)
  \* bounds and history
  breaks, restarts,
  started     \* requests that have begun to run

clientVars == <<owner, conn, epoch, timed, pc, calls, command, job, seen, result>>
serverVars == <<hpc, hreq>>
uiVars     == <<active, steps, budget, answers, started>>
vars == <<clientVars, made, up, inbox, outbox, serverVars, queue, uiVars, breaks, restarts>>

TypeOK ==
  /\ owner \in [Clients -> Callers \cup {None}]
  /\ conn \in [Clients -> 0..MaxConns]
  /\ epoch \in [Clients -> Nat]
  /\ timed \in [Clients -> BOOLEAN]
  /\ pc \in [Callers -> {"idle", "enter", "loop", "await"}]
  /\ calls \in [Callers -> 0..MaxCalls]
  /\ command \in [Callers -> [1..MaxCalls -> Commands \cup {None}]]
  /\ job \in [Callers -> [atEpoch : BOOLEAN, try : 0..MaxRetries]]
  /\ seen \in [Callers -> [epoch : Nat, conn : 0..MaxConns]]
  /\ result \in [Callers -> [1..MaxCalls -> Results]]
  /\ made \in 0..MaxConns
  /\ up \in [Conns -> BOOLEAN]
  /\ inbox \in [Conns -> Seq(Requests)]
  /\ outbox \in [Conns -> Seq(Replies)]
  /\ hpc \in [Conns -> {"none", "recv", "wait", "done"}]
  /\ hreq \in [Conns -> Requests \cup {None}]
  /\ queue \in Seq(Requests)
  /\ active \in Requests \cup {None}
  /\ steps \in 0..MaxSteps
  /\ budget \in 0..MaxPerTick
  /\ answers \subseteq Replies
  /\ breaks \in 0..MaxBreaks /\ restarts \in 0..MaxRestarts
  /\ started \subseteq Requests
------------------------------------------------------------------------------
Init ==
  /\ owner = [k \in Clients |-> None]
  /\ conn = [k \in Clients |-> 0]
  /\ epoch = [k \in Clients |-> 0]
  /\ timed = [k \in Clients |-> FALSE]
  /\ pc = [c \in Callers |-> "idle"]
  /\ calls = [c \in Callers |-> 0]
  /\ command = [c \in Callers |-> [n \in 1..MaxCalls |-> None]]
  /\ job = [c \in Callers |-> [atEpoch |-> FALSE, try |-> 0]]
  /\ seen = [c \in Callers |-> [epoch |-> 0, conn |-> 0]]
  /\ result = [c \in Callers |-> [n \in 1..MaxCalls |-> "none"]]
  /\ made = 0
  /\ up = [i \in Conns |-> TRUE]
  /\ inbox = [i \in Conns |-> <<>>]
  /\ outbox = [i \in Conns |-> <<>>]
  /\ hpc = [i \in Conns |-> "none"]
  /\ hreq = [i \in Conns |-> None]
  /\ queue = <<>> /\ active = None /\ steps = 0 /\ budget = 0
  /\ answers = {} /\ started = {}
  /\ breaks = 0 /\ restarts = 0

(*************************** Client.call ***********************************)
Mine(c) == conn[ClientOf[c]]

\* The frame the caller's current attempt sends.
Command(c) == command[c][calls[c]]
Request(c) == [caller |-> c, no |-> calls[c], try |-> job[c].try, cmd |-> Command(c)]

\* connection_snapshot, read under the lock.
Snapshot(c) ==
  /\ pc[c] = "idle" /\ calls[c] < MaxCalls /\ owner[ClientOf[c]] = None
  /\ seen' = [seen EXCEPT ![c] = [epoch |-> epoch[ClientOf[c]], conn |-> Mine(c)]]
  /\ UNCHANGED <<owner, conn, epoch, timed, pc, calls, command, job, result>>
  /\ UNCHANGED <<made, up, inbox, outbox, serverVars, queue, uiVars, breaks, restarts>>

\* call or call_at_epoch is entered and waits for the lock.
BeginCall(c, cmd, atEpoch) ==
  /\ pc[c] = "idle" /\ calls[c] < MaxCalls
  /\ calls' = [calls EXCEPT ![c] = @ + 1]
  /\ command' = [command EXCEPT ![c][calls[c] + 1] = cmd]
  /\ job' = [job EXCEPT ![c] = [atEpoch |-> atEpoch, try |-> 0]]
  /\ pc' = [pc EXCEPT ![c] = "enter"]
  /\ UNCHANGED <<owner, conn, epoch, timed, seen, result>>
  /\ UNCHANGED <<made, up, inbox, outbox, serverVars, queue, uiVars, breaks, restarts>>

\* The call ends with result r and the lock is released.
Finish(c, r) ==
  /\ result' = [result EXCEPT ![c][calls[c]] = r]
  /\ pc' = [pc EXCEPT ![c] = "idle"]
  /\ owner' = [owner EXCEPT ![ClientOf[c]] = None]

Enter(c) ==
  /\ pc[c] = "enter" /\ owner[ClientOf[c]] = None
  /\ IF job[c].atEpoch /\ (Mine(c) = 0 \/ epoch[ClientOf[c]] # seen[c].epoch)
     THEN Finish(c, "mismatch")
     ELSE /\ owner' = [owner EXCEPT ![ClientOf[c]] = c]
          /\ pc' = [pc EXCEPT ![c] = "loop"]
          /\ UNCHANGED result
  /\ UNCHANGED <<conn, epoch, timed, calls, command, job, seen>>
  /\ UNCHANGED <<made, up, inbox, outbox, serverVars, queue, uiVars, breaks, restarts>>

\* Mutant: only closing counts as a change of connection.
NewConnectionKeepsEpoch(k) ==
  /\ made < MaxConns
  /\ made' = made + 1
  /\ conn' = [conn EXCEPT ![k] = made + 1]
  /\ UNCHANGED epoch

\* _connect_socket: there is nothing to close, a socket is there iff connected.
NewConnection(k) ==
  /\ made < MaxConns
  /\ made' = made + 1
  /\ conn' = [conn EXCEPT ![k] = made + 1]
  /\ epoch' = [epoch EXCEPT ![k] = @ + 1]

Connect(c) ==
  /\ pc[c] = "loop" /\ Mine(c) = 0
  /\ NewConnection(ClientOf[c])
  /\ UNCHANGED <<owner, timed, pc, calls, command, job, seen, result>>
  /\ UNCHANGED <<up, inbox, outbox, serverVars, queue, uiVars, breaks, restarts>>

\* sendall returns, which on a connection that was reset it may still seem to do;
\* _read_line sets the deadline of the socket, and it stays for the calls to come.
Send(c) ==
  /\ pc[c] = "loop" /\ Mine(c) # 0
  /\ inbox' = IF up[Mine(c)] THEN [inbox EXCEPT ![Mine(c)] = Append(@, Request(c))]
                             ELSE inbox
  /\ timed' = [timed EXCEPT ![ClientOf[c]] = TRUE]
  /\ pc' = [pc EXCEPT ![c] = "await"]
  /\ UNCHANGED <<owner, conn, epoch, calls, command, job, seen, result>>
  /\ UNCHANGED <<made, up, outbox, serverVars, queue, uiVars, breaks, restarts>>

\* _close_locked(increment=True): what has not been read never will be.
CloseLocked(k) ==
  IF conn[k] = 0
  THEN UNCHANGED <<conn, epoch, timed, outbox>>
  ELSE /\ conn' = [conn EXCEPT ![k] = 0]
       /\ epoch' = [epoch EXCEPT ![k] = @ + 1]
       /\ timed' = [timed EXCEPT ![k] = FALSE]
       /\ outbox' = [outbox EXCEPT ![conn[k]] = <<>>]

\* Mutant: the connection outlives the deadline.
TimeOutKeepsConnection(c) ==
  /\ pc[c] = "await"
  /\ Finish(c, IF job[c].atEpoch THEN "ambiguous" ELSE "timeout")
  /\ UNCHANGED <<conn, epoch, timed, calls, command, job, seen>>
  /\ UNCHANGED <<made, up, inbox, outbox, serverVars, queue, uiVars, breaks, restarts>>

\* Mutant: no socket is ever given a deadline.
TimeOutNever(c) == pc[c] = "await" /\ FALSE /\ UNCHANGED vars

\* except TimeoutError: never retried, whatever the command. The deadline is one
\* of each recv, so it may expire while part of the reply has arrived. It is one of
\* sendall too, where a large frame gets stuck, but not on a new socket. What ends an
\* attempt to connect is the operating system alone.
TimeOut(c) ==
  /\ \/ pc[c] = "await"
     \/ pc[c] = "loop" /\ Mine(c) = 0
     \/ pc[c] = "loop" /\ timed[ClientOf[c]] /\ Command(c) \in Large
  /\ CloseLocked(ClientOf[c])
  /\ Finish(c, IF job[c].atEpoch THEN "ambiguous" ELSE "timeout")
  /\ UNCHANGED <<calls, command, job, seen>>
  /\ UNCHANGED <<made, up, inbox, serverVars, queue, uiVars, breaks, restarts>>

\* Mutant: every command is retried.
MayRetryAll(c) == ~job[c].atEpoch /\ job[c].try < MaxRetries

\* may_retry = command_type not in ALLOWED_MUTATIONS, on the name as spelled.
MayRetry(c) ==
  ~job[c].atEpoch /\ Command(c) \notin Mutations /\ job[c].try < MaxRetries

\* except (ConnectionError, OSError): connecting is refused, sending fails on a
\* connection that was reset, or the reply never comes.
ConnectionError(c) ==
  /\ \/ pc[c] = "loop" /\ (Mine(c) # 0 => ~up[Mine(c)])
     \/ pc[c] = "await" /\ (Mine(c) # 0 => ~up[Mine(c)])
  /\ CloseLocked(ClientOf[c])
  /\ IF MayRetry(c)
     THEN /\ job' = [job EXCEPT ![c].try = @ + 1]
          /\ pc' = [pc EXCEPT ![c] = "loop"]
          /\ UNCHANGED <<owner, result>>
     ELSE /\ Finish(c, IF job[c].atEpoch THEN "ambiguous" ELSE "unavailable")
          /\ UNCHANGED job
  /\ UNCHANGED <<calls, command, seen>>
  /\ UNCHANGED <<made, up, inbox, serverVars, queue, uiVars, breaks, restarts>>

\* A reply line arrives. An error envelope is an answer: the connection is kept.
Receive(c) ==
  /\ pc[c] = "await" /\ Mine(c) # 0 /\ outbox[Mine(c)] # <<>>
  /\ Finish(c, Head(outbox[Mine(c)]).status)
  /\ outbox' = [outbox EXCEPT ![Mine(c)] = Tail(@)]
  /\ UNCHANGED <<conn, epoch, timed, calls, command, job, seen>>
  /\ UNCHANGED <<made, up, inbox, serverVars, queue, uiVars, breaks, restarts>>

\* Client.connect and Client.close, called while nobody holds the lock.
ConnectClient(k) ==
  /\ owner[k] = None /\ conn[k] = 0
  /\ NewConnection(k)
  /\ UNCHANGED <<owner, timed, pc, calls, command, job, seen, result>>
  /\ UNCHANGED <<up, inbox, outbox, serverVars, queue, uiVars, breaks, restarts>>

CloseClient(k) ==
  /\ owner[k] = None /\ conn[k] # 0
  /\ CloseLocked(k)
  /\ UNCHANGED <<owner, pc, calls, command, job, seen, result>>
  /\ UNCHANGED <<made, up, inbox, serverVars, queue, uiVars, breaks, restarts>>

(*************************** socket threads ********************************)
\* The connection is gone for both ends: what the socket thread has not read is lost.
Reset(i) ==
  /\ up' = [up EXCEPT ![i] = FALSE]
  /\ inbox' = [inbox EXCEPT ![i] = <<>>]

ClientEnd(i) == \E k \in Clients : conn[k] = i

\* accept: a thread of its own serves the connection.
Serve(i) ==
  /\ i <= made /\ hpc[i] = "none" /\ up[i]
  /\ hpc' = [hpc EXCEPT ![i] = "recv"]
  /\ UNCHANGED clientVars
  /\ UNCHANGED <<made, up, inbox, outbox, hreq, queue, uiVars, breaks, restarts>>

\* A frame whose client has closed meanwhile is still read and queued.
Enqueue(i) ==
  /\ hpc[i] = "recv" /\ up[i] /\ inbox[i] # <<>>
  /\ Head(inbox[i]).cmd \notin Oversized
  /\ Normal[Head(inbox[i]).cmd] \notin Blocked
  /\ queue' = Append(queue, Head(inbox[i]))
  /\ hreq' = [hreq EXCEPT ![i] = Head(inbox[i])]
  /\ hpc' = [hpc EXCEPT ![i] = "wait"]
  /\ inbox' = [inbox EXCEPT ![i] = Tail(@)]
  /\ UNCHANGED clientVars
  /\ UNCHANGED <<made, up, outbox, uiVars, breaks, restarts>>

Reply(i, req, status) ==
  outbox' = IF ClientEnd(i) THEN [outbox EXCEPT ![i] = Append(@, [req |-> req, status |-> status])]
                            ELSE outbox

\* Refused without Live, the connection stays.
Block(i) ==
  /\ hpc[i] = "recv" /\ up[i] /\ inbox[i] # <<>>
  /\ Head(inbox[i]).cmd \notin Oversized
  /\ Normal[Head(inbox[i]).cmd] \in Blocked
  /\ Reply(i, Head(inbox[i]), "error")
  /\ inbox' = [inbox EXCEPT ![i] = Tail(@)]
  /\ UNCHANGED clientVars
  /\ UNCHANGED <<made, up, serverVars, queue, uiVars, breaks, restarts>>

\* An oversized frame is answered with an error, then the connection is closed;
\* closing it with the rest of the frame unread may destroy the answer.
RejectFrame(i) ==
  /\ hpc[i] = "recv" /\ up[i] /\ inbox[i] # <<>>
  /\ Head(inbox[i]).cmd \in Oversized
  /\ Reply(i, Head(inbox[i]), "error") \/ UNCHANGED outbox
  /\ hpc' = [hpc EXCEPT ![i] = "done"]
  /\ Reset(i)
  /\ UNCHANGED clientVars
  /\ UNCHANGED <<made, hreq, queue, uiVars, breaks, restarts>>

\* After a reply the thread reads on; when it cannot send, it ends.
Replied(i, status) ==
  /\ hreq' = [hreq EXCEPT ![i] = None]
  /\ IF up[i]
     THEN /\ Reply(i, hreq[i], status)
          /\ hpc' = [hpc EXCEPT ![i] = "recv"]
     ELSE /\ hpc' = [hpc EXCEPT ![i] = "done"]
          /\ UNCHANGED outbox

\* response_queue.get returns what Live's thread put there.
Answer(i) ==
  /\ hpc[i] = "wait"
  /\ \E a \in answers : a.req = hreq[i] /\ Replied(i, a.status)
  /\ UNCHANGED clientVars
  /\ UNCHANGED <<made, up, inbox, queue, uiVars, breaks, restarts>>

\* Mutant: the expired wait is reported like any failed command.
GiveUpAsError(i) ==
  /\ hpc[i] = "wait"
  /\ \A a \in answers : a.req # hreq[i]
  /\ Replied(i, "error")
  /\ UNCHANGED clientVars
  /\ UNCHANGED <<made, up, inbox, queue, uiVars, breaks, restarts>>

\* response_queue.get raises Empty: the request stays where it is.
GiveUp(i) ==
  /\ hpc[i] = "wait"
  /\ \A a \in answers : a.req # hreq[i]
  /\ Replied(i, "TIMEOUT")
  /\ UNCHANGED clientVars
  /\ UNCHANGED <<made, up, inbox, queue, uiVars, breaks, restarts>>

\* recv returns nothing or fails: the client closed, or the connection was reset.
HangUp(i) ==
  /\ hpc[i] = "recv"
  /\ ~up[i] \/ (inbox[i] = <<>> /\ ~ClientEnd(i))
  /\ hpc' = [hpc EXCEPT ![i] = "done"]
  /\ Reset(i)
  /\ UNCHANGED clientVars
  /\ UNCHANGED <<made, outbox, hreq, queue, uiVars, breaks, restarts>>

(*************************** Live's thread *********************************)
Pending == active # None \/ queue # <<>>

\* update_display calls process_pending.
Tick ==
  /\ budget = 0 /\ Pending
  /\ budget' = MaxPerTick
  /\ UNCHANGED clientVars
  /\ UNCHANGED <<made, up, inbox, outbox, serverVars, queue, active, steps, answers, started,
                 breaks, restarts>>

\* The request to run now: the active one, or else the oldest of the queue.
Current == IF active = None THEN Head(queue) ELSE active
Rest == IF active = None THEN Tail(queue) ELSE queue

\* next(active.steps) yields: the request goes on in a later tick.
Yield ==
  /\ budget > 0 /\ Pending /\ steps < MaxSteps
  /\ active' = Current /\ queue' = Rest
  /\ started' = started \cup {Current}
  /\ steps' = steps + 1
  /\ budget' = 0
  /\ UNCHANGED clientVars
  /\ UNCHANGED <<made, up, inbox, outbox, serverVars, answers, breaks, restarts>>

\* next(active.steps) returns or raises: the response is put and the next is taken.
Complete(status) ==
  /\ budget > 0 /\ Pending
  /\ queue' = Rest /\ active' = None
  /\ started' = started \cup {Current}
  /\ answers' = answers \cup {[req |-> Current, status |-> status]}
  /\ steps' = 0
  /\ budget' = budget - 1
  /\ UNCHANGED clientVars
  /\ UNCHANGED <<made, up, inbox, outbox, serverVars, breaks, restarts>>

TickEnds ==
  /\ budget > 0 /\ ~Pending
  /\ budget' = 0
  /\ UNCHANGED clientVars
  /\ UNCHANGED <<made, up, inbox, outbox, serverVars, queue, active, steps, answers, started,
                 breaks, restarts>>

(*************************** failures **************************************)
Break(i) ==
  /\ i <= made /\ up[i] /\ breaks < MaxBreaks
  /\ Reset(i)
  /\ breaks' = breaks + 1
  /\ UNCHANGED clientVars
  /\ UNCHANGED <<made, outbox, serverVars, queue, uiVars, restarts>>

\* Live ends and starts again: what was queued or running is gone, and so is every
\* connection. A new process serves the port.
Restart ==
  /\ restarts < MaxRestarts
  /\ restarts' = restarts + 1
  /\ queue' = <<>> /\ active' = None /\ steps' = 0 /\ budget' = 0
  /\ up' = [i \in Conns |-> up[i] /\ i > made]
  /\ inbox' = [i \in Conns |-> <<>>]
  /\ hpc' = [i \in Conns |-> IF i <= made THEN "done" ELSE hpc[i]]
  /\ hreq' = [i \in Conns |-> None]
  /\ UNCHANGED clientVars
  /\ UNCHANGED <<made, outbox, answers, started, breaks>>

CallStep(c) ==
  \/ Enter(c) \/ Connect(c) \/ Send(c) \/ TimeOut(c) \/ ConnectionError(c) \/ Receive(c)
Socket(i) ==
  \/ Serve(i) \/ Enqueue(i) \/ Block(i) \/ RejectFrame(i)
  \/ Answer(i) \/ GiveUp(i) \/ HangUp(i)
Live == Tick \/ Yield \/ (\E status \in {"ok", "error"} : Complete(status)) \/ TickEnds

Next ==
  \/ \E c \in Callers : \/ Snapshot(c)
                        \/ \E cmd \in Commands, atEpoch \in BOOLEAN : BeginCall(c, cmd, atEpoch)
                        \/ CallStep(c)
  \/ \E k \in Clients : ConnectClient(k) \/ CloseClient(k)
  \/ \E i \in Conns : Socket(i) \/ Break(i)
  \/ Live
  \/ Restart

Spec == Init /\ [][Next]_vars

\* What brings a call on that holds the lock, and needs nobody but its thread and the
\* operating system: connecting to the loopback ends one way or another, a frame that
\* fits the buffers is sent, a deadline expires, an answer or an error is there. A large
\* frame goes out only as far as the socket thread reads it: nothing is said of that.
Proceeds(c) ==
  \/ Connect(c) \/ TimeOut(c) \/ ConnectionError(c) \/ Receive(c)
  \/ pc[c] = "loop" /\ Command(c) \notin Large /\ Send(c)
FairSpec == Spec /\ \A c \in Callers : WF_vars(Proceeds(c))
------------------------------------------------------------------------------
\* A mutation runs at most once per call, whatever breaks on the way: no two
\* requests of one call to change the Set ever begin to run. (client.py, may_retry)
AtMostOnce ==
  \A r, s \in started :
    /\ r.caller = s.caller /\ r.no = s.no
    /\ Normal[r.cmd] \in Mutations
    => r = s

\* Everything that lies in a response buffer is the answer to the request its
\* reader sent, so no call is ever given the answer to another one, although late
\* requests of abandoned connections go on running. (client.py, _close_locked)
OwnAnswer ==
  \A c \in Callers : pc[c] = "await" /\ Mine(c) # 0 =>
    \A i \in DOMAIN outbox[Mine(c)] : outbox[Mine(c)][i].req = Request(c)

\* An epoch names one state of the connection: while it is the one of a caller's
\* snapshot, the client is connected as it was then, so that a frame bound to it goes
\* over the connection the caller has looked at and over no other, although threads
\* close and open connections in between. (client.py, _connection_epoch)
EpochNamesConnection ==
  \A c \in Callers :
    /\ epoch[ClientOf[c]] = seen[c].epoch => Mine(c) = seen[c].conn
    /\ pc[c] # "idle" /\ job[c].atEpoch =>
         \A i \in Conns : (\E j \in DOMAIN inbox[i] : inbox[i][j] = Request(c)) => i = seen[c].conn

\* sendall on a socket without a deadline, of a frame that need not fit its buffers.
SendBlocks(c) ==
  pc[c] = "loop" /\ Mine(c) # 0 /\ Command(c) \in Large /\ ~timed[ClientOf[c]]

\* A call that holds the lock returns and gives it back, whether or not the socket
\* threads or Live's thread ever do anything, unless it stays for ever in the one
\* operation that has no deadline: the first frame of a new connection, if it is large
\* and nobody reads it. (client.py, call and call_at_epoch)
CallReturns ==
  \A c \in Callers : pc[c] \in {"loop", "await"} ~> (pc[c] = "idle" \/ []SendBlocks(c))

\* The calls as their callers see them, and how often each has begun to run.
CallIds == Callers \X (1..MaxCalls)

CallPhase ==
  [i \in CallIds |->
     LET r == result[i[1]][i[2]] IN
     IF i[2] > calls[i[1]] THEN "new"
     ELSE CASE r = "none" -> "open"
            [] r \in {"ok", "error"} -> r
            [] r = "mismatch" -> "refused"
            [] OTHER -> "unknown"]

IsMutation ==
  [i \in CallIds |-> i[2] <= calls[i[1]] /\ Normal[command[i[1]][i[2]]] \in Mutations]

RunsOf(i) == {r \in started : r.caller = i[1] /\ r.no = i[2]}
CallRuns == [i \in CallIds |-> Cardinality(RunsOf(i))]

Contract == INSTANCE CallContract WITH
  Calls <- CallIds, phase <- CallPhase, mutation <- IsMutation, runs <- CallRuns

\* The bridge keeps the contract of its callers.
KeepsContract == Contract!ContractSpec
==============================================================================
