------------------------------ MODULE TcpServer ------------------------------
(***************************************************************************)
(* The server transport endpoint, src/tcp_server.c: one detached thread    *)
(* that owns a listening socket and every accepted connection.  Each pass  *)
(* of its loop takes a snapshot of the readable descriptors with select()  *)
(* (working_set), scans it in ascending order, and only then looks at      *)
(* `running`.  A descriptor of the snapshot is the listener (accept), a    *)
(* connection with data (recv, then func_process), a connection at         *)
(* end-of-file (func_disconnect, close, forget) or a connection whose      *)
(* recv() fails (skipped).                                                 *)
(*                                                                         *)
(* The kernel side of a descriptor is `peer`, with one FIFO queue of       *)
(* frames per direction.  Accepted sockets are blocking: a send waits for  *)
(* room.  What func_process and func_disconnect do is the library's: the   *)
(* module HalServer strengthens RecvData, ProcessReturn and RecvEof with    *)
(* the dispatcher and the sweep of the registry, and has the specification *)
(* the properties stated here are checked of.                              *)
(***************************************************************************)
EXTENDS Integers, Sequences, FiniteSets, SequencesExt

CONSTANTS
    Fds,        \* the descriptors accept() may return
    listen_sd,  \* the descriptor socket() returns for the listener
    Msg,        \* frames on the wire, either direction
    MaxWire     \* capacity of each direction of a connection, in frames

ASSUME Fds \subseteq Nat \ {0} /\ listen_sd \in Nat \ ({0} \cup Fds)

RETURN_OK  == 0
RETURN_ERR == -1

VARIABLES
    facade,     \* the application's use of the facade: "init", "run",
                \* "terminating" (inside json_hal_server_terminate), "terminated"
    handler,    \* the handler thread: "none", "created", "running", "exited"
    at,         \* position in one pass of the loop: "select", "scan", "process"
    running,    \* serverdata->running
    g_rpc_server_running_status,
    master_set,
    max_sd,
    g_client_list,
    working_set,    \* descriptors of the snapshot not yet scanned
    cur_sd,         \* the descriptor func_process was called for
    buffer,         \* the frames of the last recv()
    listening,      \* the listener is bound and listening
    backlog,        \* connections established and not yet accepted
    peer,           \* per descriptor: "free" (not open), "open", "shut"
                    \* (the client has closed, the server has not)
    toServer,       \* frames in flight from each client
    toClient        \* frames in flight to each client

kernelVars == <<listening, backlog, peer, toServer, toClient>>

serverThreadVars == <<handler, at, running, g_rpc_server_running_status,
                      master_set, max_sd, g_client_list, working_set,
                      cur_sd, buffer>>

tcpServerVars == <<facade, serverThreadVars, kernelVars>>

TcpServerTypeOK ==
    /\ facade \in {"init", "run", "terminating", "terminated"}
    /\ handler \in {"none", "created", "running", "exited"}
    /\ at \in {"select", "scan", "process"}
    /\ running \in BOOLEAN
    /\ g_rpc_server_running_status \in BOOLEAN
    /\ master_set \subseteq Fds \cup {listen_sd}
    /\ max_sd \in Fds \cup {listen_sd, 0}
    /\ g_client_list \in Seq(Fds)
    /\ working_set \subseteq Fds \cup {listen_sd}
    /\ cur_sd \in Fds \cup {0}
    /\ buffer \in Seq(Msg)
    /\ listening \in BOOLEAN
    /\ backlog \in 0..Cardinality(Fds)
    /\ peer \in [Fds -> {"free", "open", "shut"}]
    /\ toServer \in [Fds -> Seq(Msg)]
    /\ toClient \in [Fds -> Seq(Msg)]
    /\ \A d \in Fds : Len(toServer[d]) <= MaxWire /\ Len(toClient[d]) <= MaxWire

\* g_rpc_server is zeroed by json_hal_server_init; the thread's locals do
\* not exist yet.
TcpServerInit ==
    /\ facade = "init"
    /\ handler = "none"
    /\ at = "select"
    /\ running = FALSE
    /\ g_rpc_server_running_status = FALSE
    /\ master_set = {}
    /\ max_sd = 0
    /\ g_client_list = <<>>
    /\ working_set = {}
    /\ cur_sd = 0
    /\ buffer = <<>>
    /\ listening = FALSE
    /\ backlog = 0
    /\ peer = [d \in Fds |-> "free"]
    /\ toServer = [d \in Fds |-> <<>>]
    /\ toClient = [d \in Fds |-> <<>>]

-----------------------------------------------------------------------------
(* The facade's two writes to the transport. *)

\* json_rpc_server_run: create the detached thread.
ServerRun ==
    /\ facade = "init"
    /\ facade' = "run"
    /\ handler' = "created"
    /\ UNCHANGED <<at, running, g_rpc_server_running_status, master_set,
                   max_sd, g_client_list, working_set, cur_sd, buffer,
                   kernelVars>>

\* json_hal_server_terminate, its first statement: running = FALSE.
\* Nothing orders this store against the thread's own running = TRUE.
Stop ==
    /\ facade = "run"
    /\ facade' = "terminating"
    /\ running' = FALSE
    /\ UNCHANGED <<handler, at, g_rpc_server_running_status, master_set,
                   max_sd, g_client_list, working_set, cur_sd, buffer,
                   kernelVars>>

\* json_rpc_server_send_data on an accepted socket, as its callers see it:
\* the frame is handed to the kernel whole once there is room, a frame for
\* a client that has closed is accepted and lost, and the call fails only
\* on a connection that is no longer open.
SendData(d, m, rc) ==
    \/ /\ rc = RETURN_OK
       /\ peer[d] = "open" /\ Len(toClient[d]) < MaxWire
       /\ toClient' = [toClient EXCEPT ![d] = Append(@, m)]
    \/ /\ rc = RETURN_OK
       /\ peer[d] = "shut"
       /\ UNCHANGED toClient
    \/ /\ rc = RETURN_ERR
       /\ peer[d] # "open"
       /\ UNCHANGED toClient

-----------------------------------------------------------------------------
(* rpc_server_handler *)

\* close() of every descriptor in ds.
Close(ds) ==
    /\ peer' = [d \in Fds |-> IF d \in ds THEN "free" ELSE peer[d]]
    /\ toServer' = [d \in Fds |-> IF d \in ds THEN <<>> ELSE toServer[d]]
    /\ toClient' = [d \in Fds |-> IF d \in ds THEN <<>> ELSE toClient[d]]
    /\ listening' = (listening /\ listen_sd \notin ds)
    /\ backlog' = IF listen_sd \in ds THEN 0 ELSE backlog

\* The thread starts: running = TRUE, then socket, setsockopt, ioctl, bind
\* and listen succeed and the listener is the only member of master_set.
HandlerStart ==
    /\ handler = "created"
    /\ handler' = "running"
    /\ running' = TRUE
    /\ g_client_list' = <<>>
    /\ listening' = TRUE
    /\ master_set' = {listen_sd}
    /\ max_sd' = listen_sd
    /\ at' = "select"
    /\ UNCHANGED <<facade, g_rpc_server_running_status, working_set, cur_sd,
                   buffer, backlog, peer, toServer, toClient>>

\* One of socket, setsockopt, ioctl, bind, listen fails: the listener is
\* closed and the thread exits through EXIT, past the statement that
\* clears g_rpc_server_running_status and leaving running TRUE.
HandlerStartFail ==
    /\ handler = "created"
    /\ handler' = "exited"
    /\ running' = TRUE
    /\ g_client_list' = <<>>
    /\ UNCHANGED <<facade, at, g_rpc_server_running_status, master_set,
                   max_sd, working_set, cur_sd, buffer, kernelVars>>

Readable(d) ==
    IF d = listen_sd THEN backlog > 0
                     ELSE toServer[d] # <<>> \/ peer[d] = "shut"

\* What select(max_sd + 1, &working_set, ..) leaves set in working_set.
Ready == {d \in master_set : d <= max_sd /\ Readable(d)}

\* The top of a pass: the status flag is set, select() returns the snapshot
\* (empty after 50 ms without a readable descriptor).
Select ==
    /\ handler = "running" /\ at = "select"
    /\ g_rpc_server_running_status' = TRUE
    /\ working_set' = Ready
    /\ at' = "scan"
    /\ UNCHANGED <<facade, handler, running, master_set, max_sd,
                   g_client_list, cur_sd, buffer, kernelVars>>

\* for (i = 0; i <= max_sd && desc_ready > 0; ++i)
Scannable == {d \in working_set : d <= max_sd}

\* The scan has reached descriptor d.
ScanAt(d) ==
    /\ handler = "running" /\ at = "scan"
    /\ Scannable # {} /\ d = Min(Scannable)

\* if (new_sd > max_sd) max_sd = new_sd
RaisedMax(new_sd) == IF new_sd > max_sd THEN new_sd ELSE max_sd

\* accept() returns new_sd: func_connect, LL_APPEND to g_client_list,
\* FD_SET in master_set.
Accept(new_sd) ==
    /\ ScanAt(listen_sd)
    /\ backlog > 0 /\ peer[new_sd] = "free"
    /\ backlog' = backlog - 1
    /\ peer' = [peer EXCEPT ![new_sd] = "open"]
    /\ g_client_list' = Append(g_client_list, new_sd)
    /\ master_set' = master_set \cup {new_sd}
    /\ max_sd' = RaisedMax(new_sd)
    /\ working_set' = working_set \ {listen_sd}
    /\ UNCHANGED <<facade, handler, at, running, g_rpc_server_running_status,
                   cur_sd, buffer, listening, toServer, toClient>>

\* accept() fails: continue.
AcceptNone ==
    /\ ScanAt(listen_sd)
    /\ working_set' = working_set \ {listen_sd}
    /\ UNCHANGED <<facade, handler, at, running, g_rpc_server_running_status,
                   master_set, max_sd, g_client_list, cur_sd, buffer,
                   kernelVars>>

\* recv() > 0: whatever has arrived, one frame or several glued together,
\* is handed to func_process.
RecvData(d) ==
    /\ ScanAt(d) /\ d # listen_sd
    /\ \E k \in 1..Len(toServer[d]) :
          /\ buffer' = SubSeq(toServer[d], 1, k)
          /\ toServer' = [toServer EXCEPT ![d] = SubSeq(@, k + 1, Len(@))]
    /\ cur_sd' = d
    /\ at' = "process"
    /\ working_set' = working_set \ {d}
    /\ UNCHANGED <<facade, handler, running, g_rpc_server_running_status,
                   master_set, max_sd, g_client_list, listening, backlog,
                   peer, toClient>>

\* recv() < 0: continue; the connection stays in master_set.
RecvError(d) ==
    /\ ScanAt(d) /\ d # listen_sd
    /\ working_set' = working_set \ {d}
    /\ UNCHANGED <<facade, handler, at, running, g_rpc_server_running_status,
                   master_set, max_sd, g_client_list, cur_sd, buffer,
                   kernelVars>>

LoweredMax_OneDown(d) == IF d = max_sd THEN max_sd - 1 ELSE max_sd

\* if (i == max_sd) while (FD_ISSET(max_sd, &master_set) == FALSE) max_sd -= 1
LoweredMax(d) == IF d = max_sd THEN Max(master_set \ {d}) ELSE max_sd

\* LL_FOREACH_SAFE(g_client_list ..) if (conn->fd == i) LL_DELETE
Forgotten(d) == SelectSeq(g_client_list, LAMBDA fd : fd # d)

\* recv() == 0 once everything the client sent has been read:
\* func_disconnect, close, FD_CLR, max_sd, g_client_list.
RecvEof(d) ==
    /\ ScanAt(d) /\ d # listen_sd
    /\ peer[d] = "shut" /\ toServer[d] = <<>>
    /\ Close({d})
    /\ master_set' = master_set \ {d}
    /\ max_sd' = LoweredMax(d)
    /\ g_client_list' = Forgotten(d)
    /\ working_set' = working_set \ {d}
    /\ UNCHANGED <<facade, handler, at, running, g_rpc_server_running_status,
                   cur_sd, buffer>>

\* func_process returns.
ProcessReturn ==
    /\ handler = "running" /\ at = "process"
    /\ at' = "scan"
    /\ cur_sd' = 0
    /\ buffer' = <<>>
    /\ UNCHANGED <<facade, handler, running, g_rpc_server_running_status,
                   master_set, max_sd, g_client_list, working_set,
                   kernelVars>>

\* The scan of the snapshot is over.
PassOver == handler = "running" /\ at = "scan" /\ Scannable = {}

KeepGoing_Always == TRUE

\* while (serverdata->running == TRUE)
KeepGoing == running

\* Another pass.
PassEnd ==
    /\ PassOver /\ KeepGoing
    /\ at' = "select"
    /\ working_set' = {}
    /\ UNCHANGED <<facade, handler, running, g_rpc_server_running_status,
                   master_set, max_sd, g_client_list, cur_sd, buffer,
                   kernelVars>>

\* for (i = 0; i <= max_sd; ++i) if (FD_ISSET(i, &master_set)) close(i)
CloseAll == Close({d \in master_set : d <= max_sd})

\* The loop is left: every descriptor of master_set is closed, the status
\* flag is cleared, the thread exits.  func_disconnect is not called and
\* g_client_list is not emptied.
LeaveLoop ==
    /\ CloseAll
    /\ g_rpc_server_running_status' = FALSE
    /\ handler' = "exited"
    /\ working_set' = {}
    /\ UNCHANGED <<facade, at, running, master_set, max_sd, g_client_list,
                   cur_sd, buffer>>

\* The loop condition fails.
LoopExit == PassOver /\ ~KeepGoing /\ LeaveLoop

\* select() fails (EINTR when a signal is delivered to the thread, EBADF,
\* ENOMEM): break.
SelectFail == handler = "running" /\ at = "select" /\ LeaveLoop

-----------------------------------------------------------------------------
(* The clients: the other ends of the connections.                        *)

\* A client's connect() completes: the connection waits to be accepted.
\* There are never more connections than descriptors for them.
ClientConnect ==
    /\ listening
    /\ backlog < Cardinality({d \in Fds : peer[d] = "free"})
    /\ backlog' = backlog + 1
    /\ UNCHANGED <<facade, serverThreadVars, listening, peer, toServer,
                   toClient>>

ClientSend(d, m) ==
    /\ peer[d] = "open" /\ Len(toServer[d]) < MaxWire
    /\ toServer' = [toServer EXCEPT ![d] = Append(@, m)]
    /\ UNCHANGED <<facade, serverThreadVars, listening, backlog, peer,
                   toClient>>

ClientRecv(d) ==
    /\ peer[d] = "open" /\ toClient[d] # <<>>
    /\ toClient' = [toClient EXCEPT ![d] = Tail(@)]
    /\ UNCHANGED <<facade, serverThreadVars, listening, backlog, peer,
                   toServer>>

\* The client closes or dies: what it had not read is gone, what it had
\* sent is still delivered before the server reads end-of-file.
ClientClose(d) ==
    /\ peer[d] = "open"
    /\ peer' = [peer EXCEPT ![d] = "shut"]
    /\ toClient' = [toClient EXCEPT ![d] = <<>>]
    /\ UNCHANGED <<facade, serverThreadVars, listening, backlog, toServer>>

\* json_hal_server_terminate returns, the thread gone or not: its wait for
\* g_rpc_server_running_status to clear gives up after 4 s, and is over at
\* once when the thread has not set the flag yet.
TerminateReturn ==
    /\ facade = "terminating"
    /\ facade' = "terminated"
    /\ UNCHANGED <<serverThreadVars, kernelVars>>

\* What json_hal_server_terminate polls while it waits for the thread.
json_rpc_server_is_running == g_rpc_server_running_status

-----------------------------------------------------------------------------
(* Properties *)

Connections == {d \in Fds : peer[d] # "free"}

\* While rpc_server_handler is in its loop its three records of the
\* connections agree with the kernel and with each other: master_set holds
\* the listener and exactly the descriptors that are open, g_client_list
\* names each of them once, max_sd is the greatest of them (select() and
\* the scan stop at max_sd, so a connection above it would never be read),
\* and the snapshot being scanned names no descriptor closed or reused
\* since select() returned.  Once the thread has exited no descriptor is
\* left open.
TablesAgree ==
    /\ handler = "running" =>
          /\ master_set = Connections \cup {listen_sd}
          /\ ToSet(g_client_list) = Connections
          /\ Len(g_client_list) = Cardinality(Connections)
          /\ max_sd = Max(master_set)
          /\ working_set \subseteq master_set
    /\ handler = "exited" => Connections = {} /\ ~listening

\* Once `running` is cleared while the handler is in its loop
\* (json_hal_server_terminate), the handler finishes the scan it is in,
\* leaves the loop and closes every descriptor, and
\* json_rpc_server_is_running answers FALSE to the wait of the facade,
\* however many connections are readable.
\* func_process sends on blocking sockets, so this is a property of the
\* endpoint together with the library and its clients: module HalServer.
ServerStopEndsLoop ==
    (handler = "running" /\ ~running)
        ~> (handler = "exited" /\ Connections = {}
                /\ ~json_rpc_server_is_running)

=============================================================================
