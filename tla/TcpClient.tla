----------------------------- MODULE TcpClient -----------------------------
(***************************************************************************)
(* The client transport endpoint, src/tcp_client.c: one detached thread    *)
(* that owns one TCP connection and drives it through the states           *)
(* SOCKET_INIT -> SOCKET_CONNECT -> SOCKET_RECEIVE, calling back into the  *)
(* library above it (func_connected, func_disconnected, func_parse,        *)
(* func_idle).  func_idle is called at the end of EVERY pass of the loop,  *)
(* whatever the state.                                                     *)
(*                                                                         *)
(* One pass of the loop is modelled as switch step -> (parse callback) ->  *)
(* idle callback; `phase` says where in the pass the thread is.  The       *)
(* callbacks are single steps here; a module that composes this one with   *)
(* the library strengthens ParseReturn and IdleReturn with what the        *)
(* callbacks do.  The endpoint has no behaviour without the library: it is *)
(* checked as part of module Correlation.                                  *)
(*                                                                         *)
(* The connection is a pair of FIFO frame queues.  A frame is one whole    *)
(* JSON message: how bytes are cut into frames is the framing codec's      *)
(* concern, not this module's.                                             *)
(***************************************************************************)
EXTENDS Integers, Sequences

CONSTANTS
    Msg,        \* frames the peer or the application may put on the wire
    MaxWire     \* capacity of each direction of the connection, in frames

RETURN_OK  == 0
RETURN_ERR == -1

VARIABLES
    app,        \* the application's use of the facade: "init", "run",
                \* "terminating" (inside json_hal_client_terminate), "terminated"
    thread,     \* the handler thread: "none", "created", "running", "exited", "dead"
    phase,      \* position in one pass of the loop: "switch", "parse", "idle"
    state,      \* params->state
    sock,       \* params->sock: "invalid", "open" (socket() done), "connected"
    RUNNING,    \* params->RUNNING
    g_rpc_client_running_status,
    buffer,     \* params->buffer: the frames of the last recv()
    conn,       \* the TCP connection: "none", "up", "closed" (peer sent FIN)
    inbox,      \* frames in flight from the peer to the client
    outbox      \* frames in flight from the client to the peer

tcpVars == <<app, thread, phase, state, sock, RUNNING,
             g_rpc_client_running_status, buffer, conn, inbox, outbox>>

threadVars == <<thread, phase, state, sock, RUNNING,
                g_rpc_client_running_status, buffer>>

TcpTypeOK ==
    /\ app \in {"init", "run", "terminating", "terminated"}
    /\ thread \in {"none", "created", "running", "exited", "dead"}
    /\ phase \in {"switch", "parse", "idle"}
    /\ state \in {"SOCKET_INIT", "SOCKET_CONNECT", "SOCKET_RECEIVE"}
    /\ sock \in {"invalid", "open", "connected"}
    /\ RUNNING \in BOOLEAN
    /\ g_rpc_client_running_status \in BOOLEAN
    /\ buffer \in Seq(Msg)
    /\ conn \in {"none", "up", "closed"}
    /\ inbox \in Seq(Msg) /\ Len(inbox) <= MaxWire
    /\ outbox \in Seq(Msg) /\ Len(outbox) <= MaxWire

\* g_rpc_client is a zero-initialised static: state 0 is SOCKET_INIT.
TcpInit ==
    /\ app = "init"
    /\ thread = "none"
    /\ phase = "switch"
    /\ state = "SOCKET_INIT"
    /\ sock = "invalid"
    /\ RUNNING = FALSE
    /\ g_rpc_client_running_status = FALSE
    /\ buffer = <<>>
    /\ conn = "none"
    /\ inbox = <<>>
    /\ outbox = <<>>

-----------------------------------------------------------------------------
(* The facade's two writes to the transport. *)

\* json_rpc_client_run: invalidate the socket, create the detached thread.
ClientRun ==
    /\ app = "init"
    /\ app' = "run"
    /\ thread' = "created"
    /\ sock' = "invalid"
    /\ UNCHANGED <<phase, state, RUNNING, g_rpc_client_running_status,
                   buffer, conn, inbox, outbox>>

\* json_hal_client_terminate, its first statement: RUNNING = FALSE.  Nothing
\* orders this store against the thread's own RUNNING = TRUE.
Stop ==
    /\ app = "run"
    /\ app' = "terminating"
    /\ RUNNING' = FALSE
    /\ UNCHANGED <<thread, phase, state, sock, g_rpc_client_running_status,
                   buffer, conn, inbox, outbox>>

\* json_rpc_client_send_data, as its callers see it: the frame is handed to
\* the kernel whole, or the call fails.  A frame sent after the peer closed
\* is accepted and lost.  Failure is always possible (EAGAIN on the
\* non-blocking socket, EPIPE, ENOTCONN), certain without a connection and
\* certain when the socket buffer is full (MaxWire frames unread).
SendData(m, rc) ==
    \/ /\ rc = RETURN_OK
       /\ sock = "connected"
       /\ Len(outbox) < MaxWire
       /\ outbox' = IF conn = "up" THEN Append(outbox, m) ELSE outbox
    \/ /\ rc = RETURN_ERR
       /\ UNCHANGED outbox

-----------------------------------------------------------------------------
(* rpc_client_handler *)

CloseSocket_Skipped == UNCHANGED <<sock, conn, inbox, outbox>>

\* close(params->sock); params->sock = INVALID_SOCKET
CloseSocket ==
    /\ sock' = "invalid"
    /\ conn' = "none"
    /\ inbox' = <<>>
    /\ outbox' = <<>>

InLoop_Forever == thread = "running" /\ phase = "switch"

\* The loop condition, read at the top of every pass.
InLoop == thread = "running" /\ phase = "switch" /\ RUNNING

HandlerStart ==
    /\ thread = "created"
    /\ thread' = "running"
    /\ RUNNING' = TRUE
    /\ state' = "SOCKET_INIT"
    /\ g_rpc_client_running_status' = TRUE
    /\ UNCHANGED <<app, phase, sock, buffer, conn, inbox, outbox>>

SocketInit ==
    /\ InLoop /\ state = "SOCKET_INIT"
    /\ sock' = "open"
    /\ state' = "SOCKET_CONNECT"
    /\ phase' = "idle"
    /\ UNCHANGED <<app, thread, RUNNING, g_rpc_client_running_status,
                   buffer, conn, inbox, outbox>>

\* socket() fails: pthread_exit without clearing either running flag.
SocketInitFail ==
    /\ InLoop /\ state = "SOCKET_INIT"
    /\ thread' = "dead"
    /\ UNCHANGED <<app, phase, state, sock, RUNNING,
                   g_rpc_client_running_status, buffer, conn, inbox, outbox>>

\* connect() returns 0: func_connected, then SOCKET_RECEIVE.
ConnectOk ==
    /\ InLoop /\ state = "SOCKET_CONNECT"
    /\ sock' = "connected"
    /\ conn' = "up"
    /\ state' = "SOCKET_RECEIVE"
    /\ phase' = "idle"
    /\ UNCHANGED <<app, thread, RUNNING, g_rpc_client_running_status,
                   buffer, inbox, outbox>>

\* EINPROGRESS, EALREADY, ECONNREFUSED and the default: sleep(1), same state.
ConnectRetry ==
    /\ InLoop /\ state = "SOCKET_CONNECT"
    /\ phase' = "idle"
    /\ UNCHANGED <<app, thread, state, sock, RUNNING,
                   g_rpc_client_running_status, buffer, conn, inbox, outbox>>

\* EBADF, EISCONN, EADDRNOTAVAIL: close, back to SOCKET_INIT, and fall
\* through into the sleep(1) of the cases below.
ConnectTeardown ==
    /\ InLoop /\ state = "SOCKET_CONNECT"
    /\ CloseSocket
    /\ state' = "SOCKET_INIT"
    /\ phase' = "idle"
    /\ UNCHANGED <<app, thread, RUNNING, g_rpc_client_running_status, buffer>>

\* select() times out or fails, or recv() fails: nothing is read.
ReceiveNone ==
    /\ InLoop /\ state = "SOCKET_RECEIVE"
    /\ phase' = "idle"
    /\ UNCHANGED <<app, thread, state, sock, RUNNING,
                   g_rpc_client_running_status, buffer, conn, inbox, outbox>>

\* recv() > 0: whatever has arrived, one frame or several glued together,
\* is handed to func_parse.
ReceiveData ==
    /\ InLoop /\ state = "SOCKET_RECEIVE"
    /\ \E k \in 1..Len(inbox) :
          /\ buffer' = SubSeq(inbox, 1, k)
          /\ inbox' = SubSeq(inbox, k + 1, Len(inbox))
    /\ phase' = "parse"
    /\ UNCHANGED <<app, thread, state, sock, RUNNING,
                   g_rpc_client_running_status, conn, outbox>>

\* recv() == 0 once everything the peer sent has been read:
\* func_disconnected, close, back to SOCKET_INIT.
ReceiveEof ==
    /\ InLoop /\ state = "SOCKET_RECEIVE"
    /\ conn = "closed" /\ inbox = <<>>
    /\ CloseSocket
    /\ state' = "SOCKET_INIT"
    /\ phase' = "idle"
    /\ UNCHANGED <<app, thread, RUNNING, g_rpc_client_running_status, buffer>>

\* func_parse returns.
ParseReturn ==
    /\ thread = "running" /\ phase = "parse"
    /\ phase' = "idle"
    /\ buffer' = <<>>
    /\ UNCHANGED <<app, thread, state, sock, RUNNING,
                   g_rpc_client_running_status, conn, inbox, outbox>>

\* func_idle returns: the pass is over.
IdleReturn ==
    /\ thread = "running" /\ phase = "idle"
    /\ phase' = "switch"
    /\ UNCHANGED <<app, thread, state, sock, RUNNING,
                   g_rpc_client_running_status, buffer, conn, inbox, outbox>>

\* The loop condition fails: close the socket, clear the status, exit.
LoopExit ==
    /\ thread = "running" /\ phase = "switch" /\ ~RUNNING
    /\ CloseSocket
    /\ g_rpc_client_running_status' = FALSE
    /\ thread' = "exited"
    /\ UNCHANGED <<app, phase, state, RUNNING, buffer>>

\* What json_hal_client_terminate polls while it waits for the thread.
json_rpc_client_is_running == g_rpc_client_running_status

-----------------------------------------------------------------------------
(* The peer, as far as the endpoint can tell *)

\* The peer closes or dies: what it had not read is gone, what it had sent
\* is still delivered before the client reads end-of-file.
PeerClose ==
    /\ conn = "up"
    /\ conn' = "closed"
    /\ outbox' = <<>>
    /\ UNCHANGED <<app, threadVars, inbox>>

-----------------------------------------------------------------------------
(* Properties *)

\* Every path of rpc_client_handler that returns to SOCKET_INIT (the
\* EBADF/EISCONN/EADDRNOTAVAIL branch of connect, end-of-file in recv) or
\* leaves the loop has closed the descriptor first: socket() in SOCKET_INIT
\* never overwrites an open descriptor, and a connection exists only while
\* the machine is in SOCKET_RECEIVE with a connected socket.
NoDescriptorLeak ==
    /\ (thread = "running" /\ state = "SOCKET_INIT") => sock = "invalid"
    /\ thread = "exited" => sock = "invalid"
    /\ conn # "none" => (sock = "connected" /\ state = "SOCKET_RECEIVE")

\* Once RUNNING is cleared while the handler is in its loop
\* (json_hal_client_terminate), the handler finishes the pass it is in,
\* leaves the loop and closes the socket, and json_rpc_client_is_running
\* answers FALSE to the wait of the facade, whatever state the machine is
\* in.
StopEndsLoop ==
    (thread = "running" /\ ~RUNNING)
        ~> (thread = "exited" /\ sock = "invalid"
                /\ ~json_rpc_client_is_running)

=============================================================================
