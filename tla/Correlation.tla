---------------------------- MODULE Correlation ----------------------------
(***************************************************************************)
(* The request correlation engine of the client, src/json_hal_client.c,    *)
(* composed with the transport endpoint of src/tcp_client.c.               *)
(*                                                                         *)
(* Application threads (Callers) build a request header (get_req_id) and   *)
(* call json_hal_client_send_and_get_reply: allocate a tracking slot, link *)
(* it into the list g_request_msg_tracking, send, and block on the slot's  *)
(* condition variable.  The transport thread runs response_parse_cb on     *)
(* every buffer it receives, which unlinks the slot a reply matches and    *)
(* signals its owner, and request_tracking_cb at the end of every pass of  *)
(* its loop, which ages every slot and expires the ones whose ticker has   *)
(* run out.  The peer is the environment: it answers requests, or does     *)
(* not, publishes events, and closes the connection.                       *)
(*                                                                         *)
(* A caller has at most one slot at a time, so a slot is named by its      *)
(* caller; memory that has been freed keeps its contents and its address   *)
(* (the allocator hands the same block to the caller's next call).         *)
(*                                                                         *)
(* Locks.  rpc->lock of caller t is held by t from slot creation until it  *)
(* enters pthread_cond_wait or gives up after a failed send; the transport *)
(* thread takes it only around pthread_cond_signal.                        *)
(* gm_request_msg_tracking_lock is held across steps only by the transport *)
(* thread; the callers' critical sections are single steps.  LL_APPEND in  *)
(* json_hal_client_send_and_get_reply runs WITHOUT that lock and is        *)
(* therefore two steps: find the tail, link after it.  get_req_id takes no  *)
(* lock at all and is three steps: load, store, return.  Whether threads   *)
(* enter it one at a time is the application's business (Serialized).      *)
(***************************************************************************)
EXTENDS TcpClient, ReqId, FiniteSets

CONSTANTS
    Callers,        \* application threads that issue calls
    NULL,           \* the null pointer, and "no value"
    SEND_MSG_TICKER_TIMEOUT,    \* passes of the transport loop a slot survives
    MaxReqId,       \* bound: no header is built once g_req_id has reached it
    Serialized      \* TRUE: the application lets one thread at a time
                    \* into json_hal_client_get_request_header

VARIABLES
    g_req_id,
    g_connected,
    g_request_msg_tracking,     \* head of the list of pending slots
    rpc,            \* rpc[t]: the request_msg_tracking_t of caller t
    \* the callers
    cpc,            \* where each caller is in its call
    req,            \* the reqId of the request each caller holds
    tail,           \* the node LL_APPEND found to link after
    \* the transport thread inside response_parse_cb and request_tracking_cb
    ipc,            \* "run", "walk" (in the reaper's loop), "signal"
    pos,            \* index in buffer of the frame being parsed
    cur, nxt        \* the cursors rpc and tmp of LL_FOREACH_SAFE

ReqIds == DEFAULT_SEQ_START_NUMBER..MaxReqId

\* A frame is a whole JSON message, reduced to what the engine reads of it:
\* whether its action is publishEvent, and its reqId.
Frame == [kind : {"request", "reply", "event"}, id : ReqIds \cup {NULL}]

ASSUME Msg = Frame

engineVars == <<g_req_id, g_connected, g_request_msg_tracking, rpc,
                cpc, req, tail, ipc, pos, cur, nxt>>
listVars   == <<g_request_msg_tracking, rpc>>
callerVars == <<cpc, req, tail>>
ioVars     == <<ipc, pos, cur, nxt>>
vars == <<tcpVars, engineVars>>

Slot == [alloc : BOOLEAN, sequence : Int, ticker : 0..SEND_MSG_TICKER_TIMEOUT,
         rc : {RETURN_OK, RETURN_ERR}, buffer : Seq(Frame),
         next : Callers \cup {NULL}]

\* Memory that is not a slot: never allocated, or freed.
NoSlot == [alloc |-> FALSE, sequence |-> 0, ticker |-> 0, rc |-> RETURN_ERR,
           buffer |-> <<>>, next |-> NULL]

TypeOK ==
    /\ TcpTypeOK
    /\ g_req_id \in Int
    /\ g_connected \in BOOLEAN
    /\ g_request_msg_tracking \in Callers \cup {NULL}
    /\ rpc \in [Callers -> Slot]
    /\ cpc \in [Callers -> {"idle", "loaded", "stored", "ready", "link",
                            "send", "cleanup", "wait", "woken"}]
    /\ req \in [Callers -> ReqIds \cup {NULL}]
    /\ tail \in [Callers -> Callers \cup {NULL}]
    /\ ipc \in {"run", "walk", "signal"}
    /\ pos \in 1..(MaxWire + 1)
    /\ cur \in Callers \cup {NULL}
    /\ nxt \in Callers \cup {NULL}

Init ==
    /\ TcpInit
    /\ g_req_id = DEFAULT_SEQ_START_NUMBER
    /\ g_connected = FALSE
    /\ g_request_msg_tracking = NULL
    /\ rpc = [t \in Callers |-> NoSlot]
    /\ cpc = [t \in Callers |-> "idle"]
    /\ req = [t \in Callers |-> NULL]
    /\ tail = [t \in Callers |-> NULL]
    /\ ipc = "run"
    /\ pos = 1
    /\ cur = NULL
    /\ nxt = NULL

-----------------------------------------------------------------------------
(* The list g_request_msg_tracking (utlist.h) *)

RECURSIVE Chain(_, _, _)
\* The nodes a walk from node n through the slots r visits, in order.  A
\* walk of a well-formed list visits no more nodes than there are slots.
Chain(n, r, fuel) ==
    IF n = NULL \/ fuel = 0 THEN <<>>
    ELSE <<n>> \o Chain(r[n].next, r, fuel - 1)

Pending == Chain(g_request_msg_tracking, rpc, Cardinality(Callers))

Linked(t) == \E i \in DOMAIN Pending : Pending[i] = t

\* LL_APPEND, the walk: the node whose next is NULL, in the slots r.
LastNode(r) ==
    LET walk == Chain(g_request_msg_tracking, r, Cardinality(Callers))
    IN  IF walk = <<>> THEN NULL ELSE walk[Len(walk)]

FirstMatch_AnySequence(seq) ==
    IF Pending = <<>> THEN NULL ELSE Pending[1]

\* LL_FOREACH_SAFE ... if (rpc->sequence == id) ... break
FirstMatch(seq) ==
    LET hits == {i \in DOMAIN Pending : rpc[Pending[i]].sequence = seq}
    IN  IF hits = {} THEN NULL
        ELSE Pending[CHOOSE i \in hits : \A j \in hits : i <= j]

Unlinked_Kept(del) == [head |-> g_request_msg_tracking, slots |-> rpc]

\* LL_DELETE(g_request_msg_tracking, del): the list afterwards.  The head
\* moves on if del is the head; otherwise del's predecessor skips it.
Unlinked(del) ==
    LET atHead == g_request_msg_tracking = del
        Skips(n) == ~atHead /\ Linked(n) /\ rpc[n].next = del
    IN  [head  |-> IF atHead THEN rpc[del].next ELSE g_request_msg_tracking,
         slots |-> [n \in Callers |->
                      IF Skips(n) THEN [rpc[n] EXCEPT !.next = rpc[del].next]
                                  ELSE rpc[n]]]

RequestDeleted_Nothing(seq) ==
    [head |-> g_request_msg_tracking, slots |-> rpc]

\* request_delete_cb(sequence): the list without the first slot that has
\* the sequence, if there is one.
RequestDeleted(seq) ==
    LET del == FirstMatch(seq)
    IN  IF del = NULL THEN [head |-> g_request_msg_tracking, slots |-> rpc]
                      ELSE Unlinked(del)

\* request_delete_cb(sequence), then free(rpc) of the caller's own slot.
DeleteAndFree(seq, t) ==
    /\ g_request_msg_tracking' = RequestDeleted(seq).head
    /\ rpc' = [RequestDeleted(seq).slots EXCEPT ![t] = NoSlot]

HoldsRpcLock_Never(t) == FALSE

\* rpc->lock of t's slot is held by t.
HoldsRpcLock(t) == cpc[t] \in {"link", "send"}

\* gm_request_msg_tracking_lock is held by the transport thread.
IoHoldsListLock == ipc \in {"walk", "signal"}

\* pthread_cond_signal(&rpc->msg_rcvd): wakes the owner if it is waiting.
Signalled(t) == [cpc EXCEPT ![t] = IF @ = "wait" THEN "woken" ELSE @]

-----------------------------------------------------------------------------
(* The callers *)

\* Some thread is between the load of g_req_id and the return of get_req_id.
InGetReqId == \E u \in Callers : cpc[u] \in {"loaded", "stored"}

\* json_hal_client_get_request_header enters get_req_id, which takes no
\* lock.  g_req_id++, the load: the register (req) holds the next value.
GetReqIdLoad(t) ==
    /\ cpc[t] = "idle"
    /\ g_req_id < MaxReqId
    /\ Serialized => ~InGetReqId
    /\ req' = [req EXCEPT ![t] = NextReqId(g_req_id)]
    /\ cpc' = [cpc EXCEPT ![t] = "loaded"]
    /\ UNCHANGED <<tcpVars, g_req_id, g_connected, listVars, tail, ioVars>>

\* g_req_id++, the store.
GetReqIdStore(t) ==
    /\ cpc[t] = "loaded"
    /\ g_req_id' = req[t]
    /\ cpc' = [cpc EXCEPT ![t] = "stored"]
    /\ UNCHANGED <<tcpVars, g_connected, listVars, req, tail, ioVars>>

\* return g_req_id, the value still in the register or the global read
\* again, as the compiler chose; json_hal_client_get_request_header prints
\* it into the request.
GetRequestHeader(t) ==
    /\ cpc[t] = "stored"
    /\ \E id \in {req[t], g_req_id} : req' = [req EXCEPT ![t] = id]
    /\ cpc' = [cpc EXCEPT ![t] = "ready"]
    /\ UNCHANGED <<tcpVars, g_req_id, g_connected, listVars, tail, ioVars>>

\* json_hal_client_send_and_get_reply up to the walk of LL_APPEND: the slot
\* is created with its lock held, and the tail of the list is found.  The
\* request is one json_hal_client_get_request_header built, so it has a
\* reqId: the return for a request without one changes nothing.
CallBegin(t) ==
    /\ cpc[t] = "ready"
    /\ LET fresh == [rpc EXCEPT ![t] =
                        [alloc |-> TRUE, sequence |-> SequenceOf(req[t]),
                         ticker |-> SEND_MSG_TICKER_TIMEOUT, rc |-> RETURN_ERR,
                         buffer |-> <<>>, next |-> NULL]]
       IN  rpc' = fresh /\ tail' = [tail EXCEPT ![t] = LastNode(fresh)]
    /\ cpc' = [cpc EXCEPT ![t] = "link"]
    /\ UNCHANGED <<tcpVars, g_req_id, g_connected, g_request_msg_tracking,
                   req, ioVars>>

AppendLink_Dropped(t) ==
    /\ cpc[t] = "link"
    /\ cpc' = [cpc EXCEPT ![t] = "send"]
    /\ tail' = [tail EXCEPT ![t] = NULL]
    /\ UNCHANGED <<tcpVars, g_req_id, g_connected, listVars, req, ioVars>>

\* LL_APPEND, the store: link the slot after the tail found, or make it the
\* head if the list was empty.
AppendLink(t) ==
    /\ cpc[t] = "link"
    /\ IF tail[t] = NULL
       THEN g_request_msg_tracking' = t /\ UNCHANGED rpc
       ELSE rpc' = [rpc EXCEPT ![tail[t]].next = t]
              /\ UNCHANGED g_request_msg_tracking
    /\ cpc' = [cpc EXCEPT ![t] = "send"]
    /\ tail' = [tail EXCEPT ![t] = NULL]
    /\ UNCHANGED <<tcpVars, g_req_id, g_connected, req, ioVars>>

\* json_message_send: nothing is sent unless the transport is RUNNING.
JsonMessageSend(m, rc) ==
    IF RUNNING THEN SendData(m, rc)
               ELSE rc = RETURN_ERR /\ UNCHANGED outbox

\* The send.  On success the caller enters pthread_cond_wait, which releases
\* rpc->lock; on failure it releases the lock and goes to clean up.
CallSend(t) ==
    /\ cpc[t] = "send"
    /\ \E rc \in {RETURN_OK, RETURN_ERR} :
          /\ JsonMessageSend([kind |-> "request", id |-> req[t]], rc)
          /\ cpc' = [cpc EXCEPT ![t] = IF rc = RETURN_OK THEN "wait" ELSE "cleanup"]
    /\ UNCHANGED <<app, threadVars, conn, inbox, g_req_id, g_connected,
                   listVars, req, tail, ioVars>>

\* The call is over: the caller holds no request any more.
Returned(t) ==
    /\ cpc' = [cpc EXCEPT ![t] = "idle"]
    /\ req' = [req EXCEPT ![t] = NULL]

\* The failure path: request_delete_cb, free, return RETURN_ERR.
CallAbandon(t) ==
    /\ cpc[t] = "cleanup"
    /\ ~IoHoldsListLock
    /\ DeleteAndFree(SequenceOf(req[t]), t)
    /\ Returned(t)
    /\ UNCHANGED <<tcpVars, g_req_id, g_connected, tail, ioVars>>

\* json_tokener_parse(rpc->buffer): the FIRST JSON value in the text.
ParsedReply(buf) == buf[1]

\* What the call of a woken caller returns: rpc->rc and, if that is not an
\* error, the parsed buffer as *reply_msg.
ReturnValue(t) ==
    [rc    |-> rpc[t].rc,
     reply |-> IF rpc[t].rc >= 0 THEN ParsedReply(rpc[t].buffer) ELSE NULL]

\* After the wake-up: request_delete_cb, ReturnValue, free.
CallFinish(t) ==
    /\ cpc[t] = "woken"
    /\ ~IoHoldsListLock
    /\ DeleteAndFree(SequenceOf(req[t]), t)
    /\ Returned(t)
    /\ UNCHANGED <<tcpVars, g_req_id, g_connected, tail, ioVars>>

Progress(t) == AppendLink(t) \/ CallSend(t)
Release(t)  == CallAbandon(t) \/ CallFinish(t)

Caller(t) ==
    \/ GetReqIdLoad(t) \/ GetReqIdStore(t) \/ GetRequestHeader(t)
    \/ CallBegin(t)
    \/ Progress(t) \/ Release(t)

-----------------------------------------------------------------------------
(* The transport thread *)

\* The passes of rpc_client_handler that call nothing but func_idle.
IoSwitch ==
    /\ \/ SocketInit \/ SocketInitFail \/ ConnectRetry \/ ConnectTeardown
       \/ ReceiveNone \/ ReceiveData \/ HandlerStart \/ LoopExit
    /\ UNCHANGED engineVars

\* client_connected_cb
IoConnected ==
    /\ ConnectOk
    /\ g_connected' = TRUE
    /\ UNCHANGED <<g_req_id, listVars, callerVars, ioVars>>

IoDisconnected_Stale == ReceiveEof /\ UNCHANGED engineVars

\* client_disconnected_cb
IoDisconnected ==
    /\ ReceiveEof
    /\ g_connected' = FALSE
    /\ UNCHANGED <<g_req_id, listVars, callerVars, ioVars>>

\* What the application is told when it asks whether it may send.
json_hal_is_client_connected == g_connected

InParse == thread = "running" /\ phase = "parse"
InIdle  == thread = "running" /\ phase = "idle"

IsEvent(f) == f.kind = "event"

\* response_parse_cb, a publishEvent frame: the subscription table's
\* business, nothing of the pending list is touched.
ParseEvent ==
    /\ InParse /\ ipc = "run" /\ pos <= Len(buffer)
    /\ IsEvent(buffer[pos])
    /\ pos' = pos + 1
    /\ UNCHANGED <<tcpVars, g_req_id, g_connected, listVars, callerVars,
                   ipc, cur, nxt>>

\* response_parse_cb, a frame that is no event and has no reqId: return
\* RETURN_ERR, the rest of the buffer is not looked at.
ParseAbort ==
    /\ InParse /\ ipc = "run" /\ pos <= Len(buffer)
    /\ ~IsEvent(buffer[pos]) /\ buffer[pos].id = NULL
    /\ pos' = Len(buffer) + 1
    /\ UNCHANGED <<tcpVars, g_req_id, g_connected, listVars, callerVars,
                   ipc, cur, nxt>>

\* response_parse_cb, a reply: under the list lock, unlink the first slot
\* with its sequence and copy the WHOLE receive buffer into it.  Without a
\* match the reply is dropped.
ParseReply ==
    /\ InParse /\ ipc = "run" /\ pos <= Len(buffer)
    /\ ~IsEvent(buffer[pos]) /\ buffer[pos].id # NULL
    /\ LET hit == FirstMatch(SequenceOf(buffer[pos].id))
       IN  \/ /\ hit = NULL
              /\ pos' = pos + 1
              /\ UNCHANGED <<listVars, ipc, cur>>
           \/ /\ hit # NULL
              /\ g_request_msg_tracking' = Unlinked(hit).head
              /\ rpc' = [Unlinked(hit).slots EXCEPT
                            ![hit].buffer = buffer, ![hit].rc = RETURN_OK]
              /\ cur' = hit
              /\ ipc' = "signal"
              /\ UNCHANGED pos
    /\ UNCHANGED <<tcpVars, g_req_id, g_connected, callerVars, nxt>>

\* ... lock rpc->lock, signal, unlock, break, unlock the list.
MatchSignal ==
    /\ InParse /\ ipc = "signal"
    /\ ~HoldsRpcLock(cur)
    /\ cpc' = Signalled(cur)
    /\ ipc' = "run"
    /\ pos' = pos + 1
    /\ cur' = NULL
    /\ UNCHANGED <<tcpVars, g_req_id, g_connected, listVars, req, tail, nxt>>

\* response_parse_cb returns.
ParseDone ==
    /\ ipc = "run" /\ pos > Len(buffer)
    /\ ParseReturn
    /\ pos' = 1
    /\ UNCHANGED <<g_req_id, g_connected, listVars, callerVars, ipc, cur, nxt>>

\* request_idle_cb -> request_tracking_cb: lock the list, start the walk.
ReapBegin ==
    /\ InIdle /\ ipc = "run"
    /\ ipc' = "walk"
    /\ cur' = g_request_msg_tracking
    /\ UNCHANGED <<tcpVars, g_req_id, g_connected, listVars, callerVars, pos, nxt>>

Expired_Late(ticker) == ticker < 0

\* if (rpc->ticker <= 0)
Expired(ticker) == ticker <= 0

\* One slot of the walk: age it; if its ticker has run out, LL_DELETE it,
\* set rc = RETURN_ERR and go on to signal its owner.
ReapStep ==
    /\ InIdle /\ ipc = "walk" /\ cur # NULL
    /\ nxt' = rpc[cur].next
    /\ LET ticker == rpc[cur].ticker - 1
       IN  \/ /\ Expired(ticker)
              /\ g_request_msg_tracking' = Unlinked(cur).head
              /\ rpc' = [Unlinked(cur).slots EXCEPT
                            ![cur].ticker = ticker, ![cur].rc = RETURN_ERR]
              /\ ipc' = "signal"
              /\ UNCHANGED cur
           \/ /\ ~Expired(ticker)
              /\ rpc' = [rpc EXCEPT ![cur].ticker = ticker]
              /\ cur' = rpc[cur].next
              /\ UNCHANGED <<g_request_msg_tracking, ipc>>
    /\ UNCHANGED <<tcpVars, g_req_id, g_connected, callerVars, pos>>

\* ... lock rpc->lock, signal, unlock; on to the slot saved in tmp.
ReapSignal ==
    /\ InIdle /\ ipc = "signal"
    /\ ~HoldsRpcLock(cur)
    /\ cpc' = Signalled(cur)
    /\ ipc' = "walk"
    /\ cur' = nxt
    /\ UNCHANGED <<tcpVars, g_req_id, g_connected, listVars, req, tail, pos, nxt>>

\* The walk is over: unlock the list, usleep, and func_idle returns.
ReapDone ==
    /\ ipc = "walk" /\ cur = NULL
    /\ IdleReturn
    /\ ipc' = "run"
    /\ nxt' = NULL
    /\ UNCHANGED <<g_req_id, g_connected, listVars, callerVars, pos, cur>>

Io ==
    \/ IoSwitch \/ IoConnected \/ IoDisconnected
    \/ ParseEvent \/ ParseAbort \/ ParseReply \/ MatchSignal \/ ParseDone
    \/ ReapBegin \/ ReapStep \/ ReapSignal \/ ReapDone

-----------------------------------------------------------------------------
(* The facade *)

Run == ClientRun /\ UNCHANGED engineVars

\* json_hal_client_terminate: RUNNING = FALSE, then the bounded wait for the
\* thread.  The wait ends when the thread has cleared its status or after
\* 4 s, so the second half may run with the thread still in its loop.
TerminateBegin == Stop /\ UNCHANGED engineVars

\* json_hal_client_terminate, the rest: every slot still linked is unlinked
\* and freed under the list lock.  No owner is signalled.
TerminateFree ==
    /\ app = "terminating"
    /\ ~IoHoldsListLock
    /\ app' = "terminated"
    /\ g_request_msg_tracking' = NULL
    /\ rpc' = [t \in Callers |-> IF Linked(t) THEN NoSlot ELSE rpc[t]]
    /\ UNCHANGED <<threadVars, conn, inbox, outbox, g_req_id, g_connected,
                   callerVars, ioVars>>

Facade == Run \/ TerminateBegin \/ TerminateFree

-----------------------------------------------------------------------------
(* The peer *)

\* The server answers the oldest request it has not read yet.
PeerReply ==
    /\ conn = "up" /\ outbox # <<>> /\ Len(inbox) < MaxWire
    /\ inbox' = Append(inbox, [kind |-> "reply", id |-> Head(outbox).id])
    /\ outbox' = Tail(outbox)
    /\ UNCHANGED <<app, threadVars, conn, engineVars>>

\* The server reads a request and never answers it.
PeerIgnore ==
    /\ conn = "up" /\ outbox # <<>>
    /\ outbox' = Tail(outbox)
    /\ UNCHANGED <<app, threadVars, conn, inbox, engineVars>>

\* The server publishes an event, or sends a frame that has no reqId.
PeerPush ==
    /\ conn = "up" /\ Len(inbox) < MaxWire
    /\ \E k \in {"event", "reply"} : inbox' = Append(inbox, [kind |-> k, id |-> NULL])
    /\ UNCHANGED <<app, threadVars, conn, outbox, engineVars>>

PeerGone == PeerClose /\ UNCHANGED engineVars

Server == PeerReply \/ PeerIgnore \/ PeerPush \/ PeerGone

-----------------------------------------------------------------------------

Next == (\E t \in Callers : Caller(t)) \/ Io \/ Facade \/ Server

Spec == Init /\ [][Next]_vars

\* The transport thread and the callers inside a call are threads the
\* scheduler keeps running.  A caller blocked on the list lock gets it:
\* the transport thread sleeps with the lock released in every pass.
FairSpec ==
    /\ Spec
    /\ WF_vars(Io)
    /\ \A t \in Callers : WF_vars(Progress(t)) /\ SF_vars(Release(t))

-----------------------------------------------------------------------------
(* Properties *)

Waiting(t)  == cpc[t] = "wait"
Answers(f, t) == ~IsEvent(f) /\ f.id = req[t]

\* Memory safety of the pending list: request_tracking_cb and
\* response_parse_cb walk g_request_msg_tracking and write through the
\* nodes they find, so every node that can be reached from the head, and
\* the node the transport thread is about to signal, must be a live
\* allocation.  json_hal_client_send_and_get_reply frees its slot on two
\* paths and json_hal_client_terminate frees all of them; each must have
\* unlinked the slot first.
NoDanglingSlot ==
    \A t \in Callers :
        (Linked(t) \/ (ipc = "signal" /\ cur = t)) => rpc[t].alloc

\* json_hal_client_send_and_get_reply returns RETURN_OK only if a reply
\* that carries the reqId of the caller's own request is in the buffer
\* response_parse_cb copied into its slot: a reply to another call, a late
\* reply to an expired call, or an event never completes a call.
OkMeansAnswered ==
    \A t \in Callers :
        (rpc[t].alloc /\ rpc[t].rc = RETURN_OK) =>
            \E i \in DOMAIN rpc[t].buffer : Answers(rpc[t].buffer[i], t)

\* The reply json_hal_client_send_and_get_reply hands back in *reply_msg is
\* the reply to the request that was sent: its reqId is the request's.
ReplyIsOwn ==
    \A t \in Callers :
        (cpc[t] = "woken" /\ ReturnValue(t).rc = RETURN_OK) =>
            Answers(ReturnValue(t).reply, t)

\* The outcome of a call is decided once, by whichever of
\* response_parse_cb and request_tracking_cb unlinks the slot first: from
\* the signal until the caller has picked the result up, neither a late
\* reply nor a later tick changes rc or the buffer.
OutcomeDecidedOnce ==
    [][\A t \in Callers :
          (cpc[t] = "woken" /\ cpc'[t] = "woken") =>
              (rpc'[t].rc = rpc[t].rc /\ rpc'[t].buffer = rpc[t].buffer)]_vars

\* A caller blocked in pthread_cond_wait can still be woken: its slot is in
\* g_request_msg_tracking, where a reply or the ticker will find it, or the
\* transport thread has unlinked it and is about to signal.  This is what
\* holding rpc->lock from before LL_APPEND until pthread_cond_wait is for.
WaiterIsTracked ==
    \A t \in Callers :
        (Waiting(t) /\ app \in {"init", "run"}) =>
            (Linked(t) \/ (ipc = "signal" /\ cur = t))

\* Until the handler thread has left its loop, json_hal_is_client_connected
\* answers TRUE exactly when the handler holds a connected socket:
\* rpc_client_handler calls client_connected_cb on its one way into
\* SOCKET_RECEIVE and client_disconnected_cb on its one way back.  The exit
\* path closes the socket without the callback, so the answer is stale once
\* json_hal_client_terminate has ended the thread, and only then.
ConnectedIsCurrent ==
    thread # "exited" =>
        (json_hal_is_client_connected <=> sock = "connected")

\* Every call returns: json_hal_client_send_and_get_reply blocks until a
\* reply arrives or SEND_MSG_TICKER_TIMEOUT passes of the transport loop
\* have gone by, whatever the peer and the connection do, for as long as
\* the transport thread lives and json_hal_client_terminate is not called.
CallReturns ==
    \A t \in Callers :
        Waiting(t) ~> \/ cpc[t] = "idle"
                      \/ thread \in {"exited", "dead"}
                      \/ app \in {"terminating", "terminated"}

=============================================================================
