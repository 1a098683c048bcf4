------------------------------ MODULE HalServer ------------------------------
(***************************************************************************)
(* The server library, src/json_hal_server.c, on top of the transport      *)
(* endpoint of module TcpServer:                                           *)
(*                                                                         *)
(*   - the action registry (json_hal_server_register_action_callback);     *)
(*   - message_process_cb, the dispatcher the handler thread runs on what  *)
(*     one recv() returned, frame by frame;                                *)
(*   - the subscription registry g_event_subscriptions_list: appended to   *)
(*     by the dispatcher after it has answered a subscribeEvent request,   *)
(*     swept by client_disconnected_cb, updated by acknowledgements;       *)
(*   - json_hal_server_publish_event and wait_publish_event_reply, run by  *)
(*     application threads, in the build with JSON_BLOCKING_SUBSCRIBE_EVENT*)
(*     and without JSON_SCHEMA_VALIDATION_ENABLED;                         *)
(*   - json_hal_server_terminate.                                          *)
(*                                                                         *)
(* The peers are clients built on src/json_hal_client.c: what they do with *)
(* a reply and with an event (json_hal_client_subscribe_event and the      *)
(* event branch of response_parse_cb) is modelled from that file.  Names   *)
(* of events and reqIds are sequences, and the strncmp(a, b, strlen(b)) of *)
(* the code is IsPrefix(b, a).                                             *)
(***************************************************************************)
EXTENDS TcpServer, ReqId

CONSTANTS
    Events,         \* the event names clients subscribe to and threads publish
    Registrations,  \* what the application registers: [function_name, cb]
    Publishers,     \* the application threads that publish
    Modes,          \* the notification types clients subscribe with
    Foreign,        \* requests other than subscriptions that a peer sends
    MaxRequests,    \* bound: such requests over one connection
    MaxSeq,         \* bound: events sent in one behaviour
    NULL

SUBSCRIBE_EVENT == "subscribeEvent"
ACTION_RESULT   == "result"

NotificationTypes == {"ON_CHANGE", "ON_CHANGE_SYNC", "ON_CHANGE_SYNC_TIMEOUT"}
Synchronous       == {"ON_CHANGE_SYNC", "ON_CHANGE_SYNC_TIMEOUT"}

MsgStatus == {"NO_EVENT_MSG", "WAIT_EVENT_REPLY_MSG", "EVENT_REPLY_SUCCESS",
              "EVENT_REPLY_ERROR"}

\* json_object_new_int(get_sequence_number()), as the text both sides copy.
ReqIds == {Digits(n) : n \in (DEFAULT_SEQ_START_NUMBER + 1)
                                 ..(DEFAULT_SEQ_START_NUMBER + MaxSeq)}

-----------------------------------------------------------------------------
(* Frames.  A request without "params" has event NULL; an acknowledgement  *)
(* without Result.Status has status NULL.                                  *)

SubscribeFrame(e, t) == [type |-> "subscribe", event |-> e, mode |-> t]
ResultFrame(e, id, s) ==
    [type |-> "result", event |-> e, req_id |-> id, status |-> s]
EventFrame(name, id) == [type |-> "event", name |-> name, req_id |-> id]
\* A reply echoes the reqId of the request: `re` is that request.
ReplyFrame(f, s) == [type |-> "reply", re |-> f, status |-> s]

Requests ==
    [type : {"call"}, action : STRING]
        \cup [type : {"subscribe"}, event : Events \cup {NULL},
              mode : NotificationTypes]
        \cup [type : {"result"}, event : Events \cup {<<>>},
              req_id : ReqIds \cup {<<>>},
              status : {"EVENT_REPLY_SUCCESS", "EVENT_REPLY_ERROR", NULL}]
        \cup [type : {"noid", "noaction", "garbage"}]

Frame ==
    Requests
        \cup [type : {"reply"}, re : Requests,
              status : {"Success", "Failed", "Not Supported"}]
        \cup [type : {"event"}, name : Events, req_id : ReqIds]

ActionOf(f) ==
    CASE f.type = "subscribe" -> SUBSCRIBE_EVENT
      [] f.type = "result"    -> ACTION_RESULT
      [] f.type = "call"      -> f.action

\* The frames message_process_cb stops at, leaving the rest of the buffer:
\* one the tokener rejects, a subscribeEvent request without "params".
Malformed(f) ==
    f.type = "garbage" \/ (f.type = "subscribe" /\ f.event = NULL)

ASSUME /\ Modes \subseteq NotificationTypes
       /\ Foreign \subseteq Requests
       /\ \A f \in Foreign : f.type = "subscribe" => f.event = NULL

VARIABLES
    g_hal_functions_list,        \* the registered actions
    g_event_subscriptions_list,  \* the subscription records, in list order
    g_seqnumber,
    gm_subscription_mutex,       \* the publisher that holds it, or NULL; the
                                 \* handler thread's sections are one step
    dispatch,   \* message_process_cb on the first frame of buffer: "parse",
                \* or "subscribe" once the request has been answered
    pub,        \* per publisher: where it is in json_hal_server_publish_event
    cli,        \* per connection: the client library at the other end
    conn        \* per connection, for the properties and the bounds: the
                \* events its client asked for, the reqIds it acknowledged,
                \* the number of its other requests and whether one of
                \* them was malformed

halVars == <<g_hal_functions_list, g_event_subscriptions_list, g_seqnumber,
             gm_subscription_mutex, dispatch, pub, cli, conn>>

vars == <<tcpServerVars, halVars>>

Subscription ==
    [fd : Fds, event : Events, event_type : NotificationTypes,
     req_id : ReqIds \cup {<<>>}, status : MsgStatus]

Idle ==
    [pc |-> "idle", event_name |-> NULL, subs |-> 0, ret |-> RETURN_OK,
     publish_event_blocking |-> FALSE, wait_ret |-> NULL, expired |-> FALSE,
     notified |-> {}]

NoClient == [pc |-> "idle", req |-> NULL, g_event_tracking |-> {}]
NoHistory ==
    [subscribed |-> {}, acked |-> {}, requests |-> 0, malformed |-> FALSE]

HalTypeOK ==
    /\ TcpServerTypeOK
    /\ g_hal_functions_list \subseteq Registrations
    /\ g_event_subscriptions_list \in Seq(Subscription)
    /\ g_seqnumber \in DEFAULT_SEQ_START_NUMBER
                          ..(DEFAULT_SEQ_START_NUMBER + MaxSeq)
    /\ gm_subscription_mutex \in Publishers \cup {NULL}
    /\ dispatch \in {"parse", "subscribe"}
    /\ pub \in [Publishers ->
                  [pc : {"idle", "walk", "wait", "done"},
                   event_name : Events \cup {NULL},
                   subs : Nat,
                   ret : {RETURN_OK, RETURN_ERR},
                   publish_event_blocking : BOOLEAN,
                   wait_ret : {RETURN_OK, RETURN_ERR, NULL},
                   expired : BOOLEAN,
                   notified : SUBSET (Fds \X ReqIds)]]
    /\ cli \in [Fds -> [pc : {"idle", "waiting", "woken"},
                        req : Requests \cup {NULL},
                        g_event_tracking : SUBSET Events]]
    /\ conn \in [Fds -> [subscribed : SUBSET Events, acked : SUBSET ReqIds,
                         requests : 0..MaxRequests, malformed : BOOLEAN]]

HalInit ==
    /\ TcpServerInit
    /\ g_hal_functions_list = {}
    /\ g_event_subscriptions_list = <<>>
    /\ g_seqnumber = DEFAULT_SEQ_START_NUMBER
    /\ gm_subscription_mutex = NULL
    /\ dispatch = "parse"
    /\ pub = [p \in Publishers |-> Idle]
    /\ cli = [d \in Fds |-> NoClient]
    /\ conn = [d \in Fds |-> NoHistory]

-----------------------------------------------------------------------------
(* The facade *)

\* json_hal_server_register_action_callback, before json_hal_server_run: a
\* name already in the list is refused.
Register(r) ==
    /\ facade = "init"
    /\ \A q \in g_hal_functions_list : q.function_name # r.function_name
    /\ g_hal_functions_list' = g_hal_functions_list \cup {r}
    /\ UNCHANGED <<tcpServerVars, g_event_subscriptions_list, g_seqnumber,
                   gm_subscription_mutex, dispatch, pub, cli, conn>>

\* get_registered_rpc_action_by_name
Registered(name) == {r \in g_hal_functions_list : r.function_name = name}

Run == ServerRun /\ UNCHANGED halVars

TerminateBegin == Stop /\ UNCHANGED halVars

\* json_hal_server_terminate after its wait: both lists are emptied, the
\* subscription list without gm_subscription_mutex.
TerminateFree ==
    /\ TerminateReturn
    /\ g_hal_functions_list' = {}
    /\ g_event_subscriptions_list' = <<>>
    /\ UNCHANGED <<g_seqnumber, gm_subscription_mutex, dispatch, pub, cli,
                   conn>>

-----------------------------------------------------------------------------
(* The handler thread outside message_process_cb *)

Swept_Kept(d) == g_event_subscriptions_list

\* remove_event_subscription_from_list(fd)
Swept(d) == SelectSeq(g_event_subscriptions_list, LAMBDA s : s.fd # d)

\* The connections in ds are closed: what the properties remember of them
\* is forgotten, and their clients are gone.
Ended(ds) ==
    /\ conn' = [d \in Fds |-> IF d \in ds THEN NoHistory ELSE conn[d]]
    /\ cli' = [d \in Fds |-> IF d \in ds THEN NoClient ELSE cli[d]]
    /\ pub' = [p \in Publishers |->
                  [pub[p] EXCEPT !.notified = {n \in @ : n[1] \notin ds}]]

\* End-of-file on d: client_disconnected_cb sweeps the registry under the
\* mutex, then the descriptor is closed.
Disconnected(d) ==
    /\ gm_subscription_mutex = NULL
    /\ RecvEof(d)
    /\ g_event_subscriptions_list' = Swept(d)
    /\ Ended({d})
    /\ UNCHANGED <<g_hal_functions_list, g_seqnumber, gm_subscription_mutex,
                   dispatch>>

\* The loop is left with connections open: they are closed without
\* client_disconnected_cb, and their records stay in the registry.
Exits ==
    /\ LoopExit \/ SelectFail
    /\ Ended(Fds)
    /\ UNCHANGED <<g_hal_functions_list, g_event_subscriptions_list,
                   g_seqnumber, gm_subscription_mutex, dispatch>>

Transport ==
    /\ \/ HandlerStart \/ HandlerStartFail \/ Select \/ PassEnd
       \/ AcceptNone
       \/ \E d \in Fds : Accept(d) \/ RecvData(d) \/ RecvError(d)
    /\ UNCHANGED halVars

-----------------------------------------------------------------------------
(* message_process_cb *)

Parsing == handler = "running" /\ at = "process" /\ dispatch = "parse"

NextFrame_Return ==
    /\ buffer' = <<>>
    /\ UNCHANGED <<facade, handler, at, running, g_rpc_server_running_status,
                   master_set, max_sd, g_client_list, working_set, cur_sd,
                   listening, backlog, peer, toServer>>

\* The pass through the for loop is over for the first frame.
NextFrame ==
    /\ buffer' = Tail(buffer)
    /\ UNCHANGED <<facade, handler, at, running, g_rpc_server_running_status,
                   master_set, max_sd, g_client_list, working_set, cur_sd,
                   listening, backlog, peer, toServer>>

\* socket_send of a reply; its result is only logged.
Reply(f, s) ==
    \E rc \in {RETURN_OK, RETURN_ERR} : SendData(cur_sd, ReplyFrame(f, s), rc)

\* The tokener has consumed the buffer: return RETURN_OK.
DispatchEnd ==
    /\ Parsing /\ buffer = <<>>
    /\ ProcessReturn
    /\ UNCHANGED halVars

\* The tokener reports an error: return RETURN_ERR, whatever follows in the
\* buffer is dropped.
ParseError ==
    /\ Parsing /\ buffer # <<>> /\ Head(buffer).type = "garbage"
    /\ ProcessReturn
    /\ UNCHANGED halVars

\* No reqId, or no action: continue.
SkipFrame ==
    /\ Parsing /\ buffer # <<>>
    /\ Head(buffer).type \in {"noid", "noaction"}
    /\ NextFrame
    /\ UNCHANGED <<toClient, halVars>>

\* The first frame names an action.
Request(f) ==
    /\ Parsing /\ buffer # <<>> /\ f = Head(buffer)
    /\ f.type \in {"call", "subscribe", "result"}

Acknowledged_AnyId(fd, f) ==
    [i \in DOMAIN g_event_subscriptions_list |->
        LET s == g_event_subscriptions_list[i]
        IN  IF IsPrefix(f.event, s.event) /\ s.fd = fd
            THEN [s EXCEPT !.status = f.status] ELSE s]

\* LL_FOREACH: the records of fd whose event and reqId start with those of
\* the acknowledgement f take its status.
Acknowledged(fd, f) ==
    [i \in DOMAIN g_event_subscriptions_list |->
        LET s == g_event_subscriptions_list[i]
        IN  IF /\ IsPrefix(f.event, s.event)
               /\ s.fd = fd
               /\ IsPrefix(f.req_id, s.req_id)
            THEN [s EXCEPT !.status = f.status] ELSE s]

\* "result" is not a registered action: the frame is the acknowledgement of
\* an event.  get_event_reply_data_from_msg fails without Result.Status.
AckResult ==
    \E f \in ToSet(buffer) :
        /\ Request(f) /\ ActionOf(f) = ACTION_RESULT
        /\ Registered(ACTION_RESULT) = {}
        /\ \/ /\ f.status = NULL
              /\ UNCHANGED g_event_subscriptions_list
           \/ /\ f.status # NULL
              /\ gm_subscription_mutex = NULL
              /\ g_event_subscriptions_list' = Acknowledged(cur_sd, f)
        /\ NextFrame
        /\ UNCHANGED <<toClient, g_hal_functions_list, g_seqnumber,
                       gm_subscription_mutex, dispatch, pub, cli, conn>>

\* No such action: the reply says not supported.
CallUnknown ==
    \E f \in ToSet(buffer) :
        /\ Request(f) /\ ActionOf(f) # ACTION_RESULT
        /\ Registered(ActionOf(f)) = {}
        /\ Reply(f, "Not Supported")
        /\ NextFrame
        /\ UNCHANGED halVars

\* The action was registered without a callback.
CallNullCb ==
    \E f \in ToSet(buffer), r \in g_hal_functions_list :
        /\ Request(f) /\ r \in Registered(ActionOf(f)) /\ ~r.cb
        /\ Reply(f, "Not Supported")
        /\ NextFrame
        /\ UNCHANGED halVars

\* rpc->cb fails: the reply says failed, continue.
CallFailed ==
    \E f \in ToSet(buffer), r \in g_hal_functions_list :
        /\ Request(f) /\ r \in Registered(ActionOf(f)) /\ r.cb
        /\ Reply(f, "Failed")
        /\ NextFrame
        /\ UNCHANGED halVars

\* rpc->cb succeeds and its reply is sent; a subscribeEvent request is then
\* looked at again.
CallReplied ==
    \E f \in ToSet(buffer), r \in g_hal_functions_list :
        /\ Request(f) /\ r \in Registered(ActionOf(f)) /\ r.cb
        /\ Reply(f, "Success")
        /\ IF ActionOf(f) = SUBSCRIBE_EVENT
           THEN dispatch' = "subscribe" /\ UNCHANGED buffer
           ELSE dispatch' = "parse" /\ buffer' = Tail(buffer)
        /\ UNCHANGED <<facade, handler, at, running,
                       g_rpc_server_running_status, master_set, max_sd,
                       g_client_list, working_set, cur_sd, listening, backlog,
                       peer, toServer>>
        /\ UNCHANGED <<g_hal_functions_list, g_event_subscriptions_list,
                       g_seqnumber, gm_subscription_mutex, pub, cli, conn>>

Subscribing == handler = "running" /\ at = "process" /\ dispatch = "subscribe"

\* initialise_event_subscription_data, get_event_subscription_data_from_msg
\* and add_event_subscription_to_list: the record is appended under the
\* mutex, after the reply has gone out.
SubscribeAdd ==
    LET f == Head(buffer)
    IN  /\ Subscribing /\ f.type = "subscribe" /\ f.event # NULL
        /\ gm_subscription_mutex = NULL
        /\ g_event_subscriptions_list' =
              Append(g_event_subscriptions_list,
                     [fd |-> cur_sd, event |-> f.event, event_type |-> f.mode,
                      req_id |-> <<>>, status |-> "NO_EVENT_MSG"])
        /\ dispatch' = "parse"
        /\ NextFrame
        /\ UNCHANGED <<toClient, g_hal_functions_list, g_seqnumber,
                       gm_subscription_mutex, pub, cli, conn>>

\* The request has no usable "params": break, and the function returns
\* without looking at the frames that follow.
SubscribeBreak ==
    LET f == Head(buffer)
    IN  /\ Subscribing /\ (f.type = "subscribe" => f.event = NULL)
        /\ dispatch' = "parse"
        /\ ProcessReturn
        /\ UNCHANGED <<g_hal_functions_list, g_event_subscriptions_list,
                       g_seqnumber, gm_subscription_mutex, pub, cli, conn>>

Dispatcher ==
    \/ DispatchEnd \/ ParseError \/ SkipFrame \/ AckResult
    \/ CallUnknown \/ CallNullCb \/ CallFailed \/ CallReplied
    \/ SubscribeAdd \/ SubscribeBreak

HandlerThread == Transport \/ (\E d \in Fds : Disconnected(d)) \/ Exits
                     \/ Dispatcher

-----------------------------------------------------------------------------
(* json_hal_server_publish_event *)

\* strncmp(subs->event, event_name, strlen(event_name)) == 0
Matches(s, name) == IsPrefix(name, s.event)

Targets_FromHead(p) ==
    {i \in DOMAIN g_event_subscriptions_list :
        Matches(g_event_subscriptions_list[i], pub[p].event_name)}

\* The records of the walk from the cursor on that the event goes to.
Targets(p) ==
    {i \in pub[p].subs..Len(g_event_subscriptions_list) :
        Matches(g_event_subscriptions_list[i], pub[p].event_name)}

\* get_sequence_number
SequenceNumber == NextReqId(g_seqnumber)

\* The call starts, between json_hal_server_run and
\* json_hal_server_terminate: the mutex is taken for the whole walk.  The
\* walk will send no more events than MaxSeq leaves.
PublishLock(p, name) ==
    /\ facade = "run"
    /\ pub[p].pc = "idle"
    /\ gm_subscription_mutex = NULL
    /\ g_seqnumber + Len(SelectSeq(g_event_subscriptions_list,
                                   LAMBDA s : Matches(s, name)))
          <= DEFAULT_SEQ_START_NUMBER + MaxSeq
    /\ gm_subscription_mutex' = p
    /\ pub' = [pub EXCEPT ![p] = [Idle EXCEPT !.pc = "walk",
                                               !.event_name = name,
                                               !.subs = 1]]
    /\ UNCHANGED <<tcpServerVars, g_hal_functions_list,
                   g_event_subscriptions_list, g_seqnumber, dispatch, cli,
                   conn>>

Blocking_LastRecord(flag, sync, rc) == rc = RETURN_OK /\ sync

\* publish_event_blocking after a record of the walk: set before the send
\* to a synchronous subscriber, cleared by a send that fails, otherwise as
\* the records before left it.
Blocking(flag, sync, rc) == rc = RETURN_OK /\ (sync \/ flag)

\* The walk reaches the next record the event goes to: a message with a
\* new reqId; for a synchronous subscription the record takes the reqId and
\* waits for its acknowledgement; then the message is sent, with the mutex
\* held.  A failed send clears publish_event_blocking, a later synchronous
\* record sets it again.
PublishSend(p) ==
    /\ pub[p].pc = "walk" /\ Targets(p) # {}
    /\ LET i    == Min(Targets(p))
           s    == g_event_subscriptions_list[i]
           id   == Digits(SequenceNumber)
           sync == s.event_type \in Synchronous
       IN  /\ g_seqnumber' = SequenceNumber
           /\ g_event_subscriptions_list' =
                 IF sync
                 THEN [g_event_subscriptions_list EXCEPT
                          ![i].req_id = id,
                          ![i].status = "WAIT_EVENT_REPLY_MSG"]
                 ELSE g_event_subscriptions_list
           /\ \E rc \in {RETURN_OK, RETURN_ERR} :
                 /\ SendData(s.fd, EventFrame(pub[p].event_name, id), rc)
                 /\ pub' = [pub EXCEPT
                       ![p].subs = i + 1,
                       ![p].ret = IF rc = RETURN_OK THEN @ ELSE RETURN_ERR,
                       ![p].publish_event_blocking = Blocking(@, sync, rc),
                       ![p].notified =
                           IF sync /\ rc = RETURN_OK /\ peer[s.fd] = "open"
                           THEN @ \cup {<<s.fd, id>>} ELSE @]
    /\ UNCHANGED <<facade, serverThreadVars, listening, backlog, peer,
                   toServer, g_hal_functions_list, gm_subscription_mutex,
                   dispatch, cli, conn>>

\* The walk is over: unlock; wait_publish_event_reply is called if
\* publish_event_blocking is set.
PublishUnlock(p) ==
    /\ pub[p].pc = "walk" /\ Targets(p) = {}
    /\ gm_subscription_mutex' = NULL
    /\ pub' = [pub EXCEPT
          ![p].pc = IF pub[p].publish_event_blocking THEN "wait" ELSE "done",
          ![p].wait_ret =
              IF pub[p].publish_event_blocking THEN RETURN_OK ELSE NULL]
    /\ UNCHANGED <<tcpServerVars, g_hal_functions_list,
                   g_event_subscriptions_list, g_seqnumber, dispatch, cli,
                   conn>>

\* json_hal_server_publish_event returns ret; what
\* wait_publish_event_reply returned is not looked at.
PublishReturn(p) ==
    /\ pub[p].pc = "done"
    /\ pub' = [pub EXCEPT ![p] = Idle]
    /\ UNCHANGED <<tcpServerVars, g_hal_functions_list,
                   g_event_subscriptions_list, g_seqnumber,
                   gm_subscription_mutex, dispatch, cli, conn>>

-----------------------------------------------------------------------------
(* wait_publish_event_reply, one pass of its loop per step *)

\* The synchronous records of the publisher's event.
SyncSubs(p) ==
    {i \in DOMAIN g_event_subscriptions_list :
        /\ Matches(g_event_subscriptions_list[i], pub[p].event_name)
        /\ g_event_subscriptions_list[i].event_type \in Synchronous}

\* Those still waiting for their acknowledgement.
Awaited(p) ==
    {i \in SyncSubs(p) :
        g_event_subscriptions_list[i].status = "WAIT_EVENT_REPLY_MSG"}

InTime_Always(p, i) == TRUE

\* Record i keeps the loop going: it has no time-out, or no more than
\* SEND_EVENT_SUBSCRIPTION_TIMEOUT seconds have passed.
InTime(p, i) ==
    \/ g_event_subscriptions_list[i].event_type = "ON_CHANGE_SYNC"
    \/ ~pub[p].expired

\* while (waiting_event_reply && !msg_timeout), as the pass leaves them.
LoopsOn(p) == \E i \in Awaited(p) : InTime(p, i)

\* A record that is neither waiting nor acknowledged with success.
Refused(p) ==
    \E i \in SyncSubs(p) \ Awaited(p) :
        g_event_subscriptions_list[i].status # "EVENT_REPLY_SUCCESS"

Polling(p) == pub[p].pc = "wait" /\ gm_subscription_mutex = NULL

WaitAgain(p) ==
    /\ Polling(p) /\ LoopsOn(p)
    /\ pub' = [pub EXCEPT
          ![p].wait_ret = IF Refused(p) THEN RETURN_ERR ELSE @]
    /\ UNCHANGED <<tcpServerVars, g_hal_functions_list,
                   g_event_subscriptions_list, g_seqnumber,
                   gm_subscription_mutex, dispatch, cli, conn>>

\* The loop ends: nothing is awaited any more, or what is has timed out.
WaitOver(p) ==
    /\ Polling(p) /\ ~LoopsOn(p)
    /\ pub' = [pub EXCEPT
          ![p].pc = "done",
          ![p].wait_ret = IF Refused(p) \/ Awaited(p) # {}
                          THEN RETURN_ERR ELSE @]
    /\ UNCHANGED <<tcpServerVars, g_hal_functions_list,
                   g_event_subscriptions_list, g_seqnumber,
                   gm_subscription_mutex, dispatch, cli, conn>>

\* More than SEND_EVENT_SUBSCRIPTION_TIMEOUT seconds have passed since
\* the wait began.
Tick(p) ==
    /\ pub[p].pc = "wait" /\ ~pub[p].expired
    /\ pub' = [pub EXCEPT ![p].expired = TRUE]
    /\ UNCHANGED <<tcpServerVars, g_hal_functions_list,
                   g_event_subscriptions_list, g_seqnumber,
                   gm_subscription_mutex, dispatch, cli, conn>>

Wait(p) == WaitAgain(p) \/ WaitOver(p) \/ Tick(p)

Publisher(p) ==
    \/ \E name \in Events : PublishLock(p, name)
    \/ PublishSend(p) \/ PublishUnlock(p) \/ PublishReturn(p)
    \/ Wait(p)

-----------------------------------------------------------------------------
(* The clients: src/json_hal_client.c at the other end of a connection *)

Connect == ClientConnect /\ UNCHANGED halVars

\* A request that is not a subscription.
ClientRequest(d, f) ==
    /\ conn[d].requests < MaxRequests
    /\ ClientSend(d, f)
    /\ conn' = [conn EXCEPT ![d].requests = @ + 1,
                             ![d].malformed = @ \/ Malformed(f)]
    /\ UNCHANGED <<g_hal_functions_list, g_event_subscriptions_list,
                   g_seqnumber, gm_subscription_mutex, dispatch, pub, cli>>

\* json_hal_client_subscribe_event sends the request and waits for the
\* reply.  A client asks for an event once.
ClientSubscribe(d, e, t) ==
    /\ cli[d].pc = "idle" /\ e \notin conn[d].subscribed
    /\ ClientSend(d, SubscribeFrame(e, t))
    /\ cli' = [cli EXCEPT ![d].pc = "waiting",
                          ![d].req = SubscribeFrame(e, t)]
    /\ conn' = [conn EXCEPT ![d].subscribed = @ \cup {e}]
    /\ UNCHANGED <<g_hal_functions_list, g_event_subscriptions_list,
                   g_seqnumber, gm_subscription_mutex, dispatch, pub>>

\* No reply within the request time-out: the call returns RETURN_ERR.
ClientGiveUp(d) ==
    /\ cli[d].pc = "waiting"
    /\ cli' = [cli EXCEPT ![d].pc = "idle", ![d].req = NULL]
    /\ UNCHANGED <<tcpServerVars, g_hal_functions_list,
                   g_event_subscriptions_list, g_seqnumber,
                   gm_subscription_mutex, dispatch, pub, conn>>

\* The client's transport thread reads a reply: the caller whose request it
\* answers is woken, whatever its status says.
ClientReply(d) ==
    /\ ClientRecv(d) /\ Head(toClient[d]).type = "reply"
    /\ cli' = IF cli[d].pc = "waiting" /\ Head(toClient[d]).re = cli[d].req
              THEN [cli EXCEPT ![d].pc = "woken"] ELSE cli
    /\ UNCHANGED <<g_hal_functions_list, g_event_subscriptions_list,
                   g_seqnumber, gm_subscription_mutex, dispatch, pub, conn>>

\* The woken caller appends the event to g_event_tracking and returns
\* RETURN_OK, or malloc fails and it returns RETURN_ERR without the entry.
ClientAppend(d) ==
    /\ cli[d].pc = "woken"
    /\ \E eventsubs \in SUBSET {cli[d].req.event} :
          cli' = [cli EXCEPT ![d] = [pc |-> "idle", req |-> NULL,
                                    g_event_tracking |->
                                        @.g_event_tracking \cup eventsubs]]
    /\ UNCHANGED <<tcpServerVars, g_hal_functions_list,
                   g_event_subscriptions_list, g_seqnumber,
                   gm_subscription_mutex, dispatch, pub, conn>>

\* if (!strncmp(events->event_name, event_name, strlen(event_name)))
Tracked(d, name) == \E e \in cli[d].g_event_tracking : IsPrefix(name, e)

\* The client's transport thread reads an event.  With an entry of
\* g_event_tracking for it the callback runs and the acknowledgement is
\* sent, unless the non-blocking socket has no room for it; without one the
\* event is dropped.
ClientEvent(d) ==
    LET f    == Head(toClient[d])
        room == Len(toServer[d]) < MaxWire
        ack  == ResultFrame(f.name, f.req_id, "EVENT_REPLY_SUCCESS")
    IN  /\ peer[d] = "open" /\ toClient[d] # <<>> /\ f.type = "event"
        /\ toClient' = [toClient EXCEPT ![d] = Tail(@)]
        /\ IF Tracked(d, f.name) /\ room
           THEN /\ toServer' = [toServer EXCEPT ![d] = Append(@, ack)]
                /\ conn' = [conn EXCEPT ![d].acked = @ \cup {f.req_id}]
           ELSE UNCHANGED <<toServer, conn>>
        /\ UNCHANGED <<facade, serverThreadVars, listening, backlog, peer,
                       g_hal_functions_list, g_event_subscriptions_list,
                       g_seqnumber, gm_subscription_mutex, dispatch, pub, cli>>

\* json_hal_client_terminate, or the end of the client's process: the
\* handler thread closes the socket on its way out, the pending request and
\* g_event_tracking are freed.  A caller that still waits is not woken.
ClientGone(d) ==
    /\ ClientClose(d)
    /\ cli' = [cli EXCEPT ![d] = NoClient]
    /\ UNCHANGED <<g_hal_functions_list, g_event_subscriptions_list,
                   g_seqnumber, gm_subscription_mutex, dispatch, pub, conn>>

Client(d) ==
    \/ \E f \in Foreign : ClientRequest(d, f)
    \/ \E e \in Events, t \in Modes : ClientSubscribe(d, e, t)
    \/ ClientGiveUp(d) \/ ClientReply(d) \/ ClientAppend(d)
    \/ ClientEvent(d) \/ ClientGone(d)

-----------------------------------------------------------------------------

Application ==
    \/ \E r \in Registrations : Register(r)
    \/ Run \/ TerminateBegin \/ TerminateFree

Next ==
    \/ Application
    \/ HandlerThread
    \/ \E p \in Publishers : Publisher(p)
    \/ Connect
    \/ \E d \in Fds : Client(d)

Spec == HalInit /\ [][Next]_vars

\* What the client's transport thread does with what it receives.
ClientTransport(d) == ClientReply(d) \/ ClientEvent(d)

\* The server's threads and the transport thread of every client are
\* scheduled, and the clock of a waiting publisher advances.
FairSpec ==
    /\ Spec
    /\ WF_vars(HandlerThread)
    /\ \A p \in Publishers :
          WF_vars(PublishSend(p) \/ PublishUnlock(p) \/ Wait(p))
    /\ \A d \in Fds : WF_vars(ClientTransport(d))

-----------------------------------------------------------------------------
(* Properties *)

\* While the handler thread is in its loop, every record of
\* g_event_subscriptions_list belongs to a connection that is open and
\* whose client asked for that event over it: client_disconnected_cb removes
\* every record of a descriptor before accept() can hand the descriptor to
\* another client, so no event goes to a client that did not subscribe and
\* no acknowledgement is taken from one.
RegistryIsOwn ==
    handler = "running" =>
        \A i \in DOMAIN g_event_subscriptions_list :
            LET s == g_event_subscriptions_list[i]
            IN  s.fd \in Connections /\ s.event \in conn[s.fd].subscribed

\* When wait_publish_event_reply ends with RETURN_OK, every client that was
\* sent the event for a synchronous subscription and is still connected has
\* acknowledged that very message: the acknowledgement path of
\* message_process_cb changes a record only for the reqId the record waits
\* for, so neither a late acknowledgement of an earlier event nor one from
\* another connection ends the wait.
AckBeforeReturn ==
    \A p \in Publishers :
        (facade = "run" /\ pub[p].pc = "done" /\ pub[p].wait_ret = RETURN_OK)
            => \A n \in pub[p].notified : n[2] \in conn[n[1]].acked

\* A publisher in wait_publish_event_reply leaves it, unless a subscriber
\* of type ON_CHANGE_SYNC (no time-out) has yet to acknowledge: the
\* subscribers with a time-out stop holding the loop once
\* SEND_EVENT_SUBSCRIPTION_TIMEOUT has passed, whether or not their
\* acknowledgements arrive.
PublishReturns ==
    \A p \in Publishers :
        pub[p].pc = "wait" ~>
            \/ pub[p].pc # "wait"
            \/ \E i \in Awaited(p) :
                  g_event_subscriptions_list[i].event_type = "ON_CHANGE_SYNC"

\* A publish that skips wait_publish_event_reply although a synchronous
\* subscriber was sent the event tells its caller: publish_event_blocking
\* is one flag for the whole walk of json_hal_server_publish_event, set at
\* a synchronous record and cleared by a failed send, so the wait for an
\* earlier subscriber is called off by the failure of a later send, and
\* only then, in which case the call returns RETURN_ERR.
SkippedWaitIsReported ==
    \A p \in Publishers :
        (pub[p].pc = "done" /\ pub[p].wait_ret = NULL /\ pub[p].notified # {})
            => pub[p].ret = RETURN_ERR

\* A client that has sent nothing malformed gets an answer to every
\* subscription while its connection is open: the request it waits on is
\* on its way to the handler thread, in the buffer message_process_cb is
\* working through, or answered by a reply on its way back.  The returns and
\* the break of message_process_cb drop the frames of a recv() only behind a
\* frame the tokener rejects or a subscription without "params"; every
\* other pass of its loop, the pass that answers a subscription and looks
\* at it a second time included, goes on to the next frame.
RequestNotDropped ==
    \A d \in Fds :
        (cli[d].pc = "waiting" /\ peer[d] = "open" /\ ~conn[d].malformed)
            => \/ cli[d].req \in ToSet(toServer[d])
               \/ cur_sd = d /\ cli[d].req \in ToSet(buffer)
               \/ \E i \in DOMAIN toClient[d] :
                     /\ toClient[d][i].type = "reply"
                     /\ toClient[d][i].re = cli[d].req

=============================================================================
