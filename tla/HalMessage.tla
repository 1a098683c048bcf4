----------------------------- MODULE HalMessage -----------------------------
(***************************************************************************)
(* What a call carries, from the manager that builds the request to the    *)
(* manager that reads the reply:                                           *)
(*                                                                         *)
(*   - json_hal_client_init and json_hal_server_init, which load the       *)
(*     configuration both ends build their headers from (module HalConfig);*)
(*   - the manager: json_hal_client_get_request_header, json_hal_add_param *)
(*     once per parameter, the call, and on the reply                      *)
(*     json_hal_get_result_status, json_hal_get_total_param_count and      *)
(*     json_hal_get_param (src/json_hal_client.c, src/json_hal_common.c);  *)
(*   - the server: the dispatcher's prepare_json_response_header, the      *)
(*     callback of the application, which reads the request parameter by   *)
(*     parameter and fills the reply with json_hal_add_result_status,      *)
(*     json_hal_add_param or json_hal_add_schema_response, and the reply   *)
(*     the dispatcher sends, create_json_reply_msg when the callback       *)
(*     failed (src/json_hal_server.c).                                     *)
(*                                                                         *)
(* and what an event carries, from json_hal_server_publish_event through   *)
(* the event branch of the client's reader to the acknowledgement the      *)
(* dispatcher reads.                                                       *)
(*                                                                         *)
(* The callbacks are those of src/samples/json_hal_server_test.c, with the *)
(* answer of the platform chosen freely.  A message is a function on the   *)
(* keys it has; what the transport does to its text is the subject of the  *)
(* modules Framer, Correlation and HalServer, so here the request the      *)
(* manager sent is the request the dispatcher parsed.                      *)
(***************************************************************************)
EXTENDS HalValidator

CONSTANTS
    Names,          \* the names of the data model a manager asks about
    Values,         \* the texts an application puts in hal_param_t.value
    Notifications,  \* the notification types, as texts, it subscribes with
    Answers,        \* the parameters the platform may answer one name with
    EventValues,    \* the values an application publishes an event with
    ConfigPaths,    \* the paths the applications pass to the init functions
    MaxParams,      \* bound: parameters added to one request
    MaxCalls,       \* bound: requests of one behaviour
    MaxEvents,      \* bound: event messages of one behaviour
    SchemaValidation    \* the build has JSON_SCHEMA_VALIDATION_ENABLED
IDLE_TIMEOUT_PERIOD == 2000

GET_PARAM  == "getParameters"
GET_SCHEMA == "getSchema"
SUBSCRIBE_EVENT == "subscribeEvent"
PUBLISH_EVENT   == "publishEvent"
Actions    == {GET_PARAM, GET_SCHEMA, "setParameters", "deleteObject"}

\* The eActionType a manager passes when it adds to a request.
RequestType ==
    [a \in Actions |->
        CASE a = "setParameters" -> "SET_REQUEST_MESSAGE"
          [] a = "deleteObject"  -> "DELETE_REQUEST_MESSAGE"
          [] OTHER               -> "GET_REQUEST_MESSAGE"]

\* eNotificationType_t and JSON_RPC_FIELD_PARAM_NOTIFICATION_TYPE_*.
NotificationTypes == {"ON_CHANGE", "ON_CHANGE_SYNC", "ON_CHANGE_SYNC_TIMEOUT"}
NotificationName ==
    [t \in NotificationTypes |->
        CASE t = "ON_CHANGE"      -> "onChange"
          [] t = "ON_CHANGE_SYNC" -> "onChangeSync"
          [] OTHER                -> "onChangeSyncTimeout"]

\* The notification types json_hal_server_publish_event waits for.
Blocking == {"ON_CHANGE_SYNC", "ON_CHANGE_SYNC_TIMEOUT"}

Ends == {"client", "server"}

VARIABLES
    g_hal_client_config,    \* hal_config_t of the client library
    g_server_config,        \* hal_config_t of the server library
    port,                   \* g_rpc_client.port and g_rpc_server.port
    init_rc,                \* what the last init function of an end returned
    conf_file,              \* and the path it was called with
    validator,              \* the json_validator of the server
    g_req_id,               \* the counter behind get_req_id
    pc,                     \* where the call is
    jrequest,               \* the request: built, sent and parsed
    jreply,                 \* the reply: prepared, filled, sent and parsed
    index,                  \* the loop index of the callback
    cb_rc,                  \* what the callback returned
    g_event_subscriptions_list,     \* the subscriptions the dispatcher recorded
    g_event_tracking,       \* the subscriptions the client library tracks
    g_seqnumber,            \* the counter behind get_sequence_number
    jevents,                \* the events sent and not yet read by the client
    jacks,                  \* its acknowledgements, not yet read by the server
    added,                  \* the parameters the manager added with RETURN_OK
    got,                    \* the parameters the callback has read
    answered,               \* the parameters the callback added with RETURN_OK
    seen                    \* what the manager read from the reply

configs == <<g_hal_client_config, g_server_config, port, init_rc, conf_file,
             validator>>
call    == <<g_req_id, pc, jrequest, jreply, index, cb_rc, added, got,
             answered, seen>>
events  == <<g_event_tracking, g_seqnumber, jevents, jacks>>
vars    == <<configs, call, events, g_event_subscriptions_list>>

-----------------------------------------------------------------------------
(* The messages.                                                           *)

\* json_hal_client_get_request_header: "params" unless the action starts
\* with getSchema, which of the actions only getSchema does.
GetRequestHeader(action_name, req_id) ==
    LET jmsg == [module  |-> g_hal_client_config.hal_module_name,
                 version |-> g_hal_client_config.hal_module_version,
                 reqId   |-> FormatReqId(req_id),
                 action  |-> action_name]
    IN  IF action_name = GET_SCHEMA THEN jmsg
        ELSE ObjectAdd(jmsg, "params", <<>>)

\* create_event_subscription_message(event_dml_path,
\* event_notification_type): the header and one parameter.
CreateEventSubscriptionMessage(event, notification, req_id) ==
    LET jsubs_msg == GetRequestHeader(SUBSCRIBE_EVENT, req_id)
        jobj      == [name |-> event, notificationType |-> notification]
    IN  IF "params" \in DOMAIN jsubs_msg
        THEN [jsubs_msg EXCEPT !.params = Append(@, jobj)]
        ELSE ObjectAdd(jsubs_msg, "params", <<jobj>>)

ResponseAction_Echoed(action_name) == action_name

\* The "action" of the reply the dispatcher prepares.
ResponseAction(action_name) ==
    CASE action_name = GET_PARAM  -> "getParametersResponse"
      [] action_name = GET_SCHEMA -> "getSchemaResponse"
      [] OTHER                    -> "result"

\* prepare_json_response_header: the header, and the member the callback
\* is to fill.
PrepareResponseHeader(action_name, req_id) ==
    LET jmsg == [module  |-> g_server_config.hal_module_name,
                 version |-> g_server_config.hal_module_version,
                 reqId   |-> req_id,
                 action  |-> ResponseAction(action_name)]
    IN  CASE action_name = GET_PARAM  -> ObjectAdd(jmsg, "params", <<>>)
          [] action_name = GET_SCHEMA ->
                ObjectAdd(jmsg, "SchemaInfo", EmptyObject)
          [] OTHER -> ObjectAdd(jmsg, "Result", EmptyObject)

\* create_json_reply_msg(req_id, type).
CreateJsonReplyMsg(req_id, status) ==
    [module  |-> g_server_config.hal_module_name,
     version |-> g_server_config.hal_module_version,
     action  |-> "result",
     reqId   |-> req_id,
     Result  |-> [Status |-> status]]

\* json_hal_add_result_status(jreply, result): a new "Result" in the place
\* of the one the reply had.
AddResultStatus(reply, result) ==
    ObjectAdd(reply, "Result",
              [Status |-> IF result = "RESULT_SUCCESS" THEN "Success"
                                                       ELSE "Failed"])

\* json_hal_add_schema_response(jreply, param).
AddSchemaResponse(reply, filepath) ==
    IF "SchemaInfo" \in DOMAIN reply
    THEN [rc  |-> RETURN_OK,
          msg |-> [reply EXCEPT
                      !.SchemaInfo = ObjectAdd(@, "FilePath", filepath)]]
    ELSE [rc |-> RETURN_ERR, msg |-> reply]

\* The comparison up to strlen of the name, as message_process_cb compares
\* action names: each of the three names begins with onChange.
NotificationOf_Prefix(notification_type) == "ON_CHANGE"

\* The chain of strncmp(notification_type, <name>, BUF_512), which compares
\* all of both texts: a text that is none of the three names is taken for
\* onChange.
NotificationOf(notification_type) ==
    IF \E t \in NotificationTypes : NotificationName[t] = notification_type
    THEN CHOOSE t \in NotificationTypes :
            NotificationName[t] = notification_type
    ELSE "ON_CHANGE"

\* json_hal_get_subscribe_event_request(jmsg, index, param), in the build
\* with JSON_BLOCKING_SUBSCRIBE_EVENT.
GetSubscribeEventRequest(jmsg, i) ==
    LET jparam == ArrayGetIdx(jmsg, i)
        None   == [name |-> Empty, type |-> "ON_CHANGE"]
    IN  CASE "params" \notin DOMAIN jmsg -> [rc |-> RETURN_ERR, param |-> None]
          [] "params" \in DOMAIN jmsg /\ "name" \notin DOMAIN jparam ->
                [rc |-> RETURN_ERR, param |-> None]
          [] OTHER ->
                IF "notificationType" \in DOMAIN jparam
                THEN [rc    |-> RETURN_OK,
                      param |-> [name |-> jparam.name,
                                 type |-> NotificationOf(jparam.notificationType)]]
                ELSE [rc    |-> RETURN_ERR,
                      param |-> [None EXCEPT !.name = jparam.name]]

\* initialise_event_subscription_data and
\* get_event_subscription_data_from_msg: the subscription of the first
\* parameter of the request, NULL when it cannot be read.
EventSubscriptionData(jmsg) ==
    LET req_param == GetSubscribeEventRequest(jmsg, 0)
    IN  IF req_param.rc = RETURN_OK
        THEN [event      |-> req_param.param.name,
              event_type |-> req_param.param.type,
              req_id     |-> Empty,
              status     |-> "NO_EVENT_MSG"]
        ELSE NULL

\* strncmp(text, prefix, strlen(prefix)) = 0, for the names and the numbers
\* of one behaviour of this module: none of them begins another, and the
\* empty text begins each.  (Module HalServer has names that begin others.)
StartsWith(text, prefix) == prefix = Empty \/ text = prefix

\* create_publish_event_msg(event_name, event_val): the reqId is a number,
\* the one get_sequence_number gave.
CreatePublishEventMsg(event_name, event_val, seq) ==
    [module  |-> g_server_config.hal_module_name,
     version |-> g_server_config.hal_module_version,
     action  |-> PUBLISH_EVENT,
     reqId   |-> JInt(seq),
     params  |-> <<[name |-> event_name, value |-> event_val]>>]

\* create_json_reply_event_msg(event_name, req_id, type) of the client.
CreateJsonReplyEventMsg(event_name, req_id, status) ==
    [module  |-> g_hal_client_config.hal_module_name,
     version |-> g_hal_client_config.hal_module_version,
     action  |-> "result",
     reqId   |-> req_id,
     params  |-> <<[name |-> event_name]>>,
     Result  |-> [Status |-> status]]

NoReplyData ==
    [rc |-> RETURN_ERR, event |-> Empty, req_id |-> Empty,
     status |-> "NO_EVENT_MSG"]

EventReplyData_NameAtTop(jmsg) ==
    IF {"Result", "name", "reqId"} \subseteq DOMAIN jmsg
    THEN [rc |-> RETURN_OK, event |-> jmsg.name, req_id |-> jmsg.reqId,
          status |-> IF jmsg.Result.Status = "Success"
                     THEN "EVENT_REPLY_SUCCESS" ELSE "EVENT_REPLY_ERROR"]
    ELSE NoReplyData

\* get_event_reply_data_from_msg(jmsg, rpc_event_subs_data): the status,
\* the name of the first parameter and the reqId of an acknowledgement.  A
\* message without "params" is read as one that names no event.
EventReplyData(jmsg) ==
    LET jresponse_params == ArrayGetIdx(jmsg, 0)
        Data(event) ==
            [rc     |-> RETURN_OK, event |-> event, req_id |-> jmsg.reqId,
             status |-> IF jmsg.Result.Status = "Success"
                        THEN "EVENT_REPLY_SUCCESS" ELSE "EVENT_REPLY_ERROR"]
    IN  CASE ~ ("Result" \in DOMAIN jmsg /\ "Status" \in DOMAIN jmsg.Result) ->
                NoReplyData
          [] "params" \in DOMAIN jmsg /\ "name" \notin DOMAIN jresponse_params ->
                NoReplyData
          [] "reqId" \notin DOMAIN jmsg -> NoReplyData
          [] "params" \in DOMAIN jmsg -> Data(jresponse_params.name)
          [] OTHER -> Data(Empty)

GetResultStatus_TopLevel(jobj) ==
    IF "Status" \in DOMAIN jobj
    THEN [rc |-> RETURN_OK, status |-> jobj.Status = "Success"]
    ELSE [rc |-> RETURN_ERR, status |-> NULL]

\* json_hal_get_result_status(jobj, status): *status is written only with
\* RETURN_OK.
GetResultStatus(jobj) ==
    IF "Result" \in DOMAIN jobj /\ "Status" \in DOMAIN jobj.Result
    THEN [rc |-> RETURN_OK, status |-> jobj.Result.Status = "Success"]
    ELSE [rc |-> RETURN_ERR, status |-> NULL]

\* json_hal_get_total_param_count(json_msg).
TotalParamCount(json_msg) ==
    IF "params" \in DOMAIN json_msg THEN Len(json_msg.params) ELSE 0

-----------------------------------------------------------------------------
(* Initialisation.                                                         *)

NotRead == [result |-> NULL, params |-> <<>>]

Init ==
    /\ g_hal_client_config = NoConfig
    /\ g_server_config = NoConfig
    /\ port = [e \in Ends |-> 0]
    /\ init_rc = [e \in Ends |-> NULL]
    /\ conf_file = [e \in Ends |-> NULL]
    /\ validator = NULL
    /\ g_req_id = DEFAULT_SEQ_START_NUMBER
    /\ pc = "idle"
    /\ jrequest = NULL
    /\ jreply = NULL
    /\ index = 0
    /\ cb_rc = RETURN_OK
    /\ g_event_subscriptions_list = <<>>
    /\ g_event_tracking = <<>>
    /\ g_seqnumber = DEFAULT_SEQ_START_NUMBER
    /\ jevents = <<>>
    /\ jacks = <<>>
    /\ added = <<>>
    /\ got = <<>>
    /\ answered = <<>>
    /\ seen = NotRead

\* No call is under way and no event or acknowledgement on its way: the
\* module follows one call or one event at a time.
Quiet == pc = "idle" /\ jevents = <<>> /\ jacks = <<>>

ClientInitResult_Unchecked(loaded) ==
    [rc     |-> RETURN_OK,
     config |-> [loaded.config EXCEPT
                    !.request_timeout_period = IDLE_TIMEOUT_PERIOD]]

\* What json_hal_client_init makes of the result of json_hal_load_config.
ClientInitResult(loaded) ==
    IF loaded.rc # RETURN_OK THEN loaded
    ELSE [loaded EXCEPT
            !.config.request_timeout_period = IDLE_TIMEOUT_PERIOD]

\* The fields an init function sets of its endpoint when the load
\* succeeded.
Ported(end, result) ==
    IF result.rc = RETURN_OK
    THEN [port EXCEPT ![end] = result.config.server_port_number]
    ELSE port

\* json_hal_client_init(hal_conf_path), until it has succeeded.
ClientInit(hal_conf_path, env) ==
    LET result ==
            ClientInitResult(LoadConfig(hal_conf_path, g_hal_client_config, env))
    IN  /\ Quiet
        /\ init_rc["client"] # RETURN_OK
        /\ g_hal_client_config' = result.config
        /\ port' = Ported("client", result)
        /\ init_rc' = [init_rc EXCEPT !["client"] = result.rc]
        /\ conf_file' = [conf_file EXCEPT !["client"] = hal_conf_path]
        /\ UNCHANGED <<g_server_config, validator, call, events,
                       g_event_subscriptions_list>>

\* What json_hal_server_init returns after json_hal_load_config, and what
\* it leaves in `validator`: in the build with the validator, the result of
\* json_validator_init when the load succeeded.
ServerInitResult(loaded) ==
    IF SchemaValidation /\ loaded.rc = RETURN_OK
    THEN ValidatorInit(loaded.config.hal_schema_path)
    ELSE [rc |-> loaded.rc, validator |-> validator]

\* json_hal_server_init(hal_conf_path), until it has succeeded.
ServerInit(hal_conf_path, env) ==
    LET loaded == LoadConfig(hal_conf_path, g_server_config, env)
        result == ServerInitResult(loaded)
    IN  /\ Quiet
        /\ init_rc["server"] # RETURN_OK
        /\ g_server_config' = loaded.config
        /\ port' = Ported("server", loaded)
        /\ validator' = result.validator
        /\ init_rc' = [init_rc EXCEPT !["server"] = result.rc]
        /\ conf_file' = [conf_file EXCEPT !["server"] = hal_conf_path]
        /\ UNCHANGED <<g_hal_client_config, call, events,
                       g_event_subscriptions_list>>

\* What is left of the call before is dropped.
CallDropped ==
    /\ jrequest' = NULL
    /\ jreply' = NULL
    /\ index' = 0
    /\ cb_rc' = RETURN_OK
    /\ added' = <<>>
    /\ got' = <<>>
    /\ answered' = <<>>
    /\ seen' = NotRead

\* json_hal_server_terminate() between two requests: the callbacks and the
\* subscriptions are freed and the validator is deleted, the configuration
\* stays.  The application initialises the server and registers its
\* callbacks again before it serves, and what is left of the call before is
\* dropped.
ServerTerminate ==
    /\ Quiet
    /\ init_rc["server"] # NULL
    /\ init_rc' = [init_rc EXCEPT !["server"] = NULL]
    /\ validator' = IF SchemaValidation THEN ValidatorTerminate(validator)
                                        ELSE validator
    /\ g_event_subscriptions_list' = <<>>
    /\ CallDropped
    /\ UNCHANGED <<g_hal_client_config, g_server_config, port, conf_file,
                   g_req_id, pc, events>>

-----------------------------------------------------------------------------
(* The manager builds a request.                                           *)

Ready == \A e \in Ends : init_rc[e] = RETURN_OK

\* The hal_param_t a manager passes for a request of the type: a request to
\* get or delete takes the name alone.  A type of 0 is what a manager
\* passes that filled in the name and the value only.
Parameters(type) ==
    IF type \in WithValue
    THEN [name : Names, type : ParamTypes \cup {NoType}, value : Values]
    ELSE {[Blank EXCEPT !.name = n] : n \in Names}

\* A request begins: get_req_id gives the next reqId, and what is left of
\* the call before, the locals of the dispatcher and of the callback
\* included, is dropped.  A call reads nothing an event leaves (the status
\* and the reqId of a subscription, g_seqnumber), and the calls of a
\* behaviour are made before its events.
Begin ==
    /\ Quiet
    /\ Ready
    /\ g_seqnumber = DEFAULT_SEQ_START_NUMBER
    /\ g_req_id < DEFAULT_SEQ_START_NUMBER + MaxCalls
    /\ g_req_id' = NextReqId(g_req_id)
    /\ pc' = "request"
    /\ jreply' = NULL
    /\ added' = <<>>
    /\ got' = <<>>
    /\ answered' = <<>>
    /\ seen' = NotRead
    /\ index' = 0
    /\ cb_rc' = RETURN_OK
    /\ UNCHANGED <<configs, events, g_event_subscriptions_list>>

\* json_hal_client_get_request_header(action_name).
RequestHeader(action_name) ==
    /\ Begin
    /\ jrequest' = GetRequestHeader(action_name, g_req_id')

\* json_hal_client_subscribe_event(eventcb, event_path_name,
\* event_notification_type), as far as the request.
SubscribeEvent(event_path_name, event_notification_type) ==
    /\ Begin
    /\ jrequest' = CreateEventSubscriptionMessage(
                        event_path_name, event_notification_type, g_req_id')

\* json_hal_add_param(jrequest, type, &param) by the manager.
RequestAdd ==
    /\ pc = "request"
    /\ jrequest.action \in Actions
    /\ Len(added) < MaxParams
    /\ LET type == RequestType[jrequest.action]
       IN  \E param \in Parameters(type) :
           \E done \in AddParam(jrequest, type, param) :
                /\ jrequest' = done.msg
                /\ added' = IF done.rc = RETURN_OK THEN Append(added, param)
                                                   ELSE added
    /\ UNCHANGED <<configs, events, g_event_subscriptions_list, g_req_id, pc,
                   jreply, index, cb_rc, got, answered, seen>>

-----------------------------------------------------------------------------
(* The server: the dispatcher around a registered callback, and the        *)
(* callbacks of the sample server.                                         *)

\* The request is sent, and the dispatcher counts its parameters and
\* prepares the reply for the callback.
Dispatch ==
    /\ pc = "request"
    /\ pc' = "callback"
    /\ jreply' = PrepareResponseHeader(jrequest.action, jrequest.reqId)
    /\ index' = 0
    /\ UNCHANGED <<configs, events, g_event_subscriptions_list, g_req_id,
                   jrequest, cb_rc, added, got, answered, seen>>

req_param_count == TotalParamCount(jrequest)

\* What the callback reads at its loop index.
Read ==
    IF jrequest.action = SUBSCRIBE_EVENT
    THEN GetSubscribeEventRequest(jrequest, index)
    ELSE GetParam(jrequest, index, RequestType[jrequest.action])

\* The callback returned RETURN_ERR: the dispatcher drops the reply it had
\* prepared and sends create_json_reply_msg(req_id, RESPONSE_FAILURE).
Failure ==
    /\ cb_rc' = RETURN_ERR
    /\ jreply' = CreateJsonReplyMsg(jrequest.reqId, "Failed")
    /\ pc' = "reply"
    /\ UNCHANGED <<configs, events, g_event_subscriptions_list, g_req_id,
                   jrequest, index, added, answered, seen>>

\* A callback finds a parameter it cannot read.
CallbackCannotRead ==
    /\ pc = "callback"
    /\ index < req_param_count
    /\ Read.rc # RETURN_OK
    /\ got' = got
    /\ Failure

\* setparam_rpc_cb and deleteobj_rpc_cb, one turn of the loop: the
\* parameter is read and the status of the reply set.
ResultCallback ==
    /\ pc = "callback"
    /\ jrequest.action \in {"setParameters", "deleteObject"}
    /\ index < req_param_count
    /\ Read.rc = RETURN_OK
    /\ got' = Append(got, Read.param)
    /\ jreply' = AddResultStatus(jreply, "RESULT_SUCCESS")
    /\ index' = index + 1
    /\ UNCHANGED <<configs, events, g_event_subscriptions_list, g_req_id, pc,
                   jrequest, cb_rc, added, answered, seen>>

\* The outcomes of json_hal_add_param for one parameter after another, as
\* far as the first that is not added.
RECURSIVE AddEach(_, _)
AddEach(reply, params) ==
    IF params = <<>>
    THEN {[rc |-> RETURN_OK, msg |-> reply]}
    ELSE UNION {IF one.rc = RETURN_OK THEN AddEach(one.msg, Tail(params))
                                      ELSE {one} :
                one \in AddParam(reply, "GET_RESPONSE_MESSAGE", Head(params))}

\* getparam_rpc_cb, one turn of the loop: the name is read and the
\* parameters the platform answers with are added to the reply, one after
\* another (the sample answers every name with the same four).
GetCallback ==
    /\ pc = "callback"
    /\ jrequest.action = GET_PARAM
    /\ index < req_param_count
    /\ Read.rc = RETURN_OK
    /\ \E params \in Answers : \E done \in AddEach(jreply, params) :
            /\ done.rc = RETURN_OK
            /\ jreply' = done.msg
            /\ answered' = answered \o params
    /\ got' = Append(got, Read.param)
    /\ index' = index + 1
    /\ UNCHANGED <<configs, events, g_event_subscriptions_list, g_req_id, pc,
                   jrequest, cb_rc, added, seen>>

\* getparam_rpc_cb returns RETURN_ERR when json_hal_add_param did: the
\* parameters added before stay in a reply that is not sent.
GetCallbackCannotAdd ==
    /\ pc = "callback"
    /\ jrequest.action = GET_PARAM
    /\ index < req_param_count
    /\ Read.rc = RETURN_OK
    /\ \E params \in Answers : \E done \in AddEach(jreply, params) :
            done.rc # RETURN_OK
    /\ got' = Append(got, Read.param)
    /\ Failure

\* The callback returned RETURN_OK.
Returned ==
    /\ cb_rc' = RETURN_OK
    /\ pc' = "returned"
    /\ UNCHANGED <<configs, events, g_event_subscriptions_list, g_req_id,
                   jrequest, index, added, got, answered, seen>>

\* A callback registered for getSchema answers with the path of the schema
\* (json_hal_add_schema_response) and returns.
SchemaCallback ==
    /\ pc = "callback"
    /\ jrequest.action = GET_SCHEMA
    /\ LET done == AddSchemaResponse(jreply, g_server_config.hal_schema_path)
       IN  IF done.rc = RETURN_OK
           THEN jreply' = done.msg /\ Returned
           ELSE got' = got /\ Failure

\* The loop of the callback is over: it returns RETURN_OK.
CallbackReturns ==
    /\ pc = "callback"
    /\ jrequest.action \in Actions \ {GET_SCHEMA}
    /\ index = req_param_count
    /\ jreply' = jreply
    /\ Returned

\* subs_event_cb, one turn of the loop: the subscription is read (and kept
\* in the list of the sample).
SubscribeCallback ==
    /\ pc = "callback"
    /\ jrequest.action = SUBSCRIBE_EVENT
    /\ index < req_param_count
    /\ Read.rc = RETURN_OK
    /\ index' = index + 1
    /\ UNCHANGED <<configs, events, g_event_subscriptions_list, g_req_id, pc,
                   jrequest, jreply, cb_rc, added, got, answered, seen>>

\* subs_event_cb sets the status after its loop and returns.
SubscribeReturns ==
    /\ pc = "callback"
    /\ jrequest.action = SUBSCRIBE_EVENT
    /\ index = req_param_count
    /\ jreply' = AddResultStatus(jreply, "RESULT_SUCCESS")
    /\ Returned

\* What json_validator_validate_request may say of the reply; RETURN_OK in
\* the build without it.
Verdicts ==
    IF SchemaValidation
    THEN UNION {ValidateRequest(validator, conforms) : conforms \in BOOLEAN}
    ELSE {RETURN_OK}

\* add_event_subscription_to_list(event_subs_data).
AddEventSubscriptionToList(event_subs_data) ==
    Append(g_event_subscriptions_list, event_subs_data)

\* The dispatcher sends the reply the callback filled; after the reply to
\* a subscribeEvent it reads the subscription from the request and appends
\* it to its list, which it leaves alone when it cannot read one.
SendReply ==
    /\ pc = "returned"
    /\ RETURN_OK \in Verdicts
    /\ g_event_subscriptions_list' =
            IF /\ jrequest.action = SUBSCRIBE_EVENT
               /\ EventSubscriptionData(jrequest) # NULL
            THEN AddEventSubscriptionToList(EventSubscriptionData(jrequest))
            ELSE g_event_subscriptions_list
    /\ pc' = "reply"
    /\ UNCHANGED <<configs, events, g_req_id, jrequest, jreply, index, cb_rc,
                   added, got, answered, seen>>

\* The validator does not take the reply: the dispatcher sends
\* create_json_reply_msg(req_id, RESPONSE_NOT_SUPPORTED) in its place and
\* goes on to the next request.
SendNotSupported ==
    /\ pc = "returned"
    /\ Verdicts \ {RETURN_OK} # {}
    /\ jreply' = CreateJsonReplyMsg(jrequest.reqId, "Not Supported")
    /\ pc' = "reply"
    /\ UNCHANGED <<configs, events, g_event_subscriptions_list, g_req_id,
                   jrequest, index, cb_rc, added, got, answered, seen>>

-----------------------------------------------------------------------------
(* The manager reads the reply.                                            *)

\* json_hal_get_result_status, then json_hal_get_param with
\* GET_RESPONSE_MESSAGE for every index below
\* json_hal_get_total_param_count.
ReadReply ==
    /\ pc = "reply"
    /\ jrequest.action \in Actions
    /\ seen' = [result |-> GetResultStatus(jreply),
                params |-> [i \in 1..TotalParamCount(jreply) |->
                              GetParam(jreply, i - 1, "GET_RESPONSE_MESSAGE")]]
    /\ pc' = "idle"
    /\ UNCHANGED <<configs, events, g_event_subscriptions_list, g_req_id,
                   jrequest, jreply, index, cb_rc, added, got, answered>>

\* json_hal_client_subscribe_event after the reply, which it does not
\* read: the event and its callback join the list of the client (with the
\* notification type, which nothing reads).
SubscribeTracked ==
    /\ pc = "reply"
    /\ jrequest.action = SUBSCRIBE_EVENT
    /\ g_event_tracking' =
            Append(g_event_tracking, [event_name |-> jrequest.params[1].name])
    /\ pc' = "idle"
    /\ UNCHANGED <<configs, g_event_subscriptions_list, g_req_id, jrequest,
                   jreply, index, cb_rc, added, got, answered, seen,
                   g_seqnumber, jevents, jacks>>

-----------------------------------------------------------------------------
(* Events: json_hal_server_publish_event, the event branch of the reader   *)
(* of the client and the acknowledgement branch of the dispatcher.         *)

\* json_hal_server_publish_event(event_name, event_value), to the end of
\* its walk of the list: a message with a number of its own for every
\* subscription of the event, which is noted in the subscription when the
\* publisher is to wait for the answer.  (The wait that follows changes
\* nothing; module HalServer has it, and the sends that fail.)  A publish
\* of an event nobody subscribed to does nothing.  What is left of the
\* call before is dropped.
PublishEvent(event_name, event_value) ==
    LET subs  == g_event_subscriptions_list
        found == {i \in DOMAIN subs : StartsWith(subs[i].event, event_name)}
        jevent_msg(k) ==
            CreatePublishEventMsg(event_name, event_value, g_seqnumber + k)
        nth(i) == Cardinality({j \in found : j <= i})
        Noted(i) ==
            IF i \in found /\ subs[i].event_type \in Blocking
            THEN [subs[i] EXCEPT
                    !.req_id = GetString(jevent_msg(nth(i)).reqId),
                    !.status = "WAIT_EVENT_REPLY_MSG"]
            ELSE subs[i]
    IN  /\ Quiet
        /\ found # {}
        /\ g_seqnumber + Cardinality(found)
                <= DEFAULT_SEQ_START_NUMBER + MaxEvents
        /\ g_event_subscriptions_list' = [i \in DOMAIN subs |-> Noted(i)]
        /\ jevents' = [k \in 1..Cardinality(found) |-> jevent_msg(k)]
        /\ g_seqnumber' = g_seqnumber + Cardinality(found)
        /\ CallDropped
        /\ UNCHANGED <<configs, g_req_id, pc, g_event_tracking, jacks>>

\* The reader of the client finds a publishEvent: every subscription of
\* its list whose name the event begins has its callback called and an
\* acknowledgement sent, with the reqId of the event as a string.
ClientEvent ==
    /\ jevents # <<>>
    /\ LET jobj       == Head(jevents)
           event_name == ArrayGetIdx(jobj, 0).name
           called     ==
                SelectSeq(g_event_tracking,
                          LAMBDA e : StartsWith(e.event_name, event_name))
           jreply_msg ==
                CreateJsonReplyEventMsg(event_name, GetString(jobj.reqId),
                                        "Success")
       IN  jacks' =
                IF /\ jobj.action = PUBLISH_EVENT
                   /\ "params" \in DOMAIN jobj
                   /\ "name" \in DOMAIN ArrayGetIdx(jobj, 0)
                   /\ "reqId" \in DOMAIN jobj
                THEN jacks \o [k \in DOMAIN called |-> jreply_msg]
                ELSE jacks
    /\ jevents' = Tail(jevents)
    /\ UNCHANGED <<configs, call, g_event_subscriptions_list, g_event_tracking,
                   g_seqnumber>>

\* The dispatcher finds a message whose action is result and no callback
\* for: the subscriptions of the event and the reqId it names take its
\* status.
ServerAck ==
    /\ jacks # <<>>
    /\ LET event_subs == EventReplyData(Head(jacks))
           Named(subs) ==
                /\ event_subs.rc = RETURN_OK
                /\ StartsWith(subs.event, event_subs.event)
                /\ StartsWith(subs.req_id, event_subs.req_id)
       IN  g_event_subscriptions_list' =
                [i \in DOMAIN g_event_subscriptions_list |->
                    LET subs == g_event_subscriptions_list[i]
                    IN  IF Named(subs)
                        THEN [subs EXCEPT !.status = event_subs.status]
                        ELSE subs]
    /\ jacks' = Tail(jacks)
    /\ UNCHANGED <<configs, call, g_event_tracking, g_seqnumber, jevents>>

-----------------------------------------------------------------------------

Next ==
    \/ \E path \in ConfigPaths, env \in Environments :
            ClientInit(path, env) \/ ServerInit(path, env)
    \/ ServerTerminate
    \/ \E action_name \in Actions : RequestHeader(action_name)
    \/ \E name \in Names, type \in Notifications : SubscribeEvent(name, type)
    \/ RequestAdd
    \/ Dispatch
    \/ CallbackCannotRead
    \/ ResultCallback
    \/ GetCallback
    \/ GetCallbackCannotAdd
    \/ SchemaCallback
    \/ CallbackReturns
    \/ SubscribeCallback
    \/ SubscribeReturns
    \/ SendReply
    \/ SendNotSupported
    \/ ReadReply
    \/ SubscribeTracked
    \/ \E name \in Names, value \in EventValues : PublishEvent(name, value)
    \/ ClientEvent
    \/ ServerAck

Spec == Init /\ [][Next]_vars

-----------------------------------------------------------------------------
(* Properties.                                                             *)

Texts      == [word : STRING, n : Int]
HalParams  == [name : Texts, type : ParamTypes \cup {NoType}, value : Texts]
HalConfigs ==
    [hal_module_name : Texts, hal_module_version : Texts,
     hal_schema_path : Texts, server_port_number : INT_MIN..INT_MAX,
     request_timeout_period : {0, IDLE_TIMEOUT_PERIOD}]

Header == {"module", "version", "reqId", "action"}

IsParam(jparam) ==
    /\ DOMAIN jparam \in {{"name"}, {"name", "type", "value"},
                          {"name", "notificationType"}}
    /\ jparam.name \in Texts
    /\ "type" \in DOMAIN jparam =>
            /\ jparam.type \in {TypeName[t] : t \in ParamTypes}
            /\ jparam.value \in [json : {"string", "int", "boolean"},
                                 text : Texts]

\* A message with the header, an action of the set and one of the members.
IsMessage(jmsg, actions, members) ==
    /\ Header \subseteq DOMAIN jmsg
    /\ DOMAIN jmsg \ Header \in members
    /\ jmsg.action \in actions
    /\ "params" \in DOMAIN jmsg =>
            \A i \in DOMAIN jmsg.params : IsParam(jmsg.params[i])

MessageTypeOK ==
    /\ g_hal_client_config \in HalConfigs
    /\ g_server_config \in HalConfigs
    /\ port \in [Ends -> INT_MIN..INT_MAX]
    /\ init_rc \in [Ends -> {NULL, RETURN_OK, RETURN_ERR, VALIDATOR_RETURN_ERR}]
    /\ conf_file \in [Ends -> ConfigPaths \cup {NULL}]
    /\ g_req_id \in DEFAULT_SEQ_START_NUMBER
                        ..(DEFAULT_SEQ_START_NUMBER + MaxCalls)
    /\ pc \in {"idle", "request", "callback", "returned", "reply"}
    /\ validator \in {NULL, "new", "rooted"}
    /\ jrequest # NULL =>
            IsMessage(jrequest, Actions \cup {SUBSCRIBE_EVENT},
                      {{}, {"params"}})
    /\ jreply # NULL =>
            IsMessage(jreply, {ResponseAction(a) : a \in Actions},
                      {{"params"}, {"Result"}, {"SchemaInfo"}})
    /\ index \in 0..MaxParams
    /\ cb_rc \in {RETURN_OK, RETURN_ERR}
    /\ g_event_subscriptions_list \in
            Seq([event : Names, event_type : NotificationTypes,
                 req_id : Texts,
                 status : {"NO_EVENT_MSG", "WAIT_EVENT_REPLY_MSG",
                           "EVENT_REPLY_SUCCESS", "EVENT_REPLY_ERROR"}])
    /\ g_event_tracking \in Seq([event_name : Names])
    /\ g_seqnumber \in DEFAULT_SEQ_START_NUMBER
                        ..(DEFAULT_SEQ_START_NUMBER + MaxEvents)
    /\ \A i \in DOMAIN jevents :
            /\ DOMAIN jevents[i] = Header \cup {"params"}
            /\ jevents[i].reqId.json = "int"
    /\ \A i \in DOMAIN jacks :
            /\ DOMAIN jacks[i] = Header \cup {"params", "Result"}
            /\ jacks[i].reqId \in Texts
    /\ {added, got, answered} \subseteq Seq(HalParams)
    /\ seen.params \in Seq([rc : {RETURN_OK, RETURN_ERR}, param : HalParams])
    /\ seen.result \in
            {NULL} \cup [rc : {RETURN_OK, RETURN_ERR},
                         status : BOOLEAN \cup {NULL}]

\* The values each type carries unchanged, and the values it is for.
Carried ==
    [t \in ParamTypes \ TextTypes |->
        CASE t = "PARAM_BOOLEAN"          -> {}
          [] t = "PARAM_INTEGER"          -> INT_MIN..INT_MAX
          [] t = "PARAM_UNSIGNED_INTEGER" -> 0..INT_MAX
          [] t = "PARAM_LONG"             -> LONG_MIN..LONG_MAX
          [] t = "PARAM_UNSIGNED_LONG"    ->
                0..(IF LONG_MAX < 2^IntBits THEN LONG_MAX ELSE 2^IntBits - 1)]

Exact(param) ==
    \/ param.type \in TextTypes
    \/ /\ param.type \in DOMAIN Carried
       /\ IsNumeral(param.value)
       /\ param.value.n \in Carried[param.type]

\* What one side read is, in the order it reads, what the other side
\* added: the names and the types, the values of the parameters Kept
\* holds of, and 1 or 0 for the word of a boolean.
ArrivesAs(sent, read, Kept(_)) ==
    /\ Len(read) <= Len(sent)
    /\ \A i \in DOMAIN read :
            /\ read[i].name = sent[i].name
            /\ read[i].type = sent[i].type
            /\ Kept(sent[i]) => read[i].value = sent[i].value
            /\ sent[i].type = "PARAM_BOOLEAN" =>
                    read[i].value = Numeral(IF Truth[sent[i].value] THEN 1 ELSE 0)

Arrives(Kept(_)) ==
    /\ ArrivesAs(added, got, Kept)
    /\ ArrivesAs(answered, [i \in DOMAIN seen.params |-> seen.params[i].param],
                 Kept)
    /\ \A i \in DOMAIN seen.params : seen.params[i].rc = RETURN_OK

\* The parameters the callback reads with json_hal_get_param are those the
\* manager added with json_hal_add_param, one for one and in that order,
\* and so are those the manager reads from a getParametersResponse and
\* those the callback added: name and type always, and the value when it is
\* a text, or a number in the range the conversions of the type (atoi,
\* atol, unsigned int, json_object_get_int, "%d", "%ld") keep.  A boolean
\* is added as one of the words true, TRUE, false, FALSE and read as 1 or
\* 0, which json_hal_add_param would not take.
ExactValuesArrive == Arrives(Exact)

\* The reply tells the manager what became of the request: a callback
\* that returned RETURN_ERR, and a reply the validator did not take, are
\* read by json_hal_get_result_status as a status that is not success,
\* whatever the callback had done by then; a setParameters or deleteObject
\* whose callback handled a parameter as success;
\* and a getParametersResponse holds, by json_hal_get_total_param_count,
\* the parameters the callback added and no others.
ReplyTellsOutcome ==
    LET Result(status) == [rc |-> RETURN_OK, status |-> status]
        refused == \/ cb_rc # RETURN_OK
                   \/ jreply.action = "result" /\ jreply.Result # EmptyObject
                                              /\ jreply.Result.Status = "Not Supported"
        answers == IF jrequest.action = GET_PARAM
                   THEN Len(seen.params) = Len(answered)
                   ELSE \/ seen.result = Result(TRUE)
                        \/ jrequest.action = GET_SCHEMA
                        \/ req_param_count = 0
    IN  seen.result # NULL =>
            IF refused THEN seen.result = Result(FALSE) ELSE answers

\* The subscription the dispatcher records for a request of
\* json_hal_client_subscribe_event that it answers with success is that of
\* the event the client named, with the notification type it named when
\* that is one of the three: onChangeSync and onChangeSyncTimeout begin
\* with onChange and are not taken for it
\* (json_hal_get_subscribe_event_request).
SubscribedAsAsked ==
    (/\ pc = "reply"
     /\ jrequest.action = SUBSCRIBE_EVENT
     /\ GetResultStatus(jreply).status = TRUE) =>
        LET asked == jrequest.params[1]
            event_subs ==
                g_event_subscriptions_list[Len(g_event_subscriptions_list)]
        IN  /\ g_event_subscriptions_list # <<>>
            /\ event_subs.event = asked.name
            /\ \A t \in NotificationTypes :
                    asked.notificationType = NotificationName[t]
                        => event_subs.event_type = t

\* A server whose json_hal_server_init returned RETURN_OK has, in the
\* build with the validator, a validator with a root schema: the
\* dispatcher never asks one without (json_validator_init, whose result
\* json_hal_server_init returns).
ValidatorHasSchema ==
    (SchemaValidation /\ init_rc["server"] = RETURN_OK) => validator = "rooted"

\* Once the client has read an event and the dispatcher its
\* acknowledgements, no subscription is left waiting: a subscription the
\* publisher noted a reqId in (json_hal_server_publish_event) has the status
\* EVENT_REPLY_SUCCESS, which wait_publish_event_reply polls for, and one it
\* does not wait for is as it was.  The reqId leaves as a number
\* (create_publish_event_msg), is kept and read back as its text, returns
\* as a string (create_json_reply_event_msg) and is compared with what was
\* kept; the name returns in "params" (get_event_reply_data_from_msg).
EventsAcknowledged ==
    Quiet =>
        \A i \in DOMAIN g_event_subscriptions_list :
            LET subs == g_event_subscriptions_list[i]
            IN  subs.status = IF subs.req_id = Empty THEN "NO_EVENT_MSG"
                                                     ELSE "EVENT_REPLY_SUCCESS"

\* The files say all four of the things a configuration holds.
Whole(path) ==
    /\ path \in DOMAIN Files
    /\ Has(Files[path].json, HAL_SCHEMA_PATH)
    /\ Has(Files[path].json, SERVER_PORT)
    /\ LET schema == Files[path].json[HAL_SCHEMA_PATH].text.word
       IN  /\ schema \in DOMAIN Files
           /\ Const(Files[schema].json, "schemaVersion") # NULL
           /\ Const(Files[schema].json, "moduleName") # NULL

FromFiles(config, path) ==
    LET json   == Files[path].json
        schema == Files[json[HAL_SCHEMA_PATH].text.word].json
    IN  /\ config.hal_schema_path = json[HAL_SCHEMA_PATH].text
        /\ config.server_port_number = json[SERVER_PORT].text.n
        /\ config.hal_module_version = Const(schema, "schemaVersion").text
        /\ config.hal_module_name = Const(schema, "moduleName").text

\* An end whose init function returned RETURN_OK holds the configuration
\* of the file it was given and of the schema that file names, whatever
\* the loads that failed before (json_hal_load_config copies each field as
\* it finds it) have left, and connects to or listens on that port.
ConfigLoaded ==
    \A e \in Ends :
        init_rc[e] = RETURN_OK =>
            LET config == IF e = "client" THEN g_hal_client_config
                                          ELSE g_server_config
            IN  /\ Whole(conf_file[e])
                /\ FromFiles(config, conf_file[e])
                /\ port[e] = config.server_port_number

=============================================================================
