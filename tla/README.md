# TLA+ models of rdkb-json-rpc

rdkb-json-rpc is a C library that carries JSON requests, replies and events
between a *manager* process (the client side) and a *HAL vendor* process (the
server side) over TCP on the loopback interface. This directory holds TLA+
models of the library, the TLC configurations that check them, and
`PROJECT.json`, which maps every definition to the lines of source it models
and lists the runs, the findings and the hazards.

## 1. The system

### 1.1 Parts

| Part | Source | State | Operations |
|---|---|---|---|
| Client transport endpoint | `tcp_client.c` | `g_rpc_client` (`RUNNING`, `state`, `sock`, `buffer`), `g_rpc_client_running_status` | `json_rpc_client_run`, `rpc_client_handler` (the thread), `json_rpc_client_send_data` |
| Client correlation engine | `json_hal_client.c` | `g_req_id`, `g_request_msg_tracking`, `gm_request_msg_tracking_lock`, per-slot `lock` and `msg_rcvd`, `g_connected` | `get_req_id`, `json_hal_client_get_request_header`, `json_hal_client_send_and_get_reply`, the reply branch of `response_parse_cb`, `request_tracking_cb`, `request_delete_cb`, `json_message_send`, `json_hal_client_terminate` |
| Client framing | `json_hal_client.c` | the tokener, `start_pos`, `parse_end_expected` | the loop of `response_parse_cb` |
| Server framing | `json_hal_server.c` | the tokener, `start_pos` | the loop of `message_process_cb` |
| Client event table | `json_hal_client.c` | `g_event_tracking`, `gm_event_tracking_lock` | `json_hal_client_subscribe_event`, the event branch of `response_parse_cb` |
| Server transport endpoint | `tcp_server.c` | `running`, `g_rpc_server_running_status`, `master_set`, `max_sd`, `g_client_list` | `json_rpc_server_run`, `rpc_server_handler` (the thread), `json_rpc_server_send_data` |
| Server dispatcher | `json_hal_server.c` | `g_hal_functions_list` | `json_hal_server_register_action_callback`, `json_hal_server_run`, `message_process_cb`, `json_hal_server_terminate` |
| Server subscription registry | `json_hal_server.c` | `g_event_subscriptions_list`, `gm_subscription_mutex`, `g_seqnumber` | the `subscribeEvent` branch and the acknowledgement branch of `message_process_cb`, `client_disconnected_cb`, `json_hal_server_publish_event`, `wait_publish_event_reply` |
| Configuration loader | `json_hal_common.c` | `g_hal_client_config`, `g_server_config` (`hal_config_t`) | `json_hal_load_config`, called by `json_hal_client_init` and `json_hal_server_init` |
| Parameter codec | `json_hal_common.c`, `json_hal_client.c`, `json_hal_server.c` | the message under construction | `json_hal_add_param`, `json_hal_get_param`, `json_hal_get_result_status`, `json_hal_get_total_param_count`, `json_hal_add_result_status`, `json_hal_add_schema_response`, `json_hal_get_subscribe_event_request`, `prepare_json_response_header`, `create_json_reply_msg` |
| Schema validator wrapper | `json-schema-validator-wrapper/` | the global `validator` | `json_validator_init`, `json_validator_populate_schema`, `json_validator_validate_request`, `json_validator_terminate` |
| Common definitions | `json_rpc_common.h`, `json_hal_common.h` | none | field names, type names, action names, return codes, sizes |
| Sample applications | `samples/` | the sample's own list of subscriptions | the callbacks `setparam_rpc_cb`, `getparam_rpc_cb`, `deleteobj_rpc_cb`, `subs_event_cb`; the `main` functions |

### 1.2 How the parts interact

Each endpoint owns one detached thread.

**Client.** The thread runs `rpc_client_handler`: a loop over `SOCKET_INIT ->
SOCKET_CONNECT -> SOCKET_RECEIVE` that calls back into `json_hal_client.c`:
`func_connected` and `func_disconnected` maintain `g_connected`, `func_parse`
(`response_parse_cb`) takes every buffer `recv()` returns, and `func_idle`
(`request_tracking_cb`, then `usleep`) runs at the end of every pass.
Application threads call `json_hal_client_send_and_get_reply`: the call
allocates a slot, takes the slot's own mutex, links the slot into
`g_request_msg_tracking`, sends the request and blocks in
`pthread_cond_wait`. It is woken by the transport thread, from
`response_parse_cb` when a reply with the slot's sequence arrives or from
`request_tracking_cb` when the slot's ticker has run down. The list's mutex
is taken by `response_parse_cb`, `request_tracking_cb`, `request_delete_cb`
and `json_hal_client_terminate`, and not by the `LL_APPEND` of the caller.

**Server.** The thread runs `rpc_server_handler`: `select()` on the listener
and every accepted connection with a time-out of 50 ms, then a scan of the
readable descriptors in ascending order: `accept` on the listener; `recv` on
a connection, followed by `func_process` (`message_process_cb`) on data and
by `func_disconnect` (`client_disconnected_cb`), `close` and the bookkeeping
on end-of-file. `message_process_cb` handles the frames of the buffer in a
loop: an acknowledgement (`action: result`) updates the status of the
subscription record it names; any other action is looked up in
`g_hal_functions_list`, its callback is called and the reply is sent from
inside the handler thread; for `subscribeEvent` the subscription is recorded
*after* the reply has been sent.

Application threads of the server call `json_hal_server_publish_event`: under
`gm_subscription_mutex` it walks the registry, and for every record whose
event name the published name is a prefix of it stores a fresh reqId in the
record and sends the event on the record's descriptor, on a blocking socket.
If some record is synchronous and no send failed, it then polls the registry
every 100 ms (`wait_publish_event_reply`) until no synchronous record of
that event is still `EVENT_MSG_SENT`, until one reports an error, or, for
`ON_CHANGE_SYNC_TIMEOUT`, until 10 s have passed.

**Messages.** Both ends begin with an init function that loads the
configuration: `json_hal_load_config` reads the schema path and the port from
the configuration file and the version and the name of the module from the
schema file, into a `hal_config_t` that the headers of all later messages are
built from. A manager builds a request with
`json_hal_client_get_request_header` and `json_hal_add_param`, one call per
parameter, each a `hal_param_t` with the value as text. The dispatcher counts
the parameters, prepares the header of the reply and calls the callback
registered for the action; the callback reads the request with
`json_hal_get_param` or `json_hal_get_subscribe_event_request` and fills the
reply. In the build with `JSON_SCHEMA_VALIDATION_ENABLED` the dispatcher then
validates the reply against the schema and sends `Not Supported` in its place
when it does not conform. The manager reads the reply with
`json_hal_get_result_status`, `json_hal_get_total_param_count` and
`json_hal_get_param`.

### 1.3 What is hard

Client: callers, matcher and ticker interleaved on the pending list with the
append unlocked; the wake-up through a condition variable with no predicate;
a reply racing the expiry of its slot; several frames in one `recv()`, and a
frame cut in two by it, with a tokener that lives for one callback and a
limit of the parse that is computed from an offset of the previous one;
terminate racing the thread's start and calls in flight; the reqId printed in
decimal and read in hexadecimal; a counter incremented without a lock;
`send()` accepting a part of a message.

Server: three records of one connection that each close must undo; descriptor
numbers reused by the kernel while the registry is keyed by them; the
registry written by the handler thread and read by publishers that hold the
mutex across blocking sends; a wait that polls shared records which
disconnects, new subscriptions, later publishes and terminate change under
it; an acknowledgement matched by prefix comparison against a reqId that the
next publish overwrites; a stop flag read once per pass.

Messages: a value crosses five conversions between the text a manager wrote
and the text the callback reads (`atoi` or `atol`, a C local, a json-c
constructor, a json-c getter, `snprintf`), each with its own width and
signedness; a load of the configuration that fails half way leaves half of
the new configuration; the reply is validated after the callback has acted;
the status a manager reads depends on where in its loop the callback set it.

`PROJECT.json` lists each hazard at its line, with the properties that cover
it or the reason none does.

## 2. The modules

| Module | Models | Built on |
|---|---|---|
| `ReqId` | the reqId as pure operators: `get_req_id`, `"%8.8d"`, `strtol(.., 16)`, the cast to `int` | - |
| `ReqIdAlloc` | `get_req_id` as a load and a store by several threads; the keys of the reqIds in flight | `ReqId` |
| `SendLoop` | the byte loop of `json_rpc_client_send_data` / `json_rpc_server_send_data` | - |
| `Framer` | the tokener loops of `response_parse_cb` and `message_process_cb` over the bytes of one receive buffer; `json_tokener_parse_ex` as json-c documents it | - |
| `Stream` | one direction of a connection, byte by byte: the send loop, the socket, `recv()`, the parse callback | `Framer`, `SendLoop` (instance) |
| `TcpClient` | `tcp_client.c`: the handler thread and the connection | - |
| `Correlation` | the correlation engine of `json_hal_client.c`, composed with `TcpClient` and a peer | `TcpClient`, `ReqId` |
| `TcpServer` | `tcp_server.c`: the handler thread, the kernel's side of the descriptors, the clients' ends of the connections; its actions are steps of `HalServer` | - |
| `HalServer` | `json_hal_server.c` composed with `TcpServer` and with clients built on `json_hal_client.c` | `TcpServer`, `ReqId` |
| `HalParam` | the parameter codec of `json_hal_common.c` as pure operators: `json_hal_add_param`, `json_hal_get_param`, with the conversions of the C library and of json-c | `ReqId` |
| `HalConfig` | `json_hal_load_config` as an operator over a file system | `HalParam` |
| `HalValidator` | the schema validator wrapper: the global validator and its four functions | `HalConfig` |
| `HalMessage` | a call from the manager that builds the request to the manager that reads the reply: the init functions, the helpers of both libraries, the dispatcher around the callback, the callbacks of the sample server, the validation of the reply; and an event from the publish to the acknowledgement the dispatcher reads | `HalValidator` |
| `MCReqIdAlloc`, `MCStream`, `MCCorrelation`, `MCHalServer`, `MCHalMessage` | the constants of the runs | |

Composition is by `EXTENDS`: the upper module has the variables of the lower
one and its own, and each of its actions is an action of the lower module
conjoined with what the library does in that step. The frames on the wire
are the constant `Msg` of the transport module, which the configurations of
the upper module replace by its set `Frame`.

The system is modelled at three grains. `TcpClient`, `Correlation`,
`TcpServer` and `HalServer` take a receive buffer as a sequence of whole
frames, each a record of the fields the libraries read: that is the grain of
the threads, the locks and the lists. `SendLoop`, `Framer` and `Stream` take
it as bytes: that is the grain at which a buffer is cut into values. The two
meet in the dispatcher: what `Framer` appends to `dispatched` is the frame
the upper modules handle next. `HalParam`, `HalConfig`, `HalValidator` and
`HalMessage` take one call at a time and a message as the JSON object it is:
that is the grain of the fields, the types and the values, which the other
two leave out.

### 2.1 ReqId and ReqIdAlloc

`NextReqId` is `g_req_id++` with the guard `g_req_id > INT_MAX` kept as
written: an `int` is never greater than `INT_MAX`, so the reset to
`DEFAULT_SEQ_START_NUMBER` never happens and the increment of `INT_MAX`
wraps to `INT_MIN`. `FormatReqId` is `sprintf("%8.8d")`: a sign and at least
`MinDigits` **decimal** digits. `ParseReqId` is `(int)strtol(text, NULL,
16)`: the same digits read in base 16, saturated to `long`, truncated to
`int`. `SequenceOf(n)` is their composition, the key under which request `n`
is tracked and looked up. `IntBits` and `LongBits` are constants because
TLC's integers are 32 bits wide; the arithmetic is the same at every width.

`ReqIdAlloc` runs the counter over the whole range of a scaled-down `int`.
A thread mints a reqId (`Load`, `Store`, `Return`) and holds it until its
call is over (`Release`); a call lasts at most the time-out, so a reqId is
released before the counter has moved `Window` steps past it. `Serialized`
says whether the application lets one thread at a time build a header; its
run has it TRUE, and what two threads in `get_req_id` at once do to the
pending list is checked in `Correlation` (2.9).

### 2.2 SendLoop

Variables are the locals of the function (`total_bytes_sent`,
`total_bytes_left`) and what each `send()` was offered. `SendSome` is one
`send()` that accepts any count from 1 to what it was offered, `SendFail`
one that fails, `LoopEnd` the loop condition `total_bytes_sent <
total_bytes_left` found false, `Return` the return to the caller, after
which the locals are gone (reset to their initial values).

### 2.3 TcpClient

Variables are the fields of `rpc_client_data_t` the handler uses,
`g_rpc_client_running_status`, the life cycle of the thread, the position
inside a pass (`phase`), the application's use of the facade and the
connection with a FIFO queue of frames per direction. There is one action per
path through the `switch`: `SocketInit`, `SocketInitFail`, `ConnectOk`,
`ConnectRetry`, `ConnectTeardown`, `ReceiveNone`, `ReceiveData` (any non-empty
prefix of what has arrived, so frames arrive alone or glued), `ReceiveEof`;
then `ParseReturn`, `IdleReturn` and `LoopExit`;
`json_rpc_client_is_running` is the status the facade polls. The endpoint does nothing
without the library that starts it and provides its callbacks, so it has no
specification of its own: its properties (`NoDescriptorLeak`,
`StopEndsLoop`) are checked in `Correlation`, with the callbacks of
`json_hal_client.c` in place.

### 2.4 Correlation

* A slot is named by its caller (`rpc[t]`): a caller has one call at a time
  and the allocator may hand the same block to its next call. Freed memory is
  the record `NoSlot`.
* The list is the head `g_request_msg_tracking` and the `next` fields;
  `Chain` walks it, `Unlinked` is `LL_DELETE`, `FirstMatch` the walk that
  stops at the first slot with the sequence.
* A call is the steps `GetReqIdLoad`, `GetReqIdStore`, `GetRequestHeader`
  (`get_req_id`, which takes no lock: the load and the store of
  `g_req_id++`, and the return of the register or of the global read again),
  `CallBegin` (calloc, lock
  `rpc->lock`, fill the slot, the walk of `LL_APPEND`), `AppendLink` (the
  store of `LL_APPEND`), `CallSend`, then `CallAbandon` after a failed send or
  `CallFinish` after the wake-up. `LL_APPEND` is two steps because it runs
  without the list lock; the sections that take the lock are single steps,
  enabled only when the transport thread does not hold it.
* `response_parse_cb` handles the frames of `buffer` one at a time:
  `ParseEvent`, `ParseAbort` (no reqId: return, the rest of the buffer is
  dropped), `ParseReply` (no match: dropped; match: unlink, copy the **whole
  buffer**), `MatchSignal`.
* `request_tracking_cb` is `ReapBegin`, `ReapStep` per slot, `ReapSignal`,
  `ReapDone`, with the list lock held from the first to the last.
* `TerminateBegin` is `RUNNING = FALSE`; `TerminateFree` unlinks and frees
  every slot after a wait that is bounded by time, not by the thread having
  stopped.
* `IoConnected` and `IoDisconnected` are the two callbacks that write
  `g_connected`, each one step with the path of the handler that calls it;
  `json_hal_is_client_connected` is what the application reads.
  `ConnectedIsCurrent` says the answer is the state of the socket until the
  thread has left its loop. It is broken by an end-of-file that does not
  clear the flag (mutant `IoDisconnected_Stale`).
* The peer answers the oldest unread request, drops it, pushes an event or a
  frame without reqId, or closes the connection.

### 2.5 TcpServer

Variables are `running`, `g_rpc_server_running_status`, `master_set`,
`max_sd`, `g_client_list`, the snapshot `working_set` of one pass, `cur_sd`
and `buffer` for the callback in progress, and the kernel's side: `listening`,
`backlog`, `peer` per descriptor (`free`, `open`, `shut`) and the two queues
`toServer`, `toClient`.

`HandlerStart` is the start-up sequence (with `running = TRUE` stored by the
thread itself), `HandlerStartFail` its `goto EXIT`. A pass is `Select`, then
for every descriptor of the snapshot in ascending order one of `Accept`,
`AcceptNone`, `RecvData` followed by `ProcessReturn`, `RecvError`, `RecvEof`,
then `PassEnd`, which reads `running`. `RecvEof` is the whole branch:
callback, `close`, `FD_CLR`, the lowering of `max_sd` (`LoweredMax`) and the
removal from `g_client_list` (`Forgotten`). `accept` returns any descriptor
that is not open, so numbers are reused. `LoopExit` and `SelectFail` close
what `g_client_list` names and the listener and clear the status flag.
`SendData` is the send on a blocking socket: enabled when the queue has room,
or failing when the peer has closed. `json_rpc_server_is_running` is the
status `json_hal_server_terminate` polls.

The module has no specification of its own. What `func_process` and
`func_disconnect` do belongs to the library, so the actions are composed in
`HalServer`, and the properties stated here (`TablesAgree`,
`ServerStopEndsLoop`) are checked of that composition, with the callbacks the
library really installs.

### 2.6 HalServer

* `g_hal_functions_list` is a set of `[function_name, cb]` records with unique
  names; `g_event_subscriptions_list` a sequence of records `[fd, event,
  event_type, req_id, status]` in list order.
* The dispatcher works on the first frame of `buffer`: `ParseError` (return,
  the rest of the buffer dropped), `SkipFrame` (no reqId or no action),
  `AckResult`, `CallUnknown`, `CallNullCb`, `CallFailed`, `CallReplied`,
  and for `subscribeEvent` a second step, `SubscribeAdd` or `SubscribeBreak`,
  after the reply has been sent. Every step that replies is a `SendData` of
  `TcpServer`, so it waits for room in the client's queue.
* Names and reqIds are sequences and `strncmp(a, b, strlen(b)) == 0` is
  `IsPrefix(b, a)`: an empty published name matches every record, an empty
  reqId in an acknowledgement every stored reqId. The reqId of an event is
  the decimal text of `g_seqnumber` (operators of `ReqId`).
* `Disconnected` is `RecvEof` conjoined with the sweep of the registry
  (`Swept`), enabled when no publisher holds the mutex. `Exits` (loop exit
  and select failure) closes every descriptor and leaves the registry as it
  is, as the code does.
* A publish is `PublishLock`, one `PublishSend` per matching record (the
  cursor `subs` is the walker's position; a send either succeeds, when the
  client's queue has room, or fails), `PublishUnlock`, then either
  `PublishReturn` or the wait: `WaitAgain` (a pass that finds a record to
  wait for), `WaitOver` (a pass that ends the wait, with `RETURN_OK` or
  `RETURN_ERR`) and `Tick` (10 s have passed).
* `TerminateBegin` clears `running`; `TerminateFree` empties both lists,
  without the mutex and whether or not the thread has stopped.
* A client is the part of `json_hal_client.c` the server can tell apart:
  `ClientSubscribe` (send the request and wait), `ClientGiveUp` (the wait
  times out), `ClientReply`, `ClientAppend` (the event is added to
  `g_event_tracking` after the reply, whatever its status, unless `malloc`
  fails), `ClientEvent` (an event is read; if it is tracked the callback
  runs and the acknowledgement is sent when the queue has room),
  `ClientRequest` (any other frame, from the constant `Foreign`) and
  `ClientGone` (`json_hal_client_terminate` or the end of the process: the
  socket is closed, the pending request and `g_event_tracking` are freed).
* `conn` records, per connection, what the properties and the bounds need:
  the events asked for, the reqIds acknowledged, the number of other
  requests and whether one of them was malformed.

### 2.7 Framer

* A byte is `"{"`, `"}"` or any other byte (`"a"`); a JSON value is a
  balanced run that starts with `"{"`, so values nest; `{}` is the object
  that has neither `reqId` nor `action`. Strings, numbers and white space
  are not told apart: no branch of the two loops depends on them.
* `ParseEx(t, str, n, b)` is `json_tokener_parse_ex` with
  `JSON_TOKENER_STRICT`, for a tokener that has read the bytes `t` of an
  unfinished value, on the build `b`. It answers with the object or `NULL`,
  the error and the parse end: `success`; `continue` when the `n` bytes end
  inside a value; `unexpected` at offset 0 when the input begins with a
  byte that begins no value; `unexpected` at the byte after a finished
  value, unless the build has `JSON_TOKENER_ALLOW_TRAILING_CHARS`
  (`b.allow_trailing`); with `n < 0` the read up to the terminator, where an
  unfinished value is `eof`; with `n < -1` the error `size` of json-c 0.14
  and later (`b.size_check`). It is stated from json-c's documentation,
  since json-c is not part of this repository.
* Variables are the arguments and locals of one callback: `buffer`, `len`,
  `start_pos`, `parse_end_expected` (client), `tok`, and `dispatched`, the
  values handed on so far. `side` and `build` are fixed by `FramerInit`.
* `Call(b)` is the entry with a new tokener. One pass of the client's loop
  is one of `ClientGlue` (`parse_end_expected = parse_end`, new tokener,
  `continue`), `ClientFail` (`return RETURN_ERR`) and
  `ClientAdvance` (dispatch if there is a value, a value without `action`
  is skipped, `start_pos += parse_end`,
  `parse_end_expected = len`, return when `start_pos >= len`). One pass of
  the server's is `ServerFail` or `ServerAdvance` (a value without `reqId`
  is skipped). `Return` frees the tokener: what it had read of an unfinished
  value is lost.
* `Envelopes(b)` is the reference: the values a buffer begins with, one
  after the other. `WellFramed(b)` says that the buffer is whole messages
  and nothing else, `GluePoints(b)` where in it one message ends and the
  next begins.

### 2.8 Stream

`Stream` is one direction of a connection. The sender is an instance of
`SendLoop` (`Tx`) with the message it was called with: `Send(m)`,
`Accept(n)` (a `send()` that takes `n` bytes, which are appended to `pipe`,
the bytes in the socket), `Refuse` (a `send()` that fails), `SendDone`.
The receiver is `Recv(n)`, a `recv()` that returns the first `n` bytes of
`pipe`, at most `MAX_BUFFER_SIZE`, and calls the callback of `Framer`, then
the passes of that callback and its return. Since `SendLoop` stops early
after a short count (4.1), the stream is not a sequence of whole messages:
truncated messages are part of what the framer is given.

Two reductions keep the state space small, neither of which removes a
behaviour of the framer. The locals of a function are reset when it
returns. The sender takes its steps while the receiver is between two
callbacks: a callback reads and writes its own locals only, so a step of the
sender during a callback commutes with the passes of the callback, and every
buffer a callback can be given is still given.

### 2.9 Calls that share a reqId

`get_req_id` is `g_req_id++`, a comparison and `return g_req_id`, with no
lock around them, and `json_hal_client_get_request_header` calls it from
whatever thread builds a request. `Correlation` has it as the three steps a
thread takes (`GetReqIdLoad`, `GetReqIdStore`, `GetRequestHeader`), with the
value to return chosen between the register and the global, since the
compiler may use either. The constant `Serialized` says whether the
application keeps its threads out of one another's way there, which is the
only way it has to get reqIds of its own for calls that overlap.

* With `Serialized = TRUE` two calls in progress never have the same reqId,
  `FirstMatch` finds at most one slot, and `request_delete_cb` unlinks the
  caller's own slot or nothing. The runs that pass, and the two violation
  runs about the glued frames and the unlocked `LL_APPEND`, are of these
  behaviours: what they show does not depend on a shared reqId.
* With `Serialized = FALSE` (`CorrelationShared.cfg`) both callers can leave
  `get_req_id` with one reqId. Their slots have one `sequence`, and
  `request_delete_cb`, which looks for the sequence and not for the slot,
  unlinks the first of them for whichever caller asks (4.1).

What a request without `reqId` does in `json_hal_client_send_and_get_reply`
(calloc, free, `return RETURN_ERR`) changes no state and is no action: the
requests of the model are built by `json_hal_client_get_request_header`.
`CallAbandon` and `CallFinish` are one step each from `pthread_mutex_destroy`
to `free`: that the mutex and the condition variable are destroyed while the
slot is still in the list, where the transport thread may lock one of them,
is a use of freed synchronisation objects that the model, in which a lock is
held or free, does not tell from a free lock.

### 2.10 HalParam, HalConfig, HalValidator and HalMessage

**Data.** A text is a record `[word, n]`: a decimal numeral with its value
(`Numeral(n)`) or a word. A JSON scalar is its kind (`string`, `int`,
`boolean`) and the text of its serialisation. A JSON object is a function on
the keys it has, `json_object_object_get_ex` is a test of its `DOMAIN`, and
`json_object_object_add` is `ObjectAdd`, which replaces a key that is there.
`IntBits` and `LongBits` are the widths of `int` and `long`.

**HalParam.** `AddParam(jreply, action, param)` is the set of outcomes of
`json_hal_add_param`: `RETURN_ERR` with the message unchanged when the
message has no `params` or a boolean is none of the four words; otherwise
the message with one object more at the end of `params`, the name alone for
a request to get or delete and for a type outside `eParamType`. The value
(`Scalars`) is what the `switch` computes: `atoi` and `atol` are `Atoi` and
`Atol`, the number the text starts with, and for a number the type cannot
hold, which is undefined in C, the saturated value or the low bits; the
unsigned types pass through `unsigned int uint_value` and `unsigned
ulong_value`, both as wide as `int`, and `json_object_new_int` takes an
`int`. `GetParam(jmsg, index, action)` is `json_hal_get_param`: the return
code and `*param`, which is cleared first and written up to the step that
fails. `TypeOf` is the chain of `strncmp` over the type names, `ValueText`
what `snprintf` leaves (`"%d"` for a boolean, an `int` and an `unsigned int`,
`"%ld"` for the two longs) of what the getters of json-c return
(`GetBoolean`, `GetInt`, `GetInt64`, with their saturation).

**HalConfig.** `Files` is the file system: a function from the paths that
exist to the size of the file, the object its text is (`NULL` when it is no
JSON) and whether the validator takes it as a schema. `LoadConfig(config_file,
config, env)` follows `json_hal_load_config` return by return: the file that
is missing, the text that does not parse, the missing schema path, the
missing port, `stat`, `calloc`, the schema that does not parse, and the five
lookups in it. Each field is copied when it is found, so the result is the
old configuration with the fields the load got to. `env` is what the
environment decides: whether `calloc` succeeds, and whether the bytes behind
the 256-byte buffer end the text of a file that filled it (`fread` leaves no
terminator).

**HalValidator.** The global `validator` is `NULL`, `"new"` (constructed,
no root schema) or `"rooted"`. `ValidatorInit` constructs and calls
`PopulateSchema`, which fails and leaves the validator without a root when
the file is missing, is no JSON or is refused by `set_root_schema`.
`ValidateRequest` has an outcome for a rooted validator only: on any other
`validate()` throws or dereferences `NULL`.

**HalMessage.** The state is the two configurations, the port each endpoint
was given, what the last init function returned and with which path, the
validator, `g_req_id`, the request and the reply, and the locals of the
dispatcher and of the callback (`index`, `cb_rc`); `added`, `got`,
`answered` and `seen` record what each side passed to or got from the codec.
For the events it has `g_event_subscriptions_list` (a sequence of records
`[event, event_type, req_id, status]`), `g_event_tracking` of the client
(the event names; the notification type it also keeps is never read),
`g_seqnumber`, and the events and the acknowledgements that are on their
way (`jevents`, `jacks`).

| Action | Code |
|---|---|
| `ClientInit`, `ServerInit` | `json_hal_client_init`, `json_hal_server_init`: the load, the port, the time-out, and in the validation build `json_validator_init`, whose result the server's init returns. Called with any path and repeated until it returns `RETURN_OK`. |
| `ServerTerminate` | `json_hal_server_terminate` between two requests: the lists are freed and the validator deleted, the configuration stays; the application initialises and registers again before the server serves. |
| `RequestHeader`, `SubscribeEvent` | `get_req_id` with `json_hal_client_get_request_header`, and `create_event_subscription_message` in `json_hal_client_subscribe_event`. |
| `RequestAdd` | the manager's `json_hal_add_param`, with any name, type (also the 0 of a structure whose type was not set) and value. |
| `Dispatch` | the dispatcher up to the call of the callback: the count of the parameters and `prepare_json_response_header`. |
| `ResultCallback`, `GetCallback`, `SubscribeCallback` | one turn of the loop of `setparam_rpc_cb` / `deleteobj_rpc_cb`, `getparam_rpc_cb`, `subs_event_cb`. |
| `CallbackCannotRead`, `GetCallbackCannotAdd` | the `return RETURN_ERR` of a callback, followed by the dispatcher's `create_json_reply_msg(req_id, RESPONSE_FAILURE)`. |
| `CallbackReturns`, `SubscribeReturns`, `SchemaCallback` | the end of a callback that returns `RETURN_OK`; `subs_event_cb` sets the status after its loop. |
| `SendReply`, `SendNotSupported` | the dispatcher after the callback: the verdict of the validator, the reply or `Not Supported` in its place, and after a reply to `subscribeEvent` the subscription read from the request. |
| `ReadReply` | the manager: `json_hal_get_result_status`, then `json_hal_get_param` for every index below `json_hal_get_total_param_count`. |
| `SubscribeTracked` | `json_hal_client_subscribe_event` after the reply, which it drops unread: the event joins `g_event_tracking`. |
| `PublishEvent` | `json_hal_server_publish_event` to the end of its walk: for every record of the event `create_publish_event_msg` with the next sequence number, which for a record of a synchronous type is kept in the record as text, with the status `WAIT_EVENT_REPLY_MSG`. |
| `ClientEvent` | the event branch of `response_parse_cb` for one message: the name from `params[0]`, and for every tracked subscription of it the callback and `create_json_reply_event_msg` with the reqId of the event as a string. |
| `ServerAck` | the acknowledgement branch of `message_process_cb`: `get_event_reply_data_from_msg`, and the status written to every record whose event and reqId begin with what the message names. |

The sample's `getparam_rpc_cb` answers every name with the same four
parameters. `GetCallback` keeps its control (several `json_hal_add_param` in
a turn, return at the first that fails) and takes the parameters from the
constant `Answers`, which holds the sample's four and others. The sample
registers no callback for `getSchema`; `SchemaCallback` is the callback the
interface describes, which calls `json_hal_add_schema_response`. The
transport is left out: the request the manager built is the request the
dispatcher parsed (`Framer`, `Correlation` and `HalServer` are about that).

The module follows one call or one event at a time (`Quiet`): a call begins,
and an event is published, when no call is under way and no event or
acknowledgement is on its way. The wait of the publisher
(`wait_publish_event_reply`) reads the records and changes nothing; it is in
`HalServer`, with the threads, the sends that fail and the names that begin
other names. Here the names and the numbers of a behaviour are such that
none begins another, and `StartsWith` is equality, or an empty prefix.

## 3. The runs

| Run | Module, config | Result | Distinct states | What it shows |
|---|---|---|---|---|
| `reqid_lp64` | `MCReqIdAlloc`, `ReqIdLP64.cfg` | pass | 126,976 | `KeysDistinct`: with `long` wider than `int` and headers built one at a time, calls that overlap never share a key, over every value of the counter, the overflow included. |
| `stream` | `MCStream`, `Stream.cfg` | pass | 441,798 | `SendsWithinMessage`, `DeliveredAreEnvelopes`, `WholeBufferDelivered`, `ParseReturns`: see 3.2. |
| `framer_glued` | `MCStream`, `StreamGlued.cfg` | violation | | `GluedFramesDelivered`: of three messages glued in one buffer the client delivers one and returns `RETURN_ERR`. |
| `send_loop_whole` | `SendLoop`, `SendLoopWhole.cfg` | violation | | `WholeOrError`: after a short count the loop stops early and returns `RETURN_OK`. |
| `correlation_two_callers` | `MCCorrelation`, `Correlation2.cfg` | pass | 2,668,995 | `NoDanglingSlot`, `OkMeansAnswered`, `OutcomeDecidedOnce` with two concurrent callers whose headers are built one at a time. |
| `correlation_one_caller` | `MCCorrelation`, `Correlation1.cfg` | pass | 118,921 | `WaiterIsTracked`, `CallReturns` with one caller and two calls in a row, under fairness. Of the transport: `NoDescriptorLeak` (every path back to `SOCKET_INIT` or out of the loop closes the descriptor), `StopEndsLoop` (`RUNNING` cleared while the thread loops ends it, socket closed and status cleared) and `ConnectedIsCurrent` (2.4). |
| `correlation_glued_frames` | `MCCorrelation`, `CorrelationGlue.cfg` | violation | | `ReplyIsOwn`: an event glued in front of the reply is returned as the reply. |
| `correlation_unlocked_append` | `MCCorrelation`, `CorrelationAppend.cfg` | violation | | `WaiterIsTracked` with two callers: the unlocked `LL_APPEND` loses a slot. |
| `correlation_shared_reqid` | `MCCorrelation`, `CorrelationShared.cfg` | violation | | `NoDanglingSlot` with two callers in `get_req_id` at once: they share a reqId, and the call that ends first unlinks the other's slot and frees its own, still linked. |
| `hal_server` | `MCHalServer`, `HalServer.cfg` | pass | 518,873 | One connection at a time, requests of every kind, every notification type, fairness: `PublishReturns`, `ServerStopEndsLoop`, `RequestNotDropped`; see 3.1. |
| `hal_server_two` | `MCHalServer`, `HalServer2.cfg` | pass | 2,968,834 | Two connections that subscribe, are published to, acknowledge, close and are replaced: `TablesAgree`, `RegistryIsOwn`, `AckBeforeReturn`, `SkippedWaitIsReported`; see 3.1. |
| `hal_message` | `MCHalMessage`, `HalMessage.cfg` | pass | 1,802,043 | Configurations loaded from whole, partial, oversized and missing files; requests of every action with parameters of every type and values at the edges of the C types; the validation build; events published to the recorded subscriptions and acknowledged: `MessageTypeOK`, `ExactValuesArrive`, `ReplyTellsOutcome`, `ConfigLoaded`, `SubscribedAsAsked`, `ValidatorHasSchema`, `EventsAcknowledged`; see 3.3. |

Every property of a passing run has a mutant in `PROJECT.json`: a plausible
wrong version of one mapped definition under which TLC finds the property
violated.

### 3.1 The properties of the server

* `TablesAgree` relates three tables of the program to the kernel's view.
  It holds because `RecvEof` undoes all three records in one branch; the
  connections excepted are those whose client has closed and which the
  thread has not read yet. With descriptors 3 and 6 around the listener's 4
  it is broken by the lowering of `max_sd` going one descriptor down instead
  of down to the next open one (mutant `LoweredMax_OneDown`).
* `RegistryIsOwn`: while the handler thread runs, every subscription record
  names an open connection whose present client asked for that event. This
  is what keeps an event from reaching a client that was given the
  descriptor number of one that left. It needs the sweep to happen in the
  same branch as the close and before `accept` can return the number again.
* `AckBeforeReturn`: when `wait_publish_event_reply` returns `RETURN_OK`,
  every synchronous subscriber the event was sent to has acknowledged the
  reqId of this very event: not an earlier one, not one of a client that has
  left since, and with two subscribers not the acknowledgement of the other
  (the reqIds of one publish differ per subscriber, and the branch matches
  descriptor, event name and reqId).
* `SkippedWaitIsReported`: `publish_event_blocking` is one flag for the
  whole walk over the registry. A synchronous record sets it and a failed
  send clears it, so the wait for a subscriber that was sent the event is
  called off when the send to a later record fails, and whether the
  publisher waits depends on the order of the records. The property says
  what the caller can rely on: a publish that sent the event to a
  synchronous subscriber and did not wait returns `RETURN_ERR`. It is
  broken by a flag that follows the last record only (mutant
  `Blocking_LastRecord`).
* `RequestNotDropped`: `message_process_cb` leaves its loop in three
  places with frames of the same `recv()` unread: the return on a frame the
  tokener rejects, and the return and the `break` of the `subscribeEvent`
  branch. The property bounds what is lost: the subscription a client waits
  on is on its way to the handler thread, in the buffer the dispatcher is
  working through, or answered, as long as the connection is open and the
  client has sent no frame of those two kinds, whatever else it sent before
  it and however `recv()` cut the stream. It is broken by a pass of the
  loop that returns where it should continue (mutant `NextFrame_Return`),
  with a request and the subscription in one buffer.
* `PublishReturns` (liveness): a publisher in the wait leaves it, unless a
  record it waits for is `ON_CHANGE_SYNC`, for which the code has no ceiling.
* `ServerStopEndsLoop` (liveness): once `running` is cleared while the thread
  runs, the thread exits. In `HalServer` this covers a thread that is inside
  `message_process_cb`, sending replies on blocking sockets, or waiting for
  the mutex a publisher holds across its sends.

### 3.2 The properties of the byte stream

* `SendsWithinMessage`: every `send()` is offered bytes of the message only,
  from the first byte not yet accepted. It is the property of `SendLoop`,
  checked in the instance `Tx`.
* `DeliveredAreEnvelopes`: at every point of a callback, what has been
  dispatched is a prefix of the values of the buffer (those with a `reqId`),
  in the order of the wire. It relates the two cursors of the loop to the
  reference `Envelopes`, over every buffer `recv()` can return: whole
  messages, glued ones, truncated ones, tails of values whose head went
  into the previous buffer. It is broken by a cursor that stands still
  (`NextStart_Stuck`: a value is dispatched twice).
* `WholeBufferDelivered`: a buffer of whole messages that the build can
  take is delivered entirely, with `RETURN_OK`. "Can take" (`Tolerated`) is
  every buffer on a json-c with `JSON_TOKENER_ALLOW_TRAILING_CHARS`;
  without it, a buffer with at most one glue point for the client and with
  none for the server. The property says that the glue branch does its work
  for two messages, which is the case the code was written for, and that
  nothing else is lost. It is broken by a cursor that skips a byte
  (`NextStart_OneMore`).
* `ParseReturns` (liveness): the callback returns, on every buffer for the
  server and on every buffer the build can take for the client. It is
  broken when `parse_end_expected` is not reset to `len` at the end of a
  pass (`ParseLimit_Stale`).
* `GluedFramesDelivered` is `WholeBufferDelivered` without the condition on
  the build: what the comment of the glue branch and the documentation say.
  It is violated (4.1).

### 3.3 The properties of the messages

* `ExactValuesArrive`: what the callback reads is what the manager added,
  and what the manager reads from a `getParametersResponse` is what the
  callback added, one for one and in order: the name and the type always;
  the value when it is a text, or a number in the range that all five
  conversions of the type keep (`Carried`: all of `int` for `int`, 0 to
  `INT_MAX` for `unsignedInt`, all of `long` for `long`, 0 to `UINT_MAX` for
  `unsignedLong`); and for a boolean the text `1` or `0` for the word that
  was added. The ranges are the finding of the run: with any wider range TLC
  shows the value that changes (4.2). It is broken by a parameter put at the
  head of the array (`ArrayPut_AtHead`).
* `ReplyTellsOutcome` relates what the callback and the validator did to
  what `json_hal_get_result_status` tells the manager, over replies built by
  three functions (`prepare_json_response_header` filled by the callback,
  `create_json_reply_msg` for a failure and for `Not Supported`): a refusal
  is read as a status that is not success whatever the callback had put in
  the reply before it failed; a `setParameters` or `deleteObject` that
  handled a parameter as success; a `getParametersResponse` holds the parameters the callback added and no
  others. The request without parameters is excepted (4.2). It is broken by
  a status read from the top level of the message
  (`GetResultStatus_TopLevel`).
* `SubscribedAsAsked`: for a `subscribeEvent` answered with success, the
  record the dispatcher makes from the request has the event the client
  named and, for the three names of the header, the notification type it
  named. The dispatcher compares action names up to the length of the name
  it knows, and every notification name begins with `onChange`; the chain in
  `json_hal_get_subscribe_event_request` compares whole texts. It is broken
  by the comparison by prefix (`NotificationOf_Prefix`).
* `EventsAcknowledged`: once the client has read the events of a publish
  and the dispatcher the acknowledgements, every record the publisher noted
  a reqId in has the status `EVENT_REPLY_SUCCESS`, which is what
  `wait_publish_event_reply` polls for, and a record of type `ON_CHANGE` is
  as it was. Four functions of two files have to agree for that: the reqId
  leaves as a JSON number (`create_publish_event_msg`), is kept in the
  record as its decimal text, returns as a JSON string
  (`create_json_reply_event_msg`) and is compared with what was kept; the
  name returns in `params[0].name` and the status in `Result.Status`
  (`get_event_reply_data_from_msg`). It also needs the two lists to agree:
  every subscription the dispatcher recorded is one the client tracks. With
  two subscriptions of one event the client acknowledges each of the two
  events twice, and each acknowledgement marks the one record whose reqId
  it names. It is broken by a reader that looks for the name at the top
  level of the message (`EventReplyData_NameAtTop`).
* `ConfigLoaded`: an endpoint whose init function returned `RETURN_OK` holds
  the four values of the file it was given and of the schema that file
  names, and uses that port, whatever earlier loads that failed have left in
  the structure. It is broken by an init that does not look at the result of
  the load (`ClientInitResult_Unchecked`).
* `ValidatorHasSchema`: in the validation build, a server whose init
  returned `RETURN_OK` has a validator with a root schema, so the dispatcher
  never calls `validate()` on one without. It relies on
  `json_hal_server_init` returning the code of `json_validator_init` and on
  `json_validator_populate_schema` catching what the library throws
  (`PopulateSchema_Uncaught`).
* `MessageTypeOK` is the type invariant: every message has the four fields
  of the header and exactly one of `params`, `Result` and `SchemaInfo` (or
  none, for a `getSchema` request), and every parameter a name alone, a
  name with type and value, or a name with a notification type. It is
  broken by a reply whose action is that of the request
  (`ResponseAction_Echoed`).

### 3.4 Bounds

* `ReqIdLP64.cfg`: `IntBits = 12`, `LongBits = 24`,
  `MinDigits = 3`, start 100, `Window = 3`, two threads. The widths are those
  of an LP64 build divided by 8/3: an `int` of three hexadecimal digits
  instead of eight, one decimal digit more in `INT_MAX` than in the field
  width. The counter runs through all 4096 values, so the overflow and the
  range where the hexadecimal reading exceeds `INT_MAX` are both reached.
* `SendLoopWhole.cfg`: messages of up to 8 bytes, every count `send()` can
  return.
* `Stream.cfg`: the messages `{a}` and `{{}}`, both callbacks, three builds
  of json-c (with `JSON_TOKENER_ALLOW_TRAILING_CHARS`; without it, with and
  without the check of the length), `SocketBuffer = 7` bytes in flight and
  `MAX_BUFFER_SIZE = 7` (16384 in the code). Seven bytes hold two whole
  messages (flat and flat, flat and nested, nested and flat), or one and a
  part of the next, or the parts of three; `recv()`
  returns every prefix of what is in flight, so a buffer begins and ends at
  any byte of a message, and a buffer that is full to `MAX_BUFFER_SIZE` is
  reached. A nested message is needed for a cut to leave a tail that
  contains a whole value. The send loop runs with every count `send()` may
  return and with failures, so truncated messages are in the stream.
* `StreamGlued.cfg`: the same with the client only, the two builds without
  `JSON_TOKENER_ALLOW_TRAILING_CHARS` and 10 bytes, which hold three
  messages: the fewest with two glue points.
* `Correlation*.cfg`: `MaxWire = 2`; `SEND_MSG_TICKER_TIMEOUT = 2` (40 in the
  code), so a slot survives one pass and expires in the second and a reply
  can arrive before, between and after the ticks; `MaxReqId = 102`, two
  headers per behaviour (one call each for two callers, two calls in a row
  for one, so that a late reply to the first call meets the slot of the
  second); `IntBits = LongBits = 16`, where the conversions of 101 and 102
  are exact; two kinds of frame in flight, so `recv()` returns one frame,
  two glued frames, or end-of-file behind unread data. `Correlation2.cfg`
  declares the callers symmetric and checks safety only. `Serialized` is
  TRUE except in `CorrelationShared.cfg` (2.9).
* `HalServer.cfg`: one descriptor (5), one event, one publisher, all four
  notification types, `MaxRequests = 1` request per connection besides
  subscriptions (from a set with one of each kind the dispatcher tells
  apart: a handled action, a frame without reqId, a malformed frame, a
  subscription without event name, an acknowledgement with empty reqId),
  `MaxSeq = 2` events per behaviour, `MaxWire = 2`. One request and a
  socket of two frames are the fewest with which a subscription arrives
  glued behind another frame (`RequestNotDropped`). Clients come and go on
  the one descriptor any number of times, so reuse of the number is covered;
  two events are the fewest with which an acknowledgement can be one event
  late. Two connections at once do not finish within minutes with
  liveness and have the configuration below.
* `HalServer2.cfg`: descriptors `{3, 6}` for connections and 4 for the
  listener, so the listener lies between them and `max_sd` is at times a
  connection and at times the listener. Two connections are the fewest with
  which the highest descriptor closes while a lower one stays, with which a
  number is reused while the other connection is alive, and with which a
  walk of the registry meets a second record after a synchronous one. The
  clients subscribe and acknowledge and send no other request (the
  dispatcher's other branches are in `HalServer.cfg`); the subscriptions are
  `ON_CHANGE` or `ON_CHANGE_SYNC_TIMEOUT`, one mode the publisher does not
  wait for and one it does; `MaxSeq = 2` event messages per behaviour (one
  publish that reaches both subscribers, or two that reach one); one
  publisher; safety only.
* `HalMessage.cfg`: `IntBits = 8`, `LongBits = 16` (the widths of the LP64
  build divided by 4, so that `long` is wider than `int` and `unsigned` is
  as wide as `int`); one name; nine values (`true`, `FALSE`, a word that is
  no boolean, -1, `INT_MAX`, `INT_MAX + 1`, a number past `UINT_MAX`,
  `LONG_MAX`, `LONG_MAX + 1`), each on either side of a boundary of one of
  the conversions; every type of `eParamType` and the type 0; `MaxParams =
  2` parameters per request, the fewest with an order, and zero is reached;
  five answers of the platform (the sample's four parameters, one of texts
  and numbers the types hold, two of numbers they do not hold, one whose
  second parameter `json_hal_add_param` refuses); the three notification
  names and one that is none of them; `MaxCalls = 2` requests per behaviour,
  so that a request follows a subscription, a terminate and a failure;
  `MaxEvents = 4` event messages, so that two subscriptions of one event
  are published to twice and a reqId in a record is overwritten; two event
  values. The calls of a behaviour come before its events: a call reads
  nothing that an event leaves (the status and the reqId of a record,
  `g_seqnumber`), and the states after an event would each be the start of
  the same calls. The
  files are a configuration as the samples have it, one of 300 bytes, one
  without the port, one that names a schema without a module name, one that
  names a schema the validator refuses, one that names a missing file and
  one that is no JSON; a missing path is tried too. The init functions are
  called in any order and again after each failure, so every partial
  configuration is the starting point of a later load.

### 3.5 Fairness

* `StreamFairSpec` assumes weak fairness of `Parse`, the passes of a
  callback and its return: the callback is straight-line code on the
  transport thread, with no lock and no blocking call in the framing loop.
  Nothing is assumed of the sender or of `recv()`.
* `FairSpec` of `Correlation` assumes weak fairness of the
  client's transport thread: it is a thread of its own and every blocking
  call in its loop has a time-out (`select` 250 ms, `sleep(1)`, `usleep`).
  `FairSpec` also assumes, per caller, weak fairness of the steps up to the
  wait and strong fairness of the steps that take the list lock: the lock is
  free again and again, but not continuously.
* `FairSpec` of `HalServer` assumes weak fairness of the handler thread
  (`select` has a time-out of 50 ms), of the steps of a publisher once it holds
  the mutex (sends, unlock, the polls of the wait and the clock), and of the
  transport thread of every client (`ClientTransport`: reading replies and
  events). The last is an assumption about the peers, and a necessary one:
  the sockets are blocking, so a client that stops reading blocks
  `socket_send`, with it the handler thread or a publisher that holds the
  mutex, and `ServerStopEndsLoop` and `PublishReturns` fail without it.
* Nothing is assumed of the applications: when they call, publish or
  terminate, and whether a client acknowledges, subscribes or leaves.

### 3.6 Deadlock checking

`Stream` and `ReqIdAlloc` run for ever and are checked for deadlock. The
other configurations say `CHECK_DEADLOCK FALSE`: after terminate with the
thread gone, or after the thread has exited on an error, the system has
stopped and no action is enabled; in `HalMessage` a behaviour ends when the
manager has made `MaxCalls` requests, the server has sent `MaxEvents` events
and both ends are initialised.

## 4. What the models show

### 4.1 Disagreements between code and documentation (the violation runs)

1. `correlation_shared_reqid`: `get_req_id` is not atomic and
   `json_hal_client_get_request_header` takes no lock, so two threads
   leave with one reqId (both load 100 and both store and return 101).
   Both slots get the sequence of 101. The second caller's send fails, its
   `request_delete_cb` unlinks the first slot with that sequence, which is
   the other caller's, and it frees its own, which is now the head of the
   list: the walks of the transport thread read and write freed memory,
   and the other caller waits on a slot that no reply and no tick reaches.
   The same happens after a wake-up in place of the failed send.
2. `send_loop_whole`: the loop compares `total_bytes_sent` with
   `total_bytes_left`, which it decrements; after `send()` has accepted at
   least half of what was left it stops and returns `RETURN_OK`.
3. `correlation_glued_frames`: the matcher copies the whole receive buffer
   into the slot and the caller parses its first value.
4. `correlation_unlocked_append`: `LL_APPEND` runs without the list lock.
5. `framer_glued`: on a json-c without `JSON_TOKENER_ALLOW_TRAILING_CHARS`
   the tokener reports the first byte of the second message as an error and
   the glue branch of `response_parse_cb` parses again up to
   `parse_end_expected = parse_end`. `parse_end` counts from `start_pos`;
   the limit is used as an offset into the buffer. For the first message
   `start_pos` is 0 and the two are the same. At the second glue point they
   are not. TLC's trace: buffer `{{}}{a}{a}`; the first message is
   delivered through the glue branch and `start_pos` becomes 4; the parse
   from there stops at the third message with `parse_end = 3`; the branch
   sets `parse_end_expected = 3`, less than `start_pos`; the next parse is
   given the length -1, reads to the end of the buffer, reports the same
   error with no `{` at the computed place, and the callback returns
   `RETURN_ERR` with two messages undelivered.

### 4.2 Observations without a run

These were reached while modelling; each is a state of a module, described in
a hazard of `PROJECT.json`.

* Where `long` has 32 bits, `strtol` saturates for every reqId from 80000000
  on and all of them get the key `INT_MAX`; this is the mutant
  `StrToL_Narrow` of `KeysDistinct`.
* The reset of the counter to 100 is dead code on both sides
  (`get_req_id`, `get_sequence_number`): the counter goes negative.
* A terminate that runs before the handler thread's own `running = TRUE`
  does not stop the thread, on either side.
* `json_hal_client_terminate` frees the slots of blocked callers without
  signalling them.
* `json_hal_is_client_connected` answers `TRUE` after
  `json_hal_client_terminate`: the exit path of the handler closes the
  socket without `client_disconnected_cb`. `ConnectedIsCurrent` is stated
  up to the exit of the thread for that reason.
* A request glued behind a frame the tokener rejects, or behind a
  subscription without `params`, gets no reply; its caller waits out
  `SEND_MSG_TICKER_TIMEOUT`.
* After `select()` has failed on the server the thread is gone, and the
  registry keeps records of descriptors that are closed; `RegistryIsOwn` is
  stated for a running thread for that reason.
* The server records a subscription after it has sent the reply, and the
  client tracks the event after any reply, also a refusal.
* In the same build, `response_parse_cb` does not return from the buffer
  `{a}{a}{` (two messages and the first byte of a third): after the first
  message `start_pos` is 3, the glue branch sets `parse_end_expected` to 3,
  the parse of length 0 answers `continue` with parse end 0, the pass ends
  with `start_pos` still 3 and `parse_end_expected` back at 7, and so on.
  The transport thread stays in the callback. `ParseReturns` is stated for
  the buffers the build can take for that reason.
* In the same build `message_process_cb`, which has no glue branch, returns
  `RETURN_ERR` on every buffer with two requests and handles neither.
  `HalServer` models the build with `JSON_TOKENER_ALLOW_TRAILING_CHARS`.
* A message cut by `recv()` is lost on both sides and in every build: the
  tokener that holds its head is freed when the callback returns, and the
  tail begins the next buffer with a byte that begins no value. With a
  nested message the tail can begin with a whole inner object: after a
  `recv()` that returned the first byte of `{{a}}`, the next callback
  dispatches `{a}`, a value that nobody sent (a behaviour of `Stream` with
  that message). The documentation allows an implementation to require
  whole-message buffers; nothing in the code makes the peer or the kernel
  provide them.
* A message that `SendLoop` truncated (4.1, 2) is followed in the stream by
  the next message: the framer parses the two as one value or reports an
  error, and the messages behind it in the buffer are dropped.
* An envelope longer than `MAX_BUFFER_SIZE` can never be received: every
  buffer is parsed on its own.
* Two threads that publish at once are not serialised through the wait, as
  the documentation says they are: `json_hal_server_publish_event` unlocks
  `gm_subscription_mutex` before it calls `wait_publish_event_reply`, and a
  record has one `last_msg`. With `Publishers = {p1, p2}` and one connection
  in `HalServer.cfg`, TLC finds `AckBeforeReturn` violated after 29 steps:
  p1 sends the event with reqId 101 to a subscriber with a time-out and
  waits; p2 publishes, overwrites the record with reqId 102 and
  `WAIT_EVENT_REPLY_MSG`, and waits too; the client, which had not yet
  tracked the event when 101 arrived, acknowledges 102 only; the record
  becomes `EVENT_REPLY_SUCCESS` and p1's wait returns `RETURN_OK` for an
  event nobody acknowledged. The runs have one publisher.

* `json_hal_server_publish_event` drops the result of
  `wait_publish_event_reply`: a publish whose wait timed out or was refused
  returns `RETURN_OK` like one that was acknowledged, where the interface
  says it returns `RETURN_ERR` on failure. In `HalServer` the result of the
  wait (`wait_ret`) is kept apart from the result of the call, and
  `AckBeforeReturn` is stated of the wait.
* A `hal_param_t` does not come back as it went (`ExactValuesArrive` with
  `Carried` widened shows each case). A boolean goes as `true` or `FALSE`
  and comes back as `1` or `0`, which `json_hal_add_param` refuses, so a
  manager cannot set what it got. An `unsignedInt` above `INT_MAX` comes
  back negative or as `INT_MAX`. An `unsignedLong` above `UINT_MAX` comes
  back without its high bits, because the local that holds it is `unsigned`.
  A number no `long` holds is at the mercy of `atol`. A text that is no
  number is sent as 0 under every numeric type.
* A `setParameters` or `deleteObject` without parameters is answered with an
  empty `Result`: the sample callbacks set the status inside the loop.
  `json_hal_get_result_status` returns `RETURN_ERR` on that reply although
  the callback returned `RETURN_OK`. `subs_event_cb` sets the status after
  its loop and has no such case.
* A notification type the server does not know is recorded as `ON_CHANGE`
  and answered with success; in a build without
  `JSON_BLOCKING_SUBSCRIBE_EVENT` that is every type.
* In the validation build the reply is checked after the callback has done
  its work: a set that was applied, and a subscription the vendor's callback
  has stored, can be answered with `Not Supported`, and the dispatcher then
  does not record the subscription.
* A load of the configuration that fails leaves the fields it got to: after
  a failure at the schema, `g_server_config` has the schema path and the
  port of the new file and the name and the version of the load before.
  `ConfigLoaded` holds because the init functions return the failure and a
  later success overwrites all four.
* A configuration file of 256 bytes or more fills the buffer of
  `json_hal_load_config` and leaves it without a terminator; whether the
  load succeeds then depends on the bytes behind the buffer.
* `json_validator_init` called twice drops the validator of the first call
  without deleting it, and a failed call leaves a validator without a root
  schema in place until `json_validator_terminate`.

## 5. Not modelled

* The text of a JSON value on the wire: escapes, white space, and the
  errors of json-c that depend on them. `Framer` has the braces, on which
  the boundaries of values depend; `HalMessage` has the objects, and takes
  the serialisation and the parse of a message the library built as exact.
* The lengths of texts: `strcpy` into the fixed fields of `hal_config_t`,
  `strncpy` into `hal_param_t` and the records of the registry, which
  truncate or overflow. A name and a value are a word or a number.
* The branch of `json_hal_add_param` for `PUBLISHEVENT_RESPONSE_MESSAGE`:
  it calls `json_object_object_add` on the `params` array, which json-c
  does not define, and nothing in the repository calls it.
* Parameters of other origin than the library: a type name that only begins
  with a known name (`unsignedInteger` is read as `unsignedInt`), a string
  under a numeric type. `GetParam` converts a scalar of any kind as json-c
  does, and the run reads the messages the library builds.
* Memory: the read of a receive buffer that is full and so has no
  terminator, by a parse with a negative length; the `memset` of `len + 1`
  bytes in a slot of `MAX_BUFFER_SIZE` bytes. Both are listed as hazards.
* The byte grain and the frame grain in one module: `Correlation` and
  `HalServer` with `Framer` in place of their sequences of frames. The
  state spaces multiply, and the properties of each grain do not read the
  state of the other.
* The threads of `HalServer` in the `JSON_SCHEMA_VALIDATION_ENABLED` build
  (a terminate that deletes the validator while the handler thread
  validates): `HalMessage` has that build for one call at a time. What the
  validator decides of a reply is a free choice; the schema language is the
  external library's.
* The build without `JSON_BLOCKING_SUBSCRIBE_EVENT`, in which every
  subscription is `ON_CHANGE` and no publish waits; it is `HalServer` with
  that one notification type.
* Freed memory on the server: a list freed by terminate is an empty list.
* A `pthread_cond_wait` that returns without a signal; failure of `calloc`
  (other than in `json_hal_load_config`), of `pthread_create` and of
  `json_object_to_json_string_ext`. `malloc` failing in
  `json_hal_client_subscribe_event` is a choice of `ClientAppend` in
  `HalServer`; in `HalMessage` it succeeds.
* A client that outlives its connection: in `HalServer` a client is gone
  when its connection is, by `json_hal_client_terminate` or with its
  process. A client that reconnects after the server closed keeps
  `g_event_tracking` while the server has swept its records, and gets no
  event until it subscribes again; a second subscription then gives it two
  entries and two acknowledgements per event. Following a client across
  connections needs an identity that the descriptor does not give.
* An event callback that calls back into the library: it runs on the
  transport thread with `gm_event_tracking_lock` held, so a call of
  `json_hal_client_send_and_get_reply` from it waits for a signal only its
  own thread sends. What a callback does is the application's.
* The `main` functions of the samples, the event thread of the sample
  server and `test_json_schema_validator.c`: programs that call the library
  in an order the environment actions of the modules include.
* Memory that is not released (`json_hal_load_config` returns without
  `free(buf)` when the schema does not parse).

## 6. Plan

Done: `ReqId`, `ReqIdAlloc`, `SendLoop`, `Framer`, `Stream`, `TcpClient`,
`Correlation`, `TcpServer`, `HalServer` (with one and with two
connections), `HalParam`, `HalConfig`, `HalValidator`, `HalMessage` and the
twelve runs above. Next, in order:

1. Two publishers sharing `last_msg.req_id` (4.2) as a run of its own, once
   a run it subsumes can make room.
2. The subscribe handshake with the threads: an event published between
   the reply to `subscribeEvent` and the record of the subscription
   (`EventsAcknowledged` has the handshake one step at a time).
3. A client with an identity of its own, which keeps `g_event_tracking`
   across connections (5).

The number of runs is kept at what the questions need: a new run that
subsumes an old one replaces it.
