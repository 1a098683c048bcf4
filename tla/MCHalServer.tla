---------------------------- MODULE MCHalServer ----------------------------
(***************************************************************************)
(* Module HalServer for model checking: the descriptors, the event names,  *)
(* the registered actions and the requests of the clients.                 *)
(***************************************************************************)
EXTENDS HalServer

OneFd == {5}

\* Two connections, one below the listener's descriptor and one above it
\* with a gap between, so that max_sd has to step over descriptors that are
\* not open.
TwoFds == {3, 6}

OneEvent == {<<"Line">>}

\* The application registers subscribeEvent, with a callback or without,
\* and getSchema.
SampleActions ==
    {[function_name |-> SUBSCRIBE_EVENT, cb |-> TRUE],
     [function_name |-> SUBSCRIBE_EVENT, cb |-> FALSE],
     [function_name |-> "getSchema", cb |-> TRUE]}

\* One request of every kind the dispatcher tells apart.
EveryKind ==
    {[type |-> "call", action |-> "getSchema"],
     [type |-> "noid"],
     [type |-> "garbage"],
     SubscribeFrame(NULL, "ON_CHANGE"),
     ResultFrame(<<"Line">>, <<>>, NULL)}

\* The application of the samples: subscribeEvent with a callback, clients
\* of the library only, subscriptions with a time-out.
SubscribeOnly == {[function_name |-> SUBSCRIBE_EVENT, cb |-> TRUE]}
NoRequests    == {}

\* A subscriber the publisher does not wait for and one it waits for.
AsyncAndTimed == {"ON_CHANGE", "ON_CHANGE_SYNC_TIMEOUT"}

=============================================================================
