----------------------------- MODULE ReqIdAlloc -----------------------------
(***************************************************************************)
(* The allocation of request identifiers, src/json_hal_client.c: get_req_id *)
(* as the machine executes it (the increment of the global g_req_id is a    *)
(* load and a store, and nothing serialises two threads in it), and the    *)
(* keys the identifiers in flight get in the pending list (module ReqId).  *)
(*                                                                         *)
(* A thread mints an identifier for a call and holds it until the call is  *)
(* over.  A call lasts at most the time-out, so an identifier is released  *)
(* before the counter has moved Window steps past it.                      *)
(***************************************************************************)
EXTENDS ReqId

CONSTANTS
    Threads,        \* application threads that build request headers
    NULL,
    Serialized,     \* TRUE: the application lets one thread at a time
                    \* into json_hal_client_get_request_header (what two
                    \* threads in it at once do to the pending list is
                    \* checked in module Correlation)
    Window          \* bound: identifiers minted while one is held

VARIABLES
    g_req_id,
    apc,            \* where each thread is in get_req_id
    reg,            \* the register holding g_req_id + 1
    held            \* the identifier each thread's call in flight carries

allocVars == <<g_req_id, apc, reg, held>>

Ints == INT_MIN..INT_MAX

AllocTypeOK ==
    /\ g_req_id \in Ints
    /\ apc \in [Threads -> {"idle", "loaded", "stored"}]
    /\ reg \in [Threads -> Ints \cup {NULL}]
    /\ held \in [Threads -> Ints \cup {NULL}]

AllocInit ==
    /\ g_req_id = DEFAULT_SEQ_START_NUMBER
    /\ apc = [t \in Threads |-> "idle"]
    /\ reg = [t \in Threads |-> NULL]
    /\ held = [t \in Threads |-> NULL]

\* How far the counter has moved since identifier n was minted.
Since(n) == (g_req_id - n) % 2^IntBits

\* g_req_id++, the load.
Load(t) ==
    /\ apc[t] = "idle" /\ held[t] = NULL
    /\ Serialized => \A u \in Threads : apc[u] = "idle"
    /\ \A u \in Threads : held[u] # NULL => Since(held[u]) < Window
    /\ reg' = [reg EXCEPT ![t] = NextReqId(g_req_id)]
    /\ apc' = [apc EXCEPT ![t] = "loaded"]
    /\ UNCHANGED <<g_req_id, held>>

\* g_req_id++, the store.
Store(t) ==
    /\ apc[t] = "loaded"
    /\ g_req_id' = reg[t]
    /\ apc' = [apc EXCEPT ![t] = "stored"]
    /\ UNCHANGED <<reg, held>>

\* return g_req_id: the value still in the register, or the global read
\* again, as the compiler chose.
Return(t) ==
    /\ apc[t] = "stored"
    /\ \E id \in {reg[t], g_req_id} : held' = [held EXCEPT ![t] = id]
    /\ reg' = [reg EXCEPT ![t] = NULL]
    /\ apc' = [apc EXCEPT ![t] = "idle"]
    /\ UNCHANGED g_req_id

\* The call that carried the identifier is over.
Release(t) ==
    /\ held[t] # NULL
    /\ held' = [held EXCEPT ![t] = NULL]
    /\ UNCHANGED <<g_req_id, apc, reg>>

AllocNext == \E t \in Threads : Load(t) \/ Store(t) \/ Return(t) \/ Release(t)

AllocSpec == AllocInit /\ [][AllocNext]_allocVars

-----------------------------------------------------------------------------
(* Properties *)

InFlight == {t \in Threads : held[t] # NULL}

\* Two calls in flight never have the same key in the pending list:
\* printing the identifier with "%8.8d" and reading it back with
\* strtol(.., 16) and a cast to int, as json_hal_client_send_and_get_reply
\* and response_parse_cb do, keeps the identifiers of overlapping calls
\* apart, which matching a reply to its slot by rpc->sequence relies on.
KeysDistinct ==
    \A t, u \in InFlight : t # u => SequenceOf(held[t]) # SequenceOf(held[u])

=============================================================================
