------------------------------ MODULE MCStream ------------------------------
(***************************************************************************)
(* Module Stream for TLC: two messages, a flat one of three bytes and a    *)
(* nested one of four, so that glued messages come in every order of       *)
(* lengths and a value can be cut inside a nested one; the builds of       *)
(* json-c the source distinguishes; the socket and the receive buffer are  *)
(* given their sizes in the configuration.                                 *)
(***************************************************************************)
EXTENDS Stream

Flat   == <<"{", "a", "}">>
Nested == <<"{", "{", "}", "}">>

TwoMsgs == {Flat, Nested}

BothSides  == {"client", "server"}
ClientOnly == {"client"}

Trailing   == [allow_trailing |-> TRUE,  size_check |-> TRUE]
StrictNew  == [allow_trailing |-> FALSE, size_check |-> TRUE]
StrictOld  == [allow_trailing |-> FALSE, size_check |-> FALSE]

AllBuilds    == {Trailing, StrictNew, StrictOld}
StrictBuilds == {StrictNew, StrictOld}

=============================================================================
