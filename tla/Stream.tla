------------------------------- MODULE Stream -------------------------------
(***************************************************************************)
(* One direction of a connection, from the send path of one endpoint to    *)
(* the framer of the other: the send loop of module SendLoop writes the    *)
(* bytes of a message into the socket, recv() of the peer's transport      *)
(* (rpc_client_handler of src/tcp_client.c, rpc_server_handler of          *)
(* src/tcp_server.c) takes whatever has arrived, at most MAX_BUFFER_SIZE   *)
(* bytes, and calls the callback of module Framer with it.  There is no    *)
(* delimiter on the wire: where a buffer begins and ends is decided by     *)
(* send() and recv() alone.                                                *)
(***************************************************************************)
EXTENDS Framer

CONSTANTS
    Msgs,               \* the messages the sender has to send: JSON values
    SocketBuffer,       \* bound: the bytes the socket holds in flight
    MAX_BUFFER_SIZE     \* the size of the receive buffer

VARIABLES
    spc, tx_len, total_bytes_sent, total_bytes_left, offered, tx_ret,
    msg,                \* the buffer the send path was called with
    pipe                \* the bytes accepted by send() and not yet received

MaxMsgLen == Max({Len(m) : m \in Msgs})

Tx == INSTANCE SendLoop WITH len <- tx_len, ret <- tx_ret, MaxLen <- MaxMsgLen

txVars     == <<spc, tx_len, total_bytes_sent, total_bytes_left, offered, tx_ret>>
streamVars == <<txVars, msg, pipe, framerVars>>

StreamTypeOK ==
    /\ Tx!SendTypeOK
    /\ FramerTypeOK
    /\ msg \in Msgs \cup {<<>>}
    /\ pipe \in Seq(Byte) /\ Len(pipe) <= SocketBuffer
    /\ len <= MAX_BUFFER_SIZE

StreamInit ==
    /\ Tx!SendInit
    /\ FramerInit
    /\ msg = <<>>
    /\ pipe = <<>>

-----------------------------------------------------------------------------
(* The sender *)

\* json_rpc_client_send_data or json_rpc_server_send_data is called with
\* the text of an envelope.
Send(m) ==
    /\ Tx!Call(Len(m))
    /\ msg' = m
    /\ UNCHANGED <<pipe, framerVars>>

\* send() takes n of the bytes it is offered: the socket has room for them.
Accept(n) ==
    /\ Tx!SendSome(n)
    /\ Len(pipe) + n <= SocketBuffer
    /\ pipe' = pipe \o SubSeq(msg, total_bytes_sent + 1, total_bytes_sent + n)
    /\ UNCHANGED <<msg, framerVars>>

\* send() fails: the socket is full or broken.  The connection stays open
\* with what was sent of the message in it.
Refuse ==
    /\ Tx!SendFail
    /\ UNCHANGED <<msg, pipe, framerVars>>

SendDone ==
    /\ \/ Tx!LoopEnd /\ UNCHANGED msg
       \/ Tx!Return /\ msg' = <<>>
    /\ UNCHANGED <<pipe, framerVars>>

\* What the sender does while the peer is inside its callback the callback
\* cannot see: its steps are taken when the callback has returned.
Sender ==
    /\ pc = "idle"
    /\ \/ \E m \in Msgs : Send(m)
       \/ \E n \in 1..MaxMsgLen : Accept(n)
       \/ Refuse \/ SendDone

-----------------------------------------------------------------------------
(* The receiver *)

\* recv(sock, buffer, MAX_BUFFER_SIZE, 0) returns rc > 0 bytes and the
\* callback is entered with them.
Recv(n) ==
    /\ n \in 1..Min({Len(pipe), MAX_BUFFER_SIZE})
    /\ Call(SubSeq(pipe, 1, n))
    /\ pipe' = SubSeq(pipe, n + 1, Len(pipe))
    /\ UNCHANGED <<txVars, msg>>

Parse ==
    /\ Step \/ Return
    /\ UNCHANGED <<txVars, msg, pipe>>

Receiver == (\E n \in 1..MAX_BUFFER_SIZE : Recv(n)) \/ Parse

-----------------------------------------------------------------------------

StreamNext == Sender \/ Receiver

StreamSpec == StreamInit /\ [][StreamNext]_streamVars

\* The callback runs on the transport thread, which nothing stops between
\* two passes of the tokener loop.
StreamFairSpec == StreamSpec /\ WF_streamVars(Parse)

-----------------------------------------------------------------------------
(* Properties *)

\* Every send() is offered bytes of the message only, and the bytes that
\* follow the ones already accepted: buffer + total_bytes_sent with a count
\* of total_bytes_left never reaches past the end of the buffer, so what
\* the peer receives is made of bytes of messages, in their order.
SendsWithinMessage == Tx!SendsWithinMessage

=============================================================================
