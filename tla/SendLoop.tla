------------------------------ MODULE SendLoop ------------------------------
(***************************************************************************)
(* The send path of both endpoints: json_rpc_server_send_data of           *)
(* src/tcp_server.c and json_rpc_client_send_data of src/tcp_client.c,     *)
(* which are the same function.  A message of strlen(buffer) bytes is      *)
(* handed to send() in a loop; send() accepts any number of the bytes it   *)
(* is offered, at least one, or fails.  The client's socket is             *)
(* non-blocking, so short counts are what send() returns whenever the      *)
(* socket buffer is nearly full.                                           *)
(***************************************************************************)
EXTENDS Integers

CONSTANTS
    MaxLen          \* bound: the longest message sent

RETURN_OK  == 0
RETURN_ERR == -1

VARIABLES
    spc,                \* "idle", "loop", "done"
    len,                \* strlen(buffer)
    total_bytes_sent,
    total_bytes_left,
    offered,            \* the bytes of the last send(): [from, count]
    ret                 \* the value returned

sendVars == <<spc, len, total_bytes_sent, total_bytes_left, offered, ret>>

SendTypeOK ==
    /\ spc \in {"idle", "loop", "done"}
    /\ len \in 0..MaxLen
    /\ total_bytes_sent \in 0..MaxLen
    /\ total_bytes_left \in 0..MaxLen
    /\ offered \in [from : 0..MaxLen, count : 0..MaxLen]
    /\ ret \in {RETURN_OK, RETURN_ERR}

SendInit ==
    /\ spc = "idle"
    /\ len = 0
    /\ total_bytes_sent = 0
    /\ total_bytes_left = 0
    /\ offered = [from |-> 0, count |-> 0]
    /\ ret = RETURN_OK

\* The function is entered with a message of n bytes.
Call(n) ==
    /\ spc = "idle"
    /\ spc' = "loop"
    /\ len' = n
    /\ total_bytes_sent' = 0
    /\ total_bytes_left' = n
    /\ offered' = [from |-> 0, count |-> 0]
    /\ ret' = RETURN_OK

\* while (total_bytes_sent < total_bytes_left)
Looping == spc = "loop" /\ total_bytes_sent < total_bytes_left

Remaining_Whole(left, n) == left

Remaining_OneLess(left, n) == left - n - 1

\* total_bytes_left -= ret
Remaining(left, n) == left - n

\* send(sockfd, buffer + total_bytes_sent, total_bytes_left, 0) accepts n
\* bytes.
SendSome(n) ==
    /\ Looping
    /\ n \in 1..total_bytes_left
    /\ offered' = [from |-> total_bytes_sent, count |-> total_bytes_left]
    /\ total_bytes_sent' = total_bytes_sent + n
    /\ total_bytes_left' = Remaining(total_bytes_left, n)
    /\ UNCHANGED <<spc, len, ret>>

\* send() returns -1: the message is given up, whatever was sent of it.
SendFail ==
    /\ Looping
    /\ offered' = [from |-> total_bytes_sent, count |-> total_bytes_left]
    /\ spc' = "done"
    /\ ret' = RETURN_ERR
    /\ UNCHANGED <<len, total_bytes_sent, total_bytes_left>>

\* The loop condition fails: return RETURN_OK.
LoopEnd ==
    /\ spc = "loop" /\ ~Looping
    /\ spc' = "done"
    /\ ret' = RETURN_OK
    /\ UNCHANGED <<len, total_bytes_sent, total_bytes_left, offered>>

\* The caller has the result; the locals of the function are gone.
Return ==
    /\ spc = "done"
    /\ spc' = "idle"
    /\ len' = 0
    /\ total_bytes_sent' = 0
    /\ total_bytes_left' = 0
    /\ offered' = [from |-> 0, count |-> 0]
    /\ UNCHANGED ret

SendNext ==
    \/ \E n \in 0..MaxLen : Call(n)
    \/ \E n \in 1..MaxLen : SendSome(n)
    \/ SendFail \/ LoopEnd \/ Return

SendSpec == SendInit /\ [][SendNext]_sendVars

-----------------------------------------------------------------------------
(* Properties *)

\* Every send() is offered bytes of the message only, and the bytes that
\* follow the ones already accepted: buffer + total_bytes_sent with a count
\* of total_bytes_left never reaches past the end of the buffer, and no
\* byte is sent twice or skipped.
SendsWithinMessage ==
    /\ offered.from + offered.count <= len
    /\ spc = "loop" => total_bytes_sent + total_bytes_left = len

\* The send path writes the entire buffer or reports a failure: when the
\* function returns RETURN_OK every byte of the message has been accepted
\* by send().
WholeOrError ==
    (spc = "done" /\ ret = RETURN_OK) => total_bytes_sent = len

=============================================================================
