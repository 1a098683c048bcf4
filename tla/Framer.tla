------------------------------- MODULE Framer -------------------------------
(***************************************************************************)
(* The framing of the byte stream into JSON values: the tokener loop at    *)
(* the head of response_parse_cb (src/json_hal_client.c) and of            *)
(* message_process_cb (src/json_hal_server.c).  Both are entered by the    *)
(* transport with the bytes of one recv(), allocate a tokener, feed it the *)
(* buffer from start_pos and hand every value it completes to the          *)
(* dispatcher.  The tokener lives for one call: it is freed on every       *)
(* return.                                                                 *)
(*                                                                         *)
(* A byte is an opening brace, a closing brace or any other byte ("a").    *)
(* A JSON value is a balanced run of bytes that starts with "{"; the       *)
(* object without fields is "{}".  What the dispatcher does with a value   *)
(* is the business of the modules Correlation and HalServer: here a value  *)
(* that reaches the dispatcher is appended to `dispatched`.                *)
(*                                                                         *)
(* json_tokener_parse_ex is json-c's, not this repository's: ParseEx       *)
(* states what json-c documents of it.  What json-c does depends on its    *)
(* version, which the source selects with #ifdef: a build is a record of   *)
(* the two facts that matter.                                              *)
(***************************************************************************)
EXTENDS Integers, Sequences, FiniteSets, SequencesExt

CONSTANTS
    Sides,      \* the callbacks modelled: a subset of {"client", "server"}
    Builds,     \* the json-c builds: records [allow_trailing, size_check]
    NULL

RETURN_OK  == 0
RETURN_ERR == -1

Byte == {"{", "}", "a"}
NUL  == ""                      \* the terminator: aterr = "" reads as NUL

EmptyObject == <<"{", "}">>     \* a value with no "action" and no "reqId"

VARIABLES
    side,               \* whose callback this is
    build,              \* the json-c the library is linked with
    pc,                 \* "idle", "loop", "done"
    buffer, len,        \* the arguments of the callback
    start_pos,
    parse_end_expected, \* client only
    tok,                \* the tokener: the bytes of the value it is inside
    dispatched,         \* the values handed to the dispatcher in this call
    ret

framerVars == <<side, build, pc, buffer, len, start_pos, parse_end_expected,
                tok, dispatched, ret>>
loopVars   == <<start_pos, parse_end_expected, tok, dispatched>>

-----------------------------------------------------------------------------
(* json-c *)

\* The nesting depth after the bytes s.
Depth(s) ==
    Cardinality({i \in DOMAIN s : s[i] = "{"})
        - Cardinality({i \in DOMAIN s : s[i] = "}"})

\* The offsets at which the value that t began ends within the input.
ValueEnds(t, input) ==
    {p \in 1..Len(input) : Depth(t \o SubSeq(input, 1, p)) = 0}

Result(obj, e, at, t) == [jobj |-> obj, err |-> e, parse_end |-> at, tok |-> t]

\* json_tokener_parse_ex(tok, str, n) of a tokener with the flag
\* JSON_TOKENER_STRICT.  A negative n makes json-c read up to the
\* terminator, where an unfinished value is an error; json-c 0.14 and later
\* refuse n < -1.  A byte after a finished value is an error unless the
\* tokener has JSON_TOKENER_ALLOW_TRAILING_CHARS.
ParseEx(t, str, n, b) ==
    LET input == IF n < 0 THEN str ELSE SubSeq(str, 1, n)
        ends  == ValueEnds(t, input)
        end   == CHOOSE p \in ends : \A q \in ends : p <= q
    IN  CASE n < -1 /\ b.size_check
               -> Result(NULL, "size", 0, t)
          [] ~(n < -1 /\ b.size_check) /\ t = <<>> /\ input # <<>>
                /\ Head(input) # "{"
               -> Result(NULL, "unexpected", 0, t)
          [] OTHER
               -> CASE ends = {} /\ n >= 0
                         -> Result(NULL, "continue", Len(input), t \o input)
                    [] ends = {} /\ n < 0
                         -> Result(NULL, "eof", Len(input), t \o input)
                    [] ends # {} /\ end < Len(input) /\ ~b.allow_trailing
                         -> Result(NULL, "unexpected", end, t)
                    [] OTHER
                         -> Result(t \o SubSeq(input, 1, end), "success",
                                   end, <<>>)

-----------------------------------------------------------------------------
(* The callbacks *)

FramerTypeOK ==
    /\ side \in Sides /\ build \in Builds
    /\ pc \in {"idle", "loop", "done"}
    /\ buffer \in Seq(Byte) /\ len = Len(buffer)
    /\ start_pos \in 0..len
    /\ parse_end_expected \in 0..len
    /\ tok \in Seq(Byte)
    /\ dispatched \in Seq(Seq(Byte))
    /\ ret \in {RETURN_OK, RETURN_ERR}

FramerInit ==
    /\ side \in Sides /\ build \in Builds
    /\ pc = "idle"
    /\ buffer = <<>> /\ len = 0
    /\ start_pos = 0 /\ parse_end_expected = 0
    /\ tok = <<>> /\ dispatched = <<>>
    /\ ret = RETURN_OK

\* The transport calls back with the rc > 0 bytes of one recv(); the
\* callback allocates its tokener.
Call(b) ==
    /\ pc = "idle" /\ b # <<>>
    /\ pc' = "loop"
    /\ buffer' = b /\ len' = Len(b)
    /\ start_pos' = 0
    /\ parse_end_expected' = Len(b)
    /\ tok' = <<>> /\ dispatched' = <<>>
    /\ ret' = RETURN_OK
    /\ UNCHANGED <<side, build>>

\* The length the tokener is given: the client's may be negative.
ParseLen == (IF side = "client" THEN parse_end_expected ELSE len) - start_pos

Parsed == ParseEx(tok, SubSeq(buffer, start_pos + 1, len), ParseLen, build)

\* aterr[0]
AtErr ==
    IF start_pos + Parsed.parse_end < parse_end_expected
    THEN buffer[start_pos + Parsed.parse_end + 1] ELSE NUL

Failed == Parsed.jobj = NULL /\ Parsed.err # "continue"
Glued  == Parsed.jobj = NULL /\ Parsed.err = "unexpected" /\ AtErr = "{"

NextStart_Stuck(start, parse_end) == start

NextStart_OneMore(start, parse_end) == start + parse_end + 1

\* start_pos += json_tokener_get_parse_end(tok)
NextStart(start, parse_end) == start + parse_end

ParseLimit_Stale(n) == parse_end_expected

\* parse_end_expected = len, at the end of every pass of the client's loop
ParseLimit(n) == n

\* The dispatcher is given a value that has the field it looks for first,
\* "action" on the client and "reqId" on the server.
Deliver(obj) ==
    dispatched' = IF obj \in {NULL, EmptyObject} THEN dispatched
                  ELSE Append(dispatched, obj)

Finish(rc) ==
    /\ pc' = "done"
    /\ ret' = rc
    /\ UNCHANGED <<side, build, buffer, len>>

\* The end of a pass: return RETURN_OK when the buffer is used up.
NextPass ==
    /\ pc' = IF start_pos' >= len THEN "done" ELSE "loop"
    /\ UNCHANGED <<side, build, buffer, len, ret>>

\* The client, glued messages: a byte follows a finished value and it is
\* "{".  Parse again, with a new tokener, up to where the tokener stopped.
ClientGlue ==
    /\ pc = "loop" /\ side = "client" /\ Glued
    /\ parse_end_expected' = Parsed.parse_end
    /\ tok' = <<>>
    /\ UNCHANGED <<side, build, pc, buffer, len, start_pos, dispatched, ret>>

\* The client, any other error of the tokener: the rest of the buffer is
\* dropped.
ClientFail ==
    /\ pc = "loop" /\ side = "client" /\ Failed /\ ~Glued
    /\ Finish(RETURN_ERR)
    /\ UNCHANGED loopVars

\* The client, a value or the need for more input: a value without
\* "action" is skipped.
ClientAdvance ==
    /\ pc = "loop" /\ side = "client" /\ ~Failed
    /\ Deliver(Parsed.jobj)
    /\ start_pos' = NextStart(start_pos, Parsed.parse_end)
    /\ parse_end_expected' = ParseLimit(len)
    /\ tok' = Parsed.tok
    /\ NextPass

\* The server, an error of the tokener.
ServerFail ==
    /\ pc = "loop" /\ side = "server" /\ Failed
    /\ Finish(RETURN_ERR)
    /\ UNCHANGED loopVars

\* The server, a value or the need for more input: a value without
\* "reqId" is skipped.
ServerAdvance ==
    /\ pc = "loop" /\ side = "server" /\ ~Failed
    /\ Deliver(Parsed.jobj)
    /\ start_pos' = NextStart(start_pos, Parsed.parse_end)
    /\ tok' = Parsed.tok
    /\ NextPass
    /\ UNCHANGED parse_end_expected

Step ==
    \/ ClientGlue \/ ClientFail \/ ClientAdvance
    \/ ServerFail \/ ServerAdvance

\* The callback returns to the transport: the tokener is freed and the
\* locals are gone.
Return ==
    /\ pc = "done"
    /\ pc' = "idle"
    /\ buffer' = <<>> /\ len' = 0
    /\ start_pos' = 0 /\ parse_end_expected' = 0
    /\ tok' = <<>> /\ dispatched' = <<>>
    /\ UNCHANGED <<side, build, ret>>

-----------------------------------------------------------------------------
(* What the framer promises *)

\* The complete values a buffer begins with: after a value, continue from
\* where it ended, until a byte that begins no value or the end of the
\* buffer.
RECURSIVE Envelopes(_)
Envelopes(b) ==
    LET ends == ValueEnds(<<>>, b)
        end  == CHOOSE p \in ends : \A q \in ends : p <= q
    IN  IF b = <<>> \/ Head(b) # "{" \/ ends = {} THEN <<>>
        ELSE <<SubSeq(b, 1, end)>> \o Envelopes(SubSeq(b, end + 1, Len(b)))

HasId(v) == v # EmptyObject

\* The buffer is whole messages of the peer and nothing else.
WellFramed(b) ==
    /\ FlattenSeq(Envelopes(b)) = b
    /\ \A i \in DOMAIN Envelopes(b) : HasId(Envelopes(b)[i])

\* Where a value ends and the byte after it begins another: what the
\* client's comment calls messages glued together.
GluePoints(b) ==
    {p \in 1..(Len(b) - 1) :
        b[p + 1] = "{" /\ FlattenSeq(Envelopes(SubSeq(b, 1, p))) = SubSeq(b, 1, p)}

\* What the build and the callback can take: a json-c that allows trailing
\* bytes stops at the end of every value; without it the server has no way
\* past a glue point and the client's second parse gets it past one.
Tolerated ==
    \/ build.allow_trailing
    \/ Cardinality(GluePoints(buffer)) <= (IF side = "client" THEN 1 ELSE 0)

\* The dispatcher sees values of the buffer only, each once and in the
\* order of the wire: whatever response_parse_cb and message_process_cb do
\* with start_pos and parse_end_expected, in the second parse of glued
\* messages and after a partial value too, a value is never parsed from the
\* middle of another nor dispatched twice.
DeliveredAreEnvelopes ==
    IsPrefix(dispatched, SelectSeq(Envelopes(buffer), HasId))

\* A receive buffer of concatenated messages is delivered entirely: when
\* the callback returns from a buffer of whole messages that its build can
\* take, it returns RETURN_OK and every message was dispatched.
WholeBufferDelivered ==
    (pc = "done" /\ WellFramed(buffer) /\ Tolerated)
        => ret = RETURN_OK /\ dispatched = Envelopes(buffer)

\* The same of every build: multiple concatenated values in one buffer are
\* all delivered, as the comment of the client's glue branch says.
GluedFramesDelivered ==
    (pc = "done" /\ WellFramed(buffer))
        => ret = RETURN_OK /\ dispatched = Envelopes(buffer)

\* The callback returns: the loops of response_parse_cb and
\* message_process_cb end on every buffer the build can take, so the
\* transport thread gets back to its socket.
ParseReturns ==
    (pc = "loop" /\ (side = "server" \/ Tolerated)) ~> (pc = "done")

=============================================================================
