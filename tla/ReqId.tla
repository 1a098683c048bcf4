------------------------------- MODULE ReqId -------------------------------
(***************************************************************************)
(* The request identifier of the client, src/json_hal_client.c, as pure    *)
(* operators: the counter behind get_req_id, the text it is printed to in  *)
(* json_hal_client_get_request_header ("%8.8d", DECIMAL digits), and the   *)
(* number that text is read back as by json_hal_client_send_and_get_reply  *)
(* and response_parse_cb (strtol base 16, then a cast to int).  The        *)
(* pending table is keyed by that last number.                             *)
(*                                                                         *)
(* IntBits and LongBits are the widths of int and long of the build (32    *)
(* and 32 or 64): the checker's own integers are 32 bits wide, so models   *)
(* scale both down together with the field width MinDigits and the start   *)
(* value; the arithmetic is the same at every width.                       *)
(***************************************************************************)
EXTENDS Integers, Sequences

CONSTANTS
    IntBits,                    \* width of int
    LongBits,                   \* width of long, the result type of strtol
    MinDigits,                  \* the precision of "%8.8d"
    DEFAULT_SEQ_START_NUMBER

INT_MAX  == 2^(IntBits - 1) - 1
INT_MIN  == -(2^(IntBits - 1))
LONG_MAX == 2^(LongBits - 1) - 1
LONG_MIN == -(2^(LongBits - 1))

\* Conversion to int: the low IntBits bits, two's complement.
ToInt(x) == ((x - INT_MIN) % 2^IntBits) + INT_MIN

NextReqId_NoWrap(g) == g + 1

\* g_req_id++ followed by the reset to DEFAULT_SEQ_START_NUMBER, which is
\* guarded by an int being greater than INT_MAX.  The increment of INT_MAX
\* is a signed overflow; the builds of this code wrap it.
NextReqId(g) ==
    LET inc == ToInt(g + 1)
    IN  IF inc > INT_MAX THEN DEFAULT_SEQ_START_NUMBER ELSE inc

RECURSIVE Digits(_)
\* The decimal digits of n >= 0, most significant first.
Digits(n) == IF n < 10 THEN <<n>> ELSE Append(Digits(n \div 10), n % 10)

ZeroPad(ds) == [i \in 1..(MinDigits - Len(ds)) |-> 0] \o ds

\* sprintf(id, "%8.8d", req_id): a sign, then at least MinDigits digits.
FormatReqId(n) ==
    [neg |-> n < 0, digits |-> ZeroPad(Digits(IF n < 0 THEN -n ELSE n))]

\* The digits read in base 16, most significant first.
HexValue(ds) ==
    LET upTo[i \in 0..Len(ds)] ==
            IF i = 0 THEN 0 ELSE 16 * upTo[i - 1] + ds[i]
    IN  upTo[Len(ds)]

StrToL_Narrow(str) ==
    LET v == IF str.neg THEN -HexValue(str.digits) ELSE HexValue(str.digits)
    IN  IF v > INT_MAX THEN INT_MAX ELSE IF v < INT_MIN THEN INT_MIN ELSE v

\* strtol(str, NULL, 16): out-of-range values saturate.
StrToL(str) ==
    LET v == IF str.neg THEN -HexValue(str.digits) ELSE HexValue(str.digits)
    IN  IF v > LONG_MAX THEN LONG_MAX ELSE IF v < LONG_MIN THEN LONG_MIN ELSE v

\* (int)strtol(json_object_get_string(reqId), NULL, 16)
ParseReqId(str) == ToInt(StrToL(str))

\* The key under which the request with identifier n is tracked and under
\* which its reply is looked up.
SequenceOf(n) == ParseReqId(FormatReqId(n))

=============================================================================
