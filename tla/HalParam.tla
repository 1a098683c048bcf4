------------------------------ MODULE HalParam ------------------------------
(***************************************************************************)
(* The parameter codec of src/json_hal_common.c as pure operators:         *)
(* json_hal_add_param, which turns a hal_param_t (a name, a type of the    *)
(* enumeration eParamType, a value as TEXT) into an object of the "params" *)
(* array, and json_hal_get_param, which turns such an object back into a   *)
(* hal_param_t.  Between the two the value is a JSON scalar, and the       *)
(* conversions are those of the C library (atoi, atol, "%d", "%ld") and of *)
(* json-c (json_object_new_int, json_object_get_int, ...).                 *)
(*                                                                         *)
(* A text is a record: a decimal numeral with its value n, or a word.  A   *)
(* JSON scalar is a kind and the text of its serialisation.  An object is  *)
(* a function on the keys it has; json_object_object_get_ex is a test of   *)
(* its DOMAIN.                                                             *)
(*                                                                         *)
(* IntBits and LongBits of module ReqId are the widths of int and long;    *)
(* the int64 of json-c is as wide as long (the LP64 build).                *)
(***************************************************************************)
EXTENDS ReqId, FiniteSets, TLC

RETURN_OK  == 0
RETURN_ERR == -1

-----------------------------------------------------------------------------
(* Texts and the conversions of the C library.                             *)

Numeral(n) == [word |-> "#", n |-> n]
Word(w)    == [word |-> w, n |-> 0]
Empty      == Word("")

IsNumeral(t) == t.word = "#"

Clamp(x, lo, hi) == IF x < lo THEN lo ELSE IF x > hi THEN hi ELSE x

\* Conversion to long and to unsigned int: the low bits.
ToLong(x) == ((x - LONG_MIN) % 2^LongBits) + LONG_MIN
ToUInt(x) == x % 2^IntBits

\* atol(value): the number the text starts with, 0 for a text that starts
\* with none.  A number no long can hold is undefined behaviour: the C
\* libraries either saturate (strtol) or keep the low bits.
Atol(t) ==
    IF IsNumeral(t)
    THEN {Clamp(t.n, LONG_MIN, LONG_MAX), ToLong(t.n)}
    ELSE {0}

\* atoi(value): the long above, converted to int.
Atoi(t) == {ToInt(l) : l \in Atol(t)}

-----------------------------------------------------------------------------
(* The scalars of json-c.                                                  *)

JString(t) == [json |-> "string", text |-> t]
JInt(n)    == [json |-> "int", text |-> Numeral(n)]
JBoolean(b) ==
    [json |-> "boolean", text |-> Word(IF b THEN "true" ELSE "false")]

\* json_object_get_string: the content of a string, the serialisation of
\* any other scalar.
GetString(v) == v.text

\* json_object_get_boolean: a number is true when it is not 0, a string
\* when it is not empty.
GetBoolean(v) ==
    CASE v.json = "boolean" -> v.text = Word("true")
      [] v.json = "int"     -> v.text.n # 0
      [] v.json = "string"  -> v.text # Empty

\* json_object_get_int64: a string is read as a number, saturating.
GetInt64(v) ==
    CASE v.json = "boolean" -> IF v.text = Word("true") THEN 1 ELSE 0
      [] v.json = "int"     -> v.text.n
      [] v.json = "string"  ->
            IF IsNumeral(v.text) THEN Clamp(v.text.n, LONG_MIN, LONG_MAX)
                                 ELSE 0

\* json_object_get_int: the int64 saturated to an int32.
GetInt(v) == Clamp(GetInt64(v), INT_MIN, INT_MAX)

-----------------------------------------------------------------------------
(* eParamType and eActionType of src/json_hal_common.h.                    *)

NoType == "0"       \* what memset leaves in hal_param_t.type

TextTypes  == {"PARAM_STRING", "PARAM_HEXBINARY", "PARAM_BASE64"}
ParamTypes ==
    TextTypes \cup {"PARAM_BOOLEAN", "PARAM_INTEGER", "PARAM_UNSIGNED_INTEGER",
                    "PARAM_LONG", "PARAM_UNSIGNED_LONG"}

\* JSON_RPC_FIELD_TYPE_*, the "type" of a parameter on the wire.
TypeName ==
    [t \in ParamTypes |->
        CASE t = "PARAM_STRING"           -> "string"
          [] t = "PARAM_HEXBINARY"        -> "hexBinary"
          [] t = "PARAM_BASE64"           -> "base64"
          [] t = "PARAM_BOOLEAN"          -> "boolean"
          [] t = "PARAM_INTEGER"          -> "int"
          [] t = "PARAM_UNSIGNED_INTEGER" -> "unsignedInt"
          [] t = "PARAM_LONG"             -> "long"
          [] t = "PARAM_UNSIGNED_LONG"    -> "unsignedLong"]

ActionTypes ==
    {"GET_REQUEST_MESSAGE", "GET_RESPONSE_MESSAGE", "SET_REQUEST_MESSAGE",
     "DELETE_REQUEST_MESSAGE"}
WithValue == {"SET_REQUEST_MESSAGE", "GET_RESPONSE_MESSAGE"}

\* hal_param_t after memset(param, 0, sizeof(hal_param_t)).
Blank == [name |-> Empty, type |-> NoType, value |-> Empty]

-----------------------------------------------------------------------------
(* json_hal_add_param.                                                     *)

\* json_object_new_object(): an object without keys.
EmptyObject == [key \in {} |-> key]

\* json_object_object_add: the key is set, a value it had is replaced.
ObjectAdd(obj, key, val) == (key :> val) @@ obj

ArrayPut_AtHead(jmsg, jparam) ==
    [jmsg EXCEPT !.params = <<jparam>> \o @]

\* json_object_array_put_idx(jparams, json_object_array_length(jparams), _)
ArrayPut(jmsg, jparam) ==
    [jmsg EXCEPT !.params = Append(@, jparam)]

Truth == [t \in {Word("true"), Word("TRUE"), Word("false"), Word("FALSE")}
            |-> t \in {Word("true"), Word("TRUE")}]

\* The scalars the switch on param->type may add as "value": none for a
\* boolean that is not one of the four words (the function returns
\* RETURN_ERR), several where the conversion is undefined.  The unsigned
\* types pass through `unsigned int uint_value` and `unsigned ulong_value`,
\* both IntBits wide, and json_object_new_int takes an int32.
Scalars(param) ==
    CASE param.type \in TextTypes -> {JString(param.value)}
      [] param.type = "PARAM_BOOLEAN" ->
            {JBoolean(Truth[t]) : t \in {param.value} \cap DOMAIN Truth}
      [] param.type = "PARAM_INTEGER" ->
            {JInt(i) : i \in Atoi(param.value)}
      [] param.type = "PARAM_UNSIGNED_INTEGER" ->
            {JInt(ToInt(ToUInt(i))) : i \in Atoi(param.value)}
      [] param.type = "PARAM_LONG" ->
            {JInt(l) : l \in Atol(param.value)}
      [] param.type = "PARAM_UNSIGNED_LONG" ->
            {JInt(ToUInt(l)) : l \in Atol(param.value)}

\* The objects the function may append for the parameter: a name alone in
\* a request to get or delete, and for a type the switch has no case for.
Objects(action, param) ==
    LET named == [name |-> param.name]
    IN  IF action \in WithValue /\ param.type \in ParamTypes
        THEN {ObjectAdd(ObjectAdd(named, "type", TypeName[param.type]),
                        "value", v) : v \in Scalars(param)}
        ELSE {named}

\* The outcomes of json_hal_add_param(jreply, action, param): the return
\* value and the message afterwards.
AddParam(jreply, action, param) ==
    IF "params" \notin DOMAIN jreply \/ Objects(action, param) = {}
    THEN {[rc |-> RETURN_ERR, msg |-> jreply]}
    ELSE {[rc |-> RETURN_OK, msg |-> ArrayPut(jreply, jparam)] :
            jparam \in Objects(action, param)}

-----------------------------------------------------------------------------
(* json_hal_get_param.                                                     *)

\* The chain of strncmp(param_type, <name>, strlen(<name>)): of the eight
\* names none starts with another, so the chain finds the type whose name
\* the text is, or none.
TypeOf(name) ==
    IF \E t \in ParamTypes : TypeName[t] = name
    THEN CHOOSE t \in ParamTypes : TypeName[t] = name
    ELSE NoType

\* What snprintf leaves in param->value for a "value" v of the type: an
\* unsigned int is printed with "%d" and an unsigned long with "%ld".
ValueText(type, v) ==
    CASE type \in TextTypes -> GetString(v)
      [] type = "PARAM_BOOLEAN" -> Numeral(IF GetBoolean(v) THEN 1 ELSE 0)
      [] type \in {"PARAM_INTEGER", "PARAM_UNSIGNED_INTEGER"} ->
            Numeral(GetInt(v))
      [] type \in {"PARAM_LONG", "PARAM_UNSIGNED_LONG"} ->
            Numeral(ToLong(GetInt64(v)))
      [] OTHER -> Empty

\* json_object_array_get_idx(jparams, index): NULL past the end, and no key
\* is found in NULL.
ArrayGetIdx(jmsg, index) ==
    IF index + 1 \in DOMAIN jmsg.params THEN jmsg.params[index + 1]
                                       ELSE EmptyObject

\* The type and the value of a parameter that has a "type": the type may
\* be one the chain does not know, a number or a boolean may come without
\* a value, a text may not.
Typed(named, jparam) ==
    LET type == TypeOf(jparam.type)
    IN  CASE "value" \in DOMAIN jparam ->
                [rc    |-> RETURN_OK,
                 param |-> [named EXCEPT
                                !.type = type,
                                !.value = ValueText(type, jparam.value)]]
          [] "value" \notin DOMAIN jparam /\ type \in TextTypes ->
                [rc |-> RETURN_ERR, param |-> named]
          [] OTHER ->
                [rc |-> RETURN_OK, param |-> [named EXCEPT !.type = type]]

\* json_hal_get_param(jmsg, index, action, param): the return value and
\* *param, which is written up to the step that fails.
GetParam(jmsg, index, action) ==
    LET jparam == ArrayGetIdx(jmsg, index)
        named  == [Blank EXCEPT !.name = jparam.name]
    IN  CASE "params" \notin DOMAIN jmsg ->
                [rc |-> RETURN_ERR, param |-> Blank]
          [] "params" \in DOMAIN jmsg /\ "name" \notin DOMAIN jparam ->
                [rc |-> RETURN_ERR, param |-> Blank]
          [] OTHER ->
                IF action \notin WithValue
                THEN [rc |-> RETURN_OK, param |-> named]
                ELSE IF "type" \notin DOMAIN jparam
                     THEN [rc |-> RETURN_ERR, param |-> named]
                     ELSE Typed(named, jparam)

=============================================================================
