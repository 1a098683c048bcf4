---------------------------- MODULE MCHalMessage ----------------------------
(***************************************************************************)
(* Module HalMessage for model checking: the files, the name and the       *)
(* values.  The widths are those of the LP64 build divided by 4: an int    *)
(* of 8 bits and a long of 16.                                             *)
(***************************************************************************)
EXTENDS HalMessage

OneName == {Word("Device.DSL.Line.1.Enable")}

\* The words of the sample server, and numbers at the edges of the types:
\* the largest int and the next number, a number past the largest unsigned
\* int, the largest long and the next number.
EdgeValues ==
    {Word("true"), Word("FALSE"), Word("Up"), Numeral(-1),
     Numeral(INT_MAX), Numeral(INT_MAX + 1), Numeral(2^IntBits + 5),
     Numeral(LONG_MAX), Numeral(LONG_MAX + 1)}

\* What the platform answers a name with: the four parameters of the
\* sample server, texts and numbers the types hold, numbers they do not,
\* and a boolean that is none of the four words after one that is.
SomeAnswers ==
    LET Param(type, value) ==
            [name  |-> Word("Device.DSL.Line.1.Enable"), type |-> type,
             value |-> value]
    IN  {<<Param("PARAM_BOOLEAN", Word("true")),
           Param("PARAM_BOOLEAN", Word("true")),
           Param("PARAM_STRING", Word("Up")),
           Param("PARAM_UNSIGNED_INTEGER", Numeral(0))>>,
         <<Param("PARAM_HEXBINARY", Word("Up")),
           Param("PARAM_BASE64", Numeral(-1)),
           Param("PARAM_INTEGER", Numeral(-1)),
           Param("PARAM_LONG", Numeral(LONG_MAX))>>,
         <<Param("PARAM_UNSIGNED_INTEGER", Numeral(INT_MAX + 1)),
           Param("PARAM_UNSIGNED_LONG", Numeral(2^IntBits + 5))>>,
         <<Param("PARAM_LONG", Numeral(LONG_MAX + 1)),
           Param("PARAM_INTEGER", Numeral(INT_MAX + 1))>>,
         <<Param("PARAM_BOOLEAN", Word("FALSE")),
           Param("PARAM_BOOLEAN", Word("Up"))>>}

\* A word, and a number no int holds.
SomeEventValues == {Word("Up"), Numeral(INT_MAX + 1)}

Settings(schema) ==
    [hal_schema_path |-> JString(Word(schema)), server_port |-> JInt(40)]

Schema ==
    [definitions |->
        [schemaVersion |-> [const |-> JString(Word("0.0.1"))],
         moduleName    |-> [const |-> JString(Word("dslhal"))]]]

\* A schema whose moduleName has a type and no const.
Draft ==
    [definitions |->
        [schemaVersion |-> [const |-> JString(Word("0.0.0"))],
         moduleName    |-> [type |-> JString(Word("string"))]]]

\* A configuration as the samples have it, one that fills the buffer of
\* json_hal_load_config, one without the port, one that names a schema
\* without a module name, one that names a schema the validator does not
\* take as a schema, one that names a file that is not there, and one that
\* is no JSON.
SomeFiles ==
    LET File(bytes, json) == [bytes |-> bytes, json |-> json, root |-> TRUE]
    IN  [path \in {"hal.conf", "long.conf", "noport.conf", "draft.conf",
                   "loose.conf", "lost.conf", "text.conf", "schema.json",
                   "draft.json", "loose.json"} |->
            CASE path = "hal.conf"    -> File(80, Settings("schema.json"))
              [] path = "long.conf"   -> File(300, Settings("schema.json"))
              [] path = "noport.conf" ->
                    File(40, [hal_schema_path |-> JString(Word("schema.json"))])
              [] path = "draft.conf"  -> File(80, Settings("draft.json"))
              [] path = "loose.conf"  -> File(80, Settings("loose.json"))
              [] path = "lost.conf"   -> File(80, Settings("none.json"))
              [] path = "text.conf"   -> File(10, NULL)
              [] path = "schema.json" -> File(900, Schema)
              [] path = "draft.json"  -> File(900, Draft)
              [] path = "loose.json"  -> [File(900, Schema) EXCEPT !.root = FALSE]]

\* The three notification types, and a text that is none of them.
ThreeAndOne ==
    {NotificationName[t] : t \in NotificationTypes} \cup {"onChangeAsync"}

SomePaths ==
    {"hal.conf", "long.conf", "noport.conf", "draft.conf", "loose.conf",
     "lost.conf", "text.conf", "none.conf"}

=============================================================================
