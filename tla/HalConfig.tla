------------------------------ MODULE HalConfig ------------------------------
(***************************************************************************)
(* json_hal_load_config of src/json_hal_common.c as an operator: the       *)
(* configuration file names the schema file and the port, the schema file  *)
(* holds the version and the name of the module, and each of the four is   *)
(* copied into *config as soon as it is found, so that a load that fails   *)
(* leaves the fields it got to.                                            *)
(*                                                                         *)
(* Files is the file system: a function from the paths that exist to       *)
(* [bytes, json, root], the size of the file, the object its text is (NULL *)
(* for a text that is not JSON) and whether the validator takes it as a    *)
(* schema.                                                                 *)
(***************************************************************************)
EXTENDS HalParam

CONSTANTS Files, NULL

BUF_256         == 256
HAL_SCHEMA_PATH == "hal_schema_path"
SERVER_PORT     == "server_port"

\* hal_config_t of a static object: all zero.
NoConfig ==
    [hal_module_name |-> Empty, hal_module_version |-> Empty,
     hal_schema_path |-> Empty, server_port_number |-> 0,
     request_timeout_period |-> 0]

\* What the environment decides during one load: whether calloc gives the
\* buffer for the schema, and whether the bytes behind buffer[BUF_256] end
\* the text of a configuration file that filled the buffer.
Environments == [calloc : BOOLEAN, terminated : BOOLEAN]

\* json_object_object_get_ex on what may be NULL.
Has(obj, key) == obj # NULL /\ key \in DOMAIN obj

\* fopen, fread(buffer, sizeof(buffer), 1, fp) and json_tokener_parse.  A
\* file of BUF_256 bytes or more leaves the buffer without a terminator:
\* the parser reads on behind it.
ParsedConfig(config_file, env) ==
    IF /\ config_file \in DOMAIN Files
       /\ Files[config_file].bytes < BUF_256 \/ env.terminated
    THEN Files[config_file].json
    ELSE NULL

\* stat, calloc, fopen, fread(buf, 1, buffer_length, fp) and the parse.
ParsedSchema(path, env) ==
    IF path \in DOMAIN Files /\ env.calloc THEN Files[path].json ELSE NULL

\* definitions.<key>.const of the schema, NULL where one of them is missing.
Const(jparsed, key) ==
    IF /\ Has(jparsed, "definitions")
       /\ Has(jparsed.definitions, key)
       /\ Has(jparsed.definitions[key], "const")
    THEN jparsed.definitions[key].const
    ELSE NULL

\* json_hal_load_config(config_file, config): the return value and *config.
LoadConfig(config_file, config, env) ==
    LET TextOf(found) == IF found = NULL THEN NULL ELSE GetString(found)
        parsed_json == ParsedConfig(config_file, env)
        schema  == IF Has(parsed_json, HAL_SCHEMA_PATH)
                   THEN GetString(parsed_json[HAL_SCHEMA_PATH]) ELSE NULL
        port    == IF schema # NULL /\ Has(parsed_json, SERVER_PORT)
                   THEN GetInt(parsed_json[SERVER_PORT]) ELSE NULL
        jparsed == IF port # NULL THEN ParsedSchema(schema.word, env)
                   ELSE NULL
        version == TextOf(Const(jparsed, "schemaVersion"))
        name    == IF version # NULL THEN TextOf(Const(jparsed, "moduleName"))
                   ELSE NULL
        Copied(field, found) == IF found = NULL THEN config[field] ELSE found
    IN  [rc     |-> IF name = NULL THEN RETURN_ERR ELSE RETURN_OK,
         config |->
            [config EXCEPT
                !.hal_schema_path    = Copied("hal_schema_path", schema),
                !.server_port_number = Copied("server_port_number", port),
                !.hal_module_version = Copied("hal_module_version", version),
                !.hal_module_name    = Copied("hal_module_name", name)]]

=============================================================================
