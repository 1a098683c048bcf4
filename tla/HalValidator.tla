---------------------------- MODULE HalValidator ----------------------------
(***************************************************************************)
(* The schema validator of                                                 *)
(* src/json-schema-validator-wrapper/json_schema_validator_wrapper.cpp,    *)
(* which the server library uses in the build with                         *)
(* JSON_SCHEMA_VALIDATION_ENABLED: json_hal_server_init gives it the       *)
(* schema file, and the dispatcher asks it about every reply a callback    *)
(* has filled.                                                             *)
(*                                                                         *)
(* The global `validator` is NULL, or points to a json_validator that has  *)
(* a root schema ("rooted") or has none ("new").  Whether the library      *)
(* takes a file as a root schema is the field `root` of the file; whether  *)
(* a reply conforms to the schema is the library's to say.                 *)
(***************************************************************************)
EXTENDS HalConfig

\* error_type_t
VALIDATOR_RETURN_OK  == 0
VALIDATOR_RETURN_ERR == 1

PopulateSchema_Uncaught(json_schema_path, v) ==
    [rc |-> VALIDATOR_RETURN_OK, validator |-> v]

\* json_validator_populate_schema(json_schema_path) with `validator` = v:
\* the file is opened and read as JSON, and set_root_schema is given it;
\* each of the three may fail, and the validator stays as it was.
PopulateSchema(json_schema_path, v) ==
    LET path  == json_schema_path.word
        taken == /\ path \in DOMAIN Files
                 /\ Files[path].json # NULL
                 /\ v # NULL
                 /\ Files[path].root
    IN  IF taken THEN [rc |-> VALIDATOR_RETURN_OK, validator |-> "rooted"]
                 ELSE [rc |-> VALIDATOR_RETURN_ERR, validator |-> v]

\* json_validator_init(json_schema_path): a new validator in the place of
\* the one the global pointed to, which is not deleted.
ValidatorInit(json_schema_path) == PopulateSchema(json_schema_path, "new")

\* json_validator_terminate() with `validator` = v: the validator is deleted.
ValidatorTerminate(v) == NULL

\* json_validator_validate_request(json_string) with `validator` = v, for a
\* text that does or does not conform: validate() of a validator without a
\* root schema throws, and nothing catches it; there is no return value.
ValidateRequest(v, conforms) ==
    IF v = "rooted"
    THEN {IF conforms THEN VALIDATOR_RETURN_OK ELSE VALIDATOR_RETURN_ERR}
    ELSE {}

=============================================================================
