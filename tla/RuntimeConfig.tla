---------------------------- MODULE RuntimeConfig ----------------------------
(***************************************************************************)
(* The environment of the programs, each variable by the class of values   *)
(* the validations tell apart, and what the server, the bootstrap and the  *)
(* demo seed accept. "none" is an unset or empty variable.                 *)
(***************************************************************************)
EXTENDS Naturals, FiniteSets

Secret == {"none", "short", "example", "strong"}
Settings ==
    [NODE_ENV: {"none", "development", "test", "production"}, STORE_MODE: {"none", "single", "multi"},
     PRIMARY_STORE_ID: {"none", "one", "padded", "two", "long", "demo"},
     MERCHANT_STORE_IDS: {"none", "same", "other"},
     SUPER_ADMIN: {"none", "partial", "weak", "whole"}, MERCHANT: {"none", "partial", "weak", "whole", "same as admin"},
     STORE_CODE: {"none", "code", "demo", "malformed"},
     JWT: Secret, PEPPER: Secret, SAME_SECRETS: BOOLEAN,
     DATABASE: {"none", "malformed", "remote without TLS", "mysql"}, DATABASE_MODE: {"none", "local", "external", "other"},
     CORS: {"none", "insecure", "https"}, TRUST_PROXY_HOPS: {"none", "1", "2", "many"}, TTL: {"none", "default", "other", "zero"},
     COOKIE_SECURE: {"none", "true", "false", "other"}, SMS: {"console", "webhook", "weak webhook"},
     OAUTH: {"none", "insecure", "whole"}, CONNECTORS: {"none", "partial", "http", "https"}, PAYMENT: {"none", "partial", "http", "https"},
     OTHERS: {"legal", "illegal"}, \* PORT, SWAGGER_ENABLED
     ALLOW_DEMO_SEED: BOOLEAN]

Broken(rules) == {r[1] : r \in {rule \in rules : rule[2]}}

-----------------------------------------------------------------------------
(* The server: every broken rule is named. *)
validateStoreEnv(e) ==
    Broken({<<"mode required", e.NODE_ENV = "production" /\ e.STORE_MODE = "none">>,
            <<"mode", e.STORE_MODE = "multi">>,
            <<"store required", e.NODE_ENV # "test" /\ e.PRIMARY_STORE_ID = "none">>,
            <<"store padded", e.PRIMARY_STORE_ID = "padded">>,
            <<"store too long", e.PRIMARY_STORE_ID = "long">>,
            <<"two stores", e.PRIMARY_STORE_ID = "two">>,
            <<"merchant's store", e.PRIMARY_STORE_ID # "none" /\ e.MERCHANT_STORE_IDS = "other">>})

(* A group of bootstrap variables is whole or absent; the merchant's has its stores. *)
validateBootstrapAccountGroups(e) ==
    Broken({<<"admin", e.SUPER_ADMIN = "partial">>,
            <<"merchant", e.MERCHANT = "partial" \/ (e.MERCHANT = "none") # (e.MERCHANT_STORE_IDS = "none")>>})

validateSecret(e) ==
    IF e.NODE_ENV = "test" THEN {} ELSE Broken({<<"jwt", e.JWT # "strong">>, <<"pepper", e.PEPPER # "strong">>})

validateProductionDatabase(e) ==
    Broken({<<"database mode required", e.DATABASE_MODE = "none">>,
            <<"database", e.DATABASE_MODE \in {"local", "external"} /\ e.DATABASE \in {"malformed", "remote without TLS"}>>})

validateCorsOrigins(e) == Broken({<<"origins", e.CORS # "https">>})

(* validateExpectedValue, validateRequiredValue *)
FixedAndRequired(e) ==
    Broken({<<"database required", e.DATABASE = "none">>, <<"ttl", e.TTL # "default">>, <<"sms", e.SMS # "webhook">>,
            <<"oauth", e.OAUTH # "whole">>})

validateProduction(e) ==
    IF e.NODE_ENV # "production" THEN {}
    ELSE validateProductionDatabase(e) \cup validateCorsOrigins(e) \cup FixedAndRequired(e) \cup
         Broken({<<"proxy", e.TRUST_PROXY_HOPS # "1">>, <<"secrets", e.SAME_SECRETS>>, <<"cookie", e.COOKIE_SECURE # "true">>})

validateIntegrationEnv(e) ==
    Broken({<<"connector", e.CONNECTORS = "partial">>, <<"connector https", e.CONNECTORS = "http" /\ e.NODE_ENV = "production">>})
validatePaymentConnectorEnv(e) ==
    Broken({<<"payment", e.PAYMENT = "partial">>, <<"payment https", e.PAYMENT = "http" /\ e.NODE_ENV = "production">>})

validateEnv(e) ==
    validateStoreEnv(e) \cup validateSecret(e) \cup validateBootstrapAccountGroups(e) \cup validateIntegrationEnv(e) \cup validatePaymentConnectorEnv(e) \cup validateProduction(e)
    \cup Broken({<<"environment", e.NODE_ENV = "none">>, <<"hops", e.TRUST_PROXY_HOPS = "many">>,
                 <<"database url", e.DATABASE = "malformed">>, <<"database mode", e.DATABASE_MODE = "other">>,
                 <<"ttl positive", e.TTL = "zero">>, <<"cookie value", e.COOKIE_SECURE = "other">>, <<"others", e.OTHERS = "illegal">>})

-----------------------------------------------------------------------------
(* The bootstrap. Mutant: the store's id is taken as it is. *)
readAnyStore(e) ==
    /\ e.NODE_ENV = "production" /\ ~e.ALLOW_DEMO_SEED /\ e.STORE_MODE = "single"
    /\ e.PRIMARY_STORE_ID \notin {"none", "demo"} /\ e.STORE_CODE = "code"
readProductionStoreConfig(e) ==
    /\ e.NODE_ENV = "production" /\ ~e.ALLOW_DEMO_SEED /\ e.STORE_MODE = "single"
    /\ e.PRIMARY_STORE_ID = "one" /\ e.STORE_CODE = "code"

validateBootstrapAccountsConfig(e) ==
    /\ e.STORE_MODE = "single" /\ e.PRIMARY_STORE_ID # "none" /\ e.MERCHANT_STORE_IDS = "same"
    /\ e.SUPER_ADMIN = "whole" /\ e.MERCHANT = "whole"

BootstrapAccepts(e) == readProductionStoreConfig(e) /\ validateBootstrapAccountsConfig(e)

assertDemoSeedAllowed(e) == e.NODE_ENV \in {"development", "test"} /\ e.ALLOW_DEMO_SEED

(* db:sync-local-config keeps what is set and fills in the rest. *)
SyncedWith(e) ==
    LET or(value, default) == IF value = "none" THEN default ELSE value
    IN [e EXCEPT !.NODE_ENV = or(@, "development"), !.STORE_MODE = or(@, "single"), !.PRIMARY_STORE_ID = or(@, "demo"),
                 !.JWT = or(@, "example"), !.PEPPER = or(@, "example"), !.TTL = or(@, "default"),
                 !.COOKIE_SECURE = or(@, "false"), !.DATABASE = "mysql"]
=============================================================================
