--------------------------- MODULE MCProvisioning ---------------------------
EXTENDS Provisioning, TLC

CONSTANTS d1, d2, d3, j1, j2, root, shop, phone1, phone2, pw1, pw2, main, annex, code1

account(name, phone, password) == [name |-> name, phone |-> phone, password |-> password]
config(store, admin, merchant) == [store |-> store, code |-> code1, admin |-> admin, merchant |-> merchant]

(* The first, the phones swapped, and a second store with the code and the passwords swapped. *)
MCConfigs ==
    {config(main, account(root, phone1, pw1), account(shop, phone2, pw2)),
     config(main, account(root, phone2, pw1), account(shop, phone1, pw2)),
     config(annex, account(root, phone2, pw2), account(shop, phone1, pw1))}

none == [m \in Migrations |-> "none"]
applied == [m \in Migrations |-> "applied"]
(* Every set of tables; where the baseline is recorded, its tables are there. *)
MCDatabases ==
    {d \in [tables: SUBSET (Everything \cup {"foreign"}), columns: BOOLEAN,
            record: {none, [none EXCEPT !["baseline"] = "started"], [none EXCEPT !["baseline"] = "applied"], applied}] :
        d.record["baseline"] = "applied" => Core \subseteq d.tables /\ d.columns}

Production ==
    [NODE_ENV |-> "production", STORE_MODE |-> "single", PRIMARY_STORE_ID |-> "one", MERCHANT_STORE_IDS |-> "same",
     SUPER_ADMIN |-> "whole", MERCHANT |-> "whole", STORE_CODE |-> "code", JWT |-> "strong", PEPPER |-> "strong",
     SAME_SECRETS |-> FALSE, DATABASE |-> "mysql", DATABASE_MODE |-> "local", CORS |-> "https", TRUST_PROXY_HOPS |-> "1",
     TTL |-> "default", COOKIE_SECURE |-> "true", SMS |-> "webhook", OAUTH |-> "whole", CONNECTORS |-> "none", PAYMENT |-> "https",
     OTHERS |-> "legal", ALLOW_DEMO_SEED |-> FALSE]
Development ==
    [Production EXCEPT !.NODE_ENV = "development", !.PRIMARY_STORE_ID = "demo", !.DATABASE_MODE = "none", !.CORS = "none",
                       !.TRUST_PROXY_HOPS = "none", !.COOKIE_SECURE = "false", !.SMS = "console", !.OAUTH = "none",
                       !.SUPER_ADMIN = "none", !.MERCHANT = "none", !.MERCHANT_STORE_IDS = "none", !.ALLOW_DEMO_SEED = TRUE]
MCEnvironments ==
    {Production, Development, [Development EXCEPT !.ALLOW_DEMO_SEED = FALSE]}
    \cup {SyncedWith([Development EXCEPT !.JWT = secret, !.PEPPER = secret]) : secret \in Secret}
    \cup {[Production EXCEPT !.STORE_MODE = mode, !.PRIMARY_STORE_ID = store, !.MERCHANT_STORE_IDS = stores,
                              !.SUPER_ADMIN = admin, !.MERCHANT = merchant] :
             mode \in {"none", "single", "multi"}, store \in {"none", "one", "padded", "two", "long", "demo"},
             stores \in {"none", "same", "other"}, admin \in {"none", "partial", "weak", "whole"},
             merchant \in {"none", "partial", "whole", "same as admin"}}
=============================================================================
