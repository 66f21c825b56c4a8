------------------------------ MODULE MCCatalog ------------------------------
EXTENDS Catalog

MCMixes == {{"sku", "product"}, {"sku", "config"}, {"product", "config"},
            {"status", "stats"}, {"config", "stats"}, {"product", "status"}}
=============================================================================
