--------------------------- MODULE MCBazaarCatalog ---------------------------
(* A small catalog for TLC. *)
EXTENDS BazaarCatalog

Weather == [type |-> "http", payTo |-> "p", scheme |-> "exact", network |-> "n", extensions |-> {"bazaar"},
            words |-> {"weather"}]
Tool == [type |-> "mcp", payTo |-> "p", scheme |-> "exact", network |-> "n", extensions |-> {},
         words |-> {"weather", "tool"}]

Items == {Weather, Tool}

Queries == {[type |-> "http", payTo |-> "any", scheme |-> "exact", network |-> "n",
             extension |-> "bazaar", needle |-> "weather"]}
=============================================================================
