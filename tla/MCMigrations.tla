---------------------------- MODULE MCMigrations ----------------------------
(* The first three of resources/migrations, in their order: two kinds of    *)
(* script, one that may run again and one that may not, and one that needs  *)
(* another.  The fourth, volume-table.sql, is of the kind of the first.     *)
EXTENDS Migrations

MCScripts == <<"initial-tables", "local-registry", "network-tables">>
MCStatements ==
  [s \in {"initial-tables", "local-registry", "network-tables"} |->
     IF s = "initial-tables" THEN 3 ELSE 2]
MCRepeatable == {"initial-tables", "network-tables"}
MCRequires == {<<"local-registry", "initial-tables">>}
=============================================================================
