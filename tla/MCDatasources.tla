--------------------------- MODULE MCDatasources ---------------------------
(* Datasources on a small instance.                                        *)
EXTENDS Datasources

=============================================================================
