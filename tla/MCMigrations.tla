---------------------------- MODULE MCMigrations ----------------------------
(* Three connections (a server's, its worker's, a CLI's) open one database     *)
(* whose four migration files alternate between the two kinds; every earlier   *)
(* release's version is a starting point.                                      *)
EXTENDS Migrations

CONSTANTS p1, p2, p3

MCOpener == {p1, p2, p3}
MCOnce   == {2, 4}
=============================================================================
