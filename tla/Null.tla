---------------------------------- MODULE Null ----------------------------------
(* The value of what has none: SQL's NULL, Rust's None.  One constant for the  *)
(* modules that are checked or proved about together.                          *)
EXTENDS Integers

CONSTANT NULL

ASSUME NullAssumption == NULL \notin Int

=================================================================================
