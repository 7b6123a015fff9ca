------------------------------ MODULE MCHttpd ------------------------------
(***************************************************************************)
(* Httpd with two connections and one switch: a browser that toggles it,   *)
(* reads it, by a number that a byte cannot tell from 0, asks for the      *)
(* count of switches and for a file.                                       *)
(***************************************************************************)
EXTENDS Httpd

Ask(method, url, n, op) == [method |-> method, url |-> url, button |-> n, op |-> op]

MCRequest ==
  {Ask("GET", "button", 2, "none"), Ask("GET", "count", 0, "none"),
   Ask("GET", "file", 0, "none"), Ask("PUT", "button", 0, "toggle")}
=============================================================================
