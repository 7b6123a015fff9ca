----------------------------- MODULE MCOptions -----------------------------
(***************************************************************************)
(* The table of proxy/nrf24l01p-mqtt/main.c: host and port, whose filter is *)
(* the one of the source, a list of hosts to choose from, a flag (what the *)
(* help entry is without a short name) and a help entry with one.          *)
(* strtol and strtod are given for the texts that occur; IntSpan is narrow *)
(* for TLC's integers, but an int still holds their numbers in base 0.     *)
(***************************************************************************)
EXTENDS Options, TLC

CONSTANTS host, port, flag, help

MCDefault == [o \in Option |-> CASE o = host -> "localhost" [] o = port -> "1883" [] OTHER -> NULL]

MCFilter ==
  [o \in Option |->
     IF o = port THEN [type |-> "int", min |-> 1, max |-> 65535, accept |-> {}]
     ELSE IF o = host THEN [type |-> "str", min |-> 0, max |-> 0,
                            accept |-> {"localhost", "0099"}]
     ELSE [type |-> "none", min |-> 0, max |-> 0, accept |-> {}]]

MCSymmetry == Permutations(Cell)

MCUses == {NULL, {port, help}}

(***************************************************************************)
(* A leading zero means octal in base 0: "0099" is 99 in base 10 and 0,    *)
(* followed by "99", in base 0.                                            *)
(***************************************************************************)
MCstrtol(text, base) ==
  CASE text = "0099"  -> IF base = 0 THEN [number |-> 0, more |-> TRUE]
                         ELSE [number |-> IF base = 10 THEN 99 ELSE 153, more |-> FALSE]
    [] text = "70000" -> [number |-> IF base = 16 THEN 458752 ELSE 70000, more |-> FALSE]
    [] text = "1883"  -> [number |-> IF base = 16 THEN 6275 ELSE 1883, more |-> FALSE]
    [] OTHER          -> [number |-> 0, more |-> TRUE]

MCstrtod(text) == MCstrtol(text, 10)
=============================================================================
