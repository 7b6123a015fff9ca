---------------------------- MODULE OptionStore ----------------------------
(***************************************************************************)
(* What the option parser promises a program: every option has one         *)
(* setting, the last one it was given or set to, its default before that;  *)
(* the program knows which options were given; what is refused ends it.    *)
(***************************************************************************)
CONSTANTS Option, Text, NULL,
          Default,          \* Default[o]: the setting in the program's table
          Acceptable(_, _)  \* what the command line may give an option

VARIABLES
  setting,   \* setting[o]: a text, or NULL
  given,     \* options that were given on the command line
  status     \* "running", or how the program ended

vars == <<setting, given, status>>

Nothing == [o \in Option |-> NULL]

Init ==
  /\ setting = Default
  /\ given = {}
  /\ status = "running"

Set(o, a) ==
  /\ status = "running"
  /\ setting' = [setting EXCEPT ![o] = a]
  /\ given' = given \ {o}
  /\ UNCHANGED status

Give(o, a) ==
  /\ status = "running"
  /\ Acceptable(o, a)
  /\ setting' = [setting EXCEPT ![o] = a]
  /\ given' = given \cup {o}
  /\ UNCHANGED status

Refuse ==
  /\ status = "running"
  /\ status' = "failed"
  /\ setting' \in {setting, Nothing}
  /\ UNCHANGED given

Help ==
  /\ status = "running"
  /\ status' = "helped"
  /\ UNCHANGED <<setting, given>>

Forget ==
  /\ status = "running"
  /\ status' = "quit"
  /\ setting' = Nothing
  /\ UNCHANGED given

Next ==
  \/ \E o \in Option, a \in Text : Set(o, a)
  \/ \E o \in Option, a \in Text \cup {NULL} : Give(o, a)
  \/ Refuse \/ Help \/ Forget

Spec == Init /\ [][Next]_vars
=============================================================================
