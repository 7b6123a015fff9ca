------------------------------ MODULE Options ------------------------------
(***************************************************************************)
(* The option parser of the host programs (common/opt.c).  An entry of the *)
(* program's table points to nothing, to a string literal of the table or  *)
(* to a string of its own on the heap; the field used tells both whether   *)
(* the option was given and whether its string must be freed: 0 for the    *)
(* literal, -1 after opt_set, 1 after the command line.                    *)
(*                                                                         *)
(* The program calls the functions in any order its phase allows.          *)
(* External: getopt_long, which hands out the arguments one by one, and    *)
(* strtol and strtod.  Memory is never exhausted.                          *)
(***************************************************************************)
EXTENDS Integers

CONSTANTS Option,        \* entries of the table, by their short names
          HELP,          \* the short name 'h', an entry of the table or not
          HasArg,        \* entries with required_argument
          Default,       \* Default[o]: the literal in the table, or NULL
          Filter,        \* Filter[o]: the filter of the entry
          Uses,          \* what the program may pass opt_init as its choice
          Text,          \* arguments and values
          NULL,
          strtol(_, _),  \* number at the start of a text in a base, and
          strtod(_),     \* whether anything follows it
          IntSpan,       \* a number cast to int wraps here: 2^32
          Cell,          \* strings the heap has room for
          FREE, LITERAL,
          MaxSets        \* bound: calls of opt_set

Filters == [type : {"none", "str", "int", "num", "hex"}, min : Int, max : Int,
            accept : SUBSET Text]

ASSUME OptionsAssumption ==
  /\ HasArg \subseteq Option
  /\ NULL \notin Text /\ FREE \notin Text
  /\ Default \in [Option -> Text \cup {NULL}]
  /\ Filter \in [Option -> Filters]
  /\ \A o \in Option \ HasArg : Filter[o].type = "none"
  /\ Uses \subseteq {NULL} \cup SUBSET Option
  /\ NULL \notin Cell /\ LITERAL \notin Cell \cup {NULL}
  /\ MaxSets \in Nat /\ IntSpan \in Nat \ {0}

Phases == {"start", "ready", "parsing", "quit", "helped", "failed"}

VARIABLES
  phase,        \* before opt_init, between calls, in opt_parse, or ended
  opts_in_use,  \* the entries the program wants, or NULL for all
  value,        \* value[o]: NULL, LITERAL or a cell
  used,         \* used[o]
  callback,     \* entries with a callback
  heap,         \* heap[c]: the string in the cell, or FREE
  fault,        \* history: free() got what is not an allocated string
  sets          \* calls of opt_set, for the bound

vars == <<phase, opts_in_use, value, used, callback, heap, fault, sets>>

Init ==
  /\ phase = "start"
  /\ opts_in_use = NULL
  /\ value = [o \in Option |-> IF Default[o] = NULL THEN NULL ELSE LITERAL]
  /\ used = [o \in Option |-> 0]
  /\ callback = {}
  /\ heap = [c \in Cell |-> FREE]
  /\ fault = FALSE
  /\ sets = 0

InUse(o) == opts_in_use # NULL => o \in opts_in_use

-----------------------------------------------------------------------------
(***************************************************************************)
(* What the program reads.                                                 *)
(***************************************************************************)
TextAt(o) ==
  IF value[o] = NULL THEN NULL
  ELSE IF value[o] = LITERAL THEN Default[o] ELSE heap[value[o]]

opt_used(o) == InUse(o) /\ used[o] > 0

opt_get(o) == IF InUse(o) THEN TextAt(o) ELSE NULL

AsInt(n) == ((n + IntSpan \div 2) % IntSpan) - IntSpan \div 2

opt_get_int(o) ==
  IF ~InUse(o) \/ (used[o] < 1 /\ value[o] = NULL) THEN 0
  ELSE AsInt(strtol(TextAt(o), 0).number)

-----------------------------------------------------------------------------
opt_init(use) ==
  /\ phase = "start"
  /\ phase' = "ready"
  /\ opts_in_use' = use
  /\ UNCHANGED <<value, used, callback, heap, fault, sets>>

opt_set_callback(o) ==
  /\ phase = "ready"
  /\ InUse(o)
  /\ callback' \in {callback \cup {o}, callback \ {o}}
  /\ UNCHANGED <<phase, opts_in_use, value, used, heap, fault, sets>>

(***************************************************************************)
(* opt_set does not free the string it replaces.                           *)
(***************************************************************************)
opt_set_shy ==   \* a mutant: the entry is left as one with a literal
  \E o \in Option, a \in Text, c \in Cell :
    /\ phase = "ready" /\ InUse(o) /\ sets < MaxSets
    /\ heap[c] = FREE
    /\ heap' = [heap EXCEPT ![c] = a]
    /\ value' = [value EXCEPT ![o] = c]
    /\ sets' = sets + 1
    /\ UNCHANGED <<phase, opts_in_use, used, callback, fault>>

opt_set_given ==   \* a mutant: the option counts as given
  \E o \in Option, a \in Text, c \in Cell :
    /\ phase = "ready" /\ InUse(o) /\ sets < MaxSets
    /\ heap[c] = FREE
    /\ heap' = [heap EXCEPT ![c] = a]
    /\ value' = [value EXCEPT ![o] = c]
    /\ used' = [used EXCEPT ![o] = 1]
    /\ sets' = sets + 1
    /\ UNCHANGED <<phase, opts_in_use, callback, fault>>

opt_set ==
  \E o \in Option, a \in Text, c \in Cell :
    /\ phase = "ready" /\ InUse(o) /\ sets < MaxSets
    /\ heap[c] = FREE
    /\ heap' = [heap EXCEPT ![c] = a]
    /\ value' = [value EXCEPT ![o] = c]
    /\ used' = [used EXCEPT ![o] = -1]
    /\ sets' = sets + 1
    /\ UNCHANGED <<phase, opts_in_use, callback, fault>>

(***************************************************************************)
(* opt_quit frees what used says is owned and forgets every value.         *)
(***************************************************************************)
OwnedByPointer(o) == value[o] # NULL   \* a mutant: used is not looked at

Owned(o) == used[o] # 0 /\ value[o] # NULL

Released == {value[o] : o \in {p \in Option : Owned(p)}}

FreeAll ==
  /\ fault' = (fault \/ \E o \in Option : Owned(o) /\
                  (value[o] = LITERAL \/ heap[value[o]] = FREE))
  /\ heap' = [c \in Cell |-> IF c \in Released THEN FREE ELSE heap[c]]
  /\ value' = [o \in Option |-> NULL]
  /\ opts_in_use' = NULL

opt_quit ==
  /\ phase = "ready"
  /\ phase' = "quit"
  /\ FreeAll
  /\ UNCHANGED <<used, callback, sets>>

-----------------------------------------------------------------------------
(***************************************************************************)
(* opt_parse: one argument after the other until getopt_long has no more.  *)
(***************************************************************************)
opt_parse ==
  /\ phase = "ready"
  /\ phase' = "parsing"
  /\ UNCHANGED <<opts_in_use, value, used, callback, heap, fault, sets>>

ParseEnd ==
  /\ phase = "parsing"
  /\ phase' = "ready"
  /\ UNCHANGED <<opts_in_use, value, used, callback, heap, fault, sets>>

ParseUnknown ==
  /\ phase = "parsing"
  /\ phase' = "failed"
  /\ UNCHANGED <<opts_in_use, value, used, callback, heap, fault, sets>>

(***************************************************************************)
(* opt_parse_single, with the argument a of option o.                      *)
(***************************************************************************)
Argument(o, a) ==
  /\ phase = "parsing"
  /\ InUse(o)
  /\ IF o \in HasArg THEN a \in Text ELSE a = NULL

ShowHelp(o, a) ==
  /\ Argument(o, a)
  /\ o = HELP
  /\ phase' = "helped"
  /\ UNCHANGED <<opts_in_use, value, used, callback, heap, fault, sets>>

Within(o, n) == ~n.more /\ Filter[o].min <= n.number /\ n.number <= Filter[o].max

Passes(o, a) ==
  LET f == Filter[o]
  IN  /\ f.type # "none" /\ f.accept # {} => a \in f.accept
      /\ f.type = "num" => Within(o, strtod(a))
      /\ f.type = "int" => Within(o, strtol(a, 10))
      /\ f.type = "hex" => Within(o, strtol(a, 16))

Reject(o, a) ==
  /\ Argument(o, a)
  /\ o # HELP
  /\ ~Passes(o, a) \/ o \in callback
  /\ phase' = "failed"
  /\ FreeAll
  /\ UNCHANGED <<used, callback, sets>>

(***************************************************************************)
(* The old string is freed if it is owned, the argument copied.            *)
(***************************************************************************)
StoreAlways(o, a) ==   \* a mutant: strdup() also when there is no argument
  /\ Argument(o, a)
  /\ o # HELP
  /\ Passes(o, a)
  /\ \E c \in Cell :
       /\ heap[c] = FREE
       /\ heap' = [heap EXCEPT ![c] = a]
       /\ value' = [value EXCEPT ![o] = c]
  /\ used' = [used EXCEPT ![o] = 1]
  /\ UNCHANGED <<phase, opts_in_use, callback, fault, sets>>

StoreThenFree(o, a) ==   \* a mutant: the string is freed after it was replaced
  /\ Argument(o, a)
  /\ o # HELP
  /\ Passes(o, a)
  /\ \E c \in Cell :
       /\ heap[c] = FREE
       /\ heap' = IF Owned(o) THEN heap ELSE [heap EXCEPT ![c] = a]
       /\ value' = [value EXCEPT ![o] = c]
  /\ used' = [used EXCEPT ![o] = 1]
  /\ UNCHANGED <<phase, opts_in_use, callback, fault, sets>>

Store(o, a) ==
  /\ Argument(o, a)
  /\ o # HELP
  /\ Passes(o, a)
  /\ fault' = (fault \/ (Owned(o) /\ (value[o] = LITERAL \/ heap[value[o]] = FREE)))
  /\ LET left == [c \in Cell |-> IF Owned(o) /\ c = value[o] THEN FREE ELSE heap[c]]
     IN  \/ a = NULL /\ heap' = left /\ value' = [value EXCEPT ![o] = NULL]
         \/ \E c \in Cell :
              /\ a # NULL /\ left[c] = FREE
              /\ heap' = [left EXCEPT ![c] = a]
              /\ value' = [value EXCEPT ![o] = c]
  /\ used' = [used EXCEPT ![o] = 1]
  /\ UNCHANGED <<phase, opts_in_use, callback, sets>>

ParseOption ==
  \E o \in Option, a \in Text \cup {NULL} : ShowHelp(o, a) \/ Reject(o, a) \/ Store(o, a)

Next ==
  \/ \E use \in Uses : opt_init(use)
  \/ \E o \in Option : opt_set_callback(o)
  \/ opt_set \/ opt_quit
  \/ opt_parse \/ ParseOption \/ ParseUnknown \/ ParseEnd

Spec == Init /\ [][Next]_vars

-----------------------------------------------------------------------------
(***************************************************************************)
(* Type invariant.                                                         *)
(***************************************************************************)
TypeOK ==
  /\ phase \in Phases
  /\ opts_in_use \in {NULL} \cup SUBSET Option
  /\ value \in [Option -> {NULL, LITERAL} \cup Cell]
  /\ used \in [Option -> {-1, 0, 1}]
  /\ callback \subseteq Option
  /\ heap \in [Cell -> Text \cup {FREE}]
  /\ fault \in BOOLEAN
  /\ sets \in Nat

(***************************************************************************)
(* Whatever the order of the calls and however often an option is given:   *)
(* only allocated strings are freed, a literal never and nothing twice; no *)
(* option points to a freed string, and no two to the same.                *)
(***************************************************************************)
MemorySafe ==
  /\ ~fault
  /\ \A o \in Option : value[o] \in Cell =>
       /\ heap[value[o]] # FREE
       /\ \A p \in Option : value[p] = value[o] => p = o

(***************************************************************************)
(* Nothing is lost on the command line or at the end: a string that no     *)
(* option points to any more is one that opt_set replaced.                 *)
(***************************************************************************)
Leaked == {c \in Cell : heap[c] # FREE /\ \A o \in Option : value[o] # c}

OnlySetLeaks == [][Leaked' \subseteq Leaked \/ sets' > sets]_vars

(***************************************************************************)
(* What the command line gave has passed the filter of its option, also    *)
(* after other options, repetitions and calls of opt_set.                  *)
(***************************************************************************)
GivenPasses ==
  \A o \in Option : used[o] = 1 /\ value[o] # NULL => Passes(o, TextAt(o))

(***************************************************************************)
(* The parser is an OptionStore: the program reads the last value an       *)
(* option was given, set to, or has in the table.                          *)
(***************************************************************************)
Acceptable(o, a) ==
  IF a = NULL THEN o \notin HasArg ELSE o \in HasArg /\ Passes(o, a)

Kept == INSTANCE OptionStore WITH
  setting <- [o \in Option |-> TextAt(o)],
  given   <- {o \in Option : used[o] = 1},
  status  <- IF phase \in {"start", "ready", "parsing"} THEN "running" ELSE phase

KeepsSettings == Kept!Spec

(***************************************************************************)
(* What the messages of opt.c say of a number out of the range of its      *)
(* filter ("too small value", "too large value"): the program never gets   *)
(* one from the command line.                                              *)
(***************************************************************************)
IntInRange ==
  \A o \in Option :
    used[o] = 1 /\ value[o] # NULL /\ Filter[o].type = "int" =>
      Filter[o].min <= opt_get_int(o) /\ opt_get_int(o) <= Filter[o].max
=============================================================================
