-------------------------- MODULE OptionsTheorems --------------------------
(***************************************************************************)
(* Whatever the table, the arguments and the order of the calls: the       *)
(* parser frees only what it allocated and never reads what it freed, what *)
(* was given has passed its filter, and the program sees an OptionStore.   *)
(***************************************************************************)
EXTENDS Options, TLAPS

(***************************************************************************)
(* What the field used says about the owner of the value.                  *)
(***************************************************************************)
Ownership ==
  \A o \in Option :
    /\ used[o] = 0 => value[o] \notin Cell
    /\ used[o] # 0 => value[o] # LITERAL

IInv == TypeOK /\ MemorySafe /\ Ownership /\ GivenPasses

LEMMA Names ==
  /\ NULL \notin Text /\ FREE \notin Text
  /\ NULL \notin Cell /\ LITERAL \notin Cell /\ LITERAL # NULL
  /\ \A o \in Option : Default[o] \in Text \cup {NULL}
  BY OptionsAssumption DEF OptionsAssumption

LEMMA OptionsInit == Init => IInv
<1> SUFFICES ASSUME Init PROVE IInv
  OBVIOUS
<1>1. TypeOK
  BY OptionsAssumption DEF OptionsAssumption, Init, TypeOK, Phases
<1>2. \A o \in Option : value[o] \notin Cell /\ used[o] = 0
  BY Names DEF Init
<1>3. MemorySafe /\ Ownership /\ GivenPasses
  BY <1>2 DEF Init, MemorySafe, Ownership, GivenPasses
<1>4. QED
  BY <1>1, <1>3 DEF IInv

-----------------------------------------------------------------------------
(***************************************************************************)
(* Steps that touch neither values nor heap.                               *)
(***************************************************************************)
LEMMA QuietStep ==
  ASSUME IInv, UNCHANGED <<value, used, heap, fault, sets>>,
         phase' \in Phases, callback' \subseteq Option,
         opts_in_use' \in {NULL} \cup SUBSET Option
  PROVE  IInv'
<1>1. TypeOK'
  BY DEF IInv, TypeOK
<1>2. MemorySafe' /\ Ownership'
  BY DEF IInv, MemorySafe, Ownership
<1>3. GivenPasses'
  BY DEF IInv, GivenPasses, TextAt
<1>4. QED
  BY <1>1, <1>2, <1>3 DEF IInv

(***************************************************************************)
(* Replacing the value of one option by a fresh cell, after its old cell   *)
(* may have been freed, or by nothing: the other texts stay as they are.   *)
(***************************************************************************)
Replaces(o, u, free) ==
  LET left == [c \in Cell |-> IF free /\ c = value[o] THEN FREE ELSE heap[c]]
  IN  \E a \in Text \cup {NULL} :
        /\ \/ a = NULL /\ heap' = left /\ value' = [value EXCEPT ![o] = NULL]
           \/ \E c \in Cell :
                /\ a # NULL /\ left[c] = FREE
                /\ heap' = [left EXCEPT ![c] = a]
                /\ value' = [value EXCEPT ![o] = c]
        /\ used' = [used EXCEPT ![o] = u]
        /\ fault' = FALSE
        /\ u = 1 /\ a # NULL => Passes(o, a)

LEMMA ReplaceStep ==
  ASSUME IInv, NEW o \in Option, NEW u \in {-1, 1}, NEW free \in BOOLEAN,
         Replaces(o, u, free),
         phase' \in Phases, callback' = callback, opts_in_use' = opts_in_use,
         sets' \in Nat
  PROVE  IInv' /\ \A p \in Option \ {o} : TextAt(p)' = TextAt(p)
<1> DEFINE left == [c \in Cell |-> IF free /\ c = value[o] THEN FREE ELSE heap[c]]
<1>1. PICK a \in Text \cup {NULL} :
        /\ \/ a = NULL /\ heap' = left /\ value' = [value EXCEPT ![o] = NULL]
           \/ \E c \in Cell :
                /\ a # NULL /\ left[c] = FREE
                /\ heap' = [left EXCEPT ![c] = a]
                /\ value' = [value EXCEPT ![o] = c]
        /\ used' = [used EXCEPT ![o] = u]
        /\ fault' = FALSE
        /\ u = 1 /\ a # NULL => Passes(o, a)
  BY DEF Replaces
<1>2. /\ value \in [Option -> {NULL, LITERAL} \cup Cell]
      /\ used \in [Option -> {-1, 0, 1}]
      /\ heap \in [Cell -> Text \cup {FREE}]
  BY DEF IInv, TypeOK
<1>3. \A p \in Option : value[p] \in Cell =>
        /\ heap[value[p]] # FREE
        /\ \A q \in Option : value[q] = value[p] => q = p
  BY DEF IInv, MemorySafe
<1>4. left \in [Cell -> Text \cup {FREE}]
  BY <1>2
<1>5. \A p \in Option \ {o} : value'[p] = value[p] /\ used'[p] = used[p]
  BY <1>1, <1>2
<1>6. used'[o] = u
  BY <1>1, <1>2
<1>7. \A p \in Option \ {o} : value[p] \in Cell => heap'[value[p]] = heap[value[p]]
  <2> SUFFICES ASSUME NEW p \in Option \ {o}, value[p] \in Cell
               PROVE  heap'[value[p]] = heap[value[p]]
    OBVIOUS
  <2>1. value[p] # value[o] /\ heap[value[p]] # FREE
    BY <1>3
  <2>2. left[value[p]] = heap[value[p]]
    BY <2>1
  <2>3. QED
    BY <1>1, <1>4, <2>1, <2>2
<1>8. \A p \in Option \ {o} : TextAt(p)' = TextAt(p)
  BY <1>2, <1>5, <1>7 DEF TextAt
<1>9. CASE a = NULL /\ heap' = left /\ value' = [value EXCEPT ![o] = NULL]
  <2>1. value'[o] = NULL
    BY <1>2, <1>9
  <2>2. TypeOK'
    BY <1>1, <1>2, <1>4, <1>9 DEF IInv, TypeOK
  <2>3. MemorySafe'
    BY <1>1, <1>3, <1>5, <1>7, <2>1, Names DEF MemorySafe
  <2>4. Ownership'
    BY <1>5, <1>6, <2>1, Names DEF IInv, Ownership
  <2>5. GivenPasses'
    BY <1>5, <1>8, <2>1 DEF IInv, GivenPasses
  <2>6. QED
    BY <1>8, <2>2, <2>3, <2>4, <2>5 DEF IInv
<1>10. CASE \E c \in Cell : /\ a # NULL /\ left[c] = FREE
                            /\ heap' = [left EXCEPT ![c] = a]
                            /\ value' = [value EXCEPT ![o] = c]
  <2>1. PICK c \in Cell : /\ a # NULL /\ left[c] = FREE
                          /\ heap' = [left EXCEPT ![c] = a]
                          /\ value' = [value EXCEPT ![o] = c]
    BY <1>10
  <2>2. value'[o] = c /\ heap'[c] = a /\ a \in Text /\ a # FREE
    BY <1>1, <1>2, <1>4, <2>1, Names
  <2>3. \A p \in Option \ {o} : value[p] # c
    <3> SUFFICES ASSUME NEW p \in Option \ {o}, value[p] = c PROVE FALSE
      OBVIOUS
    <3>1. heap[c] # FREE /\ c # value[o]
      BY <1>3
    <3>2. QED
      BY <2>1, <3>1
  <2>4. TypeOK'
    BY <1>1, <1>2, <1>4, <2>1, <2>2 DEF IInv, TypeOK
  <2>5. MemorySafe'
    BY <1>1, <1>3, <1>5, <1>7, <2>2, <2>3 DEF MemorySafe
  <2>6. Ownership'
    BY <1>5, <1>6, <2>2, Names DEF IInv, Ownership
  <2>7. GivenPasses'
    <3>1. TextAt(o)' = a
      BY <2>2, Names DEF TextAt
    <3>2. QED
      BY <1>1, <1>5, <1>6, <1>8, <2>1, <3>1 DEF IInv, GivenPasses
  <2>8. QED
    BY <1>8, <2>4, <2>5, <2>6, <2>7 DEF IInv
<1>11. QED
  BY <1>1, <1>9, <1>10

LEMMA FreeStep ==
  ASSUME IInv, FreeAll, phase' \in Phases, UNCHANGED <<used, callback, sets>>
  PROVE  IInv' /\ \A o \in Option : TextAt(o)' = NULL
<1>1. \A o \in Option : value'[o] = NULL
  BY DEF FreeAll
<1>2. ~fault'
  <2>1. \A o \in Option : Owned(o) => value[o] # LITERAL /\ heap[value[o]] # FREE
    BY Names DEF IInv, TypeOK, Ownership, MemorySafe, Owned
  <2>2. QED
    BY <2>1 DEF FreeAll, IInv, MemorySafe
<1>3. TypeOK'
  BY <1>2 DEF FreeAll, IInv, TypeOK
<1>4. MemorySafe' /\ Ownership' /\ GivenPasses'
  BY <1>1, <1>2, Names DEF MemorySafe, Ownership, GivenPasses
<1>5. QED
  BY <1>1, <1>3, <1>4 DEF IInv, TextAt

-----------------------------------------------------------------------------
LEMMA SetReplaces ==
  ASSUME IInv, opt_set
  PROVE  \E o \in Option, a \in Text :
           /\ Replaces(o, -1, FALSE)
           /\ TextAt(o)' = a
           /\ used' = [used EXCEPT ![o] = -1]
<1>1. PICK o \in Option, a \in Text, c \in Cell :
        /\ heap[c] = FREE
        /\ heap' = [heap EXCEPT ![c] = a]
        /\ value' = [value EXCEPT ![o] = c]
        /\ used' = [used EXCEPT ![o] = -1]
        /\ fault' = fault
  BY DEF opt_set
<1>2. heap \in [Cell -> Text \cup {FREE}] /\ value \in [Option -> {NULL, LITERAL} \cup Cell]
  BY DEF IInv, TypeOK
<1> DEFINE left == [d \in Cell |-> IF FALSE /\ d = value[o] THEN FREE ELSE heap[d]]
<1>3. heap = left
  BY <1>2
<1>4. a # NULL /\ fault' = FALSE
  BY <1>1, Names DEF IInv, TypeOK, MemorySafe
<1>5. Replaces(o, -1, FALSE)
  <2>1. left[c] = FREE /\ heap' = [left EXCEPT ![c] = a]
    BY <1>1, <1>3
  <2>2. \E d \in Cell : /\ a # NULL /\ left[d] = FREE
                       /\ heap' = [left EXCEPT ![d] = a]
                       /\ value' = [value EXCEPT ![o] = d]
    BY <1>1, <1>4, <2>1
  <2>3. -1 = 1 /\ a # NULL => Passes(o, a)
    OBVIOUS
  <2>4. a \in Text \cup {NULL}
    OBVIOUS
  <2> HIDE DEF left
  <2>5. QED
    BY <1>1, <1>4, <2>2, <2>3, <2>4 DEF Replaces, left
<1>6. TextAt(o)' = a
  BY <1>1, <1>2, Names DEF TextAt
<1>7. QED
  BY <1>1, <1>5, <1>6

LEMMA StoreReplaces ==
  ASSUME IInv, NEW o \in Option, NEW a \in Text \cup {NULL}, Store(o, a)
  PROVE  Replaces(o, 1, Owned(o)) /\ TextAt(o)' = a
<1> DEFINE left == [c \in Cell |-> IF Owned(o) /\ c = value[o] THEN FREE ELSE heap[c]]
<1>1. /\ Passes(o, a)
      /\ fault' = (fault \/ (Owned(o) /\ (value[o] = LITERAL \/ heap[value[o]] = FREE)))
      /\ \/ a = NULL /\ heap' = left /\ value' = [value EXCEPT ![o] = NULL]
         \/ \E c \in Cell :
              /\ a # NULL /\ left[c] = FREE
              /\ heap' = [left EXCEPT ![c] = a]
              /\ value' = [value EXCEPT ![o] = c]
      /\ used' = [used EXCEPT ![o] = 1]
  BY DEF Store
<1>2. heap \in [Cell -> Text \cup {FREE}] /\ value \in [Option -> {NULL, LITERAL} \cup Cell]
  BY DEF IInv, TypeOK
<1>3. fault' = FALSE
  <2>1. Owned(o) => value[o] # LITERAL /\ heap[value[o]] # FREE
    BY <1>2, Names DEF IInv, Ownership, MemorySafe, Owned
  <2>2. QED
    BY <1>1, <2>1 DEF IInv, TypeOK, MemorySafe
<1>4. Replaces(o, 1, Owned(o))
  BY <1>1, <1>3 DEF Replaces
<1>5. TextAt(o)' = a
  <2>1. left \in [Cell -> Text \cup {FREE}]
    BY <1>2
  <2>2. CASE a = NULL /\ value' = [value EXCEPT ![o] = NULL]
    BY <1>2, <2>2 DEF TextAt
  <2>3. CASE \E c \in Cell : /\ heap' = [left EXCEPT ![c] = a]
                             /\ value' = [value EXCEPT ![o] = c]
    BY <1>2, <2>1, <2>3, Names DEF TextAt
  <2>4. QED
    BY <1>1, <2>2, <2>3
<1>6. QED
  BY <1>4, <1>5

(***************************************************************************)
(* Every step preserves the invariant.                                     *)
(***************************************************************************)
LEMMA OptionsStep == IInv /\ [Next]_vars => IInv'
<1> SUFFICES ASSUME IInv, [Next]_vars PROVE IInv'
  OBVIOUS
<1>0. TypeOK
  BY DEF IInv
<1>1. ASSUME NEW use \in Uses, opt_init(use) PROVE IInv'
  BY <1>0, <1>1, QuietStep, OptionsAssumption
  DEF OptionsAssumption, opt_init, TypeOK, Phases
<1>2. ASSUME NEW o \in Option, opt_set_callback(o) PROVE IInv'
  BY <1>0, <1>2, QuietStep DEF opt_set_callback, TypeOK
<1>3. CASE opt_set
  <2>1. PICK o \in Option : Replaces(o, -1, FALSE)
    BY <1>3, SetReplaces
  <2>2. /\ phase' \in Phases /\ callback' = callback /\ opts_in_use' = opts_in_use
        /\ sets' \in Nat
    BY <1>0, <1>3 DEF opt_set, TypeOK
  <2>3. QED
    BY <2>1, <2>2, ReplaceStep
<1>4. CASE opt_quit
  BY <1>4, FreeStep DEF opt_quit, Phases
<1>5. CASE opt_parse \/ ParseUnknown \/ ParseEnd
  BY <1>0, <1>5, QuietStep DEF opt_parse, ParseUnknown, ParseEnd, TypeOK, Phases
<1>6. CASE ParseOption
  <2>1. PICK o \in Option, a \in Text \cup {NULL} :
          ShowHelp(o, a) \/ Reject(o, a) \/ Store(o, a)
    BY <1>6 DEF ParseOption
  <2>2. CASE ShowHelp(o, a)
    BY <1>0, <2>2, QuietStep DEF ShowHelp, TypeOK, Phases
  <2>3. CASE Reject(o, a)
    BY <2>3, FreeStep DEF Reject, Phases
  <2>4. CASE Store(o, a)
    <3>1. Replaces(o, 1, Owned(o)) /\ Owned(o) \in BOOLEAN
      BY <2>4, StoreReplaces DEF Owned
    <3>2. /\ phase' \in Phases /\ callback' = callback /\ opts_in_use' = opts_in_use
          /\ sets' \in Nat
      BY <1>0, <2>4 DEF Store, TypeOK
    <3>3. QED
      BY <3>1, <3>2, ReplaceStep
  <2>5. QED
    BY <2>1, <2>2, <2>3, <2>4
<1>7. CASE UNCHANGED vars
  BY <1>0, <1>7, QuietStep DEF vars, TypeOK
<1>8. QED
  BY <1>1, <1>2, <1>3, <1>4, <1>5, <1>6, <1>7 DEF Next

(***************************************************************************)
(* The fields of the table keep their types.                               *)
(***************************************************************************)
THEOREM OptionsTypes == Spec => []TypeOK
<1>1. IInv => TypeOK
  BY DEF IInv
<1>2. QED
  BY <1>1, OptionsInit, OptionsStep, PTL DEF Spec

(***************************************************************************)
(* Only allocated strings are freed, and no option points to a freed one.  *)
(***************************************************************************)
THEOREM OptionsMemorySafe == Spec => []MemorySafe
<1>1. IInv => MemorySafe
  BY DEF IInv
<1>2. QED
  BY <1>1, OptionsInit, OptionsStep, PTL DEF Spec

(***************************************************************************)
(* What the command line gave has passed its filter.                       *)
(***************************************************************************)
THEOREM OptionsGivenPasses == Spec => []GivenPasses
<1>1. IInv => GivenPasses
  BY DEF IInv
<1>2. QED
  BY <1>1, OptionsInit, OptionsStep, PTL DEF Spec

-----------------------------------------------------------------------------
(***************************************************************************)
(* The settings, and what the steps do to them.                            *)
(***************************************************************************)
Settings == [o \in Option |-> TextAt(o)]
Given    == {o \in Option : used[o] = 1}
Status   == IF phase \in {"start", "ready", "parsing"} THEN "running" ELSE phase

LEMMA QuietSettings ==
  ASSUME UNCHANGED <<value, used, heap>>
  PROVE  Settings' = Settings /\ Given' = Given
  BY DEF Settings, Given, TextAt

LEMMA FreedSettings ==
  ASSUME IInv, FreeAll, phase' \in Phases, UNCHANGED <<used, callback, sets>>
  PROVE  Settings' = [o \in Option |-> NULL] /\ Given' = Given
<1>1. \A o \in Option : TextAt(o)' = NULL
  BY FreeStep
<1>2. QED
  BY <1>1 DEF Settings, Given

LEMMA ReplacedSettings ==
  ASSUME IInv, NEW o \in Option, NEW u \in {-1, 1}, NEW free \in BOOLEAN, NEW a,
         Replaces(o, u, free), TextAt(o)' = a, used' = [used EXCEPT ![o] = u],
         phase' \in Phases, callback' = callback, opts_in_use' = opts_in_use,
         sets' \in Nat
  PROVE  /\ Settings' = [Settings EXCEPT ![o] = a]
         /\ Given' = IF u = 1 THEN Given \cup {o} ELSE Given \ {o}
<1>1. \A p \in Option \ {o} : TextAt(p)' = TextAt(p)
  BY ReplaceStep
<1>2. Settings' = [Settings EXCEPT ![o] = a]
  BY <1>1 DEF Settings
<1>3. used \in [Option -> {-1, 0, 1}]
  BY DEF IInv, TypeOK
<1>4. QED
  BY <1>2, <1>3 DEF Given

(***************************************************************************)
(* A step of the parser is a step of the store, or none.                   *)
(***************************************************************************)
LEMMA StoreInit == Init => Kept!Init
<1> SUFFICES ASSUME Init PROVE Kept!Init
  OBVIOUS
<1>1. \A o \in Option : TextAt(o) = Default[o]
  BY Names DEF Init, TextAt
<1>2. [o \in Option |-> TextAt(o)] = Default
  BY <1>1, OptionsAssumption DEF OptionsAssumption
<1>3. {o \in Option : used[o] = 1} = {}
  BY DEF Init
<1>4. QED
  BY <1>2, <1>3 DEF Kept!Init, Init

LEMMA StoreStep == IInv /\ [Next]_vars => [Kept!Next]_(Kept!vars)
<1> SUFFICES ASSUME IInv, [Next]_vars PROVE [Kept!Next]_(Kept!vars)
  OBVIOUS
<1> USE DEF Settings, Given, Status
<1>0. TypeOK
  BY DEF IInv
<1>1. ASSUME NEW use \in Uses, opt_init(use) PROVE UNCHANGED Kept!vars
  BY <1>1, QuietSettings DEF opt_init, Kept!vars
<1>2. ASSUME NEW o \in Option, opt_set_callback(o) PROVE UNCHANGED Kept!vars
  BY <1>2, QuietSettings DEF opt_set_callback, Kept!vars
<1>3. CASE opt_set
  <2>1. PICK o \in Option, a \in Text :
          Replaces(o, -1, FALSE) /\ TextAt(o)' = a /\ used' = [used EXCEPT ![o] = -1]
    BY <1>3, SetReplaces
  <2>2. /\ phase = "ready" /\ phase' = phase /\ phase' \in Phases
        /\ callback' = callback /\ opts_in_use' = opts_in_use /\ sets' \in Nat
    BY <1>0, <1>3 DEF opt_set, TypeOK
  <2>3. Settings' = [Settings EXCEPT ![o] = a] /\ Given' = Given \ {o}
    <3> HIDE DEF Settings, Given
    <3>1. -1 \in {-1, 1} /\ -1 # 1 /\ FALSE \in BOOLEAN
      OBVIOUS
    <3>2. QED
      BY <2>1, <2>2, <3>1, ReplacedSettings
  <2>4. Kept!Set(o, a)
    BY <2>2, <2>3 DEF Kept!Set
  <2>5. QED
    BY <2>4 DEF Kept!Next
<1>4. CASE opt_quit
  <2>1. /\ Settings' = [o \in Option |-> NULL] /\ Given' = Given
    BY <1>4, FreedSettings DEF opt_quit, Phases
  <2>2. Kept!Forget
    BY <1>4, <2>1 DEF opt_quit, Kept!Forget, Kept!Nothing
  <2>3. QED
    BY <2>2 DEF Kept!Next
<1>5. CASE opt_parse \/ ParseEnd
  BY <1>5, QuietSettings DEF opt_parse, ParseEnd, Kept!vars
<1>6. CASE ParseUnknown
  <2>1. Kept!Refuse
    BY <1>6, QuietSettings DEF ParseUnknown, Kept!Refuse
  <2>2. QED
    BY <2>1 DEF Kept!Next
<1>7. CASE ParseOption
  <2>1. PICK o \in Option, a \in Text \cup {NULL} :
          ShowHelp(o, a) \/ Reject(o, a) \/ Store(o, a)
    BY <1>7 DEF ParseOption
  <2>2. CASE ShowHelp(o, a)
    <3>1. Kept!Help
      BY <2>2, QuietSettings DEF ShowHelp, Argument, Kept!Help
    <3>2. QED
      BY <3>1 DEF Kept!Next
  <2>3. CASE Reject(o, a)
    <3>1. Settings' = [p \in Option |-> NULL] /\ Given' = Given
      BY <2>3, FreedSettings DEF Reject, Phases
    <3>2. Kept!Refuse
      BY <2>3, <3>1 DEF Reject, Argument, Kept!Refuse, Kept!Nothing
    <3>3. QED
      BY <3>2 DEF Kept!Next
  <2>4. CASE Store(o, a)
    <3>1. Replaces(o, 1, Owned(o)) /\ TextAt(o)' = a /\ Owned(o) \in BOOLEAN
      BY <2>4, StoreReplaces DEF Owned
    <3>2. /\ phase = "parsing" /\ phase' = phase /\ phase' \in Phases
          /\ callback' = callback /\ opts_in_use' = opts_in_use /\ sets' \in Nat
          /\ used' = [used EXCEPT ![o] = 1]
      BY <1>0, <2>4 DEF Store, Argument, TypeOK
    <3>3. Settings' = [Settings EXCEPT ![o] = a] /\ Given' = Given \cup {o}
      BY <3>1, <3>2, ReplacedSettings
    <3>4. Acceptable(o, a)
      BY <2>4, Names DEF Store, Argument, Acceptable
    <3>5. Kept!Give(o, a)
      BY <3>2, <3>3, <3>4 DEF Kept!Give
    <3>6. QED
      BY <3>5 DEF Kept!Next
  <2>5. QED
    BY <2>1, <2>2, <2>3, <2>4
<1>8. CASE UNCHANGED vars
  BY <1>8, QuietSettings DEF vars, Kept!vars
<1>9. QED
  BY <1>1, <1>2, <1>3, <1>4, <1>5, <1>6, <1>7, <1>8 DEF Next

(***************************************************************************)
(* The parser implements the store.                                        *)
(***************************************************************************)
THEOREM OptionsKeepSettings == Spec => KeepsSettings
<1>1. IInv /\ [Next]_vars => [Kept!Next]_(Kept!vars)
  BY StoreStep
<1>2. QED
  BY <1>1, OptionsInit, OptionsStep, StoreInit, PTL DEF Spec, KeepsSettings, Kept!Spec

-----------------------------------------------------------------------------
(***************************************************************************)
(* Strings no option points to come from opt_set alone.                    *)
(***************************************************************************)
LEMMA LeakStep == IInv /\ [Next]_vars => (Leaked' \subseteq Leaked \/ sets' > sets)
<1> SUFFICES ASSUME IInv, [Next]_vars PROVE Leaked' \subseteq Leaked \/ sets' > sets
  OBVIOUS
<1>0. /\ value \in [Option -> {NULL, LITERAL} \cup Cell]
      /\ heap \in [Cell -> Text \cup {FREE}]
      /\ \A o \in Option : value[o] \in Cell => Owned(o)
  BY Names DEF IInv, TypeOK, Ownership, Owned
<1>1. CASE UNCHANGED <<value, heap>>
  BY <1>1 DEF Leaked
<1>2. CASE opt_set
  BY <1>2 DEF opt_set, IInv, TypeOK
<1>3. CASE FreeAll
  <2> SUFFICES ASSUME NEW c \in Cell, heap'[c] # FREE
               PROVE  heap[c] # FREE /\ \A o \in Option : value[o] # c
    BY DEF Leaked
  <2>1. c \notin Released /\ heap[c] # FREE
    BY <1>3 DEF FreeAll
  <2>2. QED
    BY <1>0, <2>1 DEF Released
<1>4. ASSUME NEW o \in Option, NEW a \in Text \cup {NULL}, Store(o, a)
      PROVE  Leaked' \subseteq Leaked
  <2> DEFINE left == [c \in Cell |-> IF Owned(o) /\ c = value[o] THEN FREE ELSE heap[c]]
  <2>1. \/ heap' = left /\ value' = [value EXCEPT ![o] = NULL]
        \/ \E d \in Cell : /\ heap' = [left EXCEPT ![d] = a]
                           /\ value' = [value EXCEPT ![o] = d]
    BY <1>4 DEF Store
  <2> SUFFICES ASSUME NEW c \in Cell, heap'[c] # FREE, \A p \in Option : value'[p] # c
               PROVE  heap[c] # FREE /\ \A p \in Option : value[p] # c
    BY DEF Leaked
  <2>2. left[c] # FREE
    BY <1>0, <2>1
  <2>3. heap[c] # FREE /\ value[o] # c
    BY <1>0, <2>2
  <2>4. \A p \in Option \ {o} : value[p] # c
    BY <1>0, <2>1
  <2>5. QED
    BY <2>3, <2>4
<1>5. QED
  BY <1>1, <1>2, <1>3, <1>4
  DEF Next, vars, opt_init, opt_set_callback, opt_quit, opt_parse, ParseEnd, ParseUnknown,
      ParseOption, ShowHelp, Reject

(***************************************************************************)
(* Neither the command line nor the end loses a string.                    *)
(***************************************************************************)
THEOREM OptionsOnlySetLeaks == Spec => OnlySetLeaks
<1>1. IInv /\ [Next]_vars => [Leaked' \subseteq Leaked \/ sets' > sets]_vars
  BY LeakStep
<1>2. QED
  BY <1>1, OptionsInit, OptionsStep, PTL DEF Spec, OnlySetLeaks
=============================================================================
