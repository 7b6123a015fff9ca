--------------------------- MODULE ButtonService ---------------------------
(***************************************************************************)
(* What the web interface of the buttons promises to those who ask it: a   *)
(* request on a button takes effect at one instant or not at all, and the  *)
(* answer to an operation or a question is the state the button has right  *)
(* after it; a request for an address that was answered once is never told *)
(* that there is no such address.                                          *)
(***************************************************************************)
CONSTANTS Conn,        \* connections, each with one request at a time
          Request,     \* requests: [method, url, button, op]
          Button       \* the buttons there are

Nothing == [method |-> "none", url |-> "none", button |-> 0, op |-> "none"]

VARIABLES buttons,     \* buttons[b]: switched on
          asked,       \* asked[c]: the request on c, or Nothing
          answer,      \* answer[c]: what it was answered, "none" so far
          known        \* addresses that were answered

vars == <<buttons, asked, answer, known>>

Init ==
  /\ buttons = [b \in Button |-> FALSE]
  /\ asked = [c \in Conn |-> Nothing]
  /\ answer = [c \in Conn |-> "none"]
  /\ known = {}

Ask(c) ==
  /\ asked[c] = Nothing
  /\ \E r \in Request : asked' = [asked EXCEPT ![c] = r]
  /\ UNCHANGED <<buttons, answer, known>>

Waiting(c) == asked[c] # Nothing /\ answer[c] = "none"

(***************************************************************************)
(* The state of a button after a request; a button that does not exist     *)
(* is off.  A PUT that names no operation is told "off".                   *)
(***************************************************************************)
After(r) ==
  /\ r.button \in Button
  /\ \/ r.op = "on"
     \/ r.op = "toggle" /\ ~buttons[r.button]
     \/ r.op \notin {"on", "off", "toggle"} /\ buttons[r.button]

NoOperation(r) == r.method = "PUT" /\ r.op = "none"

Press(c) ==
  /\ Waiting(c)
  /\ asked[c].url = "button"
  /\ LET r == asked[c]
     IN  /\ buttons' = [b \in Button |-> IF b = r.button THEN After(r) ELSE buttons[b]]
         /\ answer' = [answer EXCEPT ![c] =
               IF After(r) /\ ~NoOperation(r) THEN "on" ELSE "off"]
  /\ known' = known \cup {"button"}
  /\ UNCHANGED asked

Count(c) ==
  /\ Waiting(c)
  /\ asked[c].url = "count"
  /\ answer' = [answer EXCEPT ![c] = "count"]
  /\ known' = known \cup {"count"}
  /\ UNCHANGED <<buttons, asked>>

File(c) ==
  /\ Waiting(c)
  /\ asked[c].url = "file" /\ asked[c].method = "GET"
  /\ answer' = [answer EXCEPT ![c] = "file"]
  /\ UNCHANGED <<buttons, asked, known>>

NotFound(c) ==
  /\ Waiting(c)
  /\ asked[c].method = "GET" => asked[c].url \notin known
  /\ asked[c].url = "button" => "button" \notin known
  /\ answer' = [answer EXCEPT ![c] = "404"]
  /\ UNCHANGED <<buttons, asked, known>>

(***************************************************************************)
(* The connection is closed, answered or not.                              *)
(***************************************************************************)
Leave(c) ==
  /\ asked[c] # Nothing
  /\ asked' = [asked EXCEPT ![c] = Nothing]
  /\ answer' = [answer EXCEPT ![c] = "none"]
  /\ UNCHANGED <<buttons, known>>

Next ==
  \E c \in Conn : Ask(c) \/ Press(c) \/ Count(c) \/ File(c) \/ NotFound(c) \/ Leave(c)

Spec == Init /\ [][Next]_vars
=============================================================================
