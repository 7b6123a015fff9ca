------------------------------- MODULE Httpd -------------------------------
(***************************************************************************)
(* The web interface of the buttons: common/httpd/httpd.c with the handlers *)
(* of button/generic/web.c and the switches of button/generic/button.c.    *)
(*                                                                         *)
(* Two threads.  The main thread starts the daemon, then registers the     *)
(* handlers, and may at last quit.  The daemon's thread (libmicrohttpd)    *)
(* calls httpd_request_handler for one connection at a time: once for the  *)
(* headers, once per piece of a body, once for its end; and                *)
(* httpd_request_completed when the connection is through with a request,  *)
(* answered or not.  They share the list of registered addresses, without  *)
(* a lock.                                                                 *)
(*                                                                         *)
(* A browser asks over several connections and keeps the session cookie.   *)
(* Telling the radio about a switch is left out.                           *)
(*                                                                         *)
(* Every allocation may fail, those of the libraries for an answer too.    *)
(* Two are used unchecked, realloc of a body and strndup of a substring:   *)
(* there the process ends.                                                 *)
(***************************************************************************)
EXTENDS Integers, Sequences, FiniteSets

CONSTANTS Conn,          \* connections of the browser
          BUTTON_COUNT,  \* switches
          ByteSpan,      \* uint8_t wraps here: 256
          Request,       \* what the browser asks for, and what it sends along
          MaxSessions    \* bound: sessions that are created

ASSUME HttpdAssumption ==
  /\ IsFiniteSet(Conn) /\ Conn \cap {"none", "url", "session"} = {}
  /\ BUTTON_COUNT \in Nat \ {0} /\ ByteSpan \in Nat \ {0}
  /\ BUTTON_COUNT <= ByteSpan
  /\ Request \subseteq [method : {"GET", "PUT"}, url : {"button", "count", "file"},
                         button : Nat, op : {"none", "toggle", "on", "off"}]
  /\ \A r \in Request : r.method = "GET" => r.op = "none"
  /\ MaxSessions \in Nat

Button == 0..(BUTTON_COUNT - 1)

(***************************************************************************)
(* The registered addresses, in the order of web_init().                   *)
(***************************************************************************)
Url == {"button", "count"}

(***************************************************************************)
(* Session cookies: the numbers of sessions, and those that name none.     *)
(***************************************************************************)
NoCookie  == 0       \* none, or a session of an earlier run of the program
Malformed == -1      \* not a uuid

Nothing == [method |-> "none", url |-> "none", button |-> 0, op |-> "none"]
Fresh(s)  == [session |-> s, u |-> "none", pp |-> FALSE, data |-> <<>>, restr |-> {}]
NoRequest == Fresh(0)

(***************************************************************************)
(* A body comes in two pieces.                                             *)
(***************************************************************************)
Body(op) == <<<<op, 1>>, <<op, 2>>>>

VARIABLES
  main,          \* where the main thread is; "crashed" when the process is gone
  up,            \* the daemon runs
  first, last,   \* list of registered addresses
  next,          \* next[u]: the one after u
  daemon,        \* the handler call under way: connection, place in the list
  at,            \* at[c]: how far the connection is with its request; "cut" off
                 \* if the process ended
  asked,         \* asked[c]: the request, or Nothing
  cookie,        \* cookie[c]: the cookie it carries, until it is looked at
  left,          \* left[c]: pieces of the body still to come
  request,       \* request[c]: struct httpd_request, or NoRequest
  sessions,      \* sessions created
  c_active,      \* c_active[s]: requests the code counts in session s
  buttons,       \* the switches
  answer,        \* answer[c]: "none" so far, or the answer
  jar,           \* the browser's cookie
  heap,          \* what is allocated for requests, addresses and sessions
  fault,         \* history: something not allocated was freed
  known          \* history: addresses whose handler answered

list == <<first, last, next>>
conn == <<at, asked, cookie, left>>
mem  == <<heap, fault>>
vars == <<main, up, list, daemon, conn, request, sessions, c_active, buttons, answer,
          jar, mem, known>>

Idle == [c |-> "none", u |-> "none"]

Init ==
  /\ main = "start" /\ up = FALSE
  /\ first = "none" /\ last = "none" /\ next = [u \in Url |-> "none"]
  /\ daemon = Idle
  /\ at = [c \in Conn |-> "idle"]
  /\ asked = [c \in Conn |-> Nothing]
  /\ cookie = [c \in Conn |-> NoCookie]
  /\ left = [c \in Conn |-> 0]
  /\ request = [c \in Conn |-> NoRequest]
  /\ sessions = 0
  /\ c_active = [s \in 1..MaxSessions |-> 0]
  /\ buttons = [b \in Button |-> FALSE]
  /\ answer = [c \in Conn |-> "none"]
  /\ jar \in {NoCookie, Malformed}
  /\ heap = {} /\ fault = FALSE
  /\ known = {}

Malloc(S) == heap' = heap \cup S /\ UNCHANGED fault

Free(S) ==
  /\ heap' = heap \ S
  /\ fault' = (fault \/ ~(S \subseteq heap))

(***************************************************************************)
(* A null pointer is written or read through: the process is gone, with    *)
(* both its threads, and the connections are closed.                       *)
(***************************************************************************)
Crash ==
  /\ main' = "crashed" /\ up' = FALSE /\ daemon' = Idle
  /\ at' = [c \in Conn |-> IF at[c] = "idle" THEN "idle" ELSE "cut"]
  /\ UNCHANGED <<list, asked, cookie, left, sessions, c_active, buttons, answer, jar,
                 mem, known>>

-----------------------------------------------------------------------------
(***************************************************************************)
(* The main thread: web_init(), httpd_quit().  Whether the daemon started  *)
(* is not looked at.                                                       *)
(***************************************************************************)
Start ==
  /\ main = "start"
  /\ up' \in BOOLEAN
  /\ main' = "button"
  /\ UNCHANGED <<list, daemon, conn, request, sessions, c_active, buttons, answer,
                 jar, mem, known>>

(***************************************************************************)
(* LL_APP of an item whose own fields are set; a reader sees first and     *)
(* next only.  (LL_APP_first, a mutant, forgets what is in the list.)      *)
(***************************************************************************)
LL_APP_first(u) ==
  /\ first' = u
  /\ next' = [next EXCEPT ![u] = "none"]
  /\ last' = u

LL_APP(u) ==
  /\ first' = IF first = "none" THEN u ELSE first
  /\ next' = [v \in Url |-> IF v = u THEN "none" ELSE IF v = last THEN u ELSE next[v]]
  /\ last' = u

httpd_register_url ==
  /\ main \in Url
  /\ \/ /\ LL_APP(main)
        /\ Malloc({<<"url", main>>})
        /\ main' = IF main = "button" THEN "count" ELSE "running"
     \/ /\ main' = "quit"      \* malloc failed, and with it web_init
        /\ UNCHANGED <<list, mem>>
  /\ UNCHANGED <<up, daemon, conn, request, sessions, c_active, buttons, answer, jar, known>>

(***************************************************************************)
(* The rest of the initialisation failed.                                  *)
(***************************************************************************)
Exit ==
  /\ main = "running"
  /\ main' = "quit"
  /\ UNCHANGED <<up, list, daemon, conn, request, sessions, c_active, buttons, answer,
                 jar, mem, known>>

(***************************************************************************)
(* MHD_stop_daemon waits for the handler, then closes every connection.    *)
(***************************************************************************)
StopDaemon ==
  /\ main = "quit"
  /\ daemon = Idle
  /\ up' = FALSE
  /\ at' = [c \in Conn |-> IF at[c] = "idle" THEN "idle" ELSE "over"]
  /\ main' = "closing"
  /\ UNCHANGED <<list, daemon, asked, cookie, left, request, sessions, c_active, buttons,
                 answer, jar, mem, known>>

LL_GET_LOOP ==
  /\ main = "closing"
  /\ \A c \in Conn : at[c] = "idle"
  /\ IF first = "none"
     THEN main' = "gone" /\ UNCHANGED <<list, mem>>
     ELSE /\ Free({<<"url", first>>})
          /\ first' = next[first]
          /\ last' = IF next[first] = "none" THEN "none" ELSE last
          /\ UNCHANGED <<main, next>>
  /\ UNCHANGED <<up, daemon, conn, request, sessions, c_active, buttons, answer, jar, known>>

-----------------------------------------------------------------------------
(***************************************************************************)
(* The browser.                                                            *)
(***************************************************************************)
Send(c, r) ==
  /\ up /\ at[c] = "idle"
  /\ at' = [at EXCEPT ![c] = "sent"]
  /\ asked' = [asked EXCEPT ![c] = r]
  /\ cookie' = [cookie EXCEPT ![c] = jar]
  /\ left' = [left EXCEPT ![c] = IF r.method = "PUT" THEN 2 ELSE 0]
  /\ UNCHANGED <<main, up, list, daemon, request, sessions, c_active, buttons, answer,
                 jar, mem, known>>

(***************************************************************************)
(* An answer of the default handler or a 404 sets the cookie.              *)
(***************************************************************************)
Receive(c) ==
  /\ at[c] = "answered"
  /\ at' = [at EXCEPT ![c] = "over"]
  /\ jar' = IF answer[c] \in {"file", "404"} THEN request[c].session ELSE jar
  /\ UNCHANGED <<main, up, list, daemon, asked, cookie, left, request, sessions, c_active,
                 buttons, answer, mem, known>>

Abort(c) ==
  /\ at[c] \in {"sent", "upload", "answered"}
  /\ daemon.c # c
  /\ at' = [at EXCEPT ![c] = "over"]
  /\ UNCHANGED <<main, up, list, daemon, asked, cookie, left, request, sessions, c_active,
                 buttons, answer, jar, mem, known>>

-----------------------------------------------------------------------------
(***************************************************************************)
(* button.c and web.c: the switch after a request, and the answer.  A body *)
(* that is no operation changes nothing and is answered "off".             *)
(***************************************************************************)
button_known(sw) == sw < BUTTON_COUNT

After(sw, data) ==
  /\ button_known(sw)
  /\ \/ data = Body("on")
     \/ data = Body("toggle") /\ ~buttons[sw]
     \/ data \notin {Body(op) : op \in {"on", "off", "toggle"}} /\ buttons[sw]

web_req_button(c, data) ==
  LET sw == asked[c].button % ByteSpan
  IN  /\ buttons' = [b \in Button |-> IF b = sw THEN After(sw, data) ELSE buttons[b]]
      /\ answer' = [answer EXCEPT ![c] =
           IF After(sw, data) /\ data # Body("none") THEN "on" ELSE "off"]

(***************************************************************************)
(* An answer is queued, or cannot be for lack of memory, and libmicrohttpd *)
(* closes the connection.                                                  *)
(***************************************************************************)
MHD_queue_response(c) == \E how \in {"answered", "over"} : at' = [at EXCEPT ![c] = how]

callback(c, u, data) ==
  /\ \/ u = "button" /\ web_req_button(c, data)
     \/ u = "count" /\ answer' = [answer EXCEPT ![c] = "count"] /\ UNCHANGED buttons
  /\ MHD_queue_response(c)
  /\ known' = known \cup {u}

-----------------------------------------------------------------------------
(***************************************************************************)
(* The daemon's thread.  First call: httpd_session_find takes the session  *)
(* of the cookie or appends a new one, httpd_request_find opens a request  *)
(* in it.  When memory is short of either the connection is closed.        *)
(***************************************************************************)
Session(c) == IF cookie[c] \in 1..sessions THEN cookie[c] ELSE sessions + 1

httpd_session_find(c) ==
  /\ cookie[c] # Malformed /\ Session(c) <= MaxSessions
  /\ sessions' = IF Session(c) > sessions THEN Session(c) ELSE sessions

Refused(c) ==
  /\ cookie[c] = Malformed \/ Session(c) > sessions
  /\ at' = [at EXCEPT ![c] = "over"]
  /\ UNCHANGED <<daemon, request, sessions, c_active, mem>>

HalfFound(c) ==
  /\ httpd_session_find(c)
  /\ Malloc({<<"session", Session(c)>>})
  /\ at' = [at EXCEPT ![c] = "over"]
  /\ UNCHANGED <<daemon, request, c_active>>

Found_unchecked(c) ==   \* a mutant: malloc of a session is taken to succeed
  /\ cookie[c] # Malformed
  /\ sessions' = IF Session(c) > sessions THEN Session(c) ELSE sessions
  /\ c_active' = [c_active EXCEPT ![Session(c)] = @ + 1]
  /\ request' = [request EXCEPT ![c] = Fresh(Session(c))]
  /\ Malloc({<<"session", Session(c)>>, <<c, "request">>})
  /\ daemon' = [c |-> c, u |-> first]
  /\ UNCHANGED at

Found(c) ==
  /\ httpd_session_find(c)
  /\ c_active' = [c_active EXCEPT ![Session(c)] = @ + 1]
  /\ request' = [request EXCEPT ![c] = Fresh(Session(c))]
  /\ Malloc({<<"session", Session(c)>>, <<c, "request">>})
  /\ daemon' = [c |-> c, u |-> first]
  /\ UNCHANGED at

httpd_request_find(c) ==
  /\ up /\ daemon = Idle /\ at[c] = "sent"
  /\ Refused(c) \/ HalfFound(c) \/ Found(c)
  /\ cookie' = [cookie EXCEPT ![c] = NoCookie]
  /\ UNCHANGED <<main, up, list, asked, left, buttons, answer, jar, known>>

(***************************************************************************)
(* The loop through the registered addresses.  The pattern of a button has *)
(* no method; a match leaves its substrings in the request.                *)
(***************************************************************************)
Matches(u, r) ==
  \/ u = "button" /\ r.url = "button"
  \/ u = "count" /\ r.url = "count" /\ r.method = "GET"

Scan(c, u) ==
  /\ daemon = [c |-> c, u |-> u]
  /\ UNCHANGED <<main, up, list, asked, cookie, left, sessions, c_active, jar>>

Continue(c, u) ==
  /\ u # "none" /\ ~Matches(u, asked[c])
  /\ Scan(c, u)
  /\ daemon' = [daemon EXCEPT !.u = next[u]]
  /\ UNCHANGED <<at, request, buttons, answer, mem, known>>

(***************************************************************************)
(* What a match copies from the address; a copy may fail.  web_req_button  *)
(* hands the number to atoi, copied or not; nobody reads the whole match.  *)
(***************************************************************************)
Substrings(u) == IF u = "button" THEN {"match", "number"} ELSE {"match"}

Legible(u, restr) == u = "button" => "number" \in restr

Serve(c, u) ==
  /\ u # "none" /\ Matches(u, asked[c]) /\ asked[c].method = "GET"
  /\ Scan(c, u)
  /\ callback(c, u, <<>>)
  /\ \E restr \in SUBSET Substrings(u) :
       /\ Legible(u, restr)
       /\ request' = [request EXCEPT ![c].restr = restr]
       /\ Malloc({c} \X restr)
  /\ daemon' = Idle

ServeNull(c) ==
  /\ daemon = [c |-> c, u |-> "button"]
  /\ Matches("button", asked[c]) /\ asked[c].method = "GET"
  /\ Crash /\ UNCHANGED request

(***************************************************************************)
(* A request with a body gets a post processor, or is closed.              *)
(***************************************************************************)
Expect(c, u) ==
  /\ u # "none" /\ Matches(u, asked[c]) /\ asked[c].method = "PUT"
  /\ Scan(c, u)
  /\ \E restr \in SUBSET Substrings(u), pp \in BOOLEAN :
       /\ request' = [request EXCEPT ![c].restr = restr, ![c].u = u, ![c].pp = pp]
       /\ Malloc({c} \X (restr \cup (IF pp THEN {"pp"} ELSE {})))
       /\ at' = [at EXCEPT ![c] = IF pp THEN "upload" ELSE "over"]
  /\ daemon' = Idle
  /\ UNCHANGED <<buttons, answer, known>>

(***************************************************************************)
(* No address answered: the file of that name, if it is there and can be   *)
(* opened; only a GET gets that far.                                       *)
(***************************************************************************)
httpd_404(c) == answer' = [answer EXCEPT ![c] = "404"]

httpd_get_default(c) ==
  \/ asked[c].url = "file" /\ answer' = [answer EXCEPT ![c] = "file"]
  \/ httpd_404(c)

Default(c) ==
  /\ Scan(c, "none")
  /\ IF asked[c].method = "GET" THEN httpd_get_default(c) ELSE httpd_404(c)
  /\ MHD_queue_response(c)
  /\ daemon' = Idle
  /\ UNCHANGED <<request, buttons, mem, known>>

(***************************************************************************)
(* Further calls: a piece of the body is appended; at its end the post     *)
(* processor goes, the handler runs, and the body is freed.                *)
(***************************************************************************)
Continued(c) == up /\ daemon = Idle /\ at[c] = "upload"

Upload(c) ==
  /\ Continued(c)
  /\ UNCHANGED <<main, up, list, daemon, asked, cookie, sessions, c_active, jar>>

Piece(c) ==
  /\ left[c] > 0
  /\ Upload(c)
  /\ left' = [left EXCEPT ![c] = @ - 1]
  /\ request' = [request EXCEPT ![c].data = Append(@, Body(asked[c].op)[3 - left[c]])]
  /\ Malloc({<<c, "data">>})
  /\ UNCHANGED <<at, buttons, answer, known>>

(***************************************************************************)
(* realloc failed: the pointer to the pieces so far is lost to the result. *)
(***************************************************************************)
PieceNull(c) ==
  /\ left[c] > 0
  /\ Continued(c)
  /\ request' = [request EXCEPT ![c].data = <<>>]
  /\ Crash

Finish_kept(c) ==   \* a mutant: the body is freed but not forgotten
  /\ left[c] = 0 /\ Legible(request[c].u, request[c].restr)
  /\ Upload(c)
  /\ callback(c, request[c].u, request[c].data)
  /\ request' = [request EXCEPT ![c].pp = FALSE]
  /\ Free({<<c, "pp">>, <<c, "data">>})
  /\ UNCHANGED left

Finish_waits(c) ==   \* a mutant: the last call is taken for one more piece
  /\ left[c] = 0
  /\ Upload(c)
  /\ UNCHANGED <<at, left, request, buttons, answer, mem, known>>

Finish(c) ==
  /\ left[c] = 0 /\ Legible(request[c].u, request[c].restr)
  /\ Upload(c)
  /\ callback(c, request[c].u, request[c].data)
  /\ request' = [request EXCEPT ![c].pp = FALSE, ![c].data = <<>>]
  /\ Free({<<c, "pp">>, <<c, "data">>})
  /\ UNCHANGED left

FinishNull(c) ==
  /\ left[c] = 0 /\ ~Legible(request[c].u, request[c].restr)
  /\ Continued(c)
  /\ Crash /\ UNCHANGED request

(***************************************************************************)
(* The connection is through with the request.                             *)
(***************************************************************************)
Held(r) ==
  {k \in {"request", "pp", "data", "match", "number"} :
     \/ k = "request" /\ r # NoRequest
     \/ k = "pp" /\ r.pp
     \/ k = "data" /\ r.data # <<>>
     \/ k \in r.restr}

Owned(c) == {c} \X Held(request[c])

Through(c) ==
  /\ daemon = Idle /\ at[c] = "over"
  /\ at' = [at EXCEPT ![c] = "idle"]
  /\ asked' = [asked EXCEPT ![c] = Nothing]
  /\ answer' = [answer EXCEPT ![c] = "none"]
  /\ request' = [request EXCEPT ![c] = NoRequest]
  /\ cookie' = [cookie EXCEPT ![c] = NoCookie]
  /\ left' = [left EXCEPT ![c] = 0]
  /\ UNCHANGED <<main, up, list, daemon, sessions, buttons, jar, known>>

completed_answered(c) ==   \* a mutant: only answered requests leave their session
  /\ Through(c)
  /\ c_active' = IF answer[c] = "none" THEN c_active
                 ELSE [c_active EXCEPT ![request[c].session] = @ - 1]
  /\ Free(Owned(c))

httpd_request_completed(c) ==
  /\ Through(c)
  /\ c_active' = IF request[c] = NoRequest THEN c_active
                 ELSE [c_active EXCEPT ![request[c].session] = @ - 1]
  /\ Free(Owned(c))

Handler(c) ==
  \/ \E u \in Url : Continue(c, u) \/ Serve(c, u) \/ Expect(c, u)
  \/ ServeNull(c) \/ Default(c)

Daemon(c) ==
  \/ httpd_request_find(c) \/ Piece(c) \/ PieceNull(c) \/ Finish(c) \/ FinishNull(c)
  \/ httpd_request_completed(c)

Next ==
  \/ Start \/ httpd_register_url \/ Exit \/ StopDaemon \/ LL_GET_LOOP
  \/ \E c \in Conn :
       \/ \E r \in Request : Send(c, r)
       \/ Receive(c) \/ Abort(c)
       \/ Handler(c) \/ Daemon(c)

(***************************************************************************)
(* A handler call runs to its end, the daemon serves every connection that *)
(* is ready in turn, the browser reads its answers and sends the bodies it *)
(* announced, or closes.                                                   *)
(***************************************************************************)
Spec ==
  /\ Init /\ [][Next]_vars
  /\ WF_vars(\E c \in Conn : Handler(c))
  /\ \A c \in Conn : SF_vars(Daemon(c)) /\ WF_vars(Receive(c))

-----------------------------------------------------------------------------
(***************************************************************************)
(* Type invariant.                                                         *)
(***************************************************************************)
TypeOK ==
  /\ main \in {"start", "running", "quit", "closing", "gone", "crashed"} \cup Url
  /\ first \in Url \cup {"none"} /\ last \in Url \cup {"none"}
  /\ next \in [Url -> Url \cup {"none"}]
  /\ \A c \in Conn :
       /\ at[c] \in {"idle", "sent", "upload", "answered", "over", "cut"}
       /\ asked[c] \in Request \cup {Nothing}
       /\ left[c] \in 0..2
       /\ request[c].session \in 0..sessions
       /\ answer[c] \in {"none", "on", "off", "count", "file", "404"}
  /\ sessions \in 0..MaxSessions
  /\ c_active \in [1..MaxSessions -> Nat]
  /\ buttons \in [Button -> BOOLEAN]
  /\ jar \in {NoCookie, Malformed} \cup 1..sessions

(***************************************************************************)
(* Nothing is freed twice or used after it was freed; and as long as the   *)
(* process lives nothing is lost: what is allocated is what the open       *)
(* requests and the lists of addresses and sessions hold, at whatever call *)
(* a connection was broken off, an allocation failed, and the program      *)
(* stopped.  A failed realloc of a body does lose it, and ends the process *)
(* in the same call (httpd.c:250).                                         *)
(***************************************************************************)
Registered == ({first} \cup {next[u] : u \in {first} \cap Url}) \ {"none"}

Live ==
  (UNION {Owned(c) : c \in Conn})
    \cup {<<"url", u>> : u \in Registered}
    \cup {<<"session", s>> : s \in 1..sessions}

MemorySafe ==
  /\ ~fault
  /\ main # "crashed" => heap = Live
  /\ daemon.u # "none" => daemon.u \in Registered
  /\ \A c \in Conn : at[c] = "upload" => request[c].u \in Registered

(***************************************************************************)
(* A session counts exactly the requests that are open in it, so that a    *)
(* session with none could be dropped.                                     *)
(***************************************************************************)
ActiveCounts ==
  \A s \in 1..MaxSessions :
    c_active[s] = Cardinality({c \in Conn : request[c].session = s})

(***************************************************************************)
(* The interface implements ButtonService: a request that comes in pieces, *)
(* between others, while addresses are being registered, switches a button *)
(* once and is answered with the state it leaves.                          *)
(***************************************************************************)
Byte(r) == [r EXCEPT !.button = @ % ByteSpan]

Service ==
  INSTANCE ButtonService WITH
    Request <- {Byte(r) : r \in Request},
    asked <- [c \in Conn |-> Byte(asked[c])]

Serves == Service!Spec

(***************************************************************************)
(* Every request comes to an end, answered or not, and its connection is   *)
(* free for the next one, unless the process crashed and cut it off.       *)
(***************************************************************************)
RequestsEnd == \A c \in Conn : at[c] = "sent" ~> at[c] \in {"idle", "cut"}
=============================================================================
