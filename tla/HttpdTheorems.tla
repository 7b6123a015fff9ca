--------------------------- MODULE HttpdTheorems ---------------------------
(***************************************************************************)
(* The web interface, for any number of connections, switches and          *)
(* sessions and any requests: memory, the count of requests per session,   *)
(* and that it is a ButtonService, while addresses are registered by       *)
(* another thread and wherever a connection is broken off.                 *)
(***************************************************************************)
EXTENDS Httpd, FiniteSetTheorems, SequenceTheorems, TLAPS

(***************************************************************************)
(* Types, of the history and the connections too.                          *)
(***************************************************************************)
Op     == {"none", "toggle", "on", "off"}
Sent(op, n) == IF n = 0 THEN <<>> ELSE IF n = 1 THEN <<<<op, 1>>>> ELSE Body(op)
Pieces == {Sent(op, n) : op \in Op, n \in 0..2}
Place  == Url \cup {"none"}

Types ==
  /\ main \in {"start", "running", "quit", "closing", "gone"} \cup Url
  /\ up \in BOOLEAN
  /\ first \in Place /\ last \in Place /\ next \in [Url -> Place]
  /\ daemon \in [c : Conn \cup {"none"}, u : Place]
  /\ at \in [Conn -> {"idle", "sent", "upload", "answered", "over"}]
  /\ asked \in [Conn -> Request \cup {Nothing}]
  /\ left \in [Conn -> 0..2]
  /\ request \in [Conn -> [session : 0..MaxSessions, u : Place, pp : BOOLEAN,
                           data : Pieces, restr : SUBSET {"match", "number"}]]
  /\ answer \in [Conn -> {"none", "on", "off", "count", "file", "404"}]
  /\ sessions \in 0..MaxSessions
  /\ \A c \in Conn : request[c].session <= sessions
  /\ c_active \in [1..MaxSessions -> Nat]
  /\ buttons \in [Button -> BOOLEAN]
  /\ jar \in {NoCookie, Malformed} \cup 1..sessions
  /\ known \subseteq Url

(***************************************************************************)
(* The list grows to button, count and shrinks from its front; it is empty *)
(* as often as last says so.                                               *)
(***************************************************************************)
ListShape ==
  /\ next["count"] = "none" /\ next["button"] \in {"none", "count"}
  /\ main \in {"start", "button"} => first = "none" /\ last = "none"
  /\ main = "count" => first = "button" /\ last = "button"
  /\ main \notin {"closing", "gone"} => first # "count"

(***************************************************************************)
(* The call under way is the first one of a request, and stands at a       *)
(* registered address or beyond the last one.                              *)
(***************************************************************************)
Calling ==
  /\ daemon.c = "none" => daemon.u = "none"
  /\ daemon.c # "none" => at[daemon.c] = "sent" /\ request[daemon.c] # NoRequest
  /\ daemon.u # "none" => daemon.u \in Registered

(***************************************************************************)
(* How far a connection is, what it was asked, and what it holds.          *)
(***************************************************************************)
Idling(c) == asked[c] = Nothing /\ request[c] = NoRequest /\ answer[c] = "none"

Opened(c) ==
  /\ answer[c] = "none"
  /\ left[c] = IF asked[c].method = "PUT" THEN 2 ELSE 0
  /\ daemon.c # c => request[c] = NoRequest
  /\ request[c] = Fresh(request[c].session)

Uploading(c) ==
  LET r == request[c]
  IN  /\ answer[c] = "none"
      /\ r.session # 0 /\ r.pp
      /\ r.u \in Registered /\ Matches(r.u, asked[c]) /\ asked[c].method = "PUT"
      /\ r.data = Sent(asked[c].op, 2 - left[c])

Stands(c) ==
  /\ at[c] = "idle" => Idling(c)
  /\ at[c] # "idle" => asked[c] \in Request
  /\ at[c] = "sent" => Opened(c)
  /\ at[c] = "upload" => Uploading(c)
  /\ request[c].session = 0 => request[c] = NoRequest

Progress == \A c \in Conn : Stands(c)

(***************************************************************************)
(* What was answered once is registered until the daemon has stopped, and  *)
(* was not answered before a scan that missed it.                          *)
(***************************************************************************)
Answerable ==
  /\ main \in {"closing", "gone"} => ~up /\ daemon = Idle
  /\ main \notin {"closing", "gone"} => known \subseteq Registered
  /\ daemon.c # "none" =>
       /\ asked[daemon.c].url = "button" /\ daemon.u # "button" => "button" \notin known
       /\ Matches("count", asked[daemon.c]) /\ daemon.u = "none" => "count" \notin known

(***************************************************************************)
(* What is allocated is what requests, addresses and sessions hold.        *)
(***************************************************************************)
Urls     == {<<"url", u>> : u \in Registered}
Sessions == {<<"session", s>> : s \in 1..sessions}

Exact ==
  /\ ~fault
  /\ heap = (UNION {Owned(c) : c \in Conn}) \cup Urls \cup Sessions

IInv == Types /\ ListShape /\ Calling /\ Progress /\ Answerable /\ Exact /\ ActiveCounts

(***************************************************************************)
(* The process lives, or has crashed: then nothing runs any more, and what *)
(* was counted and freed before is as it was.                              *)
(***************************************************************************)
Ruin ==
  /\ main = "crashed" /\ ~up /\ daemon = Idle
  /\ \A c \in Conn : at[c] \in {"idle", "cut"}
  /\ TypeOK /\ ActiveCounts /\ ~fault

Inv == IInv \/ Ruin

LEMMA InvImplies == Inv => TypeOK /\ MemorySafe /\ ActiveCounts
<1>1. ASSUME IInv PROVE TypeOK /\ MemorySafe
  <2>1. TypeOK
    <3>1. \A c \in Conn : request[c].session \in 0..sessions
      BY <1>1 DEF IInv, Types
    <3>2. \A c \in Conn : at[c] \in {"idle", "sent", "upload", "answered", "over", "cut"}
      BY <1>1 DEF IInv, Types
    <3> QED BY <1>1, <3>1, <3>2 DEF IInv, Types, TypeOK, Place
  <2>2. MemorySafe
    <3>1. ~fault /\ heap = Live
      BY <1>1, Zenon DEF IInv, Exact, Live, Urls, Sessions
    <3>2. daemon.u # "none" => daemon.u \in Registered
      BY <1>1 DEF IInv, Calling
    <3>3. \A c \in Conn : at[c] = "upload" => request[c].u \in Registered
      BY <1>1 DEF IInv, Progress, Stands, Uploading
    <3> QED BY <3>1, <3>2, <3>3 DEF MemorySafe
  <2> QED BY <2>1, <2>2
<1>2. ASSUME Ruin PROVE MemorySafe
  BY <1>2 DEF Ruin, Idle, MemorySafe
<1> QED BY <1>1, <1>2 DEF Inv, IInv, Ruin

-----------------------------------------------------------------------------
(***************************************************************************)
(* Which addresses are registered, in terms of the first one.              *)
(***************************************************************************)
LEMMA RegisteredIs ==
  /\ \A u : u \in Registered <=> u # "none" /\ (u = first \/ (first \in Url /\ u = next[first]))
  /\ \A u : u \in Registered' <=> u # "none" /\ (u = first' \/ (first' \in Url /\ u = next'[first']))
  BY Zenon DEF Registered

LEMMA RegisteredFrom ==
  ASSUME Types, ListShape
  PROVE  /\ first = "none" => Registered = {}
         /\ first = "count" => Registered = {"count"}
         /\ first = "button" => Registered = {"button", next["button"]} \ {"none"}
<1>1. \A u : u \in Registered <=> u # "none" /\ (u = first \/ (first \in Url /\ u = next[first]))
  BY RegisteredIs
<1>2. next["count"] = "none" /\ "button" \in Url /\ "count" \in Url /\ "none" \notin Url
  BY DEF ListShape, Url
<1>3. first = "none" => Registered = {}
  BY <1>1, <1>2
<1>4. first = "count" => Registered = {"count"}
  BY <1>1, <1>2
<1>5. first = "button" => Registered = {"button", next["button"]} \ {"none"}
  BY <1>1, <1>2
<1> QED BY <1>3, <1>4, <1>5

LEMMA HttpdInit == Init => IInv
<1> SUFFICES ASSUME Init PROVE IInv
  OBVIOUS
<1>1. <<>> \in Pieces
  <2>1. Sent("none", 0) = <<>> /\ "none" \in Op /\ 0 \in 0..2
    BY DEF Sent, Op
  <2> QED BY <2>1 DEF Pieces
<1>2. Types
  <2>1. MaxSessions \in Nat
    BY HttpdAssumption DEF HttpdAssumption
  <2>2. NoRequest \in [session : 0..MaxSessions, u : Place, pp : BOOLEAN,
                      data : Pieces, restr : SUBSET {"match", "number"}]
    BY <1>1, <2>1 DEF NoRequest, Fresh, Place
  <2>3. \A c \in Conn : request[c].session <= sessions
    BY DEF Init, NoRequest, Fresh
  <2>4. c_active \in [1..MaxSessions -> Nat] /\ sessions \in 0..MaxSessions
    BY <2>1 DEF Init
  <2>5. buttons \in [Button -> BOOLEAN]
    BY Zenon DEF Init
  <2>6. /\ first \in Place /\ last \in Place /\ next \in [Url -> Place]
        /\ daemon \in [c : Conn \cup {"none"}, u : Place]
    BY DEF Init, Place, Idle
  <2>7. /\ at \in [Conn -> {"idle", "sent", "upload", "answered", "over"}]
        /\ asked \in [Conn -> Request \cup {Nothing}]
        /\ left \in [Conn -> 0..2]
        /\ answer \in [Conn -> {"none", "on", "off", "count", "file", "404"}]
    BY DEF Init
  <2>8. request \in [Conn -> [session : 0..MaxSessions, u : Place, pp : BOOLEAN,
                              data : Pieces, restr : SUBSET {"match", "number"}]]
    BY <2>2, Zenon DEF Init
  <2>9. /\ main \in {"start", "running", "quit", "closing", "gone"} \cup Url
        /\ up \in BOOLEAN
        /\ jar \in {NoCookie, Malformed} \cup 1..sessions
        /\ known \subseteq Url
    BY DEF Init
  <2> QED BY <2>3, <2>4, <2>5, <2>6, <2>7, <2>8, <2>9, Zenon DEF Types
<1>3. ListShape /\ Registered = {}
  BY DEF Init, ListShape, Url, Registered
<1>4. Calling /\ Progress /\ Answerable
  BY DEF Init, Calling, Progress, Stands, Idling, Answerable, Idle, NoRequest, Fresh
<1>5. Exact
  <2>1. Held(NoRequest) = {}
    BY DEF Held, NoRequest, Fresh
  <2>2. \A c \in Conn : Owned(c) = {}
    BY <2>1 DEF Init, Owned
  <2>3. Urls = {} /\ Sessions = {}
    BY <1>3 DEF Init, Urls, Sessions
  <2> QED BY <2>2, <2>3 DEF Init, Exact
<1>6. ActiveCounts
  <2> SUFFICES ASSUME NEW s \in 1..MaxSessions
               PROVE  0 = Cardinality({c \in Conn : request[c].session = s})
    BY DEF Init, ActiveCounts
  <2>1. {c \in Conn : request[c].session = s} = {}
    BY HttpdAssumption DEF HttpdAssumption, Init, NoRequest, Fresh
  <2> QED BY <2>1, FS_EmptySet
<1> QED BY <1>2, <1>3, <1>4, <1>5, <1>6 DEF IInv

-----------------------------------------------------------------------------
(***************************************************************************)
(* What a step leaves alone, or does to the memory of one connection.      *)
(***************************************************************************)
LEMMA ListKept == ASSUME UNCHANGED list PROVE Registered' = Registered
  BY DEF list, Registered

LEMMA MemoryKept ==
  ASSUME Exact, UNCHANGED <<request, sessions, heap, fault>>, Registered' = Registered
  PROVE  Exact'
<1>1. /\ \A c \in Conn : Owned(c)' = Owned(c)
      /\ Urls' = Urls /\ Sessions' = Sessions
  BY DEF Owned, Urls, Sessions
<1> QED BY <1>1 DEF Exact

LEMMA CountsKept ==
  ASSUME ActiveCounts, c_active' = c_active,
         \A c \in Conn : request'[c].session = request[c].session
  PROVE  ActiveCounts'
<1>1. \A s : {c \in Conn : request'[c].session = s} = {c \in Conn : request[c].session = s}
  OBVIOUS
<1> QED BY <1>1 DEF ActiveCounts

LEMMA OthersStand ==
  ASSUME Progress, Registered' = Registered, NEW d \in Conn,
         at'[d] = at[d], asked'[d] = asked[d], left'[d] = left[d],
         request'[d] = request[d], answer'[d] = answer[d],
         daemon'.c # d => daemon.c # d
  PROVE  Stands(d)'
<1>1. Stands(d)
  BY DEF Progress
<1>2. (at[d] = "upload" => Uploading(d)) => (at'[d] = "upload" => Uploading(d)')
  BY DEF Uploading
<1>3. (at[d] = "sent" => Opened(d)) => (at'[d] = "sent" => Opened(d)')
  BY DEF Opened
<1> QED BY <1>1, <1>2, <1>3 DEF Stands, Idling

LEMMA BlocksAdded ==
  ASSUME Exact, Registered' = Registered, NEW c \in Conn, NEW S, NEW T,
         \A d \in Conn \ {c} : request'[d] = request[d],
         Held(request'[c]) = Held(request[c]) \cup S,
         Sessions' = Sessions \cup T,
         Malloc(({c} \X S) \cup T)
  PROVE  Exact'
<1>1. \A d \in Conn \ {c} : Owned(d)' = Owned(d)
  BY DEF Owned
<1>2. Owned(c)' = Owned(c) \cup ({c} \X S)
  BY Zenon DEF Owned
<1>3. heap' = (UNION {Owned(d)' : d \in Conn}) \cup Urls' \cup Sessions'
  <2> SUFFICES ASSUME NEW x
               PROVE  x \in heap' <=> \/ \E d \in Conn : x \in Owned(d)'
                                      \/ x \in Urls' \/ x \in Sessions'
    BY Zenon
  <2>1. x \in heap <=> \/ \E d \in Conn : x \in Owned(d)
                        \/ x \in Urls \/ x \in Sessions
    BY Zenon DEF Exact
  <2>2. x \in heap' <=> x \in heap \/ x \in {c} \X S \/ x \in T
    BY DEF Malloc
  <2>3. Urls' = Urls
    BY DEF Urls
  <2> HIDE DEF Owned
  <2> QED BY <1>1, <1>2, <2>1, <2>2, <2>3
<1> QED BY <1>3 DEF Exact, Malloc

LEMMA OwnBlocksAdded ==
  ASSUME Exact, Registered' = Registered, sessions' = sessions, NEW c \in Conn, NEW S,
         \A d \in Conn \ {c} : request'[d] = request[d],
         Held(request'[c]) = Held(request[c]) \cup S,
         Malloc({c} \X S)
  PROVE  Exact'
<1>1. Sessions' = Sessions \cup {}
  BY DEF Sessions
<1>2. Malloc(({c} \X S) \cup {})
  BY DEF Malloc
<1> QED BY <1>1, <1>2, BlocksAdded

LEMMA BlocksFreed ==
  ASSUME Exact, Registered' = Registered, Registered \subseteq Url, sessions' = sessions,
         NEW c \in Conn, NEW S,
         \A d \in Conn \ {c} : request'[d] = request[d],
         S \subseteq Held(request[c]),
         Held(request'[c]) = Held(request[c]) \ S,
         Free({c} \X S)
  PROVE  Exact'
<1>1. \A d \in Conn \ {c} : Owned(d)' = Owned(d)
  BY DEF Owned
<1>2. Owned(c)' = Owned(c) \ ({c} \X S)
  BY Zenon DEF Owned
<1>3. {c} \X S \subseteq heap
  BY DEF Exact, Owned
<1>4. heap' = (UNION {Owned(d)' : d \in Conn}) \cup Urls' \cup Sessions'
  <2> SUFFICES ASSUME NEW x
               PROVE  x \in heap' <=> \/ \E d \in Conn : x \in Owned(d)'
                                      \/ x \in Urls' \/ x \in Sessions'
    BY Zenon
  <2>1. x \in heap <=> \/ \E d \in Conn : x \in Owned(d)
                        \/ x \in Urls \/ x \in Sessions
    BY Zenon DEF Exact
  <2>2. x \in heap' <=> x \in heap /\ x \notin {c} \X S
    BY DEF Free
  <2>3. ASSUME NEW d \in Conn \ {c}, x \in Owned(d) PROVE x \notin {c} \X S
    BY <2>3 DEF Owned
  <2>4. x \in Urls \/ x \in Sessions => x \notin {c} \X S
    <3>1. c # "url" /\ c # "session"
      BY HttpdAssumption DEF HttpdAssumption
    <3> QED BY <3>1 DEF Urls, Sessions
  <2>5. Urls' = Urls /\ Sessions' = Sessions
    BY DEF Urls, Sessions
  <2> HIDE DEF Owned
  <2> QED BY <1>1, <1>2, <2>1, <2>2, <2>3, <2>4, <2>5
<1> QED BY <1>3, <1>4 DEF Exact, Free

LEMMA RegisteredUrls == ASSUME Types, ListShape PROVE Registered \subseteq Url
  BY RegisteredFrom DEF Types, Place, Url, ListShape

-----------------------------------------------------------------------------
(***************************************************************************)
(* The main thread.  Steps of its own leave the connections as they are.   *)
(***************************************************************************)
LEMMA MainMoves ==
  ASSUME IInv, Start \/ Exit
  PROVE  IInv'
<1> USE DEF IInv, Start, Exit
<1>1. Registered' = Registered /\ UNCHANGED <<request, sessions, heap, fault, c_active>>
  BY ListKept DEF mem
<1>2. Types'
  BY DEF Types, list, conn, Url
<1>3. ListShape' /\ Calling'
  <2>1. UNCHANGED <<first, last, next, daemon, at>> /\ main \in {"start", "running"}
        /\ main' \in {"button", "quit"} /\ (main = "start" <=> main' = "button")
    BY DEF list, conn
  <2>2. ListShape'
    BY <2>1 DEF ListShape
  <2>3. Calling'
    BY <1>1, <2>1 DEF Calling
  <2> QED BY <2>2, <2>3
<1>4. Answerable'
  BY <1>1 DEF Answerable, Matches, conn
<1>5. Progress'
  BY <1>1 DEF Progress, Stands, Idling, Opened, Uploading, Matches, conn, NoRequest, Fresh
<1>6. Exact' /\ ActiveCounts'
  BY <1>1, MemoryKept, CountsKept
<1> QED BY <1>2, <1>3, <1>4, <1>5, <1>6

(***************************************************************************)
(* Appending to the list makes one more address reachable.                 *)
(***************************************************************************)
LEMMA AppendShape ==
  ASSUME Types, ListShape, main \in Url, LL_APP(main),
         main' = IF main = "button" THEN "count" ELSE "running"
  PROVE  /\ ListShape' /\ Registered' = Registered \cup {main}
         /\ first' \in Place /\ last' \in Place /\ next' \in [Url -> Place]
<1> USE DEF Types, ListShape, Url, Place, LL_APP
<1>1. CASE main = "button"
  <2>1. first' = "button" /\ last' = "button" /\ next'["button"] = "none" /\ next'["count"] = "none"
    BY <1>1
  <2>2. Registered = {}
    BY <1>1, RegisteredFrom
  <2>3. Registered' = {"button"}
    BY <2>1 DEF Registered
  <2> QED BY <1>1, <2>1, <2>2, <2>3
<1>2. CASE main = "count"
  <2>1. first' = "button" /\ last' = "count" /\ next'["button"] = "count" /\ next'["count"] = "none"
    BY <1>2
  <2>2. "button" \in Registered /\ Registered \subseteq {"button", "count"}
    BY <1>2, RegisteredFrom
  <2>3. Registered' = {"button", "count"}
    BY <2>1, RegisteredIs
  <2>4. Registered' = Registered \cup {main}
    BY <1>2, <2>2, <2>3
  <2>5. ListShape'
    BY <1>2, <2>1
  <2>6. first' \in Place /\ last' \in Place /\ next' \in [Url -> Place]
    BY <2>1
  <2> QED BY <2>4, <2>5, <2>6
<1> QED BY <1>1, <1>2

LEMMA RegisterStep == ASSUME IInv, httpd_register_url PROVE IInv'
<1> USE DEF IInv
<1>1. CASE LL_APP(main) /\ Malloc({<<"url", main>>})
           /\ main' = IF main = "button" THEN "count" ELSE "running"
  <2>1. /\ ListShape' /\ Registered' = Registered \cup {main}
        /\ first' \in Place /\ last' \in Place /\ next' \in [Url -> Place]
    BY <1>1, AppendShape DEF httpd_register_url
  <2>2. UNCHANGED <<up, daemon, at, asked, left, request, sessions, c_active, buttons, answer,
                    jar, known>> /\ main \in Url
    BY DEF httpd_register_url, conn
  <2>3. Types'
    BY <1>1, <2>1, <2>2 DEF Types, Url
  <2>4. Calling' /\ Progress' /\ Answerable'
    BY <1>1, <2>1, <2>2
    DEF Calling, Progress, Stands, Idling, Opened, Uploading, Matches, Answerable, Url
  <2>5. Exact'
    <3>1. /\ \A c \in Conn : Owned(c)' = Owned(c)
          /\ Sessions' = Sessions /\ Urls' = Urls \cup {<<"url", main>>}
      BY <2>1, <2>2 DEF Owned, Sessions, Urls
    <3> QED BY <1>1, <3>1 DEF Exact, Malloc
  <2>6. ActiveCounts'
    BY <2>2, CountsKept
  <2> QED BY <2>1, <2>3, <2>4, <2>5, <2>6
<1>2. CASE main' = "quit" /\ UNCHANGED <<list, mem>>
  <2>1. /\ UNCHANGED <<up, daemon, at, asked, left, request, sessions, c_active, buttons, answer,
                       jar, known, heap, fault, first, last, next>>
        /\ Registered' = Registered
    BY <1>2, ListKept DEF httpd_register_url, conn, list, mem
  <2>2. Types' /\ ListShape'
    BY <1>2, <2>1 DEF Types, ListShape, httpd_register_url, Url
  <2>3. Calling' /\ Progress' /\ Answerable'
    BY <1>2, <2>1 DEF Calling, Progress, Stands, Idling, Opened, Uploading, Matches, Answerable,
                      httpd_register_url, Url
  <2> QED BY <2>1, <2>2, <2>3, MemoryKept, CountsKept
<1> QED BY <1>1, <1>2 DEF httpd_register_url

LEMMA StopStep == ASSUME IInv, StopDaemon PROVE IInv'
<1> USE DEF IInv
<1>1. /\ UNCHANGED <<daemon, asked, left, request, sessions, c_active, buttons, answer,
                     jar, known, heap, fault, first, last, next>>
      /\ Registered' = Registered /\ main' = "closing" /\ up' = FALSE /\ daemon = Idle
      /\ at' = [c \in Conn |-> IF at[c] = "idle" THEN "idle" ELSE "over"]
  BY ListKept DEF StopDaemon, list, mem
<1>2. Types' /\ ListShape'
  BY <1>1 DEF Types, ListShape, Url
<1>3. Calling' /\ Answerable'
  BY <1>1 DEF Calling, Answerable, Idle
<1>4. Progress'
  BY <1>1 DEF Progress, Stands, Idling
<1> QED BY <1>1, <1>2, <1>3, <1>4, MemoryKept, CountsKept

(***************************************************************************)
(* Removing the first address: no call and no upload is there to hold it.  *)
(***************************************************************************)
LEMMA GetStep == ASSUME IInv, LL_GET_LOOP PROVE IInv'
<1> USE DEF IInv
<1>1. /\ UNCHANGED <<up, daemon, at, asked, left, request, sessions, c_active, buttons, answer,
                     jar, known, next>>
      /\ main = "closing" /\ \A c \in Conn : at[c] = "idle"
  BY DEF LL_GET_LOOP, list, conn
<1>2. daemon = Idle /\ ~up
  BY <1>1 DEF Answerable
<1>3. CASE first = "none" /\ main' = "gone" /\ UNCHANGED <<list, mem>>
  <2>1. UNCHANGED <<first, last, heap, fault>> /\ Registered' = Registered
    BY <1>3, ListKept DEF list, mem
  <2>2. Types' /\ ListShape' /\ Calling' /\ Answerable'
    BY <1>1, <1>2, <1>3, <2>1 DEF Types, ListShape, Calling, Answerable, Idle, Url
  <2>3. Progress'
    BY <1>1, <1>3, <2>1 DEF Progress, Stands, Idling
  <2> QED BY <1>1, <2>1, <2>2, <2>3, MemoryKept, CountsKept
<1>4. CASE /\ first # "none" /\ Free({<<"url", first>>}) /\ first' = next[first]
           /\ last' = (IF next[first] = "none" THEN "none" ELSE last)
           /\ main' = main
  <2>1. first \in Url /\ next[first] \in Place
    BY <1>4 DEF Types, Place
  <2>2. Types' /\ ListShape' /\ Calling' /\ Answerable'
    BY <1>1, <1>2, <1>4, <2>1 DEF Types, ListShape, Calling, Answerable, Idle, Url, Place
  <2>3. Progress'
    BY <1>1 DEF Progress, Stands, Idling
  <2>4. first \in Registered /\ Registered' = Registered \ {first}
    <3>1. CASE first = "button"
      <4>1. Registered = {"button", next["button"]} \ {"none"}
        BY <3>1, RegisteredFrom
      <4>2. /\ first' = "none" => Registered' = {}
            /\ first' = "count" => Registered' = {"count"}
        BY <1>1 DEF Registered, ListShape, Url
      <4> QED BY <1>4, <3>1, <4>1, <4>2 DEF ListShape
    <3>2. CASE first = "count"
      <4>1. Registered = {"count"}
        BY <3>2, RegisteredFrom
      <4>2. first' = "none"
        BY <1>4, <3>2 DEF ListShape
      <4>3. Registered' = {}
        BY <4>2 DEF Registered, Url
      <4> QED BY <3>2, <4>1, <4>3
    <3> QED BY <2>1, <3>1, <3>2 DEF Url
  <2>5. Exact'
    <3>1. \A c \in Conn : Owned(c)' = Owned(c) /\ <<"url", first>> \notin Owned(c)
      BY <1>1, <2>1 DEF Owned, Held, Url
    <3> HIDE DEF IInv
    <3>2. \A x : x \in UNION {Owned(c)' : c \in Conn} <=> x \in UNION {Owned(c) : c \in Conn}
      BY <3>1
    <3>3. <<"url", first>> \in heap
      BY <2>4 DEF Exact, IInv, Urls
    <3>4. heap' = heap \ {<<"url", first>>} /\ ~fault'
      BY <1>4, <3>3 DEF Free, Exact, IInv
    <3>5. <<"url", first>> \notin UNION {Owned(c) : c \in Conn}
      BY <3>1
    <3>6. \A x : x \in Urls' <=> x \in Urls /\ x # <<"url", first>>
      BY <2>4 DEF Urls
    <3>7. Sessions' = Sessions /\ <<"url", first>> \notin Sessions
      BY <1>1 DEF Sessions
    <3> QED BY <3>2, <3>4, <3>5, <3>6, <3>7 DEF Exact, IInv
  <2>6. ActiveCounts'
    BY <1>1, CountsKept
  <2> QED BY <2>2, <2>3, <2>5, <2>6
<1> QED BY <1>3, <1>4 DEF LL_GET_LOOP

-----------------------------------------------------------------------------
(***************************************************************************)
(* The browser.                                                            *)
(***************************************************************************)
LEMMA SendStep ==
  ASSUME IInv, NEW c \in Conn, NEW r \in Request, Send(c, r)
  PROVE  IInv'
<1> USE DEF IInv
<1>1. /\ UNCHANGED <<main, up, first, last, next, daemon, request, sessions, c_active, buttons,
                     answer, jar, known, heap, fault>>
      /\ Registered' = Registered /\ up /\ at[c] = "idle"
      /\ at' = [at EXCEPT ![c] = "sent"] /\ asked' = [asked EXCEPT ![c] = r]
      /\ left' = [left EXCEPT ![c] = IF r.method = "PUT" THEN 2 ELSE 0]
  BY ListKept DEF Send, list, mem
<1>2. Types'
  BY <1>1 DEF Types
<1>3. ListShape'
  BY <1>1 DEF ListShape
<1>4. daemon.c # c /\ Idling(c)
  BY <1>1, HttpdAssumption DEF HttpdAssumption, Calling, Progress, Stands, Types
<1>5. /\ at \in [Conn -> {"idle", "sent", "upload", "answered", "over"}]
      /\ asked \in [Conn -> Request \cup {Nothing}] /\ left \in [Conn -> 0..2]
      /\ daemon \in [c : Conn \cup {"none"}, u : Place]
  BY DEF Types
<1>6. Calling'
  BY <1>1, <1>4, <1>5 DEF Calling
<1>7. Answerable'
  BY <1>1, <1>4, <1>5 DEF Answerable
<1>8. Progress'
  <2>1. ASSUME NEW d \in Conn, d # c PROVE Stands(d)'
    BY <1>1, <1>5, <2>1, OthersStand
  <2>2. at'[c] = "sent" /\ asked'[c] = r /\ request'[c] = NoRequest /\ answer'[c] = "none"
        /\ left'[c] = IF r.method = "PUT" THEN 2 ELSE 0
    BY <1>1, <1>4, <1>5 DEF Idling
  <2>3. Stands(c)'
    BY <1>1, <1>4, <2>2 DEF Stands, Opened, NoRequest, Fresh
  <2> QED BY <2>1, <2>3 DEF Progress
<1> QED BY <1>1, <1>2, <1>3, <1>6, <1>7, <1>8, MemoryKept, CountsKept

LEMMA ReceiveStep == ASSUME IInv, NEW c \in Conn, Receive(c) PROVE IInv'
<1> USE DEF IInv
<1>1. /\ UNCHANGED <<main, up, first, last, next, daemon, asked, left, request, sessions, c_active,
                     buttons, answer, known, heap, fault>>
      /\ Registered' = Registered /\ at[c] = "answered"
      /\ at' = [at EXCEPT ![c] = "over"]
      /\ jar' \in {jar, request[c].session}
  BY ListKept DEF Receive, list, mem
<1>2. Types'
  BY <1>1 DEF Types, NoCookie
<1>3. ListShape'
  BY <1>1 DEF ListShape
<1>4. Calling' /\ Answerable'
  BY <1>1 DEF Calling, Answerable, Types
<1>5. Progress'
  BY <1>1 DEF Progress, Stands, Idling, Opened, Uploading, NoRequest, Fresh, Types
<1> QED BY <1>1, <1>2, <1>3, <1>4, <1>5, MemoryKept, CountsKept

LEMMA AbortStep == ASSUME IInv, NEW c \in Conn, Abort(c) PROVE IInv'
<1> USE DEF IInv
<1>1. /\ UNCHANGED <<main, up, first, last, next, daemon, asked, left, request, sessions, c_active,
                     buttons, answer, jar, known, heap, fault>>
      /\ Registered' = Registered /\ at[c] # "idle" /\ daemon.c # c
      /\ at' = [at EXCEPT ![c] = "over"]
  BY ListKept DEF Abort, list, mem
<1>2. Types'
  BY <1>1 DEF Types
<1>3. ListShape'
  BY <1>1 DEF ListShape
<1>4. Calling' /\ Answerable'
  BY <1>1 DEF Calling, Answerable, Types
<1>5. Progress'
  BY <1>1 DEF Progress, Stands, Idling, Opened, Uploading, NoRequest, Fresh, Types
<1> QED BY <1>1, <1>2, <1>3, <1>4, <1>5, MemoryKept, CountsKept

-----------------------------------------------------------------------------
(***************************************************************************)
(* A request joins a session, and leaves it.                               *)
(***************************************************************************)
InSession(s) == {c \in Conn : request[c].session = s}

LEMMA SessionFinite == \A s : IsFiniteSet(InSession(s))
<1> SUFFICES ASSUME NEW s PROVE IsFiniteSet(InSession(s))
  OBVIOUS
<1>1. InSession(s) \in SUBSET Conn
  BY DEF InSession
<1> QED BY <1>1, FS_Subset, HttpdAssumption DEF HttpdAssumption

LEMMA CountJoins ==
  ASSUME ActiveCounts, c_active \in [1..MaxSessions -> Nat],
         NEW c \in Conn, NEW s \in 1..MaxSessions,
         request[c].session = 0, request'[c].session = s,
         \A d \in Conn \ {c} : request'[d] = request[d],
         c_active' = [c_active EXCEPT ![s] = @ + 1]
  PROVE  ActiveCounts' /\ c_active' \in [1..MaxSessions -> Nat]
<1>1. ASSUME NEW t \in 1..MaxSessions \ {s} PROVE InSession(t)' = InSession(t)
  BY DEF InSession
<1>2. InSession(s)' = InSession(s) \cup {c} /\ c \notin InSession(s)
  BY DEF InSession
<1>3. Cardinality(InSession(s)') = Cardinality(InSession(s)) + 1
  BY <1>2, SessionFinite, FS_AddElement
<1>4. \A t \in 1..MaxSessions : c_active[t] = Cardinality(InSession(t))
  BY DEF ActiveCounts, InSession
<1>5. \A t \in 1..MaxSessions : c_active'[t] = Cardinality(InSession(t)')
  BY <1>1, <1>3, <1>4
<1> QED BY <1>5 DEF ActiveCounts, InSession

LEMMA CountLeaves ==
  ASSUME ActiveCounts, c_active \in [1..MaxSessions -> Nat],
         NEW c \in Conn, NEW s \in 1..MaxSessions,
         request[c].session = s, request'[c].session = 0,
         \A d \in Conn \ {c} : request'[d] = request[d],
         c_active' = [c_active EXCEPT ![s] = @ - 1]
  PROVE  ActiveCounts' /\ c_active' \in [1..MaxSessions -> Nat]
<1>1. ASSUME NEW t \in 1..MaxSessions \ {s} PROVE InSession(t)' = InSession(t)
  BY DEF InSession
<1>2. InSession(s)' = InSession(s) \ {c} /\ c \in InSession(s)
  BY DEF InSession
<1>3. Cardinality(InSession(s)') = Cardinality(InSession(s)) - 1
  BY <1>2, SessionFinite, FS_RemoveElement
<1>4. IsFiniteSet(InSession(s)')
  BY <1>2, SessionFinite, FS_RemoveElement
<1>5. Cardinality(InSession(s)') \in Nat
  BY <1>4, FS_CardinalityType
<1>6. \A t \in 1..MaxSessions : c_active[t] = Cardinality(InSession(t))
  BY DEF ActiveCounts, InSession
<1>7. \A t \in 1..MaxSessions : c_active'[t] = Cardinality(InSession(t)')
  BY <1>1, <1>3, <1>6
<1>8. c_active' \in [1..MaxSessions -> Nat]
  BY <1>3, <1>5, <1>6
<1> QED BY <1>7, <1>8 DEF ActiveCounts, InSession

-----------------------------------------------------------------------------
(***************************************************************************)
(* The first call.                                                         *)
(***************************************************************************)
LEMMA SessionNumber ==
  ASSUME Types, NEW c \in Conn
  PROVE  Session(c) \in 1..(sessions + 1)
  BY DEF Types, Session

(***************************************************************************)
(* The block of the session is there, or comes with it.                    *)
(***************************************************************************)
LEMMA SessionBlock ==
  ASSUME Types, NEW c \in Conn, httpd_session_find(c)
  PROVE  /\ Session(c) \in 1..MaxSessions /\ Session(c) <= sessions'
         /\ sessions' \in 0..MaxSessions /\ sessions <= sessions'
         /\ Sessions' = Sessions \cup {<<"session", Session(c)>>}
<1>1. /\ Session(c) \in 1..(sessions + 1) /\ sessions \in 0..MaxSessions
      /\ MaxSessions \in Nat /\ Session(c) <= MaxSessions
      /\ sessions' = IF Session(c) > sessions THEN Session(c) ELSE sessions
  BY SessionNumber, HttpdAssumption DEF Types, httpd_session_find, HttpdAssumption
<1>2. 1..sessions' = (1..sessions) \cup {Session(c)}
  BY <1>1
<1> QED BY <1>1, <1>2 DEF Sessions

LEMMA FindFails ==
  ASSUME IInv, NEW c \in Conn, httpd_request_find(c), Refused(c) \/ HalfFound(c)
  PROVE  IInv'
<1> USE DEF IInv
<1>1. /\ UNCHANGED <<main, up, first, last, next, daemon, asked, left, request, c_active,
                     buttons, answer, jar, known>>
      /\ Registered' = Registered /\ at[c] = "sent" /\ daemon = Idle
      /\ at' = [at EXCEPT ![c] = "over"]
  BY ListKept DEF httpd_request_find, Refused, HalfFound, list
<1>2. sessions' \in 0..MaxSessions /\ sessions <= sessions' /\ Exact'
  <2>1. CASE Refused(c)
    <3>1. UNCHANGED <<sessions, heap, fault>>
      BY <2>1 DEF Refused, mem
    <3> QED BY <1>1, <3>1, MemoryKept DEF Types
  <2>2. CASE HalfFound(c)
    <3>1. httpd_session_find(c) /\ Malloc({<<"session", Session(c)>>})
      BY <2>2 DEF HalfFound
    <3>2. Malloc(({c} \X {}) \cup {<<"session", Session(c)>>})
      <4>1. {c} \X {} = {}
        OBVIOUS
      <4> QED BY <3>1, <4>1
    <3>3. Held(request'[c]) = Held(request[c]) \cup {}
      BY <1>1
    <3>4. Exact'
      BY <1>1, <3>1, <3>2, <3>3, SessionBlock, BlocksAdded
    <3> QED BY <3>1, <3>4, SessionBlock
  <2> QED BY <2>1, <2>2
<1>3. Types'
  BY <1>1, <1>2 DEF Types
<1>4. ListShape'
  BY <1>1 DEF ListShape
<1>5. Calling' /\ Answerable'
  BY <1>1 DEF Calling, Answerable, Types, Idle
<1>6. Progress'
  BY <1>1 DEF Progress, Stands, Idling, Opened, Uploading, NoRequest, Fresh, Types
<1> QED BY <1>1, <1>2, <1>3, <1>4, <1>5, <1>6, CountsKept

LEMMA FindStep ==
  ASSUME IInv, NEW c \in Conn, httpd_request_find(c), Found(c)
  PROVE  IInv'
<1> USE DEF IInv
<1>1. /\ UNCHANGED <<main, up, first, last, next, at, asked, left, buttons, answer, jar, known>>
      /\ Registered' = Registered /\ at[c] = "sent" /\ daemon = Idle /\ up
      /\ daemon' = [c |-> c, u |-> first]
  BY ListKept DEF httpd_request_find, Found, list
<1>2. /\ request' = [request EXCEPT ![c] = Fresh(Session(c))]
      /\ c_active' = [c_active EXCEPT ![Session(c)] = @ + 1]
      /\ Malloc({<<"session", Session(c)>>, <<c, "request">>})
  BY DEF Found
<1>3. /\ Session(c) \in 1..MaxSessions /\ Session(c) <= sessions'
      /\ sessions' \in 0..MaxSessions /\ sessions <= sessions'
      /\ Sessions' = Sessions \cup {<<"session", Session(c)>>}
  BY SessionBlock DEF Found
<1>4. c # "none" /\ request[c] = NoRequest /\ c # daemon.c
  BY <1>1, HttpdAssumption DEF HttpdAssumption, Progress, Stands, Opened, Idle
<1>5. /\ \A d \in Conn \ {c} : request'[d] = request[d]
      /\ request'[c] = Fresh(Session(c))
  BY <1>2 DEF Types
<1>6. /\ request'[c] = [session |-> Session(c), u |-> "none", pp |-> FALSE, data |-> <<>>,
                        restr |-> {}]
      /\ request'[c] # NoRequest
  BY <1>3, <1>5 DEF NoRequest, Fresh
<1>7. ActiveCounts' /\ c_active' \in [1..MaxSessions -> Nat]
  <2>1. request[c].session = 0 /\ request'[c].session = Session(c)
    BY <1>4, <1>6 DEF NoRequest, Fresh
  <2>2. c_active \in [1..MaxSessions -> Nat]
    BY DEF Types
  <2> QED BY <1>2, <1>3, <1>5, <2>1, <2>2, CountJoins
<1>8. Exact'
  <2>1. Held(request'[c]) = Held(request[c]) \cup {"request"}
    BY <1>4, <1>6 DEF Held, NoRequest, Fresh
  <2>2. Malloc(({c} \X {"request"}) \cup {<<"session", Session(c)>>})
    <3>1. ({c} \X {"request"}) \cup {<<"session", Session(c)>>}
            = {<<"session", Session(c)>>, <<c, "request">>}
      OBVIOUS
    <3> QED BY <1>2, <3>1
  <2> QED BY <1>1, <1>3, <1>5, <2>1, <2>2, BlocksAdded
<1>9. Types'
  <2>1. request'[c] \in [session : 0..MaxSessions, u : Place, pp : BOOLEAN, data : Pieces,
                         restr : SUBSET {"match", "number"}]
    <3>1. <<>> \in Pieces
      BY <1>4 DEF Types, NoRequest, Fresh
    <3> QED BY <1>3, <1>6, <3>1 DEF Place
  <2>2. request' \in [Conn -> [session : 0..MaxSessions, u : Place, pp : BOOLEAN, data : Pieces,
                               restr : SUBSET {"match", "number"}]]
    BY <1>2, <1>5, <2>1 DEF Types
  <2>3. \A d \in Conn : request'[d].session <= sessions'
    <3>1. \A d \in Conn \ {c} : request'[d].session \in Int /\ request'[d].session <= sessions
      BY <1>5 DEF Types
    <3>2. request'[c].session <= sessions' /\ sessions \in Int /\ sessions' \in Int
      BY <1>3, <1>6 DEF Types
    <3> QED BY <1>3, <3>1, <3>2
  <2>4. daemon' \in [c : Conn \cup {"none"}, u : Place]
    BY <1>1 DEF Types
  <2> QED BY <1>1, <1>3, <1>7, <2>2, <2>3, <2>4 DEF Types
<1>10. ListShape'
  BY <1>1 DEF ListShape
<1>11. Calling'
  BY <1>1, <1>4, <1>6, RegisteredIs DEF Calling
<1>12. Answerable'
  <2>1. main \notin {"closing", "gone"} /\ known \subseteq Registered /\ first # "count"
    BY <1>1 DEF Answerable, ListShape
  <2>2. first = "none" => known = {}
    BY <2>1, RegisteredFrom
  <2>3. first \in {"none", "button"}
    BY <2>1 DEF Types, Place, Url
  <2> QED BY <1>1, <2>1, <2>2, <2>3 DEF Answerable
<1>13. Progress'
  <2>1. ASSUME NEW d \in Conn, d # c PROVE Stands(d)'
    <3>1. daemon.c # d
      BY <1>1, HttpdAssumption DEF HttpdAssumption, Idle
    <3> QED BY <1>1, <1>5, <2>1, <3>1, OthersStand
  <2>2. request'[c].session = Session(c) /\ request'[c] = Fresh(request'[c].session)
    BY <1>6 DEF Fresh
  <2>3. Opened(c)'
    <3>1. Opened(c)
      BY <1>1 DEF Progress, Stands
    <3> QED BY <1>1, <2>2, <3>1 DEF Opened
  <2>4. Stands(c)'
    <3>1. asked'[c] \in Request
      BY <1>1 DEF Progress, Stands
    <3>2. request'[c].session # 0
      BY <1>3, <2>2
    <3> QED BY <1>1, <2>3, <3>1, <3>2 DEF Stands
  <2> QED BY <2>1, <2>4 DEF Progress
<1> QED BY <1>7, <1>8, <1>9, <1>10, <1>11, <1>12, <1>13

-----------------------------------------------------------------------------
(***************************************************************************)
(* The loop through the addresses.                                         *)
(***************************************************************************)
LEMMA ScanFinds ==
  ASSUME IInv, NEW c \in Conn, NEW u, Scan(c, u)
  PROVE  /\ daemon.c = c /\ daemon.u = u /\ c # "none" /\ at[c] = "sent" /\ Opened(c)
         /\ request[c] = Fresh(request[c].session) /\ request[c].session # 0
         /\ asked[c] \in Request /\ main \notin {"closing", "gone"}
         /\ u # "none" => u \in Registered
         /\ UNCHANGED <<main, up, first, last, next, asked, left, sessions, c_active, jar>>
         /\ Registered' = Registered
<1>1. daemon.c = c /\ daemon.u = u /\ daemon = [c |-> c, u |-> u] /\ c # "none"
  BY HttpdAssumption DEF HttpdAssumption, Scan
<1>2. at[c] = "sent" /\ request[c] # NoRequest /\ (u # "none" => u \in Registered)
  BY <1>1 DEF IInv, Calling
<1>3. Opened(c) /\ asked[c] \in Request /\ request[c].session # 0
  BY <1>2 DEF IInv, Progress, Stands
<1>4. main \notin {"closing", "gone"}
  BY <1>1 DEF IInv, Answerable, Idle
<1>5. UNCHANGED <<main, up, first, last, next, asked, left, sessions, c_active, jar>>
  BY DEF Scan, list
<1> QED BY <1>1, <1>2, <1>3, <1>4, <1>5, ListKept DEF Opened, list

LEMMA ContinueStep ==
  ASSUME IInv, NEW c \in Conn, NEW u \in Url, Continue(c, u)
  PROVE  IInv'
<1> USE DEF IInv
<1>1. /\ daemon.c = c /\ daemon.u = u /\ c # "none" /\ main \notin {"closing", "gone"}
      /\ u \in Registered /\ asked[c] \in Request
      /\ UNCHANGED <<main, up, first, last, next, asked, left, sessions, c_active, jar>>
      /\ Registered' = Registered
  BY ScanFinds DEF Continue
<1>2. /\ UNCHANGED <<at, request, buttons, answer, known, heap, fault>>
      /\ ~Matches(u, asked[c]) /\ daemon' = [daemon EXCEPT !.u = next[u]]
  BY DEF Continue, mem
<1>3. daemon'.c = c /\ daemon'.u = next[u]
  BY <1>1, <1>2 DEF Types
<1>4. first = "button" /\ known \subseteq Registered
  <2>1. first # "none" /\ first # "count"
    BY <1>1, RegisteredFrom DEF ListShape
  <2> QED BY <1>1, <2>1 DEF Types, Place, Url, Answerable
<1>5. Types'
  <2>1. daemon' \in [c : Conn \cup {"none"}, u : Place]
    BY <1>2 DEF Types
  <2> QED BY <1>1, <1>2, <2>1 DEF Types
<1>6. ListShape'
  BY <1>1 DEF ListShape
<1>7. Calling'
  <2>1. next[u] = "none" \/ (u = "button" /\ next[u] \in Registered)
    BY <1>4, RegisteredIs DEF ListShape, Url
  <2> QED BY <1>1, <1>2, <1>3, <2>1 DEF Calling
<1>8. Answerable'
  <2>1. asked[c].url = "button" /\ next[u] # "button" => "button" \notin known
    <3>1. CASE u = "button"
      BY <1>2, <3>1 DEF Matches
    <3>2. CASE u = "count"
      BY <1>1, <3>2 DEF Answerable
    <3> QED BY <3>1, <3>2 DEF Url
  <2>2. Matches("count", asked[c]) /\ next[u] = "none" => "count" \notin known
    <3>1. CASE u = "button"
      BY <1>4, <3>1, RegisteredFrom
    <3>2. CASE u = "count"
      BY <1>2, <3>2
    <3> QED BY <3>1, <3>2 DEF Url
  <2> QED BY <1>1, <1>2, <1>3, <1>4, <2>1, <2>2 DEF Answerable
<1>9. Progress'
  <2> SUFFICES ASSUME NEW d \in Conn PROVE Stands(d)'
    BY DEF Progress
  <2> QED BY <1>1, <1>2, <1>3, OthersStand
<1> QED BY <1>1, <1>2, <1>5, <1>6, <1>7, <1>8, <1>9, MemoryKept, CountsKept

(***************************************************************************)
(* A call that is through with its request, or that comes later: what is   *)
(* left to show of each is how far the connection is, and its memory.      *)
(***************************************************************************)
RequestType == [session : 0..MaxSessions, u : Place, pp : BOOLEAN, data : Pieces, restr : SUBSET {"match", "number"}]

LEMMA CallEnds ==
  ASSUME IInv, NEW c \in Conn, NEW r \in RequestType,
         main \notin {"closing", "gone"}, daemon.c \in {c, "none"},
         UNCHANGED <<main, up, first, last, next, asked, sessions, c_active, jar>>,
         daemon' = Idle, request' = [request EXCEPT ![c] = r],
         r.session = request[c].session,
         at' \in [Conn -> {"idle", "sent", "upload", "answered", "over"}],
         left' \in [Conn -> 0..2],
         answer' \in [Conn -> {"none", "on", "off", "count", "file", "404"}],
         buttons' \in [Button -> BOOLEAN],
         known' \subseteq Registered,
         \A d \in Conn \ {c} : at'[d] = at[d] /\ answer'[d] = answer[d] /\ left'[d] = left[d],
         Stands(c)', Exact'
  PROVE  IInv'
<1> USE DEF IInv
<1>1. Registered' = Registered /\ Registered \subseteq Url
  BY ListKept, RegisteredUrls DEF list
<1>2. request'[c] = r /\ \A d \in Conn \ {c} : request'[d] = request[d]
  BY DEF Types
<1>3. Types'
  <2>1. request' \in [Conn -> [session : 0..MaxSessions, u : Place, pp : BOOLEAN, data : Pieces,
                               restr : SUBSET {"match", "number"}]]
    BY DEF Types, RequestType
  <2>2. \A d \in Conn : request'[d].session <= sessions'
    BY <1>2 DEF Types
  <2>3. daemon' \in [c : Conn \cup {"none"}, u : Place]
    BY DEF Idle, Place
  <2> QED BY <1>1, <2>1, <2>2, <2>3 DEF Types
<1>4. ListShape'
  BY DEF ListShape
<1>5. Calling' /\ Answerable'
  BY <1>1 DEF Calling, Answerable, Idle
<1>6. Progress'
  <2> SUFFICES ASSUME NEW d \in Conn, d # c PROVE Stands(d)'
    BY DEF Progress
  <2>1. daemon.c # d
    BY HttpdAssumption DEF HttpdAssumption
  <2> QED BY <1>1, <1>2, <2>1, OthersStand
<1>7. ActiveCounts'
  BY <1>2, CountsKept
<1> QED BY <1>3, <1>4, <1>5, <1>6, <1>7

-----------------------------------------------------------------------------
(***************************************************************************)
(* What a handler does to the switches, the answer and the request.        *)
(***************************************************************************)
LEMMA AfterBoolean ==
  ASSUME buttons \in [Button -> BOOLEAN], NEW sw \in Nat, NEW data
  PROVE  After(sw, data) \in BOOLEAN
  BY Zenon DEF After

LEMMA ButtonByte ==
  ASSUME NEW r \in Request
  PROVE  r.button \in Nat /\ r.button % ByteSpan \in Nat
<1>1. r.button \in Nat /\ ByteSpan \in Nat \ {0}
  BY HttpdAssumption DEF HttpdAssumption
<1> QED BY <1>1

LEMMA CallbackTypes ==
  ASSUME Types, NEW c \in Conn, NEW u \in Url, NEW data, asked[c] \in Request,
         callback(c, u, data)
  PROVE  /\ buttons' \in [Button -> BOOLEAN]
         /\ answer' \in [Conn -> {"none", "on", "off", "count", "file", "404"}]
         /\ answer'[c] \in {"on", "off", "count"}
         /\ \A d \in Conn \ {c} : answer'[d] = answer[d]
         /\ at' \in [Conn -> {"idle", "sent", "upload", "answered", "over"}]
         /\ at'[c] \in {"answered", "over"}
         /\ \A d \in Conn \ {c} : at'[d] = at[d]
         /\ known' = known \cup {u}
<1>1. /\ answer \in [Conn -> {"none", "on", "off", "count", "file", "404"}]
      /\ buttons \in [Button -> BOOLEAN]
  BY DEF Types
<1>2. /\ at' \in [Conn -> {"idle", "sent", "upload", "answered", "over"}]
      /\ at'[c] \in {"answered", "over"}
      /\ \A d \in Conn \ {c} : at'[d] = at[d]
      /\ known' = known \cup {u}
  BY DEF callback, MHD_queue_response, Types
<1>3. CASE web_req_button(c, data)
  <2> DEFINE sw == asked[c].button % ByteSpan
  <2>1. After(sw, data) \in BOOLEAN
    BY <1>1, AfterBoolean, ButtonByte
  <2>2. /\ buttons' = [b \in Button |-> IF b = sw THEN After(sw, data) ELSE buttons[b]]
        /\ answer' = [answer EXCEPT ![c] =
              IF After(sw, data) /\ data # Body("none") THEN "on" ELSE "off"]
    BY <1>3 DEF web_req_button
  <2>3. buttons' \in [Button -> BOOLEAN]
    <3> HIDE DEF sw
    <3> QED BY <1>1, <2>1, <2>2, Zenon
  <2>4. \E a \in {"on", "off"} : answer' = [answer EXCEPT ![c] = a]
    BY <2>2, Zenon
  <2> QED BY <1>1, <1>2, <2>3, <2>4
<1>4. CASE answer' = [answer EXCEPT ![c] = "count"] /\ UNCHANGED buttons
  BY <1>1, <1>2, <1>4
<1> QED BY <1>3, <1>4 DEF callback

LEMMA AnsweredStands ==
  ASSUME NEW c \in Conn, Stands(c), at[c] # "idle", at'[c] \in {"answered", "over"},
         asked' = asked, request[c].session # 0, request'[c].session = request[c].session
  PROVE  Stands(c)'
  BY DEF Stands

LEMMA ServeStep ==
  ASSUME IInv, NEW c \in Conn, NEW u \in Url, Serve(c, u)
  PROVE  IInv'
<1>1. /\ daemon.c = c /\ at[c] = "sent" /\ asked[c] \in Request /\ main \notin {"closing", "gone"}
      /\ request[c] = Fresh(request[c].session) /\ request[c].session # 0
      /\ u \in Registered /\ Registered' = Registered
      /\ UNCHANGED <<main, up, first, last, next, asked, left, sessions, c_active, jar>>
  BY ScanFinds DEF Serve
<1>2. PICK restr \in SUBSET Substrings(u) :
        request' = [request EXCEPT ![c].restr = restr] /\ Malloc({c} \X restr)
  BY DEF Serve
<1> DEFINE r == [request[c] EXCEPT !.restr = restr]
<1>3. daemon' = Idle /\ callback(c, u, <<>>)
  BY DEF Serve
<1>4. r \in RequestType /\ r.session = request[c].session /\ restr \subseteq {"match", "number"}
      /\ r = [Fresh(request[c].session) EXCEPT !.restr = restr]
      /\ request' = [request EXCEPT ![c] = r] /\ request'[c] = r
      /\ \A d \in Conn \ {c} : request'[d] = request[d]
  <2>1. restr \subseteq {"match", "number"} /\ request \in [Conn -> RequestType]
    BY <1>2 DEF Substrings, IInv, Types, RequestType
  <2>2. r \in RequestType /\ r.session = request[c].session
    BY <2>1 DEF RequestType
  <2> QED BY <1>1, <1>2, <2>1, <2>2
<1>5. /\ buttons' \in [Button -> BOOLEAN]
      /\ answer' \in [Conn -> {"none", "on", "off", "count", "file", "404"}]
      /\ \A d \in Conn \ {c} : answer'[d] = answer[d]
      /\ at' \in [Conn -> {"idle", "sent", "upload", "answered", "over"}]
      /\ at'[c] \in {"answered", "over"} /\ \A d \in Conn \ {c} : at'[d] = at[d]
      /\ known' = known \cup {u}
  BY <1>1, <1>3, CallbackTypes DEF IInv
<1>6. /\ left' \in [Conn -> 0..2] /\ left' = left
      /\ known' \subseteq Registered
  BY <1>1, <1>5 DEF IInv, Types, Answerable
<1>7. Stands(c)'
  <2> HIDE DEF r
  <2> QED BY <1>1, <1>4, <1>5, AnsweredStands DEF IInv, Progress
<1>8. Exact'
  <2>1. Held(request'[c]) = Held(request[c]) \cup restr
    <3>1. request[c] # NoRequest /\ r # NoRequest /\ request[c].restr = {}
          /\ r.restr = restr /\ ~r.pp /\ ~request[c].pp /\ r.data = request[c].data
      BY <1>1, <1>4 DEF Fresh, NoRequest
    <3> HIDE DEF r
    <3> QED BY <1>4, <3>1 DEF Held
  <2> HIDE DEF r
  <2> QED BY <1>1, <1>2, <1>4, <2>1, OwnBlocksAdded DEF IInv
<1> HIDE DEF r
<1> QED BY <1>1, <1>3, <1>4, <1>5, <1>6, <1>7, <1>8, CallEnds

LEMMA ExpectStep ==
  ASSUME IInv, NEW c \in Conn, NEW u \in Url, Expect(c, u)
  PROVE  IInv'
<1>1. /\ daemon.c = c /\ at[c] = "sent" /\ asked[c] \in Request /\ main \notin {"closing", "gone"}
      /\ request[c] = Fresh(request[c].session) /\ request[c].session # 0 /\ Opened(c)
      /\ u \in Registered /\ Registered' = Registered
      /\ UNCHANGED <<main, up, first, last, next, asked, left, sessions, c_active, jar>>
  BY ScanFinds DEF Expect
<1>2. /\ daemon' = Idle /\ UNCHANGED <<buttons, answer, known>>
      /\ Matches(u, asked[c]) /\ asked[c].method = "PUT"
  BY DEF Expect
<1>3. PICK restr \in SUBSET Substrings(u), pp \in BOOLEAN :
        /\ request' = [request EXCEPT ![c].restr = restr, ![c].u = u, ![c].pp = pp]
        /\ Malloc({c} \X (restr \cup (IF pp THEN {"pp"} ELSE {})))
        /\ at' = [at EXCEPT ![c] = IF pp THEN "upload" ELSE "over"]
  BY DEF Expect
<1> DEFINE r == [request[c] EXCEPT !.restr = restr, !.u = u, !.pp = pp]
<1>4. r \in RequestType /\ r.session = request[c].session /\ restr \subseteq {"match", "number"}
      /\ r.restr = restr /\ r.pp = pp /\ r.u = u /\ r.data = request[c].data
      /\ request' = [request EXCEPT ![c] = r]
      /\ request'[c] = r /\ \A d \in Conn \ {c} : request'[d] = request[d]
  <2>1. request \in [Conn -> RequestType] /\ restr \subseteq {"match", "number"}
    BY <1>3 DEF IInv, Types, RequestType, Substrings
  <2>2. r \in RequestType /\ r.session = request[c].session
        /\ r.restr = restr /\ r.pp = pp /\ r.u = u /\ r.data = request[c].data
    BY <2>1 DEF RequestType, Place
  <2>3. request' = [request EXCEPT ![c] = r]
    BY <1>3, <2>1 DEF RequestType
  <2> HIDE DEF r
  <2> QED BY <2>1, <2>2, <2>3
<1>5. /\ at' \in [Conn -> {"idle", "sent", "upload", "answered", "over"}]
      /\ at'[c] = (IF pp THEN "upload" ELSE "over") /\ \A d \in Conn \ {c} : at'[d] = at[d]
  BY <1>3 DEF IInv, Types
<1>6. known' \subseteq Registered
  BY <1>1, <1>2 DEF IInv, Answerable
<1>7. Stands(c)'
  <2>1. CASE ~pp
    <3> HIDE DEF r
    <3> QED BY <1>1, <1>4, <1>5, <2>1, AnsweredStands DEF IInv, Progress
  <2>2. CASE pp
    <3>1. request'[c].u = u /\ request'[c].pp /\ request'[c].data = <<>>
          /\ request'[c].session = request[c].session
      <4>1. request[c].data = <<>>
        BY <1>1 DEF Fresh
      <4> HIDE DEF r
      <4> QED BY <1>4, <2>2, <4>1
    <3>2. answer'[c] = "none" /\ left'[c] = 2
      BY <1>1, <1>2 DEF Opened
    <3>3. Uploading(c)'
      BY <1>1, <1>2, <3>1, <3>2 DEF Uploading, Sent, Matches
    <3> QED BY <1>1, <1>5, <2>2, <3>1, <3>3 DEF Stands
  <2> QED BY <2>1, <2>2
<1>8. Exact'
  <2>1. Held(r) = Held(request[c]) \cup (restr \cup (IF pp THEN {"pp"} ELSE {}))
    <3>1. request[c] # NoRequest /\ ~request[c].pp /\ request[c].data = <<>>
          /\ request[c].restr = {} /\ NoRequest.session = 0
      BY <1>1 DEF Fresh, NoRequest
    <3> HIDE DEF r
    <3> QED BY <1>1, <1>4, <3>1 DEF Held
  <2> HIDE DEF r
  <2> QED BY <1>1, <1>3, <1>4, <2>1, OwnBlocksAdded DEF IInv
<1>9. /\ buttons' \in [Button -> BOOLEAN] /\ left' \in [Conn -> 0..2]
      /\ answer' \in [Conn -> {"none", "on", "off", "count", "file", "404"}]
  BY <1>1, <1>2 DEF IInv, Types
<1> HIDE DEF r
<1> QED BY <1>1, <1>2, <1>4, <1>5, <1>6, <1>7, <1>8, <1>9, CallEnds

LEMMA DefaultStep == ASSUME IInv, NEW c \in Conn, Default(c) PROVE IInv'
<1>1. /\ daemon.c = c /\ at[c] = "sent" /\ asked[c] \in Request /\ main \notin {"closing", "gone"}
      /\ request[c].session # 0 /\ Registered' = Registered
      /\ UNCHANGED <<main, up, first, last, next, asked, left, sessions, c_active, jar>>
  BY ScanFinds DEF Default
<1>2. /\ daemon' = Idle /\ UNCHANGED <<request, buttons, known, heap, fault>>
      /\ \E how \in {"answered", "over"} : at' = [at EXCEPT ![c] = how]
  BY DEF Default, MHD_queue_response, mem
<1>3. \E a \in {"file", "404"} : answer' = [answer EXCEPT ![c] = a]
  BY DEF Default, httpd_get_default, httpd_404
<1>4. /\ request[c] \in RequestType /\ request' = [request EXCEPT ![c] = request[c]]
      /\ buttons' \in [Button -> BOOLEAN] /\ left' \in [Conn -> 0..2]
  BY <1>1, <1>2 DEF IInv, Types, RequestType
<1>5. /\ answer' \in [Conn -> {"none", "on", "off", "count", "file", "404"}]
      /\ \A d \in Conn \ {c} : answer'[d] = answer[d]
  BY <1>3 DEF IInv, Types
<1>6. /\ at' \in [Conn -> {"idle", "sent", "upload", "answered", "over"}]
      /\ at'[c] \in {"answered", "over"} /\ \A d \in Conn \ {c} : at'[d] = at[d]
  BY <1>2 DEF IInv, Types
<1>7. known' \subseteq Registered
  BY <1>1, <1>2 DEF IInv, Answerable
<1>8. Stands(c)'
  BY <1>1, <1>2, <1>6, AnsweredStands DEF IInv, Progress
<1>9. Exact'
  BY <1>1, <1>2, MemoryKept DEF IInv
<1> QED BY <1>1, <1>2, <1>4, <1>5, <1>6, <1>7, <1>8, <1>9, CallEnds

-----------------------------------------------------------------------------
(***************************************************************************)
(* Further calls.                                                          *)
(***************************************************************************)
LEMMA UploadFinds ==
  ASSUME IInv, NEW c \in Conn, Upload(c)
  PROVE  /\ at[c] = "upload" /\ Uploading(c) /\ asked[c] \in Request
         /\ daemon = Idle /\ daemon' = Idle /\ daemon.c = "none"
         /\ main \notin {"closing", "gone"} /\ known \subseteq Registered
         /\ Registered' = Registered /\ Registered \subseteq Url
         /\ UNCHANGED <<main, up, first, last, next, asked, sessions, c_active, jar>>
<1>1. /\ at[c] = "upload" /\ up /\ daemon = Idle /\ daemon' = Idle
      /\ UNCHANGED <<main, up, first, last, next, asked, sessions, c_active, jar>>
  BY DEF Upload, Continued, list
<1>2. Uploading(c) /\ asked[c] \in Request
  BY <1>1 DEF IInv, Progress, Stands
<1>3. main \notin {"closing", "gone"} /\ known \subseteq Registered
  BY <1>1 DEF IInv, Answerable
<1> QED BY <1>1, <1>2, <1>3, ListKept, RegisteredUrls DEF IInv, list, Idle

LEMMA PieceSent ==
  ASSUME NEW op \in Op, NEW n \in {1, 2}
  PROVE  /\ Append(Sent(op, 2 - n), Body(op)[3 - n]) = Sent(op, 3 - n)
         /\ Sent(op, 3 - n) \in Pieces /\ Sent(op, 3 - n) # <<>>
<1>1. Append(Sent(op, 2 - n), Body(op)[3 - n]) = Sent(op, 3 - n)
  <2>1. CASE n = 1
    <3>1. 2 - n = 1 /\ 3 - n = 2
      BY <2>1
    <3>2. Sent(op, 1) = <<<<op, 1>>>> /\ Sent(op, 2) = <<<<op, 1>>, <<op, 2>>>>
      BY DEF Sent, Body
    <3>3. Body(op)[2] = <<op, 2>>
      BY DEF Body
    <3>4. ASSUME NEW x, NEW y PROVE Append(<<x>>, y) = <<x, y>>
      <4>1. <<x>> \in Seq({x, y}) /\ Len(<<x>>) = 1 /\ y \in {x, y}
        OBVIOUS
      <4>2. /\ Append(<<x>>, y) \in Seq({x, y}) /\ Len(Append(<<x>>, y)) = 2
            /\ Append(<<x>>, y)[1] = x /\ Append(<<x>>, y)[2] = y
        BY <4>1, AppendProperties
      <4> DEFINE t == Append(<<x>>, y)
      <4>3. t \in Seq({x, y}) /\ Len(t) = 2 /\ t[1] = x /\ t[2] = y
        BY <4>2
      <4> HIDE DEF t
      <4>4. <<x, y>> \in Seq({x, y}) /\ Len(<<x, y>>) = 2 /\ <<x, y>>[1] = x /\ <<x, y>>[2] = y
        OBVIOUS
      <4>5. \A i \in 1..2 : t[i] = <<x, y>>[i]
        BY <4>3, <4>4
      <4>6. t = <<x, y>>
        BY <4>3, <4>4, <4>5, SeqEqual
      <4> QED BY <4>6 DEF t
    <3>5. Append(<<<<op, 1>>>>, <<op, 2>>) = <<<<op, 1>>, <<op, 2>>>>
      BY <3>4, Zenon
    <3> QED BY <3>1, <3>2, <3>3, <3>5, Zenon
  <2>2. CASE n = 2
    <3>1. 2 - n = 0 /\ 3 - n = 1
      BY <2>2
    <3>2. Sent(op, 0) = <<>> /\ Sent(op, 1) = <<<<op, 1>>>>
      BY DEF Sent
    <3>3. Body(op)[1] = <<op, 1>>
      BY DEF Body
    <3>4. ASSUME NEW x PROVE Append(<<>>, x) = <<x>>
      OBVIOUS
    <3>5. Append(<<>>, <<op, 1>>) = <<<<op, 1>>>>
      BY <3>4, Zenon
    <3> QED BY <3>1, <3>2, <3>3, <3>5, Zenon
  <2> QED BY <2>1, <2>2
<1>2. 3 - n \in 0..2 /\ Sent(op, 3 - n) # <<>>
  BY DEF Sent, Body
<1> QED BY <1>1, <1>2 DEF Pieces

LEMMA PieceStep == ASSUME IInv, NEW c \in Conn, Piece(c) PROVE IInv'
<1>1. /\ at[c] = "upload" /\ Uploading(c) /\ asked[c] \in Request
      /\ daemon = Idle /\ daemon' = Idle /\ daemon.c = "none"
      /\ main \notin {"closing", "gone"} /\ known \subseteq Registered
      /\ Registered' = Registered
      /\ UNCHANGED <<main, up, first, last, next, asked, sessions, c_active, jar>>
  BY UploadFinds DEF Piece
<1>2. /\ left[c] > 0 /\ left' = [left EXCEPT ![c] = @ - 1]
      /\ request' = [request EXCEPT ![c].data = Append(@, Body(asked[c].op)[3 - left[c]])]
      /\ Malloc({<<c, "data">>})
      /\ UNCHANGED <<at, buttons, answer, known>>
  BY DEF Piece
<1>3. left[c] \in {1, 2} /\ asked[c].op \in Op /\ request \in [Conn -> RequestType]
  BY <1>1, <1>2, HttpdAssumption DEF HttpdAssumption, Op, IInv, Types, RequestType
<1> DEFINE sent == Sent(asked[c].op, 3 - left[c])
           r == [request[c] EXCEPT !.data = sent]
<1>4. request[c].data = Sent(asked[c].op, 2 - left[c])
  BY <1>1 DEF Uploading
<1>5. Append(request[c].data, Body(asked[c].op)[3 - left[c]]) = sent
      /\ sent \in Pieces /\ sent # <<>>
  BY <1>3, <1>4, PieceSent
<1>6. /\ r \in RequestType /\ r.session = request[c].session /\ r.data = sent
      /\ r.pp = request[c].pp /\ r.u = request[c].u /\ r.restr = request[c].restr
  <2> HIDE DEF sent
  <2> QED BY <1>3, <1>5 DEF RequestType
<1>7. request' = [request EXCEPT ![c] = r]
  <2> HIDE DEF sent
  <2> QED BY <1>2, <1>5
<1>8. request'[c] = r /\ \A d \in Conn \ {c} : request'[d] = request[d]
  <2> HIDE DEF r
  <2> QED BY <1>3, <1>7
<1>9. /\ left' \in [Conn -> 0..2] /\ left'[c] = left[c] - 1
      /\ \A d \in Conn \ {c} : left'[d] = left[d]
  BY <1>2, <1>3 DEF IInv, Types
<1>10. request[c].session # 0 /\ r # NoRequest /\ request[c] # NoRequest
  <2> HIDE DEF r
  <2> QED BY <1>1, <1>6 DEF Uploading, NoRequest, Fresh
<1>11. Exact'
  <2>1. Held(request'[c]) = Held(request[c]) \cup {"data"}
    <3> HIDE DEF r, sent
    <3> QED BY <1>5, <1>6, <1>8, <1>10 DEF Held
  <2>2. Malloc({c} \X {"data"})
    <3>1. {c} \X {"data"} = {<<c, "data">>}
      OBVIOUS
    <3> QED BY <1>2, <3>1
  <2> HIDE DEF r
  <2> QED BY <1>1, <1>8, <2>1, <2>2, OwnBlocksAdded DEF IInv
<1>12. Stands(c)'
  <2>1. 2 - left'[c] = 3 - left[c]
    BY <1>3, <1>9
  <2>2. Uploading(c)'
    <3>1. /\ request'[c].session # 0 /\ request'[c].pp /\ request'[c].u = request[c].u
          /\ request[c].u \in Registered'
          /\ request'[c].data = Sent(asked'[c].op, 2 - left'[c])
      <4>1. request[c].session # 0 /\ request[c].pp /\ request[c].u \in Registered
        BY <1>1 DEF Uploading
      <4> HIDE DEF r
      <4> QED BY <1>1, <1>6, <1>8, <2>1, <4>1
    <3>2. /\ answer'[c] = "none"
          /\ Matches(request[c].u, asked'[c]) /\ asked'[c].method = "PUT"
      BY <1>1, <1>2 DEF Uploading
    <3> QED BY <3>1, <3>2 DEF Uploading, Matches
  <2> HIDE DEF r
  <2> QED BY <1>1, <1>2, <1>6, <1>8, <1>10, <2>2 DEF Stands
<1>13. /\ at' \in [Conn -> {"idle", "sent", "upload", "answered", "over"}]
       /\ answer' \in [Conn -> {"none", "on", "off", "count", "file", "404"}]
       /\ buttons' \in [Button -> BOOLEAN]
  BY <1>2 DEF IInv, Types
<1> HIDE DEF r
<1> QED BY <1>1, <1>2, <1>6, <1>7, <1>9, <1>11, <1>12, <1>13, CallEnds

LEMMA FinishStep == ASSUME IInv, NEW c \in Conn, Finish(c) PROVE IInv'
<1> DEFINE r == [request[c] EXCEPT !.pp = FALSE, !.data = <<>>]
           u == request[c].u
<1>1. /\ at[c] = "upload" /\ Uploading(c) /\ asked[c] \in Request
      /\ daemon = Idle /\ daemon' = Idle /\ daemon.c = "none"
      /\ main \notin {"closing", "gone"} /\ known \subseteq Registered
      /\ Registered' = Registered /\ Registered \subseteq Url
      /\ UNCHANGED <<main, up, first, last, next, asked, sessions, c_active, jar>>
  BY UploadFinds DEF Finish
<1>2. /\ left[c] = 0 /\ left' = left
      /\ request' = [request EXCEPT ![c].pp = FALSE, ![c].data = <<>>]
      /\ Free({<<c, "pp">>, <<c, "data">>})
      /\ callback(c, u, request[c].data)
  BY DEF Finish
<1>3. u \in Registered /\ u \in Url /\ request[c].session # 0 /\ request[c].pp
  BY <1>1 DEF Uploading
<1>4. request[c].data # <<>>
  BY <1>1, <1>2 DEF Uploading, Sent, Body
<1>5. request \in [Conn -> RequestType] /\ <<>> \in Pieces
  <2>1. Sent("none", 0) = <<>> /\ "none" \in Op /\ 0 \in 0..2
    BY DEF Sent, Op
  <2> QED BY <2>1 DEF IInv, Types, RequestType, Pieces
<1>6. /\ r \in RequestType /\ r.session = request[c].session /\ r.data = <<>>
      /\ r.pp = FALSE /\ r.restr = request[c].restr
  BY <1>5 DEF RequestType
<1>7. request' = [request EXCEPT ![c] = r]
  BY <1>2, <1>5
<1>8. request'[c] = r /\ \A d \in Conn \ {c} : request'[d] = request[d]
  <2> HIDE DEF r
  <2> QED BY <1>5, <1>7
<1>9. /\ buttons' \in [Button -> BOOLEAN]
      /\ answer' \in [Conn -> {"none", "on", "off", "count", "file", "404"}]
      /\ \A d \in Conn \ {c} : answer'[d] = answer[d]
      /\ at' \in [Conn -> {"idle", "sent", "upload", "answered", "over"}]
      /\ at'[c] \in {"answered", "over"} /\ \A d \in Conn \ {c} : at'[d] = at[d]
      /\ known' = known \cup {u}
  <2> HIDE DEF u
  <2> QED BY <1>1, <1>2, <1>3, CallbackTypes DEF IInv
<1>10. left' \in [Conn -> 0..2]
  BY <1>2 DEF IInv, Types
<1>11. known' \subseteq Registered
  BY <1>1, <1>3, <1>9
<1>12. Stands(c)'
  <2> HIDE DEF r
  <2> QED BY <1>1, <1>3, <1>6, <1>8, <1>9, AnsweredStands DEF IInv, Progress
<1>13. Exact'
  <2>1. r # NoRequest /\ request[c] # NoRequest
    <3> HIDE DEF r
    <3> QED BY <1>3, <1>6 DEF NoRequest, Fresh
  <2>2. Held(request'[c]) = Held(request[c]) \ {"pp", "data"}
        /\ {"pp", "data"} \subseteq Held(request[c])
    <3> HIDE DEF r
    <3>1. request[c].restr \subseteq {"match", "number"}
      BY <1>5 DEF RequestType
    <3> QED BY <1>3, <1>4, <1>6, <1>8, <2>1, <3>1 DEF Held
  <2>3. Free({c} \X {"pp", "data"})
    <3>1. {c} \X {"pp", "data"} = {<<c, "pp">>, <<c, "data">>}
      OBVIOUS
    <3> QED BY <1>2, <3>1
  <2> HIDE DEF r
  <2> QED BY <1>1, <1>8, <2>2, <2>3, BlocksFreed DEF IInv
<1> HIDE DEF r, u
<1> QED BY <1>1, <1>2, <1>6, <1>7, <1>9, <1>10, <1>11, <1>12, <1>13, CallEnds

(***************************************************************************)
(* The connection is through: whatever the request held goes, and it is    *)
(* counted no more.                                                        *)
(***************************************************************************)
LEMMA CompletedStep == ASSUME IInv, NEW c \in Conn, httpd_request_completed(c) PROVE IInv'
<1> USE DEF IInv
<1>1. /\ UNCHANGED <<main, up, first, last, next, daemon, sessions, buttons, jar, known>>
      /\ Registered' = Registered /\ daemon = Idle /\ at[c] = "over"
      /\ at' = [at EXCEPT ![c] = "idle"] /\ asked' = [asked EXCEPT ![c] = Nothing]
      /\ answer' = [answer EXCEPT ![c] = "none"] /\ left' = [left EXCEPT ![c] = 0]
      /\ request' = [request EXCEPT ![c] = NoRequest]
  BY ListKept DEF httpd_request_completed, Through, list
<1>2. /\ c_active' = IF request[c] = NoRequest THEN c_active
                     ELSE [c_active EXCEPT ![request[c].session] = @ - 1]
      /\ Free({c} \X Held(request[c]))
  BY DEF httpd_request_completed, Owned
<1>3. request'[c] = NoRequest /\ \A d \in Conn \ {c} : request'[d] = request[d]
  BY <1>1 DEF Types
<1>4. NoRequest \in RequestType /\ NoRequest.session = 0 /\ Held(NoRequest) = {}
  <2>1. Sent("none", 0) = <<>> /\ "none" \in Op /\ 0 \in 0..2 /\ MaxSessions \in Nat
    BY HttpdAssumption DEF Sent, Op, HttpdAssumption
  <2>2. <<>> \in Pieces
    BY <2>1 DEF Pieces
  <2> QED BY <2>1, <2>2 DEF RequestType, NoRequest, Fresh, Held, Place
<1>5. ActiveCounts' /\ c_active' \in [1..MaxSessions -> Nat]
  <2>1. CASE request[c] = NoRequest
    <3>1. c_active' = c_active /\ \A d \in Conn : request'[d].session = request[d].session
      BY <1>2, <1>3, <2>1
    <3> QED BY <3>1, CountsKept DEF Types
  <2>2. CASE request[c] # NoRequest
    <3>1. request[c].session \in 1..MaxSessions
      BY <2>2 DEF Progress, Stands, Types
    <3>2. c_active' = [c_active EXCEPT ![request[c].session] = @ - 1]
      BY <1>2, <2>2
    <3> QED BY <1>3, <1>4, <3>1, <3>2, CountLeaves DEF Types
  <2> QED BY <2>1, <2>2
<1>6. Types'
  <2>1. request' \in [Conn -> RequestType] /\ \A d \in Conn : request'[d].session <= sessions
    BY <1>1, <1>3, <1>4 DEF Types, RequestType
  <2> QED BY <1>1, <1>5, <2>1 DEF Types, RequestType
<1>7. ListShape'
  BY <1>1 DEF ListShape
<1>8. Calling' /\ Answerable'
  BY <1>1 DEF Calling, Answerable, Idle
<1>9. Progress'
  <2> SUFFICES ASSUME NEW d \in Conn PROVE Stands(d)'
    BY DEF Progress
  <2>1. CASE d = c
    BY <1>1, <1>3, <1>4, <2>1 DEF Types, Stands, Idling
  <2>2. CASE d # c
    BY <1>1, <1>3, <2>2, OthersStand DEF Types
  <2> QED BY <2>1, <2>2
<1>10. Exact'
  <2>1. Held(request'[c]) = Held(request[c]) \ Held(request[c])
    BY <1>3, <1>4
  <2> QED BY <1>1, <1>2, <1>3, <2>1, BlocksFreed, RegisteredUrls
<1> QED BY <1>5, <1>6, <1>7, <1>8, <1>9, <1>10

-----------------------------------------------------------------------------
(***************************************************************************)
(* Every step, and the theorems.                                           *)
(***************************************************************************)
LEMMA HttpdStutters == ASSUME IInv, UNCHANGED vars PROVE IInv'
<1>1. Registered' = Registered /\ UNCHANGED <<request, sessions, heap, fault>>
  BY ListKept DEF vars, list, mem
<1>2. Exact'
  BY <1>1, MemoryKept DEF IInv
<1>3. ActiveCounts'
  BY CountsKept DEF IInv, vars
<1>4. Progress'
  <2> SUFFICES ASSUME NEW d \in Conn PROVE Stands(d)'
    BY DEF Progress
  <2> QED BY <1>1, OthersStand DEF IInv, vars, conn
<1> QED BY <1>1, <1>2, <1>3, <1>4 DEF IInv, Types, ListShape, Calling, Answerable,
                                       vars, list, conn, mem

(***************************************************************************)
(* A null pointer ends the process between two calls; what is left stands. *)
(***************************************************************************)
NullPointer(c) == ServeNull(c) \/ PieceNull(c) \/ FinishNull(c)

LEMMA CrashStep == ASSUME IInv, NEW c \in Conn, NullPointer(c) PROVE Ruin'
<1>1. Crash /\ \A d \in Conn : request'[d].session = request[d].session
  <2>1. CASE ServeNull(c) \/ FinishNull(c)
    BY <2>1 DEF ServeNull, FinishNull
  <2>2. CASE PieceNull(c)
    BY <2>2 DEF PieceNull, IInv, Types
  <2> QED BY <2>1, <2>2 DEF NullPointer
<1>2. /\ UNCHANGED <<first, last, next, asked, left, sessions, c_active, buttons, answer, jar, fault>>
      /\ main' = "crashed" /\ ~up' /\ daemon' = Idle
      /\ \A d \in Conn : at'[d] \in {"idle", "cut"}
  BY <1>1 DEF Crash, list, mem
<1>3. TypeOK /\ ActiveCounts /\ ~fault
  BY InvImplies DEF Inv, IInv, Exact
<1>4. TypeOK'
  <2>1. \A d \in Conn : request'[d].session \in 0..sessions
    BY <1>1, <1>3 DEF TypeOK
  <2> QED BY <1>2, <1>3, <2>1 DEF TypeOK
<1>5. ActiveCounts'
  BY <1>1, <1>2, <1>3, CountsKept
<1> QED BY <1>2, <1>3, <1>4, <1>5 DEF Ruin

LEMMA RuinStands == ASSUME Ruin, [Next]_vars PROVE UNCHANGED vars /\ Ruin'
<1>1. ~ Start /\ ~ httpd_register_url /\ ~ Exit /\ ~ StopDaemon /\ ~ LL_GET_LOOP
  BY DEF Ruin, Start, httpd_register_url, Exit, StopDaemon, LL_GET_LOOP, Url
<1>2. ASSUME NEW c \in Conn PROVE /\ \A r \in Request : ~ Send(c, r)
                                  /\ ~ Receive(c) /\ ~ Abort(c) /\ ~ Daemon(c)
  BY DEF Ruin, Send, Receive, Abort, Daemon, httpd_request_find, Piece, PieceNull, Finish,
         FinishNull, Upload, Continued, httpd_request_completed, Through
<1>3. ASSUME NEW c \in Conn PROVE ~ Handler(c)
  <2>1. daemon.c # c
    BY HttpdAssumption DEF HttpdAssumption, Ruin, Idle
  <2>2. \A u : daemon # [c |-> c, u |-> u]
    BY <2>1
  <2> QED BY <2>2 DEF Handler, Continue, Serve, ServeNull, Expect, Default, Scan
<1>4. UNCHANGED vars
  BY <1>1, <1>2, <1>3 DEF Next
<1>5. ActiveCounts'
  BY <1>4, CountsKept DEF Ruin, vars
<1> QED BY <1>4, <1>5 DEF Ruin, TypeOK, vars, list, conn, mem

LEMMA LivesOn ==
  ASSUME IInv, [Next]_vars, \A c \in Conn : ~ NullPointer(c)
  PROVE  IInv'
<1>1. CASE UNCHANGED vars
  BY <1>1, HttpdStutters
<1>2. CASE Start \/ Exit
  BY <1>2, MainMoves
<1>3. CASE httpd_register_url
  BY <1>3, RegisterStep
<1>4. CASE StopDaemon
  BY <1>4, StopStep
<1>5. CASE LL_GET_LOOP
  BY <1>5, GetStep
<1>6. ASSUME NEW c \in Conn,
             \/ \E r \in Request : Send(c, r)
             \/ Receive(c) \/ Abort(c)
             \/ Handler(c) \/ Daemon(c)
      PROVE  IInv'
  <2>1. ASSUME NEW r \in Request, Send(c, r) PROVE IInv'
    BY <2>1, SendStep
  <2>2. CASE Receive(c)
    BY <2>2, ReceiveStep
  <2>3. CASE Abort(c)
    BY <2>3, AbortStep
  <2>4. ASSUME NEW u \in Url, Continue(c, u) \/ Serve(c, u) \/ Expect(c, u) PROVE IInv'
    BY <2>4, ContinueStep, ServeStep, ExpectStep
  <2>5. CASE Default(c)
    BY <2>5, DefaultStep
  <2>6. CASE httpd_request_find(c)
    BY <2>6, FindFails, FindStep DEF httpd_request_find
  <2>7. CASE Piece(c)
    BY <2>7, PieceStep
  <2>8. CASE Finish(c)
    BY <2>8, FinishStep
  <2>9. CASE httpd_request_completed(c)
    BY <2>9, CompletedStep
  <2> QED BY <1>6, <2>1, <2>2, <2>3, <2>4, <2>5, <2>6, <2>7, <2>8, <2>9
          DEF Handler, Daemon, NullPointer
<1> QED BY <1>1, <1>2, <1>3, <1>4, <1>5, <1>6 DEF Next

(***************************************************************************)
(* Init and every step, of a process that lives or one that is gone.       *)
(***************************************************************************)
LEMMA HttpdFirst == Init => Inv
  BY HttpdInit DEF Inv

LEMMA HttpdStep == Inv /\ [Next]_vars => Inv'
<1>1. ASSUME IInv, [Next]_vars PROVE IInv' \/ Ruin'
  BY <1>1, LivesOn, CrashStep
<1>2. ASSUME Ruin, [Next]_vars PROVE Ruin'
  BY <1>2, RuinStands
<1> QED BY <1>1, <1>2 DEF Inv

(***************************************************************************)
(* The fields of the interface hold what the code puts there; a session a  *)
(* request or the browser names has been created.                          *)
(***************************************************************************)
THEOREM HttpdTypes == Spec => []TypeOK
<1>1. Inv => TypeOK
  BY InvImplies
<1> QED BY HttpdFirst, HttpdStep, <1>1, PTL DEF Spec

(***************************************************************************)
(* Nothing is freed twice or used after it was freed; and as long as the   *)
(* process lives nothing is lost, wherever a connection is broken off,     *)
(* whichever allocation fails, and whenever the program stops.             *)
(***************************************************************************)
THEOREM HttpdMemorySafe == Spec => []MemorySafe
<1>1. Inv => MemorySafe
  BY InvImplies
<1> QED BY HttpdFirst, HttpdStep, <1>1, PTL DEF Spec

(***************************************************************************)
(* Every session counts exactly the requests that are open in it.          *)
(***************************************************************************)
THEOREM HttpdActiveCounts == Spec => []ActiveCounts
<1>1. Inv => ActiveCounts
  BY InvImplies
<1> QED BY HttpdFirst, HttpdStep, <1>1, PTL DEF Spec

-----------------------------------------------------------------------------
(***************************************************************************)
(* The refinement.  The service sees a request with the number of its      *)
(* switch as the code keeps it, in a byte.                                 *)
(***************************************************************************)
Asked == [c \in Conn |-> Byte(asked[c])]

LEMMA ByteFields ==
  ASSUME NEW r \in Request \cup {Nothing}
  PROVE  /\ Byte(r).method = r.method /\ Byte(r).url = r.url /\ Byte(r).op = r.op
         /\ Byte(r).button = r.button % ByteSpan
         /\ r \in Request => Byte(r) # Nothing /\ Byte(r) \in {Byte(q) : q \in Request}
         /\ r = Nothing => Byte(r) = Nothing
<1>1. ByteSpan \in Nat \ {0}
  BY HttpdAssumption DEF HttpdAssumption
<1>2. Request \subseteq [method : {"GET", "PUT"}, url : {"button", "count", "file"},
                         button : Nat, op : {"none", "toggle", "on", "off"}]
  BY HttpdAssumption DEF HttpdAssumption
<1>3. CASE r = Nothing
  <2>1. 0 % ByteSpan = 0
    BY <1>1
  <2>2. Nothing.button = 0 /\ Nothing.method = "none"
    BY DEF Nothing
  <2>3. Byte(Nothing) = Nothing
    BY <2>1 DEF Byte, Nothing
  <2>4. Nothing \notin Request
    BY <1>2, <2>2
  <2> QED BY <1>3, <2>1, <2>2, <2>3, <2>4
<1>4. CASE r \in Request
  <2>1. r \in [method : {"GET", "PUT"}, url : {"button", "count", "file"},
               button : Nat, op : {"none", "toggle", "on", "off"}]
    BY <1>2, <1>4
  <2>2. /\ Byte(r).method = r.method /\ Byte(r).url = r.url /\ Byte(r).op = r.op
        /\ Byte(r).button = r.button % ByteSpan
    BY <2>1 DEF Byte
  <2>3. Byte(r) # Nothing /\ r # Nothing
    BY <2>1, <2>2 DEF Nothing
  <2> HIDE DEF Byte
  <2> QED BY <1>4, <2>2, <2>3
<1> QED BY <1>3, <1>4

LEMMA AskedType ==
  ASSUME Types
  PROVE  /\ Asked \in [Conn -> {Byte(r) : r \in Request} \cup {Nothing}]
         /\ \A c \in Conn : Asked[c] = Byte(asked[c])
<1>1. \A c \in Conn : asked[c] \in Request \cup {Nothing}
  BY DEF Types
<1>2. \A c \in Conn : Byte(asked[c]) \in {Byte(r) : r \in Request} \cup {Nothing}
  BY <1>1, ByteFields
<1> QED BY <1>2 DEF Asked

(***************************************************************************)
(* A body tells the operation it was made of.                              *)
(***************************************************************************)
LEMMA BodyTells ==
  ASSUME NEW op, NEW p
  PROVE  Body(op) # <<>> /\ (Body(op) = Body(p) <=> op = p)
  BY DEF Body

LEMMA ServiceInit == Init => Service!Init
<1> SUFFICES ASSUME Init PROVE Service!Init
  OBVIOUS
<1>1. Byte(Nothing) = Nothing
  BY ByteFields
<1>2. Asked = [c \in Conn |-> Nothing]
  BY <1>1 DEF Init, Asked
<1> QED BY <1>2 DEF Init, Service!Init, Asked, Service!Nothing, Nothing

LEMMA Asks ==
  ASSUME IInv, NEW c \in Conn, NEW r \in Request, Send(c, r)
  PROVE  Service!Ask(c)
<1>1. asked[c] = Nothing /\ asked' = [asked EXCEPT ![c] = r] /\ asked \in [Conn -> Request \cup {Nothing}]
      /\ UNCHANGED <<buttons, answer, known>>
  BY DEF Send, IInv, Progress, Stands, Idling, Types
<1>2. Asked[c] = Nothing /\ Byte(r) \in {Byte(q) : q \in Request}
  BY <1>1, ByteFields, AskedType DEF IInv
<1>3. Asked' = [Asked EXCEPT ![c] = Byte(r)]
  <2> HIDE DEF Byte
  <2>1. Asked' = [d \in Conn |-> Byte(asked'[d])]
    BY DEF Asked
  <2>2. \A d \in Conn : asked'[d] = IF d = c THEN r ELSE asked[d]
    BY <1>1
  <2> QED BY <2>1, <2>2 DEF Asked
<1> QED BY <1>1, <1>2, <1>3 DEF Service!Ask, Asked, Service!Nothing, Nothing

LEMMA Leaves ==
  ASSUME IInv, NEW c \in Conn, Through(c)
  PROVE  Service!Leave(c)
<1>1. asked[c] \in Request /\ asked' = [asked EXCEPT ![c] = Nothing]
      /\ answer' = [answer EXCEPT ![c] = "none"] /\ UNCHANGED <<buttons, known>>
      /\ asked \in [Conn -> Request \cup {Nothing}]
  BY DEF Through, IInv, Progress, Stands, Types
<1>2. Asked[c] # Nothing /\ Byte(Nothing) = Nothing
  BY <1>1, ByteFields, AskedType DEF IInv
<1>3. Asked' = [Asked EXCEPT ![c] = Nothing]
  <2>1. Asked' = [d \in Conn |-> Byte(asked'[d])]
    BY DEF Asked
  <2>2. \A d \in Conn : asked'[d] = IF d = c THEN Nothing ELSE asked[d]
    BY <1>1
  <2> QED BY <1>2, <2>1, <2>2 DEF Asked
<1> QED BY <1>1, <1>2, <1>3 DEF Service!Leave, Asked, Service!Nothing, Nothing

(***************************************************************************)
(* What a request waits with, seen by the service.                         *)
(***************************************************************************)
LEMMA Waits ==
  ASSUME IInv, NEW c \in Conn, asked[c] \in Request, answer[c] = "none", asked' = asked
  PROVE  /\ Service!Waiting(c) /\ Asked' = Asked
         /\ Asked[c].method = asked[c].method /\ Asked[c].url = asked[c].url
         /\ Asked[c].op = asked[c].op /\ Asked[c].button = asked[c].button % ByteSpan
<1>1. Asked[c] = Byte(asked[c])
  BY AskedType DEF IInv
<1>2. Asked[c] # Nothing
  BY <1>1, ByteFields
<1>3. Asked' = Asked
  BY DEF Asked
<1>4. /\ Asked[c].method = asked[c].method /\ Asked[c].url = asked[c].url
      /\ Asked[c].op = asked[c].op /\ Asked[c].button = asked[c].button % ByteSpan
  BY <1>1, ByteFields
<1>5. Service!Waiting(c)
  BY <1>2 DEF Service!Waiting, Asked, Service!Nothing, Nothing
<1> QED BY <1>3, <1>4, <1>5

LEMMA Counts ==
  ASSUME IInv, NEW c \in Conn, NEW data, asked[c] \in Request, answer[c] = "none",
         asked' = asked, Matches("count", asked[c]), callback(c, "count", data)
  PROVE  Service!Count(c)
<1>1. Service!Waiting(c) /\ Asked' = Asked /\ Asked[c].url = "count"
  BY Waits DEF Matches
<1>2. answer' = [answer EXCEPT ![c] = "count"] /\ UNCHANGED buttons /\ known' = known \cup {"count"}
  BY DEF callback
<1> QED BY <1>1, <1>2 DEF Service!Count, Asked

LEMMA Presses ==
  ASSUME IInv, NEW c \in Conn, NEW data, asked[c] \in Request, answer[c] = "none",
         asked' = asked, Matches("button", asked[c]), callback(c, "button", data),
         IF asked[c].method = "PUT" THEN data = Body(asked[c].op) ELSE data = <<>>
  PROVE  Service!Press(c)
<1> DEFINE sw == asked[c].button % ByteSpan
           r == Asked[c]
<1>1. /\ Service!Waiting(c) /\ Asked' = Asked /\ r.url = "button"
      /\ r.method = asked[c].method /\ r.op = asked[c].op /\ r.button = sw
  BY Waits DEF Matches
<1>2. /\ known' = known \cup {"button"}
      /\ buttons' = [b \in Button |-> IF b = sw THEN After(sw, data) ELSE buttons[b]]
      /\ answer' = [answer EXCEPT ![c] = IF After(sw, data) /\ data # Body("none") THEN "on" ELSE "off"]
  BY DEF callback, web_req_button
<1>3. button_known(sw) <=> r.button \in Button
  <2>1. sw \in Nat /\ BUTTON_COUNT \in Nat
    BY ButtonByte, HttpdAssumption DEF HttpdAssumption
  <2> HIDE DEF sw, r
  <2> QED BY <1>1, <2>1 DEF button_known, Button
<1>4. asked[c].method = "GET" => asked[c].op = "none"
  BY HttpdAssumption DEF HttpdAssumption
<1>5. asked[c].method \in {"GET", "PUT"}
  BY HttpdAssumption DEF HttpdAssumption
<1>6. /\ \A op \in {"on", "off", "toggle"} : data = Body(op) <=> r.op = op
      /\ data # Body("none") <=> ~(r.method = "PUT" /\ r.op = "none")
  <2>1. CASE asked[c].method = "PUT"
    <3>1. data = Body(asked[c].op)
      BY <2>1
    <3> HIDE DEF r
    <3> QED BY <1>1, <2>1, <3>1, BodyTells
  <2>2. CASE asked[c].method = "GET"
    <3>1. data = <<>> /\ asked[c].op = "none"
      BY <1>4, <2>2
    <3> HIDE DEF r
    <3> QED BY <1>1, <2>2, <3>1, BodyTells
  <2> QED BY <1>5, <2>1, <2>2
<1>7. After(sw, data) <=> Service!After(r)
  <2>1. data \in {Body(op) : op \in {"on", "off", "toggle"}} <=> r.op \in {"on", "off", "toggle"}
    <3> HIDE DEF r
    <3> QED BY <1>6
  <2> HIDE DEF sw, r
  <2> QED BY Zenon, <1>1, <1>3, <1>6, <2>1 DEF After, Service!After
<1>8. Service!NoOperation(r) <=> ~(data # Body("none"))
  BY <1>6 DEF Service!NoOperation
<1>9. After(sw, data) = Service!After(r)
  BY Zenon, <1>7 DEF After, Service!After
<1>10. answer' = [answer EXCEPT ![c] = IF Service!After(r) /\ ~Service!NoOperation(r) THEN "on" ELSE "off"]
  <2> HIDE DEF sw, r
  <2> QED BY <1>2, <1>8, <1>9, Zenon
<1>11. buttons' = [b \in Button |-> IF b = r.button THEN Service!After(r) ELSE buttons[b]]
  <2> HIDE DEF sw, r
  <2> QED BY <1>1, <1>2, <1>9, Zenon
<1> HIDE DEF sw
<1> QED BY <1>1, <1>2, <1>10, <1>11, Zenon DEF Service!Press, Asked

LEMMA Answers ==
  ASSUME IInv, NEW c \in Conn, Default(c)
  PROVE  Service!File(c) \/ Service!NotFound(c)
<1>1. /\ daemon.c = c /\ daemon.u = "none" /\ c # "none" /\ Opened(c)
      /\ asked[c] \in Request /\ main \notin {"closing", "gone"} /\ asked' = asked
  BY ScanFinds DEF Default
<1>2. answer[c] = "none" /\ UNCHANGED <<buttons, known>>
  BY <1>1 DEF Opened, Default
<1>3. /\ Service!Waiting(c) /\ Asked' = Asked
      /\ Asked[c].method = asked[c].method /\ Asked[c].url = asked[c].url
  BY <1>1, <1>2, Waits
<1>4. CASE asked[c].method = "GET" /\ asked[c].url = "file" /\ answer' = [answer EXCEPT ![c] = "file"]
  BY <1>2, <1>3, <1>4 DEF Service!File, Asked
<1>5. CASE answer' = [answer EXCEPT ![c] = "404"]
  <2>1. known \subseteq Url
    BY DEF IInv, Types
  <2>2. asked[c].url = "button" => "button" \notin known
    BY <1>1 DEF IInv, Answerable
  <2>3. asked[c].url = "count" /\ asked[c].method = "GET" => "count" \notin known
    BY <1>1 DEF IInv, Answerable, Matches
  <2>4. asked[c].url \in {"button", "count", "file"}
    BY <1>1, HttpdAssumption DEF HttpdAssumption
  <2>5. asked[c].method = "GET" => asked[c].url \notin known
    BY <2>1, <2>2, <2>3, <2>4 DEF Url
  <2> QED BY <1>2, <1>3, <1>5, <2>2, <2>5 DEF Service!NotFound, Asked
<1> QED BY <1>4, <1>5 DEF Default, httpd_get_default, httpd_404

LEMMA Served ==
  ASSUME IInv, NEW c \in Conn, NEW u \in Url, Serve(c, u)
  PROVE  Service!Press(c) \/ Service!Count(c)
<1>1. /\ Opened(c) /\ asked[c] \in Request /\ asked' = asked
  BY ScanFinds DEF Serve
<1>2. answer[c] = "none" /\ asked[c].method = "GET" /\ Matches(u, asked[c]) /\ callback(c, u, <<>>)
  BY <1>1 DEF Opened, Serve
<1>3. CASE u = "button"
  BY <1>1, <1>2, <1>3, Presses
<1>4. CASE u = "count"
  BY <1>1, <1>2, <1>4, Counts
<1> QED BY <1>3, <1>4 DEF Url

LEMMA Finished ==
  ASSUME IInv, NEW c \in Conn, Finish(c)
  PROVE  Service!Press(c)
<1>1. Uploading(c) /\ asked[c] \in Request /\ asked' = asked /\ Registered \subseteq Url
  BY UploadFinds DEF Finish
<1>2. left[c] = 0 /\ callback(c, request[c].u, request[c].data)
  BY DEF Finish
<1>3. /\ answer[c] = "none" /\ asked[c].method = "PUT" /\ request[c].u = "button"
      /\ Matches("button", asked[c])
  BY <1>1 DEF Uploading, Matches, Url
<1>4. request[c].data = Body(asked[c].op)
  <2>1. 2 - left[c] = 2
    BY <1>2
  <2>2. request[c].data = Sent(asked[c].op, 2)
    BY <1>1, <2>1 DEF Uploading
  <2> QED BY <2>2 DEF Sent
<1> QED BY <1>1, <1>2, <1>3, <1>4, Presses

(***************************************************************************)
(* Every step of the interface is one of the service or none.              *)
(***************************************************************************)
LEMMA Unseen ==
  ASSUME UNCHANGED <<buttons, asked, answer, known>>
  PROVE  UNCHANGED Service!vars
<1>1. Asked' = Asked
  BY DEF Asked
<1> QED BY <1>1 DEF Service!vars, Asked

LEMMA ServiceStep == Inv /\ [Next]_vars => [Service!Next]_(Service!vars)
<1> SUFFICES ASSUME Inv, [Next]_vars, ~ UNCHANGED Service!vars PROVE Service!Next
  OBVIOUS
<1>1. ~ UNCHANGED <<buttons, asked, answer, known>>
  BY Unseen
<1> ~ UNCHANGED vars
  BY <1>1 DEF vars, conn
<1> IInv
  BY RuinStands DEF Inv
<1>2. ~ UNCHANGED vars /\ ~ Start /\ ~ httpd_register_url /\ ~ Exit /\ ~ StopDaemon /\ ~ LL_GET_LOOP
  BY <1>1 DEF vars, conn, Start, httpd_register_url, Exit, StopDaemon, LL_GET_LOOP
<1>3. PICK c \in Conn : \/ \E r \in Request : Send(c, r)
                        \/ Receive(c) \/ Abort(c) \/ Handler(c) \/ Daemon(c)
  BY <1>2 DEF Next
<1>4. ~ Receive(c) /\ ~ Abort(c) /\ ~ httpd_request_find(c) /\ ~ Piece(c)
      /\ ~ ServeNull(c) /\ ~ PieceNull(c) /\ ~ FinishNull(c)
      /\ \A u \in Url : ~ Continue(c, u) /\ ~ Expect(c, u)
  BY <1>1 DEF Receive, Abort, httpd_request_find, Piece, Upload, Continue, Expect, Scan,
              ServeNull, PieceNull, FinishNull, Crash
<1>5. CASE \E r \in Request : Send(c, r)
  BY <1>5, Asks DEF Service!Next
<1>6. CASE \E u \in Url : Serve(c, u)
  BY <1>6, Served DEF Service!Next
<1>7. CASE Default(c)
  BY <1>7, Answers DEF Service!Next
<1>8. CASE Finish(c)
  BY <1>8, Finished DEF Service!Next
<1>9. CASE httpd_request_completed(c)
  BY <1>9, Leaves DEF httpd_request_completed, Service!Next
<1> QED BY <1>3, <1>4, <1>5, <1>6, <1>7, <1>8, <1>9 DEF Handler, Daemon

(***************************************************************************)
(* The interface is a ButtonService: a request on a switch takes effect    *)
(* once or not at all, whatever is asked on other connections meanwhile,   *)
(* its answer is the state it leaves, and an address that answered once is *)
(* never said to be missing.                                               *)
(***************************************************************************)
THEOREM HttpdServes == Spec => Serves
<1>1. Spec => []Inv
  BY HttpdFirst, HttpdStep, PTL DEF Spec
<1> QED BY <1>1, ServiceInit, ServiceStep, PTL DEF Spec, Serves, Service!Spec
=============================================================================
