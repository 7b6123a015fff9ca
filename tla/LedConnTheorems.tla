-------------------------- MODULE LedConnTheorems --------------------------
(***************************************************************************)
(* The connection and the retained states of the light, for any number of  *)
(* channels.                                                               *)
(*                                                                         *)
(* At most one MQTT client per boot, for both ways of finding the broker,  *)
(* also while the tasks publish; and none missing while the bits say there *)
(* is one, unless mDNS knew no broker.  What makes it inductive: while a   *)
(* client exists one of the two bits is set (the handler sets CONNECTED    *)
(* before it clears CONNECTING), CONNECTED only then, and while the main   *)
(* task is inside mqtt_connect no client exists and CONNECTING is set for  *)
(* the client it is about to create, for mDNS alone if it still asks.      *)
(*                                                                         *)
(* The states retained: every program publishes each topic it is there for *)
(* after it has read what it reports, and nothing later in the program     *)
(* makes that untrue (Tells).  Cut off at any step, what is left of it     *)
(* still will (WillSay), or has (Kept).                                    *)
(***************************************************************************)
EXTENDS LedTopics, SequenceTheorems, TLAPS

BitHeld == client # "none" => CONNECTED \/ CONNECTING

HandlerSet == client \in {"handling", "up"} => CONNECTED

NoneInside == main \in {"boot", "connect", "query", "query2", "start"} => client = "none"

InsideSet == main \in {"query", "query2", "start"} => CONNECTING

AskedMdns ==
  /\ main \in {"query", "query2"} => discovery = "mdns"
  /\ CONNECTED => client # "none"

IInv ==
  /\ TypeOK /\ BitHeld /\ HandlerSet /\ NoneInside /\ InsideSet /\ AskedMdns
  /\ SingleClient /\ StrandedByMdns

LEMMA LedInit == Init => IInv
<1> SUFFICES ASSUME Init PROVE IInv
  OBVIOUS
<1>1. discovery \in {"static", "mdns"}
  BY DiscoveryAssumption DEF Init
<1>2. TypeOK
  <2>1. clients \in 0..2
    BY DEF Init
  <2> QED BY <1>1, <2>1, Zenon DEF Init, TypeOK
<1>3. BitHeld /\ HandlerSet /\ NoneInside /\ InsideSet /\ SingleClient
      /\ StrandedByMdns /\ AskedMdns
  BY DEF Init, BitHeld, HandlerSet, NoneInside, InsideSet, SingleClient, StrandedByMdns, Stranded,
         AskedMdns
<1> QED BY <1>2, <1>3 DEF IInv

(***************************************************************************)
(* The main task: CallConnect is the step that relies on BitHeld,          *)
(* StartClient the one that relies on NoneInside.                          *)
(***************************************************************************)
LEMMA MainPreserves == ASSUME IInv, MainStep PROVE IInv'
<1> USE DEF IInv, TypeOK, BitHeld, HandlerSet, NoneInside, InsideSet, SingleClient,
            StrandedByMdns, Stranded, AskedMdns, bits, net
<1>1. CASE EnterLoop   BY <1>1 DEF EnterLoop
<1>2. CASE Flash       BY <1>2 DEF Flash
<1>3. CASE CallConnect BY <1>3 DEF CallConnect
<1>4. CASE TooEarly    BY <1>4 DEF TooEarly
<1>5. CASE Connecting  BY <1>5 DEF Connecting
<1>6. CASE Found
  <2>1. main' = "start" /\ UNCHANGED <<discovery, CONNECTED, CONNECTING, clients, client>>
        /\ main \in {"query", "query2"}
    BY <1>6 DEF Found
  <2>2. TypeOK'
    BY <1>6, <2>1 DEF Found
  <2> QED BY <2>1, <2>2
<1>7. CASE NotFound    BY <1>7 DEF NotFound
<1>8. CASE StartClient
  <2>1. clients = 0 /\ clients' = 1 /\ client' = "trying" /\ main' = "loop"
    BY <1>8 DEF StartClient
  <2>2. TypeOK'
    BY <1>8, <2>1 DEF StartClient
  <2>3. CONNECTING \/ CONNECTED
    BY <1>8 DEF StartClient
  <2> QED BY <1>8, <2>1, <2>2, <2>3 DEF StartClient
<1> QED BY <1>1, <1>2, <1>3, <1>4, <1>5, <1>6, <1>7, <1>8 DEF MainStep

LEMMA ClientPreserves == ASSUME IInv, ClientStep PROVE IInv'
<1> USE DEF IInv, TypeOK, BitHeld, HandlerSet, NoneInside, InsideSet, SingleClient,
            StrandedByMdns, Stranded, AskedMdns, bits, net
<1>1. CASE OnConnected     BY <1>1 DEF OnConnected
<1>2. CASE OnConnectedDone BY <1>2 DEF OnConnectedDone
<1>3. CASE Lose            BY <1>3 DEF Lose
<1>4. CASE OnDisconnected
  <2>1. clients' = 0 /\ client' = "none" /\ clients' \in 0..2
    BY <1>4 DEF OnDisconnected, os_restart
  <2>2. TypeOK'
    BY <1>4, <2>1, Zenon DEF OnDisconnected, os_restart
  <2> QED BY <1>4, <2>1, <2>2 DEF OnDisconnected, os_restart
<1> QED BY <1>1, <1>2, <1>3, <1>4 DEF ClientStep

LEMMA OthersPreserve ==
  ASSUME IInv,
         PressSmartconfig \/ PressErase \/ WifiUp \/ WifiDown \/ SmartconfigDone
           \/ NetworkChanges \/ UNCHANGED vars
  PROVE  IInv'
<1> USE DEF IInv, TypeOK, BitHeld, HandlerSet, NoneInside, InsideSet, SingleClient,
            StrandedByMdns, Stranded, AskedMdns, bits, net
<1>1. CASE PressSmartconfig BY <1>1 DEF PressSmartconfig
<1>2. CASE PressErase
  <2>1. clients' = 0 /\ client' = "none" /\ clients' \in 0..2
    BY <1>2 DEF PressErase, os_restart
  <2>2. TypeOK'
    BY <1>2, <2>1, Zenon DEF PressErase, os_restart
  <2> QED BY <1>2, <2>1, <2>2 DEF PressErase, os_restart
<1>3. CASE WifiUp           BY <1>3 DEF WifiUp
<1>4. CASE WifiDown         BY <1>4 DEF WifiDown
<1>5. CASE SmartconfigDone  BY <1>5 DEF SmartconfigDone
<1>6. CASE NetworkChanges   BY <1>6 DEF NetworkChanges
<1>7. CASE UNCHANGED vars   BY <1>7 DEF vars
<1> QED BY <1>1, <1>2, <1>3, <1>4, <1>5, <1>6, <1>7

LEMMA LedStep == IInv /\ [Next]_vars => IInv'
BY MainPreserves, ClientPreserves, OthersPreserve DEF Next

-----------------------------------------------------------------------------
(***************************************************************************)
(* The tasks that publish take steps of the connection, or none: all they  *)
(* do to it is to notice, in a publication that cannot be sent, that the   *)
(* connection is lost.                                                     *)
(***************************************************************************)
LEMMA TaskStepIsLose == \A k \in Task : TaskStep(k) => [Next]_vars
<1> SUFFICES ASSUME NEW k \in Task, TaskStep(k) PROVE [Next]_vars
  OBVIOUS
<1>1. CASE AssignStep(k) BY <1>1 DEF AssignStep
<1>2. CASE ReadStep(k)   BY <1>2 DEF ReadStep
<1>3. CASE PublishStep(k)
  <2>1. CASE CONNECTED /\ client = "up" /\ ~Reached
    <3>1. Lose
      BY <1>3, <2>1 DEF PublishStep, Reached, Lose
    <3> QED BY <3>1 DEF Next, ClientStep
  <2>2. CASE ~(CONNECTED /\ client = "up" /\ ~Reached)
    <3>1. client' = client
      BY <1>3, <2>2 DEF PublishStep
    <3>2. UNCHANGED vars
      BY <1>3, <3>1 DEF PublishStep, vars, bits, net
    <3> QED BY <3>2
  <2> QED BY <2>1, <2>2
<1> QED BY <1>1, <1>2, <1>3 DEF TaskStep

LEMMA TopicsStepIsStep == [TopicsNext]_all => [Next]_vars
<1> SUFFICES ASSUME [TopicsNext]_all PROVE [Next]_vars
  OBVIOUS
<1>1. CASE \E k \in Task : TaskStep(k) BY <1>1, TaskStepIsLose
<1>2. CASE BeginSweep     BY <1>2 DEF BeginSweep
<1>3. CASE OnData         BY <1>3 DEF OnData
<1>4. CASE MainFree       BY <1>4 DEF MainFree, Next
<1>5. CASE Button         BY <1>5 DEF Button, Next
<1>6. CASE ClientConnects BY <1>6 DEF ClientConnects, Next, ClientStep
<1>7. CASE ClientRestarts BY <1>7 DEF ClientRestarts, Next, ClientStep
<1>8. CASE Surroundings   BY <1>8 DEF Surroundings, Next
<1>9. CASE UNCHANGED all  BY <1>9 DEF all
<1> QED BY <1>1, <1>2, <1>3, <1>4, <1>5, <1>6, <1>7, <1>8, <1>9 DEF TopicsNext

LEMMA LedInvariant == TopicsSpec => []IInv
<1>1. TopicsInit => IInv
  BY LedInit DEF TopicsInit
<1>2. IInv /\ [TopicsNext]_all => IInv'
  BY TopicsStepIsStep, LedStep
<1> QED BY <1>1, <1>2, PTL DEF TopicsSpec

(***************************************************************************)
(* Type correctness of the connection.                                     *)
(***************************************************************************)
THEOREM LedTypes == TopicsSpec => []TypeOK
<1>1. IInv => TypeOK
  BY DEF IInv
<1> QED BY <1>1, LedInvariant, PTL

(***************************************************************************)
(* However the main task, the client's task and the wifi interleave, the   *)
(* light never creates a second client.                                    *)
(***************************************************************************)
THEOREM LedSingleClient == TopicsSpec => []SingleClient
<1>1. IInv => SingleClient
  BY DEF IInv
<1> QED BY <1>1, LedInvariant, PTL

(***************************************************************************)
(* Nor does it ever wait for a client that is not there, unless mDNS knew  *)
(* no broker.                                                              *)
(***************************************************************************)
THEOREM LedStrandedByMdns == TopicsSpec => []StrandedByMdns
<1>1. IInv => StrandedByMdns
  BY DEF IInv
<1> QED BY <1>1, LedInvariant, PTL

-----------------------------------------------------------------------------
(***************************************************************************)
(* The retained states.  What a step does to the message on topic t, and   *)
(* what a program still has to do for it: publish it, after a step that    *)
(* gives the task the facts and no other reading, and leave it alone then. *)
(***************************************************************************)
Step == [do : {"assign", "read"}, facts : SUBSET Fact] \cup [do : {"publish"}, topic : Topic]

Gives(step, t) == step.do \in {"assign", "read"} /\ Facts(t) \subseteq step.facts

NoRead(p, i, j)   == \A m \in i..j : p[m].do # "read"
Lasting(p, t, i)  == \A m \in i..Len(p) : ~Disturbs(p[m], t)
Given(p, t, i)    == \E j \in 1..(i - 1) : Gives(p[j], t) /\ NoRead(p, j + 1, i - 1)
Held(p, h, t, i)  == Facts(t) \subseteq h /\ NoRead(p, 1, i - 1)

Tells(p, t) ==
  \E i \in 1..Len(p) : p[i] = Publish(t) /\ Given(p, t, i) /\ Lasting(p, t, i + 1)

WillSay(p, h, t) ==
  \E i \in 1..Len(p) :
    p[i] = Publish(t) /\ (Given(p, t, i) \/ Held(p, h, t, i)) /\ Lasting(p, t, i + 1)

(***************************************************************************)
(* Programs put together.                                                  *)
(***************************************************************************)
LEMMA JoinedAt ==
  ASSUME NEW p \in Seq(Step), NEW q \in Seq(Step)
  PROVE  /\ p \o q \in Seq(Step) /\ Len(p \o q) = Len(p) + Len(q)
         /\ \A m \in 1..Len(p) : (p \o q)[m] = p[m]
         /\ \A m \in 1..Len(q) : (p \o q)[Len(p) + m] = q[m]
         /\ Len(p) \in Nat /\ Len(q) \in Nat
<1>1. Len(p) \in Nat /\ Len(q) \in Nat
  OBVIOUS
<1>2. \A m \in 1..(Len(p) + Len(q)) : (p \o q)[m] = IF m <= Len(p) THEN p[m] ELSE q[m - Len(p)]
  BY ConcatProperties
<1> QED BY <1>1, <1>2, ConcatProperties

LEMMA LastingJoined ==
  ASSUME NEW p \in Seq(Step), NEW q \in Seq(Step), NEW t, Lasting(p, t, 1), Lasting(q, t, 1)
  PROVE  Lasting(p \o q, t, 1)
<1>1. ASSUME NEW m \in 1..(Len(p) + Len(q)) PROVE ~Disturbs((p \o q)[m], t)
  <2>1. CASE m <= Len(p)
    BY <2>1, JoinedAt DEF Lasting
  <2>2. CASE m > Len(p)
    <3>1. m - Len(p) \in 1..Len(q) /\ m = Len(p) + (m - Len(p))
      BY <2>2, JoinedAt
    <3>2. (p \o q)[m] = q[m - Len(p)]
      BY <3>1, JoinedAt
    <3> QED BY <3>1, <3>2 DEF Lasting
  <2> QED BY <2>1, <2>2, JoinedAt
<1> QED BY <1>1, JoinedAt DEF Lasting

LEMMA TellsAfter ==
  ASSUME NEW p \in Seq(Step), NEW q \in Seq(Step), NEW t, Tells(q, t)
  PROVE  Tells(p \o q, t)
<1> DEFINE n == Len(p)
           r == p \o q
<1>1. /\ Len(r) = n + Len(q) /\ n \in Nat /\ Len(q) \in Nat
      /\ \A m \in 1..Len(q) : r[n + m] = q[m]
  BY JoinedAt
<1>2. PICK i \in 1..Len(q) : q[i] = Publish(t) /\ Given(q, t, i) /\ Lasting(q, t, i + 1)
  BY DEF Tells
<1>3. PICK j \in 1..(i - 1) : Gives(q[j], t) /\ NoRead(q, j + 1, i - 1)
  BY <1>2 DEF Given
<1> HIDE DEF n, r
<1>4. \A m \in (n + 1)..(n + Len(q)) : m - n \in 1..Len(q) /\ r[m] = q[m - n]
  <2> SUFFICES ASSUME NEW m \in (n + 1)..(n + Len(q)) PROVE m - n \in 1..Len(q) /\ r[m] = q[m - n]
    OBVIOUS
  <2>1. m - n \in 1..Len(q) /\ m = n + (m - n)
    BY <1>1
  <2> QED BY <1>1, <2>1
<1>5. n + i \in 1..Len(r) /\ r[n + i] = Publish(t)
  BY <1>1, <1>2
<1>6. n + j \in 1..((n + i) - 1) /\ Gives(r[n + j], t) /\ NoRead(r, (n + j) + 1, (n + i) - 1)
  <2>1. \A m \in ((n + j) + 1)..((n + i) - 1) : m - n \in (j + 1)..(i - 1) /\ r[m] = q[m - n]
    BY <1>1, <1>4
  <2>2. NoRead(r, (n + j) + 1, (n + i) - 1)
    BY <1>3, <2>1 DEF NoRead
  <2>3. r[n + j] = q[j] /\ n + j \in 1..((n + i) - 1)
    BY <1>1
  <2> QED BY <1>3, <2>2, <2>3
<1>7. Lasting(r, t, (n + i) + 1)
  <2>1. \A m \in ((n + i) + 1)..Len(r) : m - n \in (i + 1)..Len(q) /\ r[m] = q[m - n]
    BY <1>1, <1>4
  <2> QED BY <1>2, <2>1 DEF Lasting
<1> QED BY <1>5, <1>6, <1>7 DEF Tells, Given, r

LEMMA TellsBefore ==
  ASSUME NEW p \in Seq(Step), NEW q \in Seq(Step), NEW t, Tells(p, t), Lasting(q, t, 1)
  PROVE  Tells(p \o q, t)
<1> DEFINE n == Len(p)
           r == p \o q
<1>1. /\ Len(r) = n + Len(q) /\ n \in Nat /\ Len(q) \in Nat
      /\ \A m \in 1..n : r[m] = p[m]
      /\ \A m \in 1..Len(q) : r[n + m] = q[m]
  BY JoinedAt
<1>2. PICK i \in 1..n : p[i] = Publish(t) /\ Given(p, t, i) /\ Lasting(p, t, i + 1)
  BY DEF Tells
<1>3. PICK j \in 1..(i - 1) : Gives(p[j], t) /\ NoRead(p, j + 1, i - 1)
  BY <1>2 DEF Given
<1>4. Lasting(p, t, i + 1) <=> \A m \in (i + 1)..n : ~Disturbs(p[m], t)
  BY DEF Lasting
<1> HIDE DEF n, r
<1>5. i \in 1..Len(r) /\ r[i] = Publish(t)
  BY <1>1, <1>2
<1>6. Gives(r[j], t) /\ NoRead(r, j + 1, i - 1)
  <2>1. j \in 1..n /\ r[j] = p[j]
    BY <1>1
  <2>2. \A m \in (j + 1)..(i - 1) : r[m] = p[m]
    BY <1>1
  <2>3. NoRead(r, j + 1, i - 1)
    BY <1>3, <2>2 DEF NoRead
  <2> QED BY <1>3, <2>1, <2>3
<1>7. Lasting(r, t, i + 1)
  <2> SUFFICES ASSUME NEW m \in (i + 1)..(n + Len(q)) PROVE ~Disturbs(r[m], t)
    BY <1>1 DEF Lasting
  <2>1. CASE m <= n
    BY <1>1, <1>2, <1>4, <2>1
  <2>2. CASE m > n
    <3>1. m - n \in 1..Len(q) /\ m = n + (m - n)
      BY <1>1, <2>2
    <3>2. r[m] = q[m - n]
      BY <1>1, <3>1
    <3> QED BY <3>1, <3>2 DEF Lasting
  <2> QED BY <1>1, <2>1, <2>2
<1> QED BY <1>3, <1>5, <1>6, <1>7 DEF Tells, Given, r

(***************************************************************************)
(* A publication at the end, after a step that gives its facts.            *)
(***************************************************************************)
LEMMA TellsAtEnd ==
  ASSUME NEW p \in Seq(Step), NEW t \in Topic, NEW j \in 1..Len(p), Gives(p[j], t),
         NoRead(p, j + 1, Len(p))
  PROVE  Tells(p \o <<Publish(t)>>, t)
<1> DEFINE n == Len(p)
           r == p \o <<Publish(t)>>
<1>1. <<Publish(t)>> \in Seq(Step) /\ Len(<<Publish(t)>>) = 1 /\ <<Publish(t)>>[1] = Publish(t)
  BY DEF Publish, Step
<1>2. /\ Len(r) = n + 1 /\ n \in Nat /\ j \in 1..n
      /\ \A m \in 1..n : r[m] = p[m]
      /\ r[n + 1] = Publish(t)
  BY <1>1, JoinedAt
<1>3. NoRead(p, j + 1, n)
  OBVIOUS
<1> HIDE DEF n, r
<1>4. Given(r, t, n + 1)
  <2>1. (n + 1) - 1 = n /\ r[j] = p[j] /\ \A m \in (j + 1)..n : r[m] = p[m]
    BY <1>2
  <2>2. NoRead(r, j + 1, n)
    BY <1>3, <2>1 DEF NoRead
  <2> QED BY <1>2, <2>1, <2>2 DEF Given
<1>5. Lasting(r, t, (n + 1) + 1)
  BY <1>2 DEF Lasting
<1> QED BY <1>2, <1>4, <1>5 DEF Tells, r

(***************************************************************************)
(* The programs of several channels in turn.                               *)
(***************************************************************************)
Programs(n, size, P) ==
  \A c \in 0..(n - 1) : P[c] \in Seq(Step) /\ Len(P[c]) = size

At(c, size, m) == c * size + m

LEMMA InTurnAt ==
  ASSUME NEW n \in Nat, NEW size \in {2, 3, 4}, NEW P, Programs(n, size, P)
  PROVE  /\ InTurn(n, size, P) \in Seq(Step) /\ Len(InTurn(n, size, P)) = n * size
         /\ \A c \in 0..(n - 1), m \in 1..size :
              At(c, size, m) \in 1..(n * size) /\ InTurn(n, size, P)[At(c, size, m)] = P[c][m]
         /\ \A i \in 1..(n * size) : \E c \in 0..(n - 1), m \in 1..size : i = At(c, size, m)
<1> DEFINE r == InTurn(n, size, P)
<1>1. n * size \in Nat
  OBVIOUS
<1>2. ASSUME NEW i \in 1..(n * size)
      PROVE  /\ (i - 1) \div size \in 0..(n - 1) /\ ((i - 1) % size) + 1 \in 1..size
             /\ i = ((i - 1) \div size) * size + (((i - 1) % size) + 1)
  <2>1. CASE size = 2
    BY <2>1
  <2>2. CASE size = 3
    BY <2>2
  <2>3. CASE size = 4
    BY <2>3
  <2> QED BY <2>1, <2>2, <2>3
<1>3. ASSUME NEW c \in 0..(n - 1), NEW m \in 1..size
      PROVE  /\ c * size + m \in 1..(n * size)
             /\ ((c * size + m) - 1) \div size = c /\ (((c * size + m) - 1) % size) + 1 = m
  <2>1. CASE size = 2
    BY <2>1
  <2>2. CASE size = 3
    BY <2>2
  <2>3. CASE size = 4
    BY <2>3
  <2> QED BY <2>1, <2>2, <2>3
<1>4. r = [i \in 1..(n * size) |-> P[(i - 1) \div size][((i - 1) % size) + 1]]
  BY DEF InTurn
<1>5. ASSUME NEW c \in 0..(n - 1), NEW m \in 1..size PROVE P[c][m] \in Step
  BY ElementOfSeq DEF Programs
<1> HIDE DEF r
<1>6. \A i \in 1..(n * size) : r[i] \in Step
  BY <1>2, <1>4, <1>5
<1>7. r \in Seq(Step) /\ Len(r) = n * size
  <2>1. r \in [1..(n * size) -> Step]
    BY <1>4, <1>6
  <2> QED BY <1>1, <2>1
<1>8. ASSUME NEW c \in 0..(n - 1), NEW m \in 1..size PROVE r[c * size + m] = P[c][m]
  <2> DEFINE i == c * size + m
  <2>1. i \in 1..(n * size) /\ (i - 1) \div size = c /\ ((i - 1) % size) + 1 = m
    BY <1>3
  <2> HIDE DEF i
  <2>2. r[i] = P[c][m]
    BY <1>4, <2>1
  <2> QED BY <2>2 DEF i
<1> QED BY <1>2, <1>3, <1>7, <1>8 DEF r, At

LEMMA InTurnLasting ==
  ASSUME NEW n \in Nat, NEW size \in {2, 3, 4}, NEW P, NEW t, Programs(n, size, P),
         \A c \in 0..(n - 1) : Lasting(P[c], t, 1)
  PROVE  Lasting(InTurn(n, size, P), t, 1)
<1> DEFINE r == InTurn(n, size, P)
<1>0. ASSUME NEW c \in 0..(n - 1), NEW m \in 1..size PROVE r[At(c, size, m)] = P[c][m]
  <2>1. InTurn(n, size, P)[At(c, size, m)] = P[c][m]
    BY ONLY n \in Nat, size \in {2, 3, 4}, Programs(n, size, P), InTurnAt, <1>0
  <2> QED BY <2>1
<1>1. /\ Len(r) = n * size
      /\ \A i \in 1..(n * size) : \E c \in 0..(n - 1), m \in 1..size : i = At(c, size, m)
  BY InTurnAt
<1> HIDE DEF r
<1>2. ASSUME NEW i \in 1..(n * size) PROVE ~Disturbs(r[i], t)
  <2>1. PICK c \in 0..(n - 1), m \in 1..size : i = At(c, size, m)
    BY <1>1
  <2>2. r[i] = P[c][m]
    BY <1>0, <2>1
  <2>3. ~Disturbs(P[c][m], t)
    BY DEF Lasting, Programs
  <2> QED BY <2>2, <2>3
<1> QED BY <1>1, <1>2 DEF Lasting, r

LEMMA InTurnTells ==
  ASSUME NEW n \in Nat, NEW size \in {2, 3, 4}, NEW P, NEW t, NEW c \in 0..(n - 1),
         Programs(n, size, P), Tells(P[c], t), \A d \in 0..(n - 1) : d # c => Lasting(P[d], t, 1)
  PROVE  Tells(InTurn(n, size, P), t)
<1> DEFINE r == InTurn(n, size, P)
           k == c * size
<1>0. ASSUME NEW d \in 0..(n - 1), NEW m \in 1..size
      PROVE  At(d, size, m) \in 1..(n * size) /\ r[At(d, size, m)] = P[d][m]
  <2>1. InTurn(n, size, P)[At(d, size, m)] = P[d][m]
    BY ONLY n \in Nat, size \in {2, 3, 4}, Programs(n, size, P), InTurnAt, <1>0
  <2>2. At(d, size, m) \in 1..(n * size)
    BY ONLY n \in Nat, size \in {2, 3, 4}, Programs(n, size, P), InTurnAt, <1>0
  <2> QED BY <2>1, <2>2
<1>1. /\ Len(r) = n * size
      /\ \A i \in 1..(n * size) : \E d \in 0..(n - 1), m \in 1..size : i = At(d, size, m)
  BY InTurnAt
<1>2. PICK i \in 1..size : P[c][i] = Publish(t) /\ Given(P[c], t, i) /\ Lasting(P[c], t, i + 1)
  BY DEF Tells, Programs
<1>3. PICK j \in 1..(i - 1) : Gives(P[c][j], t) /\ NoRead(P[c], j + 1, i - 1)
  BY <1>2 DEF Given
<1>4. k \in Nat /\ \A m \in 1..size : k + m \in 1..Len(r) /\ r[k + m] = P[c][m]
  <2>1. k \in Nat
    OBVIOUS
  <2>2. ASSUME NEW m \in 1..size PROVE k + m \in 1..Len(r) /\ r[k + m] = P[c][m]
    <3>1. At(c, size, m) = k + m
      BY DEF At
    <3> HIDE DEF r, k
    <3> QED BY <1>0, <1>1, <3>1
  <2> QED BY <2>1, <2>2
<1> HIDE DEF r
<1>5. Given(r, t, k + i)
  <2>1. k + j \in 1..((k + i) - 1) /\ r[k + j] = P[c][j]
    BY <1>4
  <2>2. NoRead(r, (k + j) + 1, (k + i) - 1)
    <3> SUFFICES ASSUME NEW m \in ((k + j) + 1)..((k + i) - 1) PROVE r[m].do # "read"
      BY DEF NoRead
    <3>1. m - k \in (j + 1)..(i - 1) /\ m - k \in 1..size /\ m = k + (m - k)
      BY <1>4
    <3>2. r[m] = P[c][m - k]
      BY <1>4, <3>1
    <3> QED BY <1>3, <3>1, <3>2 DEF NoRead
  <2> QED BY <1>3, <2>1, <2>2 DEF Given
<1>6. Lasting(r, t, (k + i) + 1)
  <2> SUFFICES ASSUME NEW m \in ((k + i) + 1)..(n * size) PROVE ~Disturbs(r[m], t)
    BY <1>1 DEF Lasting
  <2>1. m \in 1..(n * size)
    BY <1>4
  <2>2. PICK d \in 0..(n - 1), q \in 1..size : m = At(d, size, q)
    BY <1>1, <2>1
  <2>3. r[m] = P[d][q]
    BY <1>0, <2>2
  <2>4. CASE d = c
    <3>1. q \in (i + 1)..Len(P[c])
      BY <1>4, <2>2, <2>4 DEF At, Programs
    <3> QED BY <1>2, <2>3, <2>4, <3>1 DEF Lasting
  <2>5. CASE d # c
    BY <2>3, <2>5 DEF Lasting, Programs
  <2> QED BY <2>4, <2>5
<1> QED BY <1>2, <1>4, <1>5, <1>6 DEF Tells, r

-----------------------------------------------------------------------------
(***************************************************************************)
(* The channels, the topics and what they speak of.                        *)
(***************************************************************************)
LEMMA ChannelOf ==
  ASSUME NEW g \in {0, 1}, NEW k \in 1..G
  PROVE  g * G + k - 1 \in Channel /\ g * G + k - 1 \in Group(g) /\ g * G \in Channel
<1>1. G \in Nat \ {0}
  BY TopicsAssumption DEF TopicsAssumption
<1>2. CASE g = 0
  BY <1>1, <1>2 DEF Channel, Group
<1>3. CASE g = 1
  BY <1>1, <1>3 DEF Channel, Group
<1> QED BY <1>2, <1>3

LEMMA GroupChannels == \A g \in {0, 1} : Group(g) \subseteq Channel /\ g * G \in Channel
<1>1. G \in Nat \ {0}
  BY TopicsAssumption DEF TopicsAssumption
<1>2. Group(0) \subseteq Channel /\ 0 * G \in Channel
  BY <1>1 DEF Channel, Group
<1>3. Group(1) \subseteq Channel /\ 1 * G \in Channel
  BY <1>1 DEF Channel, Group
<1> QED BY <1>2, <1>3

LEMMA FactsOf ==
  /\ \A c, what : Facts(<<"led", c, what>>) = {<<c, what>>}
  /\ \A g : Facts(<<"rgb", g, "switch">>) = {<<g * G, "switch">>}
  /\ \A g : Facts(<<"rgb", g, "value">>) = Group(g) \X {"value"}
  BY DEF Facts

LEMMA TopicCases ==
  ASSUME NEW t \in Topic
  PROVE  \/ \E g \in {0, 1} : t = <<"rgb", g, "value">>
         \/ \E g \in {0, 1} : t = <<"rgb", g, "switch">>
         \/ \E c \in Channel : t = <<"led", c, "value">>
         \/ \E c \in Channel : t = <<"led", c, "switch">>
  BY DEF Topic

LEMMA Topics ==
  /\ \A g \in {0, 1}, what \in {"value", "switch"} : <<"rgb", g, what>> \in Topic
  /\ \A c \in Channel, what \in {"value", "switch"} : <<"led", c, what>> \in Topic
  BY DEF Topic

LEMMA FactsType == \A t \in Topic : Facts(t) \subseteq Fact
<1> SUFFICES ASSUME NEW t \in Topic PROVE Facts(t) \subseteq Fact
  OBVIOUS
<1>1. ASSUME NEW g \in {0, 1}, t = <<"rgb", g, "value">> PROVE Facts(t) \subseteq Fact
  BY <1>1, FactsOf, GroupChannels DEF Fact
<1>2. ASSUME NEW g \in {0, 1}, t = <<"rgb", g, "switch">> PROVE Facts(t) \subseteq Fact
  BY <1>2, FactsOf, GroupChannels DEF Fact
<1>3. ASSUME NEW c \in Channel, NEW what \in {"value", "switch"}, t = <<"led", c, what>>
      PROVE Facts(t) \subseteq Fact
  BY <1>3, FactsOf DEF Fact
<1> QED BY <1>1, <1>2, <1>3, TopicCases

LEMMA StepTypes ==
  /\ \A f \in SUBSET Fact : Assign(f) \in Step /\ Assign(f).do = "assign" /\ Assign(f).facts = f
  /\ \A f \in SUBSET Fact : Read(f) \in Step /\ Read(f).do = "read" /\ Read(f).facts = f
  /\ \A t \in Topic : Publish(t) \in Step /\ Publish(t).do = "publish" /\ Publish(t).topic = t
  BY DEF Assign, Read, Publish, Step

-----------------------------------------------------------------------------
(***************************************************************************)
(* The parts programs are made of.                                         *)
(***************************************************************************)
LEMMA TellIs ==
  ASSUME NEW t \in Topic
  PROVE  /\ Tell(t) \in Seq(Step) /\ Len(Tell(t)) = 2
         /\ Tell(t)[1] = Read(Facts(t)) /\ Tell(t)[2] = Publish(t)
<1>1. Read(Facts(t)) \in Step /\ Publish(t) \in Step
  BY StepTypes, FactsType
<1> QED BY <1>1 DEF Tell

LEMMA TellTells == ASSUME NEW t \in Topic PROVE Tells(Tell(t), t)
<1> DEFINE p == Tell(t)
<1>1. Len(p) = 2 /\ p[2] = Publish(t) /\ Gives(p[1], t)
  BY TellIs, StepTypes, FactsType DEF Gives
<1> HIDE DEF p
<1>2. Given(p, t, 2) /\ Lasting(p, t, 3)
  BY <1>1 DEF Given, NoRead, Lasting
<1> QED BY <1>1, <1>2 DEF Tells, p

LEMMA TellLasts ==
  ASSUME NEW t \in Topic, NEW u \in Topic, t # u
  PROVE  Lasting(Tell(u), t, 1)
<1>1. ~Disturbs(Read(Facts(u)), t) /\ ~Disturbs(Publish(u), t)
  BY StepTypes, FactsType DEF Disturbs
<1> QED BY <1>1, TellIs DEF Lasting

LEMMA SetAndSend ==
  ASSUME NEW t \in Topic, NEW f \in SUBSET Fact
  PROVE  LET p == <<Assign(f), Publish(t)>>
         IN  /\ p \in Seq(Step) /\ Len(p) = 2 /\ p[1] = Assign(f) /\ p[2] = Publish(t)
             /\ Facts(t) \subseteq f => Tells(p, t)
             /\ \A u \in Topic : u # t /\ Facts(u) \cap f = {} => Lasting(p, u, 1)
<1> DEFINE p == <<Assign(f), Publish(t)>>
<1>1. p \in Seq(Step) /\ Len(p) = 2 /\ p[1] = Assign(f) /\ p[2] = Publish(t)
  BY StepTypes
<1> HIDE DEF p
<1>2. ASSUME Facts(t) \subseteq f PROVE Tells(p, t)
  <2>1. Gives(p[1], t)
    BY <1>1, <1>2, StepTypes DEF Gives
  <2>2. Given(p, t, 2) /\ Lasting(p, t, 3)
    BY <1>1, <2>1 DEF Given, NoRead, Lasting
  <2> QED BY <1>1, <2>2 DEF Tells
<1>3. ASSUME NEW u \in Topic, u # t, Facts(u) \cap f = {} PROVE Lasting(p, u, 1)
  <2>1. ~Disturbs(Assign(f), u) /\ ~Disturbs(Publish(t), u)
    BY <1>3, StepTypes DEF Disturbs
  <2> QED BY <1>1, <2>1 DEF Lasting
<1> QED BY <1>1, <1>2, <1>3 DEF p

LEMMA OneAssign ==
  ASSUME NEW f \in SUBSET Fact
  PROVE  /\ <<Assign(f)>> \in Seq(Step) /\ Len(<<Assign(f)>>) = 1
         /\ \A u \in Topic : Facts(u) \cap f = {} => Lasting(<<Assign(f)>>, u, 1)
<1>1. <<Assign(f)>> \in Seq(Step) /\ Len(<<Assign(f)>>) = 1 /\ <<Assign(f)>>[1] = Assign(f)
  BY StepTypes
<1>2. ASSUME NEW u \in Topic, Facts(u) \cap f = {} PROVE Lasting(<<Assign(f)>>, u, 1)
  <2>1. ~Disturbs(Assign(f), u)
    BY <1>2, StepTypes DEF Disturbs
  <2> QED BY <1>1, <2>1 DEF Lasting
<1> QED BY <1>1, <1>2

LEMMA TellBothIs ==
  ASSUME NEW kind, NEW n, <<kind, n, "value">> \in Topic, <<kind, n, "switch">> \in Topic
  PROVE  /\ TellBoth(kind, n) \in Seq(Step) /\ Len(TellBoth(kind, n)) = 4
         /\ Tells(TellBoth(kind, n), <<kind, n, "value">>)
         /\ Tells(TellBoth(kind, n), <<kind, n, "switch">>)
         /\ \A t \in Topic \ {<<kind, n, "value">>, <<kind, n, "switch">>} :
              Lasting(TellBoth(kind, n), t, 1)
<1> DEFINE v == <<kind, n, "value">>
           s == <<kind, n, "switch">>
<1>1. v # s /\ v \in Topic /\ s \in Topic
  OBVIOUS
<1>2. TellBoth(kind, n) = Tell(v) \o Tell(s)
  BY DEF TellBoth
<1> HIDE DEF v, s
<1>3. /\ Tell(v) \in Seq(Step) /\ Len(Tell(v)) = 2 /\ Tell(s) \in Seq(Step) /\ Len(Tell(s)) = 2
      /\ Tells(Tell(v), v) /\ Tells(Tell(s), s) /\ Lasting(Tell(s), v, 1)
  BY <1>1, TellIs, TellTells, TellLasts
<1>4. Tell(v) \o Tell(s) \in Seq(Step) /\ Len(Tell(v) \o Tell(s)) = 4
  <2> DEFINE a == Tell(v)
             b == Tell(s)
  <2>1. a \in Seq(Step) /\ Len(a) = 2 /\ b \in Seq(Step) /\ Len(b) = 2
    BY <1>3
  <2> HIDE DEF a, b
  <2>2. a \o b \in Seq(Step) /\ Len(a \o b) = Len(a) + Len(b)
    BY <2>1, JoinedAt
  <2>3. a \o b \in Seq(Step) /\ Len(a \o b) = 4
    BY <2>1, <2>2
  <2> QED BY <2>3 DEF a, b
<1>5. Tells(Tell(v) \o Tell(s), v)
  BY <1>3, TellsBefore
<1>6. Tells(Tell(v) \o Tell(s), s)
  BY <1>3, TellsAfter
<1>7. ASSUME NEW t \in Topic, t # v, t # s PROVE Lasting(Tell(v) \o Tell(s), t, 1)
  BY <1>1, <1>3, <1>7, TellLasts, LastingJoined
<1> QED BY <1>2, <1>4, <1>5, <1>6, <1>7 DEF v, s

-----------------------------------------------------------------------------
(***************************************************************************)
(* Every program is made of steps, and tells the topics it is there for.   *)
(***************************************************************************)
Fulfils(p, ts) == p \in Seq(Step) /\ \A t \in ts : t \in Topic /\ Tells(p, t)

LEMMA ChannelsInTurn ==
  ASSUME NEW size \in {2, 3, 4}, NEW P, \A c \in Channel : P[c] \in Seq(Step) /\ Len(P[c]) = size
  PROVE  /\ 2 * G \in Nat /\ Programs(2 * G, size, P)
         /\ InTurn(2 * G, size, P) \in Seq(Step)
         /\ \A t : (\A c \in Channel : Lasting(P[c], t, 1)) => Lasting(InTurn(2 * G, size, P), t, 1)
         /\ \A t : \A c \in Channel :
              Tells(P[c], t) /\ (\A d \in Channel : d # c => Lasting(P[d], t, 1))
                => Tells(InTurn(2 * G, size, P), t)
<1>1. 2 * G \in Nat /\ Channel = 0..(2 * G - 1)
  BY TopicsAssumption DEF TopicsAssumption, Channel
<1>2. Programs(2 * G, size, P)
  BY <1>1 DEF Programs
<1> DEFINE n == 2 * G
<1>3. n \in Nat /\ Channel = 0..(n - 1) /\ Programs(n, size, P)
  BY <1>1, <1>2
<1> HIDE DEF n
<1>4. InTurn(n, size, P) \in Seq(Step)
  BY <1>3, InTurnAt
<1>5. ASSUME NEW t, \A c \in Channel : Lasting(P[c], t, 1) PROVE Lasting(InTurn(n, size, P), t, 1)
  BY <1>3, <1>5, InTurnLasting
<1>6. ASSUME NEW t, NEW c \in Channel, Tells(P[c], t),
             \A d \in Channel : d # c => Lasting(P[d], t, 1)
      PROVE  Tells(InTurn(n, size, P), t)
  BY <1>3, <1>6, InTurnTells
<1> QED BY <1>3, <1>4, <1>5, <1>6 DEF n

LEMMA BothOf ==
  ASSUME NEW kind \in {"rgb", "led"}, NEW n, n \in IF kind = "rgb" THEN {0, 1} ELSE Channel
  PROVE  /\ TellBoth(kind, n) \in Seq(Step) /\ Len(TellBoth(kind, n)) = 4
         /\ \A what \in {"value", "switch"} :
              <<kind, n, what>> \in Topic /\ Tells(TellBoth(kind, n), <<kind, n, what>>)
         /\ \A t \in Topic : t[1] # kind \/ t[2] # n => Lasting(TellBoth(kind, n), t, 1)
<1>1. <<kind, n, "value">> \in Topic /\ <<kind, n, "switch">> \in Topic
  BY Topics
<1>2. ASSUME NEW t \in Topic, t[1] # kind \/ t[2] # n PROVE Lasting(TellBoth(kind, n), t, 1)
  <2>1. t # <<kind, n, "value">> /\ t # <<kind, n, "switch">>
    BY <1>2
  <2>2. t \in Topic \ {<<kind, n, "value">>, <<kind, n, "switch">>}
    BY <2>1
  <2> QED BY <1>1, <2>2, TellBothIs, Zenon
<1>3. /\ TellBoth(kind, n) \in Seq(Step) /\ Len(TellBoth(kind, n)) = 4
      /\ Tells(TellBoth(kind, n), <<kind, n, "value">>)
      /\ Tells(TellBoth(kind, n), <<kind, n, "switch">>)
  BY <1>1, TellBothIs, Zenon
<1> QED BY <1>1, <1>2, <1>3

LEMMA ConnectedTells == Fulfils(ConnectedProgram, Topic)
<1> DEFINE PR == [g \in 0..1 |-> TellBoth("rgb", g)]
           PL == [c \in Channel |-> TellBoth("led", c)]
           R  == InTurn(2, 4, PR)
           L  == InTurn(2 * G, 4, PL)
<1>1. /\ \A g \in 0..1 : PR[g] = TellBoth("rgb", g)
      /\ \A c \in Channel : PL[c] = TellBoth("led", c)
      /\ ConnectedProgram = R \o L
  BY DEF ConnectedProgram
<1> HIDE DEF PR, PL
<1>2. \A g \in 0..1 : PR[g] \in Seq(Step) /\ Len(PR[g]) = 4
  <2> SUFFICES ASSUME NEW g \in {0, 1} PROVE PR[g] \in Seq(Step) /\ Len(PR[g]) = 4
    OBVIOUS
  <2>1. TellBoth("rgb", g) \in Seq(Step) /\ Len(TellBoth("rgb", g)) = 4
    BY BothOf
  <2> QED BY <1>1, <2>1
<1>3. \A c \in Channel : PL[c] \in Seq(Step) /\ Len(PL[c]) = 4
  <2> SUFFICES ASSUME NEW c \in Channel PROVE PL[c] \in Seq(Step) /\ Len(PL[c]) = 4
    OBVIOUS
  <2>1. TellBoth("led", c) \in Seq(Step) /\ Len(TellBoth("led", c)) = 4
    BY BothOf
  <2> QED BY <1>1, <2>1
<1>4. R \in Seq(Step) /\ L \in Seq(Step) /\ Programs(2, 4, PR)
  <2>1. Programs(2, 4, PR)
    BY <1>2 DEF Programs
  <2>2. R \in Seq(Step)
    BY <2>1, InTurnAt
  <2> QED BY <1>3, <2>1, <2>2, ChannelsInTurn
<1>5. ASSUME NEW g \in {0, 1}, NEW what \in {"value", "switch"} PROVE Tells(R \o L, <<"rgb", g, what>>)
  <2> DEFINE t == <<"rgb", g, what>>
  <2>0. t[1] = "rgb" /\ t[2] = g
    OBVIOUS
  <2>1. t \in Topic /\ Tells(PR[g], t)
    <3>1. t \in Topic /\ Tells(TellBoth("rgb", g), t)
      BY BothOf
    <3> HIDE DEF t
    <3> QED BY <1>1, <3>1
  <2>2. \A d \in 0..(2 - 1) : d # g => Lasting(PR[d], t, 1)
    <3> SUFFICES ASSUME NEW d \in {0, 1}, d # g PROVE Lasting(PR[d], t, 1)
      OBVIOUS
    <3> HIDE DEF t
    <3>1. Lasting(TellBoth("rgb", d), t, 1)
      BY <2>0, <2>1, BothOf
    <3> QED BY <1>1, <3>1
  <2>3. \A c \in Channel : Lasting(PL[c], t, 1)
    <3> SUFFICES ASSUME NEW c \in Channel PROVE Lasting(PL[c], t, 1)
      OBVIOUS
    <3> HIDE DEF t
    <3>1. Lasting(TellBoth("led", c), t, 1)
      BY <2>0, <2>1, BothOf
    <3> QED BY <1>1, <3>1
  <2> HIDE DEF t
  <2>4. Tells(R, t)
    <3>1. g \in 0..(2 - 1) /\ 2 \in Nat /\ 4 \in {2, 3, 4}
      OBVIOUS
    <3> QED BY <1>4, <2>1, <2>2, <3>1, InTurnTells
  <2>5. Lasting(L, t, 1)
    BY <1>3, <2>3, ChannelsInTurn
  <2>6. Tells(R \o L, t)
    BY <1>4, <2>4, <2>5, TellsBefore
  <2> QED BY <2>6 DEF t
<1>6. ASSUME NEW c \in Channel, NEW what \in {"value", "switch"} PROVE Tells(R \o L, <<"led", c, what>>)
  <2> DEFINE t == <<"led", c, what>>
  <2>0. t[1] = "led" /\ t[2] = c
    OBVIOUS
  <2>1. t \in Topic /\ Tells(PL[c], t)
    <3>1. t \in Topic /\ Tells(TellBoth("led", c), t)
      BY BothOf
    <3> HIDE DEF t
    <3> QED BY <1>1, <3>1
  <2>2. \A d \in Channel : d # c => Lasting(PL[d], t, 1)
    <3> SUFFICES ASSUME NEW d \in Channel, d # c PROVE Lasting(PL[d], t, 1)
      OBVIOUS
    <3> HIDE DEF t
    <3>1. Lasting(TellBoth("led", d), t, 1)
      BY <2>0, <2>1, BothOf
    <3> QED BY <1>1, <3>1
  <2> HIDE DEF t
  <2>3. Tells(L, t)
    BY <1>3, <2>1, <2>2, ChannelsInTurn
  <2>4. Tells(R \o L, t)
    BY <1>4, <2>3, TellsAfter
  <2> QED BY <2>4 DEF t
<1>7. R \o L \in Seq(Step)
  BY <1>4, JoinedAt
<1> HIDE DEF R, L
<1>8. \A t \in Topic : Tells(R \o L, t)
  BY <1>5, <1>6, TopicCases
<1> QED BY <1>1, <1>7, <1>8 DEF Fulfils

LEMMA RgbTells ==
  ASSUME NEW g \in {0, 1}, NEW numbers \in SUBSET Group(g)
  PROVE  Fulfils(RgbProgram(g, numbers), {<<"rgb", g, "value">>})
<1> DEFINE t == <<"rgb", g, "value">>
           A == AssignNumbers(g, numbers)
<1>1. A \in Seq(Step)
  <2>1. ASSUME NEW k \in 1..G PROVE Assign((numbers \cap {g * G + k - 1}) \X {"value"}) \in Step
    <3>1. (numbers \cap {g * G + k - 1}) \X {"value"} \subseteq Fact
      BY ChannelOf DEF Fact
    <3> QED BY <3>1, StepTypes
  <2>2. G \in Nat
    BY TopicsAssumption DEF TopicsAssumption
  <2>3. A = [k \in 1..G |-> Assign((numbers \cap {g * G + k - 1}) \X {"value"})]
    BY DEF AssignNumbers
  <2> HIDE DEF A
  <2>4. A \in [1..G -> Step]
    BY <2>1, <2>3
  <2> QED BY <2>2, <2>4
<1>2. t \in Topic
  BY Topics
<1>3. RgbProgram(g, numbers) = A \o Tell(t)
  BY DEF RgbProgram
<1> HIDE DEF t, A
<1>4. Tell(t) \in Seq(Step) /\ Tells(Tell(t), t)
  BY <1>2, TellIs, TellTells
<1>5. A \o Tell(t) \in Seq(Step) /\ Tells(A \o Tell(t), t)
  BY <1>1, <1>4, JoinedAt, TellsAfter
<1> QED BY <1>2, <1>3, <1>5 DEF Fulfils, t

LEMMA LitIs ==
  ASSUME NEW t \in Topic, NEW on \in BOOLEAN
  PROVE  /\ Lit(t, on) \in Seq(Step)
         /\ on => Tells(Lit(t, on), t)
         /\ \A u \in Topic : u # t => Lasting(Lit(t, on), u, 1)
<1>1. CASE on
  BY <1>1, TellIs, TellTells, TellLasts DEF Lit
<1>2. CASE ~on
  <2>1. Lit(t, on) = <<>>
    BY <1>2 DEF Lit
  <2> QED BY <1>2, <2>1 DEF Lasting
<1> QED BY <1>1, <1>2

(***************************************************************************)
(* A program that sets and sends the switch, and goes on with the value.   *)
(***************************************************************************)
LEMMA SwitchThenLit ==
  ASSUME NEW p \in Seq(Step), NEW s \in Topic, NEW v \in Topic, NEW on \in BOOLEAN,
         s # v, Tells(p, s)
  PROVE  Fulfils(p \o Lit(v, on), {s} \cup Lighting(on, v))
<1>1. Lit(v, on) \in Seq(Step) /\ (on => Tells(Lit(v, on), v)) /\ Lasting(Lit(v, on), s, 1)
  BY LitIs
<1>2. p \o Lit(v, on) \in Seq(Step) /\ Tells(p \o Lit(v, on), s)
  BY <1>1, JoinedAt, TellsBefore
<1>3. on => Tells(p \o Lit(v, on), v)
  BY <1>1, TellsAfter
<1> QED BY <1>2, <1>3 DEF Fulfils, Lighting

LEMMA RgbSwitchTells ==
  ASSUME NEW g \in {0, 1}, NEW on \in BOOLEAN
  PROVE  Fulfils(RgbSwitchProgram(g, on),
                 {<<"rgb", g, "switch">>} \cup Lighting(on, <<"rgb", g, "value">>))
<1> DEFINE s == <<"rgb", g, "switch">>
           v == <<"rgb", g, "value">>
           A == [k \in 1..G |-> Assign({<<g * G + k - 1, "switch">>})]
<1>1. G \in Nat \ {0}
  BY TopicsAssumption DEF TopicsAssumption
<1>2. ASSUME NEW k \in 1..G
      PROVE  /\ A[k] \in Step /\ A[k].do = "assign"
             /\ A[k].facts = {<<g * G + k - 1, "switch">>}
  <2>1. {<<g * G + k - 1, "switch">>} \subseteq Fact
    BY ChannelOf DEF Fact
  <2>2. A[k] = Assign({<<g * G + k - 1, "switch">>})
    OBVIOUS
  <2> HIDE DEF A
  <2> QED BY <2>1, <2>2, StepTypes
<1>3. A \in Seq(Step) /\ Len(A) = G
  <2>1. A \in [1..G -> Step]
    <3>1. \A k \in 1..G : A[k] \in Step
      BY <1>2
    <3> QED BY <3>1
  <2> HIDE DEF A
  <2> QED BY <1>1, <2>1
<1>4. s \in Topic /\ v \in Topic /\ s # v /\ Facts(s) = {<<g * G, "switch">>}
  BY Topics, FactsOf
<1>5. RgbSwitchProgram(g, on) = (A \o <<Publish(s)>>) \o Lit(v, on)
  BY DEF RgbSwitchProgram
<1>6. Gives(A[1], s) /\ NoRead(A, 1 + 1, Len(A)) /\ 1 \in 1..Len(A)
  <2>1. 1 \in 1..G /\ g * G + 1 - 1 = g * G
    BY <1>1
  <2>2. Gives(A[1], s)
    <3> HIDE DEF A, s
    <3> QED BY <1>2, <1>4, <2>1 DEF Gives
  <2>3. NoRead(A, 1 + 1, Len(A))
    <3> HIDE DEF A
    <3> QED BY <1>1, <1>2, <1>3 DEF NoRead
  <2> QED BY <1>3, <2>1, <2>2, <2>3
<1> HIDE DEF A, s, v
<1>7. Tells(A \o <<Publish(s)>>, s)
  BY <1>3, <1>4, <1>6, TellsAtEnd
<1>8. A \o <<Publish(s)>> \in Seq(Step)
  <2>1. <<Publish(s)>> \in Seq(Step)
    BY <1>4, StepTypes
  <2> QED BY <1>3, <2>1, JoinedAt
<1> QED BY <1>4, <1>5, <1>7, <1>8, SwitchThenLit DEF s, v

LEMMA LedTells ==
  ASSUME NEW c \in Channel
  PROVE  /\ Fulfils(LedProgram(c), {<<"led", c, "value">>}) /\ Len(LedProgram(c)) = 3
         /\ \A t \in Topic : t # <<"led", c, "value">> /\ <<c, "value">> \notin Facts(t)
              => Lasting(LedProgram(c), t, 1)
<1> DEFINE v == <<"led", c, "value">>
           f == {<<c, "value">>}
<1>1. v \in Topic /\ f \in SUBSET Fact
  <2>1. v \in Topic
    BY Topics
  <2>2. <<c, "value">> \in Fact
    BY DEF Fact
  <2> QED BY <2>1, <2>2
<1>2. LedProgram(c) = <<Assign(f)>> \o Tell(v)
  BY DEF LedProgram
<1>3. /\ <<Assign(f)>> \in Seq(Step) /\ Len(<<Assign(f)>>) = 1
      /\ \A t \in Topic : Facts(t) \cap f = {} => Lasting(<<Assign(f)>>, t, 1)
  <2> HIDE DEF f
  <2> QED BY <1>1, OneAssign
<1> DEFINE a == <<Assign(f)>>
<1> HIDE DEF v, a
<1>4. Tell(v) \in Seq(Step) /\ Len(Tell(v)) = 2 /\ Tells(Tell(v), v)
  BY <1>1, TellIs, TellTells
<1>5. a \in Seq(Step) /\ Len(a) = 1
  BY <1>3 DEF a
<1>6. a \o Tell(v) \in Seq(Step) /\ Len(a \o Tell(v)) = Len(a) + Len(Tell(v)) /\ Tells(a \o Tell(v), v)
  BY <1>4, <1>5, JoinedAt, TellsAfter
<1>7. ASSUME NEW t \in Topic, t # v, <<c, "value">> \notin Facts(t) PROVE Lasting(a \o Tell(v), t, 1)
  <2>1. Lasting(a, t, 1)
    BY <1>3, <1>7 DEF a
  <2>2. Lasting(Tell(v), t, 1)
    BY <1>1, <1>7, TellLasts
  <2> QED BY <1>4, <1>5, <2>1, <2>2, LastingJoined
<1>8. LedProgram(c) = a \o Tell(v) /\ Len(a \o Tell(v)) = 3
  BY <1>2, <1>4, <1>5, <1>6 DEF a
<1> HIDE DEF f
<1> QED BY <1>1, <1>6, <1>7, <1>8 DEF Fulfils, v

LEMMA LedSwitchTells ==
  ASSUME NEW c \in Channel, NEW on \in BOOLEAN
  PROVE  Fulfils(LedSwitchProgram(c, on),
                 {<<"led", c, "switch">>} \cup Lighting(on, <<"led", c, "value">>))
<1> DEFINE s == <<"led", c, "switch">>
           v == <<"led", c, "value">>
           p == <<Assign({<<c, "switch">>}), Publish(s)>>
<1>1. s \in Topic /\ v \in Topic /\ s # v /\ Facts(s) = {<<c, "switch">>} /\ {<<c, "switch">>} \in SUBSET Fact
  BY Topics, FactsOf DEF Fact
<1>2. LedSwitchProgram(c, on) = p \o Lit(v, on)
  BY DEF LedSwitchProgram
<1>3. p \in Seq(Step) /\ Tells(p, s)
  <2> HIDE DEF s
  <2> QED BY <1>1, SetAndSend
<1> HIDE DEF p, s, v
<1> QED BY <1>1, <1>2, <1>3, SwitchThenLit DEF s, v

LEMMA AdjustTells ==
  Fulfils(AdjustProgram, ({"led"} \X Channel \X {"value"}) \cup {<<"rgb", 0, "value">>})
<1> DEFINE P == [c \in Channel |-> LedProgram(c)]
           I == InTurn(2 * G, 3, P)
           r == <<"rgb", 0, "value">>
           q == <<"rgb", 1, "value">>
           E == <<Read(Facts(r)), Publish(q)>>
<1>1. AdjustProgram = (I \o Tell(r)) \o E
  BY DEF AdjustProgram
<1>2. \A c \in Channel : P[c] = LedProgram(c)
  OBVIOUS
<1>3. r \in Topic /\ q \in Topic /\ r # q
  BY Topics
<1>4. E \in Seq(Step) /\ \A t \in Topic : t # q => Lasting(E, t, 1)
  <2>1. Read(Facts(r)) \in Step /\ Publish(q) \in Step
    BY <1>3, StepTypes, FactsType
  <2>2. E \in Seq(Step) /\ Len(E) = 2 /\ E[1] = Read(Facts(r)) /\ E[2] = Publish(q)
    BY <2>1
  <2>3. \A t \in Topic : t # q => ~Disturbs(Read(Facts(r)), t) /\ ~Disturbs(Publish(q), t)
    BY <1>3, StepTypes, FactsType DEF Disturbs
  <2> HIDE DEF E, r, q
  <2> QED BY <2>2, <2>3 DEF Lasting
<1> HIDE DEF P, r, q, E
<1>5. Tell(r) \in Seq(Step) /\ Tells(Tell(r), r) /\ \A t \in Topic : t # r => Lasting(Tell(r), t, 1)
  BY <1>3, TellIs, TellTells, TellLasts
<1>6. \A c \in Channel : P[c] \in Seq(Step) /\ Len(P[c]) = 3
  BY <1>2, LedTells DEF Fulfils
<1>7. I \in Seq(Step)
  BY <1>6, ChannelsInTurn
<1>8. I \o Tell(r) \in Seq(Step) /\ (I \o Tell(r)) \o E \in Seq(Step)
  <2> HIDE DEF I
  <2>1. I \o Tell(r) \in Seq(Step)
    BY <1>5, <1>7, JoinedAt
  <2> QED BY <1>4, <2>1, JoinedAt
<1>9. Tells((I \o Tell(r)) \o E, r)
  <2> HIDE DEF I
  <2>1. Tells(I \o Tell(r), r)
    BY <1>5, <1>7, TellsAfter
  <2> QED BY <1>3, <1>4, <1>8, <2>1, TellsBefore
<1>10. ASSUME NEW c \in Channel PROVE Tells((I \o Tell(r)) \o E, <<"led", c, "value">>)
  <2> DEFINE t == <<"led", c, "value">>
  <2>1. t \in Topic /\ Facts(t) = {<<c, "value">>} /\ t # r /\ t # q
    BY Topics, FactsOf DEF r, q
  <2>2. Tells(P[c], t)
    BY <1>2, LedTells DEF Fulfils
  <2>3. ASSUME NEW d \in Channel, d # c PROVE Lasting(P[d], t, 1)
    <3>1. t # <<"led", d, "value">> /\ <<d, "value">> \notin Facts(t)
      BY <2>1, <2>3
    <3> HIDE DEF t
    <3> QED BY <1>2, <2>1, <3>1, LedTells
  <2> HIDE DEF t
  <2>4. Tells(I, t)
    BY <1>6, <2>2, <2>3, ChannelsInTurn
  <2> HIDE DEF I
  <2>5. Tells(I \o Tell(r), t)
    BY <1>5, <1>7, <2>1, <2>4, TellsBefore
  <2>6. Tells((I \o Tell(r)) \o E, t)
    BY <1>4, <1>8, <2>1, <2>5, TellsBefore
  <2> QED BY <2>6 DEF t
<1> HIDE DEF I
<1>11. \A c \in Channel : <<"led", c, "value">> \in Topic
  BY Topics
<1>12. ASSUME NEW t \in ({"led"} \X Channel \X {"value"}) \cup {r}
       PROVE  t \in Topic /\ Tells(AdjustProgram, t)
  <2>1. t = r \/ \E c \in Channel : t = <<"led", c, "value">>
    OBVIOUS
  <2> QED BY <1>1, <1>3, <1>9, <1>10, <1>11, <2>1
<1> QED BY <1>1, <1>8, <1>12 DEF Fulfils, r

(***************************************************************************)
(* The two group switches are sent last, on what was assigned in turn.     *)
(***************************************************************************)
LEMMA MotionTells == Fulfils(MotionProgram, {t \in Topic : t[3] = "switch"})
<1> DEFINE P == [c \in Channel |-> <<Assign({<<c, "switch">>}), Publish(<<"led", c, "switch">>)>>]
           I == InTurn(2 * G, 2, P)
           r == <<"rgb", 0, "switch">>
           q == <<"rgb", 1, "switch">>
           p == (I \o <<Publish(r)>>) \o <<Publish(q)>>
<1>1. r \in Topic /\ q \in Topic /\ r # q /\ Facts(r) = {<<0 * G, "switch">>} /\ Facts(q) = {<<1 * G, "switch">>}
  BY Topics, FactsOf
<1>2. /\ <<Publish(r)>> \in Seq(Step) /\ <<Publish(q)>> \in Seq(Step)
      /\ \A t \in Topic : t # r => Lasting(<<Publish(r)>>, t, 1)
      /\ \A t \in Topic : t # q => Lasting(<<Publish(q)>>, t, 1)
  <2> SUFFICES ASSUME NEW u \in Topic
               PROVE  /\ <<Publish(u)>> \in Seq(Step)
                      /\ \A t \in Topic : t # u => Lasting(<<Publish(u)>>, t, 1)
    BY <1>1
  <2>1. <<Publish(u)>> \in Seq(Step) /\ Len(<<Publish(u)>>) = 1 /\ <<Publish(u)>>[1] = Publish(u)
    BY StepTypes
  <2>2. \A t \in Topic : t # u => ~Disturbs(Publish(u), t)
    BY StepTypes DEF Disturbs
  <2> QED BY <2>1, <2>2 DEF Lasting
<1>3. ASSUME NEW c \in Channel
      PROVE  LET s == <<"led", c, "switch">>
             IN  /\ s \in Topic /\ s # r /\ s # q /\ {<<c, "switch">>} \in SUBSET Fact
                 /\ Facts(s) = {<<c, "switch">>}
                 /\ P[c] \in Seq(Step) /\ Len(P[c]) = 2
                 /\ P[c][1] = Assign({<<c, "switch">>}) /\ P[c][2] = Publish(s)
                 /\ Tells(P[c], s)
                 /\ \A u \in Topic : u # s /\ <<c, "switch">> \notin Facts(u) => Lasting(P[c], u, 1)
  <2> DEFINE s == <<"led", c, "switch">>
             f == {<<c, "switch">>}
  <2>1. s \in Topic /\ s # r /\ s # q /\ f \in SUBSET Fact /\ Facts(s) = f
    <3>1. s \in Topic /\ Facts(s) = f
      BY Topics, FactsOf
    <3>2. s # r /\ s # q
      OBVIOUS
    <3>3. <<c, "switch">> \in Fact
      BY DEF Fact
    <3> QED BY <3>1, <3>2, <3>3
  <2>2. P[c] = <<Assign(f), Publish(s)>>
    OBVIOUS
  <2> HIDE DEF P, s, r, q
  <2>3. \A u \in Topic : <<c, "switch">> \notin Facts(u) <=> Facts(u) \cap f = {}
    OBVIOUS
  <2> HIDE DEF f
  <2>4. /\ P[c] \in Seq(Step) /\ Len(P[c]) = 2 /\ P[c][1] = Assign(f) /\ P[c][2] = Publish(s)
        /\ Tells(P[c], s)
        /\ \A u \in Topic : u # s /\ Facts(u) \cap f = {} => Lasting(P[c], u, 1)
    BY <2>1, <2>2, SetAndSend
  <2> QED BY <2>1, <2>3, <2>4 DEF s, f
<1> HIDE DEF P, r, q
<1>4. \A c \in Channel : P[c] \in Seq(Step) /\ Len(P[c]) = 2
  BY <1>3
<1>5. I \in Seq(Step)
  BY <1>4, ChannelsInTurn
<1>6. MotionProgram = p
  <2>1. <<Publish(r), Publish(q)>> = <<Publish(r)>> \o <<Publish(q)>>
    OBVIOUS
  <2>2. MotionProgram = I \o <<Publish(r), Publish(q)>>
    BY DEF MotionProgram, P, r, q
  <2> HIDE DEF I
  <2> QED BY <1>2, <1>5, <2>1, <2>2, ConcatAssociative
<1>7. NoRead(I, 1, Len(I))
  <2> DEFINE n == 2 * G
  <2>1. n \in Nat /\ Channel = 0..(n - 1) /\ Programs(n, 2, P)
    BY <1>4, ChannelsInTurn, TopicsAssumption DEF TopicsAssumption, Channel
  <2> HIDE DEF n
  <2>2. Len(InTurn(n, 2, P)) = n * 2
        /\ \A i \in 1..(n * 2) : \E c \in 0..(n - 1), m \in 1..2 : i = At(c, 2, m)
    BY <2>1, InTurnAt
  <2>3. ASSUME NEW i \in 1..(n * 2) PROVE InTurn(n, 2, P)[i].do # "read"
    <3>1. PICK c \in Channel, m \in 1..2 : i = At(c, 2, m)
      BY <2>1, <2>2
    <3>2. InTurn(n, 2, P)[i] = P[c][m]
      BY ONLY <2>1, <3>1, InTurnAt, c \in Channel, m \in 1..2
    <3>3. P[c][m] = Assign({<<c, "switch">>}) \/ P[c][m] = Publish(<<"led", c, "switch">>)
      <4>1. P[c][1] = Assign({<<c, "switch">>}) /\ P[c][2] = Publish(<<"led", c, "switch">>)
        BY <1>3
      <4>2. m = 1 \/ m = 2
        OBVIOUS
      <4> QED BY <4>1, <4>2
    <3>4. P[c][m].do # "read"
      <4>1. {<<c, "switch">>} \in SUBSET Fact /\ <<"led", c, "switch">> \in Topic
        BY <1>3
      <4> QED BY <3>3, <4>1, StepTypes
    <3> QED BY <3>2, <3>4
  <2>4. NoRead(InTurn(n, 2, P), 1, Len(InTurn(n, 2, P)))
    BY <2>2, <2>3 DEF NoRead
  <2> QED BY <2>4 DEF n
<1>8. ASSUME NEW g \in {0, 1}, NEW t \in Topic, Facts(t) = {<<g * G, "switch">>}
      PROVE  \E j \in 1..Len(I) : Gives(I[j], t)
  <2> DEFINE n == 2 * G
             c == g * G
  <2>1. n \in Nat /\ Channel = 0..(n - 1) /\ Programs(n, 2, P)
    BY <1>4, ChannelsInTurn, TopicsAssumption DEF TopicsAssumption, Channel
  <2>2. c \in Channel
    BY GroupChannels
  <2> HIDE DEF n, c
  <2>3. /\ At(c, 2, 1) \in 1..(n * 2) /\ InTurn(n, 2, P)[At(c, 2, 1)] = P[c][1]
        /\ Len(InTurn(n, 2, P)) = n * 2
    BY ONLY <2>1, <2>2, InTurnAt
  <2>4. Gives(P[c][1], t)
    <3>1. Facts(t) = {<<c, "switch">>}
      BY <1>8 DEF c
    <3>2. P[c][1] = Assign({<<c, "switch">>}) /\ {<<c, "switch">>} \in SUBSET Fact
      BY <1>3, <2>2
    <3> QED BY <3>1, <3>2, StepTypes DEF Gives
  <2>5. \E j \in 1..Len(InTurn(n, 2, P)) : Gives(InTurn(n, 2, P)[j], t)
    BY <2>3, <2>4
  <2> QED BY <2>5 DEF n
<1>9. ASSUME NEW c \in Channel PROVE Tells(I, <<"led", c, "switch">>)
  <2> DEFINE s == <<"led", c, "switch">>
  <2>1. Tells(P[c], s) /\ s \in Topic /\ Facts(s) = {<<c, "switch">>}
    BY <1>3
  <2>2. ASSUME NEW d \in Channel, d # c PROVE Lasting(P[d], s, 1)
    <3>1. s # <<"led", d, "switch">> /\ <<d, "switch">> \notin Facts(s)
      BY <2>1, <2>2
    <3> HIDE DEF s
    <3> QED BY <1>3, <2>1, <3>1
  <2> HIDE DEF s
  <2>3. Tells(I, s)
    BY <1>4, <2>1, <2>2, ChannelsInTurn
  <2> QED BY <2>3 DEF s
<1> HIDE DEF I
<1> DEFINE J == I \o <<Publish(r)>>
<1>10. J \in Seq(Step) /\ Len(J) = Len(I) + 1 /\ Len(I) \in Nat /\ J[Len(I) + 1] = Publish(r)
       /\ \A m \in 1..Len(I) : J[m] = I[m]
  <2>1. Len(<<Publish(r)>>) = 1 /\ <<Publish(r)>>[1] = Publish(r)
    OBVIOUS
  <2> QED BY <1>2, <1>5, <2>1, JoinedAt
<1>11. Tells(J, r)
  <2>1. PICK j \in 1..Len(I) : Gives(I[j], r)
    BY <1>1, <1>8
  <2>2. NoRead(I, j + 1, Len(I))
    BY <1>7, <1>10 DEF NoRead
  <2> QED BY <1>1, <1>5, <2>1, <2>2, TellsAtEnd
<1>12. \A c \in Channel : Tells(J, <<"led", c, "switch">>)
  BY <1>2, <1>3, <1>5, <1>9, TellsBefore
<1>13. Tells(p, q)
  <2>1. PICK j \in 1..Len(I) : Gives(I[j], q)
    BY <1>1, <1>8
  <2>2. Publish(r).do # "read"
    BY <1>1, StepTypes
  <2> HIDE DEF J
  <2>3. j \in 1..Len(J) /\ Gives(J[j], q)
    BY <1>10, <2>1
  <2>4. NoRead(J, j + 1, Len(J))
    BY <1>7, <1>10, <2>2 DEF NoRead
  <2>5. Tells(J \o <<Publish(q)>>, q)
    BY <1>1, <1>10, <2>3, <2>4, TellsAtEnd
  <2> QED BY <2>5 DEF J
<1>14. /\ p \in Seq(Step) /\ Tells(p, r)
       /\ \A c \in Channel : Tells(p, <<"led", c, "switch">>)
  <2>1. p = J \o <<Publish(q)>>
    OBVIOUS
  <2> HIDE DEF J, p
  <2> QED BY <1>1, <1>2, <1>3, <1>10, <1>11, <1>12, <2>1, JoinedAt, TellsBefore
<1> HIDE DEF p, J
<1>15. ASSUME NEW t \in Topic, t[3] = "switch" PROVE Tells(p, t)
  <2>1. t = r \/ t = q \/ \E c \in Channel : t = <<"led", c, "switch">>
    BY <1>15, TopicCases DEF r, q
  <2> QED BY <1>13, <1>14, <2>1
<1> QED BY <1>6, <1>14, <1>15 DEF Fulfils

-----------------------------------------------------------------------------
(***************************************************************************)
(* One step of a program: what the task holds after it, and what is left.  *)
(***************************************************************************)
After(step, h) ==
  IF step.do = "read" THEN step.facts
  ELSE IF step.do = "assign" THEN h \cup step.facts ELSE h

LEMMA TailAt ==
  ASSUME NEW p \in Seq(Step), p # <<>>
  PROVE  /\ Head(p) = p[1] /\ Head(p) \in Step
         /\ Len(p) \in Nat \ {0} /\ Tail(p) \in Seq(Step) /\ Len(Tail(p)) = Len(p) - 1
         /\ \A m \in 2..Len(p) : m - 1 \in 1..Len(Tail(p)) /\ Tail(p)[m - 1] = p[m]
         /\ \A m \in 1..Len(Tail(p)) : m + 1 \in 2..Len(p) /\ Tail(p)[m] = p[m + 1]
<1>1. Len(p) \in Nat \ {0}
  BY EmptySeq
<1>2. /\ Head(p) \in Step /\ Tail(p) \in Seq(Step) /\ Len(Tail(p)) = Len(p) - 1
      /\ \A m \in 1..Len(Tail(p)) : Tail(p)[m] = p[m + 1]
  BY HeadTailProperties
<1>3. Head(p) = p[1]
  OBVIOUS
<1> QED BY <1>1, <1>2, <1>3

LEMMA LastingTail ==
  ASSUME NEW p \in Seq(Step), p # <<>>, NEW t, NEW i \in Nat \ {0}, Lasting(p, t, i)
  PROVE  /\ i = 1 => ~Disturbs(Head(p), t) /\ Lasting(Tail(p), t, 1)
         /\ i > 1 => Lasting(Tail(p), t, i - 1)
<1>1. i = 1 => ~Disturbs(Head(p), t)
  BY TailAt DEF Lasting
<1>2. ASSUME NEW m \in 1..Len(Tail(p)), m + 1 >= i PROVE ~Disturbs(Tail(p)[m], t)
  <2>1. m + 1 \in i..Len(p) /\ Tail(p)[m] = p[m + 1]
    BY <1>2, TailAt
  <2> QED BY <2>1 DEF Lasting
<1> QED BY <1>1, <1>2, TailAt DEF Lasting

LEMMA WillSayTail ==
  ASSUME NEW p \in Seq(Step), p # <<>>, NEW h, NEW t, WillSay(p, h, t)
  PROVE  \/ Head(p) = Publish(t) /\ Facts(t) \subseteq h /\ Lasting(Tail(p), t, 1)
         \/ WillSay(Tail(p), After(Head(p), h), t)
<1> DEFINE q == Tail(p)
           g == After(Head(p), h)
<1>1. PICK i \in 1..Len(p) :
        p[i] = Publish(t) /\ (Given(p, t, i) \/ Held(p, h, t, i)) /\ Lasting(p, t, i + 1)
  BY DEF WillSay
<1>2. Lasting(q, t, i)
  <2>1. (i + 1) - 1 = i /\ i + 1 \in Nat \ {0} /\ i + 1 > 1
    OBVIOUS
  <2>2. Lasting(q, t, (i + 1) - 1)
    BY <1>1, <2>1, LastingTail
  <2> QED BY <2>1, <2>2
<1>3. /\ Head(p) = p[1] /\ Len(p) \in Nat
      /\ \A m \in 2..Len(p) : m - 1 \in 1..Len(q) /\ q[m - 1] = p[m]
      /\ \A m \in 1..Len(q) : m + 1 \in 2..Len(p) /\ q[m] = p[m + 1]
  BY TailAt
<1> HIDE DEF q
<1>4. CASE i = 1
  <2>1. Head(p) = Publish(t) /\ Lasting(q, t, 1)
    BY <1>1, <1>2, <1>3, <1>4
  <2>2. ~Given(p, t, i)
    BY <1>4 DEF Given
  <2>3. Facts(t) \subseteq h
    BY <1>1, <2>2 DEF Held
  <2> QED BY <2>1, <2>3 DEF q
<1>5. CASE i > 1
  <2>1. i - 1 \in 1..Len(q) /\ q[i - 1] = Publish(t) /\ (i - 1) + 1 = i
    BY <1>1, <1>3, <1>5
  <2>2. ASSUME NEW j \in 1..(i - 1), NoRead(p, j + 1, i - 1) PROVE NoRead(q, j, (i - 1) - 1)
    <3> SUFFICES ASSUME NEW m \in j..((i - 1) - 1) PROVE q[m].do # "read"
      BY DEF NoRead
    <3>1. m + 1 \in (j + 1)..(i - 1) /\ m + 1 \in 2..Len(p) /\ (m + 1) - 1 = m
      BY <1>1
    <3>2. q[m] = p[m + 1]
      BY <1>3, <3>1
    <3> QED BY <2>2, <3>1, <3>2 DEF NoRead
  <2>3. CASE Held(p, h, t, i)
    <3>1. p[1].do # "read" /\ NoRead(p, 1 + 1, i - 1)
      BY <1>5, <2>3 DEF Held, NoRead
    <3>2. h \subseteq g
      BY <1>3, <3>1 DEF After
    <3>3. NoRead(q, 1, (i - 1) - 1)
      <4>1. 1 \in 1..(i - 1)
        BY <1>5
      <4> QED BY <2>2, <3>1, <4>1
    <3>4. Held(q, g, t, i - 1)
      BY <2>3, <3>2, <3>3 DEF Held
    <3> QED BY <1>2, <2>1, <3>4 DEF WillSay, q
  <2>4. CASE Given(p, t, i)
    <3>1. PICK j \in 1..(i - 1) : Gives(p[j], t) /\ NoRead(p, j + 1, i - 1)
      BY <2>4 DEF Given
    <3>2. NoRead(q, j, (i - 1) - 1)
      BY <2>2, <3>1
    <3>3. CASE j = 1
      <4>1. Facts(t) \subseteq g
        BY <1>3, <3>1, <3>3 DEF Gives, After
      <4>2. Held(q, g, t, i - 1)
        BY <3>2, <3>3, <4>1 DEF Held
      <4> QED BY <1>2, <2>1, <4>2 DEF WillSay, q
    <3>4. CASE j > 1
      <4>1. j - 1 \in 1..((i - 1) - 1) /\ j \in 2..Len(p) /\ (j - 1) + 1 = j
        BY <1>1, <1>3, <3>4
      <4>2. q[j - 1] = p[j]
        BY <1>3, <4>1
      <4>3. Given(q, t, i - 1)
        BY <3>1, <3>2, <4>1, <4>2 DEF Given
      <4> QED BY <1>2, <2>1, <4>3 DEF WillSay, q
    <3> QED BY <3>3, <3>4
  <2> QED BY <1>1, <2>3, <2>4
<1> QED BY <1>4, <1>5

-----------------------------------------------------------------------------
(***************************************************************************)
(* The invariant.  Connected, a task has told every topic it promises, or  *)
(* still will; the other task has nothing before it that disturbs these    *)
(* topics; and the state of an earlier boot is only where the answer to    *)
(* MQTT_EVENT_CONNECTED has yet to publish.                                *)
(***************************************************************************)
TopicTypes ==
  /\ retained \in [Topic -> {"old", "fresh", "stale"}]
  /\ todo \in [Task -> Seq(Step)]
  /\ holds \in [Task -> SUBSET Fact]
  /\ promise \in [Task -> SUBSET Topic]
  /\ sweeps \in 0..MaxSweeps /\ commands \in 0..MaxCommands

Kept(k, t) ==
  \/ retained[t] = "fresh" /\ Lasting(todo[k], t, 1)
  \/ WillSay(todo[k], holds[k], t)

Promised ==
  \A k \in Task : client = "up" /\ ~Idle(k) => \A t \in promise[k] : Kept(k, t)

Apart == \A k \in Task : \A t \in promise[k] : Lasting(todo[Other(k)], t, 1)

Pending(t) == \E i \in 1..Len(todo["client"]) : todo["client"][i] = Publish(t)

Renewed == client = "up" => \A t \in Topic : retained[t] = "old" => Pending(t)

TInv == IInv /\ TopicTypes /\ Promised /\ Apart /\ Renewed

LEMMA TopicsInvImplies == TInv => TopicsTypeOK /\ NoOldState
<1> SUFFICES ASSUME TInv PROVE TopicsTypeOK /\ NoOldState
  OBVIOUS
<1>1. TopicsTypeOK
  BY DEF TInv, TopicTypes, TopicsTypeOK
<1>2. NoOldState
  <2> SUFFICES ASSUME client = "up", Idle("client"), NEW t \in Topic, retained[t] = "old" PROVE FALSE
    BY DEF NoOldState
  <2>1. Pending(t)
    BY DEF TInv, Renewed
  <2>2. Len(todo["client"]) = 0
    BY DEF Idle
  <2> QED BY <2>1, <2>2 DEF Pending
<1> QED BY <1>1, <1>2

LEMMA EmptyPrograms == [k \in Task |-> <<>>] \in [Task -> Seq(Step)]
<1>1. <<>> \in Seq(Step)
  BY EmptySeq
<1> QED BY <1>1

LEMMA TopicsBegin == TopicsInit => TInv
<1> SUFFICES ASSUME TopicsInit PROVE TInv
  OBVIOUS
<1>1. IInv
  BY LedInit DEF TopicsInit
<1>2. TopicTypes
  <2>1. MaxSweeps \in Nat /\ MaxCommands \in Nat
    BY TopicsAssumption DEF TopicsAssumption
  <2>2. todo \in [Task -> Seq(Step)]
    BY EmptyPrograms DEF TopicsInit
  <2>3. holds \in [Task -> SUBSET Fact] /\ promise \in [Task -> SUBSET Topic]
    BY DEF TopicsInit
  <2>4. retained \in [Topic -> {"old", "fresh", "stale"}]
    BY DEF TopicsInit
  <2>5. sweeps \in 0..MaxSweeps /\ commands \in 0..MaxCommands
    BY <2>1 DEF TopicsInit
  <2> QED BY <2>2, <2>3, <2>4, <2>5 DEF TopicTypes
<1>3. Promised /\ Apart
  <2>1. \A k \in Task : promise[k] = {}
    BY DEF TopicsInit
  <2> QED BY <2>1 DEF Promised, Apart
<1>4. Renewed
  BY DEF TopicsInit, Init, Renewed
<1> QED BY <1>1, <1>2, <1>3, <1>4 DEF TInv

(***************************************************************************)
(* Steps that leave the messages alone and do not bring the client up, and *)
(* the restart.                                                            *)
(***************************************************************************)
LEMMA TopicsKept ==
  ASSUME TInv, IInv', UNCHANGED topics, client' = "up" => client = "up"
  PROVE  TInv'
<1>1. UNCHANGED <<retained, todo, holds, promise, sweeps, commands>>
  BY DEF topics, tasks
<1>2. TopicTypes' /\ Apart'
  BY <1>1 DEF TInv, TopicTypes, Apart
<1>3. Promised'
  <2> SUFFICES ASSUME NEW k \in Task, client' = "up", ~Idle(k)', NEW t \in promise'[k]
               PROVE  Kept(k, t)'
    BY DEF Promised
  <2>1. Kept(k, t)
    BY <1>1 DEF TInv, Promised, Idle
  <2> QED BY <1>1, <2>1 DEF Kept
<1>4. Renewed'
  BY <1>1 DEF TInv, Renewed, Pending
<1> QED BY <1>2, <1>3, <1>4 DEF TInv

LEMMA Forgotten == ASSUME TInv, IInv', ForgetAll, client' # "up" PROVE TInv'
<1>1. TopicTypes'
  <2>1. MaxSweeps \in Nat /\ MaxCommands \in Nat
    BY TopicsAssumption DEF TopicsAssumption
  <2>2. todo' \in [Task -> Seq(Step)]
    BY EmptyPrograms DEF ForgetAll
  <2>3. holds' \in [Task -> SUBSET Fact] /\ promise' \in [Task -> SUBSET Topic]
    BY DEF ForgetAll
  <2>4. retained' \in [Topic -> {"old", "fresh", "stale"}]
    BY DEF ForgetAll
  <2>5. sweeps' \in 0..MaxSweeps /\ commands' \in 0..MaxCommands
    BY <2>1 DEF ForgetAll
  <2> QED BY <2>2, <2>3, <2>4, <2>5 DEF TopicTypes
<1>2. Promised' /\ Apart' /\ Renewed'
  <2>1. \A k \in Task : promise'[k] = {}
    BY DEF ForgetAll
  <2> QED BY <2>1 DEF Promised, Apart, Renewed
<1> QED BY <1>1, <1>2 DEF TInv

(***************************************************************************)
(* An operation begins.  The one that begins when the connection comes up  *)
(* publishes on every topic, which ends every promise of the other task.   *)
(***************************************************************************)
LEMMA SparedOnes ==
  \A ts, program : /\ Spared(ts, program) \subseteq ts
                   /\ \A t \in Spared(ts, program) : Lasting(program, t, 1)
BY DEF Spared, Lasting

LEMMA BeginKeeps ==
  ASSUME TInv, IInv', NEW k \in Task, NEW program, NEW ts, Begin(k, program, ts),
         Fulfils(program, ts), client' = client \/ ts = Topic,
         sweeps' \in 0..MaxSweeps, commands' \in 0..MaxCommands, Renewed'
  PROVE  TInv'
<1> DEFINE o == Other(k)
<1>1. /\ UNCHANGED retained
      /\ todo' = [todo EXCEPT ![k] = program] /\ holds' = [holds EXCEPT ![k] = {}]
      /\ promise' = [promise EXCEPT ![k] = Spared(ts, todo[o]), ![o] = Spared(@, program)]
  BY DEF Begin
<1>2. program \in Seq(Step) /\ ts \subseteq Topic
  BY DEF Fulfils
<1>3. o \in Task /\ o # k /\ Other(o) = k /\ \A j \in Task : j = k \/ j = o
  BY DEF Task, Other
<1> HIDE DEF o
<1>4. TopicTypes
  BY DEF TInv
<1>5. /\ todo'[k] = program /\ todo'[o] = todo[o] /\ holds'[k] = {} /\ holds'[o] = holds[o]
      /\ promise'[k] = Spared(ts, todo[o]) /\ promise'[o] = Spared(promise[o], program)
  BY <1>1, <1>3, <1>4 DEF TopicTypes
<1>6. /\ promise'[k] \subseteq ts /\ promise'[o] \subseteq promise[o]
      /\ \A t \in promise'[k] : Lasting(todo[o], t, 1)
      /\ \A t \in promise'[o] : Lasting(program, t, 1)
  BY <1>5, SparedOnes
<1>7. TopicTypes'
  <2>1. promise[o] \subseteq Topic
    BY <1>3, <1>4 DEF TopicTypes
  <2>2. promise' \in [Task -> SUBSET Topic]
    <3>1. Spared(ts, todo[o]) \in SUBSET Topic /\ Spared(promise[o], program) \in SUBSET Topic
      BY <1>2, <1>5, <1>6, <2>1
    <3> QED BY <1>1, <1>3, <1>4, <3>1 DEF TopicTypes
  <2> QED BY <1>1, <1>2, <1>4, <2>2 DEF TopicTypes
<1>8. Apart'
  BY <1>3, <1>5, <1>6 DEF Apart, o
<1>9. ASSUME NEW t \in ts PROVE WillSay(program, {}, t)
  BY <1>9 DEF Fulfils, Tells, WillSay
<1>10. ASSUME client' = "up", ~Idle(o)', NEW t \in promise'[o] PROVE Kept(o, t)'
  <2>1. client' = client
    <3> SUFFICES ASSUME ts = Topic PROVE FALSE
      OBVIOUS
    <3>1. t \in Topic /\ Tells(program, t)
      BY <1>3, <1>4, <1>6, <1>10 DEF TopicTypes, Fulfils
    <3>2. PICK i \in 1..Len(program) : program[i] = Publish(t)
      BY <3>1 DEF Tells
    <3>3. Disturbs(program[i], t)
      BY <3>1, <3>2, StepTypes DEF Disturbs
    <3> QED BY <1>6, <1>10, <3>3 DEF Lasting
  <2>2. Kept(o, t)
    BY <1>3, <1>5, <1>6, <1>10, <2>1 DEF TInv, Promised, Idle
  <2> QED BY <1>1, <1>5, <2>2 DEF Kept
<1>11. Promised'
  <2> SUFFICES ASSUME NEW j \in Task, client' = "up", ~Idle(j)', NEW t \in promise'[j]
               PROVE  Kept(j, t)'
    BY DEF Promised
  <2>1. CASE j = k
    <3>1. WillSay(program, {}, t)
      BY <1>6, <1>9, <2>1
    <3> QED BY <1>5, <2>1, <3>1 DEF Kept
  <2>2. CASE j = o
    BY <1>10, <2>2
  <2> QED BY <1>3, <2>1, <2>2
<1> QED BY <1>7, <1>8, <1>11 DEF TInv

(***************************************************************************)
(* A step of a program.                                                    *)
(***************************************************************************)
LEMMA TaskStepDoes ==
  ASSUME TInv, NEW k \in Task, TaskStep(k)
  PROVE  /\ todo[k] \in Seq(Step) /\ todo[k] # <<>> /\ todo' = [todo EXCEPT ![k] = Tail(todo[k])]
         /\ holds' \in [Task -> SUBSET Fact] /\ holds'[k] = After(Head(todo[k]), holds[k])
         /\ retained' \in [Topic -> {"old", "fresh", "stale"}]
         /\ \A t \in Topic :
              /\ retained'[t] = "old" => retained[t] = "old"
              /\ retained[t] = "fresh" /\ ~Disturbs(Head(todo[k]), t) => retained'[t] = "fresh"
              /\ client' = "up" /\ Head(todo[k]) = Publish(t) =>
                   retained'[t] = IF Facts(t) \subseteq holds[k] THEN "fresh" ELSE "stale"
         /\ client' = "up" => client = "up"
         /\ \A t \in Topic : Facts(t) \subseteq holds[Other(k)] /\ ~Disturbs(Head(todo[k]), t)
                              => Facts(t) \subseteq holds'[Other(k)]
         /\ UNCHANGED <<promise, sweeps, commands>>
<1> DEFINE x == Head(todo[k])
<1>1. /\ todo[k] \in Seq(Step) /\ todo[k] # <<>> /\ todo' = [todo EXCEPT ![k] = Tail(todo[k])]
      /\ UNCHANGED <<promise, sweeps, commands>>
  BY DEF TaskStep, Idle, TInv, TopicTypes
<1>2. x \in Step /\ holds \in [Task -> SUBSET Fact]
      /\ retained \in [Topic -> {"old", "fresh", "stale"}]
  BY <1>1, TailAt DEF TInv, TopicTypes
<1>3. Other(k) \in Task /\ Other(k) # k
  BY DEF Task, Other
<1> HIDE DEF x
<1>4. ASSUME NEW t \in Topic PROVE x = Publish(t) => x.do = "publish" /\ x.topic = t
  BY StepTypes
<1>5. CASE AssignStep(k)
  <2>1. /\ x.do = "assign" /\ x.facts \in SUBSET Fact
        /\ holds' = [holds EXCEPT ![k] = @ \cup x.facts, ![Other(k)] = @ \ x.facts]
        /\ retained' = [t \in Topic |-> IF retained[t] = "fresh" /\ Facts(t) \cap x.facts # {}
                                        THEN "stale" ELSE retained[t]]
        /\ client' = client
    BY <1>2, <1>5 DEF AssignStep, vars, Step, x
  <2>2. holds' \in [Task -> SUBSET Fact] /\ holds'[k] = After(x, holds[k])
    BY <1>2, <1>3, <2>1 DEF After
  <2>3. retained' \in [Topic -> {"old", "fresh", "stale"}]
    BY <1>2, <2>1
  <2>4. \A t \in Topic : /\ retained'[t] = "old" => retained[t] = "old"
                         /\ retained[t] = "fresh" /\ ~Disturbs(x, t) => retained'[t] = "fresh"
    BY <2>1 DEF Disturbs
  <2>5. \A t \in Topic : x # Publish(t)
    BY <1>4, <2>1
  <2>6. holds'[Other(k)] = holds[Other(k)] \ x.facts
    BY <1>2, <1>3, <2>1
  <2>7. \A t \in Topic : Facts(t) \subseteq holds[Other(k)] /\ ~Disturbs(x, t)
                         => Facts(t) \subseteq holds'[Other(k)]
    BY <2>1, <2>6 DEF Disturbs
  <2> QED BY <1>1, <2>1, <2>2, <2>3, <2>4, <2>5, <2>7 DEF x
<1>6. CASE ReadStep(k)
  <2>1. /\ x.do = "read" /\ x.facts \in SUBSET Fact
        /\ holds' = [holds EXCEPT ![k] = x.facts] /\ retained' = retained /\ client' = client
    BY <1>2, <1>6 DEF ReadStep, vars, Step, x
  <2>2. holds' \in [Task -> SUBSET Fact] /\ holds'[k] = After(x, holds[k])
    BY <1>2, <2>1 DEF After
  <2>3. \A t \in Topic : x # Publish(t)
    BY <1>4, <2>1
  <2>4. holds'[Other(k)] = holds[Other(k)]
    BY <1>2, <1>3, <2>1
  <2> QED BY <1>1, <1>2, <2>1, <2>2, <2>3, <2>4 DEF x
<1>7. CASE PublishStep(k)
  <2>1. x.do = "publish" /\ x.topic \in Topic /\ holds' = holds
    BY <1>2, <1>7 DEF PublishStep, Step, x
  <2> DEFINE u == x.topic
             says == IF Facts(u) \subseteq holds[k] THEN "fresh" ELSE "stale"
  <2>2. /\ retained' = IF CONNECTED /\ Reached THEN [retained EXCEPT ![u] = says] ELSE retained
        /\ client' = IF CONNECTED /\ client = "up" /\ ~Reached THEN "lost" ELSE client
    BY <1>7 DEF PublishStep, x
  <2>3. u \in Topic /\ says \in {"fresh", "stale"}
    BY <2>1
  <2>4. client' = "up" => client = "up" /\ CONNECTED /\ Reached
    BY <2>2 DEF TInv, IInv, HandlerSet
  <2>5. retained' \in [Topic -> {"old", "fresh", "stale"}]
    <3> HIDE DEF u, says
    <3> QED BY <1>2, <2>2, <2>3
  <2>6. holds'[k] = After(x, holds[k])
    BY <2>1 DEF After
  <2>7. ASSUME NEW t \in Topic
        PROVE  /\ retained'[t] = "old" => retained[t] = "old"
               /\ retained[t] = "fresh" /\ ~Disturbs(x, t) => retained'[t] = "fresh"
               /\ client' = "up" /\ x = Publish(t) =>
                    retained'[t] = IF Facts(t) \subseteq holds[k] THEN "fresh" ELSE "stale"
    <3>1. retained'[t] = "old" => retained[t] = "old"
      <4> HIDE DEF u, says
      <4> QED BY <1>2, <2>2, <2>3
    <3>2. ASSUME retained[t] = "fresh", ~Disturbs(x, t) PROVE retained'[t] = "fresh"
      <4>1. t # u
        BY <2>1, <3>2 DEF Disturbs
      <4> HIDE DEF u, says
      <4> QED BY <1>2, <2>2, <3>2, <4>1
    <3>3. ASSUME client' = "up", x = Publish(t)
          PROVE  retained'[t] = IF Facts(t) \subseteq holds[k] THEN "fresh" ELSE "stale"
      <4>1. t = u
        BY <1>4, <3>3
      <4>2. retained' = [retained EXCEPT ![u] = says]
        BY <2>2, <2>4, <3>3
      <4>3. retained'[u] = says
        <5> HIDE DEF u, says
        <5> QED BY <1>2, <2>3, <4>2
      <4> QED BY <4>1, <4>3
    <3> QED BY <3>1, <3>2, <3>3
  <2> QED BY <1>1, <1>2, <2>1, <2>4, <2>5, <2>6, <2>7 DEF x
<1> QED BY <1>5, <1>6, <1>7 DEF TaskStep

LEMMA KeptOn ==
  ASSUME TInv, NEW k \in Task, TaskStep(k), client' = "up", NEW t \in Topic, Kept(k, t)
  PROVE  Kept(k, t)'
<1> DEFINE p == todo[k]
<1>1. /\ p \in Seq(Step) /\ p # <<>> /\ todo'[k] = Tail(p)
      /\ holds'[k] = After(Head(p), holds[k])
      /\ retained[t] = "fresh" /\ ~Disturbs(Head(p), t) => retained'[t] = "fresh"
      /\ Head(p) = Publish(t) /\ Facts(t) \subseteq holds[k] => retained'[t] = "fresh"
  BY TaskStepDoes DEF TInv, TopicTypes
<1> HIDE DEF p
<1>2. CASE retained[t] = "fresh" /\ Lasting(p, t, 1)
  <2>1. ~Disturbs(Head(p), t) /\ Lasting(Tail(p), t, 1)
    BY <1>1, <1>2, LastingTail
  <2> QED BY <1>1, <1>2, <2>1 DEF Kept
<1>3. CASE WillSay(p, holds[k], t)
  <2>1. CASE Head(p) = Publish(t) /\ Facts(t) \subseteq holds[k] /\ Lasting(Tail(p), t, 1)
    BY <1>1, <2>1 DEF Kept
  <2>2. CASE WillSay(Tail(p), After(Head(p), holds[k]), t)
    BY <1>1, <2>2 DEF Kept
  <2> QED BY <1>1, <1>3, <2>1, <2>2, WillSayTail
<1> QED BY <1>2, <1>3 DEF Kept, p

LEMMA KeptBeside ==
  ASSUME TInv, NEW k \in Task, TaskStep(k), client' = "up", NEW t \in Topic,
         ~Disturbs(Head(todo[k]), t), Kept(Other(k), t)
  PROVE  Kept(Other(k), t)'
<1> DEFINE o == Other(k)
<1>1. o \in Task /\ o # k
  BY DEF Task, Other
<1>2. /\ retained[t] = "fresh" => retained'[t] = "fresh"
      /\ Facts(t) \subseteq holds[o] => Facts(t) \subseteq holds'[o]
      /\ todo' = [todo EXCEPT ![k] = Tail(todo[k])]
  BY TaskStepDoes
<1> HIDE DEF o
<1>3. todo'[o] = todo[o]
  BY <1>1, <1>2 DEF TInv, TopicTypes
<1>4. WillSay(todo[o], holds[o], t) => WillSay(todo[o], holds'[o], t)
  BY <1>2 DEF WillSay, Held
<1>5. Kept(o, t)
  BY DEF o
<1>6. Kept(o, t)'
  BY <1>2, <1>3, <1>4, <1>5 DEF Kept
<1> QED BY <1>6 DEF o

LEMMA TaskStepKeeps == ASSUME TInv, IInv', NEW k \in Task, TaskStep(k) PROVE TInv'
<1>1. /\ todo[k] \in Seq(Step) /\ todo[k] # <<>> /\ todo' = [todo EXCEPT ![k] = Tail(todo[k])]
      /\ holds' \in [Task -> SUBSET Fact]
      /\ retained' \in [Topic -> {"old", "fresh", "stale"}]
      /\ \A t \in Topic : retained'[t] = "old" => retained[t] = "old"
      /\ client' = "up" => client = "up"
      /\ UNCHANGED <<promise, sweeps, commands>>
  BY TaskStepDoes
<1>2. Tail(todo[k]) \in Seq(Step)
  BY <1>1, TailAt
<1>3. TopicTypes'
  BY <1>1, <1>2 DEF TInv, TopicTypes
<1>4. todo'[k] = Tail(todo[k]) /\ \A j \in Task \ {k} : todo'[j] = todo[j]
  BY <1>1 DEF TInv, TopicTypes
<1>5. Other(k) \in Task /\ Other(k) # k /\ Other(Other(k)) = k /\ \A j \in Task : j = k \/ j = Other(k)
  BY DEF Task, Other
<1>6. Apart'
  <2> SUFFICES ASSUME NEW j \in Task, NEW t \in promise[j] PROVE Lasting(todo'[Other(j)], t, 1)
    BY <1>1 DEF Apart
  <2>1. Lasting(todo[Other(j)], t, 1)
    BY DEF TInv, Apart
  <2>2. CASE Other(j) # k
    BY <1>4, <1>5, <2>1, <2>2
  <2>3. CASE Other(j) = k
    BY <1>1, <1>4, <2>1, <2>3, LastingTail
  <2> QED BY <2>2, <2>3
<1>7. Promised'
  <2> SUFFICES ASSUME NEW j \in Task, client' = "up", ~Idle(j)', NEW t \in promise[j]
               PROVE  Kept(j, t)'
    BY <1>1 DEF Promised
  <2>1. t \in Topic
    BY DEF TInv, TopicTypes
  <2>2. ~Idle(j)
    BY <1>1, <1>4 DEF Idle
  <2>3. Kept(j, t)
    BY <1>1, <2>2 DEF TInv, Promised
  <2>4. CASE j = k
    BY <2>1, <2>3, <2>4, KeptOn
  <2>5. CASE j = Other(k)
    <3>1. Lasting(todo[k], t, 1)
      BY <1>5, <2>5 DEF TInv, Apart
    <3>2. ~Disturbs(Head(todo[k]), t)
      BY <1>1, <3>1, LastingTail
    <3> QED BY <2>1, <2>3, <2>5, <3>2, KeptBeside
  <2> QED BY <1>5, <2>4, <2>5
<1>8. Renewed'
  <2> SUFFICES ASSUME client' = "up", NEW t \in Topic, retained'[t] = "old" PROVE Pending(t)'
    BY DEF Renewed
  <2>1. Pending(t)
    BY <1>1 DEF TInv, Renewed
  <2>2. CASE k # "client"
    <3>1. todo'["client"] = todo["client"]
      BY <1>4, <2>2 DEF Task
    <3> QED BY <2>1, <3>1 DEF Pending
  <2>3. CASE k = "client"
    <3>1. PICK i \in 1..Len(todo[k]) : todo[k][i] = Publish(t)
      BY <2>1, <2>3 DEF Pending
    <3>2. i # 1
      <4>1. Head(todo[k]) # Publish(t)
        BY TaskStepDoes
      <4> QED BY <1>1, <3>1, <4>1, TailAt
    <3>3. i \in 2..Len(todo[k])
      BY <3>1, <3>2
    <3>4. i - 1 \in 1..Len(Tail(todo[k])) /\ Tail(todo[k])[i - 1] = Publish(t)
      BY <1>1, <3>1, <3>3, TailAt
    <3> QED BY <1>4, <2>3, <3>4 DEF Pending
  <2> QED BY <2>2, <2>3
<1> QED BY <1>3, <1>6, <1>7, <1>8 DEF TInv

LEMMA SweepKeeps == ASSUME TInv, IInv', BeginSweep PROVE TInv'
<1>1. /\ UNCHANGED <<vars, commands>> /\ sweeps < MaxSweeps /\ sweeps' = sweeps + 1
      /\ UNCHANGED retained /\ "main" \in Task /\ "client" \in Task
  BY DEF BeginSweep, Begin, Task
<1>2. client' = client
  BY <1>1 DEF vars
<1>3. sweeps' \in 0..MaxSweeps /\ commands' \in 0..MaxCommands
  BY <1>1, TopicsAssumption DEF TInv, TopicTypes, TopicsAssumption
<1>4. \E program, ts : Begin("main", program, ts) /\ Fulfils(program, ts)
  BY AdjustTells, MotionTells DEF BeginSweep
<1>5. PICK program, ts : Begin("main", program, ts) /\ Fulfils(program, ts)
  BY <1>4
<1>6. todo'["client"] = todo["client"]
  BY <1>1, <1>5 DEF Begin, TInv, TopicTypes
<1>7. Renewed'
  BY <1>1, <1>2, <1>6 DEF TInv, Renewed, Pending
<1> QED BY <1>1, <1>2, <1>3, <1>5, <1>7, BeginKeeps

(***************************************************************************)
(* A command is handled when the answer to MQTT_EVENT_CONNECTED is given:  *)
(* nothing old is left.                                                    *)
(***************************************************************************)
LEMMA CommandKeeps == ASSUME TInv, IInv', OnData PROVE TInv'
<1>1. /\ UNCHANGED <<vars, sweeps>> /\ commands < MaxCommands /\ commands' = commands + 1
      /\ client = "up" /\ "client" \in Task
  BY DEF OnData, Task
<1>2. sweeps' \in 0..MaxSweeps /\ commands' \in 0..MaxCommands
  BY <1>1, TopicsAssumption DEF TInv, TopicTypes, TopicsAssumption
<1>3. ASSUME NEW g \in {0, 1}, RgbCommand(g)
      PROVE  \E program, ts : Begin("client", program, ts) /\ Fulfils(program, ts)
  BY <1>3, RgbTells, RgbSwitchTells DEF RgbCommand
<1>4. ASSUME NEW c \in Channel, LedCommand(c)
      PROVE  \E program, ts : Begin("client", program, ts) /\ Fulfils(program, ts)
  BY <1>4, LedTells, LedSwitchTells DEF LedCommand
<1>5. PICK program, ts : Begin("client", program, ts) /\ Fulfils(program, ts)
  BY <1>3, <1>4 DEF OnData
<1>6. \A t \in Topic : retained[t] # "old"
  BY <1>1, <1>5, TopicsInvImplies DEF NoOldState, Begin
<1>7. Renewed'
  BY <1>5, <1>6 DEF Begin, Renewed
<1>8. client' = client
  BY <1>1 DEF vars
<1> QED BY <1>1, <1>2, <1>5, <1>7, <1>8, BeginKeeps

LEMMA AnswerKeeps ==
  ASSUME TInv, IInv', Begin("client", ConnectedProgram, Topic), UNCHANGED <<sweeps, commands>>
  PROVE  TInv'
<1>1. "client" \in Task /\ TopicTypes /\ sweeps' \in 0..MaxSweeps /\ commands' \in 0..MaxCommands
  BY DEF Task, TInv, TopicTypes
<1>2. todo'["client"] = ConnectedProgram
  BY <1>1 DEF Begin, TopicTypes
<1>3. ASSUME NEW t \in Topic PROVE Pending(t)'
  <2>1. Tells(ConnectedProgram, t)
    BY ConnectedTells DEF Fulfils
  <2> QED BY <1>2, <2>1 DEF Tells, Pending
<1>4. Renewed'
  BY <1>3 DEF Renewed
<1> QED BY <1>1, <1>4, ConnectedTells, BeginKeeps

LEMMA ConnectionKeeps ==
  ASSUME TInv, IInv', MainFree \/ Button \/ ClientConnects \/ ClientRestarts \/ Surroundings
  PROVE  TInv'
<1>1. CASE MainFree
  <2>1. UNCHANGED topics /\ MainStep
    BY <1>1 DEF MainFree
  <2>2. client' = client \/ client' = "trying"
    BY <2>1 DEF MainStep, EnterLoop, Flash, CallConnect, TooEarly, Connecting, Found, NotFound,
                StartClient
  <2> QED BY <2>1, <2>2, TopicsKept
<1>2. CASE Button
  <2>1. CASE PressSmartconfig /\ UNCHANGED topics
    BY <2>1, TopicsKept DEF PressSmartconfig
  <2>2. CASE PressErase /\ ForgetAll
    BY <2>2, Forgotten DEF PressErase, os_restart
  <2> QED BY <1>2, <2>1, <2>2 DEF Button
<1>3. CASE ClientConnects
  <2>1. CASE OnConnected /\ UNCHANGED topics
    BY <2>1, TopicsKept DEF OnConnected
  <2>2. CASE Begin("client", ConnectedProgram, Topic) /\ UNCHANGED <<sweeps, commands>>
    BY <2>2, AnswerKeeps
  <2>3. CASE Lose /\ UNCHANGED topics
    BY <2>3, TopicsKept DEF Lose
  <2> QED BY <1>3, <2>1, <2>2, <2>3 DEF ClientConnects
<1>4. CASE ClientRestarts
  BY <1>4, Forgotten DEF ClientRestarts, OnDisconnected, os_restart
<1>5. CASE Surroundings
  <2>1. UNCHANGED topics /\ client' = client
    BY <1>5 DEF Surroundings, WifiUp, WifiDown, SmartconfigDone, NetworkChanges
  <2> QED BY <2>1, TopicsKept
<1> QED BY <1>1, <1>2, <1>3, <1>4, <1>5

LEMMA TopicsStep == TInv /\ [TopicsNext]_all => TInv'
<1> SUFFICES ASSUME TInv, [TopicsNext]_all PROVE TInv'
  OBVIOUS
<1>1. IInv'
  BY TopicsStepIsStep, LedStep DEF TInv
<1>2. CASE \E k \in Task : TaskStep(k) BY <1>1, <1>2, TaskStepKeeps
<1>3. CASE BeginSweep BY <1>1, <1>3, SweepKeeps
<1>4. CASE OnData BY <1>1, <1>4, CommandKeeps
<1>5. CASE MainFree \/ Button \/ ClientConnects \/ ClientRestarts \/ Surroundings
  BY <1>1, <1>5, ConnectionKeeps
<1>6. CASE UNCHANGED all
  <2>1. UNCHANGED topics /\ client' = client
    BY <1>6 DEF all, vars
  <2> QED BY <1>1, <2>1, TopicsKept
<1> QED BY <1>2, <1>3, <1>4, <1>5, <1>6 DEF TopicsNext

(***************************************************************************)
(* An operation that ends, ends with a step of its own program, or with    *)
(* the restart.                                                            *)
(***************************************************************************)
Ended(k) ==
  ~Idle(k) /\ Idle(k)' /\ client' = "up" => \A t \in promise[k] : retained'[t] = "fresh"

LEMMA BegunNotEnded ==
  ASSUME TopicTypes, NEW j \in Task, NEW program, NEW ts, Begin(j, program, ts), NEW k \in Task
  PROVE  Idle(k)' => Idle(k)
<1>1. CASE k = j BY <1>1 DEF Begin
<1>2. CASE k # j BY <1>2 DEF Begin, TopicTypes, Idle
<1> QED BY <1>1, <1>2

LEMMA StepEnds == ASSUME TInv, NEW j \in Task, TaskStep(j), NEW k \in Task PROVE Ended(k)
<1> SUFFICES ASSUME ~Idle(k), Idle(k)', client' = "up", NEW t \in promise[k]
             PROVE  retained'[t] = "fresh"
  BY DEF Ended
<1>1. j = k
  BY DEF TaskStep, TInv, TopicTypes, Idle
<1>2. client = "up" /\ t \in Topic
  BY TaskStepDoes DEF TInv, TopicTypes
<1>3. Kept(k, t)
  BY <1>2 DEF TInv, Promised
<1>4. Kept(k, t)'
  BY <1>1, <1>2, <1>3, KeptOn
<1>5. ~WillSay(todo[k], holds[k], t)'
  BY DEF WillSay, Idle
<1> QED BY <1>4, <1>5 DEF Kept

LEMMA OperationsEnd == TInv /\ [TopicsNext]_all => \A k \in Task : Ended(k)
<1> SUFFICES ASSUME TInv, [TopicsNext]_all, NEW k \in Task PROVE Ended(k)
  OBVIOUS
<1> USE DEF Ended
<1>1. CASE \E j \in Task : TaskStep(j) BY <1>1, StepEnds
<1>2. CASE \E j \in Task : \E program, ts : Begin(j, program, ts)
  BY <1>2, BegunNotEnded DEF TInv
<1>3. BeginSweep \/ OnData \/ ClientConnects =>
        (\E j \in Task : \E program, ts : Begin(j, program, ts)) \/ UNCHANGED topics
  BY DEF BeginSweep, OnData, RgbCommand, LedCommand, ClientConnects, Task
<1>4. CASE UNCHANGED topics
  BY <1>4 DEF topics, tasks, Idle
<1>5. MainFree \/ Surroundings => UNCHANGED topics
  BY DEF MainFree, Surroundings
<1>6. Button \/ ClientRestarts => UNCHANGED topics \/ client' = "none"
  BY DEF Button, ClientRestarts, PressErase, OnDisconnected, os_restart
<1>7. UNCHANGED all => UNCHANGED topics
  BY DEF all
<1> QED BY <1>1, <1>2, <1>3, <1>4, <1>5, <1>6, <1>7 DEF TopicsNext

LEMMA TopicsInvariant == TopicsSpec => []TInv
BY TopicsBegin, TopicsStep, PTL DEF TopicsSpec

(***************************************************************************)
(* Type correctness.                                                       *)
(***************************************************************************)
THEOREM TopicsTypes == TopicsSpec => []TopicsTypeOK
BY TopicsInvImplies, TopicsInvariant, PTL

(***************************************************************************)
(* However the tasks, the commands, the button and the losses interleave,  *)
(* the answer to MQTT_EVENT_CONNECTED leaves nothing of an earlier boot    *)
(* retained: it publishes on every topic, and until it has published on    *)
(* the last the client handles no other event.                             *)
(***************************************************************************)
THEOREM TopicsNoOldState == TopicsSpec => []NoOldState
BY TopicsInvImplies, TopicsInvariant, PTL

(***************************************************************************)
(* Every sweep and every command, of any light, that ends with the         *)
(* connection up leaves the topics it is there for saying what ch[] holds, *)
(* unless the other task had a hand in them meanwhile.                     *)
(***************************************************************************)
THEOREM TopicsAnswered == TopicsSpec => Answered
<1>1. TInv /\ [TopicsNext]_all =>
        [\A k \in Task : ~Idle(k) /\ Idle(k)' /\ client' = "up" =>
           \A t \in promise[k] : retained'[t] = "fresh"]_all
  BY OperationsEnd DEF Ended
<1> QED BY <1>1, TopicsInvariant, PTL DEF TopicsSpec, Answered
=============================================================================
