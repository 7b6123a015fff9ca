----------------------------- MODULE LedTopics -----------------------------
(***************************************************************************)
(* What the broker holds of the ESP32 light (esp32/led-6ch/main.c): the    *)
(* connection of LedConn, and on top of it the state messages the light    *)
(* publishes to be retained, so that they outlive the connection and the   *)
(* restart that follows its loss, in which ch[] is lost.                   *)
(*                                                                         *)
(* Of ch[] only facts are kept: that a message says what ch[] now holds.   *)
(* An assignment ends every message about the channel, a second reading of *)
(* the same value included.  The task of the client and the main task both *)
(* assign and publish, a step each, in programs the operations give them.  *)
(* The outputs are in LedLights; the temperature, which no one keeps, is   *)
(* left out.                                                               *)
(***************************************************************************)
EXTENDS LedConn, Sequences

CONSTANTS G,            \* channels of a group: 3
          MaxSweeps,    \* bounds: sweeps of the main task and commands
          MaxCommands   \* in one boot

ASSUME TopicsAssumption ==
  G \in Nat \ {0} /\ MaxSweeps \in Nat /\ MaxCommands \in Nat

Channel  == 0..(2 * G - 1)
Group(g) == (g * G)..(g * G + G - 1)
Fact     == Channel \X {"value", "switch"}

(***************************************************************************)
(* The topics rgb<g>/state, rgb<g>/switch/state, led<c>/state and          *)
(* led<c>/switch/state, and what a message on one of them speaks of.       *)
(***************************************************************************)
Topic == {"rgb"} \X {0, 1} \X {"value", "switch"}
           \cup {"led"} \X Channel \X {"value", "switch"}

Facts(topic) ==
  IF topic[1] = "led" THEN {<<topic[2], topic[3]>>}
  ELSE IF topic[3] = "switch" THEN {<<topic[2] * G, "switch">>}
  ELSE Group(topic[2]) \X {"value"}

-----------------------------------------------------------------------------
(***************************************************************************)
(* What a task does, step by step.                                         *)
(***************************************************************************)
Assign(facts)  == [do |-> "assign", facts |-> facts]
Read(facts)    == [do |-> "read", facts |-> facts]
Publish(topic) == [do |-> "publish", topic |-> topic]

Tell(topic) == <<Read(Facts(topic)), Publish(topic)>>

TellBoth(kind, number) ==
  Tell(<<kind, number, "value">>) \o Tell(<<kind, number, "switch">>)

(***************************************************************************)
(* A step that changes what a topic speaks of, or what is retained on it;  *)
(* and a set of topics if a program has no such step for any of them.      *)
(***************************************************************************)
Disturbs(step, topic) ==
  \/ step.do = "assign" /\ Facts(topic) \cap step.facts # {}
  \/ step.do = "publish" /\ step.topic = topic

Spared(set, program) ==
  IF \E t \in set, i \in 1..Len(program) : Disturbs(program[i], t) THEN {} ELSE set

(***************************************************************************)
(* The programs of 0 to n - 1 in turn, of size steps each.                 *)
(***************************************************************************)
InTurn(n, size, program) ==
  [k \in 1..(n * size) |-> program[(k - 1) \div size][((k - 1) % size) + 1]]

ConnectedProgramShort ==   \* a mutant: the separate channels are left out
  InTurn(2, 4, [g \in 0..1 |-> TellBoth("rgb", g)])

ConnectedProgram ==
  InTurn(2, 4, [g \in 0..1 |-> TellBoth("rgb", g)])
    \o InTurn(2 * G, 4, [c \in Channel |-> TellBoth("led", c)])

(***************************************************************************)
(* The channels of a group: those of them the message has numbers for, and *)
(* the switch of each.                                                     *)
(***************************************************************************)
AssignNumbers(g, numbers) ==
  [k \in 1..G |-> Assign((numbers \cap {g * G + k - 1}) \X {"value"})]

RgbProgramSwapped(g, numbers) ==   \* a mutant: the state goes to the other group
  AssignNumbers(g, numbers)
    \o <<Read(Facts(<<"rgb", g, "value">>)), Publish(<<"rgb", 1 - g, "value">>)>>

RgbProgram(g, numbers) == AssignNumbers(g, numbers) \o Tell(<<"rgb", g, "value">>)

Lit(topic, on) == IF on THEN Tell(topic) ELSE <<>>

RgbSwitchProgram(g, on) ==
  [k \in 1..G |-> Assign({<<g * G + k - 1, "switch">>})]
    \o <<Publish(<<"rgb", g, "switch">>)>>
    \o Lit(<<"rgb", g, "value">>, on)

LedProgram(c) == <<Assign({<<c, "value">>})>> \o Tell(<<"led", c, "value">>)

LedSwitchProgram(c, on) ==
  <<Assign({<<c, "switch">>}), Publish(<<"led", c, "switch">>)>>
    \o Lit(<<"led", c, "value">>, on)

(***************************************************************************)
(* The last message of the thermal sweep goes out on the topic of the      *)
(* second group and speaks of the first.                                   *)
(***************************************************************************)
AdjustProgramBeyond ==   \* a mutant: one channel too many
  InTurn(2 * G + 1, 3, [c \in 0..(2 * G) |-> LedProgram(c)])

AdjustProgram ==
  InTurn(2 * G, 3, [c \in Channel |-> LedProgram(c)])
    \o Tell(<<"rgb", 0, "value">>)
    \o <<Read(Facts(<<"rgb", 0, "value">>)), Publish(<<"rgb", 1, "value">>)>>

MotionProgram ==
  InTurn(2 * G, 2,
         [c \in Channel |-> <<Assign({<<c, "switch">>}), Publish(<<"led", c, "switch">>)>>])
    \o <<Publish(<<"rgb", 0, "switch">>), Publish(<<"rgb", 1, "switch">>)>>

-----------------------------------------------------------------------------
VARIABLES
  retained,   \* retained[t]: what the broker holds on topic t is from before
              \* this boot, says what ch[] holds, or did so once
  todo,       \* todo[k]: the steps task k has before it
  holds,      \* holds[k]: facts the message k composes agrees with ch[] on
  promise,    \* history: promise[k]: topics k's operation is there to bring up
              \* to date, none if one at the same time has a hand in them
  sweeps,     \* sweeps and commands in this boot, for the bounds
  commands

Task == {"main", "client"}

Other(k) == IF k = "main" THEN "client" ELSE "main"

tasks  == <<todo, holds, promise, sweeps, commands>>
topics == <<retained, tasks>>
all    == <<vars, topics>>

TopicsInit ==
  /\ Init
  /\ retained = [t \in Topic |-> "old"]
  /\ todo = [k \in Task |-> <<>>]
  /\ holds = [k \in Task |-> {}]
  /\ promise = [k \in Task |-> {}]
  /\ sweeps = 0 /\ commands = 0

Idle(k) == todo[k] = <<>>

Begin(k, program, topicsPromised) ==
  /\ Idle(k)
  /\ todo' = [todo EXCEPT ![k] = program]
  /\ holds' = [holds EXCEPT ![k] = {}]
  /\ promise' = [promise EXCEPT ![k] = Spared(topicsPromised, todo[Other(k)]),
                                ![Other(k)] = Spared(@, program)]
  /\ UNCHANGED retained

-----------------------------------------------------------------------------
(***************************************************************************)
(* A step of a task.  mqtt_publish does nothing while the bit is clear;    *)
(* with the network gone the message is lost, and the connection with it.  *)
(***************************************************************************)
AssignStep(k) ==
  /\ Head(todo[k]).do = "assign"
  /\ LET facts == Head(todo[k]).facts
     IN  /\ holds' = [holds EXCEPT ![k] = @ \cup facts, ![Other(k)] = @ \ facts]
         /\ retained' = [t \in Topic |->
                           IF retained[t] = "fresh" /\ Facts(t) \cap facts # {}
                           THEN "stale" ELSE retained[t]]
  /\ UNCHANGED vars

ReadStep(k) ==
  /\ Head(todo[k]).do = "read"
  /\ holds' = [holds EXCEPT ![k] = Head(todo[k]).facts]
  /\ UNCHANGED <<vars, retained>>

Reached == client \in {"handling", "up"} /\ wifi /\ broker

PublishStep(k) ==
  /\ Head(todo[k]).do = "publish"
  /\ LET t == Head(todo[k]).topic
     IN  retained' =
           IF CONNECTED /\ Reached
           THEN [retained EXCEPT ![t] = IF Facts(t) \subseteq holds[k] THEN "fresh" ELSE "stale"]
           ELSE retained
  /\ client' = IF CONNECTED /\ client = "up" /\ ~Reached THEN "lost" ELSE client
  /\ UNCHANGED <<discovery, main, bits, clients, leds, configured, wifi, smartconfig, net, holds>>

TaskStep(k) ==
  /\ ~Idle(k)
  /\ AssignStep(k) \/ ReadStep(k) \/ PublishStep(k)
  /\ todo' = [todo EXCEPT ![k] = Tail(@)]
  /\ UNCHANGED <<promise, sweeps, commands>>

-----------------------------------------------------------------------------
(***************************************************************************)
(* The sweeps of the main task: an overheated light, the motion sensor.    *)
(***************************************************************************)
BeginSweep ==
  /\ main = "loop"
  /\ sweeps < MaxSweeps
  /\ sweeps' = sweeps + 1
  /\ \/ Begin("main", AdjustProgram,
              ({"led"} \X Channel \X {"value"}) \cup {<<"rgb", 0, "value">>})
     \/ Begin("main", MotionProgram, {t \in Topic : t[3] = "switch"})
  /\ UNCHANGED <<vars, commands>>

(***************************************************************************)
(* MQTT_EVENT_DATA: the commands on the topics subscribed to.              *)
(***************************************************************************)
Lighting(on, t) == IF on THEN {t} ELSE {}

RgbCommand(g) ==
  \/ \E numbers \in SUBSET Group(g) :
       Begin("client", RgbProgram(g, numbers), {<<"rgb", g, "value">>})
  \/ \E on \in BOOLEAN :
       Begin("client", RgbSwitchProgram(g, on),
             {<<"rgb", g, "switch">>} \cup Lighting(on, <<"rgb", g, "value">>))

LedCommand(c) ==
  \/ Begin("client", LedProgram(c), {<<"led", c, "value">>})
  \/ \E on \in BOOLEAN :
       Begin("client", LedSwitchProgram(c, on),
             {<<"led", c, "switch">>} \cup Lighting(on, <<"led", c, "value">>))

OnData ==
  /\ client = "up"
  /\ commands < MaxCommands
  /\ commands' = commands + 1
  /\ (\E g \in {0, 1} : RgbCommand(g)) \/ (\E c \in Channel : LedCommand(c))
  /\ UNCHANGED <<vars, sweeps>>

-----------------------------------------------------------------------------
(***************************************************************************)
(* The steps of LedConn: the main task and the task of the client take     *)
(* theirs between their programs; a restart ends the programs and leaves   *)
(* what the broker holds as the state of another boot.                     *)
(***************************************************************************)
ForgetAll ==
  /\ retained' = [t \in Topic |-> "old"]
  /\ todo' = [k \in Task |-> <<>>]
  /\ holds' = [k \in Task |-> {}]
  /\ promise' = [k \in Task |-> {}]
  /\ sweeps' = 0 /\ commands' = 0

MainFree == Idle("main") /\ MainStep /\ UNCHANGED topics

Button ==
  /\ Idle("main")
  /\ \/ PressSmartconfig /\ UNCHANGED topics
     \/ PressErase /\ ForgetAll

ClientConnects ==
  \/ OnConnected /\ Idle("client") /\ UNCHANGED topics
  \/ /\ OnConnectedDone
     /\ Begin("client", ConnectedProgram, Topic)
     /\ UNCHANGED <<sweeps, commands>>
  \/ Lose /\ UNCHANGED topics

ClientRestarts == Idle("client") /\ OnDisconnected /\ ForgetAll

Surroundings ==
  (WifiUp \/ WifiDown \/ SmartconfigDone \/ NetworkChanges) /\ UNCHANGED topics

TopicsNext ==
  \/ \E k \in Task : TaskStep(k)
  \/ BeginSweep \/ OnData
  \/ MainFree \/ Button \/ ClientConnects \/ ClientRestarts \/ Surroundings

(***************************************************************************)
(* Both tasks are scheduled by FreeRTOS and never block for ever: the main *)
(* loop gets to its connection check in every round, however often it      *)
(* sweeps, and the client to its next event.  The wifi driver retries.     *)
(* Nobody has to press the button or finish smartconfig.                   *)
(***************************************************************************)
TopicsSpec ==
  /\ TopicsInit /\ [][TopicsNext]_all
  /\ \A k \in Task : WF_all(TaskStep(k))
  /\ SF_all(MainFree) /\ SF_all(ClientConnects \/ ClientRestarts)
  /\ WF_all(WifiUp /\ UNCHANGED topics)

-----------------------------------------------------------------------------
(***************************************************************************)
(* Type invariant.                                                         *)
(***************************************************************************)
TopicsTypeOK ==
  /\ retained \in [Topic -> {"old", "fresh", "stale"}]
  /\ \A k \in Task : holds[k] \subseteq Fact /\ promise[k] \subseteq Topic
  /\ sweeps \in 0..MaxSweeps /\ commands \in 0..MaxCommands

(***************************************************************************)
(* Once the light has answered MQTT_EVENT_CONNECTED and is still           *)
(* connected, no state from before the restart is left with the broker.    *)
(***************************************************************************)
NoOldState ==
  client = "up" /\ Idle("client") => \A t \in Topic : retained[t] # "old"

(***************************************************************************)
(* An operation that ends with the connection up leaves the topics it is   *)
(* there for saying what ch[] holds: no message is composed before the     *)
(* assignment it reports, or of another channel, or sent where it is       *)
(* dropped.  An operation of the other task at the same time spoils that   *)
(* only if it has a hand in one of these topics or their channels.         *)
(***************************************************************************)
Answered ==
  [][\A k \in Task : ~Idle(k) /\ Idle(k)' /\ client' = "up" =>
       \A t \in promise[k] : retained'[t] = "fresh"]_all

(***************************************************************************)
(* When the network settles and nobody uses the button, a light with a     *)
(* fixed broker ends up connected and stays so, with nothing from another  *)
(* boot retained, whatever was lost before.                                *)
(***************************************************************************)
CatchesUp ==
  <>[]Settled /\ [](discovery = "static") =>
    <>[](client = "up" /\ \A t \in Topic : retained[t] # "old")
=============================================================================
