------------------------------ MODULE LedConn ------------------------------
(***************************************************************************)
(* How the ESP32 light (esp32/led-6ch/main.c) gets and keeps its MQTT      *)
(* connection.  Three actors share two event bits: the main task, which    *)
(* polls the button and calls mqtt_connect; the task of the MQTT client,   *)
(* which runs mqtt_event_handler; and the wifi driver.  Nothing retries:   *)
(* losing the connection restarts the whole device.                        *)
(*                                                                         *)
(* External to src/, modelled from how main.c uses them: libe's wifi, and  *)
(* the MQTT client, which reports a failed attempt and a lost connection   *)
(* alike as MQTT_EVENT_DISCONNECTED.                                       *)
(***************************************************************************)
EXTENDS Integers

CONSTANT Discovery   \* ways to find the broker that are considered

ASSUME DiscoveryAssumption == Discovery \subseteq {"static", "mdns"}

VARIABLES
  discovery,    \* CONFIG_MQTT_BROKER_URL is set, or mDNS is asked
  main,         \* where the main task is; "boot" until the loop
  CONNECTED,    \* MQTT_CONNECTED_BIT
  CONNECTING,   \* MQTT_CONNECTING_BIT
  clients,      \* clients created since boot, up to 2
  client,       \* state of the client and its task
  leds,         \* what the PWM outputs show
  configured,   \* credentials in non-volatile memory
  wifi,         \* wifi_connected()
  smartconfig,  \* wifi_smartconfig_in_progress()
  ap, broker    \* the access point and the broker are in reach

bits == <<CONNECTED, CONNECTING>>
net  == <<ap, broker>>
vars == <<discovery, main, bits, clients, client, leds, configured, wifi, smartconfig, net>>

Init ==
  /\ discovery \in Discovery
  /\ main = "boot"
  /\ CONNECTED = FALSE /\ CONNECTING = FALSE
  /\ clients = 0 /\ client = "none"
  /\ leds = "values"
  /\ configured \in BOOLEAN
  /\ wifi = FALSE /\ smartconfig = FALSE
  /\ ap \in BOOLEAN /\ broker \in BOOLEAN

-----------------------------------------------------------------------------
(***************************************************************************)
(* os_restart(): RAM is gone, the PWM is opened again with the defaults.   *)
(***************************************************************************)
os_restart_soft ==   \* a mutant: the client is stopped, not forgotten
  /\ main' = "boot"
  /\ CONNECTED' = FALSE /\ CONNECTING' = FALSE
  /\ client' = "none"
  /\ leds' = "values"
  /\ wifi' = FALSE /\ smartconfig' = FALSE
  /\ UNCHANGED <<discovery, clients, net>>

os_restart ==
  /\ main' = "boot"
  /\ CONNECTED' = FALSE /\ CONNECTING' = FALSE
  /\ clients' = 0 /\ client' = "none"
  /\ leds' = "values"
  /\ wifi' = FALSE /\ smartconfig' = FALSE
  /\ UNCHANGED <<discovery, net>>

-----------------------------------------------------------------------------
(***************************************************************************)
(* The main task.                                                          *)
(***************************************************************************)
EnterLoop ==
  /\ main = "boot"
  /\ main' = "loop"
  /\ UNCHANGED <<discovery, bits, clients, client, leds, configured, wifi, smartconfig, net>>

(***************************************************************************)
(* The button, pressed for one second and for five.                        *)
(***************************************************************************)
PressSmartconfig ==
  /\ main = "loop"
  /\ smartconfig' = TRUE
  /\ wifi' = FALSE
  /\ UNCHANGED <<discovery, main, bits, clients, client, leds, configured, net>>

PressErase ==
  /\ main = "loop"
  /\ configured' = FALSE
  /\ os_restart

Flash ==
  /\ main = "loop"
  /\ smartconfig
  /\ leds' = "flash"
  /\ UNCHANGED <<discovery, main, bits, clients, client, configured, wifi, smartconfig, net>>

(***************************************************************************)
(* The loop sees neither bit and a connected wifi, and calls mqtt_connect, *)
(* which looks at the wifi once more.                                      *)
(***************************************************************************)
CallConnectMarks ==   \* a mutant: the bit is set before that second look
  /\ main = "loop"
  /\ ~smartconfig
  /\ ~CONNECTED /\ ~CONNECTING
  /\ wifi
  /\ CONNECTING' = TRUE
  /\ main' = "connect"
  /\ UNCHANGED <<discovery, CONNECTED, clients, client, leds, configured, wifi, smartconfig, net>>

CallConnect ==
  /\ main = "loop"
  /\ ~smartconfig
  /\ ~CONNECTED /\ ~CONNECTING
  /\ wifi
  /\ main' = "connect"
  /\ UNCHANGED <<discovery, bits, clients, client, leds, configured, wifi, smartconfig, net>>

TooEarly ==
  /\ main = "connect"
  /\ ~wifi \/ smartconfig
  /\ main' = "loop"
  /\ UNCHANGED <<discovery, bits, clients, client, leds, configured, wifi, smartconfig, net>>

Connecting ==
  /\ main = "connect"
  /\ wifi /\ ~smartconfig
  /\ CONNECTING' = TRUE
  /\ leds' = "values"
  /\ main' = IF discovery = "static" THEN "start" ELSE "query"
  /\ UNCHANGED <<discovery, CONNECTED, clients, client, configured, wifi, smartconfig, net>>

(***************************************************************************)
(* Two mDNS queries, for the broker and for Home Assistant; an answer may  *)
(* be lost.  After the second failure mqtt_connect returns.                *)
(***************************************************************************)
Found ==
  /\ main \in {"query", "query2"}
  /\ wifi /\ broker
  /\ main' = "start"
  /\ UNCHANGED <<discovery, bits, clients, client, leds, configured, wifi, smartconfig, net>>

NotFound ==
  /\ main \in {"query", "query2"}
  /\ main' = IF main = "query" THEN "query2" ELSE "loop"
  /\ UNCHANGED <<discovery, bits, clients, client, leds, configured, wifi, smartconfig, net>>

StartClient ==
  /\ main = "start"
  /\ clients' = IF clients < 2 THEN clients + 1 ELSE 2
  /\ client' = "trying"
  /\ main' = "loop"
  /\ UNCHANGED <<discovery, bits, leds, configured, wifi, smartconfig, net>>

MainStep ==
  EnterLoop \/ Flash \/ CallConnect \/ TooEarly \/ Connecting \/ Found \/ NotFound \/ StartClient

-----------------------------------------------------------------------------
(***************************************************************************)
(* The task of the client.  MQTT_EVENT_CONNECTED sets one bit and clears   *)
(* the other in two calls, then publishes and subscribes.                  *)
(***************************************************************************)
OnConnectedSwapped ==   \* a mutant: the bit of the attempt is cleared first
  /\ client = "trying"
  /\ wifi /\ broker
  /\ CONNECTING' = FALSE
  /\ client' = "handling"
  /\ UNCHANGED <<discovery, main, CONNECTED, clients, leds, configured, wifi, smartconfig, net>>

OnConnected ==
  /\ client = "trying"
  /\ wifi /\ broker
  /\ CONNECTED' = TRUE
  /\ client' = "handling"
  /\ UNCHANGED <<discovery, main, CONNECTING, clients, leds, configured, wifi, smartconfig, net>>

OnConnectedDone ==
  /\ client = "handling"
  /\ CONNECTING' = FALSE
  /\ client' = "up"
  /\ UNCHANGED <<discovery, main, CONNECTED, clients, leds, configured, wifi, smartconfig, net>>

Lose ==
  /\ client \in {"trying", "up"}
  /\ ~(wifi /\ broker)
  /\ client' = "lost"
  /\ UNCHANGED <<discovery, main, bits, clients, leds, configured, wifi, smartconfig, net>>

OnDisconnectedStop ==   \* a mutant: the client is destroyed, nothing restarts
  /\ client = "lost"
  /\ client' = "none" /\ clients' = 0
  /\ CONNECTED' = FALSE
  /\ UNCHANGED <<discovery, main, CONNECTING, leds, configured, wifi, smartconfig, net>>

OnDisconnected ==
  /\ client = "lost"
  /\ os_restart
  /\ UNCHANGED configured

ClientStep == OnConnected \/ OnConnectedDone \/ Lose \/ OnDisconnected

-----------------------------------------------------------------------------
(***************************************************************************)
(* The wifi driver and the network.                                        *)
(***************************************************************************)
WifiUp ==
  /\ ~wifi /\ configured /\ ap /\ ~smartconfig
  /\ wifi' = TRUE
  /\ UNCHANGED <<discovery, main, bits, clients, client, leds, configured, smartconfig, net>>

WifiDown ==
  /\ wifi /\ ~ap
  /\ wifi' = FALSE
  /\ UNCHANGED <<discovery, main, bits, clients, client, leds, configured, smartconfig, net>>

SmartconfigDone ==
  /\ smartconfig
  /\ smartconfig' = FALSE
  /\ configured' = TRUE
  /\ UNCHANGED <<discovery, main, bits, clients, client, leds, wifi, net>>

NetworkChanges ==
  /\ ap' \in BOOLEAN /\ broker' \in BOOLEAN
  /\ UNCHANGED <<discovery, main, bits, clients, client, leds, configured, wifi, smartconfig>>

Next ==
  \/ MainStep \/ PressSmartconfig \/ PressErase
  \/ ClientStep
  \/ WifiUp \/ WifiDown \/ SmartconfigDone \/ NetworkChanges

(***************************************************************************)
(* Safety only: LedTopics, where the tasks are also busy publishing, states *)
(* the fairness.                                                           *)
(***************************************************************************)
Spec == Init /\ [][Next]_vars

-----------------------------------------------------------------------------
(***************************************************************************)
(* Type invariant.                                                         *)
(***************************************************************************)
TypeOK ==
  /\ discovery \in {"static", "mdns"}
  /\ main \in {"boot", "loop", "connect", "query", "query2", "start"}
  /\ CONNECTED \in BOOLEAN /\ CONNECTING \in BOOLEAN
  /\ clients \in 0..2
  /\ client \in {"none", "trying", "handling", "up", "lost"}
  /\ client = "none" <=> clients = 0
  /\ leds \in {"values", "flash"}
  /\ configured \in BOOLEAN /\ wifi \in BOOLEAN /\ smartconfig \in BOOLEAN
  /\ ap \in BOOLEAN /\ broker \in BOOLEAN

(***************************************************************************)
(* mqtt_connect creates at most one client per boot: there is no instant   *)
(* at which a client exists and the main task finds both bits clear.       *)
(***************************************************************************)
SingleClient == clients <= 1

(***************************************************************************)
(* The bits keep the loop from calling mqtt_connect, though there is no    *)
(* client that could clear them and nobody is about to create one.  Only a *)
(* light that asked mDNS in vain gets there (main.c:306-309): whatever the *)
(* wifi, smartconfig and the broker do between the checks of the main task *)
(* and at whichever step the client's task is, a fixed broker is tried.    *)
(***************************************************************************)
Stranded ==
  /\ CONNECTED \/ CONNECTING
  /\ client = "none"
  /\ main \notin {"query", "query2", "start"}

StrandedByMdns == Stranded => discovery = "mdns" /\ ~CONNECTED

(***************************************************************************)
(* The network has settled and nobody uses the button.                     *)
(***************************************************************************)
Settled == ap /\ broker /\ configured /\ ~smartconfig

(***************************************************************************)
(* What main.c says of a broker that is not there: the device restarts     *)
(* ("not to spam restarts when mqtt server is not available"), so that it  *)
(* comes online once the broker is.                                        *)
(***************************************************************************)
ComesOnline == <>[]Settled => <>[](client = "up")
=============================================================================
