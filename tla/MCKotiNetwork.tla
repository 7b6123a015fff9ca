--------------------------- MODULE MCKotiNetwork ---------------------------
(***************************************************************************)
(* KotiNetwork with a handful of sensors, one of them not registered.      *)
(***************************************************************************)
EXTENDS KotiNetwork, RadioLibs

CONSTANTS th, water, click,   \* sensors built for a host
          picTh, picWater     \* sensors built for a PIC

MCByte == 0..255
MCKey  == {1, 2, 3}

MCInstallation == {{th, water, click}, {picTh, picWater}}

MCProgram ==
  [d \in Device |-> CASE d = th -> "th_host"   [] d = water -> "water_host"
                      [] d = click -> "click_host" [] d = picTh -> "th_pic"
                      [] d = picWater -> "water_pic"]

MCUuid == [d \in Device |->
             LET tag == CASE d = th -> 11 [] d = water -> 22 [] d = click -> 33
                          [] d = picTh -> 44 [] d = picWater -> 55
             IN  [n \in 4..7 |-> <<tag, n, tag, n>>]]

MCDeviceKey ==
  [d \in Device |-> IF d \in {th, picTh} THEN 1 ELSE IF d \in {water, picWater} THEN 2 ELSE 3]

MCConfig == [u \in {MCUuid[d] : d \in Device \ {click}} |->
               MCDeviceKey[CHOOSE d \in Device : MCUuid[d] = u]]

MCSent == [d \in Device |-> IF d = click THEN 1 ELSE 2]

MCReading == {<<<<0, 0, 192, 65>>, <<0, 0, 52, 66>>>>}
MCVoltage == {<<0, 0, 32, 64>>}
MCText    == {<<<<115, 104, 116, 51>>, <<49, 0, 0, 0>>>>}
=============================================================================
