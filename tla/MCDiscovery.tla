---------------------------- MODULE MCDiscovery -----------------------------
(* An instance of Discovery for TLC: a SOK pack and an unnamed JK pack     *)
(* share a service, an Anker station, and two ports of which the name of   *)
(* one begins the other's.                                                 *)
EXTENDS Discovery

MCFeatures == {"anker", "sok", "jk"}
MCWired == {"jk", "daly"}
MCRadios == {"pack", "plain", "station"}
MCPorts == {"usb1", "usb10"}
MCFamily == [pack |-> "sok", plain |-> "jk", station |-> "anker",
             usb1 |-> "daly", usb10 |-> "jk"]
MCMarks == [pack |-> {"svc_ffe0", "name_sok"},
            plain |-> {"svc_ffe0"},
            station |-> {"name_anker"}]
MCBaud == [usb1 |-> 9600, usb10 |-> 115200]
MCId == [pack |-> <<"ble", "p">>, plain |-> <<"ble", "r">>, station |-> <<"ble", "s">>,
         usb1 |-> <<"serial", "1">>, usb10 |-> <<"serial", "1", "0">>]
MCMac == [station |-> <<"ble", "mac">>]
MCLabel == [pack |-> <<"sok">>, plain |-> <<"jk">>, station |-> <<"anker">>,
            usb1 |-> <<"daly">>, usb10 |-> <<"jk", "2">>]
MCSerialBauds == <<115200>>
MCQueries == {<<"ble", "p">>, <<"ble", "r">>, <<"serial", "1">>, <<"ble">>, <<"jk">>}

(* The devices of this instance are what ChosenFits asks of them.          *)
ASSUME MCDistinguishable == Distinguishable
=============================================================================
