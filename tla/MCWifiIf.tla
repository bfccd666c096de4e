------------------------------ MODULE MCWifiIf ------------------------------
(* Instances of WifiIf for TLC.                                            *)
EXTENDS WifiIf

AllDrivers == {"es", "mx", "mxb", "cy", "st"}
Restarted  == {"es", "mx", "mxb"}
NoAddress  == {"cy", "st"}
TakenBack  == {"es", "mx", "cy"}
=============================================================================
