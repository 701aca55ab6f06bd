----------------------------- MODULE MCOpenVpn ------------------------------
(* Instances of OpenVpn for TLC.                                           *)
EXTENDS OpenVpn

\* What an interface of today sends, and a state with empty fields.  A string stands
\* for a run of characters that is not cut; status, address and port may be.
MCUp   == <<"15", ",", "CONN", "ECTED", ",", "SUCCESS", ",", "10.", "8.0", ",", "host", ",",
            "11", "94">>
MCWait == <<"16", ",", "WAIT", ",", ",", ",">>

MCStates == {MCUp, MCWait}
MCDigits == {"15", "16", "8.0", "11", "94"}
MCChars == {"END", ">INFO", "CONN", "ECTED", "SUCCESS", "10.", "host", "WAIT"} \cup MCDigits
=============================================================================
