------------------------------ MODULE MCSerial ------------------------------
(***************************************************************************)
(* The serial device with a ring of three places, so that the third        *)
(* character that nobody reads costs the first.                            *)
(***************************************************************************)
EXTENDS SerialDevice

MCAppModes == {{"INT_RX"}, {"INT_RX", "INT_TX"}}
MCPollOnly == {{}}
=============================================================================
