-------------------------------- MODULE MCTcp --------------------------------
(***************************************************************************)
(* A client that connects once to a server, and what their applications do *)
(* with the connection.                                                    *)
(***************************************************************************)
EXTENDS Tcp

CONSTANTS ClientIss, ServerIss

MCIss == [h \in Host |-> IF h = "client" THEN ClientIss ELSE ServerIss]

App(n, calls) == [writes |-> n, sizes |-> 1 .. n, calls |-> calls]
Both(c, s) == [h \in Host |-> IF h = "client" THEN c ELSE s]

\* the client sends and closes, the server reads
Transfer == {Both(App(3, {"write", "close"}), App(0, {"read"}))}

\* both end the connection in every way, with and without a byte under way
Ending == {Both(App(0, {"close", "shutdown", "abort"}), App(0, {"close", "shutdown", "abort"})),
           Both(App(1, {"write", "close"}), App(0, {"read", "shutdown"})),
           Both(App(1, {"write", "shutdown"}), App(0, {"read", "close"}))}

\* the server stops sending early and reads on
HalfClose == {Both(App(4, {"write", "close"}), App(0, {"read", "shutdown"}))}

\* the client sends more than the window holds
Stream == {Both(App(6, {"write"}), App(0, {"read"}))}

\* the same, in whole segments
Segments == {Both([App(6, {"write"}) EXCEPT !.sizes = {TCP_MSS}], App(0, {"read"}))}

Everything == Transfer \cup Ending \cup Segments
=============================================================================
