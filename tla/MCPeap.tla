------------------------------- MODULE MCPeap -------------------------------
(* A TLS 1.3 client, whose last flight ends the handshake, and a TLS 1.2 one, *)
(* which waits for the server's Finished. *)
EXTENDS Peap

MCScripts == {<<"w", "r", "w", "w">>, <<"w", "r", "w", "r">>}
=============================================================================
