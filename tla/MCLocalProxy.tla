---------------------------- MODULE MCLocalProxy ----------------------------
(* Two events, one of two lines; a third newline between events; an event that *)
(* the provider ends with CR LF, in which the proxy sees no delimiter.         *)
EXTENDS LocalProxy

MCBytes == {"a", "b", "c", "crlf", "json", NL}
MCStreams == {<<"a", NL, NL, "b", NL, "c", NL, NL>>,
              <<"a", NL, NL, NL, NL, "b", NL, NL>>,
              <<"a", "crlf", "crlf">>}
MCBodies == {<<"json", NL>>}

=============================================================================
