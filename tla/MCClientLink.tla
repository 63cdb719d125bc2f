------------------------------ MODULE MCClientLink ------------------------------
(* Constants for ClientLink.cfg. *)
EXTENDS ClientLink

CONSTANTS c1, c2, c3

\* Three requests, of which two have the same key.
MCKeysOf == {<<1, 1, 2>>}

\* All callers have a signal, or only one of the two that share a request.
MCSignalled == {{1, 2, 3}, {1}}

\* Three GETs, or a QUERY beside two requests of another method.
MCMethodsOf == {<<"GET", "GET", "GET">>, <<"QUERY", "POST", "POST">>}

\* Three calls of the transport.
MCSenders == {c1, c2, c3}
=============================================================================
