---------------------------- MODULE MCHttpServer ----------------------------
(***************************************************************************)
(* One client that sends short requests, a longer one with a body, and one *)
(* the grammar rejects.                                                    *)
(***************************************************************************)
EXTENDS HttpServer

CONSTANTS c1, f, g, noCallback, noRequest

MCRequest == {"get", "post", "bad"}
MCMalformed == {"bad"}

MCHeaderOf ==
    [r \in MCRequest |->
        CASE r = "get"  -> <<"g", "cr", "lf", "cr", "lf">>
          [] r = "post" -> <<"p", "h", "cr", "lf", "h", "cr", "lf", "cr", "lf">>
          [] r = "bad"  -> <<"b", "cr", "lf", "cr", "lf">>]

\* The body of the longer request ends in what is a request of its own.
MCBodyOf ==
    [r \in MCRequest |->
        IF r = "post" THEN <<"x", "g", "cr", "lf", "cr", "lf">> ELSE <<>>]

MCUrl == {<<"a">>, <<"*">>}
MCPath == {<<>>, <<"a">>, <<"b">>}
MCPathOf == [r \in MCRequest |-> IF r = "get" THEN <<"b">> ELSE <<"a">>]
=============================================================================
