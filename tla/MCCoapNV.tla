------------------------------ MODULE MCCoapNV ------------------------------
(***************************************************************************)
(* A small instance of CoapNV: three resources, one path the beginning of  *)
(* another, and a fourth the table refuses.                                *)
(***************************************************************************)
EXTENDS CoapNV

MCApplication ==
    << [Uri |-> <<Slash, 97>>, methods |-> {"GET"}, notifier |-> TRUE],
       [Uri |-> <<120>>, methods |-> {}, notifier |-> TRUE],
       [Uri |-> <<Slash, 97, Slash, 98>>, methods |-> {"GET"}, notifier |-> TRUE],
       [Uri |-> <<98, Slash>>, methods |-> {"GET", "PUT"}, notifier |-> TRUE] >>

\* No token, and the longest one that is saved as a whole, of bytes that look
\* like payload markers.
MCClients ==
    { [Ep |-> 1, socketHandle |-> 7, Token |-> <<>>],
      [Ep |-> 255, socketHandle |-> 7, Token |-> [i \in 1 .. 7 |-> 255]] }

\* "a", "/a//b?", "b/?q", "/b?&q&/b", "x", "", "./c": delimiters at both ends, in a
\* row and on the wrong side of the query, a refused resource, no path, the
\* resource that is always there.
MCUris ==
    { <<97>>, <<Slash, 97, Slash, Slash, 98, Question>>, <<98, Slash, Question, 113>>,
      <<Space, Slash, 98, Question, Ampersand, 113, Ampersand, Slash, 98>>, <<120>>, <<>>,
      <<46, Slash, 99>> }

\* A byte no option begins with.
MCBehind == <<240>>
=============================================================================
