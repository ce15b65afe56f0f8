------------------------------- MODULE MCApp -------------------------------
(***************************************************************************)
(* Instances of App for TLC.  The workloads are apart because the sweeps,  *)
(* the rate limiter and the shutdown share no more than the process: each  *)
(* has the part it is about and nothing else.                              *)
(***************************************************************************)
EXTENDS App, TLC

CONSTANTS o1, o2, b1, b2, h1, h2, e1, e2, ip1, ip2, ip3

Row(b) == [beer |-> b, quantity |-> 1]

\* o1 has something to compensate; o2, listed second, waits for o1's turn.
TwoLines == o1 :> <<Row(b1), Row(b2)>> @@ o2 :> <<Row(b1)>>

TwoStreams == <<o1, o2>>

Request(ip, route, roles, body) ==
  [ip |-> ip, route |-> route, bearer |-> roles # {}, roles |-> roles, body |-> body]

\* A process in each of the four modes, with requests and outbox rows, that may
\* be told to stop at any moment.
Stopped ==
  [durable : {TRUE}, broker : BOOLEAN, verifier : {TRUE}, limited : {FALSE},
   refused : {FALSE}, stoppable : {TRUE}, faults : {MaxFaults},
   orders : {{}}, unreadable : {{}}, rows : {{e1, e2}},
   requests : {{Request(ip1, "sales", {"viewer", "sales-manager"}, "ok"),
                Request(ip2, "production", {"viewer"}, "ok")}}]
  \cup
  [durable : {FALSE}, broker : BOOLEAN, verifier : BOOLEAN, limited : {FALSE},
   refused : {FALSE}, stoppable : {TRUE}, faults : {MaxFaults},
   orders : {{}}, unreadable : {{}}, rows : {{}},
   requests : {{Request(ip1, "sales", {}, "ok"),
                Request(ip1, "production", {"warehouse-operator"}, "invalid")}}]

\* Three clients of a limiter that tracks two before it forgets.
Crowded ==
  [durable : {FALSE}, broker : {FALSE}, verifier : {FALSE}, limited : {TRUE},
   refused : {FALSE}, stoppable : {FALSE}, faults : {0},
   orders : {{}}, unreadable : {{}}, rows : {{}},
   requests : {{Request(ip1, "query", {}, "ok"), Request(ip2, "query", {}, "large"),
                Request(ip3, "production", {}, "invalid")}}]

\* Two sagas of an earlier process, or new ones, and no requests; or such sagas
\* of which one cannot be decoded.
Resumed ==
  [durable : {TRUE}, broker : {TRUE}, verifier : {FALSE}, limited : {FALSE},
   refused : {FALSE}, stoppable : {TRUE}, faults : {MaxFaults},
   orders : {{o1, o2}}, unreadable : {{}}, rows : {{}}, requests : {{}}]
  \cup
  [durable : {TRUE}, broker : {TRUE}, verifier : {FALSE}, limited : {FALSE},
   refused : {FALSE}, stoppable : {FALSE}, faults : {0},
   orders : {{o1, o2}}, unreadable : {{o2}}, rows : {{}}, requests : {{}}]

\* A process that the broker may refuse while it attaches its handlers.
Booting ==
  [durable : {TRUE}, broker : {TRUE}, verifier : {FALSE}, limited : {FALSE},
   refused : {TRUE}, stoppable : {TRUE}, faults : {MaxFaults},
   orders : {{}}, unreadable : {{}}, rows : {{e1}},
   requests : {{Request(ip1, "sales", {}, "ok")}}]

Processes == Stopped \cup Crowded \cup Resumed \cup Booting
=============================================================================
