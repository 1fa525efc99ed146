---------------------------- MODULE MCHttp3Link ----------------------------
(* Requests with and without a body, and one that does not fit a packet. *)
EXTENDS Http3Link

\* The entries of the static table that are used; others are fillers.
MCStaticTable ==
  [i \in 0 .. 98 |->
     CASE i = 0 -> <<Authority, <<>>>>
       [] i = 1 -> <<Path, <<47>>>>
       [] i = 15 -> <<Method, <<1>>>>
       [] i = 17 -> <<Method, <<2>>>>
       [] i = 23 -> <<Scheme, Https>>
       [] i = 25 -> <<Status, <<2, 0, 0>>>>
       [] i = 65 -> <<Status, <<2, 0, 6>>>>
       [] OTHER -> <<<<120, i>>, <<>>>>]

Sender == <<<<Host, <<104>>>>, <<Authority, <<104>>>>>>
MCRequestOf ==
  <<[method |-> <<7>>, path |-> <<1>>, hdrs |-> Sender, bd |-> <<11, 12>>],
    [method |-> <<2>>, path |-> <<47>>, hdrs |-> Sender, bd |-> <<>>],
    [method |-> <<1>>, path |-> <<3>>, hdrs |-> Sender, bd |-> [i \in 1 .. 30 |-> 31]],
    [method |-> <<2>>, path |-> <<4>>, hdrs |-> Sender, bd |-> <<>>]>>
MCHandler(req) ==
  [status |-> IF req.path = <<1>> THEN <<2, 0, 6>> ELSE <<2, 0, 0>>,
   hdrs |-> <<<<<<88>>, req.path>>>>,
   bd |-> IF req.path = <<3>> THEN <<>> ELSE Append(req.path, 9)]
MCPushes(req) ==
  IF req.path = <<1>> THEN <<<<RequestOf[2], MCHandler(RequestOf[2])>>>> ELSE <<>>

Setup(c, s, n, k, f) == [client |-> c, server |-> s, requests |-> n, calls |-> k, faults |-> f]
MCSetups == {Setup(0, 0, {1, 2}, 1, 1), Setup(0, 0, {1}, 1, 2), Setup(0, 0, {1, 2, 4}, 1, 0),
             Setup(0, 0, {2, 3}, 2, 0), Setup(3, 0, {1}, 1, 1), Setup(0, 3, {1}, 1, 1)}
=============================================================================
