--------------------------- MODULE MCHttpExchange ---------------------------
(* Two or three requests of one client, and a WebSocket client with two scripts. *)
EXTENDS HttpExchange

MCBodyLen == <<1, 0, 0>>
Http(s, b, a, n) == [traffic |-> "http", server |-> s, ssl |-> b, alpn |-> a, requests |-> n]
MCSetups ==
  {Http(s, TRUE, a, 2) : s \in {"own", "foreign"}, a \in {"", "http/1.1"}}
  \cup {Http("own", FALSE, "", 2), Http("own", TRUE, "h2", 3), Http("foreign", TRUE, "h2", 3)}
  \cup {[Http("own", FALSE, "", 0) EXCEPT !.traffic = "websocket"]}
MCScripts ==
  { <<W!Frame(FALSE, "text", <<0, 1>>, <<1>>), W!Frame(TRUE, "ping", <<1, 1>>, <<>>),
      W!Frame(TRUE, "continuation", <<1, 0>>, <<0, 1, 1>>), W!Frame(TRUE, "close", <<0, 0>>, <<>>)>>,
    <<W!Frame(TRUE, "text", <<1, 0>>, <<1, 0, 0, 1>>), W!Frame(TRUE, "pong", <<1, 1>>, <<>>),
      W!Frame(TRUE, "text", <<0, 1>>, <<1>>)>> }
=============================================================================
