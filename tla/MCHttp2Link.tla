----------------------------- MODULE MCHttp2Link -----------------------------
(* Two calls on one connection, split into frames of two units. *)
EXTENDS Http2Link

MCSettings == {[window |-> 4, frame |-> 2, push |-> TRUE]}
MCMethods ==
  << {<<"unary", "ok">>, <<"unary", "unregistered">>, <<"unary", "refused">>,
      <<"server_stream", "ok">>, <<"client_stream", "ok">>,
      <<"bidi_stream", "suspends">>, <<"get", "ok">>, <<"page", "ok">>},
     {<<"unary", "ok">>, <<"page", "ok">>} >>
=============================================================================
