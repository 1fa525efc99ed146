---------------------------- MODULE FrpcHandlers ----------------------------
(***************************************************************************)
(* The other copies of the gRPC callbacks.  grpc::server repeats them in   *)
(* handle_tls_connection; frpc::server and frpc::channel (src/frpc/*.cpp)  *)
(* repeat both, and differ in the payload only, which no layer below the   *)
(* handlers looks into.  Each copy has operators of its own, since a       *)
(* change to one copy does not reach the others.                           *)
(***************************************************************************)
EXTENDS GrpcHandlers

\* grpc::server::handle_tls_connection.
TlsRequest(m, b) == UnaryResponse(m, dispatch(m, b))
TlsData(s, sid, data, end) == ServerData(s, sid, data, end)
TlsStart(s, sid, m, end) == OnStart(s, sid, m, end)

\* frpc::server: dispatch, handle_connection and handle_tls_connection.
frpc_dispatch(m, b) == dispatch(m, b)
FrpcRequest(m, b) == UnaryResponse(m, frpc_dispatch(m, b))
FrpcData(s, sid, data, end) == ServerData(s, sid, data, end)
FrpcStart(s, sid, m, end) == OnStart(s, sid, m, end)
FrpcTlsRequest(m, b) == UnaryResponse(m, frpc_dispatch(m, b))
FrpcTlsData(s, sid, data, end) == ServerData(s, sid, data, end)
FrpcTlsStart(s, sid, m, end) == OnStart(s, sid, m, end)

\* frpc::channel.
make_frpc_request(r, kind, h) == Request(r, kind, h)
FrpcChannelData(s, sid, data, end) == ChannelData(s, sid, data, end)
=============================================================================
