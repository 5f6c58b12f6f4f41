------------------------------- MODULE MCServices -------------------------------
(***************************************************************************)
(* The server's life cycle, the RPC client and the WebSocket gateway for   *)
(* TLC, side by side: what a behaviour is about is chosen at its start and *)
(* the others stay idle, so the state spaces add up instead of             *)
(* multiplying.                                                            *)
(***************************************************************************)
EXTENDS ServerLifecycle, RpcClient

Services == {"server", "rpc", "websocket"}

VARIABLE service    \* which of them

--------------------------------------------------------------------------------
(* The WebSocket gateway. *)

CONSTANT Client

VARIABLES state, own, clients, ready, isAlive, queue, pong, silent, left, got, since, events

websocketVars ==
  <<state, own, clients, ready, isAlive, queue, pong, silent, left, got, since, events>>

Websocket == INSTANCE WebsocketGateway WITH
  MaxEvents <- 1, QueueLimit <- 9

--------------------------------------------------------------------------------
serviceVars == <<service, vars, rpcVars, websocketVars>>

NoServer == mode = "off" /\ ~address /\ zmq = "off"

ServicesInit ==
  /\ service \in Services
  /\ Init
  /\ service # "server" => NoServer
  /\ RpcInit
  /\ service # "rpc" => useCookie /\ client = 0
  /\ Websocket!Init
  /\ service # "websocket" => own

ServerRuns == service = "server" /\ Next /\ UNCHANGED <<service, rpcVars, websocketVars>>
RpcRuns == service = "rpc" /\ RpcNext /\ UNCHANGED <<service, vars, websocketVars>>
WebsocketRuns == service = "websocket" /\ Websocket!Next /\ UNCHANGED <<service, vars, rpcVars>>

ServicesNext == ServerRuns \/ RpcRuns \/ WebsocketRuns

\* Each service has the fairness that its own module states.
ServicesSpec ==
  /\ ServicesInit /\ [][ServicesNext]_serviceVars
  /\ WF_vars(service = "server" /\ HttpBinds)
  /\ WF_vars(service = "server" /\ GatewayBinds)
  /\ WF_vars(service = "server" /\ IndexerOpens)
  /\ WF_vars(service = "server" /\ RequestEnds)
  /\ WF_vars(service = "server" /\ Shutdown)
  /\ WF_vars(service = "server" /\ Handler)
  /\ \A c \in Call : WF_rpcVars(service = "rpc" /\ Progress(c))
  /\ WF_websocketVars(service = "websocket" /\ Websocket!Heartbeat)
  /\ WF_websocketVars(service = "websocket" /\ Websocket!WssClosed)
  /\ WF_websocketVars(service = "websocket" /\ Websocket!OwnServerClosed)
  /\ \A c \in Client :
       /\ WF_websocketVars(service = "websocket" /\ Websocket!PeerReads(c))
       /\ WF_websocketVars(service = "websocket" /\ Websocket!PongArrives(c))
       /\ WF_websocketVars(service = "websocket" /\ Websocket!SocketClosed(c))

--------------------------------------------------------------------------------
(* The properties of the gateway, stated in its module. *)

\* Silent peers leave and stops end (WebsocketGateway).
SilentClientLeaves == Websocket!SilentClientLeaves
================================================================================
