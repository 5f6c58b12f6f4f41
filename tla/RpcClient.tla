------------------------------- MODULE RpcClient -------------------------------
(***************************************************************************)
(* The JSON-RPC client (src/rpc.js) over a Bitcoin Core that restarts, and *)
(* the HTTP status its failures become (src/errors.js, the error handler   *)
(* of src/server.js).  With cookie authentication every start of the node  *)
(* writes a new secret to the cookie file; a call that is answered 401     *)
(* reads the file, replaces the client that all calls share, and is made   *)
(* again.  Calls overlap, so the file may be read and the client replaced  *)
(* by several of them in any order.                                        *)
(*                                                                         *)
(* Definitions ending in _Fault are plausible mistakes in the definition   *)
(* that follows them.                                                      *)
(***************************************************************************)
EXTENDS Integers, FiniteSets

CONSTANTS
  Call,         \* RPC calls that may be in progress together
  RightPath,    \* whether the configured cookie file is the node's
  MaxRestarts,  \* bound: how often the node restarts
  MaxRetries    \* bound: where the count of a call's retries saturates

ASSUME CallsAssumption == IsFiniteSet(Call)
ASSUME PathAssumption == RightPath \in BOOLEAN
ASSUME CountsAssumption == MaxRestarts \in Nat /\ MaxRetries \in Nat

\* The content of the cookie file when it is not a secret of the node.
Missing == -1
Empty == -2
Foreign == -3

VARIABLES
  useCookie,  \* config.rpc.cookiePath is set
  node,       \* "up", "down" or "starting"
  secret,     \* what the running node accepts
  file,       \* the content of the cookie file
  restarts,   \* how often the node was stopped
  client,     \* the credentials in the module's client
  phase,      \* per call: "idle", "sent", "refreshing", "read", "retry", "done"
  cred,       \* per call, the credentials it was sent with, or has read
  retries,    \* per call, how often it was made again
  status      \* per call, the HTTP status its outcome becomes

nodeVars == <<useCookie, node, secret, file, restarts>>
rpcVars == <<nodeVars, client, phase, cred, retries, status>>

\* client = await buildClient() when the module is loaded: without credentials it
\* does not load. A static password is right or wrong for good.
RpcInit ==
  /\ useCookie \in BOOLEAN
  /\ node = "up" /\ secret = 0 /\ restarts = 0
  /\ file = IF RightPath THEN 0 ELSE Foreign
  /\ client \in IF useCookie THEN {file} ELSE {0, Foreign}
  /\ phase = [c \in Call |-> "idle"]
  /\ cred = [c \in Call |-> 0]
  /\ retries = [c \in Call |-> 0]
  /\ status = [c \in Call |-> 0]

--------------------------------------------------------------------------------
(* The node. *)

\* A node that stops removes its cookie; one that crashes leaves it.
NodeStops ==
  /\ node = "up" /\ restarts < MaxRestarts
  /\ node' = "down" /\ restarts' = restarts + 1
  /\ file' \in IF RightPath THEN {file, Missing} ELSE {file}
  /\ UNCHANGED <<useCookie, secret, client, phase, cred, retries, status>>

NodeStarts ==
  /\ node = "down" /\ node' = "starting"
  /\ file' \in IF RightPath THEN {file, Empty} ELSE {file}
  /\ UNCHANGED <<useCookie, secret, restarts, client, phase, cred, retries, status>>

NodeIsUp ==
  /\ node = "starting" /\ node' = "up"
  /\ secret' = IF useCookie THEN secret + 1 ELSE secret
  /\ file' = IF RightPath THEN secret' ELSE file
  /\ UNCHANGED <<useCookie, restarts, client, phase, cred, retries, status>>

--------------------------------------------------------------------------------
(* errors.js, mapRpcJsonError, mapAxiosError and the error handler.            *)

\* The status of each error class; anything else is an AppError of none.
StatusOf(class) ==
  CASE class = "BadRequestError"         -> 400
    [] class = "NotFoundError"           -> 404
    [] class = "ServiceUnavailableError" -> 503
    [] class = "Error"                   -> 500

\* The class of a JSON-RPC error code.
mapRpcJsonError(code) ==
  CASE code = -5             -> "NotFoundError"
    [] code \in {-8, -32602} -> "BadRequestError"
    [] OTHER                 -> "ServiceUnavailableError"

\* A call that fails without a JSON-RPC answer: refused, timed out, or with
\* another HTTP error.
mapAxiosError == "ServiceUnavailableError"

RpcCodes == {-5, -8, -32602, -1}

Ends(c, s) ==
  /\ phase' = [phase EXCEPT ![c] = "done"]
  /\ status' = [status EXCEPT ![c] = s]

--------------------------------------------------------------------------------
(* rpcCall. *)

Post(c) ==
  /\ phase[c] = "idle"
  /\ phase' = [phase EXCEPT ![c] = "sent"]
  /\ cred' = [cred EXCEPT ![c] = client]
  /\ UNCHANGED <<nodeVars, client, retries, status>>

\* The node accepts the credentials and answers with a result or an error.
Answered(c) ==
  /\ phase[c] = "sent" /\ node = "up" /\ cred[c] = secret
  /\ \/ Ends(c, 200)
     \/ \E code \in RpcCodes : Ends(c, StatusOf(mapRpcJsonError(code)))
  /\ UNCHANGED <<nodeVars, client, cred, retries>>

\* The node answers 401: with a cookie the client is refreshed, else it is an error.
Rejected(c) ==
  /\ phase[c] = "sent" /\ node = "up" /\ cred[c] # secret
  /\ IF useCookie
       THEN phase' = [phase EXCEPT ![c] = "refreshing"] /\ UNCHANGED status
       ELSE Ends(c, StatusOf(mapAxiosError))
  /\ UNCHANGED <<nodeVars, client, cred, retries>>

Unreachable(c) ==
  /\ phase[c] = "sent"
  /\ Ends(c, StatusOf(mapAxiosError))
  /\ UNCHANGED <<nodeVars, client, cred, retries>>

\* readCookie: an empty file is unavailable, and an error of readFile leaves
\* rpcCall as it is, for it is thrown inside the catch block.
ReadFailure == CASE file = Missing -> "Error" [] file = Empty -> "ServiceUnavailableError"

ReadCookie(c) ==
  /\ phase[c] = "refreshing"
  /\ IF file \in {Missing, Empty}
       THEN Ends(c, StatusOf(ReadFailure)) /\ UNCHANGED cred
       ELSE /\ phase' = [phase EXCEPT ![c] = "read"]
            /\ cred' = [cred EXCEPT ![c] = file]
            /\ UNCHANGED status
  /\ UNCHANGED <<nodeVars, client, retries>>

\* refreshClient: the client of every later call is replaced.
NewClient_KeptFault(c) == client' = client
NewClient(c) == client' = cred[c]

Refreshed(c) ==
  /\ phase[c] = "read" /\ phase' = [phase EXCEPT ![c] = "retry"]
  /\ NewClient(c)
  /\ UNCHANGED <<nodeVars, cred, retries, status>>

\* The call is made again, with the client there is by then.
Retry(c) ==
  /\ phase[c] = "retry" /\ phase' = [phase EXCEPT ![c] = "sent"]
  /\ cred' = [cred EXCEPT ![c] = client]
  /\ retries' = [retries EXCEPT ![c] = IF @ < MaxRetries THEN @ + 1 ELSE @]
  /\ UNCHANGED <<nodeVars, client, status>>

Return(c) ==
  /\ phase[c] = "done" /\ phase' = [phase EXCEPT ![c] = "idle"]
  /\ cred' = [cred EXCEPT ![c] = 0]
  /\ retries' = [retries EXCEPT ![c] = 0]
  /\ status' = [status EXCEPT ![c] = 0]
  /\ UNCHANGED <<nodeVars, client>>

Progress(c) ==
  Answered(c) \/ Rejected(c) \/ Unreachable(c) \/ ReadCookie(c) \/ Refreshed(c) \/ Retry(c)

RpcNext ==
  \/ NodeStops \/ NodeStarts \/ NodeIsUp
  \/ \E c \in Call : Post(c) \/ Progress(c) \/ Return(c)

RpcSpec == RpcInit /\ [][RpcNext]_rpcVars

\* A sent call is answered or times out, and what is ready is served.
RpcFairness == \A c \in Call : WF_rpcVars(Progress(c))

RpcFairSpec == RpcSpec /\ RpcFairness

--------------------------------------------------------------------------------
(* Properties. *)

RpcTypeOK ==
  /\ useCookie \in BOOLEAN /\ node \in {"up", "down", "starting"}
  /\ secret \in 0..MaxRestarts /\ restarts \in 0..MaxRestarts
  /\ file \in 0..MaxRestarts \cup {Missing, Empty, Foreign}
  /\ client \in 0..MaxRestarts \cup {Foreign}
  /\ phase \in [Call -> {"idle", "sent", "refreshing", "read", "retry", "done"}]
  /\ cred \in [Call -> 0..MaxRestarts \cup {Foreign}]
  /\ retries \in [Call -> 0..MaxRetries]
  /\ status \in [Call -> {0, 200, 400, 404, 500, 503}]

\* What the restarts so far can cost one call: a retry for each of them and, from the
\* second on, one for each other call whose older read may replace the client.
RetryLimit == IF secret = 0 THEN 0 ELSE (secret - 1) * Cardinality(Call) + 1

\* With the node's own cookie file a call is retried at most once for each restart and,
\* from the second restart on, once more for each other call whose older read may replace
\* the client between its own refresh and its retry (rpc.js:62-64, 147-154).
RetriesBounded == RightPath => \A c \in Call : retries[c] <= RetryLimit

\* The calls and the client that they share stay in step with the node
\* (rpc.js:62-66, 130-160).
RpcInvariant ==
  /\ RpcTypeOK
  /\ RetriesBounded

\* The refreshes heal: with the node's own cookie file rejections stop once it has
\* stopped restarting, although a late refresh may install an older secret, and every
\* call ends (rpc.js:62-66, 147-154).
RejectionsStop ==
  \A c \in Call : (phase[c] = "sent" ~> phase[c] = "done") /\ <>[](phase[c] # "refreshing")

\* Claimed by docs/PRD.md:177, "graceful 404/400/503": no failure of the node is
\* shown as an internal error.
FailuresAreMapped == \A c \in Call : status[c] # 500

\* Claimed by docs/PRD.md:177, "no retry storms": a call is not repeated for ever.
NoRetryStorm == \A c \in Call : retries[c] < MaxRetries
================================================================================
