------------------------------ MODULE Routing -------------------------------
(***************************************************************************)
(* The life of a schema: it is extended and generated again, clients of    *)
(* every age call a server built from any of its versions, and             *)
(* rpc_handle_router finds the handle.                                     *)
(***************************************************************************)
EXTENDS Smfc, FiniteSetsExt

CONSTANTS
  NoHandle,    \* nullptr
  MaxServices  \* bound: services registered with one server

VARIABLES
  linked,    \* the service classes the server is built with
  server,    \* services_ of its rpc_handle_router
  clients    \* methods of client classes in use anywhere, with the ids they send

vars == <<genVars, linked, server, clients>>

(* No two methods have the same request id; with crc32 this is a matter of   *)
(* probability.                                                            *)
ASSUME IdsDistinct ==
  \A n1, n2 \in Name, m1, m2 \in Sig :
    Xor(Crc[n1], Crc[m1]) = Xor(Crc[n2], Crc[m2]) => n1 = n2 /\ m1 = m2

(* No handle is null.                                                      *)
ASSUME NoHandleAssumption == NoHandle \notin [service : Name, method : Sig]

\* The generated method_for_request_id.
MethodForRequestId(t, id) ==
  LET hits == {i \in DOMAIN t.cases : t.cases[i] = id}
  IN IF hits = {} THEN NoHandle
     ELSE [service |-> t.service, method |-> t.handles[Min(hits)]]

\* rpc_handle_router::get_handle_for_request: the first service that knows the id.
GetHandleForRequest(id) ==
  LET hits == {j \in DOMAIN server : MethodForRequestId(server[j], id) # NoHandle}
  IN IF hits = {} THEN NoHandle ELSE MethodForRequestId(server[Min(hits)], id)

RInit ==
  /\ Init
  /\ linked = <<>> /\ server = <<>> /\ clients = {}

\* A server is built and started; two equal cases in a switch do not compile.
BuildServer ==
  /\ phase = "idle" /\ files["cpp"] # NoCode
  /\ \A k \in DOMAIN files["cpp"].services : IsInjective(files["cpp"].services[k].cases)
  /\ linked' = files["cpp"].services
  /\ server' = <<>>
  /\ UNCHANGED <<genVars, clients>>

\* rpc_handle_router::register_service
RegisterService(k) ==
  /\ Len(server) < MaxServices
  /\ server' = Append(server, linked[k])
  /\ UNCHANGED <<genVars, linked, clients>>

\* A client is built, and stays in use.
BuildClient(l) ==
  /\ phase = "idle" /\ files[l] # NoCode
  /\ clients' = clients \cup files[l].clients
  /\ UNCHANGED <<genVars, linked, server>>

Next ==
  \/ Smfc /\ UNCHANGED <<linked, server, clients>>
  \/ BuildServer
  \/ \E k \in DOMAIN linked : RegisterService(k)
  \/ \E l \in Language : BuildClient(l)

Spec == RInit /\ [][Next]_vars

-----------------------------------------------------------------------------
(* Properties.                                                             *)

\* "we should keep the same id=same_handle even through multiple code generation
\* phases, i.e.: when you extend the schema" (docs/rpc.md): a call of a client of
\* any age and language reaches the handle of its own method, or none if no
\* registered service has the method.
SameHandle ==
  \A c \in clients :
    GetHandleForRequest(c.id) =
      IF \E j \in DOMAIN server : server[j].service = c.service
                                  /\ c.method \in ToSet(server[j].handles)
      THEN [service |-> c.service, method |-> c.method] ELSE NoHandle

\* When smfc exits with 0, every language it was asked for and knows has its file,
\* generated from the schema as it is.
SuccessMeansGenerated ==
  status = "ok" => \A l \in asked : files[l] = Code(l, schema)
=============================================================================
