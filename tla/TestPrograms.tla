----------------------------- MODULE TestPrograms -----------------------------
(***************************************************************************)
(* The integration tests (src/src/integration_tests/*/main.cc) as scripts: *)
(* what each awaits, one step after the other, and what it does with a     *)
(* failure.  An exception that a step does not handle skips the rest, the  *)
(* stop() of the client included, and the program exits with 1.            *)
(*                                                                         *)
(* Server and network are external: any step may fail.  Calls are what     *)
(* RpcCall promises.                                                       *)
(***************************************************************************)
EXTENDS Naturals, Sequences

VARIABLES
  script,  \* the program
  at,      \* the step it awaits
  client,  \* its client: a "live" one has a connection and a fiber that reads
  missed,  \* what the test says it expects did not happen
  exit     \* "running", or the exit code

testVars == <<script, at, client, missed, exit>>

-----------------------------------------------------------------------------
(* The programs.                                                           *)

SendTimeout == <<"listen", "connect", "call_must_fail", "stop">>
ReconnectWithTimeout ==
  <<"listen", "connect", "call_or_reconnect", "call_or_reconnect", "call_or_reconnect", "stop">>
Backpressure == <<"listen", "dial", "timed_call", "timed_call", "stop">>
RecvTimeout == <<"listen", "send_header">>
Hystrix == <<"dial", "check_backoff", "stop">>
MultipleRemoteAddrs ==
  <<"listen", "interfaces", "connect", "call", "check", "stop",
    "connect", "call", "check", "stop">>
WriteHistogram == <<"write">>

Scripts ==
  {SendTimeout, ReconnectWithTimeout, Backpressure, RecvTimeout, Hystrix,
   MultipleRemoteAddrs, WriteHistogram}

\* The program starts.
Started(p) ==
  /\ script' = p /\ at' = 1 /\ client' = "none" /\ missed' = FALSE /\ exit' = "running"

TestInit ==
  /\ script = <<>> /\ at = 1 /\ client = "none" /\ missed = FALSE /\ exit = "none"

-----------------------------------------------------------------------------
(* The steps.                                                              *)

Awaits(op) == exit = "running" /\ at <= Len(script) /\ script[at] = op

Proceeds == at' = at + 1 /\ exit' = exit
Throws == at' = at /\ exit' = "1"
Crashes == at' = at /\ exit' = "crash"

\* The servers start; when listen() throws, the hook at exit stops a server that
\* has no listener_.
ListenStep ==
  /\ Awaits("listen")
  /\ Proceeds \/ Throws \/ Crashes
  /\ UNCHANGED <<script, client, missed>>

\* A raw connection sends a header, "expecting timeout", and sleeps; the header has
\* no meta, so the server refuses it before there is a timeout, and nobody looks.
SendHeader ==
  /\ Awaits("send_header")
  /\ \/ missed' = TRUE /\ Proceeds
     \/ missed' = missed /\ Throws
  /\ UNCHANGED <<script, client>>

\* The writing of a file; what app.run() throws is caught, and main() returns 0.
WriteStep ==
  /\ Awaits("write")
  /\ \/ missed' = missed /\ (Proceeds \/ Throws)
     \/ missed' = TRUE /\ at' = at /\ exit' = "0"
  /\ UNCHANGED <<script, client>>

\* client_dispatcher: with fewer than two interfaces next_valid_interface follows
\* the null pointer it is about to return.
Interfaces ==
  /\ Awaits("interfaces")
  /\ Proceeds \/ Throws \/ Crashes
  /\ UNCHANGED <<script, client, missed>>

\* rpc_client::connect().
ConnectStep ==
  /\ Awaits("connect")
  /\ \/ client' = "live" /\ Proceeds
     \/ client' = "dead" /\ Throws
  /\ UNCHANGED <<script, missed>>

\* reconnect_client::connect() resolves whether it connected or not.
DialStep ==
  /\ Awaits("dial")
  /\ client' \in {"live", "dead"}
  /\ Proceeds
  /\ UNCHANGED <<script, missed>>

\* A call whose failure is the test's.
CallStep ==
  /\ Awaits("call")
  /\ \/ client' = client /\ Proceeds
     \/ client' \in {client, "dead"} /\ Throws
  /\ UNCHANGED <<script, missed>>

\* "SHOULD HAVE TIMED OUT" is thrown into the handler that expects the timeout.
CallMustFail ==
  /\ Awaits("call_must_fail")
  /\ \/ client' \in {client, "dead"} /\ missed' = missed
     \/ client' = client /\ missed' = TRUE
  /\ Proceeds
  /\ UNCHANGED script

\* A failed call, and one that reached the server first, ends in reconnect().
CallOrReconnect ==
  /\ Awaits("call_or_reconnect")
  /\ \/ client' = client /\ missed' = missed /\ Proceeds
     \/ /\ missed' \in {missed, TRUE}
        /\ \/ client' = "live" /\ Proceeds
           \/ client' = "dead" /\ Throws
  /\ UNCHANGED script

\* The result of the call is dropped, though the first one should succeed and the
\* second one time out; one that was too quick is an error, and on an invalid
\* connection it fails at once.
TimedCall ==
  /\ Awaits("timed_call")
  /\ \/ client = "live" /\ client' \in {"live", "dead"} /\ missed' \in {missed, TRUE} /\ Proceeds
     \/ client' \in {client, "dead"} /\ missed' = TRUE /\ Throws
  /\ UNCHANGED script

\* A condition of the test: LOG_THROW_IF that nothing catches.
Check ==
  /\ Awaits("check")
  /\ \/ missed' = missed /\ Proceeds
     \/ missed' = TRUE /\ Throws
  /\ UNCHANGED <<script, client>>

\* The backoff is one second after one failed attempt, none after a good one.
CheckBackoff ==
  /\ Awaits("check_backoff")
  /\ \/ client = "dead" /\ missed' = missed /\ Proceeds
     \/ client = "live" /\ missed' = TRUE /\ Throws
  /\ UNCHANGED <<script, client>>

\* stop() of the client: its fibers have ended.
StopStep ==
  /\ Awaits("stop")
  /\ client' = "stopped"
  /\ Proceeds
  /\ UNCHANGED <<script, missed>>

\* The end of the script; the server is stopped by the hook at exit.
Return ==
  /\ exit = "running" /\ at > Len(script)
  /\ exit' = "0"
  /\ UNCHANGED <<script, at, client, missed>>

TestStep ==
  \/ ListenStep \/ SendHeader \/ WriteStep \/ CheckBackoff
  \/ Interfaces \/ ConnectStep \/ DialStep \/ CallStep \/ CallMustFail
  \/ CallOrReconnect \/ TimedCall \/ Check \/ StopStep \/ Return
=============================================================================
