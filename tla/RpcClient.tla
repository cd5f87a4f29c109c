------------------------------ MODULE RpcClient ------------------------------
(***************************************************************************)
(* smf::rpc_client (src/src/core/rpc_client.cc, rpc_client.h): one client, *)
(* the calls its users make, the background write fibers and the reader    *)
(* fiber of every connection it opens, and connect / reconnect / stop.     *)
(*                                                                         *)
(* The reactor runs one continuation at a time, so an action is the code   *)
(* between two suspension points.  Connections are numbered in the order   *)
(* they are opened; conn = 0 is the null conn_.  The server and the TCP    *)
(* stream are external: a request that was written may be answered at any  *)
(* time, in any order, and reading may fail at any time.                   *)
(***************************************************************************)
EXTENDS Naturals, Sequences, FiniteSets, FiniteSetsExt

CONSTANTS
  Call,          \* the send() calls the users make, each made once
  NoCall,        \* an empty slot of rpc_slots_
  Size,          \* Size[c]: bytes of the envelope of call c
  MaxMem,        \* memory_avail_for_client
  SessionCount,  \* values of session_idx_ (2^16: it is a uint16_t)
  MaxConn,       \* bound: connections opened in one behaviour
  Debug,         \* TRUE without NDEBUG: DLOG_THROW_IF throws
  Window,        \* TRUE: callers never reuse a session number still in flight
  BareConnect    \* TRUE: callers may connect() again instead of reconnect()

ASSUME ClientAssumption ==
  /\ NoCall \notin Call
  /\ IsFiniteSet(Call)
  /\ Size \in [Call -> Nat \ {0}]
  /\ MaxMem \in Nat
  /\ SessionCount \in Nat \ {0}
  /\ MaxConn \in Nat
  /\ Debug \in BOOLEAN
  /\ Window \in BOOLEAN
  /\ BareConnect \in BOOLEAN

VARIABLES
  conn,         \* conn_
  nconn,        \* connections opened so far
  disabled,     \* connections on which fail_outstanding_futures ran disable() and shutdown_*
  errored,      \* connections with error_ set (or istream at eof)
  slots,        \* rpc_slots_: session -> the call whose work_item is there
  session_idx,  \* session_idx_
  read_counter, \* read_counter_
  gateClosed,   \* dispatch_gate_ is closed
  mgmt,         \* the pending reconnect() or stop()
  connecting,   \* the seastar::async of connect() is running
  pc,           \* where send(c) is
  sess,         \* the session raw_send gave call c
  prom,         \* work_item::pr of call c
  got,          \* the request whose reply was set in pr
  writer,       \* where dispatch_write of call c is
  wconn,        \* the connection whose ostream it writes to
  memQ,         \* waiters of limits->resources_available, in order
  avail,        \* its units
  fiber,        \* the do_reads fiber started by the g-th connection
  phase,        \* its process_one_request, which outlives a timeout
  rconn,        \* the connection that process_one_request reads
  reply,        \* the reply whose header it has parsed
  wire,         \* requests that reached the server
  heard         \* requests whose reply the client has begun to read

callVars == <<pc, sess, prom, got>>
connVars == <<conn, nconn, disabled, errored>>
slotVars == <<slots, session_idx, read_counter>>
mgmtVars == <<gateClosed, mgmt, connecting>>
writeVars == <<writer, wconn, memQ, avail>>
readVars == <<fiber, phase, rconn, reply>>
netVars == <<wire, heard>>
vars == <<callVars, connVars, slotVars, mgmtVars, writeVars, readVars, netVars>>

Conn == 1..MaxConn
Session == 0..(SessionCount - 1)
NoSession == SessionCount

InSend(c) == pc[c] \in {"filter", "wait", "infilter"}
InWrite(c) == writer[c] \in {"mem", "ser", "sending"}
InReads(g) == fiber[g] \in {"top", "busy"}

\* The fibers that entered dispatch_gate_: send, dispatch_write, do_reads.
GateEmpty ==
  /\ \A c \in Call : ~InSend(c) /\ ~InWrite(c)
  /\ \A g \in Conn : ~InReads(g)

Valid(g) == g # 0 /\ g \notin disabled \cup errored
IsConnValid == Valid(conn)

Init ==
  /\ conn = 0 /\ nconn = 0 /\ disabled = {} /\ errored = {}
  /\ slots = [s \in Session |-> NoCall]
  /\ session_idx = 0 /\ read_counter = 0
  /\ gateClosed = FALSE /\ mgmt = "idle" /\ connecting = FALSE
  /\ pc = [c \in Call |-> "init"]
  /\ sess = [c \in Call |-> NoSession]
  /\ prom = [c \in Call |-> "none"]
  /\ got = [c \in Call |-> NoCall]
  /\ writer = [c \in Call |-> "none"]
  /\ wconn = [c \in Call |-> 0]
  /\ memQ = <<>> /\ avail = MaxMem
  /\ fiber = [g \in Conn |-> "none"]
  /\ phase = [g \in Conn |-> "idle"]
  /\ rconn = [g \in Conn |-> 0]
  /\ reply = [g \in Conn |-> NoCall]
  /\ wire = {} /\ heard = {}

-----------------------------------------------------------------------------
(* fail_outstanding_futures.  errored' is what the caller made of the      *)
(* errors before the call: a connection already in error is not shut down. *)
HasSlot(c) == \E s \in Session : slots[s] = c

\* Mutants: the slots are not erased; read_counter_ is reset as well.
FailKeepsSlots ==
  /\ disabled' = IF IsConnValid THEN disabled \cup {conn} ELSE disabled
  /\ prom' = [c \in Call |-> IF HasSlot(c) THEN "error" ELSE prom[c]]
  /\ UNCHANGED <<slots, conn, nconn, session_idx, read_counter, sess, got>>

FailResetsCounter ==
  /\ disabled' = IF conn # 0 /\ conn \notin disabled \cup errored'
                 THEN disabled \cup {conn} ELSE disabled
  /\ prom' = [c \in Call |-> IF HasSlot(c) THEN "error" ELSE prom[c]]
  /\ slots' = [s \in Session |-> NoCall]
  /\ read_counter' = 0
  /\ UNCHANGED <<conn, nconn, session_idx, sess, got>>

FailOutstandingFutures ==
  /\ disabled' = IF conn # 0 /\ conn \notin disabled \cup errored'
                 THEN disabled \cup {conn} ELSE disabled
  /\ prom' = [c \in Call |-> IF HasSlot(c) THEN "error" ELSE prom[c]]
  /\ slots' = [s \in Session |-> NoCall]
  /\ UNCHANGED <<conn, nconn, session_idx, read_counter, sess, got>>

-----------------------------------------------------------------------------
(* send and raw_send.                                                      *)

SendRejected(c) ==
  /\ pc[c] = "init"
  /\ gateClosed \/ ~IsConnValid
  /\ pc' = [pc EXCEPT ![c] = "failed"]
  /\ UNCHANGED <<sess, prom, got, connVars, slotVars, mgmtVars, writeVars,
                 readVars, netVars>>

NextSession == (session_idx + 1) % SessionCount

\* A reader reads, or may come to read, connection g.
Readable(g) == g = conn \/ \E h \in Conn : phase[h] # "idle" /\ rconn[h] = g

\* Something that may still reach rpc_slots_ carries the session of call c.
InFlight(c) ==
  \/ pc[c] = "filter"
  \/ InWrite(c)
  \/ writer[c] \in {"sent", "aborted"} /\ c \notin heard /\ Readable(wconn[c])
  \/ \E g \in Conn : reply[g] = c

SessionIdle(s) ==
  slots[s] = NoCall /\ \A c \in Call : sess[c] = s => ~InFlight(c)

\* Mutants: the gate is not entered; the slot is assigned, not inserted.
RawSendUngated(c) ==
  /\ pc[c] = "init" /\ IsConnValid
  /\ Window => SessionIdle(NextSession)
  /\ session_idx' = NextSession
  /\ read_counter' = read_counter + 1
  /\ sess' = [sess EXCEPT ![c] = NextSession]
  /\ slots' = [slots EXCEPT ![NextSession] = c]
  /\ prom' = [prom EXCEPT ![c] = "pending"]
  /\ pc' = [pc EXCEPT ![c] = "filter"]
  /\ UNCHANGED <<got, connVars, mgmtVars, writeVars, readVars, netVars>>

RawSendOverwrites(c) == ~gateClosed /\ RawSendUngated(c)

\* insert() does not overwrite: on a collision the new work_item is dropped
\* (its promise breaks) and the slot stays with the older call.
RawSend(c) ==
  /\ pc[c] = "init" /\ ~gateClosed /\ IsConnValid
  /\ Window => SessionIdle(NextSession)
  /\ session_idx' = NextSession
  /\ read_counter' = read_counter + 1
  /\ sess' = [sess EXCEPT ![c] = NextSession]
  /\ \/ /\ slots[NextSession] = NoCall
        /\ slots' = [slots EXCEPT ![NextSession] = c]
        /\ prom' = [prom EXCEPT ![c] = "pending"]
        /\ pc' = [pc EXCEPT ![c] = "filter"]
     \/ /\ slots[NextSession] # NoCall /\ ~Debug
        /\ prom' = [prom EXCEPT ![c] = "error"]
        /\ pc' = [pc EXCEPT ![c] = "filter"]
        /\ UNCHANGED slots
     \/ /\ slots[NextSession] # NoCall /\ Debug
        /\ pc' = [pc EXCEPT ![c] = "failed"]
        /\ UNCHANGED <<slots, prom>>
  /\ UNCHANGED <<got, connVars, mgmtVars, writeVars, readVars, netVars>>

\* The outgoing filters are done: the write is dispatched in the background,
\* unless the gate was closed meanwhile (with_gate throws).
OutFilterDone(c) ==
  /\ pc[c] = "filter"
  /\ \/ /\ gateClosed
        /\ pc' = [pc EXCEPT ![c] = "failed"]
        /\ UNCHANGED writeVars
     \/ /\ ~gateClosed
        /\ pc' = [pc EXCEPT ![c] = "wait"]
        /\ writer' = [writer EXCEPT ![c] = "mem"]
        /\ memQ' = Append(memQ, c)
        /\ UNCHANGED <<wconn, avail>>
  /\ UNCHANGED <<sess, prom, got, connVars, slotVars, mgmtVars, readVars, netVars>>

\* A throwing outgoing filter fails the call; its slot stays allocated.
OutFilterThrow(c) ==
  /\ pc[c] = "filter"
  /\ pc' = [pc EXCEPT ![c] = "failed"]
  /\ UNCHANGED <<sess, prom, got, connVars, slotVars, mgmtVars, writeVars,
                 readVars, netVars>>

PromiseFailed(c) ==
  /\ pc[c] = "wait" /\ prom[c] = "error"
  /\ pc' = [pc EXCEPT ![c] = "failed"]
  /\ UNCHANGED <<sess, prom, got, connVars, slotVars, mgmtVars, writeVars,
                 readVars, netVars>>

PromiseReady(c) ==
  /\ pc[c] = "wait" /\ prom[c] = "value"
  /\ pc' = [pc EXCEPT ![c] = "infilter"]
  /\ UNCHANGED <<sess, prom, got, connVars, slotVars, mgmtVars, writeVars,
                 readVars, netVars>>

\* The incoming filters return the reply, or throw, or leave it compressed.
InFilter(c) ==
  /\ pc[c] = "infilter"
  /\ \E r \in {"ok", "failed"} : pc' = [pc EXCEPT ![c] = r]
  /\ UNCHANGED <<sess, prom, got, connVars, slotVars, mgmtVars, writeVars,
                 readVars, netVars>>

-----------------------------------------------------------------------------
(* dispatch_write: FIFO wait for Size[c] units, then for serialize_writes_. *)

\* Mutant: the units are taken whether or not there are enough.
MemAcquireUnchecked(c) ==
  /\ writer[c] = "mem" /\ memQ # <<>> /\ c = Head(memQ)
  /\ memQ' = Tail(memQ)
  /\ avail' = avail - Size[c]
  /\ writer' = [writer EXCEPT ![c] = "ser"]
  /\ UNCHANGED <<wconn, callVars, connVars, slotVars, mgmtVars, readVars, netVars>>

MemAcquire(c) ==
  /\ writer[c] = "mem" /\ memQ # <<>> /\ c = Head(memQ) /\ avail >= Size[c]
  /\ memQ' = Tail(memQ)
  /\ avail' = avail - Size[c]
  /\ writer' = [writer EXCEPT ![c] = "ser"]
  /\ UNCHANGED <<wconn, callVars, connVars, slotVars, mgmtVars, readVars, netVars>>

\* Mutant: no serialize_writes_.
WriteStartUnserialized(c) ==
  /\ writer[c] = "ser"
  /\ writer' = [writer EXCEPT ![c] = "sending"]
  /\ wconn' = [wconn EXCEPT ![c] = conn]
  /\ UNCHANGED <<memQ, avail, callVars, connVars, slotVars, mgmtVars, readVars,
                 netVars>>

WriteStart(c) ==
  /\ writer[c] = "ser"
  /\ \A d \in Call : writer[d] # "sending"
  /\ writer' = [writer EXCEPT ![c] = "sending"]
  /\ wconn' = [wconn EXCEPT ![c] = conn]
  /\ UNCHANGED <<memQ, avail, callVars, connVars, slotVars, mgmtVars, readVars,
                 netVars>>

\* Mutant: a write that throws does not return its units.
WriteReleaseLeaks(c, r) ==
  /\ writer' = [writer EXCEPT ![c] = r]
  /\ avail' = IF r = "sent" THEN avail + Size[c] ELSE avail
  /\ UNCHANGED <<wconn, memQ>>

\* Both semaphores are released; r is how the write ended.
WriteRelease(c, r) ==
  /\ writer' = [writer EXCEPT ![c] = r]
  /\ avail' = avail + Size[c]
  /\ UNCHANGED <<wconn, memQ>>

\* The frame reaches the server: during the write or, flush() being batched,
\* after it; never once the socket is shut down.
WriteReach(c) ==
  /\ writer[c] \in {"sending", "sent"} /\ c \notin wire
  /\ wconn[c] \notin disabled
  /\ wire' = wire \cup {c}
  /\ UNCHANGED <<heard, callVars, connVars, slotVars, mgmtVars, writeVars, readVars>>

\* rpc_envelope::send resolves.
WriteDone(c) ==
  /\ writer[c] = "sending"
  /\ WriteRelease(c, "sent")
  /\ UNCHANGED <<callVars, connVars, slotVars, mgmtVars, readVars, netVars>>

WriteFail(c) ==
  /\ writer[c] = "sending"
  /\ errored' = errored
  /\ FailOutstandingFutures
  /\ WriteRelease(c, "aborted")
  /\ UNCHANGED <<pc, mgmtVars, readVars, netVars>>

-----------------------------------------------------------------------------
(* do_reads and process_one_request.  fiber[g] = "done" with phase[g] not  *)
(* "idle" is a read that outlived its with_timeout.                        *)

\* The stop condition of do_until, and the start of the next iteration.
ReadTop(g) ==
  /\ fiber[g] = "top"
  /\ \/ /\ IsConnValid
        /\ fiber' = [fiber EXCEPT ![g] = "busy"]
        /\ phase' = [phase EXCEPT ![g] = "header"]
        /\ rconn' = [rconn EXCEPT ![g] = conn]
     \/ /\ ~IsConnValid
        /\ fiber' = [fiber EXCEPT ![g] = "done"]
        /\ UNCHANGED <<phase, rconn>>
  /\ UNCHANGED <<reply, callVars, connVars, slotVars, mgmtVars, writeVars, netVars>>

\* parse_header returned a header: that of the reply to request c.
HeaderOk(g, c) ==
  /\ phase[g] = "header" /\ c \in wire \ heard /\ wconn[c] = rconn[g]
  /\ heard' = heard \cup {c}
  /\ phase' = [phase EXCEPT ![g] = "payload"]
  /\ reply' = [reply EXCEPT ![g] = c]
  /\ UNCHANGED <<fiber, rconn, wire, callVars, connVars, slotVars, mgmtVars,
                 writeVars>>

\* process_one_request resolves: a fiber that still waits for it loops.
ReadResolved(g) ==
  /\ phase' = [phase EXCEPT ![g] = "idle"]
  /\ reply' = [reply EXCEPT ![g] = NoCall]
  /\ fiber' = [fiber EXCEPT ![g] = IF @ = "busy" THEN "top" ELSE @]
  /\ UNCHANGED rconn

\* Mutant: the error is recorded and the slots are left.
ReadErrorFailsNone(g) ==
  /\ phase[g] \in {"header", "payload"}
  /\ errored' = errored \cup {rconn[g]}
  /\ ReadResolved(g)
  /\ UNCHANGED <<conn, nconn, disabled, slotVars, callVars, mgmtVars, writeVars,
                 netVars>>

\* set_error on the connection that was read, then fail_outstanding_futures:
\* parse_header or parse_payload returned nullopt (eof, a bad header, a wrong
\* size or checksum), or the session has no slot (PayloadOk is not enabled).
ReadError(g) ==
  /\ phase[g] \in {"header", "payload"}
  /\ errored' = errored \cup {rconn[g]}
  /\ FailOutstandingFutures
  /\ ReadResolved(g)
  /\ UNCHANGED <<pc, mgmtVars, writeVars, netVars>>

\* Mutant: the reply is given to the latest session.
PayloadOkLatest(g) ==
  /\ phase[g] = "payload"
  /\ LET d == slots[session_idx]
     IN  /\ d # NoCall
         /\ prom' = [prom EXCEPT ![d] = "value"]
         /\ got' = [got EXCEPT ![d] = reply[g]]
         /\ slots' = [slots EXCEPT ![session_idx] = NoCall]
  /\ read_counter' = read_counter - 1
  /\ ReadResolved(g)
  /\ UNCHANGED <<session_idx, pc, sess, connVars, mgmtVars, writeVars, netVars>>

\* parse_payload returned the reply, and its session has a slot.
PayloadOk(g) ==
  /\ phase[g] = "payload"
  /\ LET s == sess[reply[g]]  d == slots[s]
     IN  /\ d # NoCall
         /\ prom' = [prom EXCEPT ![d] = "value"]
         /\ got' = [got EXCEPT ![d] = reply[g]]
         /\ slots' = [slots EXCEPT ![s] = NoCall]
  /\ read_counter' = read_counter - 1
  /\ ReadResolved(g)
  /\ UNCHANGED <<session_idx, pc, sess, connVars, mgmtVars, writeVars, netVars>>

\* The stream throws: handle_exception of do_reads, if it still listens.
ReadThrow(g) ==
  /\ phase[g] \in {"header", "payload"}
  /\ phase' = [phase EXCEPT ![g] = "idle"]
  /\ reply' = [reply EXCEPT ![g] = NoCall]
  /\ fiber' = [fiber EXCEPT ![g] = "done"]
  /\ errored' = errored
  /\ \/ fiber[g] = "busy" /\ FailOutstandingFutures
     \/ fiber[g] = "done" /\ UNCHANGED <<conn, nconn, disabled, slotVars, sess,
                                         prom, got>>
  /\ UNCHANGED <<rconn, pc, mgmtVars, writeVars, netVars>>

\* Mutant: the timeout ends do_reads and nothing else.
ReadTimeoutFailsNone(g) ==
  /\ fiber[g] = "busy"
  /\ fiber' = [fiber EXCEPT ![g] = "done"]
  /\ UNCHANGED <<phase, rconn, reply, callVars, connVars, slotVars, mgmtVars,
                 writeVars, netVars>>

\* with_timeout expires: do_reads ends, the read itself goes on.
ReadTimeout(g) ==
  /\ fiber[g] = "busy"
  /\ fiber' = [fiber EXCEPT ![g] = "done"]
  /\ errored' = errored
  /\ FailOutstandingFutures
  /\ UNCHANGED <<phase, rconn, reply, pc, mgmtVars, writeVars, netVars>>

-----------------------------------------------------------------------------
(* connect, reconnect, stop.  Callers wait for connect() and reconnect()   *)
(* before they call either again, and call nothing after stop().  "please  *)
(* reconnect()" (rpc_client.cc:27): unless BareConnect, connect() is for a *)
(* client without connection.                                              *)

Connect ==
  /\ mgmt = "idle" /\ ~connecting /\ ~IsConnValid
  /\ BareConnect \/ conn = 0
  /\ connecting' = TRUE
  /\ UNCHANGED <<gateClosed, mgmt, callVars, connVars, slotVars, writeVars,
                 readVars, netVars>>

\* When stop() closed the gate meanwhile with_gate throws: conn_ stays set and
\* nobody reads it.
ConnectOk ==
  /\ connecting /\ nconn < MaxConn
  /\ connecting' = FALSE
  /\ nconn' = nconn + 1
  /\ conn' = nconn + 1
  /\ fiber' = [fiber EXCEPT ![nconn + 1] = IF gateClosed THEN "none" ELSE "top"]
  /\ UNCHANGED <<disabled, errored, gateClosed, mgmt, phase, rconn, reply,
                 callVars, slotVars, writeVars, netVars>>

ConnectFail ==
  /\ connecting
  /\ connecting' = FALSE
  /\ UNCHANGED <<gateClosed, mgmt, callVars, connVars, slotVars, writeVars,
                 readVars, netVars>>

\* fail_outstanding_futures and dispatch_gate_->close(), for reconnect() or
\* for stop().
CloseGate(op) ==
  /\ mgmt = "idle"
  /\ errored' = errored
  /\ FailOutstandingFutures
  /\ gateClosed' = TRUE
  /\ mgmt' = op
  /\ UNCHANGED <<connecting, pc, writeVars, readVars, netVars>>

Reconnect == ~connecting /\ CloseGate("reconnect")
Stop == CloseGate("stop")

\* Mutant: conn_ and the gate are replaced without waiting for the fibers.
ReconnectResumeEarly ==
  /\ mgmt = "reconnect"
  /\ gateClosed' = FALSE
  /\ conn' = 0
  /\ mgmt' = "idle"
  /\ connecting' = TRUE
  /\ UNCHANGED <<nconn, disabled, errored, callVars, slotVars, writeVars,
                 readVars, netVars>>

\* The gate is empty: a new gate, no connection, and connect().
ReconnectResume ==
  /\ mgmt = "reconnect" /\ GateEmpty
  /\ gateClosed' = FALSE
  /\ conn' = 0
  /\ mgmt' = "idle"
  /\ connecting' = TRUE
  /\ UNCHANGED <<nconn, disabled, errored, callVars, slotVars, writeVars,
                 readVars, netVars>>

StopDone ==
  /\ mgmt = "stop" /\ GateEmpty
  /\ mgmt' = "stopped"
  /\ UNCHANGED <<gateClosed, connecting, callVars, connVars, slotVars,
                 writeVars, readVars, netVars>>

-----------------------------------------------------------------------------
CallStep(c) ==
  \/ SendRejected(c) \/ RawSend(c) \/ OutFilterDone(c) \/ OutFilterThrow(c)
  \/ PromiseFailed(c) \/ PromiseReady(c) \/ InFilter(c)

WriteStep(c) ==
  MemAcquire(c) \/ WriteStart(c) \/ WriteReach(c) \/ WriteDone(c) \/ WriteFail(c)

ReadStep(g) ==
  \/ ReadTop(g) \/ ReadError(g) \/ PayloadOk(g) \/ ReadThrow(g) \/ ReadTimeout(g)
  \/ \E c \in Call : HeaderOk(g, c)

MgmtStep ==
  \/ Connect \/ ConnectOk \/ ConnectFail
  \/ Reconnect \/ Stop \/ ReconnectResume \/ StopDone

Next ==
  \/ \E c \in Call : CallStep(c) \/ WriteStep(c)
  \/ \E g \in Conn : ReadStep(g)
  \/ MgmtStep

Spec == Init /\ [][Next]_vars

(* Every started fiber goes on: the reactor runs ready continuations, the   *)
(* filters and writes terminate, a connection attempt succeeds or fails,    *)
(* and the timer of with_timeout fires.  Nothing makes a caller call or the *)
(* server answer.                                                           *)
Fairness ==
  /\ \A c \in Call :
       /\ WF_vars(OutFilterDone(c) \/ OutFilterThrow(c))
       /\ WF_vars(PromiseFailed(c) \/ PromiseReady(c))
       /\ WF_vars(InFilter(c))
       /\ WF_vars(MemAcquire(c))
       /\ WF_vars(WriteStart(c))
       /\ WF_vars(WriteDone(c) \/ WriteFail(c))
  /\ \A g \in Conn : WF_vars(ReadTop(g)) /\ WF_vars(ReadTimeout(g))
  /\ WF_vars(ConnectOk \/ ConnectFail)
  /\ WF_vars(ReconnectResume)
  /\ WF_vars(StopDone)

FairSpec == Spec /\ Fairness

-----------------------------------------------------------------------------
(* Properties.                                                             *)

ConnType ==
  /\ conn \in 0..nconn /\ nconn \in 0..MaxConn
  /\ disabled \subseteq 1..nconn /\ errored \subseteq 1..nconn
  /\ gateClosed \in BOOLEAN /\ connecting \in BOOLEAN
  /\ mgmt \in {"idle", "reconnect", "stop", "stopped"}

CallType ==
  /\ slots \in [Session -> Call \cup {NoCall}]
  /\ session_idx \in Session
  /\ pc \in [Call -> {"init", "filter", "wait", "infilter", "ok", "failed"}]
  /\ sess \in [Call -> Session \cup {NoSession}]
  /\ prom \in [Call -> {"none", "pending", "value", "error"}]
  /\ got \in [Call -> Call \cup {NoCall}]

WriteType ==
  /\ writer \in [Call -> {"none", "mem", "ser", "sending", "sent", "aborted"}]
  /\ wconn \in [Call -> Conn \cup {0}]
  /\ memQ \in Seq(Call) /\ avail \in Nat
  /\ wire \subseteq Call /\ heard \subseteq wire

ReadType ==
  /\ fiber \in [Conn -> {"none", "top", "busy", "done"}]
  /\ phase \in [Conn -> {"idle", "header", "payload"}]
  /\ rconn \in [Conn -> Conn \cup {0}]
  /\ reply \in [Conn -> Call \cup {NoCall}]

Types == ConnType /\ CallType /\ WriteType /\ ReadType

\* The types of the state; read_counter_ is a uint64_t that never underflows.
TypeOK == Types /\ read_counter \in Nat

\* A call that is given a reply is given the reply to its own request, however
\* replies are reordered and whatever connections failed in between.
ReplyMatchesCall == \A c \in Call : prom[c] = "value" => got[c] = c

\* A promise is pending exactly while rpc_slots_ holds it: none is resolved
\* twice (set_value on a resolved promise aborts) and none is forgotten.
PendingIffInSlot == \A c \in Call : prom[c] = "pending" <=> HasSlot(c)

\* No call waits on a connection that is gone: as soon as the connection is
\* disabled or in error, every slot has been failed.
NoOrphanCall == ~IsConnValid => \A c \in Call : ~HasSlot(c)

\* Once stop() or reconnect() closed the gate no slot is left, or taken again,
\* that nobody would fail while the gate drains.
ClosedGateHasNoSlots == gateClosed => \A c \in Call : ~HasSlot(c)

\* reconnect() never drops conn_ under a fiber that dereferences it.
ConnOutlivesFibers == conn = 0 => GateEmpty

\* The DLOG_THROW_IF of process_one_request: a payload is only parsed while
\* read_counter_ counts a request without reply.
ReadCounterPositive == \A g \in Conn : phase[g] = "payload" => read_counter > 0

\* The DLOG_THROW_IF of parse_header: no two readers share one input stream.
OneParserPerConnection ==
  \A g, h \in Conn : phase[g] # "idle" /\ phase[h] # "idle" /\ rconn[g] = rconn[h]
                     => g = h

\* serialize_writes_ keeps the header and body of a frame together.
OneFrameAtATime ==
  \A c, d \in Call : writer[c] = "sending" /\ writer[d] = "sending" => c = d

\* Every unit of resources_available is free or held by a write in progress.
MemoryConserved ==
  avail + MapThenSumSet(LAMBDA c : Size[c],
            {c \in Call : writer[c] \in {"ser", "sending"}}) = MaxMem

\* What the caller of send(c) sees; "misled" is a reply to another request.
CallStatus(c) ==
  CASE pc[c] = "init" -> "idle"
    [] InSend(c) -> "pending"
    [] pc[c] = "ok" -> IF got[c] = c THEN "answered" ELSE "misled"
    [] pc[c] = "failed" -> IF sess[c] = NoSession THEN "refused" ELSE "failed"

Contract == INSTANCE RpcCall WITH status <- [c \in Call |-> CallStatus(c)],
                                  transmitted <- wire

\* The client implements the contract of send: each call is refused unsent, or
\* resolved once, with the reply to its own transmitted request or an exception.
ImplementsCall == Contract!Spec

\* A call that was sent is resolved eventually, by a reply or by an exception: as
\* each of the calls is made once, there comes a time when none waits any more.
CallCompletes == <>[](\A c \in Call : ~InSend(c))

\* stop() and reconnect() get past dispatch_gate_->close(), each time.
GateDrains == []<>(mgmt \in {"idle", "stopped"})

-----------------------------------------------------------------------------
(* What comments and assertions of the repository say and the code does    *)
(* not do.                                                                 *)

\* rpc_client.h: the timeout is for the body, "after we parse the header".
RecvTimeoutAfterHeader ==
  [][\A g \in Conn : ReadTimeout(g) => phase[g] = "payload"]_vars

\* process_one_request copies conn_ "due to a timeout exception": a read that
\* fails disables no connection but the one it read.
ReadFailsItsOwnConnection ==
  [][\A g \in Conn : ReadError(g) => disabled' \ disabled \subseteq {rconn[g]}]_vars

\* fail_outstanding_futures: shutting the input down "is critical": a
\* connection the client gave up is shut down.
FailedConnectionIsShutDown == conn # 0 /\ ~IsConnValid => conn \in disabled

\* raw_send: "RPC slot already allocated" never happens.
SlotIsFree ==
  ~gateClosed /\ IsConnValid /\ (\E c \in Call : pc[c] = "init")
    => slots[NextSession] = NoCall
=============================================================================
