---------------------------- MODULE SocksServer ----------------------------
(***************************************************************************)
(* 04-socks-proxy/socks_server.cpp: a process per client that reads a      *)
(* SOCKS4 request, checks time limit and firewall, connects or listens,    *)
(* replies and relays with one thread per direction.  The processes share  *)
(* the files with the start time of a client address; all clients here     *)
(* have the same address.                                                  *)
(*                                                                         *)
(* Clients, destinations, the clock and socks.conf are external.  There is *)
(* one destination; a rule permits it to a command or does not.  Data is a *)
(* sequence of pieces that bear the time when they were sent.              *)
(***************************************************************************)
EXTENDS Integers, Sequences, SequencesExt, FiniteSets

CONSTANTS
    Process,    \* processes: one for each client that is accepted
    Served,     \* bound: those whose client goes on to send a request
    Limit,      \* seconds (20 in is_time_limit_exceeded)
    MaxTime,    \* bound of the clock
    MaxPieces   \* bound: pieces that are sent in a direction

ASSUME ServedAssumption == Served \subseteq Process
ASSUME TimeAssumption == Limit \in Nat /\ MaxTime \in Nat \ {0}

Time == 1 .. MaxTime
NoFile == -2
EmptyFile == -1
Command == {"CONNECT", "BIND"}
Direction == {"up", "down"}     \* from the client, to the client
Opposite(d) == IF d = "up" THEN "down" ELSE "up"
ASSUME PiecesAssumption == MaxPieces \in [Direction -> Nat]
Granted == <<"granted">>
Rejected == <<"rejected">>
Piece == [at : Time]

VARIABLES
    clock,
    file,       \* socks_session_<ip>: NoFile, EmptyFile or a start time
    pc,         \* where a process is
    start,      \* start_time, 0 before it is known
    request,    \* the command that was asked for
    peer,       \* auxiliary: whom a process is connected to
    replies,    \* the replies that the client has
    thread,     \* per direction: where its relay_stream is
    buf,        \* per direction: data, between the read and the write
    wire,       \* per direction: sent, and not read
    sent, got,  \* auxiliary, per direction: all that was sent, all that was written to the
                \* receiver and has not been destroyed there before it was read
    eof,        \* per direction: its sender sends no more
    gone,       \* per direction: its receiver has closed
    open,       \* per direction: is the socket that it reads open?
    late,       \* auxiliary: has the limit ended the relay?
    crossed     \* auxiliary: did a side close or send against what the other one was doing?

relay == <<thread, buf, wire, sent, got, eof, gone, open, late, crossed>>
vars == <<clock, file, pc, start, request, peer, replies, relay>>

PerDirection(S) == [Process -> [Direction -> S]]

TypeOK ==
    /\ clock \in Time
    /\ file \in {NoFile, EmptyFile} \union Time
    /\ pc \in [Process -> {"new", "startTime", "create", "flush", "request", "limit", "firewall",
                           "connect", "listen", "accept", "relay", "ended"}]
    /\ start \in [Process -> Time \union {0}]
    /\ \A p \in Process : start[p] = 0 => pc[p] \in {"new", "startTime", "ended"}
    /\ request \in [Process -> Command \union {"none"}]
    /\ peer \in [Process -> {"nobody", "destination", "other"}]
    /\ replies \in [Process -> Seq({"granted", "rejected"})]
    /\ thread \in PerDirection({"off", "check", "read", "recheck", "write", "closeIn", "closeOut", "over"})
    /\ buf \in PerDirection(Seq(Piece))
    /\ wire \in PerDirection(Seq(Piece))
    /\ sent \in PerDirection(Seq(Piece))
    /\ got \in PerDirection(Seq(Piece))
    /\ eof \in PerDirection(BOOLEAN)
    /\ gone \in PerDirection(BOOLEAN)
    /\ open \in PerDirection(BOOLEAN)
    /\ late \in [Process -> BOOLEAN]
    /\ crossed \in [Process -> BOOLEAN]

Init ==
    LET each(v) == [p \in Process |-> [d \in Direction |-> v]]
    IN  /\ clock = 1
        /\ file = NoFile
        /\ pc = [p \in Process |-> "new"]
        /\ start = [p \in Process |-> 0]
        /\ request = [p \in Process |-> "none"]
        /\ peer = [p \in Process |-> "nobody"]
        /\ replies = [p \in Process |-> <<>>]
        /\ thread = each("off")
        /\ buf = each(<<>>) /\ wire = each(<<>>) /\ sent = each(<<>>) /\ got = each(<<>>)
        /\ eof = each(FALSE) /\ gone = each(FALSE) /\ open = each(TRUE)
        /\ late = [p \in Process |-> FALSE]
        /\ crossed = [p \in Process |-> FALSE]

Goto(p, l) == pc' = [pc EXCEPT ![p] = l]

(* is_time_limit_exceeded; the clock is not set back. *)
Exceeded(p) == clock - start[p] > Limit

-----------------------------------------------------------------------------
(* get_or_create_ip_start_time. *)

(* A client is accepted.  An accept that throws ends the loop in main: no process is *)
(* forked any more, as no behaviour here has to fork one, and those that are go on.  *)
Fork(p) ==
    /\ pc[p] = "new"
    /\ Goto(p, "startTime")
    /\ UNCHANGED <<clock, file, start, request, peer, replies, relay>>

(* A file that cannot be read as a number counts as missing. *)
ReadStartTime(p) ==
    /\ pc[p] = "startTime"
    /\ IF file \in Time
       THEN start' = [start EXCEPT ![p] = file] /\ Goto(p, "request")
       ELSE start' = [start EXCEPT ![p] = clock] /\ Goto(p, "create")
    /\ UNCHANGED <<clock, file, request, peer, replies, relay>>

(* The ofstream truncates the file when it opens it and writes when it is closed. *)
Truncate(p) ==
    /\ pc[p] = "create"
    /\ file' = EmptyFile
    /\ Goto(p, "flush")
    /\ UNCHANGED <<clock, start, request, peer, replies, relay>>

\* Seeded fault: the variable that the failed read has set to zero is written.
UnreadTime(p) == 0

StartTime(p) == start[p]

Flush(p) ==
    /\ pc[p] = "flush"
    /\ file' = StartTime(p)
    /\ Goto(p, "request")
    /\ UNCHANGED <<clock, start, request, peer, replies, relay>>

-----------------------------------------------------------------------------
(* The request. *)

Reply(p, code) == replies' = [replies EXCEPT ![p] = @ \o code]

(* fork fails, or the client has reset the connection before its address is asked for. *)
Drop(p) ==
    /\ pc[p] \in {"new", "startTime"}
    /\ Goto(p, "ended")
    /\ UNCHANGED <<clock, file, start, request, peer, replies, relay>>

(* An exception ends the process without a further reply: the client has left, in the *)
(* request or before a reply is written, or the name cannot be resolved.              *)
Throw(p) ==
    /\ pc[p] \in {"request", "limit", "firewall", "connect", "listen", "accept"}
    /\ p \in Served
    /\ Goto(p, "ended")
    /\ UNCHANGED <<clock, file, start, request, peer, replies, relay>>

RefuseRequest(p) ==
    /\ pc[p] = "request" /\ p \in Served
    /\ Reply(p, Rejected)
    /\ Goto(p, "ended")
    /\ UNCHANGED <<clock, file, start, request, peer, relay>>

ReadRequest(p) ==
    /\ pc[p] = "request" /\ p \in Served
    /\ \E command \in Command : request' = [request EXCEPT ![p] = command]
    /\ Goto(p, "limit")
    /\ UNCHANGED <<clock, file, start, peer, replies, relay>>

CheckLimit(p) ==
    /\ pc[p] = "limit"
    /\ IF Exceeded(p)
       THEN Reply(p, Rejected) /\ Goto(p, "ended")
       ELSE Goto(p, "firewall") /\ UNCHANGED replies
    /\ UNCHANGED <<clock, file, start, request, peer, relay>>

(* firewall_allows reads socks.conf for this request: whatever rules it has now. *)
CheckFirewall(p) ==
    /\ pc[p] = "firewall"
    /\ \E permitted \in SUBSET Command :
       IF request[p] \in permitted
       THEN Goto(p, IF request[p] = "CONNECT" THEN "connect" ELSE "listen") /\ UNCHANGED replies
       ELSE Reply(p, Rejected) /\ Goto(p, "ended")
    /\ UNCHANGED <<clock, file, start, request, peer, relay>>

StartRelay(p, who) ==
    /\ Reply(p, Granted)
    /\ peer' = [peer EXCEPT ![p] = who]
    /\ thread' = [thread EXCEPT ![p] = [d \in Direction |-> "check"]]
    /\ Goto(p, "relay")
    /\ UNCHANGED <<clock, file, start, request, buf, wire, sent, got, eof, gone, open, late, crossed>>

RejectAndEnd(p) ==
    /\ Reply(p, Rejected)
    /\ Goto(p, "ended")
    /\ UNCHANGED <<clock, file, start, request, peer, relay>>

Connect(p) ==
    /\ pc[p] = "connect"
    /\ StartRelay(p, "destination") \/ RejectAndEnd(p)

(* BIND: a port, the first reply, then whoever connects. *)
Listen(p) ==
    /\ pc[p] = "listen"
    /\ \/ /\ Reply(p, Granted)
          /\ Goto(p, "accept")
          /\ UNCHANGED <<clock, file, start, request, peer, relay>>
       \/ RejectAndEnd(p)

AcceptPeer(p) ==
    /\ pc[p] = "accept"
    /\ \E who \in {"destination", "other"} :
         IF Exceeded(p) \/ who # "destination"
         THEN RejectAndEnd(p)
         ELSE StartRelay(p, who)

-----------------------------------------------------------------------------
(* relay_stream, for direction d. *)

Step(p, d, l) == thread' = [thread EXCEPT ![p][d] = l]
outside == <<clock, file, pc, start, request, peer, replies>>
sides == <<sent, eof, gone, crossed>>

(* What a reset leaves of the data that a connection holds: what had been read. *)
Remains(data) == {SubSeq(data, 1, n) : n \in 0 .. Len(data)}

CheckTime(p, d) ==
    /\ thread[p][d] \in {"check", "recheck"}
    /\ late' = [late EXCEPT ![p] = @ \/ Exceeded(p)]
    /\ Step(p, d, IF Exceeded(p) THEN "closeIn"
                  ELSE IF thread[p][d] = "check" THEN "read" ELSE "write")
    /\ UNCHANGED <<outside, sides, buf, wire, got, open>>

\* Seeded fault: the limit is not looked at again after the read.
Forward == "write"

AfterRead == "recheck"

Receive(p, d) ==
    /\ thread[p][d] = "read" /\ open[p][d]
    /\ \E n \in 1 .. Len(wire[p][d]) :
         /\ buf' = [buf EXCEPT ![p][d] = SubSeq(wire[p][d], 1, n)]
         /\ wire' = [wire EXCEPT ![p][d] = SubSeq(@, n + 1, Len(@))]
    /\ Step(p, d, AfterRead)
    /\ UNCHANGED <<outside, sides, got, open, late>>

\* Seeded fault: the end is noticed before the data that precedes it is read.
HungUp(p, d) == eof[p][d]

AtEnd(p, d) == eof[p][d] /\ wire[p][d] = <<>>

(* End of file, or the other thread has closed the socket. *)
ReceiveNothing(p, d) ==
    /\ thread[p][d] = "read"
    /\ ~open[p][d] \/ AtEnd(p, d)
    /\ Step(p, d, "closeIn")
    /\ UNCHANGED <<outside, sides, buf, wire, got, open, late>>

(* The socket that d writes is the one that the other direction reads. *)
Write(p, d) ==
    /\ thread[p][d] = "write" /\ open[p][Opposite(d)] /\ ~gone[p][d]
    /\ got' = [got EXCEPT ![p][d] = @ \o buf[p][d]]
    /\ buf' = [buf EXCEPT ![p][d] = <<>>]
    /\ Step(p, d, "check")
    /\ UNCHANGED <<outside, sides, wire, open, late>>

(* The receiver has closed: its reset may destroy what it sent before. *)
WriteToNobody(p, d) ==
    /\ thread[p][d] = "write" /\ open[p][Opposite(d)] /\ gone[p][d]
    /\ \E w \in Remains(wire[p][Opposite(d)]) : wire' = [wire EXCEPT ![p][Opposite(d)] = w]
    /\ buf' = [buf EXCEPT ![p][d] = <<>>]
    /\ Step(p, d, "check")
    /\ UNCHANGED <<outside, sides, got, open, late>>

WriteFailed(p, d) ==
    /\ thread[p][d] = "write"
    /\ ~open[p][Opposite(d)] \/ gone[p][d]
    /\ Step(p, d, "closeIn")
    /\ UNCHANGED <<outside, sides, buf, wire, got, open, late>>

(* close_socket, of the socket that direction d reads: when there is something unread in *)
(* it the other end is reset, which may destroy what was written to it and not yet read. *)
CloseSocket(p, d) ==
    /\ open' = [open EXCEPT ![p][d] = FALSE]
    /\ wire' = [wire EXCEPT ![p][d] = <<>>]
    /\ \E g \in IF wire[p][d] = <<>> THEN {got[p][Opposite(d)]} ELSE Remains(got[p][Opposite(d)]) :
         got' = [got EXCEPT ![p][Opposite(d)] = g]

CloseInput(p, d) ==
    /\ thread[p][d] = "closeIn"
    /\ CloseSocket(p, d)
    /\ Step(p, d, "closeOut")
    /\ UNCHANGED <<outside, sides, buf, late>>

CloseOutput(p, d) ==
    /\ thread[p][d] = "closeOut"
    /\ CloseSocket(p, Opposite(d))
    /\ Step(p, d, "over")
    /\ UNCHANGED <<outside, sides, buf, late>>

(* relay_bidirectional joins both threads. *)
Join(p) ==
    /\ pc[p] = "relay"
    /\ \A d \in Direction : thread[p][d] = "over"
    /\ Goto(p, "ended")
    /\ UNCHANGED <<clock, file, start, request, peer, replies, relay>>

-----------------------------------------------------------------------------
(* The environment.  Both sides send and close when they like; crossed     *)
(* remembers that one of them closed when something was on its way to it,  *)
(* sent to a side that had closed, or reset the connection.                *)

Tick ==
    /\ clock < MaxTime
    /\ clock' = clock + 1
    /\ UNCHANGED <<file, pc, start, request, peer, replies, relay>>

Sends(p, d) ==
    /\ thread[p][d] # "off" /\ ~eof[p][d]
    /\ Len(sent[p][d]) < MaxPieces[d]
    /\ sent' = [sent EXCEPT ![p][d] = Append(@, [at |-> clock])]
    /\ crossed' = [crossed EXCEPT ![p] = @ \/ eof[p][Opposite(d)]]
    /\ UNCHANGED <<outside, thread, buf, eof, gone, open, late>>

Send(p, d) ==
    /\ Sends(p, d) /\ open[p][d]
    /\ wire' = [wire EXCEPT ![p][d] = Append(@, [at |-> clock])]
    /\ UNCHANGED got

(* The relay has closed this side's socket and answers with a reset. *)
SendTooLate(p, d) ==
    /\ Sends(p, d) /\ ~open[p][d]
    /\ \E g \in Remains(got[p][Opposite(d)]) : got' = [got EXCEPT ![p][Opposite(d)] = g]
    /\ UNCHANGED wire

(* The sender of d closes, after it has read everything; half closed, it still receives. *)
(* When the relay has closed before, its closing means nothing to the relay.             *)
Close(p, d) ==
    /\ thread[p][d] # "off" /\ open[p][d] /\ ~eof[p][d]
    /\ eof' = [eof EXCEPT ![p][d] = TRUE]
    /\ \E half \in BOOLEAN : gone' = [gone EXCEPT ![p][Opposite(d)] = ~half]
    /\ crossed' = [crossed EXCEPT ![p] = @ \/ got[p][Opposite(d)] # sent[p][Opposite(d)]]
    /\ UNCHANGED <<outside, thread, buf, wire, sent, got, open, late>>

(* It closes and has not read everything, or resets the connection. *)
Abort(p, d) ==
    /\ thread[p][d] # "off" /\ open[p][d] /\ ~eof[p][d]
    /\ eof' = [eof EXCEPT ![p][d] = TRUE]
    /\ gone' = [gone EXCEPT ![p][Opposite(d)] = TRUE]
    /\ \E w \in Remains(wire[p][d]) : wire' = [wire EXCEPT ![p][d] = w]
    /\ crossed' = [crossed EXCEPT ![p] = TRUE]
    /\ UNCHANGED <<outside, thread, buf, sent, got, open, late>>

-----------------------------------------------------------------------------
Handle(p) ==
    \/ Fork(p) \/ ReadStartTime(p) \/ Truncate(p) \/ Flush(p)
    \/ Drop(p) \/ Throw(p) \/ RefuseRequest(p) \/ ReadRequest(p)
    \/ CheckLimit(p) \/ CheckFirewall(p)
    \/ Connect(p) \/ Listen(p) \/ AcceptPeer(p)
    \/ Join(p)

Relay(p, d) ==
    \/ CheckTime(p, d) \/ Receive(p, d) \/ ReceiveNothing(p, d)
    \/ Write(p, d) \/ WriteToNobody(p, d) \/ WriteFailed(p, d)
    \/ CloseInput(p, d) \/ CloseOutput(p, d)

Side(p, d) == Send(p, d) \/ SendTooLate(p, d) \/ Close(p, d) \/ Abort(p, d)

Next ==
    \/ Tick
    \/ \E p \in Process : Handle(p)
    \/ \E p \in Process, d \in Direction : Relay(p, d) \/ Side(p, d)

Spec == Init /\ [][Next]_vars

(* The scheduler runs the threads and the process that joins them; only those that are *)
(* served come to that.                                                                *)
FairSpec ==
    /\ Spec
    /\ \A p \in Served : WF_vars(Join(p))
    /\ \A p \in Served, d \in Direction : WF_vars(Relay(p, d))

-----------------------------------------------------------------------------
(* What the client is told fits the command it asked for: one reply for    *)
(* CONNECT, two for BIND unless the first refuses; data passes only after  *)
(* the last one has granted, and only to and from the host that was asked  *)
(* for.                                                                    *)
Protocol(command) ==
    IF command = "BIND"
    THEN {<<>>, Rejected, Granted, Granted \o Rejected, Granted \o Granted}
    ELSE {<<>>, Rejected, Granted}
Final(command) == IF command = "BIND" THEN Granted \o Granted ELSE Granted

RepliesInProtocol ==
    \A p \in Process :
        /\ replies[p] \in Protocol(request[p])
        /\ (\E d \in Direction : got[p][d] # <<>>) =>
               replies[p] = Final(request[p]) /\ peer[p] = "destination"

(* Data arrives in order and once, and nothing arrives that was sent after *)
(* the time that the client's address has.                                 *)
DataInTime ==
    \A p \in Process, d \in Direction :
        /\ IsPrefix(got[p][d], sent[p][d])
        /\ \A i \in DOMAIN got[p][d] : got[p][d][i].at - start[p] <= Limit

(* What a client of the proxy can rely on when it reads. *)
ClientServed == RepliesInProtocol /\ DataInTime

(* When one side closes, wholly or half, while both sides send as they     *)
(* like, both threads and the process end; and unless the limit has cut    *)
(* the relay short, or the sides closed and sent against one another, each *)
(* side has by then everything that was sent to it, if it still reads      *)
(* (README: "handling EOF and connection shutdown correctly").             *)
Arrived(p) == \A d \in Direction : gone[p][d] \/ got[p][d] = sent[p][d]
RelayCompletes ==
    \A p \in Process :
        (pc[p] = "relay" /\ \E d \in Direction : eof[p][d])
            ~> pc[p] = "ended" /\ (late[p] \/ crossed[p] \/ Arrived(p))

(* Not true: a side that has ended its sending, and only that, is sent the *)
(* whole answer.                                                           *)
HalfClosedServed ==
    \A p \in Process, d \in Direction :
        (pc[p] = "relay" /\ eof[p][d] /\ ~gone[p][Opposite(d)])
            ~> pc[p] = "ended" /\ (late[p] \/ Arrived(p))
=============================================================================
