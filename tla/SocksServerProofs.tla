------------------------- MODULE SocksServerProofs -------------------------
(***************************************************************************)
(* Theorems about SocksServer, for any processes, limit, length of the     *)
(* conversation and bound of the clock.                                    *)
(***************************************************************************)
EXTENDS SocksServer, SequenceTheorems, TLAPS

-----------------------------------------------------------------------------
(* Types. *)

LEMMA RepliesTyped ==
    ASSUME TypeOK, NEW p \in Process, NEW code \in {Granted, Rejected}, Reply(p, code)
    PROVE  replies' \in [Process -> Seq({"granted", "rejected"})]
<1>0. Granted \in Seq({"granted", "rejected"}) /\ Rejected \in Seq({"granted", "rejected"})
  BY DEF Granted, Rejected
<1>1. /\ code \in Seq({"granted", "rejected"})
      /\ replies[p] \in Seq({"granted", "rejected"})
  BY <1>0 DEF TypeOK
<1>2. replies[p] \o code \in Seq({"granted", "rejected"}) BY <1>1
<1> QED BY <1>2 DEF TypeOK, Reply

(* A process that knows its start time goes on. *)
LEMMA Moved ==
    ASSUME TypeOK, NEW p \in Process, pc[p] \notin {"new", "startTime", "ended"}, start' = start,
           NEW l \in {"flush", "request", "limit", "firewall", "connect", "listen", "accept",
                      "relay", "ended"},
           Goto(p, l)
    PROVE  /\ pc' \in [Process -> {"new", "startTime", "create", "flush", "request", "limit", "firewall",
                                   "connect", "listen", "accept", "relay", "ended"}]
           /\ \A q \in Process : start'[q] = 0 => pc'[q] \in {"new", "startTime", "ended"}
BY DEF TypeOK, Goto

LEMMA TypeHandle == ASSUME TypeOK, NEW p \in Process, Handle(p) PROVE TypeOK'
<1> USE DEF Goto, relay
<1>1. CASE Fork(p) \/ ReadStartTime(p) \/ Truncate(p) \/ Flush(p)
  <2>1. CASE Fork(p) BY <2>1 DEF TypeOK, PerDirection, Fork
  <2>2. CASE ReadStartTime(p)
    <3>1. PICK t \in Time, l \in {"request", "create"} :
            start' = [start EXCEPT ![p] = t] /\ pc' = [pc EXCEPT ![p] = l]
      BY <2>2 DEF ReadStartTime, TypeOK
    <3>2. t # 0 BY DEF Time
    <3>3. \A q \in Process : start'[q] = 0 => pc'[q] \in {"new", "startTime", "ended"}
      BY <3>1, <3>2 DEF TypeOK
    <3> QED BY <2>2, <3>1, <3>3 DEF TypeOK, PerDirection, ReadStartTime
  <2>3. CASE Truncate(p)
    <3>1. pc[p] \notin {"new", "startTime", "ended"} /\ start' = start /\ Goto(p, "flush")
      BY <2>3 DEF Truncate
    <3> HIDE DEF Goto
    <3> QED BY <2>3, <3>1, Moved DEF TypeOK, PerDirection, Truncate
  <2>4. CASE Flush(p)
    <3>1. start[p] \in Time BY <2>4 DEF TypeOK, Flush
    <3> QED BY <2>4, <3>1 DEF TypeOK, PerDirection, Flush, StartTime
  <2> QED BY <1>1, <2>1, <2>2, <2>3, <2>4
<1>2. CASE Drop(p) \/ Throw(p) \/ ReadRequest(p) \/ Join(p)
  <2> HIDE DEF Goto
  <2>4. CASE Drop(p)
    <3>1. /\ pc' \in [Process -> {"new", "startTime", "create", "flush", "request", "limit", "firewall",
                                  "connect", "listen", "accept", "relay", "ended"}]
          /\ \A q \in Process : start'[q] = 0 => pc'[q] \in {"new", "startTime", "ended"}
      BY <2>4 DEF Drop, Goto, TypeOK
    <3> QED BY <2>4, <3>1 DEF TypeOK, PerDirection, Drop
  <2>1. CASE Throw(p)
    <3>1. pc[p] \notin {"new", "startTime", "ended"} /\ start' = start /\ Goto(p, "ended")
      BY <2>1 DEF Throw
    <3> QED BY <2>1, <3>1, Moved DEF TypeOK, PerDirection, Throw
  <2>2. CASE ReadRequest(p)
    <3>1. pc[p] \notin {"new", "startTime", "ended"} /\ start' = start /\ Goto(p, "limit")
      BY <2>2 DEF ReadRequest
    <3>2. request' \in [Process -> Command \union {"none"}] BY <2>2 DEF TypeOK, ReadRequest
    <3> QED BY <2>2, <3>1, <3>2, Moved DEF TypeOK, PerDirection, ReadRequest
  <2>3. CASE Join(p)
    <3>1. pc[p] \notin {"new", "startTime", "ended"} /\ start' = start /\ Goto(p, "ended")
      BY <2>3 DEF Join
    <3> QED BY <2>3, <3>1, Moved DEF TypeOK, PerDirection, Join
  <2> QED BY <1>2, <2>1, <2>2, <2>3, <2>4
<1>3. CASE RefuseRequest(p)
  <2>1. replies' \in [Process -> Seq({"granted", "rejected"})] BY <1>3, RepliesTyped DEF RefuseRequest
  <2> QED BY <1>3, <2>1 DEF TypeOK, PerDirection, RefuseRequest
<1>4. ASSUME RejectAndEnd(p), pc[p] \notin {"new", "startTime", "ended"} PROVE TypeOK'
  <2>1. replies' \in [Process -> Seq({"granted", "rejected"})] BY <1>4, RepliesTyped DEF RejectAndEnd
  <2>2. start' = start /\ Goto(p, "ended") BY <1>4 DEF RejectAndEnd
  <2> HIDE DEF Goto
  <2> QED BY <1>4, <2>1, <2>2, Moved DEF TypeOK, PerDirection, RejectAndEnd
<1>5. ASSUME NEW who \in {"destination", "other"}, StartRelay(p, who), pc[p] \notin {"new", "startTime", "ended"}
      PROVE TypeOK'
  <2>1. replies' \in [Process -> Seq({"granted", "rejected"})] BY <1>5, RepliesTyped DEF StartRelay
  <2>2. start' = start /\ Goto(p, "relay") BY <1>5 DEF StartRelay
  <2> HIDE DEF Goto
  <2> QED BY <1>5, <2>1, <2>2, Moved DEF TypeOK, PerDirection, StartRelay
<1>6. CASE CheckLimit(p)
  <2>1. replies' \in [Process -> Seq({"granted", "rejected"})]
    BY <1>6, RepliesTyped DEF CheckLimit, TypeOK
  <2> QED BY <1>6, <2>1 DEF TypeOK, PerDirection, CheckLimit
<1>7. CASE CheckFirewall(p)
  <2>1. replies' \in [Process -> Seq({"granted", "rejected"})]
    BY <1>7, RepliesTyped DEF CheckFirewall, TypeOK
  <2> QED BY <1>7, <2>1 DEF TypeOK, PerDirection, CheckFirewall
<1>8. CASE Connect(p) BY <1>4, <1>5, <1>8 DEF Connect
<1>9. CASE Listen(p)
  <2>1. CASE RejectAndEnd(p) BY <1>4, <1>9, <2>1 DEF Listen
  <2>2. CASE ~RejectAndEnd(p)
    <3>1. replies' \in [Process -> Seq({"granted", "rejected"})]
      BY <1>9, <2>2, RepliesTyped DEF Listen
    <3> QED BY <1>9, <2>2, <3>1 DEF TypeOK, PerDirection, Listen
  <2> QED BY <2>1, <2>2
<1>10. CASE AcceptPeer(p) BY <1>4, <1>5, <1>10 DEF AcceptPeer
<1> QED BY <1>1, <1>2, <1>3, <1>6, <1>7, <1>8, <1>9, <1>10 DEF Handle

LEMMA UpdatedAt ==
    ASSUME NEW S, NEW f \in PerDirection(S), NEW p \in Process, NEW d \in Direction, NEW v \in S
    PROVE  [f EXCEPT ![p][d] = v] \in PerDirection(S)
BY DEF PerDirection

LEMMA Opposites ==
    ASSUME NEW d \in Direction
    PROVE  /\ Opposite(d) \in Direction /\ Opposite(d) # d /\ Opposite(Opposite(d)) = d
           /\ \A e \in Direction : e # d => e = Opposite(d)
BY DEF Direction, Opposite

LEMMA Functions ==
    ASSUME TypeOK
    PROVE  /\ thread \in PerDirection({"off", "check", "read", "recheck", "write", "closeIn", "closeOut", "over"})
           /\ buf \in PerDirection(Seq(Piece)) /\ wire \in PerDirection(Seq(Piece))
           /\ sent \in PerDirection(Seq(Piece)) /\ got \in PerDirection(Seq(Piece))
           /\ gone \in PerDirection(BOOLEAN) /\ eof \in PerDirection(BOOLEAN)
           /\ open \in PerDirection(BOOLEAN)
BY DEF TypeOK

LEMMA RemainsTyped ==
    ASSUME NEW q \in Seq(Piece), NEW r \in Remains(q)
    PROVE  r \in Seq(Piece)
<1>1. PICK n \in 0 .. Len(q) : r = SubSeq(q, 1, n) BY DEF Remains
<1> QED BY <1>1

(* close_socket, of whichever socket of the process. *)
LEMMA CloseTyped ==
    ASSUME TypeOK, NEW p \in Process, NEW d \in Direction, CloseSocket(p, d)
    PROVE  /\ open' \in PerDirection(BOOLEAN)
           /\ wire' \in PerDirection(Seq(Piece)) /\ got' \in PerDirection(Seq(Piece))
<1>1. /\ open' = [open EXCEPT ![p][d] = FALSE] /\ wire' = [wire EXCEPT ![p][d] = <<>>]
  BY DEF CloseSocket
<1>2. got[p][Opposite(d)] \in Seq(Piece) /\ <<>> \in Seq(Piece)
  BY Functions, Opposites DEF PerDirection
<1>3. PICK g \in Seq(Piece) : got' = [got EXCEPT ![p][Opposite(d)] = g]
  BY <1>2, RemainsTyped DEF CloseSocket
<1> QED BY <1>1, <1>2, <1>3, Functions, Opposites, UpdatedAt

LEMMA TypeRelay ==
    ASSUME TypeOK, NEW p \in Process, NEW d \in Direction, Relay(p, d)
    PROVE  TypeOK'
<1>0. ASSUME NEW l \in {"check", "read", "recheck", "write", "closeIn", "closeOut", "over"}, Step(p, d, l)
      PROVE  thread' \in PerDirection({"off", "check", "read", "recheck", "write", "closeIn", "closeOut", "over"})
  BY <1>0, Functions, UpdatedAt DEF Step
<1>1. CASE CheckTime(p, d)
  <2>1. late' \in [Process -> BOOLEAN]
    BY <1>1 DEF CheckTime, TypeOK
  <2> QED BY <1>0, <1>1, <2>1 DEF CheckTime, TypeOK, outside, sides
<1>2. CASE Receive(p, d)
  <2>1. PICK n \in 1 .. Len(wire[p][d]) :
          /\ buf' = [buf EXCEPT ![p][d] = SubSeq(wire[p][d], 1, n)]
          /\ wire' = [wire EXCEPT ![p][d] = SubSeq(wire[p][d], n + 1, Len(wire[p][d]))]
    BY <1>2 DEF Receive
  <2>2. wire[p][d] \in Seq(Piece) BY Functions DEF PerDirection
  <2>3. /\ SubSeq(wire[p][d], 1, n) \in Seq(Piece)
        /\ SubSeq(wire[p][d], n + 1, Len(wire[p][d])) \in Seq(Piece)
    BY <2>2
  <2>4. buf' \in PerDirection(Seq(Piece)) /\ wire' \in PerDirection(Seq(Piece))
    BY <2>1, <2>3, Functions, UpdatedAt
  <2> QED BY <1>0, <1>2, <2>4 DEF Receive, AfterRead, TypeOK, outside, sides
<1>3. CASE ReceiveNothing(p, d) BY <1>0, <1>3 DEF ReceiveNothing, TypeOK, outside, sides
<1>4. CASE Write(p, d)
  <2>1. buf[p][d] \in Seq(Piece) /\ got[p][d] \in Seq(Piece) /\ <<>> \in Seq(Piece)
    BY Functions DEF PerDirection
  <2>2. got[p][d] \o buf[p][d] \in Seq(Piece) BY <2>1
  <2>3. got' = [got EXCEPT ![p][d] = got[p][d] \o buf[p][d]] /\ buf' = [buf EXCEPT ![p][d] = <<>>]
    BY <1>4 DEF Write
  <2>4. got' \in PerDirection(Seq(Piece)) /\ buf' \in PerDirection(Seq(Piece))
    BY <2>1, <2>2, <2>3, Functions, UpdatedAt
  <2> QED BY <1>0, <1>4, <2>4 DEF Write, TypeOK, outside, sides
<1>5. CASE WriteToNobody(p, d)
  <2>1. wire[p][Opposite(d)] \in Seq(Piece) /\ <<>> \in Seq(Piece)
    BY Functions, Opposites DEF PerDirection
  <2>2. PICK w \in Seq(Piece) : wire' = [wire EXCEPT ![p][Opposite(d)] = w]
    BY <1>5, <2>1, RemainsTyped DEF WriteToNobody
  <2>3. buf' = [buf EXCEPT ![p][d] = <<>>] BY <1>5 DEF WriteToNobody
  <2>4. wire' \in PerDirection(Seq(Piece)) /\ buf' \in PerDirection(Seq(Piece))
    BY <2>1, <2>2, <2>3, Functions, Opposites, UpdatedAt
  <2> QED BY <1>0, <1>5, <2>4 DEF WriteToNobody, TypeOK, outside, sides
<1>6. CASE WriteFailed(p, d) BY <1>0, <1>6 DEF WriteFailed, TypeOK, outside, sides
<1>7. CASE CloseInput(p, d)
  <2>1. CloseSocket(p, d) BY <1>7 DEF CloseInput
  <2> QED BY <1>0, <1>7, <2>1, CloseTyped DEF CloseInput, TypeOK, outside, sides
<1>8. CASE CloseOutput(p, d)
  <2>1. CloseSocket(p, Opposite(d)) BY <1>8 DEF CloseOutput
  <2> QED BY <1>0, <1>8, <2>1, CloseTyped, Opposites DEF CloseOutput, TypeOK, outside, sides
<1> QED BY <1>1, <1>2, <1>3, <1>4, <1>5, <1>6, <1>7, <1>8 DEF Relay

LEMMA TypeSides ==
    ASSUME TypeOK, NEW p \in Process, NEW d \in Direction, Side(p, d)
    PROVE  TypeOK'
<1>1. /\ wire[p][d] \in Seq(Piece) /\ sent[p][d] \in Seq(Piece)
      /\ got[p][Opposite(d)] \in Seq(Piece) /\ [at |-> clock] \in Piece
  BY Functions, Opposites DEF PerDirection, TypeOK, Piece
<1>2. /\ Append(sent[p][d], [at |-> clock]) \in Seq(Piece)
      /\ Append(wire[p][d], [at |-> clock]) \in Seq(Piece)
  BY <1>1
<1>3. ASSUME Sends(p, d)
      PROVE  sent' \in PerDirection(Seq(Piece)) /\ crossed' \in [Process -> BOOLEAN]
  <2>1. sent' = [sent EXCEPT ![p][d] = Append(sent[p][d], [at |-> clock])] BY <1>3 DEF Sends
  <2>2. crossed' = [crossed EXCEPT ![p] = crossed[p] \/ eof[p][Opposite(d)]] BY <1>3 DEF Sends
  <2>3. crossed \in [Process -> BOOLEAN] BY DEF TypeOK
  <2>4. (crossed[p] \/ eof[p][Opposite(d)]) \in BOOLEAN OBVIOUS
  <2> QED BY <1>2, <2>1, <2>2, <2>3, <2>4, Functions, UpdatedAt
<1>4. CASE Send(p, d)
  <2>1. wire' = [wire EXCEPT ![p][d] = Append(wire[p][d], [at |-> clock])] BY <1>4 DEF Send
  <2>2. wire' \in PerDirection(Seq(Piece)) BY <1>2, <2>1, Functions, UpdatedAt
  <2> QED BY <1>3, <1>4, <2>2 DEF Send, Sends, TypeOK, outside
<1>5. CASE SendTooLate(p, d)
  <2>1. PICK g \in Seq(Piece) : got' = [got EXCEPT ![p][Opposite(d)] = g]
    BY <1>1, <1>5, RemainsTyped DEF SendTooLate
  <2>2. got' \in PerDirection(Seq(Piece)) BY <2>1, Functions, Opposites, UpdatedAt
  <2> QED BY <1>3, <1>5, <2>2 DEF SendTooLate, Sends, TypeOK, outside
<1>6. ASSUME NEW v \in BOOLEAN, eof' = [eof EXCEPT ![p][d] = TRUE],
             gone' = [gone EXCEPT ![p][Opposite(d)] = v]
      PROVE  eof' \in PerDirection(BOOLEAN) /\ gone' \in PerDirection(BOOLEAN)
  BY <1>6, Functions, Opposites, UpdatedAt
<1>7. CASE Close(p, d)
  <2>1. eof' \in PerDirection(BOOLEAN) /\ gone' \in PerDirection(BOOLEAN)
    <3>1. PICK half \in BOOLEAN : gone' = [gone EXCEPT ![p][Opposite(d)] = ~half]
      BY <1>7 DEF Close
    <3>2. PICK v \in BOOLEAN : v = ~half OBVIOUS
    <3> QED BY <1>6, <1>7, <3>1, <3>2 DEF Close
  <2>2. crossed' \in [Process -> BOOLEAN]
    <3>1. crossed' = [crossed EXCEPT ![p] = crossed[p] \/ got[p][Opposite(d)] # sent[p][Opposite(d)]]
      BY <1>7 DEF Close
    <3>2. (crossed[p] \/ got[p][Opposite(d)] # sent[p][Opposite(d)]) \in BOOLEAN OBVIOUS
    <3> QED BY <3>1, <3>2 DEF TypeOK
  <2> QED BY <1>7, <2>1, <2>2 DEF Close, TypeOK, outside
<1>8. CASE Abort(p, d)
  <2>1. PICK w \in Seq(Piece) : wire' = [wire EXCEPT ![p][d] = w]
    BY <1>1, <1>8, RemainsTyped DEF Abort
  <2>2. wire' \in PerDirection(Seq(Piece)) BY <2>1, Functions, UpdatedAt
  <2>3. crossed' \in [Process -> BOOLEAN] BY <1>8 DEF Abort, TypeOK
  <2>4. eof' \in PerDirection(BOOLEAN) /\ gone' \in PerDirection(BOOLEAN)
    BY <1>6, <1>8 DEF Abort
  <2> QED BY <1>8, <2>2, <2>3, <2>4 DEF Abort, TypeOK, outside
<1> QED BY <1>4, <1>5, <1>7, <1>8 DEF Side

LEMMA TypeInit == Init => TypeOK
BY TimeAssumption DEF Init, TypeOK, PerDirection, Time, Direction, NoFile, EmptyFile

LEMMA TypeStep == TypeOK /\ [Next]_vars => TypeOK'
<1> SUFFICES ASSUME TypeOK, [Next]_vars PROVE TypeOK'
  OBVIOUS
<1>1. CASE Tick BY <1>1, TimeAssumption DEF Tick, TypeOK, relay, PerDirection, Time
<1>2. CASE UNCHANGED vars BY <1>2 DEF vars, relay, TypeOK, PerDirection
<1> QED BY <1>1, <1>2, TypeHandle, TypeRelay, TypeSides DEF Next

\* Every variable keeps its type: in particular no process reads a start time that is none.
THEOREM TypeCorrect == Spec => []TypeOK
<1> QED BY TypeInit, TypeStep, PTL DEF Spec

-----------------------------------------------------------------------------
(***************************************************************************)
(* ClientServed.  Phases ties what the client was told to where the        *)
(* process is; Flow says where the data of a direction is and when it was  *)
(* sent.                                                                   *)
(***************************************************************************)

Told(p, command, answer) == request[p] = command /\ replies[p] = answer

Relaying(p) ==
    /\ request[p] \in Command
    /\ replies[p] = Final(request[p])
    /\ peer[p] = "destination"

Phase(p) ==
    /\ pc[p] \in {"new", "startTime", "create", "flush", "request"} => Told(p, "none", <<>>)
    /\ pc[p] \in {"limit", "firewall"} => request[p] \in Command /\ replies[p] = <<>>
    /\ pc[p] = "connect" => Told(p, "CONNECT", <<>>)
    /\ pc[p] = "listen" => Told(p, "BIND", <<>>)
    /\ pc[p] = "accept" => Told(p, "BIND", Granted)
    /\ pc[p] = "relay" => Relaying(p)
    /\ replies[p] \in Protocol(request[p])
    /\ \A d \in Direction :
         (thread[p][d] # "off" \/ got[p][d] # <<>>) => pc[p] \in {"relay", "ended"} /\ Relaying(p)

Phases == \A p \in Process : Phase(p)

LEMMA NextCases ==
    ASSUME [Next]_vars
    PROVE  \/ Tick \/ UNCHANGED vars
           \/ \E p \in Process : Handle(p)
           \/ \E p \in Process, d \in Direction : Relay(p, d)
           \/ \E p \in Process, d \in Direction : Side(p, d)
BY DEF Next

LEMMA AnswersFit ==
    /\ \A command \in Command \union {"none"} :
         <<>> \in Protocol(command) /\ Rejected \in Protocol(command)
    /\ Granted \in Protocol("BIND") /\ Granted \o Rejected \in Protocol("BIND")
    /\ \A command \in Command : Final(command) \in Protocol(command)
    /\ Final("BIND") = Granted \o Granted /\ Final("CONNECT") = Granted
BY DEF Protocol, Final, Command

LEMMA NothingBefore == <<>> \o Granted = Granted /\ <<>> \o Rejected = Rejected
<1>1. Granted \in Seq({"granted", "rejected"}) /\ Rejected \in Seq({"granted", "rejected"})
  BY DEF Granted, Rejected
<1> QED BY <1>1, ConcatEmptySeq

LEMMA PhasesInit == Init => Phases
BY AnswersFit DEF Init, Phases, Phase, Told

(* Only the process that takes the step is concerned. *)
LEMMA PhaseKept ==
    ASSUME NEW p \in Process, Phase(p),
           request'[p] = request[p], replies'[p] = replies[p], peer'[p] = peer[p], pc'[p] = pc[p],
           \A d \in Direction : got'[p][d] = got[p][d] /\ thread'[p][d] = thread[p][d]
    PROVE  Phase(p)'
BY DEF Phase, Told, Relaying

LEMMA HandleElsewhere ==
    ASSUME TypeOK, NEW p \in Process, NEW q \in Process, p # q, Handle(p)
    PROVE  /\ request'[q] = request[q] /\ replies'[q] = replies[q] /\ peer'[q] = peer[q]
           /\ pc'[q] = pc[q] /\ thread'[q] = thread[q] /\ got' = got
<1> USE DEF TypeOK, PerDirection, Goto, Reply, relay
<1>1. CASE Fork(p) \/ ReadStartTime(p) \/ Truncate(p) \/ Flush(p)
  BY <1>1 DEF Fork, ReadStartTime, Truncate, Flush
<1>2. CASE Drop(p) \/ Throw(p) \/ ReadRequest(p) \/ Join(p) \/ RefuseRequest(p)
  BY <1>2 DEF Drop, Throw, ReadRequest, Join, RefuseRequest
<1>3. CASE CheckLimit(p) \/ CheckFirewall(p)
  BY <1>3 DEF CheckLimit, CheckFirewall
<1>4. CASE Connect(p) BY <1>4 DEF Connect, RejectAndEnd, StartRelay
<1>5. CASE Listen(p) BY <1>5 DEF Listen, RejectAndEnd
<1>6. CASE AcceptPeer(p) BY <1>6 DEF AcceptPeer, RejectAndEnd, StartRelay
<1> QED BY <1>1, <1>2, <1>3, <1>4, <1>5, <1>6 DEF Handle

LEMMA PhaseHandle ==
    ASSUME TypeOK, NEW p \in Process, Phase(p), Handle(p)
    PROVE  Phase(p)'
<1> USE NothingBefore, AnswersFit DEF TypeOK, Goto, Reply, relay
<1>1. CASE Fork(p) \/ ReadStartTime(p) \/ Truncate(p) \/ Flush(p)
  BY <1>1 DEF Fork, ReadStartTime, Truncate, Flush, Phase, Told, Relaying
<1>2. CASE Drop(p) \/ Throw(p)
  <2>1. /\ request' = request /\ replies' = replies /\ peer' = peer /\ thread' = thread /\ got' = got
        /\ pc'[p] = "ended" /\ pc[p] \notin {"relay", "ended"}
    BY <1>2 DEF Drop, Throw
  <2> QED BY <2>1 DEF Phase, Told, Relaying
<1>3. CASE RefuseRequest(p) BY <1>3 DEF RefuseRequest, Phase, Told, Relaying
<1>4. CASE ReadRequest(p)
  <2>1. /\ request'[p] \in Command /\ replies'[p] = <<>> /\ pc'[p] = "limit"
        /\ \A d \in Direction : thread'[p][d] = "off" /\ got'[p][d] = <<>>
    BY <1>4 DEF ReadRequest, Phase, Told
  <2> QED BY <2>1 DEF Phase, Told, Relaying
<1>5. CASE CheckLimit(p) \/ CheckFirewall(p)
  <2>1. /\ request'[p] = request[p] /\ request[p] \in Command
        /\ \A d \in Direction : thread'[p][d] = "off" /\ got'[p][d] = <<>>
    BY <1>5 DEF CheckLimit, CheckFirewall, Phase
  <2>2. CASE replies'[p] = Rejected /\ pc'[p] = "ended"
    BY <2>1, <2>2 DEF Phase, Told, Relaying
  <2>3. CASE replies'[p] = <<>> /\ pc'[p] = "firewall"
    BY <2>1, <2>3 DEF Phase, Told, Relaying
  <2>4. CASE /\ replies'[p] = <<>>
             /\ pc'[p] = IF request[p] = "CONNECT" THEN "connect" ELSE "listen"
    BY <2>1, <2>4 DEF Phase, Told, Relaying, Command
  <2>5. replies[p] = <<>> BY <1>5 DEF CheckLimit, CheckFirewall, Phase
  <2>6. CASE CheckLimit(p) BY <2>2, <2>3, <2>5, <2>6 DEF CheckLimit
  <2>7. CASE CheckFirewall(p) BY <2>2, <2>4, <2>5, <2>7 DEF CheckFirewall
  <2> QED BY <1>5, <2>6, <2>7
<1>7. CASE Connect(p)
  <2>1. CASE RejectAndEnd(p) BY <1>7, <2>1 DEF Connect, RejectAndEnd, Phase, Told, Relaying
  <2>2. CASE StartRelay(p, "destination")
    BY <1>7, <2>2 DEF Connect, StartRelay, Phase, Told, Relaying, Command
  <2> QED BY <1>7, <2>1, <2>2 DEF Connect
<1>8. CASE Listen(p)
  <2>1. /\ request'[p] = "BIND" /\ replies[p] = <<>>
        /\ \A d \in Direction : thread'[p][d] = "off" /\ got'[p][d] = <<>>
    BY <1>8 DEF Listen, RejectAndEnd, Phase, Told
  <2>2. CASE replies'[p] = Rejected /\ pc'[p] = "ended"
    BY <2>1, <2>2 DEF Phase, Told, Relaying, Command
  <2>3. CASE replies'[p] = Granted /\ pc'[p] = "accept"
    BY <2>1, <2>3 DEF Phase, Told, Relaying
  <2> QED BY <1>8, <2>1, <2>2, <2>3 DEF Listen, RejectAndEnd
<1>9. CASE AcceptPeer(p)
  <2>1. CASE RejectAndEnd(p) BY <1>9, <2>1 DEF AcceptPeer, RejectAndEnd, Phase, Told, Relaying
  <2>2. CASE StartRelay(p, "destination")
    BY <1>9, <2>2 DEF AcceptPeer, StartRelay, Phase, Told, Relaying, Command
  <2> QED BY <1>9, <2>1, <2>2 DEF AcceptPeer
<1>10. CASE Join(p) BY <1>10 DEF Join, Phase, Told, Relaying
<1> QED BY <1>1, <1>2, <1>3, <1>4, <1>5, <1>7, <1>8, <1>9, <1>10 DEF Handle

LEMMA PhasesRelay ==
    ASSUME TypeOK, Phases, NEW p \in Process, NEW d \in Direction, Relay(p, d) \/ Side(p, d)
    PROVE  Phases'
<1>1. Side(p, d) \/ thread[p][d] # "off"
  BY DEF Relay, CheckTime, Receive, ReceiveNothing, Write, WriteToNobody, WriteFailed,
         CloseInput, CloseOutput
<1>2. Relaying(p) /\ pc[p] \in {"relay", "ended"}
  BY <1>1 DEF Phases, Phase, Side, Sends, Send, SendTooLate, Close, Abort
<1>3. UNCHANGED outside
  BY DEF Relay, CheckTime, Receive, ReceiveNothing, Write, WriteToNobody, WriteFailed,
         CloseInput, CloseOutput, Side, Sends, Send, SendTooLate, Close, Abort
<1>4. \A q \in Process \ {p} : thread'[q] = thread[q] /\ got'[q] = got[q]
  <2>1. thread' = thread \/ \E l : Step(p, d, l)
    BY DEF Relay, CheckTime, Receive, ReceiveNothing, Write, WriteToNobody, WriteFailed,
           CloseInput, CloseOutput, Side, Sends, Send, SendTooLate, Close, Abort
  <2>2. got' = got \/ \E e, g : got' = [got EXCEPT ![p][e] = g]
    BY DEF Relay, CheckTime, Receive, ReceiveNothing, Write, WriteToNobody, WriteFailed, CloseSocket,
           CloseInput, CloseOutput, Side, Sends, Send, SendTooLate, Close, Abort
  <2>3. \A l : Step(p, d, l) => \A q \in Process \ {p} : thread'[q] = thread[q]
    BY Functions DEF Step, PerDirection
  <2>4. \A e, g : got' = [got EXCEPT ![p][e] = g] => \A q \in Process \ {p} : got'[q] = got[q]
    BY Functions DEF PerDirection
  <2> QED BY <2>1, <2>2, <2>3, <2>4
<1>5. ASSUME NEW q \in Process \ {p} PROVE Phase(q)'
  BY <1>3, <1>4, PhaseKept DEF outside, Phases
<1>6. Phase(p)'
  BY <1>2, <1>3 DEF outside, Phases, Phase, Relaying, Told
<1> QED BY <1>5, <1>6 DEF Phases

LEMMA PhasesStep == TypeOK /\ Phases /\ [Next]_vars => Phases'
<1> SUFFICES ASSUME TypeOK, Phases, [Next]_vars PROVE Phases'
  OBVIOUS
<1>1. CASE Tick BY <1>1, PhaseKept DEF Tick, relay, Phases
<1>2. CASE UNCHANGED vars BY <1>2, PhaseKept DEF vars, relay, Phases
<1>3. ASSUME NEW p \in Process, Handle(p) PROVE Phases'
  <2>1. ASSUME NEW q \in Process, q # p PROVE Phase(q)'
    BY <1>3, <2>1, HandleElsewhere, PhaseKept DEF Phases
  <2>2. Phase(p)' BY <1>3, PhaseHandle DEF Phases
  <2> QED BY <2>1, <2>2 DEF Phases
<1> QED BY <1>1, <1>2, <1>3, PhasesRelay, NextCases

\* Replies fit the command, and data passes only after the last grant and to the host
\* that was asked for.
THEOREM RepliesFit == Spec => []RepliesInProtocol
<1>1. Phases => RepliesInProtocol
  BY DEF Phases, Phase, RepliesInProtocol, Relaying
<1> QED BY <1>1, TypeCorrect, PhasesInit, PhasesStep, PTL DEF Spec

-----------------------------------------------------------------------------
(* Sequences of pieces. *)

(* Concatenation, by its laws alone. *)
Then(q, r) == q \o r

LEMMA ThenProperties ==
    ASSUME NEW q \in Seq(Piece), NEW r \in Seq(Piece)
    PROVE  /\ Then(q, r) \in Seq(Piece)
           /\ Then(<<>>, q) = q /\ Then(q, <<>>) = q
BY ConcatProperties, ConcatEmptySeq DEF Then

LEMMA ThenAssociative ==
    ASSUME NEW q \in Seq(Piece), NEW r \in Seq(Piece), NEW t \in Seq(Piece)
    PROVE  Then(Then(q, r), t) = Then(q, Then(r, t))
BY ConcatAssociative DEF Then

SentBy(q, t) == \A i \in 1 .. Len(q) : q[i].at <= t

LEMMA PrefixOfConcat ==
    ASSUME NEW s \in Seq(Piece), NEW t \in Seq(Piece)
    PROVE  IsPrefix(s, s \o t)
<1>1. Len(s) <= Len(s \o t) BY ConcatProperties, LenProperties
<1>2. CASE s = <<>>
  BY <1>1, <1>2 DEF IsPrefix
<1>3. CASE s # <<>>
  <2>1. Len(s) \in 1 .. Len(s) /\ 1 \in 1 .. Len(s) BY <1>3, EmptySeq, LenProperties
  <2>2. SubSeq(s \o t, 1, Len(s)) = SubSeq(s, 1, Len(s)) BY <2>1, SubSeqOfConcat1
  <2> QED BY <1>1, <2>2 DEF IsPrefix
<1> QED BY <1>2, <1>3

LEMMA SentByConcat ==
    ASSUME NEW q \in Seq(Piece), NEW r \in Seq(Piece), NEW t, SentBy(q, t), SentBy(r, t)
    PROVE  SentBy(q \o r, t)
<1> SUFFICES ASSUME NEW i \in 1 .. Len(q \o r) PROVE (q \o r)[i].at <= t
  BY DEF SentBy
<1>1. Len(q \o r) = Len(q) + Len(r) /\ Len(q) \in Nat /\ Len(r) \in Nat OBVIOUS
<1>2. CASE i <= Len(q) BY <1>1, <1>2 DEF SentBy
<1>3. CASE i > Len(q)
  <2>1. (q \o r)[i] = r[i - Len(q)] /\ i - Len(q) \in 1 .. Len(r) BY <1>1, <1>3
  <2> QED BY <2>1 DEF SentBy
<1> QED BY <1>1, <1>2, <1>3

LEMMA SentBySubSeq ==
    ASSUME NEW q \in Seq(Piece), NEW t, SentBy(q, t), NEW m \in 1 .. Len(q) + 1, NEW n \in 0 .. Len(q)
    PROVE  SentBy(SubSeq(q, m, n), t)
<1> SUFFICES ASSUME NEW i \in 1 .. Len(SubSeq(q, m, n)) PROVE SubSeq(q, m, n)[i].at <= t
  BY DEF SentBy
<1>1. Len(q) \in Nat /\ m \in Int /\ n \in Int OBVIOUS
<1>2. \A k \in m .. n : q[k] \in Piece BY <1>1, ElementOfSeq
<1>3. /\ Len(SubSeq(q, m, n)) = IF m <= n THEN n - m + 1 ELSE 0
      /\ \A k \in 1 .. n - m + 1 : SubSeq(q, m, n)[k] = q[m + k - 1]
  BY <1>1, <1>2, SubSeqProperties
<1>4. SubSeq(q, m, n)[i] = q[m + i - 1] /\ m + i - 1 \in 1 .. Len(q) BY <1>1, <1>3
<1> QED BY <1>4 DEF SentBy

LEMMA SentByLater ==
    ASSUME NEW q \in Seq(Piece), NEW t \in Int, NEW u \in Int, SentBy(q, t), t <= u
    PROVE  SentBy(q, u)
<1> SUFFICES ASSUME NEW i \in 1 .. Len(q) PROVE q[i].at <= u
  BY DEF SentBy
<1>1. q[i].at <= t BY DEF SentBy
<1>2. q[i] \in Piece BY ElementOfSeq
<1>3. q[i].at \in Int BY <1>2, TimeAssumption DEF Piece, Time
<1> QED BY <1>1, <1>3

LEMMA NothingSent == \A t : SentBy(<<>>, t)
BY DEF SentBy

-----------------------------------------------------------------------------
(* Where the data is. *)

Deadline(p) == start[p] + Limit

Begins(q, t) == \E r \in Seq(Piece) : Then(q, r) = t

(* What was written, is being written, is unread and is lost. *)
All(g, b, w, r) == Then(g, Then(b, Then(w, r)))

(* Into a socket that is open, to a receiver who has not closed: what was written, what   *)
(* is being written and what is unread begin what was sent, and are all of it until the   *)
(* sender or the relay closes.  In every case, what was written begins what was sent.     *)
Flow(p, d) ==
    /\ thread[p][d] \in {"off", "check", "read"} => buf[p][d] = <<>>
    /\ gone[p][Opposite(d)] => eof[p][d]
    /\ Begins(got[p][d], sent[p][d])
    /\ open[p][Opposite(d)] /\ ~gone[p][d] =>
         \E r \in Seq(Piece) :
            /\ All(got[p][d], buf[p][d], wire[p][d], r) = sent[p][d]
            /\ open[p][d] /\ ~eof[p][d] => r = <<>>
    /\ SentBy(buf[p][d], clock) /\ SentBy(wire[p][d], clock)
    /\ SentBy(got[p][d], Deadline(p))
    /\ thread[p][d] = "write" => SentBy(buf[p][d], Deadline(p))

Flows == \A p \in Process, d \in Direction : Flow(p, d)

LEMMA FlowsInit == Init => Flows
<1> SUFFICES ASSUME Init, NEW p \in Process, NEW d \in Direction PROVE Flow(p, d)
  BY DEF Flows
<1>1. <<>> \in Seq(Piece) /\ Then(<<>>, <<>>) = <<>> BY EmptySeq, ThenProperties
<1>2. /\ got[p][d] = <<>> /\ buf[p][d] = <<>> /\ wire[p][d] = <<>> /\ sent[p][d] = <<>>
      /\ ~gone[p][Opposite(d)] /\ thread[p][d] = "off"
  BY Opposites DEF Init
<1>3. Begins(<<>>, <<>>) BY <1>1 DEF Begins
<1>4. All(<<>>, <<>>, <<>>, <<>>) = <<>> BY <1>1 DEF All
<1> QED BY <1>1, <1>2, <1>3, <1>4, NothingSent DEF Flow

LEMMA Typed ==
    ASSUME TypeOK, NEW p \in Process, NEW d \in Direction
    PROVE  /\ buf[p][d] \in Seq(Piece) /\ wire[p][d] \in Seq(Piece)
           /\ sent[p][d] \in Seq(Piece) /\ got[p][d] \in Seq(Piece)
           /\ start[p] \in Int /\ clock \in Int /\ Limit \in Int /\ Deadline(p) \in Int
BY TimeAssumption DEF TypeOK, PerDirection, Time, Deadline

(* What is left of some data begins it. *)
LEMMA RemainsBegin ==
    ASSUME NEW q \in Seq(Piece), NEW r \in Remains(q)
    PROVE  /\ r \in Seq(Piece)
           /\ \E x \in Seq(Piece) : q = Then(r, x)
           /\ \A t : SentBy(q, t) => SentBy(r, t)
<1>1. PICK n \in 0 .. Len(q) : r = SubSeq(q, 1, n) BY DEF Remains
<1>2. Len(q) \in Nat /\ r \in Seq(Piece) /\ SubSeq(q, n + 1, Len(q)) \in Seq(Piece) BY <1>1
<1>3. Then(SubSeq(q, 1, n), SubSeq(q, n + 1, Len(q))) = q
  <2>1. 1 \in 1 .. Len(q) + 1 /\ n \in 1 - 1 .. Len(q) /\ Len(q) \in n .. Len(q) BY <1>2
  <2> QED BY <2>1, ConcatAdjacentSubSeq, SubSeqFull DEF Then
<1>4. 1 \in 1 .. Len(q) + 1 BY <1>2
<1>5. \A t : SentBy(q, t) => SentBy(r, t) BY <1>1, <1>4, SentBySubSeq
<1> QED BY <1>1, <1>2, <1>3, <1>5

LEMMA BeginsLess ==
    ASSUME NEW q \in Seq(Piece), NEW t \in Seq(Piece), Begins(q, t), NEW r \in Remains(q)
    PROVE  Begins(r, t)
<1>1. PICK x \in Seq(Piece) : q = Then(r, x) BY RemainsBegin
<1>2. PICK y \in Seq(Piece) : Then(q, y) = t BY DEF Begins
<1>3. r \in Seq(Piece) BY RemainsBegin
<1>4. Then(r, Then(x, y)) = t BY <1>1, <1>2, <1>3, ThenAssociative
<1>5. Then(x, y) \in Seq(Piece) BY ThenProperties
<1> QED BY <1>4, <1>5 DEF Begins

LEMMA BeginsMore ==
    ASSUME NEW q \in Seq(Piece), NEW t \in Seq(Piece), Begins(q, t), NEW x \in Piece
    PROVE  Begins(q, Append(t, x))
<1>1. PICK y \in Seq(Piece) : Then(q, y) = t BY DEF Begins
<1>2. <<x>> \in Seq(Piece) OBVIOUS
<1>3. Append(t, x) = Then(t, <<x>>) BY AppendIsConcat DEF Then
<1>4. Then(q, Then(y, <<x>>)) = Then(t, <<x>>) BY <1>1, <1>2, ThenAssociative
<1>5. Then(y, <<x>>) \in Seq(Piece) BY <1>2, ThenProperties
<1> QED BY <1>3, <1>4, <1>5 DEF Begins

LEMMA BeginsPrefix ==
    ASSUME NEW q \in Seq(Piece), NEW t \in Seq(Piece), Begins(q, t)
    PROVE  IsPrefix(q, t)
<1>1. PICK y \in Seq(Piece) : q \o y = t BY DEF Begins, Then
<1> QED BY <1>1, PrefixOfConcat

(* The data of a direction stays where it is, or its thread moves on, or a socket or a    *)
(* side closes.                                                                           *)
LEMMA FlowKept ==
    ASSUME TypeOK, TypeOK', NEW p \in Process, NEW d \in Direction, Flow(p, d),
           start'[p] = start[p] \/ (thread[p][d] = "off" /\ got[p][d] = <<>>),
           clock <= clock',
           gone'[p][Opposite(d)] => eof'[p][d],
           gone[p][d] => gone'[p][d],
           eof[p][d] => eof'[p][d],
           open'[p][d] => open[p][d],
           open'[p][Opposite(d)] => open[p][Opposite(d)],
           buf'[p][d] = buf[p][d], wire'[p][d] = wire[p][d],
           sent'[p][d] = sent[p][d], got'[p][d] = got[p][d],
           \/ thread'[p][d] = thread[p][d]
           \/ thread'[p][d] \notin {"off", "check", "read", "write"}
           \/ buf[p][d] = <<>>
    PROVE  Flow(p, d)'
<1>1. SentBy(buf[p][d], clock') /\ SentBy(wire[p][d], clock')
  <2>1. clock \in Int /\ clock' \in Int BY Typed, TimeAssumption DEF TypeOK, Time
  <2> QED BY <2>1, Typed, SentByLater DEF Flow
<1>2. SentBy(got[p][d], Deadline(p)')
  BY NothingSent DEF Flow, Deadline
<1>3. thread'[p][d] = "write" => SentBy(buf[p][d], Deadline(p)')
  BY NothingSent DEF Flow, Deadline
<1>4. open'[p][Opposite(d)] /\ ~gone'[p][d] =>
         \E r \in Seq(Piece) :
            /\ All(got'[p][d], buf'[p][d], wire'[p][d], r) = sent'[p][d]
            /\ open'[p][d] /\ ~eof'[p][d] => r = <<>>
  BY DEF Flow
<1> QED BY <1>1, <1>2, <1>3, <1>4 DEF Flow

LEMMA FlowsHandle ==
    ASSUME TypeOK, TypeOK', Phases, Flows, NEW p \in Process, Handle(p)
    PROVE  Flows'
<1> SUFFICES ASSUME NEW q \in Process, NEW d \in Direction PROVE Flow(q, d)'
  BY DEF Flows
<1>1. UNCHANGED <<buf, wire, sent, got, gone, eof, open, clock>> /\ Flow(q, d)
  BY DEF Handle, Fork, ReadStartTime, Truncate, Flush, Drop, Throw, RefuseRequest, ReadRequest, CheckLimit,
         CheckFirewall, Connect, Listen, AcceptPeer, Join, StartRelay, RejectAndEnd, relay, Flows
<1>2. start'[q] = start[q] \/ (thread[q][d] = "off" /\ got[q][d] = <<>>)
  <2>1. CASE ReadStartTime(p)
    <3>1. pc[p] = "startTime" /\ thread[p][d] = "off" /\ got[p][d] = <<>>
      BY <2>1 DEF ReadStartTime, Phases, Phase
    <3>2. \A t : start' = [start EXCEPT ![p] = t] => q = p \/ start'[q] = start[q]
      BY DEF TypeOK
    <3> QED BY <2>1, <3>1, <3>2 DEF ReadStartTime
  <2>2. CASE ~ReadStartTime(p)
    <3>1. start' = start
      BY <2>2 DEF Handle, Fork, Truncate, Flush, Drop, Throw, RefuseRequest, ReadRequest, CheckLimit,
                  CheckFirewall, Connect, Listen, AcceptPeer, Join, StartRelay, RejectAndEnd
    <3> QED BY <3>1
  <2> QED BY <2>1, <2>2
<1>3. thread'[q][d] = thread[q][d] \/ buf[q][d] = <<>>
  <2>1. ASSUME NEW who \in {"destination", "other"}, StartRelay(p, who), pc[p] \notin {"relay", "ended"}
        PROVE  thread'[q][d] = thread[q][d] \/ buf[q][d] = <<>>
    <3>1. CASE q # p BY <2>1, <3>1 DEF StartRelay, TypeOK, PerDirection
    <3>2. CASE q = p
      <4>1. thread[p][d] = "off" BY <2>1 DEF Phases, Phase
      <4> QED BY <3>2, <4>1 DEF Flows, Flow
    <3> QED BY <3>1, <3>2
  <2>2. CASE UNCHANGED thread BY <2>2
  <2> QED
    BY <2>1, <2>2
    DEF Handle, Fork, ReadStartTime, Truncate, Flush, Drop, Throw, RefuseRequest, ReadRequest, CheckLimit,
        CheckFirewall, Connect, Listen, AcceptPeer, Join, RejectAndEnd, relay
<1>4. clock <= clock' BY <1>1, Typed, TimeAssumption DEF TypeOK, Time
<1>5. gone'[q][Opposite(d)] => eof'[q][d] BY <1>1 DEF Flow
<1> QED BY <1>1, <1>2, <1>3, <1>4, <1>5, FlowKept

(* Regrouping: a write, a loss or a read, what is sent to a closed and to an open socket. *)
LEMMA AllWritten ==
    ASSUME NEW g \in Seq(Piece), NEW b \in Seq(Piece), NEW w \in Seq(Piece), NEW r \in Seq(Piece)
    PROVE  All(Then(g, b), <<>>, w, r) = All(g, b, w, r)
BY ThenProperties, ThenAssociative DEF All

LEMMA AllCut ==
    ASSUME NEW g, NEW b, NEW w \in Seq(Piece), NEW x \in Seq(Piece), NEW r \in Seq(Piece)
    PROVE  All(g, b, Then(w, x), r) = All(g, b, w, Then(x, r))
BY ThenAssociative DEF All

LEMMA AllRead ==
    ASSUME NEW g, NEW b \in Seq(Piece), NEW w \in Seq(Piece), NEW r \in Seq(Piece)
    PROVE  All(g, b, w, r) = All(g, <<>>, Then(b, w), r)
BY ThenProperties, ThenAssociative DEF All

LEMMA AllLate ==
    ASSUME NEW g \in Seq(Piece), NEW b \in Seq(Piece), NEW w \in Seq(Piece), NEW r \in Seq(Piece),
           NEW x \in Seq(Piece)
    PROVE  All(g, b, w, Then(r, x)) = Then(All(g, b, w, r), x)
BY ThenProperties, ThenAssociative DEF All

LEMMA AllSent ==
    ASSUME NEW g \in Seq(Piece), NEW b \in Seq(Piece), NEW w \in Seq(Piece), NEW x \in Seq(Piece)
    PROVE  All(g, b, Then(w, x), <<>>) = Then(All(g, b, w, <<>>), x)
BY ThenProperties, ThenAssociative DEF All

(* Nothing can be written to the receiver any more. *)
LEMMA FlowShut ==
    ASSUME TypeOK, TypeOK', NEW p \in Process, NEW d \in Direction, Flow(p, d),
           start' = start, clock' = clock,
           ~open'[p][Opposite(d)] \/ gone'[p][d],
           gone'[p][Opposite(d)] => eof'[p][d],
           got'[p][d] = got[p][d] \/ got'[p][d] \in Remains(got[p][d]),
           \/ sent'[p][d] = sent[p][d]
           \/ \E x \in Piece : sent'[p][d] = Append(sent[p][d], x),
           SentBy(buf'[p][d], clock), SentBy(wire'[p][d], clock),
           thread'[p][d] \in {"off", "check", "read"} => buf'[p][d] = <<>>,
           thread'[p][d] = "write" => SentBy(buf'[p][d], Deadline(p))
    PROVE  Flow(p, d)'
<1>1. got'[p][d] \in Seq(Piece) /\ got[p][d] \in Seq(Piece) /\ sent[p][d] \in Seq(Piece)
  BY DEF TypeOK, PerDirection
<1>2. Begins(got'[p][d], sent[p][d]) BY <1>1, BeginsLess DEF Flow
<1>3. Begins(got'[p][d], sent'[p][d]) BY <1>1, <1>2, BeginsMore
<1>4. SentBy(got'[p][d], Deadline(p)) BY <1>1, RemainsBegin DEF Flow
<1>5. Deadline(p)' = Deadline(p) BY DEF Deadline
<1> QED BY <1>3, <1>4, <1>5 DEF Flow

(* Unread data is lost, after the sender or the relay has closed. *)
LEMMA FlowCut ==
    ASSUME TypeOK, TypeOK', NEW p \in Process, NEW d \in Direction, Flow(p, d),
           start' = start, clock' = clock,
           gone'[p][Opposite(d)] => eof'[p][d],
           gone[p][d] => gone'[p][d],
           open'[p][Opposite(d)] => open[p][Opposite(d)],
           ~open'[p][d] \/ eof'[p][d],
           wire'[p][d] \in Remains(wire[p][d]),
           buf'[p][d] = buf[p][d], sent'[p][d] = sent[p][d], got'[p][d] = got[p][d],
           \/ thread'[p][d] = thread[p][d]
           \/ thread'[p][d] \notin {"off", "check", "read", "write"}
    PROVE  Flow(p, d)'
<1>1. wire[p][d] \in Seq(Piece) /\ got[p][d] \in Seq(Piece) /\ buf[p][d] \in Seq(Piece) BY Typed
<1>2. PICK x \in Seq(Piece) : wire[p][d] = Then(wire'[p][d], x) BY <1>1, RemainsBegin
<1>3. wire'[p][d] \in Seq(Piece) /\ SentBy(wire'[p][d], clock) BY <1>1, RemainsBegin DEF Flow
<1>4. ASSUME open'[p][Opposite(d)] /\ ~gone'[p][d]
      PROVE  \E r \in Seq(Piece) : All(got'[p][d], buf'[p][d], wire'[p][d], r) = sent'[p][d]
  <2>1. PICK r \in Seq(Piece) : All(got[p][d], buf[p][d], wire[p][d], r) = sent[p][d]
    BY <1>4 DEF Flow
  <2>2. All(got[p][d], buf[p][d], wire'[p][d], Then(x, r)) = sent[p][d]
    BY <1>2, <1>3, <2>1, AllCut
  <2>3. Then(x, r) \in Seq(Piece) BY ThenProperties
  <2> QED BY <2>2, <2>3
<1>5. Deadline(p)' = Deadline(p) BY DEF Deadline
<1> QED BY <1>3, <1>4, <1>5 DEF Flow

LEMMA FlowsClose ==
    ASSUME TypeOK, TypeOK', Flows, NEW p \in Process, NEW d \in Direction, CloseSocket(p, d),
           UNCHANGED <<outside, sides, buf>>,
           \A q \in Process, e \in Direction :
              thread'[q][e] = thread[q][e] \/ thread'[q][e] \notin {"off", "check", "read", "write"}
    PROVE  Flows'
<1> SUFFICES ASSUME NEW q \in Process, NEW e \in Direction PROVE Flow(q, e)'
  BY DEF Flows
<1>0. /\ Flow(q, e) /\ clock' = clock /\ clock <= clock' /\ start' = start
      /\ UNCHANGED <<sent, gone, eof>>
  BY Typed DEF Flows, outside, sides
<1>1. /\ open' = [open EXCEPT ![p][d] = FALSE] /\ wire' = [wire EXCEPT ![p][d] = <<>>]
  BY DEF CloseSocket
<1>2. PICK g : /\ got' = [got EXCEPT ![p][Opposite(d)] = g]
               /\ g = got[p][Opposite(d)] \/ g \in Remains(got[p][Opposite(d)])
  BY DEF CloseSocket
<1>3. /\ \A u \in Process, f \in Direction : (u # p \/ f # d) =>
             open'[u][f] = open[u][f] /\ wire'[u][f] = wire[u][f]
      /\ open'[p][d] = FALSE /\ wire'[p][d] = <<>>
  BY <1>1, Functions DEF PerDirection
<1>4. /\ \A u \in Process, f \in Direction : (u # p \/ f # Opposite(d)) => got'[u][f] = got[u][f]
      /\ got'[p][Opposite(d)] = g
  BY <1>2, Functions, Opposites DEF PerDirection
<1>5. CASE q # p
  <2>1. Opposite(e) \in Direction BY Opposites
  <2>2. gone'[q][Opposite(e)] => eof'[q][e] BY <1>0 DEF Flow
  <2>3. /\ open'[q][e] = open[q][e] /\ open'[q][Opposite(e)] = open[q][Opposite(e)]
        /\ wire'[q][e] = wire[q][e] /\ got'[q][e] = got[q][e] /\ buf'[q][e] = buf[q][e]
    BY <1>3, <1>4, <1>5, <2>1
  <2> QED BY <1>0, <2>2, <2>3, FlowKept
<1>6. CASE q = p /\ e = d
  <2>1. wire'[p][d] \in Remains(wire[p][d])
    <3>1. wire[p][d] \in Seq(Piece) BY Typed
    <3>2. SubSeq(wire[p][d], 1, 0) = <<>> /\ 0 \in 0 .. Len(wire[p][d]) BY <3>1
    <3> QED BY <1>3, <3>2 DEF Remains
  <2>2. Opposite(d) \in Direction /\ Opposite(d) # d BY Opposites
  <2>3. Flow(p, d) /\ gone'[p][Opposite(d)] => eof'[p][d] BY <1>0, <1>6 DEF Flow
  <2>4. /\ open'[p][Opposite(d)] = open[p][Opposite(d)] /\ ~open'[p][d]
        /\ got'[p][d] = got[p][d] /\ buf'[p][d] = buf[p][d]
    BY <1>3, <1>4, <2>2
  <2>5. Flow(p, d)' BY <1>0, <1>6, <2>1, <2>3, <2>4, FlowCut
  <2> QED BY <1>6, <2>5
<1>7. CASE q = p /\ e = Opposite(d)
  <2>1. Opposite(e) = d /\ e # d BY <1>7, Opposites
  <2>2. thread'[p][e] \in {"off", "check", "read", "write"} => thread'[p][e] = thread[p][e]
    OBVIOUS
  <2>3. Flow(p, e) BY <1>0, <1>7
  <2>4. /\ ~open'[p][Opposite(e)] /\ sent'[p][e] = sent[p][e]
        /\ got'[p][e] = got[p][e] \/ got'[p][e] \in Remains(got[p][e])
        /\ wire'[p][e] = wire[p][e] /\ buf'[p][e] = buf[p][e]
    BY <1>0, <1>2, <1>3, <1>4, <1>7, <2>1
  <2>5. gone'[p][Opposite(e)] => eof'[p][e] BY <1>0, <2>3 DEF Flow
  <2>6. /\ SentBy(buf'[p][e], clock) /\ SentBy(wire'[p][e], clock)
        /\ thread'[p][e] \in {"off", "check", "read"} => buf'[p][e] = <<>>
        /\ thread'[p][e] = "write" => SentBy(buf'[p][e], Deadline(p))
    BY <2>2, <2>3, <2>4 DEF Flow
  <2>7. Flow(p, e)' BY <1>0, <2>3, <2>4, <2>5, <2>6, FlowShut
  <2> QED BY <1>7, <2>7
<1> QED BY <1>5, <1>6, <1>7, Opposites

(* A relay step that leaves a direction's data alone. *)
LEMMA FlowElsewhere ==
    ASSUME TypeOK, TypeOK', Flows, NEW p \in Process, NEW d \in Direction, Relay(p, d),
           ~CloseInput(p, d), ~CloseOutput(p, d),
           NEW q \in Process, NEW e \in Direction, q # p \/ e # d,
           q # p \/ ~WriteToNobody(p, d)
    PROVE  Flow(q, e)'
<1>1. /\ UNCHANGED <<outside, sides, open>>
  BY DEF Relay, CheckTime, Receive, ReceiveNothing, Write, WriteToNobody, WriteFailed
<1>2. /\ Flow(q, e) /\ clock' = clock /\ clock <= clock' /\ start' = start
      /\ UNCHANGED <<sent, gone, eof, open>>
  BY <1>1, Typed DEF Flows, outside, sides
<1>3. thread'[q][e] = thread[q][e]
  <2>1. PICK l : Step(p, d, l)
    BY DEF Relay, CheckTime, Receive, ReceiveNothing, Write, WriteToNobody, WriteFailed
  <2> QED BY <2>1, Functions DEF PerDirection, Step
<1>4. buf'[q][e] = buf[q][e]
  <2>1. buf' = buf \/ \E v : buf' = [buf EXCEPT ![p][d] = v]
    BY DEF Relay, CheckTime, Receive, ReceiveNothing, Write, WriteToNobody, WriteFailed
  <2> QED BY <2>1, Functions DEF PerDirection
<1>5. got'[q][e] = got[q][e]
  <2>1. got' = got \/ \E v : got' = [got EXCEPT ![p][d] = v]
    BY DEF Relay, CheckTime, Receive, ReceiveNothing, Write, WriteToNobody, WriteFailed
  <2> QED BY <2>1, Functions DEF PerDirection
<1>6. wire'[q][e] = wire[q][e]
  <2>1. CASE WriteToNobody(p, d)
    <3>1. PICK v : wire' = [wire EXCEPT ![p][Opposite(d)] = v] BY <2>1 DEF WriteToNobody
    <3> QED BY <2>1, <3>1, Functions, Opposites DEF PerDirection
  <2>2. CASE ~WriteToNobody(p, d)
    <3>1. wire' = wire \/ \E v : wire' = [wire EXCEPT ![p][d] = v]
      BY <2>2 DEF Relay, CheckTime, Receive, ReceiveNothing, Write, WriteFailed
    <3> QED BY <3>1, Functions DEF PerDirection
  <2> QED BY <2>1, <2>2
<1> QED BY <1>2, <1>3, <1>4, <1>5, <1>6, FlowKept DEF Flow

LEMMA FlowReceive ==
    ASSUME TypeOK, TypeOK', NEW p \in Process, NEW d \in Direction, Flow(p, d), Receive(p, d)
    PROVE  Flow(p, d)'
<1> DEFINE w == wire[p][d]
<1>1. PICK n \in 1 .. Len(w) :
        /\ buf'[p][d] = SubSeq(w, 1, n) /\ wire'[p][d] = SubSeq(w, n + 1, Len(w))
  <2>1. PICK n \in 1 .. Len(wire[p][d]) :
          /\ buf' = [buf EXCEPT ![p][d] = SubSeq(wire[p][d], 1, n)]
          /\ wire' = [wire EXCEPT ![p][d] = SubSeq(wire[p][d], n + 1, Len(wire[p][d]))]
    BY DEF Receive, TypeOK, PerDirection
  <2> QED BY <2>1, Functions DEF PerDirection
<1>2. /\ thread'[p][d] = "recheck" /\ thread[p][d] = "read"
      /\ UNCHANGED <<outside, sides, got, open>>
  BY Functions DEF PerDirection, Receive, Step, AfterRead
<1>3. /\ clock' = clock /\ start' = start /\ Deadline(p)' = Deadline(p)
      /\ UNCHANGED <<sent, gone, eof, got, open>> /\ buf[p][d] = <<>>
  BY <1>2 DEF outside, sides, Deadline, Flow
<1>4. w \in Seq(Piece) /\ Len(w) \in Nat /\ got[p][d] \in Seq(Piece) /\ <<>> \in Seq(Piece) BY Typed
<1>5. SentBy(w, clock) BY DEF Flow
<1> HIDE DEF w
<1>7. /\ 1 \in 1 .. Len(w) + 1 /\ n + 1 \in 1 .. Len(w) + 1
      /\ n \in 0 .. Len(w) /\ Len(w) \in 0 .. Len(w) /\ n \in 1 - 1 .. Len(w) /\ Len(w) \in n .. Len(w)
  BY <1>4
<1>8. SubSeq(w, 1, n) \o SubSeq(w, n + 1, Len(w)) = w
  BY <1>4, <1>7, ConcatAdjacentSubSeq, SubSeqFull
<1>9. SentBy(SubSeq(w, 1, n), clock) /\ SentBy(SubSeq(w, n + 1, Len(w)), clock)
  BY <1>4, <1>5, <1>7, SentBySubSeq
<1>10. \A r \in Seq(Piece) :
         All(got'[p][d], buf'[p][d], wire'[p][d], r) = All(got[p][d], buf[p][d], w, r)
  <2>1. buf'[p][d] \in Seq(Piece) /\ wire'[p][d] \in Seq(Piece) BY DEF TypeOK, PerDirection
  <2>2. Then(buf'[p][d], wire'[p][d]) = w BY <1>1, <1>8 DEF Then
  <2> QED BY <1>3, <2>1, <2>2, AllRead
<1>11. w = wire[p][d] BY DEF w
<1> QED BY <1>1, <1>2, <1>3, <1>9, <1>10, <1>11 DEF Flow

LEMMA FlowWrite ==
    ASSUME TypeOK, TypeOK', NEW p \in Process, NEW d \in Direction, Flow(p, d), Write(p, d)
    PROVE  Flow(p, d)'
<1> DEFINE g == got[p][d]
           b == buf[p][d]
           w == wire[p][d]
<1>1. /\ got'[p][d] = Then(g, b) /\ buf'[p][d] = <<>> /\ wire' = wire
      /\ thread'[p][d] = "check" /\ thread[p][d] = "write"
      /\ open[p][Opposite(d)] /\ ~gone[p][d] /\ UNCHANGED <<outside, sides, open>>
  BY Functions DEF PerDirection, Write, Step, Then
<1>2. /\ clock' = clock /\ start' = start /\ Deadline(p)' = Deadline(p)
      /\ UNCHANGED <<sent, gone, eof, open>>
  BY <1>1 DEF outside, sides, Deadline
<1>3. g \in Seq(Piece) /\ b \in Seq(Piece) /\ w \in Seq(Piece) BY Typed
<1>4. SentBy(Then(g, b), Deadline(p)) BY <1>1, <1>3, SentByConcat DEF Flow, Then
<1>5. PICK r \in Seq(Piece) :
        /\ All(g, b, w, r) = sent[p][d]
        /\ open[p][d] /\ ~eof[p][d] => r = <<>>
  BY <1>1 DEF Flow
<1> HIDE DEF g, b, w
<1>6. All(Then(g, b), <<>>, w, r) = sent[p][d] BY <1>3, <1>5, AllWritten
<1>7. Begins(Then(g, b), sent[p][d])
  BY <1>3, <1>6, ThenProperties, EmptySeq DEF All, Begins
<1>8. gone'[p][Opposite(d)] => eof'[p][d] BY <1>2 DEF Flow
<1>9. SentBy(wire'[p][d], clock') BY <1>1, <1>2 DEF Flow
<1>10. wire'[p][d] = w BY <1>1 DEF w
<1> QED BY <1>1, <1>2, <1>4, <1>5, <1>6, <1>7, <1>8, <1>9, <1>10, NothingSent DEF Flow

LEMMA FlowWriteToNobody ==
    ASSUME TypeOK, TypeOK', Flows, NEW p \in Process, NEW d \in Direction, WriteToNobody(p, d)
    PROVE  Flow(p, d)' /\ Flow(p, Opposite(d))'
<1> DEFINE o == Opposite(d)
<1>1. o \in Direction /\ o # d /\ Opposite(o) = d BY Opposites
<1>2. Flow(p, d) /\ Flow(p, o) BY <1>1 DEF Flows
<1>3. PICK v \in Remains(wire[p][o]) : wire' = [wire EXCEPT ![p][o] = v] BY DEF WriteToNobody
<1>4. /\ wire'[p][o] = v /\ wire'[p][d] = wire[p][d]
      /\ buf'[p][d] = <<>> /\ buf'[p][o] = buf[p][o]
      /\ thread'[p][d] = "check" /\ thread'[p][o] = thread[p][o]
  <2>1. wire'[p][o] = v /\ wire'[p][d] = wire[p][d]
    BY <1>1, <1>3, Functions DEF PerDirection
  <2>2. buf'[p][d] = <<>> /\ buf'[p][o] = buf[p][o]
    BY <1>1, Functions DEF PerDirection, WriteToNobody
  <2>3. thread'[p][d] = "check" /\ thread'[p][o] = thread[p][o]
    BY <1>1, Functions DEF PerDirection, WriteToNobody, Step
  <2> QED BY <2>1, <2>2, <2>3
<1>5. /\ clock' = clock /\ start' = start /\ gone[p][d]
      /\ UNCHANGED <<sent, gone, eof, open, got>>
  BY DEF WriteToNobody, outside, sides
<1>6. Flow(p, d)'
  <2>1. gone'[p][Opposite(d)] => eof'[p][d] BY <1>2, <1>5 DEF Flow
  <2>2. SentBy(buf'[p][d], clock) /\ SentBy(wire'[p][d], clock) BY <1>2, <1>4, NothingSent DEF Flow
  <2> HIDE DEF o
  <2> QED BY <1>2, <1>4, <1>5, <2>1, <2>2, FlowShut
<1>7. eof[p][o] BY <1>1, <1>2, <1>5 DEF Flow
<1> HIDE DEF o
<1>8. Flow(p, o)' BY <1>1, <1>2, <1>4, <1>5, <1>7, FlowCut DEF Flow
<1> QED BY <1>6, <1>8 DEF o

LEMMA FlowsRelay ==
    ASSUME TypeOK, TypeOK', Flows, NEW p \in Process, NEW d \in Direction, Relay(p, d)
    PROVE  Flows'
<1>1. CASE CloseInput(p, d) \/ CloseOutput(p, d)
  <2>1. /\ UNCHANGED <<outside, sides, buf>>
        /\ \E l \in {"closeOut", "over"} : Step(p, d, l)
        /\ CloseSocket(p, d) \/ CloseSocket(p, Opposite(d))
    BY <1>1 DEF CloseInput, CloseOutput
  <2>2. \A q \in Process, e \in Direction :
          thread'[q][e] = thread[q][e] \/ thread'[q][e] \notin {"off", "check", "read", "write"}
    BY <2>1, Functions DEF PerDirection, Step
  <2> QED BY <2>1, <2>2, Opposites, FlowsClose
<1>2. CASE ~CloseInput(p, d) /\ ~CloseOutput(p, d)
  <2>1. ASSUME NEW q \in Process, NEW e \in Direction, q # p \/ e # d PROVE Flow(q, e)'
    <3>1. CASE q # p \/ ~WriteToNobody(p, d) BY <1>2, <2>1, <3>1, FlowElsewhere
    <3>2. CASE q = p /\ WriteToNobody(p, d)
      <4>1. e = Opposite(d) BY <2>1, <3>2, Opposites
      <4> QED BY <3>2, <4>1, FlowWriteToNobody
    <3> QED BY <3>1, <3>2
  <2>2. Flow(p, d)'
    <3>0. Flow(p, d) BY DEF Flows
    <3>1. CASE Receive(p, d) BY <3>0, <3>1, FlowReceive
    <3>2. CASE Write(p, d) BY <3>0, <3>2, FlowWrite
    <3>3. CASE WriteToNobody(p, d) BY <3>3, FlowWriteToNobody
    <3>4. CASE ReceiveNothing(p, d) \/ WriteFailed(p, d)
      <4>1. UNCHANGED <<outside, sides, buf, wire, got, open>> /\ Step(p, d, "closeIn")
        BY <3>4 DEF ReceiveNothing, WriteFailed
      <4>2. thread'[p][d] = "closeIn" BY <4>1, Functions DEF PerDirection, Step
      <4>3. clock <= clock' BY <4>1, Typed DEF outside
      <4> QED BY <3>0, <4>1, <4>2, <4>3, FlowKept DEF outside, sides, Flow
    <3>5. CASE CheckTime(p, d)
      <4>1. UNCHANGED <<outside, sides, buf, wire, got, open>> /\ thread[p][d] \in {"check", "recheck"}
        BY <3>5 DEF CheckTime
      <4>2. thread'[p][d] = IF Exceeded(p) THEN "closeIn"
                            ELSE IF thread[p][d] = "check" THEN "read" ELSE "write"
        BY <3>5, Functions DEF PerDirection, CheckTime, Step
      <4>3. /\ clock' = clock /\ start' = start /\ Deadline(p)' = Deadline(p)
            /\ UNCHANGED <<sent, gone, eof, buf, wire, got, open>>
        BY <4>1 DEF outside, sides, Deadline
      <4>4. thread'[p][d] = "write" => SentBy(buf[p][d], Deadline(p))
        <5>1. SUFFICES ASSUME thread'[p][d] = "write" PROVE SentBy(buf[p][d], Deadline(p))
          OBVIOUS
        <5>2. clock <= Deadline(p) BY <4>2, <5>1, Typed DEF Exceeded, Deadline
        <5> QED BY <3>0, <5>2, Typed, SentByLater DEF Flow
      <4>5. thread'[p][d] \in {"off", "check", "read"} => buf[p][d] = <<>>
        BY <3>0, <4>1, <4>2 DEF Flow
      <4> QED BY <3>0, <4>3, <4>4, <4>5 DEF Flow
    <3> QED BY <1>2, <3>1, <3>2, <3>3, <3>4, <3>5 DEF Relay
  <2> QED BY <2>1, <2>2 DEF Flows
<1> QED BY <1>1, <1>2

(* A side sends, into an open socket or one that the relay has closed. *)
LEMMA FlowSent ==
    ASSUME TypeOK, TypeOK', NEW p \in Process, NEW d \in Direction, Flow(p, d),
           Send(p, d) \/ SendTooLate(p, d)
    PROVE  Flow(p, d)'
<1> DEFINE x == [at |-> clock]
           g == got[p][d]
           b == buf[p][d]
           w == wire[p][d]
           t == sent[p][d]
<1>1. /\ sent'[p][d] = Append(t, x)
      /\ wire'[p][d] = IF open[p][d] THEN Append(w, x) ELSE w
      /\ got'[p][d] = g /\ ~eof[p][d]
      /\ UNCHANGED <<outside, thread, buf, eof, gone, open>>
  <2>0. Opposite(d) # d /\ Opposite(d) \in Direction BY Opposites
  <2>1. sent' = [sent EXCEPT ![p][d] = Append(sent[p][d], [at |-> clock])]
    BY DEF Send, SendTooLate, Sends
  <2>2. CASE Send(p, d)
    <3>1. /\ wire' = [wire EXCEPT ![p][d] = Append(wire[p][d], [at |-> clock])]
          /\ got' = got /\ open[p][d]
      BY <2>2 DEF Send
    <3> QED BY <2>1, <2>2, <3>1, Functions DEF PerDirection, Send, Sends
  <2>3. CASE SendTooLate(p, d)
    <3>1. PICK v : got' = [got EXCEPT ![p][Opposite(d)] = v] BY <2>3 DEF SendTooLate
    <3> QED BY <2>0, <2>1, <2>3, <3>1, Functions DEF PerDirection, SendTooLate, Sends
  <2> QED BY <2>2, <2>3
<1>2. /\ clock' = clock /\ start' = start /\ Deadline(p)' = Deadline(p)
  BY <1>1 DEF outside, Deadline
<1>3. /\ g \in Seq(Piece) /\ b \in Seq(Piece) /\ w \in Seq(Piece) /\ t \in Seq(Piece)
      /\ x \in Piece
  BY Typed DEF TypeOK, Piece
<1>4. SentBy(<<x>>, clock) BY Typed DEF SentBy
<1>5. /\ Begins(g, t) /\ SentBy(w, clock) /\ buf'[p][d] = b
      /\ open[p][Opposite(d)] /\ ~gone[p][d] =>
           \E r \in Seq(Piece) : All(g, b, w, r) = t /\ (open[p][d] /\ ~eof[p][d] => r = <<>>)
  BY <1>1 DEF Flow
<1> HIDE DEF x, g, b, w, t
<1>6. <<x>> \in Seq(Piece) /\ Append(w, x) = Then(w, <<x>>) /\ Append(t, x) = Then(t, <<x>>)
  BY <1>3, AppendIsConcat DEF Then
<1>7. Begins(got'[p][d], sent'[p][d]) BY <1>1, <1>3, <1>5, BeginsMore
<1>8. SentBy(wire'[p][d], clock) BY <1>1, <1>3, <1>4, <1>5, <1>6, SentByConcat DEF Then
<1>9. ASSUME open'[p][Opposite(d)] /\ ~gone'[p][d]
      PROVE  \E r \in Seq(Piece) :
                /\ All(got'[p][d], buf'[p][d], wire'[p][d], r) = sent'[p][d]
                /\ open'[p][d] /\ ~eof'[p][d] => r = <<>>
  <2>1. PICK r \in Seq(Piece) :
          All(g, b, w, r) = t /\ (open[p][d] /\ ~eof[p][d] => r = <<>>)
    BY <1>1, <1>5, <1>9
  <2>2. PICK y \in Seq(Piece) : y = <<x>> BY <1>6
  <2>3. CASE open[p][d]
    <3>1. r = <<>> BY <1>1, <2>1, <2>3
    <3>2. All(g, b, Then(w, y), r) = Then(t, y) BY <1>3, <2>1, <3>1, AllSent
    <3> QED BY <1>1, <1>5, <1>6, <2>2, <2>3, <3>1, <3>2
  <2>4. CASE ~open[p][d]
    <3>1. All(g, b, w, Then(r, y)) = Then(t, y) BY <1>3, <2>1, AllLate
    <3>2. Then(r, y) \in Seq(Piece) BY ThenProperties
    <3> QED BY <1>1, <1>5, <1>6, <2>2, <2>4, <3>1, <3>2
  <2> QED BY <2>3, <2>4
<1>10. /\ thread'[p][d] \in {"off", "check", "read"} => buf'[p][d] = <<>>
       /\ gone'[p][Opposite(d)] => eof'[p][d]
       /\ SentBy(buf'[p][d], clock') /\ SentBy(got'[p][d], Deadline(p)')
       /\ thread'[p][d] = "write" => SentBy(buf'[p][d], Deadline(p)')
  BY <1>1, <1>2 DEF Flow, g
<1> QED BY <1>2, <1>7, <1>8, <1>9, <1>10 DEF Flow

LEMMA FlowsSides ==
    ASSUME TypeOK, TypeOK', Flows, NEW p \in Process, NEW d \in Direction, Side(p, d)
    PROVE  Flows'
<1> SUFFICES ASSUME NEW q \in Process, NEW e \in Direction PROVE Flow(q, e)'
  BY DEF Flows
<1>0. UNCHANGED <<outside, thread, buf, open>>
  BY DEF Side, Sends, Send, SendTooLate, Close, Abort
<1>1. /\ Flow(q, e) /\ Flow(p, d) /\ clock' = clock /\ clock <= clock' /\ start' = start
      /\ Opposite(d) \in Direction /\ Opposite(d) # d /\ Opposite(Opposite(d)) = d
      /\ Opposite(e) \in Direction /\ Opposite(Opposite(e)) = e
  BY <1>0, Typed, Opposites DEF Flows, outside
<1>2. CASE Send(p, d) \/ SendTooLate(p, d)
  <2>1. /\ UNCHANGED <<eof, gone>>
        /\ q # p \/ e # d => sent'[q][e] = sent[q][e] /\ wire'[q][e] = wire[q][e]
    <3>1. \E v : sent' = [sent EXCEPT ![p][d] = v] BY <1>2 DEF Send, SendTooLate, Sends
    <3>2. wire' = wire \/ \E v : wire' = [wire EXCEPT ![p][d] = v] BY <1>2 DEF Send, SendTooLate
    <3>3. UNCHANGED <<eof, gone>> BY <1>2 DEF Send, SendTooLate, Sends
    <3> QED BY <3>1, <3>2, <3>3, Functions DEF PerDirection
  <2>2. CASE q = p /\ e = d BY <1>1, <1>2, <2>2, FlowSent
  <2>3. CASE got'[q][e] = got[q][e] /\ (q # p \/ e # d)
    BY <1>0, <1>1, <2>1, <2>3, FlowKept DEF Flow
  <2>4. CASE q = p /\ e = Opposite(d) /\ SendTooLate(p, d)
    <3>1. got'[p][e] \in Remains(got[p][e]) /\ ~open[p][d]
      BY <1>1, <2>4, Functions DEF PerDirection, SendTooLate
    <3>2. Flow(p, e) /\ Opposite(e) = d /\ e # d BY <1>1, <2>4
    <3>3. /\ ~open'[p][Opposite(e)] /\ sent'[p][e] = sent[p][e]
          /\ wire'[p][e] = wire[p][e] /\ buf'[p][e] = buf[p][e] /\ thread'[p][e] = thread[p][e]
      BY <1>0, <2>1, <2>4, <3>1, <3>2
    <3>4. gone'[p][Opposite(e)] => eof'[p][e] BY <2>1, <3>2 DEF Flow
    <3>5. /\ SentBy(buf'[p][e], clock) /\ SentBy(wire'[p][e], clock)
          /\ thread'[p][e] \in {"off", "check", "read"} => buf'[p][e] = <<>>
          /\ thread'[p][e] = "write" => SentBy(buf'[p][e], Deadline(p))
      BY <3>2, <3>3 DEF Flow
    <3>6. Flow(p, e)' BY <1>1, <3>1, <3>2, <3>3, <3>4, <3>5, FlowShut
    <3> QED BY <2>4, <3>6
  <2>5. (q # p \/ e # Opposite(d)) \/ Send(p, d) => got'[q][e] = got[q][e]
    <3>1. Send(p, d) => got' = got BY DEF Send
    <3>2. SendTooLate(p, d) => \E v : got' = [got EXCEPT ![p][Opposite(d)] = v] BY DEF SendTooLate
    <3>3. SendTooLate(p, d) /\ (q # p \/ e # Opposite(d)) => got'[q][e] = got[q][e]
      <4> SUFFICES ASSUME SendTooLate(p, d), q # p \/ e # Opposite(d) PROVE got'[q][e] = got[q][e]
        OBVIOUS
      <4>1. PICK v : got' = [got EXCEPT ![p][Opposite(d)] = v] BY <3>2
      <4> QED BY <1>1, <4>1, Functions DEF PerDirection
    <3> QED BY <1>2, <3>1, <3>3
  <2> QED BY <1>2, <2>2, <2>3, <2>4, <2>5, Opposites
<1>3. ASSUME Close(p, d) \/ Abort(p, d)
      PROVE  /\ UNCHANGED <<sent, got>>
             /\ eof'[p][d] = TRUE /\ (q # p \/ e # d => eof'[q][e] = eof[q][e])
             /\ \A f \in Direction : q # p \/ f # Opposite(d) => gone'[q][f] = gone[q][f]
             /\ gone[p][Opposite(d)] => gone'[p][Opposite(d)]
  <2>1. eof' = [eof EXCEPT ![p][d] = TRUE] /\ UNCHANGED <<sent, got>>
    BY <1>3 DEF Close, Abort
  <2>2. PICK v : gone' = [gone EXCEPT ![p][Opposite(d)] = v] BY <1>3 DEF Close, Abort
  <2>3. ~gone[p][Opposite(d)] BY <1>1, <1>3 DEF Flow, Close, Abort
  <2> QED BY <1>1, <2>1, <2>2, <2>3, Functions DEF PerDirection
<1>4. ASSUME Close(p, d) \/ Abort(p, d), ~(q = p /\ e = d /\ Abort(p, d)) PROVE Flow(q, e)'
  <2>1. wire'[q][e] = wire[q][e]
    <3>1. Close(p, d) => wire' = wire BY DEF Close
    <3>2. Abort(p, d) => \E v : wire' = [wire EXCEPT ![p][d] = v] BY DEF Abort
    <3> QED BY <1>4, <3>1, <3>2, Functions DEF PerDirection
  <2>2. gone'[q][Opposite(e)] => eof'[q][e]
    <3>1. CASE q = p /\ e = d BY <1>3, <1>4, <3>1
    <3>2. CASE q # p \/ e # d
      <4>1. q # p \/ Opposite(e) # Opposite(d) BY <1>1, <3>2
      <4> QED BY <1>1, <1>3, <1>4, <3>2, <4>1 DEF Flow
    <3> QED BY <3>1, <3>2
  <2>3. (gone[q][e] => gone'[q][e]) /\ (eof[q][e] => eof'[q][e]) BY <1>3, <1>4
  <2> QED BY <1>0, <1>1, <1>3, <1>4, <2>1, <2>2, <2>3, FlowKept
<1>5. CASE Abort(p, d) /\ q = p /\ e = d
  <2>1. wire'[p][d] \in Remains(wire[p][d])
    BY <1>5, Functions DEF PerDirection, Abort
  <2>2. gone[p][d] => gone'[p][d] BY <1>1, <1>3, <1>5
  <2> QED BY <1>0, <1>1, <1>3, <1>5, <2>1, <2>2, FlowCut
<1> QED BY <1>2, <1>4, <1>5 DEF Side

LEMMA FlowsStep == TypeOK /\ TypeOK' /\ Phases /\ Flows /\ [Next]_vars => Flows'
<1> SUFFICES ASSUME TypeOK, TypeOK', Phases, Flows, [Next]_vars PROVE Flows'
  OBVIOUS
<1>1. CASE Tick \/ UNCHANGED vars
  <2>1. UNCHANGED <<start, relay>> /\ clock <= clock'
    BY <1>1, Typed, TimeAssumption DEF Tick, vars, TypeOK, Time
  <2> SUFFICES ASSUME NEW q \in Process, NEW e \in Direction PROVE Flow(q, e)'
    BY DEF Flows
  <2>2. UNCHANGED <<thread, buf, wire, sent, got, eof, gone, open>> /\ Flow(q, e)
    BY <2>1 DEF relay, Flows
  <2>3. gone'[q][Opposite(e)] => eof'[q][e] BY <2>2 DEF Flow
  <2> QED BY <2>1, <2>2, <2>3, FlowKept
<1>2. ASSUME NEW p \in Process, Handle(p) PROVE Flows' BY <1>2, FlowsHandle
<1> QED BY <1>1, <1>2, FlowsRelay, FlowsSides, NextCases

\* A client that reads relies on the replies and on data in order, once and in time.
THEOREM ServedAsAsked == Spec => []ClientServed
<1>1. TypeOK /\ Flows => DataInTime
  <2> SUFFICES ASSUME TypeOK, Flows, NEW p \in Process, NEW d \in Direction
               PROVE  /\ IsPrefix(got[p][d], sent[p][d])
                      /\ \A i \in DOMAIN got[p][d] : got[p][d][i].at - start[p] <= Limit
    BY DEF DataInTime
  <2>0. IsPrefix(got[p][d], sent[p][d]) BY Typed, BeginsPrefix DEF Flows, Flow
  <2> SUFFICES ASSUME NEW i \in DOMAIN got[p][d] PROVE got[p][d][i].at - start[p] <= Limit
    BY <2>0
  <2>1. i \in 1 .. Len(got[p][d]) BY Typed
  <2>2. got[p][d][i].at <= start[p] + Limit BY <2>1 DEF Flows, Flow, SentBy, Deadline
  <2>3. got[p][d] \in Seq(Piece) BY Typed
  <2>4. got[p][d][i] \in Piece BY <2>1, <2>3, ElementOfSeq
  <2>5. got[p][d][i].at \in Int BY <2>4, TimeAssumption DEF Piece, Time
  <2> QED BY <2>2, <2>5, Typed
<1> QED BY <1>1, FlowsInit, FlowsStep, PhasesInit, PhasesStep, TypeCorrect, RepliesFit, PTL
    DEF Spec, ClientServed
=============================================================================
