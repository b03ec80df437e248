-------------------------- MODULE HttpServerProofs --------------------------
(***************************************************************************)
(* Theorems about HttpServer, for any browsers and any number of parts.    *)
(***************************************************************************)
EXTENDS HttpServer, SequenceTheorems, TLAPS

Running == {"forked", "exec", "cgi"}
ByChild == {<<"404">>, <<"200", "body">>, <<"200", "exec failed">>}

(* How far a request has come, by what has been written and who holds the socket. *)
Unanswered(b) ==
    /\ peer[b] = "out" => session[b] = "none"
    /\ session[b] \in {"none", "backlog", "read", "forbid"} => wire[b] = <<>> /\ child[b] = "none"

Forbidden(b) ==
    /\ session[b] \in {"forbid", "close"} => path[b] # "/panel.cgi"
    /\ path[b] # "/panel.cgi" => wire[b] \in {<<>>, <<"403">>} /\ child[b] = "none"
    /\ /\ path[b] # "/panel.cgi" /\ session[b] \in {"close", "ended"}
       /\ up /\ peer[b] = "there"
       => wire[b] = <<"403">>

Executed(b) ==
    path[b] = "/panel.cgi" =>
        /\ child[b] \in {"none", "forked"} => wire[b] = <<>>
        /\ child[b] \in {"exec", "cgi"} => wire[b] = <<"200">>
        /\ child[b] \in {"zombie", "reaped"} =>
             wire[b] \in ByChild \/ (peer[b] # "there" /\ wire[b] \in {<<>>, <<"200">>})

Held(b) ==
    /\ up /\ session[b] \in {"read", "forbid", "close"} => b \in open
    /\ child[b] \in Running => b \in holds[b]

Told(b) == Unanswered(b) /\ Forbidden(b) /\ Executed(b) /\ Held(b)
Story == \A b \in Browser : Told(b)

-----------------------------------------------------------------------------
(* Types. *)

LEMMA Appended ==
    ASSUME TypeOK, NEW b \in Browser, NEW a \in Answer
    PROVE  [wire EXCEPT ![b] = Append(@, a)] \in [Browser -> Seq(Answer)]
<1>1. wire \in [Browser -> Seq(Answer)] BY DEF TypeOK
<1>2. wire[b] \in Seq(Answer) BY <1>1
<1>3. Append(wire[b], a) \in Seq(Answer) BY <1>2
<1> QED BY <1>1, <1>3

LEMMA Updated ==
    ASSUME NEW S, NEW f \in [Browser -> S], NEW b \in Browser, NEW v \in S
    PROVE  [f EXCEPT ![b] = v] \in [Browser -> S]
OBVIOUS

ChildState == {"none", "forked", "exec", "cgi", "zombie", "reaped"}

LEMMA TypeHandler == ASSUME TypeOK, NEW b \in Browser, Handler(b) PROVE TypeOK'
<1> USE DEF TypeOK, Goto, Close, Reads
<1>1. CASE Accept(b) BY <1>1 DEF Accept, browsers, children
<1>2. CASE ReadPart(b) BY <1>2, PartsAssumption DEF ReadPart, browsers, children
<1>3. CASE ReadError(b) BY <1>3 DEF ReadError, browsers, children
<1>4. CASE ReadForbidden(b) BY <1>4, PartsAssumption DEF ReadForbidden, browsers, children
<1>5. CASE SendForbidden(b)
  <2> HIDE DEF TypeOK, Goto, Close, Reads
  <2>1. "403" \in Answer BY DEF Answer
  <2>2. wire' = [wire EXCEPT ![b] = Append(@, "403")] \/ wire' = wire BY <1>5 DEF SendForbidden
  <2>3. wire' \in [Browser -> Seq(Answer)]
    <3>1. CASE wire' = wire BY <3>1 DEF TypeOK
    <3>2. CASE wire' = [wire EXCEPT ![b] = Append(@, "403")] BY <3>2, <2>1, Appended
    <3> QED BY <2>2, <3>1, <3>2
  <2> QED BY <1>5, <2>3 DEF TypeOK, Goto, SendForbidden, browsers, children
<1>6. CASE CloseForbidden(b) BY <1>6 DEF CloseForbidden, browsers, children
<1>7. CASE Execute(b)
  <2> HIDE DEF TypeOK, Goto, Close, Reads
  <2>1. /\ read' = [read EXCEPT ![b] = Parts]
        /\ session' = [session EXCEPT ![b] = "ended"]
        /\ open' = open \ {b}
        /\ UNCHANGED <<up, peer, path, arrived, wire, sigchld>>
    BY <1>7 DEF Execute, Reads, Goto, Close, browsers
  <2>2. \/ child' = [child EXCEPT ![b] = "forked"] /\ holds' = [holds EXCEPT ![b] = open]
        \/ child' = child /\ holds' = holds
    BY <1>7 DEF Execute, children
  <2>3. child' \in [Browser -> {"none", "forked", "exec", "cgi", "zombie", "reaped"}]
    BY <2>2 DEF TypeOK
  <2>4. holds' \in [Browser -> SUBSET Browser]
    <3>1. holds \in [Browser -> SUBSET Browser] /\ open \in SUBSET Browser BY DEF TypeOK
    <3>2. [holds EXCEPT ![b] = open] \in [Browser -> SUBSET Browser] BY <3>1
    <3> QED BY <2>2, <3>1, <3>2
  <2>5. read' \in [Browser -> 0 .. Parts] BY <2>1, PartsAssumption DEF TypeOK
  <2>6. session' \in [Browser -> {"none", "backlog", "read", "forbid", "close", "ended"}]
    BY <2>1 DEF TypeOK
  <2> QED BY <2>1, <2>3, <2>4, <2>5, <2>6 DEF TypeOK
<1>8. CASE Throw(b)
  <2> HIDE DEF TypeOK, Goto, Close, Reads
  <2>1. /\ read' = [read EXCEPT ![b] = Parts]
        /\ session' = [c \in Browser |-> IF session[c] = "none" THEN "none" ELSE "ended"]
        /\ open' = {} /\ up' = FALSE
        /\ UNCHANGED <<peer, path, arrived, child, holds, wire, sigchld>>
    BY <1>8 DEF Throw, Reads, browsers, children
  <2>2. read' \in [Browser -> 0 .. Parts] BY <2>1, PartsAssumption DEF TypeOK
  <2> QED BY <2>1, <2>2 DEF TypeOK
<1> QED BY <1>1, <1>2, <1>3, <1>4, <1>5, <1>6, <1>7, <1>8 DEF Handler

LEMMA TypeChild == ASSUME TypeOK, NEW b \in Browser, Child(b) PROVE TypeOK'
<1>0. {"404", "200", "body", "exec failed"} \subseteq Answer BY DEF Answer
<1>1. wire' \in [Browser -> Seq(Answer)]
  <2>1. \/ wire' = wire
        \/ \E a \in {"404", "200", "body", "exec failed"} : Writes(b, a)
    BY DEF Child, BrokenPipe, NotFound, Status, ExecFailed, Exec, Cgi
  <2>2. CASE wire' = wire BY <2>2 DEF TypeOK
  <2>3. CASE \E a \in {"404", "200", "body", "exec failed"} : Writes(b, a)
    BY <2>3, <1>0, Appended DEF Writes
  <2> QED BY <2>1, <2>2, <2>3
<1>2. child' \in [Browser -> ChildState]
  <2>1. child \in [Browser -> ChildState] BY DEF TypeOK, ChildState
  <2>2. \E c \in {"exec", "cgi", "zombie"} : child' = [child EXCEPT ![b] = c]
    BY DEF Child, BrokenPipe, NotFound, Status, ExecFailed, Exec, Cgi, Exits
  <2>3. {"exec", "cgi", "zombie"} \subseteq ChildState BY DEF ChildState
  <2> QED BY <2>1, <2>2, <2>3, Updated
<1>3. holds' \in [Browser -> SUBSET Browser]
  <2>1. holds \in [Browser -> SUBSET Browser] /\ {} \in SUBSET Browser BY DEF TypeOK
  <2>2. holds' = holds \/ holds' = [holds EXCEPT ![b] = {}]
    BY DEF Child, BrokenPipe, NotFound, Status, ExecFailed, Exec, Cgi, Exits
  <2>3. [holds EXCEPT ![b] = {}] \in [Browser -> SUBSET Browser] BY <2>1, Updated
  <2> QED BY <2>1, <2>2, <2>3
<1>4. sigchld' \in BOOLEAN
  BY DEF TypeOK, Child, BrokenPipe, NotFound, Status, ExecFailed, Exec, Cgi, Exits
<1>5. UNCHANGED <<up, peer, path, arrived, read, session, open>>
  BY DEF Child, BrokenPipe, NotFound, Status, ExecFailed, Exec, Cgi, browsers, server
<1> QED BY <1>1, <1>2, <1>3, <1>4, <1>5 DEF TypeOK, ChildState

LEMMA TypeStep == ASSUME TypeOK, [Next]_vars PROVE TypeOK'
<1>1. CASE UNCHANGED vars BY <1>1 DEF TypeOK, vars, browsers, server, children
<1>2. CASE \E b \in Browser : Connect(b) \/ SendPart(b) \/ Leave(b)
  <2>1. PICK b \in Browser : Connect(b) \/ SendPart(b) \/ Leave(b) BY <1>2
  <2>2. CASE Connect(b) BY <2>2 DEF TypeOK, Connect, children
  <2>3. CASE SendPart(b) BY <2>3, PartsAssumption DEF TypeOK, SendPart, server, children
  <2>4. CASE Leave(b) BY <2>4, LeavesAssumption DEF TypeOK, Leave, server, children
  <2> QED BY <2>1, <2>2, <2>3, <2>4
<1>3. CASE \E b \in Browser : Handler(b) BY <1>3, TypeHandler
<1>4. CASE \E b \in Browser : Child(b) BY <1>4, TypeChild
<1>5. CASE ReapChildren BY <1>5 DEF TypeOK, ReapChildren, AllZombies, browsers, server
<1> QED BY <1>1, <1>2, <1>3, <1>4, <1>5 DEF Next

LEMMA TypeInit == Init => TypeOK
<1> SUFFICES ASSUME Init PROVE TypeOK OBVIOUS
<1>1. <<>> \in Seq(Answer) /\ 0 \in 0 .. Parts BY PartsAssumption
<1>2. wire \in [Browser -> Seq(Answer)] BY <1>1 DEF Init
<1>3. arrived \in [Browser -> 0 .. Parts] /\ read \in [Browser -> 0 .. Parts] BY <1>1 DEF Init
<1>4. holds \in [Browser -> SUBSET Browser] BY DEF Init
<1> QED BY <1>2, <1>3, <1>4 DEF Init, TypeOK

(* Every variable keeps its type: reads stay within the request, the answers are those of *)
(* the code.                                                                              *)
THEOREM TypeCorrect == Spec => []TypeOK
<1>1. TypeOK /\ [Next]_vars => TypeOK' BY TypeStep
<1> QED BY TypeInit, <1>1, PTL DEF Spec

-----------------------------------------------------------------------------
(***************************************************************************)
(* AnswersWhole.  Story is inductive with TypeOK: the 403 is written       *)
(* before the session ends, and a child that has not written everything    *)
(* still holds the socket.                                                 *)
(***************************************************************************)

LEMMA Functions ==
    ASSUME TypeOK
    PROVE  /\ peer \in [Browser -> {"out", "there", "closed", "reset"}]
           /\ session \in [Browser -> {"none", "backlog", "read", "forbid", "close", "ended"}]
           /\ child \in [Browser -> ChildState]
           /\ holds \in [Browser -> SUBSET Browser]
           /\ wire \in [Browser -> Seq(Answer)]
BY DEF TypeOK, ChildState

(* A browser that a step does not touch, or that only leaves. *)
LEMMA Kept ==
    ASSUME NEW c \in Browser, Told(c),
           session'[c] = session[c], wire'[c] = wire[c], child'[c] = child[c],
           holds'[c] = holds[c], path' = path,
           peer'[c] = peer[c] \/ (peer'[c] \notin {"out", "there"}),
           up' => up, c \in open => c \in open'
    PROVE  Told(c)'
BY DEF Told, Unanswered, Forbidden, Executed, Held

LEMMA ToldInit == Init => Story
BY DEF Init, Story, Told, Unanswered, Forbidden, Executed, Held, Running

LEMMA ToldOthers ==
    ASSUME TypeOK, NEW b \in Browser, NEW c \in Browser, c # b, Told(c),
           Connect(b) \/ SendPart(b) \/ Leave(b) \/ (Handler(b) /\ ~Throw(b)) \/ Child(b)
    PROVE  Told(c)'
<1>1. session'[c] = session[c]
  <2>1. session' = session \/ \E l : session' = [session EXCEPT ![b] = l]
    BY DEF Connect, SendPart, Leave, Handler, Child, Accept, ReadPart, ReadError, ReadForbidden,
           SendForbidden, CloseForbidden, Execute, BrokenPipe, NotFound, Status, ExecFailed, Exec,
           Cgi, Goto, server
  <2> QED BY <2>1, Functions
<1>2. wire'[c] = wire[c]
  <2>1. wire' = wire \/ \E w : wire' = [wire EXCEPT ![b] = w]
    BY DEF Connect, SendPart, Leave, Handler, Child, Accept, ReadPart, ReadError, ReadForbidden,
           SendForbidden, CloseForbidden, Execute, BrokenPipe, NotFound, Status, ExecFailed, Exec,
           Cgi, Writes
  <2> QED BY <2>1, Functions
<1>3. child'[c] = child[c]
  <2>1. child' = child \/ \E l : child' = [child EXCEPT ![b] = l]
    BY DEF Connect, SendPart, Leave, Handler, Child, Accept, ReadPart, ReadError, ReadForbidden,
           SendForbidden, CloseForbidden, Execute, BrokenPipe, NotFound, Status, ExecFailed, Exec,
           Cgi, Exits, children
  <2> QED BY <2>1, Functions
<1>4. holds'[c] = holds[c]
  <2>1. holds' = holds \/ \E h : holds' = [holds EXCEPT ![b] = h]
    BY DEF Connect, SendPart, Leave, Handler, Child, Accept, ReadPart, ReadError, ReadForbidden,
           SendForbidden, CloseForbidden, Execute, BrokenPipe, NotFound, Status, ExecFailed, Exec,
           Cgi, Exits, children
  <2> QED BY <2>1, Functions
<1>5. peer'[c] = peer[c] /\ path' = path /\ up' = up
  <2>1. peer' = peer \/ \E h : peer' = [peer EXCEPT ![b] = h]
    BY DEF Connect, SendPart, Leave, Handler, Child, Accept, ReadPart, ReadError, ReadForbidden,
           SendForbidden, CloseForbidden, Execute, BrokenPipe, NotFound, Status, ExecFailed, Exec,
           Cgi, browsers
  <2>2. path' = path /\ up' = up
    BY DEF Connect, SendPart, Leave, Handler, Child, Accept, ReadPart, ReadError, ReadForbidden,
           SendForbidden, CloseForbidden, Execute, BrokenPipe, NotFound, Status, ExecFailed, Exec,
           Cgi, browsers
  <2> QED BY <2>1, <2>2, Functions
<1>6. c \in open => c \in open'
  BY DEF Connect, SendPart, Leave, Handler, Child, Accept, ReadPart, ReadError, ReadForbidden,
         SendForbidden, CloseForbidden, Execute, BrokenPipe, NotFound, Status, ExecFailed, Exec,
         Cgi, Close, server
<1> QED BY <1>1, <1>2, <1>3, <1>4, <1>5, <1>6, Kept

(* What the environment does to a browser's own request. *)
LEMMA ToldEnvironment ==
    ASSUME TypeOK, NEW b \in Browser, Told(b), Connect(b) \/ SendPart(b) \/ Leave(b)
    PROVE  Told(b)'
<1>1. CASE Connect(b)
  <2>1. /\ peer'[b] = "there" /\ session'[b] = "backlog"
        /\ peer[b] = "out"
        /\ UNCHANGED <<up, path, open, child, holds, wire>>
    BY <1>1, Functions DEF Connect, children
  <2> QED BY <2>1 DEF Told, Unanswered, Forbidden, Executed, Held, Running
<1>2. CASE SendPart(b) BY <1>2, Kept DEF SendPart, server, children
<1>3. CASE Leave(b)
  <2>1. peer'[b] \notin {"out", "there"} BY <1>3, Functions, LeavesAssumption DEF Leave
  <2> QED BY <1>3, <2>1, Kept DEF Leave, server, children
<1> QED BY <1>1, <1>2, <1>3

(* What the server does to it. *)
LEMMA ToldHandler ==
    ASSUME TypeOK, NEW b \in Browser, Told(b), Handler(b), ~Throw(b)
    PROVE  Told(b)'
<1> DEFINE now(s, w) ==
      /\ session'[b] = s /\ wire'[b] = w
      /\ UNCHANGED <<up, peer, path>>
<1>1. CASE Accept(b)
  <2>1. now("read", wire[b]) /\ b \in open' /\ session[b] = "backlog" /\ UNCHANGED <<child, holds>>
    BY <1>1, Functions DEF Accept, Goto, browsers, children
  <2> QED BY <2>1 DEF Told, Unanswered, Forbidden, Executed, Held, Running
<1>2. CASE ReadPart(b) BY <1>2, Kept DEF ReadPart, browsers, children
<1>3. CASE ReadError(b)
  <2>1. now("ended", wire[b]) /\ session[b] = "read" /\ peer[b] # "there" /\ UNCHANGED <<child, holds>>
    BY <1>3, Functions DEF ReadError, Goto, browsers, children
  <2> QED BY <2>1 DEF Told, Unanswered, Forbidden, Executed, Held, Running
<1>4. CASE ReadForbidden(b)
  <2>1. /\ now("forbid", wire[b]) /\ session[b] = "read" /\ path[b] # "/panel.cgi"
        /\ UNCHANGED <<up, open, child, holds>> /\ up
    BY <1>4, Functions DEF ReadForbidden, Reads, Allowed, Goto, browsers, children
  <2> QED BY <2>1 DEF Told, Unanswered, Forbidden, Executed, Held, Running
<1>5. CASE SendForbidden(b)
  <2>1. /\ session'[b] = "close" /\ session[b] = "forbid" /\ UNCHANGED <<up, peer, path, open, child, holds>>
        /\ wire'[b] = Append(wire[b], "403") \/ (peer[b] # "there" /\ wire'[b] = wire[b])
    BY <1>5, Functions DEF SendForbidden, Goto, browsers, children
  <2>2. wire[b] = <<>> BY <2>1 DEF Told, Unanswered
  <2>3. wire'[b] = <<"403">> \/ (peer[b] # "there" /\ wire'[b] = <<>>) BY <2>1, <2>2
  <2> QED BY <2>1, <2>3 DEF Told, Unanswered, Forbidden, Executed, Held, Running
<1>6. CASE CloseForbidden(b)
  <2>1. now("ended", wire[b]) /\ session[b] = "close" /\ UNCHANGED <<child, holds>>
    BY <1>6, Functions DEF CloseForbidden, Goto, browsers, children
  <2> QED BY <2>1 DEF Told, Unanswered, Forbidden, Executed, Held, Running
<1>7. CASE Execute(b)
  <2>1. now("ended", wire[b]) /\ session[b] = "read" /\ path[b] = "/panel.cgi" /\ up
    BY <1>7, Functions DEF Execute, Reads, Allowed, Goto, browsers
  <2>2. \/ child'[b] = "forked" /\ holds'[b] = open
        \/ child'[b] = child[b] /\ holds'[b] = holds[b]
    BY <1>7, Functions DEF Execute, children
  <2>3. wire[b] = <<>> /\ child[b] = "none" /\ b \in open BY <2>1 DEF Told, Unanswered, Held
  <2> QED BY <2>1, <2>2, <2>3 DEF Told, Unanswered, Forbidden, Executed, Held, Running
<1> QED BY <1>1, <1>2, <1>3, <1>4, <1>5, <1>6, <1>7 DEF Handler

LEMMA AppendToOne ==
    ASSUME NEW x \in Answer, NEW y \in Answer
    PROVE  Append(<<x>>, y) = <<x, y>>
<1>1. <<x>> \in Seq(Answer) /\ <<x, y>> \in Seq(Answer) OBVIOUS
<1>2. Len(Append(<<x>>, y)) = 2 /\ Len(<<x, y>>) = 2 BY <1>1
<1>3. Append(<<x>>, y)[1] = x /\ Append(<<x>>, y)[2] = y BY <1>1
<1>4. Append(<<x>>, y) \in Seq(Answer) BY <1>1
<1>5. \A i \in 1 .. 2 : Append(<<x>>, y)[i] = <<x, y>>[i] BY <1>3
<1> QED BY <1>1, <1>2, <1>4, <1>5, SeqEqual

LEMMA Texts ==
    /\ Append(<<>>, "404") = <<"404">>
    /\ Append(<<"200">>, "body") = <<"200", "body">>
    /\ Append(<<"200">>, "exec failed") = <<"200", "exec failed">>
<1>1. Append(<<>>, "404") = <<"404">> OBVIOUS
<1>2. {"200", "body", "exec failed"} \subseteq Answer BY DEF Answer
<1> QED BY <1>1, <1>2, AppendToOne

(* What its child does to it. *)
LEMMA ToldChild ==
    ASSUME TypeOK, NEW b \in Browser, Told(b), Child(b)
    PROVE  Told(b)'
<1>1. UNCHANGED <<up, peer, path, session, open>>
  BY DEF Child, BrokenPipe, NotFound, Status, ExecFailed, Exec, Cgi, browsers, server
<1>2. path[b] = "/panel.cgi" /\ child[b] \in Running
  BY DEF Child, BrokenPipe, NotFound, Status, ExecFailed, Exec, Cgi, Told, Forbidden, Running
<1>3. wire[b] = IF child[b] = "forked" THEN <<>> ELSE <<"200">>
  BY <1>2 DEF Told, Executed, Running
<1>4. CASE BrokenPipe(b)
  <2>1. peer[b] # "there" /\ child'[b] = "zombie" /\ wire' = wire
    BY <1>4, Functions DEF BrokenPipe, Exits
  <2> QED BY <1>1, <1>2, <1>3, <2>1 DEF Told, Unanswered, Forbidden, Executed, Held, Running
<1>5. CASE NotFound(b) \/ ExecFailed(b) \/ Cgi(b)
  <2>1. child'[b] = "zombie" BY <1>5, Functions DEF NotFound, ExecFailed, Cgi, Exits
  <2>2. wire'[b] \in ByChild
    <3>1. CASE NotFound(b)
      <4>1. wire'[b] = Append(<<>>, "404") BY <3>1, <1>3, Functions DEF NotFound, Writes
      <4> QED BY <4>1, Texts DEF ByChild
    <3>2. CASE ExecFailed(b)
      <4>1. wire'[b] = Append(<<"200">>, "exec failed") BY <3>2, <1>3, Functions DEF ExecFailed, Writes
      <4> QED BY <4>1, Texts DEF ByChild
    <3>3. CASE Cgi(b)
      <4>1. wire'[b] = Append(<<"200">>, "body") BY <3>3, <1>3, Functions DEF Cgi, Writes
      <4> QED BY <4>1, Texts DEF ByChild
    <3> QED BY <1>5, <3>1, <3>2, <3>3
  <2> QED BY <1>1, <1>2, <2>1, <2>2 DEF Told, Unanswered, Forbidden, Executed, Held, Running
<1>6. CASE Status(b)
  <2>1. child'[b] = "exec" /\ wire'[b] = Append(wire[b], "200") /\ child[b] = "forked" /\ holds' = holds
    BY <1>6, Functions DEF Status, Writes
  <2>2. wire'[b] = <<"200">> BY <1>3, <2>1
  <2> QED BY <1>1, <1>2, <2>1, <2>2 DEF Told, Unanswered, Forbidden, Executed, Held, Running
<1>7. CASE Exec(b)
  <2>1. child'[b] = "cgi" /\ wire' = wire /\ child[b] = "exec" /\ holds' = holds
    BY <1>7, Functions DEF Exec
  <2> QED BY <1>1, <1>2, <1>3, <2>1 DEF Told, Unanswered, Forbidden, Executed, Held, Running
<1> QED BY <1>4, <1>5, <1>6, <1>7 DEF Child

LEMMA ToldStep == ASSUME TypeOK, Story, [Next]_vars PROVE Story'
<1> SUFFICES ASSUME NEW c \in Browser PROVE Told(c)'
  BY DEF Story
<1>0. Told(c) BY DEF Story
<1>1. CASE UNCHANGED vars BY <1>0, <1>1, Kept DEF vars, browsers, server, children
<1>2. CASE \E b \in Browser : Throw(b)
  <2>1. /\ up' = FALSE
        /\ session'[c] = IF session[c] = "none" THEN "none" ELSE "ended"
        /\ UNCHANGED <<peer, path, child, holds, wire>>
    BY <1>2 DEF Throw, browsers, children
  <2> QED BY <1>0, <2>1 DEF Told, Unanswered, Forbidden, Executed, Held, Running
<1>3. CASE \E b \in Browser : \/ Connect(b) \/ SendPart(b) \/ Leave(b)
                              \/ (Handler(b) /\ ~Throw(b)) \/ Child(b)
  BY <1>0, <1>3, ToldOthers, ToldEnvironment, ToldHandler, ToldChild
<1>4. CASE ReapChildren
  <2>1. /\ child'[c] = IF child[c] = "zombie" THEN "reaped" ELSE child[c]
        /\ UNCHANGED <<up, peer, path, session, open, holds, wire>>
    BY <1>4 DEF ReapChildren, AllZombies, browsers, server
  <2> QED BY <1>0, <2>1 DEF Told, Unanswered, Forbidden, Executed, Held, Running
<1> QED BY <1>1, <1>2, <1>3, <1>4 DEF Next, Handler

LEMMA PrefixEmpty == ASSUME NEW S, NEW a \in Seq(S) PROVE IsPrefix(<<>>, a)
<1>1. Len(<<>>) = 0 /\ Len(a) \in Nat OBVIOUS
<1>2. SubSeq(a, 1, 0) = <<>> /\ SubSeq(<<>>, 1, 0) = <<>> OBVIOUS
<1> QED BY <1>1, <1>2 DEF IsPrefix

LEMMA PrefixSelf == ASSUME NEW S, NEW a \in Seq(S) PROVE IsPrefix(a, a)
<1>1. Len(a) \in Nat OBVIOUS
<1> QED BY <1>1 DEF IsPrefix

LEMMA PrefixAppend ==
    ASSUME NEW S, NEW a \in Seq(S), NEW x \in S
    PROVE  IsPrefix(a, Append(a, x))
<1>1. Len(a) \in Nat /\ Len(Append(a, x)) = Len(a) + 1 OBVIOUS
<1>2. SubSeq(Append(a, x), 1, Len(a)) = a /\ SubSeq(a, 1, Len(a)) = a OBVIOUS
<1> QED BY <1>1, <1>2 DEF IsPrefix

LEMMA Prefixes403 ==
    /\ IsPrefix(<<>>, <<>>) /\ IsPrefix(<<>>, <<"403">>) /\ IsPrefix(<<"403">>, <<"403">>)
<1>1. <<>> \in Seq(Answer) /\ <<"403">> \in Seq(Answer) BY DEF Answer
<1> QED BY <1>1, PrefixEmpty, PrefixSelf

LEMMA PrefixesPanel ==
    /\ IsPrefix(<<>>, <<"404">>) /\ IsPrefix(<<"200">>, <<"200", "body">>)
    /\ \A a \in ByChild : IsPrefix(a, a)
<1>1. <<"404">> \in Seq(Answer) /\ <<"200">> \in Seq(Answer) /\ "body" \in Answer BY DEF Answer
<1>2. IsPrefix(<<"200">>, Append(<<"200">>, "body")) BY <1>1, PrefixAppend
<1>3. IsPrefix(<<>>, <<"404">>) BY <1>1, PrefixEmpty
<1>4. ByChild \subseteq Seq(Answer)
  <2>1. <<"200", "body">> \in Seq(Answer) BY DEF Answer
  <2>2. <<"200", "exec failed">> \in Seq(Answer) BY DEF Answer
  <2> QED BY <1>1, <2>1, <2>2 DEF ByChild
<1>5. \A a \in ByChild : IsPrefix(a, a) BY <1>4, PrefixSelf
<1> QED BY <1>2, <1>3, <1>5, Texts

(* What a browser is sent is one answer or the start of one; and when the connection ends *)
(* under a browser that waits, the answer is complete, but for a fork that failed.         *)
THEOREM AnswersAreWhole == Spec => []AnswersWhole
<1>1. TypeOK /\ Story /\ [Next]_vars => (TypeOK /\ Story)' BY TypeStep, ToldStep
<1>2. TypeOK /\ Story => AnswersWhole
  <2> SUFFICES ASSUME TypeOK, Story, NEW b \in Browser
               PROVE  /\ \E a \in Complete : IsPrefix(wire[b], a)
                      /\ up /\ peer[b] = "there" /\ EndOfFile(b) /\ ~NoOneAnswers(b)
                         => wire[b] \in Complete
    BY DEF AnswersWhole
  <2>0. Told(b) BY DEF Story
  <2>1. /\ ByChild \subseteq Complete /\ <<"403">> \in Complete
        /\ <<"404">> \in ByChild /\ <<"200", "body">> \in ByChild
    BY DEF ByChild, Complete
  <2>2. CASE path[b] # "/panel.cgi"
    <3>1. wire[b] \in {<<>>, <<"403">>} BY <2>0, <2>2 DEF Told, Forbidden
    <3>2. up /\ peer[b] = "there" /\ EndOfFile(b) => wire[b] = <<"403">>
      BY <2>0, <2>2 DEF Told, Forbidden, EndOfFile
    <3> QED BY <2>1, <3>1, <3>2, Prefixes403
  <2>3. CASE path[b] = "/panel.cgi" /\ child[b] = "none"
    <3>1. wire[b] = <<>> BY <2>0, <2>3 DEF Told, Executed
    <3>2. EndOfFile(b) => NoOneAnswers(b) BY <2>3 DEF EndOfFile, NoOneAnswers, Allowed
    <3> QED BY <2>1, <3>1, <3>2, Prefixes403
  <2>4. CASE path[b] = "/panel.cgi" /\ child[b] # "none"
    <3>1. child[b] \in ChildState BY Functions
    <3>2. wire[b] \in {<<>>, <<"200">>} \union ByChild
      BY <2>0, <2>4, <3>1 DEF Told, Executed, ChildState
    <3>3. EndOfFile(b) => child[b] \notin Running BY <2>0 DEF Told, Held, EndOfFile
    <3>4. up /\ peer[b] = "there" /\ EndOfFile(b) => wire[b] \in ByChild
      BY <2>0, <2>4, <3>1, <3>3 DEF Told, Executed, ChildState, Running
    <3> QED BY <2>1, <3>2, <3>4, PrefixesPanel
  <2> QED BY <2>2, <2>3, <2>4
<1> QED BY TypeInit, ToldInit, <1>1, <1>2, PTL DEF Spec

=============================================================================
