----------------------------- MODULE HttpServer -----------------------------
(***************************************************************************)
(* 03-http-cgi-console/http_server.cpp.  One process accepts browsers and  *)
(* reads their requests in the handlers of an io_context, one handler at a *)
(* time; /panel.cgi is executed by a forked child whose output is the      *)
(* browser's socket, everything else is answered 403.  No answer has a     *)
(* length: it ends when the last process that holds the socket closes it,  *)
(* and a child holds every socket that was open when it was forked.        *)
(***************************************************************************)
EXTENDS Integers, FiniteSets, Sequences, SequencesExt

CONSTANTS
    Browser,        \* connections
    Parts,          \* bound: a request arrives in that many parts, the last one with the blank line
    Leaves,         \* how a browser may leave: by closing its socket, by a reset
    Stuck           \* browsers whose CGI program never ends

ASSUME BrowserAssumption == Stuck \subseteq Browser
ASSUME PartsAssumption == Parts \in Nat \ {0}
ASSUME LeavesAssumption == Leaves \subseteq {"closed", "reset"}

Path == {"/panel.cgi", "other"}
Answer == {"403", "404", "200", "body", "exec failed"}

VARIABLES
    up,         \* io_context.run() goes on
    peer,       \* the browser's end of the connection
    path,       \* HttpRequest.path
    arrived,    \* parts of the request that have arrived
    read,       \* parts in request_data_
    session,    \* where the HttpSession is
    open,       \* sockets in the server's descriptor table
    child,      \* the process that execute_cgi forked
    holds,      \* sockets in the child's descriptor table
    wire,       \* what was written to the browser
    sigchld     \* SIGCHLD is pending: signals do not queue

browsers == <<peer, path, arrived>>
server == <<read, session, open>>
children == <<child, holds>>
vars == <<up, browsers, server, children, wire, sigchld>>

TypeOK ==
    /\ up \in BOOLEAN
    /\ peer \in [Browser -> {"out", "there", "closed", "reset"}]
    /\ path \in [Browser -> Path]
    /\ arrived \in [Browser -> 0 .. Parts]
    /\ read \in [Browser -> 0 .. Parts]
    /\ session \in [Browser -> {"none", "backlog", "read", "forbid", "close", "ended"}]
    /\ open \subseteq Browser
    /\ child \in [Browser -> {"none", "forked", "exec", "cgi", "zombie", "reaped"}]
    /\ holds \in [Browser -> SUBSET Browser]
    /\ wire \in [Browser -> Seq(Answer)]
    /\ sigchld \in BOOLEAN

Init ==
    /\ up = TRUE
    /\ peer = [b \in Browser |-> "out"]
    /\ path \in [Browser -> Path]
    /\ arrived = [b \in Browser |-> 0]
    /\ read = [b \in Browser |-> 0]
    /\ session = [b \in Browser |-> "none"]
    /\ open = {}
    /\ child = [b \in Browser |-> "none"]
    /\ holds = [b \in Browser |-> {}]
    /\ wire = [b \in Browser |-> <<>>]
    /\ sigchld = FALSE

-----------------------------------------------------------------------------
(* Browsers *)

Connect(b) ==
    /\ up /\ peer[b] = "out"
    /\ peer' = [peer EXCEPT ![b] = "there"]
    /\ session' = [session EXCEPT ![b] = "backlog"]
    /\ UNCHANGED <<up, path, arrived, read, open, children, wire, sigchld>>

SendPart(b) ==
    /\ peer[b] = "there" /\ arrived[b] < Parts
    /\ arrived' = [arrived EXCEPT ![b] = @ + 1]
    /\ UNCHANGED <<up, peer, path, server, children, wire, sigchld>>

Leave(b) ==
    /\ peer[b] = "there"
    /\ \E how \in Leaves : peer' = [peer EXCEPT ![b] = how]
    /\ UNCHANGED <<up, path, arrived, server, children, wire, sigchld>>

-----------------------------------------------------------------------------
(* HttpServer and HttpSession: the handlers *)

Goto(b, s) == session' = [session EXCEPT ![b] = s]

\* Seeded fault: the parent keeps the socket.
KeepOpen(b) == open

\* socket_.close, or the end of the HttpSession.
Close(b) == open \ {b}

\* do_accept.  A call that completes with an error is made again: nothing happens then,
\* and the connection is still to be accepted.
Accept(b) ==
    /\ up /\ session[b] = "backlog"
    /\ Goto(b, "read")
    /\ open' = open \union {b}
    /\ UNCHANGED <<up, browsers, read, children, wire, sigchld>>

\* Seeded fault: what was read before is appended once more.
ReadsAgain(b, n) ==
    /\ up /\ session[b] = "read"
    /\ n \in read[b] + 1 .. arrived[b]
    /\ read' = [read EXCEPT ![b] = @ + n]

\* async_read_some completes with the parts up to n.
Reads(b, n) ==
    /\ up /\ session[b] = "read"
    /\ n \in read[b] + 1 .. arrived[b]
    /\ read' = [read EXCEPT ![b] = n]

\* do_read: no blank line yet.
ReadPart(b) ==
    /\ \E n \in 1 .. Parts - 1 : Reads(b, n)
    /\ UNCHANGED <<up, browsers, session, open, children, wire, sigchld>>

\* do_read: the browser is gone, the session ends and with it the socket.
ReadError(b) ==
    /\ up /\ session[b] = "read"
    /\ peer[b] # "there" /\ read[b] = arrived[b]
    /\ Goto(b, "ended")
    /\ open' = Close(b)
    /\ UNCHANGED <<up, browsers, read, children, wire, sigchld>>

Allowed(b) == path[b] = "/panel.cgi"

\* do_read: the request is complete, but for another path.
ReadForbidden(b) ==
    /\ Reads(b, Parts)
    /\ ~Allowed(b)
    /\ Goto(b, "forbid")
    /\ UNCHANGED <<up, browsers, open, children, wire, sigchld>>

\* send_forbidden: the write, which fails when the browser is gone.
SendForbidden(b) ==
    /\ up /\ session[b] = "forbid"
    /\ \/ wire' = [wire EXCEPT ![b] = Append(@, "403")]
       \/ peer[b] # "there" /\ UNCHANGED wire
    /\ Goto(b, "close")
    /\ UNCHANGED <<up, browsers, read, open, children, sigchld>>

\* send_forbidden: its completion handler.
CloseForbidden(b) ==
    /\ up /\ session[b] = "close"
    /\ Goto(b, "ended")
    /\ open' = Close(b)
    /\ UNCHANGED <<up, browsers, read, children, wire, sigchld>>

\* execute_cgi after local_endpoint and remote_endpoint, which throw for a connection
\* that was reset: fork, and the parent closes the socket.  When fork fails the session
\* just ends.
Execute(b) ==
    /\ Reads(b, Parts)
    /\ Allowed(b)
    /\ peer[b] # "reset"
    /\ Goto(b, "ended")
    /\ open' = Close(b)
    /\ \/ /\ child' = [child EXCEPT ![b] = "forked"]
          /\ holds' = [holds EXCEPT ![b] = open]
       \/ UNCHANGED children
    /\ UNCHANGED <<up, browsers, wire, sigchld>>

\* execute_cgi: nothing catches the exception before main, which returns.
Throw(b) ==
    /\ Reads(b, Parts)
    /\ Allowed(b)
    /\ peer[b] = "reset"
    /\ up' = FALSE
    /\ session' = [c \in Browser |-> IF session[c] = "none" THEN "none" ELSE "ended"]
    /\ open' = {}
    /\ UNCHANGED <<browsers, children, wire, sigchld>>

-----------------------------------------------------------------------------
(* The child of execute_cgi *)

\* The process ends: its descriptors are closed and its parent is told.
Exits(b) ==
    /\ child' = [child EXCEPT ![b] = "zombie"]
    /\ holds' = [holds EXCEPT ![b] = {}]
    /\ sigchld' = TRUE

\* SIGPIPE ends a child that writes to a browser that is gone.
BrokenPipe(b) ==
    /\ child[b] \in {"forked", "exec", "cgi"}
    /\ peer[b] # "there"
    /\ Exits(b)
    /\ UNCHANGED <<up, browsers, server, wire>>

Writes(b, text) == wire' = [wire EXCEPT ![b] = Append(@, text)]

\* Seeded fault: no _exit after the 404, the child goes on to the status line.
NotFoundGoesOn(b) ==
    /\ child[b] = "forked"
    /\ Writes(b, "404")
    /\ child' = [child EXCEPT ![b] = "exec"]
    /\ UNCHANGED <<up, browsers, server, holds, sigchld>>

\* access fails: 404 and _exit.
NotFound(b) ==
    /\ child[b] = "forked"
    /\ Writes(b, "404")
    /\ Exits(b)
    /\ UNCHANGED <<up, browsers, server>>

\* The status line; the headers and the rest are the program's.
Status(b) ==
    /\ child[b] = "forked"
    /\ Writes(b, "200")
    /\ child' = [child EXCEPT ![b] = "exec"]
    /\ UNCHANGED <<up, browsers, server, holds, sigchld>>

ExecFailed(b) ==
    /\ child[b] = "exec"
    /\ Writes(b, "exec failed")
    /\ Exits(b)
    /\ UNCHANGED <<up, browsers, server>>

\* execvp: no descriptor is marked close-on-exec.
Exec(b) ==
    /\ child[b] = "exec"
    /\ child' = [child EXCEPT ![b] = "cgi"]
    /\ UNCHANGED <<up, browsers, server, holds, wire, sigchld>>

\* The CGI program: its output, and its end.
Cgi(b) ==
    /\ child[b] = "cgi" /\ b \notin Stuck
    /\ Writes(b, "body")
    /\ Exits(b)
    /\ UNCHANGED <<up, browsers, server>>

\* Seeded fault: the handler waits for one child a signal.
OneZombie(f) ==
    IF \E c \in Browser : f[c] = "zombie"
    THEN [f EXCEPT ![CHOOSE c \in Browser : f[c] = "zombie"] = "reaped"]
    ELSE f

AllZombies(f) == [b \in Browser |-> IF f[b] = "zombie" THEN "reaped" ELSE f[b]]

\* The SIGCHLD handler.
ReapChildren ==
    /\ up /\ sigchld
    /\ child' = AllZombies(child)
    /\ sigchld' = FALSE
    /\ UNCHANGED <<up, browsers, server, holds, wire>>

-----------------------------------------------------------------------------

Handler(b) ==
    \/ Accept(b) \/ ReadPart(b) \/ ReadError(b)
    \/ ReadForbidden(b) \/ SendForbidden(b) \/ CloseForbidden(b)
    \/ Execute(b) \/ Throw(b)

Child(b) ==
    \/ BrokenPipe(b) \/ NotFound(b) \/ Status(b)
    \/ ExecFailed(b) \/ Exec(b) \/ Cgi(b)

Next ==
    \/ \E b \in Browser : Connect(b) \/ SendPart(b) \/ Leave(b) \/ Handler(b) \/ Child(b)
    \/ ReapChildren

Spec == Init /\ [][Next]_vars

\* io_context runs every handler that is ready, the kernel runs the children and
\* delivers the signal; browsers owe nothing.
FairSpec ==
    /\ Spec
    /\ \A b \in Browser : WF_vars(Handler(b)) /\ WF_vars(Child(b))
    /\ WF_vars(ReapChildren)

-----------------------------------------------------------------------------
(* Properties *)

\* The browser reads to the end: no process holds the socket any more.
EndOfFile(b) ==
    /\ session[b] = "ended"
    /\ b \notin open /\ \A c \in Browser : b \notin holds[c]

Complete == {<<"403">>, <<"404">>, <<"200", "body">>, <<"200", "exec failed">>}

\* fork failed: the session ended and there is no one to write an answer.
NoOneAnswers(b) == session[b] = "ended" /\ child[b] = "none" /\ Allowed(b)

\* Whatever browsers do at the same time: a browser is sent one answer, written by one
\* process and never two of them after one another, and when the connection ends under a
\* browser that waited for it while the server is up, the answer is complete.  Which
\* status a path deserves is not said.
AnswersWhole ==
    \A b \in Browser :
        /\ \E a \in Complete : IsPrefix(wire[b], a)
        /\ up /\ peer[b] = "there" /\ EndOfFile(b) /\ ~NoOneAnswers(b) => wire[b] \in Complete

\* A complete request is answered to the end of file, although other children hold
\* copies of the socket; a reset of another connection may end the server first.
EveryRequestEnds ==
    \A b \in Browser :
        session[b] = "read" /\ arrived[b] = Parts ~> EndOfFile(b) \/ peer[b] # "there" \/ ~up

\* Signals merge, children do not: no child stays a zombie.
EveryChildReaped ==
    \A b \in Browser : child[b] = "zombie" ~> child[b] = "reaped" \/ ~up

\* No browser can stop the server for the others.
StaysUp == up
=============================================================================
