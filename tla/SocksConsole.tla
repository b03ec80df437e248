---------------------------- MODULE SocksConsole ----------------------------
(***************************************************************************)
(* The consoles of 04-socks-proxy: pj4.cpp, whose SocksBatchSessions reach *)
(* their shells through a SOCKS4A proxy, and console.cpp, whose            *)
(* RemoteBatchSessions connect directly (console_components.hpp).  All     *)
(* sessions run in the handlers of one io_context and print their scripts  *)
(* to one standard output.                                                 *)
(*                                                                         *)
(* The browser, the resolver, the proxy and the shells are external.  The  *)
(* proxy does what SocksServer shows of it: one reply of two bytes here    *)
(* (eight in the code), then the shell's text in order.  A read takes any  *)
(* part of what has arrived; a command is one symbol.                      *)
(***************************************************************************)
EXTENDS Integers, Sequences, SequencesExt

CONSTANTS
    Words,          \* commands, and what else is printed
    Programs,       \* which of "pj4" and "console" may run
    Script,         \* per session: the lines of its file; none when it cannot be opened
    Ports,          \* what the query may name as the port of a session
    Outputs,        \* what a shell may print between a command and its prompt
    Drops,          \* may connections break?
    BrowserLeaves   \* may the browser go away?

NotANumber == -1
Space == " "
PortCount == 65536
PortNumber == 0 .. PortCount - 1    \* what socks_request_ has room for
Symbol == Words \union {"%", Space, "vn", "90", "91", "exit"}

ASSUME ScriptAssumption == Script \in Seq(Seq(Symbol))
ASSUME PortAssumption == Ports \subseteq Nat \union {NotANumber}
ASSUME OutputAssumption == \A o \in Outputs : o \in Seq(Symbol)
ASSUME SwitchAssumption ==
    /\ Programs \subseteq {"pj4", "console"}
    /\ {Drops, BrowserLeaves} \subseteq BOOLEAN

Session == DOMAIN Script
Prompt == <<"%", Space>>
Granted == <<"vn", "90">>
Rejected == <<"vn", "91">>
Exit == "exit"

VARIABLES
    main,       \* the program: pj4.cpp or console.cpp
    up,         \* the program runs
    browser,    \* "there" or "gone": who reads the standard output
    port,       \* RemoteSessionConfig.port
    page,       \* what a session has printed to its column
    rs,         \* what the session waits for
    next,       \* next_command_ (from 1)
    tail,       \* prompt_tail_
    asked,      \* the port in socks_request_, NotANumber before there is one
    toConsole,  \* bytes from the proxy or the shell, not yet read
    toShell,    \* commands that the shell has not taken
    shell,      \* the other end
    log         \* auxiliary: what passed at the shell's end

program == <<main, up, browser, port, page>>
remote == <<rs, next, tail, asked>>
wires == <<toConsole, toShell, shell, log>>
vars == <<program, remote, wires>>

TypeOK ==
    /\ main \in Programs
    /\ up \in BOOLEAN
    /\ browser \in {"there", "gone"}
    /\ port \in [Session -> Ports]
    /\ page \in [Session -> Seq(Symbol)]
    /\ rs \in [Session -> {"resolve", "connect", "request", "reply", "read", "write", "ended"}]
    /\ next \in [Session -> Nat] /\ \A s \in Session : next[s] \in 1 .. Len(Script[s]) + 1
    /\ tail \in [Session -> Seq(Symbol)] /\ \A s \in Session : Len(tail[s]) =< 1
    /\ asked \in [Session -> PortNumber \union {NotANumber}]
    /\ toConsole \in [Session -> Seq(Symbol)]
    /\ toShell \in [Session -> Seq(Symbol)]
    /\ shell \in [Session -> {"none", "asked", "greets", "waits", "closed", "broken"}]
    /\ log \in [Session -> Seq(Symbol)]

(* main: the head of the page is printed and every session has started; pj4 without a    *)
(* proxy in its query returns at once.                                                   *)
Init ==
    /\ main \in Programs
    /\ up \in {TRUE, main = "console"}
    /\ browser = "there"
    /\ port \in [Session -> Ports]
    /\ page = [s \in Session |-> <<>>]
    /\ rs = [s \in Session |-> "resolve"]
    /\ next = [s \in Session |-> 1]
    /\ tail = [s \in Session |-> <<>>]
    /\ asked = [s \in Session |-> NotANumber]
    /\ toConsole = [s \in Session |-> <<>>]
    /\ toShell = [s \in Session |-> <<>>]
    /\ shell = [s \in Session |-> "none"]
    /\ log = [s \in Session |-> <<>>]

-----------------------------------------------------------------------------
(* The program *)

\* io_context.run() returns when no session waits for anything.
Return ==
    /\ up /\ \A s \in Session : rs[s] = "ended"
    /\ up' = FALSE
    /\ UNCHANGED <<main, browser, port, page, remote, wires>>

\* output_text: the script is flushed at once.  With the browser gone a write may still
\* succeed; one after its reset is answered by SIGPIPE.
OutputText(s, text) ==
    /\ page' = IF browser = "there" THEN [page EXCEPT ![s] = @ \o text] ELSE page
    /\ up' \in {TRUE, browser = "there"}

LeaveBrowser ==
    /\ BrowserLeaves /\ up /\ browser = "there"
    /\ browser' = "gone"
    /\ UNCHANGED <<main, up, port, page, remote, wires>>

-----------------------------------------------------------------------------
(* SocksBatchSession and RemoteBatchSession: the handlers *)

Waits(s, w) == up /\ rs[s] = w
Goto(s, w) == rs' = [rs EXCEPT ![s] = w]

Resolved(s) ==
    /\ Waits(s, "resolve")
    /\ Goto(s, "connect")
    /\ UNCHANGED <<program, next, tail, asked, wires>>

\* connect_remote of RemoteBatchSession.
ConnectedDirectly(s) ==
    /\ main = "console"
    /\ Waits(s, "connect")
    /\ Goto(s, "read")
    /\ shell' = [shell EXCEPT ![s] = "greets"]
    /\ UNCHANGED <<program, next, tail, asked, toConsole, toShell, log>>

\* build_socks4a_request: the port is cut to 16 bits.
RequestedPort(s) == port[s] % PortCount

\* connect_remote and send_socks_request of SocksBatchSession.
ConnectedToProxy(s) ==
    /\ main = "pj4" /\ port[s] # NotANumber
    /\ Waits(s, "connect")
    /\ Goto(s, "request")
    /\ asked' = [asked EXCEPT ![s] = RequestedPort(s)]
    /\ shell' = [shell EXCEPT ![s] = "asked"]
    /\ UNCHANGED <<program, next, tail, toConsole, toShell, log>>

\* std::stoi throws in that handler: main catches what io_context.run() throws, and returns.
Throw(s) ==
    /\ main = "pj4" /\ port[s] = NotANumber
    /\ Waits(s, "connect")
    /\ up' = FALSE
    /\ UNCHANGED <<main, browser, port, page, remote, wires>>

RequestSent(s) ==
    /\ Waits(s, "request")
    /\ Goto(s, "reply")
    /\ UNCHANGED <<program, next, tail, asked, wires>>

\* Seeded fault: the reply is what one read returns.
SomeReply(s) == 1 .. Len(toConsole[s])

\* async_read: exactly the bytes of a reply.
WholeReply(s) == {Len(Granted)} \intersect (1 .. Len(toConsole[s]))

\* read_socks_reply: only 90 goes on.
ReadReply(s) ==
    /\ Waits(s, "reply")
    /\ \E n \in WholeReply(s) :
         /\ toConsole' = [toConsole EXCEPT ![s] = SubSeq(@, n + 1, Len(@))]
         /\ Goto(s, IF toConsole[s][n] = "91" THEN "ended" ELSE "read")
    /\ UNCHANGED <<program, next, tail, asked, toShell, shell, log>>

\* Seeded fault: only the text of one read is searched.
NoTail(text) == <<>>

\* Seeded fault: all that has been read since the last prompt is kept.
AllOf(text) == text

\* received_prompt keeps the last character of what has no prompt in it.
LastOf(text) == IF text = <<>> THEN <<>> ELSE <<Last(text)>>

ReceivedPrompt(text) == \E i \in 1 .. Len(text) : IsPrefix(Prompt, SubSeq(text, i, Len(text)))

HasMore(s) == next[s] =< Len(Script[s])

\* read_remote without a prompt, or with one when there is no command left.
ReadOutput(s, text, last) ==
    /\ OutputText(s, text)
    /\ Goto(s, "read")
    /\ tail' = [tail EXCEPT ![s] = last]
    /\ UNCHANGED <<next, toShell>>

\* read_remote with a prompt: write_next_command.
ReadPrompt(s, text) ==
    /\ OutputText(s, text \o <<Script[s][next[s]]>>)
    /\ Goto(s, "write")
    /\ tail' = [tail EXCEPT ![s] = <<>>]
    /\ next' = [next EXCEPT ![s] = @ + 1]
    /\ toShell' = [toShell EXCEPT ![s] = Append(@, Script[s][next[s]])]

Read(s) ==
    /\ Waits(s, "read")
    /\ \E n \in 1 .. Len(toConsole[s]) :
         LET text == SubSeq(toConsole[s], 1, n)
             combined == tail[s] \o text
         IN  /\ toConsole' = [toConsole EXCEPT ![s] = SubSeq(@, n + 1, Len(@))]
             /\ IF ~ReceivedPrompt(combined) THEN ReadOutput(s, text, LastOf(combined))
                ELSE IF HasMore(s) THEN ReadPrompt(s, text)
                ELSE ReadOutput(s, text, <<>>)
    /\ UNCHANGED <<main, browser, port, asked, shell, log>>

Written(s) ==
    /\ Waits(s, "write")
    /\ Goto(s, "read")
    /\ UNCHANGED <<program, next, tail, asked, wires>>

\* An operation completes with an error, end of file among them, and the session is over:
\* nothing is printed.
Failed(s) ==
    /\ up
    /\ \/ rs[s] \in {"resolve", "connect"}
       \/ rs[s] \in {"request", "write"} /\ shell[s] = "broken"
       \/ rs[s] \in {"reply", "read"} /\ toConsole[s] = <<>> /\ shell[s] \in {"closed", "broken"}
    /\ Goto(s, "ended")
    /\ UNCHANGED <<program, next, tail, asked, wires>>

-----------------------------------------------------------------------------
(* The proxy and the shells *)

\* The proxy's reply: behind 90 the shell's text follows, 91 is all there is.
Reply(s) ==
    /\ shell[s] = "asked"
    /\ \/ /\ toConsole' = [toConsole EXCEPT ![s] = Granted]
          /\ shell' = [shell EXCEPT ![s] = "greets"]
       \/ /\ toConsole' = [toConsole EXCEPT ![s] = Rejected]
          /\ shell' = [shell EXCEPT ![s] = "closed"]
    /\ UNCHANGED <<program, remote, toShell, log>>

Greet(s) ==
    /\ shell[s] = "greets"
    /\ shell' = [shell EXCEPT ![s] = "waits"]
    /\ toConsole' = [toConsole EXCEPT ![s] = @ \o Prompt]
    /\ log' = [log EXCEPT ![s] = @ \o Prompt]
    /\ UNCHANGED <<program, remote, toShell>>

Answer(s) ==
    /\ shell[s] = "waits" /\ toShell[s] # <<>>
    /\ toShell' = [toShell EXCEPT ![s] = Tail(@)]
    /\ LET command == Head(toShell[s]) IN
         IF command = Exit
         THEN /\ shell' = [shell EXCEPT ![s] = "closed"]
              /\ log' = [log EXCEPT ![s] = Append(@, Exit)]
              /\ UNCHANGED toConsole
         ELSE \E out \in Outputs :
              /\ toConsole' = [toConsole EXCEPT ![s] = @ \o out \o Prompt]
              /\ log' = [log EXCEPT ![s] = @ \o <<command>> \o out \o Prompt]
              /\ UNCHANGED shell
    /\ UNCHANGED <<program, remote>>

\* A connection that breaks may take with it what was not read.
Break(s) ==
    /\ Drops
    /\ shell[s] \in {"asked", "greets", "waits"}
    /\ shell' = [shell EXCEPT ![s] = "broken"]
    /\ \E left \in {toConsole[s], <<>>} : toConsole' = [toConsole EXCEPT ![s] = left]
    /\ UNCHANGED <<program, remote, toShell, log>>

-----------------------------------------------------------------------------

Handler(s) ==
    \/ Resolved(s) \/ ConnectedDirectly(s) \/ ConnectedToProxy(s) \/ Throw(s)
    \/ RequestSent(s) \/ ReadReply(s)
    \/ Read(s) \/ Written(s) \/ Failed(s)

Far(s) == Reply(s) \/ Greet(s) \/ Answer(s)

Next ==
    \/ Return \/ LeaveBrowser
    \/ \E s \in Session : Handler(s) \/ Far(s) \/ Break(s)

Spec == Init /\ [][Next]_vars

\* Handlers whose operation has completed run; the proxy and the shells answer.  No
\* operation of the code has a timeout.
FairSpec ==
    /\ Spec
    /\ WF_vars(Return)
    /\ \A s \in Session : WF_vars(Handler(s)) /\ WF_vars(Far(s))

-----------------------------------------------------------------------------
(* Properties *)

\* A column shows the dialogue as it took place at the shell, in order and intact, with
\* nothing of the proxy's reply in it, whatever the other sessions print; and when a
\* session whose connection held is over, all of it.
PageInOrder ==
    \A s \in Session :
        /\ IsPrefix(page[s], log[s] \o toShell[s])
        /\ rs[s] = "ended" /\ shell[s] = "closed" /\ browser = "there" =>
             page[s] = log[s] \o toShell[s]

\* A session whose file ends in exit comes to its end, however prompts are split and
\* connections fail, unless the whole program has ended.
DialogueEnds ==
    \A s \in Session :
        Script[s] # <<>> /\ Last(Script[s]) = Exit => <>(rs[s] = "ended" \/ ~up)

\* A mistake in one row of the form costs that row only.
OthersGoOn == [][~up' => ~up \/ browser = "gone" \/ \A s \in Session : rs[s] = "ended"]_vars

\* The proxy is asked for the port that the form names.
AsksForItsPort == \A s \in Session : asked[s] # NotANumber => asked[s] = port[s]

=============================================================================
