----------------------------- MODULE CgiConsole -----------------------------
(***************************************************************************)
(* One connection of 03-http-cgi-console/cgi_server.cpp: CgiHttpSession,   *)
(* which answers a request and closes, and the RemoteBatchSessions of      *)
(* console_components.cpp that it starts for /console.cgi.  Everything     *)
(* runs in the handlers of one io_context: a handler is one step, with all *)
(* the calls it makes through output_ and done_.                           *)
(*                                                                         *)
(* The browser, the resolver and the remote shells are external.  A        *)
(* connection carries single characters and a read takes any part of what  *)
(* has arrived, so that prompts are split in every way.  A command is one  *)
(* symbol; HTML and the escaping of text are left out.                     *)
(***************************************************************************)
EXTENDS Integers, Sequences, SequencesExt, FiniteSets

CONSTANTS
    Words,          \* commands, and what else is printed
    MaxSessions,    \* sessions of a request (five in parse_remote_sessions)
    Script,         \* per session: the lines of its file
    Outputs,        \* what a shell may print between a command and its prompt
    SendsWhole,     \* does a socket take a whole command at once?
    Drops,          \* may the connection to a shell break?
    BrowserLeaves   \* may the browser go away?

Space == " "
Garbage == "garbage"    \* bytes of a buffer that is gone
Symbol == Words \union {"%", Space, "head", "failed", Garbage}

ASSUME SessionsAssumption == MaxSessions \in Nat
ASSUME ScriptAssumption == Script \in [1 .. MaxSessions -> Seq(Symbol)]
ASSUME OutputsAssumption == \A o \in Outputs : o \in Seq(Symbol)
ASSUME SwitchesAssumption == {SendsWhole, Drops, BrowserLeaves} \subseteq BOOLEAN

Session == 1 .. MaxSessions
Prompt == <<"%", Space>>

(* What is enqueued for the browser: the head of the page, or a script     *)
(* that appends text to the column of a session.                           *)
Head0 == [id |-> 0, text |-> <<"head">>]
Item(s, text) == [id |-> s, text |-> text]
Failure == <<"failed">>

VARIABLES
    http,       \* CgiHttpSession: pending_, active_remotes_, closing_, socket_, and
                \* the items of the async_writes under way
    page,       \* what the browser has, by id
    rs,         \* what a RemoteBatchSession waits for
    next,       \* next_command_ (from 1)
    percent,    \* last_char_was_percent_
    toConsole,  \* characters from the shell, not yet read
    toShell,    \* commands that the shell has not taken
    shell,      \* the shell at the other end
    log         \* auxiliary: what passed at the shell's end

remotes == <<rs, next, percent>>
wires == <<toConsole, toShell, shell, log>>
vars == <<http, page, remotes, wires>>

Waits == {"unused", "resolve", "connect", "read", "write", "finished"}
Items == [id : Session \union {0}, text : Seq(Symbol)]

TypeOK ==
    /\ http \in [phase : {"request", "reply"}, pending : Seq(Items), writes : Seq(Items),
                 active : 0 .. MaxSessions, closing : BOOLEAN,
                 socket : {"open", "closed", "failed"}]
    /\ page \in [Session \union {0} -> Seq(Symbol)]
    /\ rs \in [Session -> Waits]
    /\ next \in [Session -> Nat] /\ \A s \in Session : next[s] \in 1 .. Len(Script[s]) + 1
    /\ percent \in [Session -> BOOLEAN]
    /\ toConsole \in [Session -> Seq(Symbol)]
    /\ toShell \in [Session -> Seq(Symbol)]
    /\ shell \in [Session -> {"none", "greets", "waits", "exited", "broken"}]
    /\ log \in [Session -> Seq(Symbol)]

Init ==
    /\ http = [phase |-> "request", pending |-> <<>>, writes |-> <<>>, active |-> 0,
               closing |-> FALSE, socket |-> "open"]
    /\ page = [i \in Session \union {0} |-> <<>>]
    /\ rs = [s \in Session |-> "unused"]
    /\ next = [s \in Session |-> 1]
    /\ percent = [s \in Session |-> FALSE]
    /\ toConsole = [s \in Session |-> <<>>]
    /\ toShell = [s \in Session |-> <<>>]
    /\ shell = [s \in Session |-> "none"]
    /\ log = [s \in Session |-> <<>>]

-----------------------------------------------------------------------------
(* The write queue of CgiHttpSession, as functions of its state.           *)

DoWrite(h) ==
    IF h.pending # <<>> THEN [h EXCEPT !.writes = Append(@, Head(h.pending))]
    ELSE IF h.closing THEN [h EXCEPT !.socket = "closed"]
    ELSE h

(* enqueue starts a write only when none is under way: the queue keeps the *)
(* item that is being written.                                             *)
MustStart(h) == h.pending = <<>>
Enqueue(h, item) ==
    LET queued == [h EXCEPT !.pending = Append(@, item)]
    IN  IF MustStart(h) THEN DoWrite(queued) ELSE queued

CloseWhenDrained(h) ==
    LET last == [h EXCEPT !.closing = TRUE]
    IN  IF last.pending = <<>> THEN DoWrite(last) ELSE last

RemoteDone(h) ==
    LET fewer == [h EXCEPT !.active = IF @ > 0 THEN @ - 1 ELSE 0]
    IN  IF fewer.active = 0 THEN CloseWhenDrained(fewer) ELSE fewer

(* The completion of a write: the browser has the item. *)
Wrote ==
    /\ http.writes # <<>> /\ http.pending # <<>>
    /\ http.socket = "open"
    /\ LET item == Head(http.writes)
       IN  page' = [page EXCEPT ![item.id] = @ \o item.text]
    /\ http' = DoWrite([http EXCEPT !.writes = Tail(@), !.pending = Tail(@)])
    /\ UNCHANGED <<remotes, wires>>

(* An error closes the socket and leaves the item in the queue. *)
WriteFailed ==
    /\ http.writes # <<>>
    /\ http.socket # "open" \/ BrowserLeaves
    /\ http' = [http EXCEPT !.writes = Tail(@), !.socket = "failed"]
    /\ UNCHANGED <<page, remotes, wires>>

-----------------------------------------------------------------------------
(* Requests. *)

RequestFailed ==
    /\ http.phase = "request" /\ http.socket = "open"
    /\ BrowserLeaves
    /\ http' = [http EXCEPT !.socket = "failed"]
    /\ UNCHANGED <<page, remotes, wires>>

(* /panel.cgi and everything that is not found. *)
DispatchPage ==
    /\ http.phase = "request" /\ http.socket = "open"
    /\ http' = CloseWhenDrained(Enqueue([http EXCEPT !.phase = "reply"], Head0))
    /\ UNCHANGED <<page, remotes, wires>>

\* Seeded fault: sessions are counted as they start.
StartedCounting(h, missing) ==
    LET started[s \in 0 .. MaxSessions] ==
            IF s = 0 THEN h
            ELSE LET more == [started[s - 1] EXCEPT !.active = @ + 1]
                 IN  IF s \in missing THEN RemoteDone(Enqueue(more, Item(s, Failure))) ELSE more
    IN  started

(* The loop starts each session in turn: one whose file cannot be opened   *)
(* is done within the loop, when later ones have not been started.         *)
Started(h, missing) ==
    LET started[s \in 0 .. MaxSessions] ==
            IF s = 0 THEN h
            ELSE IF s \in missing THEN RemoteDone(Enqueue(started[s - 1], Item(s, Failure)))
            ELSE started[s - 1]
    IN  started

\* Seeded fault: see StartedCounting.
StartCounting(h, n, missing) ==
    IF n = 0 THEN CloseWhenDrained(h) ELSE StartedCounting(h, missing)[n]

StartRemotes(h, n, missing) ==
    LET all == [h EXCEPT !.active = n]
    IN  IF n = 0 THEN CloseWhenDrained(all) ELSE Started(all, missing)[n]

DispatchConsole ==
    /\ http.phase = "request" /\ http.socket = "open"
    /\ \E n \in 0 .. MaxSessions : \E missing \in SUBSET (1 .. n) :
         /\ http' = StartRemotes(Enqueue([http EXCEPT !.phase = "reply"], Head0), n, missing)
         /\ rs' = [s \in Session |-> IF s > n THEN "unused"
                                     ELSE IF s \in missing THEN "finished" ELSE "resolve"]
         /\ log' = [s \in Session |-> IF s \in missing THEN Failure ELSE <<>>]
    /\ UNCHANGED <<page, next, percent, toConsole, toShell, shell>>

-----------------------------------------------------------------------------
(* A RemoteBatchSession. *)

(* Resolving and connecting fail alike. *)
Refused(s) ==
    /\ rs[s] \in {"resolve", "connect"}
    /\ http' = RemoteDone(Enqueue(http, Item(s, Failure)))
    /\ rs' = [rs EXCEPT ![s] = "finished"]
    /\ log' = [log EXCEPT ![s] = Failure]
    /\ UNCHANGED <<page, next, percent, toConsole, toShell, shell>>

Resolved(s) ==
    /\ rs[s] = "resolve"
    /\ rs' = [rs EXCEPT ![s] = "connect"]
    /\ UNCHANGED <<http, page, next, percent, wires>>

Connected(s) ==
    /\ rs[s] = "connect"
    /\ rs' = [rs EXCEPT ![s] = "read"]
    /\ shell' = [shell EXCEPT ![s] = "greets"]
    /\ UNCHANGED <<http, page, next, percent, toConsole, toShell, log>>

Occurs(text, word) == \E i \in 1 .. Len(text) : IsPrefix(word, SubSeq(text, i, Len(text)))

\* Seeded fault: a prompt that is split between two reads is not seen.
HasWholePrompt(content, lastWasPercent) == Occurs(content, Prompt)
HasPrompt(content, lastWasPercent) ==
    Occurs(content, Prompt) \/ (lastWasPercent /\ Head(content) = Space)

Command(s, n) == IF n \in DOMAIN Script[s] THEN Script[s][n] ELSE Garbage
\* Seeded fault: off by one.
OutOfCommandsLate(s) == next[s] > Len(Script[s]) + 1
OutOfCommands(s) == next[s] > Len(Script[s])

(* The buffer of async_write is a local variable: what the socket does not *)
(* take before send_next_command returns is read after its life has ended. *)
Sent(s, n) == IF SendsWhole THEN {Command(s, n)} ELSE {Command(s, n), Garbage}

(* h has the text of the read that found the prompt. *)
SendNextCommand(s, h) ==
    IF OutOfCommands(s)
    THEN /\ http' = RemoteDone(h)
         /\ rs' = [rs EXCEPT ![s] = "finished"]
         /\ UNCHANGED <<next, toShell>>
    ELSE /\ http' = Enqueue(h, Item(s, <<Command(s, next[s])>>))
         /\ rs' = [rs EXCEPT ![s] = "write"]
         /\ next' = [next EXCEPT ![s] = @ + 1]
         /\ \E sent \in Sent(s, next[s]) : toShell' = [toShell EXCEPT ![s] = Append(@, sent)]

Read(s) ==
    /\ rs[s] = "read"
    /\ \E n \in 1 .. Len(toConsole[s]) :
         LET content == SubSeq(toConsole[s], 1, n)
             h == Enqueue(http, Item(s, content))
         IN  /\ toConsole' = [toConsole EXCEPT ![s] = SubSeq(@, n + 1, Len(@))]
             /\ percent' = [percent EXCEPT ![s] = Last(content) = "%"]
             /\ IF HasPrompt(content, percent[s])
                THEN SendNextCommand(s, h)
                ELSE http' = h /\ UNCHANGED <<rs, next, toShell>>
    /\ UNCHANGED <<page, shell, log>>

Finish(s) ==
    /\ http' = RemoteDone(http)
    /\ rs' = [rs EXCEPT ![s] = "finished"]
    /\ UNCHANGED <<page, next, percent, wires>>

ReadFailed(s) ==
    /\ rs[s] = "read" /\ toConsole[s] = <<>>
    /\ shell[s] \in {"exited", "broken"}
    /\ Finish(s)

Written(s) ==
    /\ rs[s] = "write"
    /\ rs' = [rs EXCEPT ![s] = "read"]
    /\ UNCHANGED <<http, page, next, percent, wires>>

WriteToShellFailed(s) ==
    /\ rs[s] = "write" /\ shell[s] = "broken"
    /\ Finish(s)

-----------------------------------------------------------------------------
(* The shells: a prompt, then for each command its output and a prompt, or *)
(* its output and the end.                                                 *)

Greet(s) ==
    /\ shell[s] = "greets"
    /\ shell' = [shell EXCEPT ![s] = "waits"]
    /\ toConsole' = [toConsole EXCEPT ![s] = @ \o Prompt]
    /\ log' = [log EXCEPT ![s] = @ \o Prompt]
    /\ UNCHANGED <<http, page, remotes, toShell>>

Answer(s) ==
    /\ shell[s] = "waits" /\ toShell[s] # <<>>
    /\ toShell' = [toShell EXCEPT ![s] = Tail(@)]
    /\ \E out \in Outputs, stays \in BOOLEAN :
         LET text == IF stays THEN out \o Prompt ELSE out
         IN  /\ shell' = [shell EXCEPT ![s] = IF stays THEN "waits" ELSE "exited"]
             /\ toConsole' = [toConsole EXCEPT ![s] = @ \o text]
             /\ log' = [log EXCEPT ![s] = @ \o <<Head(toShell[s])>> \o text]
    /\ UNCHANGED <<http, page, remotes>>

(* A connection that breaks may take with it what was not read. *)
Break(s) ==
    /\ Drops
    /\ shell[s] \in {"greets", "waits"} /\ rs[s] # "finished"
    /\ shell' = [shell EXCEPT ![s] = "broken"]
    /\ \E left \in {toConsole[s], <<>>} : toConsole' = [toConsole EXCEPT ![s] = left]
    /\ UNCHANGED <<http, page, remotes, toShell, log>>

-----------------------------------------------------------------------------
Handler(s) ==
    \/ Resolved(s) \/ Refused(s) \/ Connected(s)
    \/ Read(s) \/ ReadFailed(s) \/ Written(s) \/ WriteToShellFailed(s)
Shell(s) == Greet(s) \/ Answer(s)

Next ==
    \/ RequestFailed \/ DispatchPage \/ DispatchConsole
    \/ Wrote \/ WriteFailed
    \/ \E s \in Session : Handler(s) \/ Shell(s) \/ Break(s)

Spec == Init /\ [][Next]_vars

(* The io_context runs handlers whose operation has completed, the browser *)
(* takes what is written, and the shells answer: the code has no timeout.  *)
Fairness ==
    /\ WF_vars(Wrote \/ WriteFailed)
    /\ \A s \in Session : WF_vars(Handler(s)) /\ WF_vars(Shell(s))

FairSpec == Spec /\ Fairness

-----------------------------------------------------------------------------
(* The text of the items of a queue that are for session s. *)
Column(s, queue) ==
    LET text[i \in 0 .. Len(queue)] ==
            IF i = 0 THEN <<>>
            ELSE IF queue[i].id = s THEN text[i - 1] \o queue[i].text
            ELSE text[i - 1]
    IN  text[Len(queue)]

(* What the browser has or will have been sent for session s. *)
Shown(s) == page[s] \o Column(s, http.pending)

(* Each column shows the dialogue as it took place at the shell: commands  *)
(* stand behind their prompts, in the order of the file and intact, and no *)
(* text is lost, repeated or out of order, whatever other sessions write   *)
(* (README: "preserve output order while several remote sessions update    *)
(* one browser response concurrently").                                    *)
PageInOrder == \A s \in Session : IsPrefix(Shown(s), log[s] \o toShell[s])

(* A response that is closed is complete: every session is done, all that  *)
(* was enqueued has been written, and the dialogue of a session whose      *)
(* connection held is there to its end.                                    *)
Complete(s) ==
    /\ rs[s] \in {"unused", "finished"}
    /\ shell[s] # "broken" => page[s] = log[s] \o toShell[s]
ClosedWhenComplete ==
    http.socket = "closed" =>
        /\ http.pending = <<>> /\ page[0] # <<>>
        /\ \A s \in Session : Complete(s)

(* What the browser shows is the dialogue of each session, in order, and   *)
(* all of it once the response has ended.                                  *)
PageFaithful == PageInOrder /\ ClosedWhenComplete

(* A request is answered to its end: with shells that answer, the response *)
(* is closed, however prompts are split and sessions fail.                 *)
ResponseEnds == (http.phase = "reply") ~> (http.socket # "open")
=============================================================================
