---------------------------- MODULE ShellSession ----------------------------
(***************************************************************************)
(* class ShellSession of 01-npshell/shell_core.h, the shell of npshell and *)
(* np_simple (and of 02-rwg-server): one user, the lines of one input,     *)
(* commands in child processes, which SIGCHLD's handler reaps.             *)
(*                                                                         *)
(* A pipe end is closed where the code closes it: "mine" is the set of the *)
(* shell's ends and holds that of a child.  The commands are external:     *)
(* one without a pipe to read puts out Units units, one with a pipe copies *)
(* it, and, with Quitters, may end before it has read all.                 *)
(***************************************************************************)
EXTENDS Integers, FiniteSets, Sequences

CONSTANTS
    Lines,          \* what the user types: sequences of commands, or Builtin
    Slots,          \* processes that the user may have besides the shell
    MaxChildren,    \* bound: children that exist at a time
    MaxPipes,       \* bound: pipes that exist at a time
    MaxSegments,    \* bound: segments executed or aimed at
    MaxCommands,    \* bound: commands of a line
    Units,          \* bound: output of a command that reads no pipe
    Capacity,       \* bound: what a pipe holds
    Quitters        \* may a command end before its input?

\* Command.nextType: a number stands for a numbered pipe; TooLarge for one that no int holds.
NoPipe == -2
Ordinary == -1
TooLarge == -3
NextType == {NoPipe, Ordinary, TooLarge} \union Nat
Command == [argv : BOOLEAN, redirect : {"no", "opens", "fails"}, next : NextType]
Builtin == <<>>     \* setenv or printenv, alone on its line

ASSUME BoundAssumption ==
    /\ {Slots, MaxChildren, MaxPipes, MaxSegments, MaxCommands, Units} \subseteq Nat
    /\ Capacity \in Nat \ {0}
ASSUME LinesAssumption == \A l \in Lines : l \in Seq(Command) /\ Len(l) =< MaxCommands
ASSUME QuittersAssumption == Quitters \in BOOLEAN

Kid == 1 .. MaxChildren
Pipe == 1 .. MaxPipes
Segment == 1 .. MaxSegments
None == 0       \* no pipe: the shell's stdin, its stdout
File == -1
Rd(q) == <<"r", q>>
Wr(q) == <<"w", q>>
End == {"r", "w"} \X Pipe

\* Auxiliary: the n-th command of a segment.
Place == Segment \X (1 .. MaxCommands)
Nowhere == <<0, 0>>

NoLine == [cmds |-> <<>>, i |-> 1, in |-> None, out |-> None, waits |-> {}, back |-> {}]
NoKid == [state |-> "none", in |-> None, out |-> None, holds |-> {}, todo |-> 0,
          at |-> Nowhere, aim |-> Nowhere]

VARIABLES
    pc,         \* where the shell is
    line,       \* the line under way: commands, index, inFd, IoPlan, waitList, backgroundList
    numbered,   \* numberedPipes
    executed,   \* executedSegments
    mine,       \* the pipe ends that the shell has open
    kid,        \* children
    sig,        \* SIGCHLD is pending
    content,    \* units in a pipe
    sent, got,  \* auxiliary: units written for a command's input, units it read
    atEnd       \* auxiliary: commands that have ended at their input's end

shell == <<pc, line, numbered, executed, mine>>
ghosts == <<sent, got, atEnd>>
vars == <<shell, kid, sig, content, ghosts>>

TypeOK ==
    /\ pc \in {"read", "command", "fork", "reap", "wait", "over", "aborted", "gaveUp"}
    /\ line \in [cmds : Lines \union {Builtin}, i : 1 .. MaxCommands + 1, in : Pipe \union {None},
                 out : Pipe \union {None, File}, waits : SUBSET Kid, back : SUBSET Kid]
    /\ numbered \in [Segment -> Pipe \union {None}]
    /\ executed \in Segment \union {0}
    /\ mine \subseteq End
    /\ kid \in [Kid -> [state : {"none", "runs", "zombie"}, in : Pipe \union {None},
                        out : Pipe \union {None, File}, holds : SUBSET End, todo : 0 .. Units + 1,
                        at : Place \union {Nowhere}, aim : (Nat \X Nat)]]
    /\ sig \in BOOLEAN
    /\ content \in [Pipe -> 0 .. Capacity]
    /\ sent \in [Place -> Nat]
    /\ got \in [Place -> Nat]
    /\ atEnd \subseteq Place

Init ==
    /\ pc = "read"
    /\ line = NoLine
    /\ numbered = [s \in Segment |-> None]
    /\ executed = 0
    /\ mine = {}
    /\ kid = [k \in Kid |-> NoKid]
    /\ sig = FALSE
    /\ content = [q \in Pipe |-> 0]
    /\ sent = [p \in Place |-> 0]
    /\ got = [p \in Place |-> 0]
    /\ atEnd = {}

-----------------------------------------------------------------------------
(* Pipes and children *)

Runs(k) == kid[k].state = "runs"
Zombie(k) == kid[k].state = "zombie"

HasReader(q) == Rd(q) \in mine \/ \E k \in Kid : Rd(q) \in kid[k].holds
HasWriter(q) == Wr(q) \in mine \/ \E k \in Kid : Wr(q) \in kid[k].holds
Exists(q) == HasReader(q) \/ HasWriter(q)
Fresh(q) == ~Exists(q) /\ \A p \in 1 .. q - 1 : Exists(p)
BothEnds(q) == {Rd(q), Wr(q)} \intersect End

\* The pipe ends in numberedPipes.
NumberedEnds == UNION {BothEnds(numbered[s]) : s \in Segment}

Reaped(K) == [k \in Kid |-> IF k \in K /\ Zombie(k) THEN NoKid ELSE kid[k]]

-----------------------------------------------------------------------------
(* The plan of a line: segments and waitability *)

Starts(cmds, i) == i = 1 \/ cmds[i - 1].next # Ordinary

\* buildLinePlan: segments are counted from those executed.
SegmentOf(cmds, i) == executed + Cardinality({j \in 1 .. i : Starts(cmds, j)})

\* buildWaitability: nothing of a segment that ends in a numbered pipe is waited for.
EndOfSegment(cmds, i) ==
    CHOOSE e \in i .. Len(cmds) :
        /\ e = Len(cmds) \/ cmds[e].next # Ordinary
        /\ \A j \in i .. e - 1 : cmds[j].next = Ordinary

\* Seeded fault: nothing of a line with a numbered pipe is waited for.
NoWaitInLine(cmds, i) == \A j \in 1 .. Len(cmds) : cmds[j].next \notin Nat

Waitable(cmds, i) == cmds[EndOfSegment(cmds, i)].next \notin Nat

PlaceOf(cmds, i) ==
    <<SegmentOf(cmds, i), Cardinality({j \in 1 .. i : cmds[j].argv /\ SegmentOf(cmds, j) = SegmentOf(cmds, i)})>>

\* Where the output of a command is to go.
AimOf(cmds, i) ==
    LET p == PlaceOf(cmds, i) IN
    IF cmds[i].redirect = "opens" \/ cmds[i].next = NoPipe THEN Nowhere
    ELSE IF cmds[i].next = Ordinary THEN <<p[1], p[2] + 1>>
    ELSE <<p[1] + cmds[i].next, 1>>

\* The bound on segments.
WithinBound(cmds) ==
    \A i \in 1 .. Len(cmds) : SegmentOf(cmds, i) + (IF cmds[i].next \in Nat THEN cmds[i].next ELSE 0) \in Segment

-----------------------------------------------------------------------------
(* The shell *)

\* The process ends: its ends are closed, and init reaps its children.
Leave(how) ==
    /\ pc' = how
    /\ line' = NoLine
    /\ numbered' = [s \in Segment |-> None]
    /\ mine' = {}
    /\ kid' = Reaped(Kid)
    /\ sig' = FALSE
    /\ UNCHANGED <<executed, content, ghosts>>

\* Ctrl-D, the end of the connection, or exit.
Exit ==
    /\ pc = "read"
    /\ Leave("over")

\* std::stoi throws in parseLine, and nothing catches it.
Throw(cmds) ==
    /\ pc = "read"
    /\ \E i \in 1 .. Len(cmds) : cmds[i].next = TooLarge
    /\ Leave("aborted")

\* discardIncomingPipe
DiscardIncoming(s) ==
    /\ mine' = mine \ BothEnds(numbered[s])
    /\ numbered' = [numbered EXCEPT ![s] = None]

\* tryRunBuiltin
RunBuiltin ==
    /\ pc = "read"
    /\ Builtin \in Lines
    /\ executed + 1 \in Segment
    /\ DiscardIncoming(executed + 1)
    /\ executed' = executed + 1
    /\ UNCHANGED <<pc, line, kid, sig, content, ghosts>>

ReadLine(cmds) ==
    /\ pc = "read"
    /\ cmds # Builtin /\ \A i \in 1 .. Len(cmds) : cmds[i].next # TooLarge
    /\ WithinBound(cmds)
    /\ line' = [NoLine EXCEPT !.cmds = cmds]
    /\ pc' = "command"
    /\ UNCHANGED <<numbered, executed, mine, kid, sig, content, ghosts>>

Current == line.cmds[line.i]
Here == SegmentOf(line.cmds, line.i)

\* `|` with nothing in front of it.
SkipEmpty ==
    /\ pc = "command" /\ line.i =< Len(line.cmds)
    /\ ~Current.argv
    /\ line' = [line EXCEPT !.i = @ + 1]
    /\ UNCHANGED <<pc, numbered, executed, mine, kid, sig, content, ghosts>>

\* attachIncomingNumberedPipe
Incoming == IF Starts(line.cmds, line.i) THEN numbered[Here] ELSE None

\* inFd, the shell's ends and numberedPipes after it.
InFd == IF line.in = None THEN Incoming ELSE line.in
AttachedEnds == mine \ (IF InFd = Incoming THEN {Wr(Incoming)} ELSE BothEnds(Incoming))
AttachedPipes == IF Incoming = None THEN numbered ELSE [numbered EXCEPT ![Here] = None]

\* prepareIoPlan: a file, no pipe, a new pipe, or the one that is there for the segment.
ToFile ==
    /\ Current.redirect = "opens"
    /\ line' = [line EXCEPT !.in = InFd, !.out = File]
    /\ mine' = AttachedEnds
    /\ numbered' = AttachedPipes
    /\ UNCHANGED content

ToStdout ==
    /\ Current.redirect = "no" /\ Current.next = NoPipe
    /\ line' = [line EXCEPT !.in = InFd, !.out = None]
    /\ mine' = AttachedEnds
    /\ numbered' = AttachedPipes
    /\ UNCHANGED content

\* createPipeOrDie
Create(q) ==
    /\ Fresh(q)
    /\ line' = [line EXCEPT !.in = InFd, !.out = q]
    /\ mine' = AttachedEnds \union BothEnds(q)
    /\ content' = [content EXCEPT ![q] = 0]

ToOrdinary(q) ==
    /\ Current.redirect = "no" /\ Current.next = Ordinary
    /\ Create(q)
    /\ numbered' = AttachedPipes

\* Seeded fault: every writer has a pipe of its own.
NotMerged(target) == None
TargetPipe(target) == AttachedPipes[target]

ToNumbered(q) ==
    /\ Current.redirect = "no" /\ Current.next \in Nat
    /\ LET target == Here + Current.next IN
       \/ /\ TargetPipe(target) = None
          /\ Create(q)
          /\ numbered' = [AttachedPipes EXCEPT ![target] = q]
       \/ /\ TargetPipe(target) = q
          /\ line' = [line EXCEPT !.in = InFd, !.out = q]
          /\ mine' = AttachedEnds
          /\ numbered' = AttachedPipes
          /\ UNCHANGED content

Prepare ==
    /\ pc = "command" /\ line.i =< Len(line.cmds)
    /\ Current.argv
    /\ pc' = "fork"
    /\ \/ ToFile \/ ToStdout
       \/ \E q \in Pipe : ToOrdinary(q) \/ ToNumbered(q)
    /\ UNCHANGED <<executed, kid, sig, ghosts>>

\* open fails: the input is closed, the command is left out.
OpenFails ==
    /\ pc = "command" /\ line.i =< Len(line.cmds)
    /\ Current.argv /\ Current.redirect = "fails"
    /\ mine' = AttachedEnds \ {Rd(InFd)}
    /\ numbered' = AttachedPipes
    /\ line' = [line EXCEPT !.in = None, !.i = @ + 1]
    /\ UNCHANGED <<pc, executed, kid, sig, content, ghosts>>

-----------------------------------------------------------------------------
(* forkOrReapUntilSuccess *)

Full == Cardinality({k \in Kid : kid[k] # NoKid}) >= Slots

PipesOrdinary == Current.redirect = "no" /\ Current.next = Ordinary

\* Seeded fault: the numbered pipes stay open in the child.
ClosedButNumbered ==
    {Rd(line.in), Wr(line.out)} \union (IF PipesOrdinary THEN BothEnds(line.out) ELSE {})

\* closeChildIo and closeAllNumberedPipesInChild; stdin and stdout are copies.
ClosedInChild ==
    {Rd(line.in), Wr(line.out)} \union (IF PipesOrdinary THEN BothEnds(line.out) ELSE {}) \union NumberedEnds

\* Seeded fault: dup2 whether or not there is a pipe.
CopiesUnchecked == {Rd(line.in), Wr(line.out)}
Copies == {Rd(line.in), Wr(line.out)} \intersect End

\* Seeded fault: the shell keeps the write end of an ordinary pipe.
OnlyItsInput == {Rd(line.in)}

\* closeParentIo, and inFd.
ClosedInParent == {Rd(line.in)} \union (IF PipesOrdinary THEN {Wr(line.out)} ELSE {})

\* The bound on children; pids are not given out again within a line.
FreeKid(k) ==
    LET free == {j \in Kid : kid[j] = NoKid} \ (line.waits \union line.back) IN
    k \in free /\ \A j \in free : k =< j

Fork(k) ==
    /\ pc = "fork" /\ ~Full
    /\ FreeKid(k)
    /\ kid' = [kid EXCEPT ![k] =
                 [state |-> "runs", in |-> line.in, out |-> line.out,
                  holds |-> (mine \ ClosedInChild) \union Copies,
                  todo |-> IF line.in = None THEN Units ELSE 0,
                  at |-> PlaceOf(line.cmds, line.i), aim |-> AimOf(line.cmds, line.i)]]
    /\ mine' = mine \ ClosedInParent
    /\ LET waitable == Waitable(line.cmds, line.i) IN
       line' = [line EXCEPT !.i = @ + 1, !.in = IF PipesOrdinary THEN line.out ELSE None, !.out = None,
                            !.waits = IF waitable THEN @ \union {k} ELSE @,
                            !.back = IF waitable THEN @ ELSE @ \union {k}]
    /\ pc' = "command"
    /\ UNCHANGED <<numbered, executed, sig, content, ghosts>>

ForkFails ==
    /\ pc = "fork" /\ Full
    /\ pc' = "reap"
    /\ UNCHANGED <<line, numbered, executed, mine, kid, sig, content, ghosts>>

\* waitpid(-1): any child that has ended.
ReapOne(k) ==
    /\ pc = "reap" /\ Zombie(k)
    /\ kid' = Reaped({k})
    /\ pc' = "fork"
    /\ UNCHANGED <<line, numbered, executed, mine, sig, content, ghosts>>

\* ECHILD: the shell ends.
GiveUp ==
    /\ pc = "reap" /\ \A k \in Kid : kid[k] = NoKid
    /\ Leave("gaveUp")

-----------------------------------------------------------------------------
(* The end of a line, and SIGCHLD *)

EndOfLine ==
    /\ pc = "command" /\ line.i > Len(line.cmds)
    /\ mine' = mine \ {Rd(line.in)}
    /\ line' = [line EXCEPT !.in = None]
    /\ pc' = "wait"
    /\ UNCHANGED <<numbered, executed, kid, sig, content, ghosts>>

\* waitpid for each child of waitList, then graceReap.  A child that the handler has
\* reaped is ECHILD.
Wait ==
    /\ pc = "wait"
    /\ \A k \in line.waits : ~Runs(k)
    /\ kid' = Reaped(line.waits \union line.back)
    /\ executed' = SegmentOf(line.cmds, Len(line.cmds))
    /\ line' = NoLine
    /\ pc' = "read"
    /\ UNCHANGED <<numbered, mine, sig, content, ghosts>>

Over == pc \in {"over", "aborted", "gaveUp"}

\* reapChildren: signals that come while one is pending merge.
ReapChildren ==
    /\ sig /\ ~Over
    /\ sig' = FALSE
    /\ kid' = Reaped(Kid)
    /\ UNCHANGED <<shell, content, ghosts>>

-----------------------------------------------------------------------------
(* Commands *)

\* A child ends: init reaps it when the shell has ended.
EndKid(k) ==
    /\ kid' = [kid EXCEPT ![k] = IF Over THEN NoKid ELSE [@ EXCEPT !.state = "zombie", !.holds = {}]]
    /\ sig' = ~Over

Take(k) ==
    /\ Runs(k) /\ kid[k].in # None /\ kid[k].todo = 0
    /\ content[kid[k].in] > 0
    /\ content' = [content EXCEPT ![kid[k].in] = @ - 1]
    /\ kid' = [kid EXCEPT ![k].todo = 1]
    /\ got' = [got EXCEPT ![kid[k].at] = @ + 1]
    /\ UNCHANGED <<shell, sig, sent, atEnd>>

\* To the terminal or a file.
Show(k) ==
    /\ Runs(k) /\ kid[k].out \notin Pipe /\ kid[k].todo > 0
    /\ kid' = [kid EXCEPT ![k].todo = @ - 1]
    /\ UNCHANGED <<shell, sig, content, ghosts>>

Put(k) ==
    /\ Runs(k) /\ kid[k].out \in Pipe /\ kid[k].todo > 0
    /\ HasReader(kid[k].out) /\ content[kid[k].out] < Capacity
    /\ kid' = [kid EXCEPT ![k].todo = @ - 1]
    /\ content' = [content EXCEPT ![kid[k].out] = @ + 1]
    /\ sent' = IF kid[k].aim \in Place THEN [sent EXCEPT ![kid[k].aim] = @ + 1] ELSE sent
    /\ UNCHANGED <<shell, sig, got, atEnd>>

\* SIGPIPE
BrokenPipe(k) ==
    /\ Runs(k) /\ kid[k].out \in Pipe /\ kid[k].todo > 0
    /\ ~HasReader(kid[k].out)
    /\ EndKid(k)
    /\ UNCHANGED <<shell, content, ghosts>>

\* The end of the input, or of what there was to say.
Finish(k) ==
    /\ Runs(k) /\ kid[k].todo = 0
    /\ kid[k].in # None => content[kid[k].in] = 0 /\ ~HasWriter(kid[k].in)
    /\ EndKid(k)
    /\ atEnd' = atEnd \union {kid[k].at}
    /\ UNCHANGED <<shell, content, sent, got>>

\* Like head: it has read enough.
Quit(k) ==
    /\ Quitters
    /\ Runs(k) /\ kid[k].todo = 0 /\ got[kid[k].at] > 0
    /\ EndKid(k)
    /\ UNCHANGED <<shell, content, ghosts>>

Work(k) == Take(k) \/ Show(k) \/ Put(k) \/ BrokenPipe(k) \/ Finish(k)

-----------------------------------------------------------------------------

Line ==
    \/ SkipEmpty \/ Prepare \/ OpenFails \/ EndOfLine \/ Wait
    \/ ForkFails \/ GiveUp
    \/ \E k \in Kid : Fork(k) \/ ReapOne(k)

Next ==
    \/ Exit \/ RunBuiltin \/ (\E cmds \in Lines : ReadLine(cmds) \/ Throw(cmds))
    \/ Line
    \/ ReapChildren
    \/ \E k \in Kid : Work(k) \/ Quit(k)

Spec == Init /\ [][Next]_vars

\* The shell and its children run; what the user types, and when, is not assumed.
FairSpec ==
    /\ Spec
    /\ WF_vars(Line)
    /\ WF_vars(ReapChildren)
    /\ \A k \in Kid : WF_vars(Work(k))

-----------------------------------------------------------------------------
(* Properties *)

\* A command that has read to the end of its input has all that commands before it,
\* of this line or of lines long ago, have sent or will ever send it.
EverythingArrives == \A p \in atEnd : got[p] = sent[p]

\* Nothing is printed behind the prompt: what still runs then writes to pipes and files.
PromptIsLast == pc = "read" => \A k \in Kid : Runs(k) => kid[k].out # None

\* A child holds the ends it reads and writes and no others; at a prompt the shell holds
\* both ends of the numbered pipes that are due later, and no others.
IntendedEnds ==
    /\ \A k \in Kid : Runs(k) => kid[k].holds = {Rd(kid[k].in), Wr(kid[k].out)} \intersect End
    /\ pc = "read" =>
         /\ mine = NumberedEnds
         /\ \A s \in Segment : numbered[s] # None => s > executed

\* A line ends, unless the processes that the user may have are all taken by commands
\* whose readers are still to be started.
ComesBack == []<>(pc = "read" \/ Over) \/ <>[](pc = "reap")

\* "Retry fork after reaping one finished child when process slots are tight."  The shell
\* ends only when there is no slot to be had.
GivesUpOnlyWhenFull == [][pc' = "gaveUp" => Full]_vars
=============================================================================
