---------------------------- MODULE NpSingleProc ----------------------------
(***************************************************************************)
(* 02-rwg-server/np_single_proc.cpp with the free functions of its         *)
(* shell_core.h: one process serves all clients from a select loop, keeps  *)
(* their numbered pipes and user pipes as descriptors of its own table,    *)
(* and forks the commands, which inherit what it does not close for them.  *)
(*                                                                         *)
(* The table is explicit: descriptors are numbers, open takes the lowest   *)
(* free one, close of a closed one does nothing, and a number that is kept *)
(* somewhere says nothing about what it refers to by now.                  *)
(***************************************************************************)
EXTENDS Integers, FiniteSets, Sequences

CONSTANTS
    Conn,       \* connections
    Nobody,     \* no connection
    MaxUsers,   \* kMaxUsers
    Name, DefaultName,  \* nicknames; kDefaultName
    Shape,      \* what the clients type: sequences of Command.nextType
    MaxFd,      \* bound: descriptors; 0 stands for -1
    MaxPipes,   \* bound: pipes that exist at a time
    MaxSegments,\* bound: segments that a numbered pipe may aim at
    MaxChildren,\* bound: commands that run at a time
    MaxLines,   \* bound: lines of each connection
    Arrival,    \* bound: connections come in this order
    Outputs,    \* bound: units that a command that reads no pipe may write
    Capacity,   \* bound: what a pipe holds
    UserPiping, \* do clients use `<N` and `>N`?
    Mistakes,   \* do they name users and pipes that do not exist, or no number?
    Vanish      \* may a connection be reset?

ASSUME ConnAssumption == Nobody \notin Conn
ASSUME BoundAssumption ==
    /\ MaxUsers \in Nat \ {0} /\ MaxFd \in Nat \ {0} /\ MaxPipes \in Nat /\ MaxSegments \in Nat /\ MaxChildren \in Nat
    /\ MaxLines \in [Conn -> Nat] /\ Outputs \subseteq Nat /\ Capacity \in Nat \ {0}
ASSUME ArrivalAssumption == Arrival \in [Conn -> Nat]
ASSUME NameAssumption == DefaultName \in Name
ASSUME SwitchAssumption == {UserPiping, Mistakes, Vanish} \subseteq BOOLEAN

\* NextType: no pipe and an ordinary pipe; a number stands for a numbered pipe.
NoPipe == -2
Ordinary == -1
ASSUME ShapeAssumption == Shape \subseteq Seq(Nat \union {NoPipe, Ordinary}) \ {<<>>}

Id == 1 .. MaxUsers
NoUser == 0         \* the line has no `<N`, no `>N`
Fd == 1 .. MaxFd
Pipe == 1 .. MaxPipes
Segment == 1 .. MaxSegments
Kid == 1 .. MaxChildren
NoEnds == [r |-> 0, w |-> 0]    \* no entry in numberedPipes or userPipes

\* What a descriptor can refer to.
Listen == <<"listen", 0>>
Null == <<"null", 0>>
Closed == <<"closed", 0>>
Sock(c) == <<"sock", c>>
Rd(q) == <<"r", q>>
Wr(q) == <<"w", q>>
PipeEnd == {"r", "w"} \X Pipe
Object == {Listen, Null} \union {Sock(c) : c \in Conn} \union PipeEnd

\* What a command reads or writes when it is not one of these: the server's stdin.
Stdin == <<"stdin", 0>>
NoKid == [in |-> Stdin, out |-> Null, holds |-> {}, todo |-> 0, job |-> <<Nobody, 0>>]
NoLine == [cmds |-> <<>>, i |-> 0, seg |-> 0, from |-> NoUser, to |-> NoUser, inFd |-> 0, user |-> 0,
           outFd |-> 0, devIn |-> 0, devOut |-> 0, waits |-> {}]

VARIABLES
    fd,         \* the server's descriptor table
    conn,       \* the connections' side
    client,     \* clients: who has a number, Nobody when it is free
    sock,       \* Client.fd
    nick,       \* Client.name
    numbered,   \* ShellState.numberedPipes
    executed,   \* ShellState.executedSegments
    userPipe,   \* userPipes
    pc, ready, cur, line,   \* the server: where it is, readyClients, client, the line under way
    lines,      \* lines read from a connection
    kid,        \* commands that run
    content,    \* units in a pipe
    purpose     \* auxiliary: for whose segment a pipe was made, 0 for a user pipe

session == <<numbered, executed>>
registry == <<client, sock, nick>>
commands == <<kid, content, purpose>>
vars == <<fd, conn, registry, session, userPipe, pc, ready, cur, line, lines, commands>>

Ends == [r : Fd \union {0}, w : Fd \union {0}]

TypeOK ==
    /\ fd \in [Fd -> Object \union {Closed}]
    /\ conn \in [Conn -> {"out", "waiting", "in", "gone", "done"}]
    /\ client \in [Id -> Conn \union {Nobody}]
    /\ sock \in [Id -> Fd \union {0}]
    /\ nick \in [Id -> Name]
    /\ numbered \in [Id -> [Segment -> Ends]]
    /\ executed \in [Id -> Segment \union {0}]
    /\ userPipe \in [Id \X Id -> Ends]
    /\ pc \in {"select", "accept", "serve", "line", "resolveIn", "resolveOut", "command", "wait", "dead"}
    /\ ready \subseteq Id
    /\ cur \in Id \union {0}
    /\ line \in [cmds : Shape \union {<<>>}, i : Nat, seg : Segment \union {0},
                 from : Id \union {NoUser}, to : Id \union {NoUser}, inFd : Fd \union {0},
                 user : Fd \union {0}, outFd : Fd \union {0}, devIn : Fd \union {0},
                 devOut : Fd \union {0}, waits : SUBSET Kid]
    /\ lines \in [Conn -> Nat]
    /\ kid \in [Kid -> [in : Object \union {Stdin}, out : Object, holds : SUBSET Object, todo : Nat,
                        job : (Conn \union {Nobody}) \X (Segment \union {0})]]
    /\ content \in [Pipe -> 0 .. Capacity]
    /\ purpose \in [Pipe -> (Conn \union {Nobody}) \X (Segment \union {0})]

Online(id) == client[id] # Nobody
Running(k) == kid[k] # NoKid

Init ==
    /\ fd = [f \in Fd |-> IF f = 1 THEN Listen ELSE Closed]
    /\ conn = [c \in Conn |-> "out"]
    /\ client = [id \in Id |-> Nobody]
    /\ sock = [id \in Id |-> 0]
    /\ nick = [id \in Id |-> DefaultName]
    /\ numbered = [id \in Id |-> [s \in Segment |-> NoEnds]]
    /\ executed = [id \in Id |-> 0]
    /\ userPipe = [x \in Id \X Id |-> NoEnds]
    /\ pc = "select" /\ ready = {} /\ cur = 0 /\ line = NoLine
    /\ lines = [c \in Conn |-> 0]
    /\ kid = [k \in Kid |-> NoKid]
    /\ content = [q \in Pipe |-> 0]
    /\ purpose = [q \in Pipe |-> <<Nobody, 0>>]

-----------------------------------------------------------------------------
(* The descriptor table *)

\* open, accept and pipe take the lowest descriptor that is free.
Lowest(t) == CHOOSE f \in Fd : t[f] = Closed /\ \A g \in 1 .. f - 1 : t[g] # Closed
Opened(t, o) == [t EXCEPT ![Lowest(t)] = o]

\* closeFd: nothing for -1, and EBADF is ignored.
CloseFd(t, f) == IF f = 0 THEN t ELSE [t EXCEPT ![f] = Closed]
ClosePipe(t, e) == CloseFd(CloseFd(t, e.r), e.w)

\* The bound on descriptors.
Room(t, n) == Cardinality({f \in Fd : t[f] = Closed}) >= n

\* createPipeOrDie: the table with the ends of q in it, and their numbers.
WithPipe(t, q) == Opened(Opened(t, Rd(q)), Wr(q))
PipeFds(t, q) == [r |-> Lowest(t), w |-> Lowest(Opened(t, Rd(q)))]

\* Who has it open: a server that ended holds nothing any more.
HeldOpen(o) == (pc # "dead" /\ \E f \in Fd : fd[f] = o) \/ \E k \in Kid : o \in kid[k].holds
HasReader(q) == HeldOpen(Rd(q))
HasWriter(q) == HeldOpen(Wr(q))

\* A pipe that does not exist.
Fresh(q) ==
    /\ ~HasReader(q) /\ ~HasWriter(q)
    /\ \A p \in 1 .. q - 1 : HasReader(p) \/ HasWriter(p)

-----------------------------------------------------------------------------
(* Clients *)

Connect(c) ==
    /\ conn[c] = "out"
    /\ \A d \in Conn : Arrival[d] < Arrival[c] => conn[d] # "out"
    /\ conn' = [conn EXCEPT ![c] = "waiting"]
    /\ UNCHANGED <<fd, registry, session, userPipe, pc, ready, cur, line, lines, commands>>

\* The client closes its socket, or its machine resets the connection.
Disconnect(c) ==
    /\ Vanish
    /\ conn[c] = "in"
    /\ conn' = [conn EXCEPT ![c] = "gone"]
    /\ UNCHANGED <<fd, registry, session, userPipe, pc, ready, cur, line, lines, commands>>

-----------------------------------------------------------------------------
(* runServer *)

OnlineIds == {id \in Id : Online(id)}

\* The server goes on to l after it wrote to the users in S.  Nothing in the program
\* handles SIGPIPE: writing to a connection that is gone can end it.
Goto(l, S) ==
    \/ pc' = l
    \/ /\ \E id \in S : Online(id) /\ conn[client[id]] = "gone"
       /\ pc' = "dead"

CanType(id) == lines[client[id]] < MaxLines[client[id]]
AtEof(id) == conn[client[id]] = "gone"

\* select: on EBADF the loop tries again, and again.  A connection at its end is
\* ready, one whose client may type something may be.
Select(R) ==
    /\ pc = "select"
    /\ \A id \in OnlineIds : fd[sock[id]] # Closed
    /\ LET waiting == \E c \in Conn : conn[c] = "waiting" IN
         /\ R # {} \/ waiting
         /\ pc' = IF waiting THEN "accept" ELSE "serve"
    /\ \A id \in R : Online(id) /\ (AtEof(id) \/ CanType(id))
    /\ \A id \in OnlineIds : AtEof(id) => id \in R
    /\ ready' = R
    /\ UNCHANGED <<fd, conn, registry, session, userPipe, cur, line, lines, commands>>

SmallestUnusedId(id) == ~Online(id) /\ \A i \in 1 .. id - 1 : Online(i)

\* accept hands connections over in the order in which they came.
InTurn(c) == \A d \in Conn : conn[d] = "waiting" => Arrival[c] <= Arrival[d]

\* acceptClient: the login is told to everybody, the new client included.
Accept(c, id) ==
    /\ pc = "accept" /\ conn[c] = "waiting"
    /\ InTurn(c)
    /\ SmallestUnusedId(id)
    /\ Room(fd, 1)
    /\ fd' = Opened(fd, Sock(c))
    /\ conn' = [conn EXCEPT ![c] = "in"]
    /\ client' = [client EXCEPT ![id] = c]
    /\ sock' = [sock EXCEPT ![id] = Lowest(fd)]
    /\ nick' = [nick EXCEPT ![id] = DefaultName]
    /\ numbered' = [numbered EXCEPT ![id] = [s \in Segment |-> NoEnds]]
    /\ executed' = [executed EXCEPT ![id] = 0]
    /\ Goto("serve", OnlineIds)
    /\ UNCHANGED <<userPipe, ready, cur, line, lines, commands>>

\* acceptClient with all numbers taken: the connection is closed.
Refuse(c) ==
    /\ pc = "accept" /\ conn[c] = "waiting"
    /\ InTurn(c)
    /\ OnlineIds = Id
    /\ conn' = [conn EXCEPT ![c] = "done"]
    /\ pc' = "serve"
    /\ UNCHANGED <<fd, registry, session, userPipe, ready, cur, line, lines, commands>>

\* The loop over readyClients, and its end.
NextReady(id) ==
    /\ pc = "serve"
    /\ id \in ready /\ \A i \in ready : id <= i
    /\ ready' = ready \ {id}
    /\ cur' = id
    /\ pc' = "line"
    /\ UNCHANGED <<fd, conn, registry, session, userPipe, line, lines, commands>>

NoneReady ==
    /\ pc = "serve" /\ ready = {}
    /\ pc' = "select"
    /\ cur' = 0
    /\ UNCHANGED <<fd, conn, registry, session, userPipe, ready, line, lines, commands>>

-----------------------------------------------------------------------------
(* cleanupClient *)

\* The ends in a numberedPipes map.
EndsOf(m) == {m[s] : s \in Segment} \ {NoEnds}
FdsOf(es) == {e.r : e \in es} \union {e.w : e \in es}

\* Seeded fault: pipes to the user are forgotten.
UserPipesFrom(id) == {x \in Id \X Id : x[1] = id /\ userPipe[x] # NoEnds}

UserPipesOf(id) == {x \in Id \X Id : (x[1] = id \/ x[2] = id) /\ userPipe[x] # NoEnds}

\* Seeded fault: delayed pipes stay open.
KeepShellState(id) == {}

\* closeShellState.
ShellStateFds(id) == FdsOf(EndsOf(numbered[id]))

CleanupClient(id) ==
    /\ fd' = [f \in Fd |-> IF f \in {sock[id]} \union ShellStateFds(id)
                                    \union FdsOf({userPipe[x] : x \in UserPipesOf(id)})
                           THEN Closed ELSE fd[f]]
    /\ userPipe' = [x \in Id \X Id |-> IF x \in UserPipesOf(id) THEN NoEnds ELSE userPipe[x]]
    /\ numbered' = [numbered EXCEPT ![id] = [s \in Segment |-> NoEnds]]
    /\ executed' = [executed EXCEPT ![id] = 0]
    /\ conn' = [conn EXCEPT ![client[id]] = "done"]
    /\ client' = [client EXCEPT ![id] = Nobody]
    /\ sock' = [sock EXCEPT ![id] = 0]
    /\ nick' = [nick EXCEPT ![id] = DefaultName]
    /\ line' = NoLine
    /\ Goto("serve", OnlineIds \ {id})
    /\ UNCHANGED <<ready, cur, commands>>

\* read returns 0 or fails.
EndOfInput ==
    /\ pc = "line"
    /\ AtEof(cur)
    /\ CleanupClient(cur)
    /\ UNCHANGED lines

-----------------------------------------------------------------------------
(* handleClientInput, executeLine *)

\* A line is read, or taken from the input buffer.
TakesLine ==
    /\ pc = "line"
    /\ CanType(cur)
    /\ lines' = [lines EXCEPT ![client[cur]] = @ + 1]

\* sendPrompt; the buffer may hold another line.
Prompt(S) ==
    \E l \in {"line", "serve"} :
        /\ l = "line" => lines'[client[cur]] < MaxLines[client[cur]]
        /\ Goto(l, S \union {cur})

ExitLine == TakesLine /\ CleanupClient(cur)

\* discardIncomingPipe.
Discarded(t, e) == ClosePipe(t, e)

\* What every built-in ends with: the pipe that is due is dropped, the segment counted.
CountBuiltin ==
    LET s == executed[cur] + 1 IN
    /\ s \in Segment
    /\ fd' = Discarded(fd, numbered[cur][s])
    /\ numbered' = [numbered EXCEPT ![cur][s] = NoEnds]
    /\ executed' = [executed EXCEPT ![cur] = s]

\* handleRwgBuiltin's who, tell, yell and a refused name, executeShellBuiltin: they only
\* write, to the client, to the user of a tell or to everybody.
Builtin ==
    /\ TakesLine
    /\ CountBuiltin
    /\ \E S \in {{}, OnlineIds} \union {{id} : id \in OnlineIds} : Prompt(S)
    /\ UNCHANGED <<conn, registry, userPipe, ready, cur, line, commands>>

\* std::stoi throws, and nothing catches it: `tell` to what is no number, or a `|N`, `<N`
\* or `>N` that no int holds.
NotANumber ==
    /\ Mistakes
    /\ TakesLine
    /\ pc' = "dead"
    /\ UNCHANGED <<fd, conn, registry, session, userPipe, ready, cur, line, commands>>

\* Seeded fault: the last number is not looked at.
NameTakenButLast(n) == \E id \in Id \ {MaxUsers} : Online(id) /\ nick[id] = n

NameTaken(n) == \E id \in Id : Online(id) /\ nick[id] = n

\* handleRwgBuiltin's name.
Rename(n) ==
    /\ TakesLine
    /\ n # DefaultName
    /\ ~NameTaken(n)
    /\ nick' = [nick EXCEPT ![cur] = n]
    /\ CountBuiltin
    /\ Prompt(OnlineIds)
    /\ UNCHANGED <<conn, client, sock, userPipe, ready, cur, line, commands>>

\* What the clients type, by MaxSegments, UserPiping and Mistakes.
Typable(shape, f, t) ==
    /\ \A i \in 1 .. Len(shape) : \A n \in {0, shape[i]} : executed[cur] + i + n <= MaxSegments
    /\ f # NoUser \/ t # NoUser => UserPiping
    /\ f # NoUser => Mistakes \/ userPipe[<<f, cur>>] # NoEnds
    /\ t # NoUser => Mistakes \/ (Online(t) /\ (userPipe[<<cur, t>>] = NoEnds \/ (f = cur /\ t = cur)))

\* A line of commands, with `<f` and `>t`.
Parse(shape, f, t) ==
    /\ TakesLine
    /\ Typable(shape, f, t)
    /\ line' = [NoLine EXCEPT !.cmds = shape, !.from = f, !.to = t, !.seg = executed[cur]]
    /\ pc' = "resolveIn"
    /\ UNCHANGED <<fd, conn, registry, session, userPipe, ready, cur, commands>>
-----------------------------------------------------------------------------
(* resolveUserPipes *)

\* /dev/null stands in for the pipe that is not there.
ResolveInNull ==
    /\ pc = "resolveIn" /\ line.from # NoUser
    /\ Mistakes
    /\ ~Online(line.from) \/ userPipe[<<line.from, cur>>] = NoEnds
    /\ Room(fd, 1)
    /\ fd' = Opened(fd, Null)
    /\ line' = [line EXCEPT !.user = Lowest(fd), !.devIn = Lowest(fd)]
    /\ Goto("resolveOut", {cur})
    /\ UNCHANGED <<conn, registry, session, userPipe, ready, cur, lines, commands>>

\* Seeded fault: the entry stays in the map.
NotTaken(x) == userPipe

\* Seeded fault: the server keeps the write end of the pipe that is read.
NotDrained(x) == fd

\* The server's write end: without closing it there is no end of file.
Drained(x) == CloseFd(fd, userPipe[x].w)

\* userPipes.erase.
Taken(x) == [userPipe EXCEPT ![x] = NoEnds]

ResolveIn ==
    /\ pc = "resolveIn" /\ line.from # NoUser
    /\ Online(line.from)
    /\ LET x == <<line.from, cur>> IN
         /\ userPipe[x] # NoEnds
         /\ fd' = Drained(x)
         /\ userPipe' = Taken(x)
         /\ line' = [line EXCEPT !.user = userPipe[x].r]
    /\ Goto("resolveOut", OnlineIds)
    /\ UNCHANGED <<conn, registry, session, ready, cur, lines, commands>>

ResolveOutNull ==
    /\ pc = "resolveOut" /\ line.to # NoUser
    /\ Mistakes
    /\ ~Online(line.to) \/ userPipe[<<cur, line.to>>] # NoEnds
    /\ Room(fd, 1)
    /\ fd' = Opened(fd, Null)
    /\ line' = [line EXCEPT !.outFd = Lowest(fd), !.devOut = Lowest(fd)]
    /\ Goto("command", {cur})
    /\ UNCHANGED <<conn, registry, session, userPipe, ready, cur, lines, commands>>

ResolveOut(q) ==
    /\ pc = "resolveOut" /\ line.to # NoUser
    /\ Online(line.to)
    /\ Room(fd, 2) /\ Fresh(q)
    /\ LET x == <<cur, line.to>> IN
         /\ userPipe[x] = NoEnds
         /\ fd' = WithPipe(fd, q)
         /\ userPipe' = [userPipe EXCEPT ![x] = PipeFds(fd, q)]
         /\ line' = [line EXCEPT !.outFd = PipeFds(fd, q).w]
    /\ content' = [content EXCEPT ![q] = 0]
    /\ purpose' = [purpose EXCEPT ![q] = <<client[line.to], 0>>]
    /\ Goto("command", OnlineIds)
    /\ UNCHANGED <<conn, registry, session, ready, cur, lines, kid>>

\* The line has no `<N` or no `>N`.
NotAsked ==
    /\ \/ pc = "resolveIn" /\ line.from = NoUser /\ pc' = "resolveOut"
       \/ pc = "resolveOut" /\ line.to = NoUser /\ pc' = "command"
    /\ UNCHANGED <<fd, conn, registry, session, userPipe, ready, cur, line, lines, commands>>

-----------------------------------------------------------------------------
(* executeExternalCommands *)

\* buildLinePlan: command i starts a segment.
Starts(i) == i = 1 \/ line.cmds[i - 1] # Ordinary

IsLast(i) == i = Len(line.cmds)
Forced(i) == IsLast(i) /\ line.outFd # 0

\* Seeded fault: the line waits for all its commands.
WaitableAll(i) == TRUE

\* buildWaitability: all commands of a segment that ends in `|N` run in the background.
Waitable(i) ==
    \E j \in i .. Len(line.cmds) :
        /\ \A m \in i .. j - 1 : line.cmds[m] = Ordinary
        /\ line.cmds[j] = NoPipe \/ (IsLast(j) /\ line.cmds[j] = Ordinary)

\* The numbered pipe that leads to the segment.
Due(i, s) == IF Starts(i) THEN numbered[cur][s] ELSE NoEnds

\* attachIncomingNumberedPipe, then config.inputFd for the first command: the table,
\* the command's input, and numberedPipes.
Attached(i, s) ==
    LET due == Due(i, s)
        own == IF line.inFd = 0 THEN due.r ELSE line.inFd
        extra == IF line.inFd \notin {0, due.r} THEN due.r ELSE 0
        user == i = 1 /\ line.user # 0
    IN  [fd |-> LET t == CloseFd(CloseFd(fd, extra), due.w)
                IN  IF user THEN CloseFd(t, own) ELSE t,
         in |-> IF user THEN line.user ELSE own,
         numbered |-> IF due # NoEnds THEN [numbered EXCEPT ![cur][s] = NoEnds] ELSE numbered]

\* Seeded fault: a child keeps the numbered pipes that are not its own.
KeptNumbered(m) == {}

\* closeNumberedPipesInChild.
ClosedNumbered(m) == FdsOf(EndsOf(m[cur]))

\* What runChildProcess leaves open after the dup2 of t[in] and t[out]: everything but
\* the client's numbered pipes, all user pipes, and the descriptors it was given.
Inherited(t, m, in, out, ordinary) ==
    LET closed == ClosedNumbered(m) \union FdsOf({userPipe[x] : x \in Id \X Id} \ {NoEnds})
                    \union {ordinary.r, ordinary.w, in, out}
    IN  {t[f] : f \in {g \in Fd \ closed : t[g] # Closed}}

\* What a process reads from t[f].
Input(t, f) == IF f = 0 \/ t[f] = Closed THEN Stdin ELSE t[f]
Output(t, f) == IF f = 0 \/ t[f] = Closed THEN Null ELSE t[f]

\* A command that reads no pipe has its output at once; cat and the like read first.
NewKid(t, m, in, out, ordinary, s, n) ==
    LET i == Input(t, in)
        o == Output(t, out)
    IN  [in |-> i, out |-> o,
         holds |-> Inherited(t, m, in, out, ordinary) \union ({i, o} \ {Stdin}),
         todo |-> IF i = Stdin THEN n ELSE 0,
         job |-> <<client[cur], s>>]

FreeKid(k) == ~Running(k) /\ \A j \in 1 .. k - 1 : Running(j)

\* fork, and what the parent does after it: close the input, keep the read end of an
\* ordinary pipe for the next command, close the write end; the last input is closed
\* after the loop.
Forked(i, s, k, a, t, m, out, ordinary) ==
    /\ FreeKid(k)
    /\ \E n \in Outputs : kid' = [kid EXCEPT ![k] = NewKid(t, m, a.in, out, ordinary, s, n)]
    /\ numbered' = m
    /\ fd' = LET u == CloseFd(CloseFd(t, a.in), ordinary.w)
             IN  IF IsLast(i) THEN CloseFd(u, ordinary.r) ELSE u
    /\ line' = [line EXCEPT !.i = i, !.seg = s, !.inFd = IF IsLast(i) THEN 0 ELSE ordinary.r,
                            !.waits = IF Waitable(i) THEN @ \union {k} ELSE @]
    /\ pc' = IF IsLast(i) THEN "wait" ELSE "command"

\* The next command of the line and its segment.
Turn(i, s) ==
    /\ pc = "command"
    /\ i = line.i + 1
    /\ s = IF Starts(i) THEN line.seg + 1 ELSE line.seg
    /\ s \in Segment

\* Output goes to the client, or where `>N` says.
RunPlain(k) ==
    \E i \in 1 .. Len(line.cmds), s \in Segment :
        /\ Turn(i, s)
        /\ line.cmds[i] = NoPipe \/ Forced(i)
        /\ LET a == Attached(i, s) IN
             Forked(i, s, k, a, a.fd, a.numbered, IF line.outFd # 0 THEN line.outFd ELSE sock[cur], NoEnds)
        /\ UNCHANGED <<conn, registry, executed, userPipe, ready, cur, lines, content, purpose>>

\* Output goes to the next command of the line.
RunPiped(k, q) ==
    \E i \in 1 .. Len(line.cmds), s \in Segment :
        /\ Turn(i, s)
        /\ line.cmds[i] = Ordinary /\ ~Forced(i)
        /\ LET a == Attached(i, s) IN
             /\ Room(a.fd, 2) /\ Fresh(q)
             /\ Forked(i, s, k, a, WithPipe(a.fd, q), a.numbered, PipeFds(a.fd, q).w, PipeFds(a.fd, q))
        /\ content' = [content EXCEPT ![q] = 0]
        /\ purpose' = [purpose EXCEPT ![q] = <<client[cur], s>>]
        /\ UNCHANGED <<conn, registry, executed, userPipe, ready, cur, lines>>

\* Numbered pipes count segments.
Target(i, s) == s + line.cmds[i]

\* Output goes to a segment to come, to which a pipe leads already.
RunNumbered(k) ==
    \E i \in 1 .. Len(line.cmds), s \in Segment :
        /\ Turn(i, s)
        /\ line.cmds[i] >= 0 /\ ~Forced(i)
        /\ Target(i, s) \in Segment
        /\ LET a == Attached(i, s)
               ends == a.numbered[cur][Target(i, s)]
           IN  /\ ends # NoEnds
               /\ Forked(i, s, k, a, a.fd, a.numbered, ends.w, NoEnds)
        /\ UNCHANGED <<conn, registry, executed, userPipe, ready, cur, lines, content, purpose>>

\* Output goes to a segment to come, through a new pipe.
RunNewNumbered(k, q) ==
    \E i \in 1 .. Len(line.cmds), s \in Segment :
        /\ Turn(i, s)
        /\ line.cmds[i] >= 0 /\ ~Forced(i)
        /\ Target(i, s) \in Segment
        /\ LET a == Attached(i, s) IN
             /\ a.numbered[cur][Target(i, s)] = NoEnds
             /\ Room(a.fd, 2) /\ Fresh(q)
             /\ Forked(i, s, k, a, WithPipe(a.fd, q),
                       [a.numbered EXCEPT ![cur][Target(i, s)] = PipeFds(a.fd, q)],
                       PipeFds(a.fd, q).w, NoEnds)
        /\ content' = [content EXCEPT ![q] = 0]
        /\ purpose' = [purpose EXCEPT ![q] = <<client[cur], Target(i, s)>>]
        /\ UNCHANGED <<conn, registry, executed, userPipe, ready, cur, lines>>

\* waitpid for every command that is waited for; then closeUserPipeResolution.
Reap ==
    /\ pc = "wait"
    /\ \A k \in line.waits : ~Running(k)
    /\ fd' = CloseFd(CloseFd(fd, line.devIn), line.devOut)
    /\ executed' = [executed EXCEPT ![cur] = line.seg]
    /\ line' = NoLine
    /\ UNCHANGED <<conn, registry, numbered, userPipe, ready, cur, lines, commands>>
    /\ Prompt({})

-----------------------------------------------------------------------------
(* Commands *)

Finished(k) == kid' = [kid EXCEPT ![k] = NoKid]

\* A unit from the pipe that is its stdin.
Read(k, q) ==
    /\ kid[k].in = Rd(q) /\ kid[k].todo = 0 /\ content[q] > 0
    /\ content' = [content EXCEPT ![q] = @ - 1]
    /\ kid' = [kid EXCEPT ![k].todo = 1]

\* Seeded fault: a pipe has no end.
NeverFull(q) == FALSE

Full(q) == content[q] = Capacity

\* A unit to its stdout: a full pipe blocks it, a pipe that nobody reads ends it.
Write(k) ==
    /\ kid[k].todo > 0
    /\ \/ /\ kid[k].out \notin PipeEnd
          /\ kid' = [kid EXCEPT ![k].todo = @ - 1]
          /\ UNCHANGED content
       \/ \E q \in Pipe :
             /\ kid[k].out = Wr(q)
             /\ \/ /\ HasReader(q) /\ ~Full(q)
                   /\ content' = [content EXCEPT ![q] = @ + 1]
                   /\ kid' = [kid EXCEPT ![k].todo = @ - 1]
                \/ ~HasReader(q) /\ Finished(k) /\ UNCHANGED content

\* Nothing more to write; a command that reads a pipe also waits for its end.
End(k) ==
    /\ Running(k) /\ kid[k].todo = 0
    /\ \A q \in Pipe : kid[k].in = Rd(q) => content[q] = 0 /\ ~HasWriter(q)
    /\ Finished(k)
    /\ UNCHANGED content

Command(k) ==
    /\ (\E q \in Pipe : Read(k, q)) \/ Write(k) \/ End(k)
    /\ UNCHANGED <<fd, conn, registry, session, userPipe, pc, ready, cur, line, lines, purpose>>

-----------------------------------------------------------------------------

Environment == \E c \in Conn : Connect(c) \/ Disconnect(c)

Server ==
    \/ \E R \in SUBSET Id : Select(R)
    \/ \E c \in Conn : (\E id \in Id : Accept(c, id)) \/ Refuse(c)
    \/ \E id \in Id : NextReady(id)
    \/ NoneReady
    \/ EndOfInput
    \/ ExitLine \/ Builtin \/ NotANumber
    \/ \E n \in Name : Rename(n)
    \/ \E s \in Shape, f, t \in Id \union {NoUser} : Parse(s, f, t)
    \/ NotAsked \/ ResolveInNull \/ ResolveIn \/ ResolveOutNull
    \/ \E q \in Pipe : ResolveOut(q)
    \/ \E k \in Kid : 
        \/ RunPlain(k) \/ RunNumbered(k)
        \/ \E q \in Pipe : RunPiped(k, q) \/ RunNewNumbered(k, q)
    \/ Reap

Next == Environment \/ Server \/ \E k \in Kid : Command(k)

Spec == Init /\ [][Next]_vars

\* The server and the commands run; clients owe nothing.
FairSpec == Spec /\ WF_vars(pc # "select" /\ Server) /\ \A k \in Kid : WF_vars(Command(k))
-----------------------------------------------------------------------------
(* Properties *)

NumberedIn == {x \in Id \X Segment : numbered[x[1]][x[2]] # NoEnds}
UserPipesIn == {x \in Id \X Id : userPipe[x] # NoEnds}

\* Both ends of one pipe, made for that purpose.
EndsOfPipe(e, why) == \E q \in Pipe : fd[e.r] = Rd(q) /\ fd[e.w] = Wr(q) /\ purpose[q] = why

\* What the server keeps for a user is that user's: its socket number refers to its
\* connection, and the descriptors of its delayed pipes and user pipes to pipes made for
\* those segments and users, whatever was opened and closed in the meantime.
OwnDescriptors ==
    /\ \A id \in OnlineIds : sock[id] # 0 /\ fd[sock[id]] = Sock(client[id])
    /\ \A x \in NumberedIn :
          LET e == numbered[x[1]][x[2]] IN
          e.r # 0 /\ e.w # 0 /\ EndsOfPipe(e, <<client[x[1]], x[2]>>)
    /\ \A x \in UserPipesIn :
          userPipe[x].r # 0 /\ userPipe[x].w # 0 /\ EndsOfPipe(userPipe[x], <<client[x[2]], 0>>)

\* Between lines the server has open what its tables account for, and nothing else.
NothingLeaks ==
    pc = "select" =>
        {f \in Fd : fd[f] # Closed} =
            {1} \union {sock[id] : id \in OnlineIds}
                \union FdsOf({numbered[x[1]][x[2]] : x \in NumberedIn})
                \union FdsOf({userPipe[x] : x \in UserPipesIn})

\* A command reads a pipe made for its own segment of its own client, or a pipe that
\* another user made for that client.
InputIsMeantForIt ==
    \A k \in Kid, q \in Pipe :
        Running(k) /\ kid[k].in = Rd(q) => purpose[q] \in {kid[k].job, <<kid[k].job[1], 0>>}

\* Nobody's delayed pipe waits for a segment that is over.
DelaysLieAhead == pc = "select" => \A x \in NumberedIn : x[2] > executed[x[1]]

\* Only its writers and readers keep a pipe open.  A command closes the user pipes of
\* everybody and the numbered pipes of its own client, not those of the other clients.
OnlyIntendedEnds ==
    \A k \in Kid, q \in Pipe :
        \/ {Rd(q), Wr(q)} \intersect kid[k].holds \subseteq {kid[k].in, kid[k].out}
        \/ purpose[q][1] # kid[k].job[1] /\ purpose[q][2] # 0

\* The ends of a pipe are where they belong: with the commands that it was made for, and
\* in the server while a command for them is still to come.
EndsInRightHands == InputIsMeantForIt /\ OnlyIntendedEnds /\ DelaysLieAhead /\ NothingLeaks

\* User pipes are between two users who are online.
PipesBetweenUsers == \A x \in UserPipesIn : Online(x[1]) /\ Online(x[2])

\* A command waits for the end of a pipe that another client's command keeps open.
HeldUp(k) ==
    \E j \in Kid :
        /\ Running(j) /\ kid[j].job[1] # kid[k].job[1]
        /\ \E q \in Pipe :
              \/ kid[k].in = Rd(q) /\ Wr(q) \in kid[j].holds /\ kid[j].out # Wr(q)
              \/ kid[k].out = Wr(q) /\ Rd(q) \in kid[j].holds /\ kid[j].in # Rd(q)

\* Its output fills a user pipe that no command reads yet.
Unread(k) ==
    \E q \in Pipe : /\ kid[k].out = Wr(q) /\ purpose[q][2] = 0 /\ Full(q)
                   /\ \A j \in Kid : kid[j].in # Rd(q)

\* A command of the line under way cannot go on without another client.
Hung == pc = "wait" /\ \E k \in line.waits : HeldUp(k) \/ Unread(k)

\* The server comes back to its select, where the other clients wait for their turn, and
\* only those two things can keep it from there.
ComesBack == []<>(pc \in {"select", "dead"}) \/ <>[]Hung

\* Not true: every line of every client comes to its end.
AlwaysComesBack == []<>(pc \in {"select", "dead"})

\* No client ends the server.
StaysUp == pc # "dead"

\* When the server has closed a connection, no command of that client keeps it open for
\* good, unless one of them is held up by another client's command.
ClosedForGood ==
    []<>\A c \in Conn :
        LET own == {k \in Kid : kid[k].job[1] = c}
        IN  conn[c] # "done" \/ (\A k \in own : Sock(c) \notin kid[k].holds) \/ \E k \in own : HeldUp(k)

\* Not true: when the server has closed a connection, the client learns of it.
ClientLearns ==
    \A c \in Conn : conn[c] = "done" ~> \A k \in Kid : Sock(c) \notin kid[k].holds

\* Both servers implement the same behaviour: the users' directory and the user pipes.
Directory == INSTANCE UserDirectory WITH User <- Conn, user <- client
ImplementsDirectory == Directory!Spec

Pipes == INSTANCE UserPipes WITH Slot <- Id, users <- OnlineIds, pipes <- UserPipesIn
ImplementsUserPipes == Pipes!Spec
=============================================================================
