---------------------------- MODULE UserPipeFifo ----------------------------
(***************************************************************************)
(* The user pipes of 02-rwg-server/np_multi_proc.cpp: userPipeExists in    *)
(* shared memory says that sender s has a pipe for receiver r, the data is *)
(* in the FIFO <kUserPipeDir>/s_r.  The table changes inside critical      *)
(* sections, one step each here (NpMultiProc shows that they exclude each  *)
(* other); the system calls on the path happen outside of them.            *)
(*                                                                         *)
(* A session of Session is one connection.  Its n-th line makes the        *)
(* transfer <<session, n>> when it pipes something to a user; the transfer *)
(* also names the FIFO that mkfifo creates for it.  Its output is counted  *)
(* in pieces, of which a FIFO takes one: an output of one piece fits, a    *)
(* larger one fills the FIFO and waits for a reader to empty it.           *)
(***************************************************************************)
EXTENDS Integers, FiniteSets

CONSTANTS
    Session,    \* connections
    Nobody,     \* no session
    MaxUsers,   \* kMaxUsers
    MaxLines,   \* bound: command lines of a session
    AllLines,   \* bound: command lines of all sessions together
    Outputs,    \* bound: pieces that a command may write
    Arrival,    \* bound: sessions begin in this order
    Overlap     \* may clients act while the server is still at work?

ASSUME SessionAssumption == Nobody \notin Session
ASSUME BoundAssumption == MaxUsers \in Nat \ {0} /\ MaxLines \in Nat 
ASSUME OutputsAssumption == Outputs \subseteq Nat
ASSUME ArrivalAssumption == Arrival \in [Session -> Nat]
ASSUME OverlapAssumption == Overlap \in BOOLEAN

Slot == 1 .. MaxUsers
NoUser == 0     \* the line has no `<N`, no `>N`
Path == Slot \X Slot
Transfer == Session \X (1 .. MaxLines)
None == <<Nobody, 0>>   \* no transfer, no FIFO at a path, fd -1 or /dev/null
Fifo == Transfer \union {None}
Piece == Transfer \X Nat

VARIABLES
    user,       \* per slot: the session that has it, or Nobody
    slot,       \* per session: currentUserId, 0 before the login
    exists,     \* userPipeExists: the transfer the flag stands for, None when 0
    file,       \* per path: the FIFO it names
    data,       \* per FIFO: what it holds
    pc,         \* where a session is
    from, to,   \* UserPipeRequest of its line
    lines,      \* lines read
    inputFd, outputFd, holdFd,  \* UserPipeResolution
    hold,       \* the holdFds it has open: the next line forgets them, nothing closes them
    left,       \* pieces that its command has yet to write
    unlinks,    \* paths that cleanupUser has yet to unlink
    claim,      \* auxiliary, per line: the transfer whose flag it cleared
    got,        \* auxiliary, per line: what it read
    size,       \* auxiliary, per transfer: the pieces of its output
    meantFor,   \* auxiliary, per transfer: the session that was `>N` when the flag was set
    unmade      \* auxiliary: transfers without a FIFO, mkfifo having failed

registry == <<user, slot>>
fds == <<inputFd, outputFd, holdFd, hold>>
history == <<claim, got, size, meantFor, unmade>>
vars == <<registry, exists, file, data, pc, from, to, lines, fds, left, unlinks, history>>

TypeOK ==
    /\ user \in [Slot -> Session \union {Nobody}]
    /\ slot \in [Session -> Slot \union {0}]
    /\ exists \in [Path -> Fifo]
    /\ file \in [Path -> Fifo]
    /\ data \in [Transfer -> SUBSET Piece]
    /\ pc \in [Session -> {"new", "idle", "claimIn", "openIn", "unlinkIn", "claimOut", "unlinkOut",
                           "mkfifo", "openHold", "openWrite", "read", "write", "cleanup", "exited",
                           "aborted"}]
    /\ from \in [Session -> Slot \union {NoUser}]
    /\ to \in [Session -> Slot \union {NoUser}]
    /\ lines \in [Session -> 0 .. MaxLines]
    /\ inputFd \in [Session -> Fifo]
    /\ outputFd \in [Session -> Fifo]
    /\ holdFd \in [Session -> Fifo]
    /\ hold \in [Session -> SUBSET Transfer]
    /\ left \in [Session -> Nat]
    /\ unlinks \in [Session -> SUBSET Path]
    /\ claim \in [Transfer -> Fifo]
    /\ got \in [Transfer -> SUBSET Piece]
    /\ size \in [Transfer -> Nat]
    /\ meantFor \in [Transfer -> Session \union {Nobody}]
    /\ unmade \in SUBSET Transfer

Online(s) == user[s] # Nobody
Busy(p) == pc[p] \notin {"new", "idle", "exited", "aborted"}
Quiet == \A p \in Session : ~Busy(p)
EnvMayAct == Overlap \/ Quiet

Init ==
    /\ user = [s \in Slot |-> Nobody]
    /\ slot = [p \in Session |-> 0]
    /\ exists = [x \in Path |-> None]
    /\ file = [x \in Path |-> None]
    /\ data = [t \in Transfer |-> {}]
    /\ pc = [p \in Session |-> "new"]
    /\ from = [p \in Session |-> NoUser]
    /\ to = [p \in Session |-> NoUser]
    /\ lines = [p \in Session |-> 0]
    /\ inputFd = [p \in Session |-> None]
    /\ outputFd = [p \in Session |-> None]
    /\ holdFd = [p \in Session |-> None]
    /\ hold = [p \in Session |-> {}]
    /\ left = [p \in Session |-> 0]
    /\ unlinks = [p \in Session |-> {}]
    /\ claim = [t \in Transfer |-> None]
    /\ got = [t \in Transfer |-> {}]
    /\ size = [t \in Transfer |-> 0]
    /\ meantFor = [t \in Transfer |-> Nobody]
    /\ unmade = {}

-----------------------------------------------------------------------------
(* Sessions *)

Goto(p, l) == pc' = [pc EXCEPT ![p] = l]

\* assignUser, one critical section.
Login(p, s) ==
    /\ pc[p] = "new"
    /\ EnvMayAct
    /\ \A q \in Session : Arrival[q] < Arrival[p] => pc[q] # "new"
    /\ ~Online(s) /\ \A t \in 1 .. s - 1 : Online(t)
    /\ user' = [user EXCEPT ![s] = p]
    /\ slot' = [slot EXCEPT ![p] = s]
    /\ Goto(p, "idle")
    /\ UNCHANGED <<exists, file, data, from, to, lines, fds, left, unlinks, history>>

\* executeLine with a command that has `<f`, `>t` or both: a new resolution.
ReadLine(p, f, t) ==
    /\ pc[p] = "idle"
    /\ EnvMayAct
    /\ lines[p] < MaxLines /\ Cardinality({u \in Transfer : u[2] <= lines[u[1]]}) < AllLines
    /\ f # NoUser \/ t # NoUser
    /\ lines' = [lines EXCEPT ![p] = @ + 1]
    /\ from' = [from EXCEPT ![p] = f]
    /\ to' = [to EXCEPT ![p] = t]
    /\ inputFd' = [inputFd EXCEPT ![p] = None]
    /\ outputFd' = [outputFd EXCEPT ![p] = None]
    /\ holdFd' = [holdFd EXCEPT ![p] = None]
    /\ Goto(p, IF f # NoUser THEN "claimIn" ELSE "claimOut")
    /\ UNCHANGED <<registry, exists, file, data, hold, left, unlinks, history>>

\* What is left in the FIFOs when the process of p has ended: data that nobody else
\* has open for reading is gone.
Forgotten(p) ==
    [f \in Transfer |-> IF f \in hold[p] /\ \A q \in Session \ {p} : f # inputFd[q] THEN {} ELSE data[f]]

\* A number in `<N` or `>N` too large for an int: nothing catches what std::stoi throws,
\* the process aborts, its slot and its flags stay.
Overflow(p) ==
    /\ pc[p] = "idle"
    /\ EnvMayAct
    /\ data' = Forgotten(p)
    /\ Goto(p, "aborted")
    /\ UNCHANGED <<registry, exists, file, from, to, lines, fds, left, unlinks, history>>

-----------------------------------------------------------------------------
(* resolveUserPipes, `<N` *)

InPath(p) == <<from[p], slot[p]>>
Current(p) == <<p, lines[p]>>

\* What follows the input half of the line.
AfterInput(p) == IF to[p] # NoUser THEN "claimOut" ELSE "read"

\* Seeded fault: the flag is read but not cleared.
NotTaken(x) == exists

\* The flag goes from 1 to 0.
Taken(x) == [exists EXCEPT ![x] = None]

\* The critical section: sender online and flag set, clear the flag; else /dev/null.
ClaimIn(p) ==
    /\ pc[p] = "claimIn"
    /\ IF Online(from[p]) /\ exists[InPath(p)] # None
       THEN /\ exists' = Taken(InPath(p))
            /\ claim' = [claim EXCEPT ![Current(p)] = exists[InPath(p)]]
            /\ Goto(p, "openIn")
       ELSE /\ Goto(p, AfterInput(p))
            /\ UNCHANGED <<exists, claim>>
    /\ UNCHANGED <<registry, file, data, from, to, lines, fds, left, unlinks, got, size, meantFor, unmade>>

\* Seeded fault: the path is unlinked before it is opened.
OpenUnlinked(p) ==
    /\ pc[p] = "openIn"
    /\ inputFd' = [inputFd EXCEPT ![p] = None]
    /\ Goto(p, "unlinkIn")
    /\ UNCHANGED <<registry, exists, file, data, from, to, lines, outputFd, holdFd, hold, left, unlinks, history>>

\* open(path, O_RDONLY | O_NONBLOCK): whatever the path names now, -1 if nothing.
OpenIn(p) ==
    /\ pc[p] = "openIn"
    /\ inputFd' = [inputFd EXCEPT ![p] = file[InPath(p)]]
    /\ Goto(p, "unlinkIn")
    /\ UNCHANGED <<registry, exists, file, data, from, to, lines, outputFd, holdFd, hold, left, unlinks, history>>

\* unlink(path).
Unlinked(x) == [file EXCEPT ![x] = None]

\* The broadcast that the user "just received", then unlink(path).
UnlinkIn(p) ==
    /\ pc[p] = "unlinkIn"
    /\ file' = Unlinked(InPath(p))
    /\ Goto(p, AfterInput(p))
    /\ UNCHANGED <<registry, exists, data, from, to, lines, fds, left, unlinks, history>>

-----------------------------------------------------------------------------
(* resolveUserPipes, `>N` *)

OutPath(p) == <<slot[p], to[p]>>

\* The critical section: receiver online and flag clear, set the flag; else /dev/null.
ClaimOut(p) ==
    /\ pc[p] = "claimOut"
    /\ IF Online(to[p]) /\ exists[OutPath(p)] = None
       THEN /\ exists' = [exists EXCEPT ![OutPath(p)] = Current(p)]
            /\ meantFor' = [meantFor EXCEPT ![Current(p)] = user[to[p]]]
            /\ Goto(p, "unlinkOut")
       ELSE /\ Goto(p, "read")
            /\ UNCHANGED <<exists, meantFor>>
    /\ UNCHANGED <<registry, file, data, from, to, lines, fds, left, unlinks, claim, got, size, unmade>>

UnlinkOut(p) ==
    /\ pc[p] = "unlinkOut"
    /\ file' = Unlinked(OutPath(p))
    /\ Goto(p, "mkfifo")
    /\ UNCHANGED <<registry, exists, data, from, to, lines, fds, left, unlinks, history>>

\* mkfifo: EEXIST counts as success.
Mkfifo(p) ==
    /\ pc[p] = "mkfifo"
    /\ file' = [file EXCEPT ![OutPath(p)] = IF @ = None THEN Current(p) ELSE @]
    /\ Goto(p, "openHold")
    /\ UNCHANGED <<registry, exists, data, from, to, lines, fds, left, unlinks, history>>

\* Any other error: the line writes to /dev/null, the flag stays set.
MkfifoFails(p) ==
    /\ pc[p] = "mkfifo"
    /\ file[OutPath(p)] = None
    /\ unmade' = unmade \union {Current(p)}
    /\ Goto(p, "read")
    /\ UNCHANGED <<registry, exists, file, data, from, to, lines, fds, left, unlinks, claim, got, size, meantFor>>

\* Seeded fault: a failed open counts as one.
HeldOrFailed(p) == {file[OutPath(p)]}

\* Seeded fault: nobody holds the FIFO open for reading.
NotHeld(p) == {}

\* What the new holdFd keeps open: nothing when the path is gone again.
Held(p) == {file[OutPath(p)]} \ {None}

\* open(path, O_RDONLY | O_NONBLOCK): the FIFO has a reader from now on.
OpenHold(p) ==
    /\ pc[p] = "openHold"
    /\ holdFd' = [holdFd EXCEPT ![p] = file[OutPath(p)]]
    /\ hold' = [hold EXCEPT ![p] = @ \union Held(p)]
    /\ Goto(p, "openWrite")
    /\ UNCHANGED <<registry, exists, file, data, from, to, lines, inputFd, outputFd, left, unlinks, history>>

\* A FIFO that some session has open for reading.
HasReader(f) == \E q \in Session : pc[q] \notin {"exited", "aborted"} /\ (f \in hold[q] \/ f = inputFd[q])

\* open(path, O_WRONLY) waits for a reader; on ENOENT holdFd is closed and the line
\* writes to /dev/null.
OpenWrite(p) ==
    /\ pc[p] = "openWrite"
    /\ file[OutPath(p)] # None => HasReader(file[OutPath(p)])
    /\ outputFd' = [outputFd EXCEPT ![p] = file[OutPath(p)]]
    /\ hold' = [hold EXCEPT ![p] = IF file[OutPath(p)] = None THEN @ \ {holdFd[p]} ELSE @]
    /\ Goto(p, "read")
    /\ UNCHANGED <<registry, exists, file, data, from, to, lines, inputFd, holdFd, left, unlinks, history>>

-----------------------------------------------------------------------------
(* executeExternalCommands: the command reads its input, then writes its output *)

\* A read of what the FIFO holds.
ReadPiece(p) ==
    /\ pc[p] = "read"
    /\ inputFd[p] # None /\ data[inputFd[p]] # {}
    /\ got' = [got EXCEPT ![Current(p)] = @ \union data[inputFd[p]]]
    /\ data' = [data EXCEPT ![inputFd[p]] = {}]
    /\ UNCHANGED <<registry, exists, file, pc, from, to, lines, fds, left, unlinks, claim, size, meantFor, unmade>>

\* The descriptor does not block: an empty FIFO ends the input, whether its writer is
\* done or not.  Only then is it known how much the command writes.
EndOfInput(p) ==
    /\ pc[p] = "read"
    /\ inputFd[p] # None => data[inputFd[p]] = {}
    /\ IF outputFd[p] # None
       THEN \E n \in Outputs : /\ left' = [left EXCEPT ![p] = n]
                             /\ size' = [size EXCEPT ![Current(p)] = n]
       ELSE UNCHANGED <<left, size>>
    /\ Goto(p, "write")
    /\ UNCHANGED <<registry, exists, file, data, from, to, lines, fds, unlinks, claim, got, meantFor, unmade>>

\* A piece of the output enters the FIFO, which takes no more until it has been read:
\* holdFd keeps a reader, so the writer waits and gets no EPIPE.
WritePiece(p) ==
    /\ pc[p] = "write"
    /\ outputFd[p] # None /\ left[p] > 0
    /\ data[outputFd[p]] = {}
    /\ data' = [data EXCEPT ![outputFd[p]] = {<<Current(p), left[p]>>}]
    /\ left' = [left EXCEPT ![p] = @ - 1]
    /\ UNCHANGED <<registry, exists, file, pc, from, to, lines, fds, unlinks, history>>

\* The command has ended.  executeExternalCommands closes inputFd,
\* closeUserPipeResolution outputFd, and holdFd stays open.
EndOfLine(p) ==
    /\ pc[p] = "write"
    /\ left[p] = 0
    /\ inputFd' = [inputFd EXCEPT ![p] = None]
    /\ outputFd' = [outputFd EXCEPT ![p] = None]
    /\ Goto(p, "idle")
    /\ UNCHANGED <<registry, exists, file, data, from, to, lines, holdFd, hold, left, unlinks, history>>

-----------------------------------------------------------------------------
(* cleanupUser *)

\* Seeded fault: the pipes to the user are forgotten.
TouchesAsSender(x, s) == x[1] = s

\* The user's row and column.
Touches(x, s) == x[1] = s \/ x[2] = s

\* The critical section: the slot and all its flags, paths noted for later.
Cleanup(p) ==
    /\ pc[p] = "idle"
    /\ EnvMayAct
    /\ LET s == slot[p] IN
         /\ user' = [user EXCEPT ![s] = Nobody]
         /\ exists' = [x \in Path |-> IF Touches(x, s) THEN None ELSE exists[x]]
         /\ unlinks' = [unlinks EXCEPT ![p] = {x \in Path : Touches(x, s) /\ exists[x] # None}]
    /\ Goto(p, "cleanup")
    /\ UNCHANGED <<slot, file, data, from, to, lines, fds, left, history>>

\* One unlink of the loop after the unlock.
UnlinkNoted(p, x) ==
    /\ pc[p] = "cleanup"
    /\ x \in unlinks[p]
    /\ file' = Unlinked(x)
    /\ unlinks' = [unlinks EXCEPT ![p] = @ \ {x}]
    /\ UNCHANGED <<registry, exists, data, pc, from, to, lines, fds, left, history>>

\* _exit closes every holdFd.
Exit(p) ==
    /\ pc[p] = "cleanup" /\ unlinks[p] = {}
    /\ data' = Forgotten(p)
    /\ Goto(p, "exited")
    /\ UNCHANGED <<registry, exists, file, from, to, lines, fds, left, unlinks, history>>

-----------------------------------------------------------------------------

Environment(p) ==
    \/ \E s \in Slot : Login(p, s)
    \/ \E f, t \in Slot \union {NoUser} : ReadLine(p, f, t)
    \/ Overflow(p)
    \/ Cleanup(p)

Line(p) ==
    \/ ClaimIn(p) \/ OpenIn(p) \/ UnlinkIn(p)
    \/ ClaimOut(p) \/ UnlinkOut(p) \/ Mkfifo(p) \/ MkfifoFails(p) \/ OpenHold(p) \/ OpenWrite(p)
    \/ ReadPiece(p) \/ EndOfInput(p) \/ WritePiece(p) \/ EndOfLine(p)
    \/ \E x \in Path : UnlinkNoted(p, x)
    \/ Exit(p)

Next == \E p \in Session : Environment(p) \/ Line(p)

Spec == Init /\ [][Next]_vars

\* Sessions run; clients owe nothing.
FairSpec == Spec /\ \A p \in Session : WF_vars(Line(p))

-----------------------------------------------------------------------------
(* Properties *)

\* cleanupUser clears a user's row and column, `>N` tests its receiver in the
\* section that sets the flag: a flag never outlives the users it is between.
PipesBetweenUsers ==
    \A x \in Path : exists[x] # None => Online(x[1]) /\ Online(x[2])

\* holdFd is opened before the blocking open for writing: that open finds a
\* reader, or no file, whoever unlinks or reads the path in the meantime.
NeverBlocksOnOpen ==
    \A p \in Session : pc[p] = "openWrite" /\ file[OutPath(p)] # None => HasReader(file[OutPath(p)])

\* The flag is tested and cleared in one section: one line uses a pipe up.
ConsumedOnce == \A t, u \in Transfer : claim[t] # None /\ claim[t] = claim[u] => t = u

\* The line has read its input to the end.
HasRead(t) ==
    \/ t[2] < lines[t[1]]
    \/ t = Current(t[1]) /\ pc[t[1]] \in {"write", "idle", "cleanup", "exited", "aborted"}

\* There was no FIFO to write the output to, or its process has aborted and taken the
\* only open end of the FIFO along.
Spoilt(t) == t \in unmade \/ pc[t[1]] = "aborted"

\* `<N` consumes what `>N` transferred: a line that was granted the pipe reads the
\* output that the pipe was made for, from the first piece to the last.
ReceivedWhole ==
    \A t \in Transfer :
        claim[t] # None /\ HasRead(t) => got[t] = {claim[t]} \X (1 .. size[claim[t]]) \/ Spoilt(claim[t])

\* Output for a user is read only by the session that was that user when the
\* sender's `>N` named it, although slots change hands.
OnlyAddresseeReads == \A t \in Transfer : \A b \in got[t] : meantFor[b[1]] = t[1]

\* Between lines the files in kUserPipeDir are those of the flags, but for the FIFOs that
\* could not be made.
FilesMatchFlags ==
    Quiet => \A x \in Path : file[x] = exists[x] \/ (file[x] = None /\ exists[x] \in unmade)

\* Between polite clients `>N` and `<N` transfer an output whole, to the user who was
\* named, and leave no file behind.
CleanTransfers == OnlyAddresseeReads /\ ReceivedWhole /\ FilesMatchFlags

\* The command of p has filled a FIFO of its own and has more to write, and nobody
\* reads it: what happens to output that does not fit and is not asked for.
WaitsForReader(p) ==
    /\ pc[p] = "write" /\ left[p] > 0
    /\ data[outputFd[p]] # {}
    /\ \A q \in Session : pc[q] = "read" => inputFd[q] # outputFd[p]

\* A command line ends, whatever the other sessions do and however their lines and
\* logouts overlap with it, or it hangs in one place only: it waits for a reader.
EveryLineEnds == \A p \in Session : []<>~Busy(p) \/ <>[]WaitsForReader(p)

\* What the registry and the flags stand for.
onlineSlots == {s \in Slot : Online(s)}
flagged == {x \in Path : exists[x] # None}

\* The flags implement the user pipes: no step makes, uses up or drops a pipe other
\* than a `>N`, a `<N` or the logout of one of its users.
Pipes == INSTANCE UserPipes WITH users <- onlineSlots, pipes <- flagged
ImplementsUserPipes == Pipes!Spec
=============================================================================
