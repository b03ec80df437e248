---------------------------- MODULE NpMultiProc ----------------------------
(***************************************************************************)
(* The multi-process chat shell of 02-rwg-server/np_multi_proc.cpp: one    *)
(* process per connected client, a user registry and one mailbox per user  *)
(* in System V shared memory behind a test-and-set spin lock, and SIGUSR1  *)
(* to tell a user's process that its mailbox holds something.              *)
(*                                                                         *)
(* A process p of Proc is one connection from fork() to its end.  It has   *)
(* two contexts: the main context (serveClient) and the SIGUSR1 handler    *)
(* (flushPendingMessages), which interrupts main between any two steps.    *)
(* A critical section is two steps, Acquire and the body that releases, so *)
(* that a signal can arrive in between.                                    *)
(***************************************************************************)
EXTENDS Integers, Sequences, FiniteSets, SequencesExt

CONSTANTS
    Proc,           \* connections, each served by a process of its own
    NoProc,         \* "no process"
    MaxUsers,       \* kMaxUsers, the slots of the registry
    MaxMessages,    \* kMaxMessages, the room of a mailbox
    Name,           \* nicknames
    DefaultName,    \* kDefaultName
    StoredName,     \* what copyString keeps of a nickname (kNameSize - 1 bytes)
    MaxLines,       \* bound: command lines a client sends
    Speakers,       \* bound: clients that send command lines
    Arrival,        \* bound: connections come in this order
    Vanish,         \* may a client close its socket without saying exit?
    Overlap         \* may clients act while the server is still at work?

ASSUME ProcAssumption == NoProc \notin Proc
ASSUME SizeAssumption == MaxUsers \in Nat \ {0} /\ MaxMessages \in Nat /\ MaxLines \in Nat
ASSUME ArrivalAssumption == Speakers \in Nat /\ Arrival \in [Proc -> Nat]
ASSUME NameAssumption == DefaultName \in Name /\ StoredName \in [Name -> Name]
ASSUME FlagAssumption == Vanish \in BOOLEAN /\ Overlap \in BOOLEAN

Slot == 1 .. MaxUsers
NoSlot == -1

\* What a process says: kind, and its position among the texts of that process.
Kind == {"none", "entered", "reply", "named", "told", "yelled", "left"}
Text == [kind : Kind, n : 0 .. MaxLines + 1]

\* A text on its way; `to` is the process it was meant for when the sender
\* looked the receiver up (an auxiliary field: the code stores the text only).
Message == [from : Proc, to : Proc, kind : Kind, n : 0 .. MaxLines + 1]

\* One entry of targetIds, with the process that had the slot at the look-up.
Target == [id : Slot, owner : Proc]

VARIABLES
    lock,       \* SharedState.lock
    online,     \* SharedUser.online, per slot
    pid,        \* SharedUser.pid, per slot; keeps its value after a logout
    name,       \* SharedUser.name, per slot
    messages,   \* SharedUser.messages up to messageCount, per slot
    pc,         \* where the main context of a process is
    inCS,       \* main is between lockShared and unlockShared
    handler,    \* "none", "lock" (spinning in lockShared) or "flush" (holding the lock)
    sig,        \* SIGUSR1 is pending: signals do not queue
    myId,       \* currentUserId
    text,       \* what the process is sending
    targets,    \* the targetIds still to be visited
    killPid,    \* targetPid between unlockShared and kill
    lines,      \* command lines read so far
    client,     \* "up" or "gone": the peer of currentClientFd
    seen        \* auxiliary: the messages written to the client, in order

shared == <<lock, online, pid, name, messages>>
registry == <<online, pid, name>>
local == <<myId, text, targets, killPid, lines>>
vars == <<lock, online, pid, name, messages, pc, inCS, handler, sig, myId,
          text, targets, killPid, lines, client, seen>>

-----------------------------------------------------------------------------

Active == {"assign", "install", "collect", "send", "kill", "idle",
           "who", "name", "tell", "yell", "cleanup"}
Command == {"who", "name", "tell", "yell"}

TypeOK ==
    /\ lock \in {0, 1}
    /\ online \in [Slot -> BOOLEAN]
    /\ pid \in [Slot -> Proc \union {NoProc}]
    /\ name \in [Slot -> Name]
    /\ messages \in [Slot -> Seq(Message)]
    /\ \A s \in Slot : Len(messages[s]) =< MaxMessages
    /\ pc \in [Proc -> Active \union {"new", "exited", "killed", "aborted"}]
    /\ inCS \in [Proc -> BOOLEAN]
    /\ handler \in [Proc -> {"none", "lock", "flush"}]
    /\ sig \in [Proc -> BOOLEAN]
    /\ myId \in [Proc -> Slot \union {NoSlot}]
    /\ text \in [Proc -> Text]
    /\ targets \in [Proc -> SUBSET Target]
    /\ killPid \in [Proc -> Proc \union {NoProc}]
    /\ lines \in [Proc -> 0 .. MaxLines]
    /\ client \in [Proc -> {"up", "gone"}]
    /\ seen \in [Proc -> Seq(Message)]

Alive(p) == pc[p] \in Active

\* signal(SIGUSR1, flushPendingMessages) has been executed.
Installed(p) == pc[p] \in Active \ {"assign", "install"}

\* Nobody is at work: clients have their prompts and every signal is handled.
Quiet == \A p \in Proc :
            /\ pc[p] \in {"new", "idle", "exited", "killed", "aborted"}
            /\ Alive(p) => ~sig[p] /\ handler[p] = "none"

\* The environment (clients, accept) is free under Overlap, else polite.
EnvMayAct == Overlap \/ Quiet

Init ==
    /\ lock = 0
    /\ online = [s \in Slot |-> FALSE]
    /\ pid = [s \in Slot |-> NoProc]
    /\ name = [s \in Slot |-> DefaultName]
    /\ messages = [s \in Slot |-> <<>>]
    /\ pc = [p \in Proc |-> "new"]
    /\ inCS = [p \in Proc |-> FALSE]
    /\ handler = [p \in Proc |-> "none"]
    /\ sig = [p \in Proc |-> FALSE]
    /\ myId = [p \in Proc |-> NoSlot]
    /\ text = [p \in Proc |-> [kind |-> "none", n |-> 0]]
    /\ targets = [p \in Proc |-> {}]
    /\ killPid = [p \in Proc |-> NoProc]
    /\ lines = [p \in Proc |-> 0]
    /\ client = [p \in Proc |-> "up"]
    /\ seen = [p \in Proc |-> <<>>]

-----------------------------------------------------------------------------
(* The spin lock *)

\* The sending loop visits t next: targetIds is ascending.
IsNext(p, t) == \A u \in targets[p] : t.id =< u.id

\* The next main step is a lockShared().
LockSite(p) ==
    \/ pc[p] \in Command \union {"assign", "collect", "cleanup"}
    \/ pc[p] = "send" /\ \E t \in targets[p] : IsNext(p, t) /\ t.id # myId[p]

\* lockShared in the main context.
Acquire(p) ==
    /\ handler[p] = "none"
    /\ LockSite(p)
    /\ ~inCS[p]
    /\ lock = 0
    /\ lock' = 1
    /\ inCS' = [inCS EXCEPT ![p] = TRUE]
    /\ UNCHANGED <<registry, messages, pc, handler, sig, local, client, seen>>

\* Seeded fault: the section ends without unlockShared.
ReleaseForgotten(p) ==
    /\ handler[p] = "none"
    /\ inCS[p]
    /\ inCS' = [inCS EXCEPT ![p] = FALSE]
    /\ UNCHANGED lock

\* The end of a critical section of main; the body is the rest of the action.
Release(p) ==
    /\ handler[p] = "none"
    /\ inCS[p]
    /\ lock' = 0
    /\ inCS' = [inCS EXCEPT ![p] = FALSE]

-----------------------------------------------------------------------------
(* Login *)

\* The parent's accept and fork.
Fork(p) ==
    /\ pc[p] = "new"
    /\ EnvMayAct
    /\ \A q \in Proc : Arrival[q] < Arrival[p] => pc[q] # "new"
    /\ pc' = [pc EXCEPT ![p] = "assign"]
    /\ UNCHANGED <<shared, inCS, handler, sig, local, client, seen>>

\* Seeded fault: the search does not stop at the first free slot.
AnyFree(s) == ~online[s]

\* The search of assignUser.
SmallestFree(s) == ~online[s] /\ \A t \in 1 .. s - 1 : online[t]

\* Seeded fault: messageCount keeps its value.
NotEmptied(s) == messages

\* messageCount = 0.
Emptied(s) == [messages EXCEPT ![s] = <<>>]

\* assignUser: the process gets the smallest free slot.
AssignUser(p, s) ==
    /\ pc[p] = "assign"
    /\ Release(p)
    /\ SmallestFree(s)
    /\ online' = [online EXCEPT ![s] = TRUE]
    /\ pid' = [pid EXCEPT ![s] = p]
    /\ name' = [name EXCEPT ![s] = DefaultName]
    /\ messages' = Emptied(s)
    /\ myId' = [myId EXCEPT ![p] = s]
    /\ pc' = [pc EXCEPT ![p] = "install"]
    /\ UNCHANGED <<handler, sig, text, targets, killPid, lines, client, seen>>

\* assignUser found every slot taken: the process ends.
ServerFull(p) ==
    /\ pc[p] = "assign"
    /\ Release(p)
    /\ \A s \in Slot : online[s]
    /\ pc' = [pc EXCEPT ![p] = "exited"]
    /\ UNCHANGED <<registry, messages, handler, sig, local, client, seen>>

\* Say(p, k, n): the text p goes on to send.
Say(p, k, n) == text' = [text EXCEPT ![p] = [kind |-> k, n |-> n]]

\* signal(SIGUSR1, ...), the welcome, and the text of the login broadcast.
InstallHandler(p) ==
    /\ pc[p] = "install"
    /\ Say(p, "entered", 0)
    /\ pc' = [pc EXCEPT ![p] = "collect"]
    /\ UNCHANGED <<shared, inCS, handler, sig, myId, targets, killPid, lines, client, seen>>

-----------------------------------------------------------------------------
(* Sending: broadcastMessage and sendMessageToUser *)

\* Seeded fault: the loop over the ids stops one short.
OnlineButLast == {s \in Slot \ {MaxUsers} : online[s]}

\* The loop over the ids.
OnlineSlots == {s \in Slot : online[s]}

\* broadcastMessage collects the ids that are online.
Collect(p) ==
    /\ pc[p] = "collect"
    /\ Release(p)
    /\ targets' = [targets EXCEPT ![p] =
                     {[id |-> s, owner |-> pid[s]] : s \in OnlineSlots}]
    /\ pc' = [pc EXCEPT ![p] = "send"]
    /\ UNCHANGED <<registry, messages, handler, sig, myId, text, killPid, lines, client, seen>>

\* p's text as the message that t receives.
MessageTo(p, t) == [from |-> p, to |-> t.owner, kind |-> text[p].kind, n |-> text[p].n]

\* sendMessageToUser(currentUserId, ...) writes to the own client.
SendSelf(p) ==
    /\ pc[p] = "send"
    /\ handler[p] = "none"
    /\ \E t \in targets[p] :
         /\ IsNext(p, t) /\ t.id = myId[p]
         /\ targets' = [targets EXCEPT ![p] = @ \ {t}]
         /\ seen' = [seen EXCEPT ![p] = Append(@, MessageTo(p, t))]
    /\ UNCHANGED <<shared, pc, inCS, handler, sig, myId, text, killPid, lines, client>>

\* Seeded fault: the last text in is the first one out.
EnqueueFirst(box, m) == IF Len(box) < MaxMessages THEN <<m>> \o box ELSE box

\* Seeded fault: one text too many.
EnqueueOneMore(box, m) == IF Len(box) =< MaxMessages THEN Append(box, m) ELSE box

\* A full mailbox drops the text.
Enqueue(box, m) == IF Len(box) < MaxMessages THEN Append(box, m) ELSE box

\* sendMessageToUser to another slot: enqueue if the slot is online.
Post(p) ==
    /\ pc[p] = "send"
    /\ Release(p)
    /\ \E t \in targets[p] :
         /\ IsNext(p, t) /\ t.id # myId[p]
         /\ targets' = [targets EXCEPT ![p] = @ \ {t}]
         /\ IF online[t.id]
            THEN /\ messages' = [messages EXCEPT ![t.id] = Enqueue(@, MessageTo(p, t))]
                 /\ killPid' = [killPid EXCEPT ![p] = pid[t.id]]
                 /\ pc' = [pc EXCEPT ![p] = "kill"]
            ELSE UNCHANGED <<messages, killPid, pc>>
    /\ UNCHANGED <<registry, handler, sig, myId, text, lines, client, seen>>

\* Seeded fault: the sender signals itself.
SignalledSelf(p) == [q \in Proc |-> sig[q] \/ q = p]

\* SIGUSR1 becomes pending at targetPid; a process that ended gets nothing.
Signalled(p) == [q \in Proc |-> sig[q] \/ (q = killPid[p] /\ Alive(q))]

\* kill(targetPid, SIGUSR1), after the unlock.
Kill(p) ==
    /\ pc[p] = "kill"
    /\ handler[p] = "none"
    /\ sig' = Signalled(p)
    /\ killPid' = [killPid EXCEPT ![p] = NoProc]
    /\ pc' = [pc EXCEPT ![p] = "send"]
    /\ UNCHANGED <<shared, inCS, handler, myId, text, targets, lines, client, seen>>

\* The sending loop ends: a prompt for the client, or _exit after a logout.
EndSend(p) ==
    /\ pc[p] = "send" /\ targets[p] = {}
    /\ handler[p] = "none"
    /\ pc' = [pc EXCEPT ![p] = IF text[p].kind = "left" THEN "exited" ELSE "idle"]
    /\ UNCHANGED <<shared, inCS, handler, sig, local, client, seen>>

\* A write to a client that is gone raises SIGPIPE, which nobody catches.
BrokenPipe(p) ==
    /\ client[p] = "gone"
    /\ handler[p] = "none"
    /\ \/ pc[p] \in {"install", "idle"}
       \/ pc[p] = "send" /\ \E t \in targets[p] : IsNext(p, t) /\ t.id = myId[p]
    /\ pc' = [pc EXCEPT ![p] = "killed"]
    /\ UNCHANGED <<shared, inCS, handler, sig, local, client, seen>>

-----------------------------------------------------------------------------
(* The client's side of the session *)

\* A complete line arrives: one of the four commands of handleRwgBuiltin.
ReadCommand(p) ==
    /\ pc[p] = "idle"
    /\ handler[p] = "none"
    /\ EnvMayAct
    /\ lines[p] < MaxLines
    /\ Cardinality({q \in Proc : q = p \/ lines[q] > 0}) =< Speakers
    /\ lines' = [lines EXCEPT ![p] = @ + 1]
    /\ \E c \in Command : pc' = [pc EXCEPT ![p] = c]
    /\ UNCHANGED <<shared, inCS, handler, sig, myId, text, targets, killPid, client, seen>>

\* The line "exit", or read() reports the end of the connection.
ReadExit(p) ==
    /\ pc[p] = "idle"
    /\ handler[p] = "none"
    /\ EnvMayAct
    /\ pc' = [pc EXCEPT ![p] = "cleanup"]
    /\ UNCHANGED <<shared, inCS, handler, sig, local, client, seen>>

\* The client's end of the connection goes away.
Disconnect(p) ==
    /\ Vanish
    /\ Alive(p) /\ client[p] = "up"
    /\ EnvMayAct
    /\ client' = [client EXCEPT ![p] = "gone"]
    /\ UNCHANGED <<shared, pc, inCS, handler, sig, local, seen>>

-----------------------------------------------------------------------------
(* Commands *)

\* An answer for the own client only goes through the sending loop too.
ReplyTo(p) == targets' = [targets EXCEPT ![p] = {[id |-> myId[p], owner |-> p]}]

\* who: reads the table under the lock, writes after it.
Who(p) ==
    /\ pc[p] = "who"
    /\ Release(p)
    /\ ReplyTo(p)
    /\ Say(p, "reply", lines[p])
    /\ pc' = [pc EXCEPT ![p] = "send"]
    /\ UNCHANGED <<registry, messages, handler, sig, myId, killPid, lines, client, seen>>

\* name: the comparison uses the name as typed, the table keeps its stored form.
Duplicate(newName) == \E s \in Slot : online[s] /\ name[s] = newName

Rename(p, newName) ==
    /\ pc[p] = "name"
    /\ Release(p)
    /\ ~Duplicate(newName)
    /\ name' = [name EXCEPT ![myId[p]] = StoredName[newName]]
    /\ Say(p, "named", lines[p])
    /\ pc' = [pc EXCEPT ![p] = "collect"]
    /\ UNCHANGED <<online, pid, messages, handler, sig, myId, targets, killPid, lines, client, seen>>

RenameRefused(p, newName) ==
    /\ pc[p] = "name"
    /\ Release(p)
    /\ Duplicate(newName)
    /\ ReplyTo(p)
    /\ Say(p, "reply", lines[p])
    /\ pc' = [pc EXCEPT ![p] = "send"]
    /\ UNCHANGED <<registry, messages, handler, sig, myId, killPid, lines, client, seen>>

\* tell: exists is read in one critical section, the text is sent in another.
Tell(p, s) ==
    /\ pc[p] = "tell"
    /\ Release(p)
    /\ IF s \in Slot /\ online[s]
       THEN /\ targets' = [targets EXCEPT ![p] = {[id |-> s, owner |-> pid[s]]}]
            /\ Say(p, "told", lines[p])
       ELSE /\ ReplyTo(p)
            /\ Say(p, "reply", lines[p])
    /\ pc' = [pc EXCEPT ![p] = "send"]
    /\ UNCHANGED <<registry, messages, handler, sig, myId, killPid, lines, client, seen>>

\* tell: std::stoi throws for a first argument that is not a number, nothing catches the
\* exception, and the process ends where it is: nobody frees its slot.
NotANumber(p) ==
    /\ pc[p] = "tell"
    /\ handler[p] = "none"
    /\ ~inCS[p]
    /\ pc' = [pc EXCEPT ![p] = "aborted"]
    /\ UNCHANGED <<shared, inCS, handler, sig, local, client, seen>>

\* yell: currentName() in a critical section of its own, then a broadcast.
Yell(p) ==
    /\ pc[p] = "yell"
    /\ Release(p)
    /\ Say(p, "yelled", lines[p])
    /\ pc' = [pc EXCEPT ![p] = "collect"]
    /\ UNCHANGED <<registry, messages, handler, sig, myId, targets, killPid, lines, client, seen>>

\* Seeded fault: online keeps its value.
NotFreed(s) == online

\* online = 0.
Freed(s) == [online EXCEPT ![s] = FALSE]

\* cleanupUser: frees the slot, but keeps its pid and the own currentUserId.
Cleanup(p) ==
    /\ pc[p] = "cleanup"
    /\ Release(p)
    /\ IF online[myId[p]]
       THEN /\ online' = Freed(myId[p])
            /\ messages' = Emptied(myId[p])
            /\ Say(p, "left", MaxLines + 1)
            /\ pc' = [pc EXCEPT ![p] = "collect"]
       ELSE /\ pc' = [pc EXCEPT ![p] = "exited"]
            /\ UNCHANGED <<online, messages, text>>
    /\ UNCHANGED <<pid, name, handler, sig, myId, targets, killPid, lines, client, seen>>

-----------------------------------------------------------------------------
(* SIGUSR1 *)

\* The kernel delivers the signal: the handler starts (SIGUSR1 is blocked while
\* it runs), or, before signal() was called, the default action ends the process.
Deliver(p) ==
    /\ sig[p] /\ Alive(p) /\ handler[p] = "none"
    /\ sig' = [sig EXCEPT ![p] = FALSE]
    /\ IF Installed(p)
       THEN handler' = [handler EXCEPT ![p] = "lock"] /\ UNCHANGED pc
       ELSE pc' = [pc EXCEPT ![p] = "killed"] /\ UNCHANGED handler
    /\ UNCHANGED <<shared, inCS, local, client, seen>>

\* lockShared in the handler, also when main was interrupted holding the lock.
HandlerAcquire(p) ==
    /\ Alive(p) /\ handler[p] = "lock"
    /\ lock = 0
    /\ lock' = 1
    /\ handler' = [handler EXCEPT ![p] = "flush"]
    /\ UNCHANGED <<registry, messages, pc, inCS, sig, local, client, seen>>

\* flushPendingMessages: the mailbox of slot currentUserId goes to the client.
Flush(p) ==
    /\ Alive(p) /\ handler[p] = "flush"
    /\ seen' = [seen EXCEPT ![p] = @ \o messages[myId[p]]]
    /\ messages' = Emptied(myId[p])
    /\ lock' = 0
    /\ handler' = [handler EXCEPT ![p] = "none"]
    /\ UNCHANGED <<registry, pc, inCS, sig, local, client>>

\* SIGPIPE inside the handler: the process dies with the lock taken.
FlushBroken(p) ==
    /\ Alive(p) /\ handler[p] = "flush"
    /\ client[p] = "gone"
    /\ messages[myId[p]] # <<>>
    /\ pc' = [pc EXCEPT ![p] = "killed"]
    /\ UNCHANGED <<shared, inCS, handler, sig, local, client, seen>>

-----------------------------------------------------------------------------

\* What clients and the accept loop do.
Environment(p) == Fork(p) \/ ReadCommand(p) \/ ReadExit(p) \/ Disconnect(p)

\* tell also accepts a number that is no slot.
BuiltIn(p) ==
    \/ Who(p)
    \/ \E newName \in Name \ {DefaultName} : Rename(p, newName) \/ RenameRefused(p, newName)
    \/ \E s \in Slot \union {0} : Tell(p, s)
    \/ Yell(p)

Main(p) ==
    \/ Acquire(p)
    \/ \E s \in Slot : AssignUser(p, s)
    \/ ServerFull(p)
    \/ InstallHandler(p)
    \/ Collect(p) \/ SendSelf(p) \/ Post(p) \/ Kill(p) \/ EndSend(p)
    \/ BuiltIn(p)
    \/ Cleanup(p)

Handler(p) == Deliver(p) \/ HandlerAcquire(p) \/ Flush(p) \/ FlushBroken(p)

\* The ways in which main ends in the middle of a command.
Dies(p) == BrokenPipe(p) \/ NotANumber(p)

Next == \E p \in Proc : Environment(p) \/ Main(p) \/ Handler(p) \/ Dies(p)

Spec == Init /\ [][Next]_vars

\* The scheduler runs every process, and the kernel delivers its signals.  No
\* client has to do anything.
Fairness == \A p \in Proc : WF_vars(Main(p)) /\ WF_vars(Handler(p))

FairSpec == Spec /\ Fairness

-----------------------------------------------------------------------------
(* Safety *)

\* The contexts that are inside a critical section, the dead ones included.
Inside(p, context) == IF context = "main" THEN inCS[p] ELSE handler[p] = "flush"
Holders == {h \in Proc \X {"main", "handler"} : Inside(h[1], h[2])}

\* lockShared/unlockShared: over all processes and their signal handlers, at most
\* one is inside a critical section, and the lock word says whether one is.
MutualExclusion ==
    /\ lock = 0 <=> Holders = {}
    /\ \A h, k \in Holders : h = k

\* p was given a slot and has not passed cleanupUser yet.
LoggedIn(p) == myId[p] # NoSlot /\ text[p].kind # "left"

\* assignUser, cleanupUser and the stale pid of a freed slot: the table and the
\* processes agree on who has which slot, in both directions.
RegistryConsistent ==
    /\ \A p \in Proc : LoggedIn(p) => online[myId[p]] /\ pid[myId[p]] = p
    /\ \A s \in Slot : online[s] => pid[s] \in Proc /\ myId[pid[s]] = s /\ LoggedIn(pid[s])

NobodyGone == \A p \in Proc : client[p] = "up"

\* Whoever is between lockShared and unlockShared is alive to get there: no process
\* ends inside, by exit, _exit or a signal that arrives before signal() was called.
\* (SIGPIPE, from a client that has gone, can strike inside.)
LockIsGivenBack == NobodyGone => \A h \in Holders : Alive(h[1])

\* The slot of a process that ended without cleanupUser stays taken: SIGUSR1 came before
\* signal(), the client went away (SIGPIPE), or std::stoi threw.  There is no other way.
GhostsAreKnown ==
    \A s \in Slot : online[s] /\ ~Alive(pid[s]) =>
        \/ pc[pid[s]] = "aborted"
        \/ client[pid[s]] = "gone"
        \/ text[pid[s]].kind = "none"

\* The registry is changed by one context at a time, its rows are those of the
\* processes that have logged in, its lock does not die with a process, and what is left
\* of the processes that did not clean up is known.
RegistrySafe == MutualExclusion /\ RegistryConsistent /\ LockIsGivenBack /\ GhostsAreKnown

\* Mailboxes keep the order of one sender and a flush clears what it wrote: of
\* one sender a client never sees a text twice or two texts out of order,
\* whatever way (own write, flush by signal) each of them took.
InOrderOnce ==
    \A p \in Proc : \A i, j \in 1 .. Len(seen[p]) :
        i < j /\ seen[p][i].from = seen[p][j].from => seen[p][i].n < seen[p][j].n

\* A signal for o is pending, being handled or about to be sent.
Woken(o) ==
    \/ sig[o]
    \/ handler[o] # "none"
    \/ \E q \in Proc : pc[q] = "kill" /\ killPid[q] = o

MailboxesWoken ==
    \A s \in Slot : online[s] /\ messages[s] # <<>> /\ Alive(pid[s]) => Woken(pid[s])

\* sendMessageToUser enqueues, unlocks and only then kills; signals coalesce and
\* the handler empties the whole mailbox: while the mailbox of a live user holds
\* something, its process is woken, whoever posts, logs out or takes over a slot.  (A
\* sender whose client has gone can die of SIGPIPE before its kill.)
NoLostWakeup == NobodyGone => MailboxesWoken

\* The duplicate test and the store of name are one critical section: no two
\* users carry the same nickname, the default one apart.
UniqueNames ==
    \A s, t \in Slot :
        online[s] /\ online[t] /\ s # t /\ name[s] = name[t] => name[s] = DefaultName

\* A slot belongs to a live connection: who lists nobody that is gone, but for those
\* whom std::stoi has ended.
NoGhostUser == \A s \in Slot : online[s] => Alive(pid[s]) \/ pc[pid[s]] = "aborted"

\* A text reaches the client it was meant for when the receiver was looked up.
DeliveredToAddressee ==
    \A p \in Proc : \A i \in 1 .. Len(seen[p]) : seen[p][i].to = p

\* The same of tell alone: a private message reaches nobody else.
ToldToAddressee ==
    \A p \in Proc : \A i \in 1 .. Len(seen[p]) :
        seen[p][i].kind = "told" => seen[p][i].to = p

Broadcast(kind) == kind \notin {"reply", "told"}

\* The broadcasts among some texts, in order: who said it, and which of its texts.
Broadcasts(texts) ==
    LET said[i \in 0 .. Len(texts)] ==
            IF i = 0 THEN <<>>
            ELSE IF Broadcast(texts[i].kind)
                 THEN Append(said[i - 1], <<texts[i].from, texts[i].n>>)
                 ELSE said[i - 1]
    IN  said[Len(texts)]

\* The broadcasts that p's client saw.
History(p) == Broadcasts(seen[p])

\* broadcastMessage under clients that wait for each other's prompts: once all is
\* quiet, what a user has seen starts with its own login, and two users have seen
\* the same broadcasts in the same order from the later login on.
SameHistory ==
    Quiet => \A p, q \in Proc : pc[p] = "idle" /\ pc[q] = "idle" =>
        /\ History(p) # <<>> /\ History(p)[1] = <<p, 0>>
        /\ IsSuffix(History(p), History(q)) \/ IsSuffix(History(q), History(p))

\* flushPendingMessages takes the lock that the main context it interrupts may hold: it
\* never waits for its own process.
NeverWaitsForItself == \A p \in Proc : handler[p] # "none" => ~inCS[p]

\* Polite clients are served well: every text comes to whom it was meant for, nobody who
\* has gone is listed unless a tell without a number ended his process, and no process
\* blocks itself.
WellServed == DeliveredToAddressee /\ NoGhostUser /\ NeverWaitsForItself

-----------------------------------------------------------------------------
(* Liveness *)

\* A command line is answered: the process comes back to its prompt or ends.
EveryCommandEnds ==
    \A p \in Proc : Alive(p) /\ pc[p] # "idle" ~> pc[p] = "idle" \/ ~Alive(p)

\* Among polite clients the server comes to rest again and again, with every command
\* answered or its process aborted, every process that has left gone, and every mailbox
\* read whose process is there.
ComesToRest == []<>(Quiet /\ \A s \in Slot : online[s] /\ Alive(pid[s]) => messages[s] = <<>>)

\* SIGUSR1 triggers the delivery: a message in the mailbox of a live user does
\* not stay there.
EveryMailboxFlushed ==
    \A s \in Slot :
        online[s] /\ messages[s] # <<>> /\ Alive(pid[s])
            ~> messages[s] = <<>> \/ ~Alive(pid[s])

-----------------------------------------------------------------------------
(* The user directory that the registry implements *)

directoryUser == [s \in Slot |-> IF online[s] THEN pid[s] ELSE NoProc]
directoryNick == [s \in Slot |-> IF online[s] THEN name[s] ELSE DefaultName]

Directory == INSTANCE UserDirectory WITH
    User <- Proc, Nobody <- NoProc, user <- directoryUser, nick <- directoryNick

\* Every login, logout and rename of the processes is one of the directory.
ImplementsDirectory == Directory!Spec
=============================================================================
