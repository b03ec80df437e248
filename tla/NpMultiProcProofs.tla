------------------------- MODULE NpMultiProcProofs -------------------------
(***************************************************************************)
(* Theorems about NpMultiProc, for every number of processes, slots,       *)
(* mailbox places and command lines.                                       *)
(***************************************************************************)
EXTENDS NpMultiProc, SequenceTheorems, WellFoundedInduction, TLAPS

-----------------------------------------------------------------------------
(***************************************************************************)
(* Type correctness.  The handler and the replies index the registry with  *)
(* currentUserId and the senders copy pids out of it, so TypeOK is not      *)
(* inductive alone: Grounded says which of these values are real.          *)
(***************************************************************************)

Grounded ==
    /\ \A p \in Proc : Alive(p) /\ pc[p] # "assign" => myId[p] \in Slot
    /\ \A p \in Proc : handler[p] # "none" => Installed(p) \/ pc[p] = "killed"
    /\ \A s \in Slot : online[s] => pid[s] \in Proc

Typed == TypeOK /\ Grounded

LEMMA SayType ==
    ASSUME TypeOK, NEW p \in Proc, NEW k \in Kind, NEW n \in 0 .. MaxLines + 1, Say(p, k, n)
    PROVE  text' \in [Proc -> Text]
BY DEF TypeOK, Say, Text

LEMMA ReplyToType ==
    ASSUME TypeOK, NEW p \in Proc, myId[p] \in Slot, ReplyTo(p)
    PROVE  targets' \in [Proc -> SUBSET Target]
BY DEF TypeOK, ReplyTo, Target

LEMMA ReleaseType ==
    ASSUME TypeOK, NEW p \in Proc, Release(p)
    PROVE  lock' \in {0, 1} /\ inCS' \in [Proc -> BOOLEAN]
BY DEF TypeOK, Release

LEMMA EnqueueType ==
    ASSUME NEW box \in Seq(Message), Len(box) =< MaxMessages, NEW m \in Message
    PROVE  /\ Enqueue(box, m) \in Seq(Message)
           /\ Len(Enqueue(box, m)) =< MaxMessages
BY SizeAssumption DEF Enqueue

LEMMA EmptiedType ==
    ASSUME TypeOK, NEW s \in Slot
    PROVE  /\ Emptied(s) \in [Slot -> Seq(Message)]
           /\ \A t \in Slot : Len(Emptied(s)[t]) =< MaxMessages
BY SizeAssumption DEF TypeOK, Emptied

LEMMA MessageToType ==
    ASSUME TypeOK, NEW p \in Proc, NEW t \in Target
    PROVE  MessageTo(p, t) \in Message
BY DEF TypeOK, MessageTo, Message, Target, Text

LEMMA TypeInit == Init => Typed
BY NameAssumption, SizeAssumption DEF Init, Typed, TypeOK, Grounded, Installed, Alive, Active, Text, Kind, Slot

LEMMA TypeEnvironment ==
    ASSUME Typed, NEW p \in Proc, Environment(p)
    PROVE  Typed'
<1>1. CASE Fork(p)
  BY <1>1 DEF Fork, Typed, TypeOK, Grounded, Installed, Alive, shared, local, Active
<1>2. CASE ReadCommand(p)
  BY <1>2, SizeAssumption
  DEF ReadCommand, Typed, TypeOK, Grounded, Installed, Alive, shared, Active, Command
<1>3. CASE ReadExit(p)
  BY <1>3 DEF ReadExit, Typed, TypeOK, Grounded, Installed, Alive, shared, local, Active
<1>4. CASE Disconnect(p)
  BY <1>4 DEF Disconnect, Typed, TypeOK, Grounded, Installed, Alive, shared, local
<1> QED BY <1>1, <1>2, <1>3, <1>4 DEF Environment

LEMMA TypeHandler ==
    ASSUME Typed, NEW p \in Proc, Handler(p) \/ Dies(p)
    PROVE  Typed'
<1>1. CASE Deliver(p)
  <2>1. UNCHANGED <<shared, inCS, local, client, seen>> /\ sig' = [sig EXCEPT ![p] = FALSE]
    BY <1>1 DEF Deliver
  <2>2. CASE Installed(p)
    <3>1. handler' = [handler EXCEPT ![p] = "lock"] /\ pc' = pc BY <1>1, <2>2 DEF Deliver
    <3>2. TypeOK' BY <2>1, <3>1 DEF Typed, TypeOK, shared, local
    <3>3. Grounded' BY <2>1, <2>2, <3>1 DEF Typed, TypeOK, Grounded, Installed, Alive, shared, local
    <3> QED BY <3>2, <3>3 DEF Typed
  <2>3. CASE ~Installed(p)
    <3>1. pc' = [pc EXCEPT ![p] = "killed"] /\ handler' = handler BY <1>1, <2>3 DEF Deliver
    <3>2. TypeOK' BY <2>1, <3>1 DEF Typed, TypeOK, shared, local
    <3>3. Grounded'
      BY <2>1, <3>1 DEF Typed, TypeOK, Grounded, Installed, Alive, Active, shared, local
    <3> QED BY <3>2, <3>3 DEF Typed
  <2> QED BY <2>2, <2>3
<1>2. CASE HandlerAcquire(p)
  BY <1>2 DEF HandlerAcquire, Typed, TypeOK, Grounded, Installed, Alive, registry, local
<1>3. CASE Flush(p)
  <2>1. myId[p] \in Slot
    BY <1>3 DEF Flush, Typed, Grounded, Installed, Alive
  <2>2. Emptied(myId[p]) \in [Slot -> Seq(Message)]
        /\ \A t \in Slot : Len(Emptied(myId[p])[t]) =< MaxMessages
    BY <2>1, EmptiedType DEF Typed
  <2>3. seen' \in [Proc -> Seq(Message)]
    BY <1>3, <2>1 DEF Flush, Typed, TypeOK
  <2> QED BY <1>3, <2>2, <2>3 DEF Flush, Typed, TypeOK, Grounded, Installed, Alive, registry, local
<1>4. CASE FlushBroken(p)
  BY <1>4 DEF FlushBroken, Typed, TypeOK, Grounded, Installed, Alive, Active, shared, local
<1>5. CASE Dies(p)
  <2>1. PICK l \in {"killed", "aborted"} : pc' = [pc EXCEPT ![p] = l]
    BY <1>5 DEF Dies, BrokenPipe, NotANumber
  <2>2. handler[p] = "none" /\ UNCHANGED <<shared, inCS, handler, sig, local, client, seen>>
    BY <1>5 DEF Dies, BrokenPipe, NotANumber
  <2>3. TypeOK' BY <2>1, <2>2 DEF Typed, TypeOK, shared, local
  <2>4. Grounded'
    BY <2>1, <2>2 DEF Typed, TypeOK, Grounded, Installed, Alive, Active, shared, local
  <2> QED BY <2>3, <2>4 DEF Typed
<1> QED BY <1>1, <1>2, <1>3, <1>4, <1>5 DEF Handler

LEMMA TypeBuiltIn ==
    ASSUME Typed, NEW p \in Proc, BuiltIn(p)
    PROVE  Typed'
<1> USE DEF Typed, TypeOK
<1>0. lines[p] \in 0 .. MaxLines + 1 /\ {"reply", "named", "told", "yelled"} \subseteq Kind
  BY SizeAssumption DEF Kind
<1>1. CASE Who(p)
  <2>1. text' \in [Proc -> Text] BY <1>0, <1>1, SayType DEF Who
  <2>2. myId[p] \in Slot BY <1>1 DEF Who, Grounded, Installed, Alive, Active
  <2>3. targets' \in [Proc -> SUBSET Target] BY <1>1, <2>2, ReplyToType DEF Who
  <2>4. lock' \in {0, 1} /\ inCS' \in [Proc -> BOOLEAN] BY <1>1, ReleaseType DEF Who
  <2> QED BY <1>1, <2>1, <2>3, <2>4 DEF Who, Grounded, Installed, Alive, Active, registry
<1>2. ASSUME NEW n \in Name \ {DefaultName}, Rename(p, n) PROVE Typed'
  <2>1. text' \in [Proc -> Text] BY <1>0, <1>2, SayType DEF Rename
  <2>2. StoredName[n] \in Name BY NameAssumption
  <2>3. lock' \in {0, 1} /\ inCS' \in [Proc -> BOOLEAN] BY <1>2, ReleaseType DEF Rename
  <2> QED BY <1>2, <2>1, <2>2, <2>3 DEF Rename, Grounded, Installed, Alive, Active
<1>3. ASSUME NEW n \in Name \ {DefaultName}, RenameRefused(p, n) PROVE Typed'
  <2>1. text' \in [Proc -> Text] BY <1>0, <1>3, SayType DEF RenameRefused
  <2>2. myId[p] \in Slot BY <1>3 DEF RenameRefused, Grounded, Installed, Alive, Active
  <2>3. targets' \in [Proc -> SUBSET Target] BY <1>3, <2>2, ReplyToType DEF RenameRefused
  <2>4. lock' \in {0, 1} /\ inCS' \in [Proc -> BOOLEAN] BY <1>3, ReleaseType DEF RenameRefused
  <2> QED BY <1>3, <2>1, <2>3, <2>4 DEF RenameRefused, Grounded, Installed, Alive, Active, registry
<1>4. ASSUME NEW s \in Slot \union {0}, Tell(p, s) PROVE Typed'
  <2>1. text' \in [Proc -> Text] BY <1>0, <1>4, SayType DEF Tell
  <2>2. myId[p] \in Slot BY <1>4 DEF Tell, Grounded, Installed, Alive, Active
  <2>5. lock' \in {0, 1} /\ inCS' \in [Proc -> BOOLEAN] BY <1>4, ReleaseType DEF Tell
  <2>3. CASE s \in Slot /\ online[s]
    <3>2. [id |-> s, owner |-> pid[s]] \in Target BY <2>3 DEF Target, Grounded
    <3>3. targets' = [targets EXCEPT ![p] = {[id |-> s, owner |-> pid[s]]}] BY <1>4, <2>3 DEF Tell
    <3>1. targets' \in [Proc -> SUBSET Target] BY <3>2, <3>3
    <3> QED BY <1>4, <2>1, <2>3, <2>5, <3>1 DEF Tell, Grounded, Installed, Alive, Active, registry
  <2>4. CASE ~(s \in Slot /\ online[s])
    <3>1. targets' \in [Proc -> SUBSET Target] BY <1>4, <2>2, <2>4, ReplyToType DEF Tell
    <3> QED BY <1>4, <2>1, <2>4, <2>5, <3>1 DEF Tell, Grounded, Installed, Alive, Active, registry
  <2> QED BY <2>3, <2>4
<1>5. CASE Yell(p)
  <2>1. text' \in [Proc -> Text] BY <1>0, <1>5, SayType DEF Yell
  <2>2. lock' \in {0, 1} /\ inCS' \in [Proc -> BOOLEAN] BY <1>5, ReleaseType DEF Yell
  <2> QED BY <1>5, <2>1, <2>2 DEF Yell, Grounded, Installed, Alive, Active, registry
<1> QED BY <1>1, <1>2, <1>3, <1>4, <1>5 DEF BuiltIn

LEMMA TypeMain ==
    ASSUME Typed, NEW p \in Proc, Main(p)
    PROVE  Typed'
<1> USE DEF Typed, TypeOK
<1>1. CASE Acquire(p)
  BY <1>1 DEF Acquire, Grounded, Installed, Alive, registry, local
<1>2. ASSUME NEW s \in Slot, AssignUser(p, s) PROVE Typed'
  <2>1. Emptied(s) \in [Slot -> Seq(Message)] /\ \A t \in Slot : Len(Emptied(s)[t]) =< MaxMessages
    BY EmptiedType
  <2>2. lock' \in {0, 1} /\ inCS' \in [Proc -> BOOLEAN] BY <1>2, ReleaseType DEF AssignUser
  <2> QED BY <1>2, <2>1, <2>2, NameAssumption
          DEF AssignUser, Release, Grounded, Installed, Alive, Active
<1>3. CASE ServerFull(p)
  <2>1. lock' \in {0, 1} /\ inCS' \in [Proc -> BOOLEAN] BY <1>3, ReleaseType DEF ServerFull
  <2> QED BY <1>3, <2>1 DEF ServerFull, Grounded, Installed, Alive, Active, registry, local
<1>4. CASE InstallHandler(p)
  <2>1. text' \in [Proc -> Text] BY <1>4, SayType, SizeAssumption DEF InstallHandler, Kind
  <2> QED BY <1>4, <2>1 DEF InstallHandler, Grounded, Installed, Alive, Active, shared
<1>5. CASE Collect(p)
  <2>1. targets' \in [Proc -> SUBSET Target]
    BY <1>5 DEF Collect, OnlineSlots, Target, Grounded
  <2>2. lock' \in {0, 1} /\ inCS' \in [Proc -> BOOLEAN] BY <1>5, ReleaseType DEF Collect
  <2> QED BY <1>5, <2>1, <2>2 DEF Collect, Grounded, Installed, Alive, Active, registry
<1>6. CASE SendSelf(p)
  <2>1. PICK t \in targets[p] : seen' = [seen EXCEPT ![p] = Append(@, MessageTo(p, t))]
                                /\ targets' = [targets EXCEPT ![p] = @ \ {t}]
    BY <1>6 DEF SendSelf
  <2>2. MessageTo(p, t) \in Message BY <2>1, MessageToType
  <2>3. seen' \in [Proc -> Seq(Message)] BY <2>1, <2>2
  <2> QED BY <1>6, <2>1, <2>3 DEF SendSelf, Grounded, Installed, Alive, Active, shared
<1>7. CASE Post(p)
  <2>1. PICK t \in targets[p] :
          /\ targets' = [targets EXCEPT ![p] = @ \ {t}]
          /\ IF online[t.id]
             THEN /\ messages' = [messages EXCEPT ![t.id] = Enqueue(@, MessageTo(p, t))]
                  /\ killPid' = [killPid EXCEPT ![p] = pid[t.id]]
                  /\ pc' = [pc EXCEPT ![p] = "kill"]
             ELSE UNCHANGED <<messages, killPid, pc>>
    BY <1>7 DEF Post
  <2>2. t \in Target /\ t.id \in Slot BY <2>1 DEF Target
  <2>3. MessageTo(p, t) \in Message BY <2>1, <2>2, MessageToType
  <2> DEFINE box == Enqueue(messages[t.id], MessageTo(p, t))
  <2>4. box \in Seq(Message) /\ Len(box) =< MaxMessages
    BY <2>2, <2>3, EnqueueType
  <2> HIDE DEF box
  <2>5. lock' \in {0, 1} /\ inCS' \in [Proc -> BOOLEAN] BY <1>7, ReleaseType DEF Post
  <2>8. pc[p] = "send" /\ handler[p] = "none" BY <1>7 DEF Post, Release
  <2>9. UNCHANGED <<registry, handler, sig, myId, text, lines, client, seen>> BY <1>7 DEF Post
  <2>6. CASE online[t.id]
    <3>1. messages' = [messages EXCEPT ![t.id] = box] BY <2>1, <2>2, <2>6 DEF box
    <3>2. killPid' = [killPid EXCEPT ![p] = pid[t.id]] /\ pc' = [pc EXCEPT ![p] = "kill"]
      BY <2>1, <2>6
    <3>3. TypeOK' BY <2>1, <2>2, <2>4, <2>5, <2>8, <2>9, <3>1, <3>2 DEF Active, registry
    <3>4. Grounded' BY <2>8, <2>9, <3>2 DEF Grounded, Installed, Alive, Active, registry
    <3> QED BY <3>3, <3>4
  <2>7. CASE ~online[t.id]
    BY <2>1, <2>2, <2>5, <2>7, <2>8, <2>9 DEF Grounded, Installed, Alive, Active, registry
  <2> QED BY <2>6, <2>7
<1>8. CASE Kill(p)
  BY <1>8 DEF Kill, Signalled, Grounded, Installed, Alive, Active, shared
<1>9. CASE EndSend(p)
  BY <1>9 DEF EndSend, Grounded, Installed, Alive, Active, shared, local
<1>10. CASE BuiltIn(p)
  BY <1>10, TypeBuiltIn
<1>11. CASE Cleanup(p)
  <2>1. myId[p] \in Slot BY <1>11 DEF Cleanup, Grounded, Alive, Active
  <2>2. /\ Emptied(myId[p]) \in [Slot -> Seq(Message)]
        /\ \A t \in Slot : Len(Emptied(myId[p])[t]) =< MaxMessages
    BY <2>1, EmptiedType
  <2>3. lock' \in {0, 1} /\ inCS' \in [Proc -> BOOLEAN] BY <1>11, ReleaseType DEF Cleanup
  <2>6. /\ pc[p] = "cleanup" /\ handler[p] = "none"
        /\ UNCHANGED <<pid, name, handler, sig, myId, targets, killPid, lines, client, seen>>
    BY <1>11 DEF Cleanup, Release
  <2>4. CASE online[myId[p]]
    <3>1. text' \in [Proc -> Text]
      BY <1>11, <2>4, SayType, SizeAssumption DEF Cleanup, Kind
    <3>2. /\ online' = [online EXCEPT ![myId[p]] = FALSE] /\ messages' = Emptied(myId[p])
          /\ pc' = [pc EXCEPT ![p] = "collect"]
      BY <1>11, <2>4 DEF Cleanup, Freed
    <3>3. TypeOK' BY <2>2, <2>3, <2>6, <3>1, <3>2 DEF Active
    <3>4. Grounded' BY <2>1, <2>6, <3>2 DEF Grounded, Installed, Alive, Active
    <3> QED BY <3>3, <3>4
  <2>5. CASE ~online[myId[p]]
    <3>1. UNCHANGED <<online, messages, text>> /\ pc' = [pc EXCEPT ![p] = "exited"]
      BY <1>11, <2>5 DEF Cleanup
    <3>2. TypeOK' BY <2>3, <2>6, <3>1
    <3>3. Grounded' BY <2>6, <3>1 DEF Grounded, Installed, Alive, Active
    <3> QED BY <3>2, <3>3
  <2> QED BY <2>4, <2>5
<1> QED BY <1>1, <1>2, <1>3, <1>4, <1>5, <1>6, <1>7, <1>8, <1>9, <1>10, <1>11 DEF Main

LEMMA TypeStep == Typed /\ [Next]_vars => Typed'
<1> SUFFICES ASSUME Typed, [Next]_vars PROVE Typed'
  OBVIOUS
<1>1. CASE UNCHANGED vars
  BY <1>1 DEF vars, Typed, TypeOK, Grounded, Installed, Alive
<1>2. CASE Next
  BY <1>2, TypeEnvironment, TypeMain, TypeHandler DEF Next
<1> QED BY <1>1, <1>2

\* Every variable keeps its type: no slot, process or text outside the declared
\* sets is ever stored, and no mailbox outgrows its kMaxMessages places.
THEOREM TypeCorrect == Spec => []TypeOK
<1>1. Init => Typed BY TypeInit
<1>2. Typed /\ [Next]_vars => Typed' BY TypeStep
<1>3. Typed => TypeOK BY DEF Typed
<1> QED BY <1>1, <1>2, <1>3, PTL DEF Spec

LEMMA TypedAlways == Spec => []Typed
<1> QED BY TypeInit, TypeStep, PTL DEF Spec

-----------------------------------------------------------------------------
(***************************************************************************)
(* Mutual exclusion.  It is inductive with the types: whoever enters finds *)
(* lock = 0, so no holder, and whoever leaves was the only one.  A context *)
(* that dies inside, by SIGPIPE, stays a holder.                           *)
(***************************************************************************)

LEMMA HoldersAre ==
    ASSUME NEW p \in Proc
    PROVE  /\ <<p, "main">> \in Holders <=> inCS[p]
           /\ <<p, "handler">> \in Holders <=> handler[p] = "flush"
BY DEF Holders, Inside

LEMMA EnterAlone ==
    ASSUME TypeOK, MutualExclusion, NEW p \in Proc, lock = 0, lock' = 1,
           \/ inCS' = [inCS EXCEPT ![p] = TRUE] /\ UNCHANGED handler
           \/ handler' = [handler EXCEPT ![p] = "flush"] /\ UNCHANGED inCS
    PROVE  MutualExclusion'
<1>1. \A q \in Proc : ~inCS[q] /\ handler[q] # "flush"
  BY HoldersAre DEF MutualExclusion
<1>2. CASE inCS' = [inCS EXCEPT ![p] = TRUE] /\ UNCHANGED handler
  <2>1. Inside(p, "main")' BY <1>2 DEF Inside, TypeOK
  <2>2. ASSUME NEW q \in Proc, NEW c \in {"main", "handler"}, Inside(q, c)'
        PROVE  q = p /\ c = "main"
    BY <2>2, <1>1, <1>2 DEF Inside, TypeOK
  <2>3. <<p, "main">> \in Holders' BY <2>1 DEF Holders
  <2>4. \A h \in Holders' : h = <<p, "main">> BY <2>2 DEF Holders
  <2> QED BY <2>3, <2>4 DEF MutualExclusion
<1>3. CASE handler' = [handler EXCEPT ![p] = "flush"] /\ UNCHANGED inCS
  <2>1. Inside(p, "handler")' BY <1>3 DEF Inside, TypeOK
  <2>2. ASSUME NEW q \in Proc, NEW c \in {"main", "handler"}, Inside(q, c)'
        PROVE  q = p /\ c = "handler"
    BY <2>2, <1>1, <1>3 DEF Inside, TypeOK
  <2>3. <<p, "handler">> \in Holders' BY <2>1 DEF Holders
  <2>4. \A h \in Holders' : h = <<p, "handler">> BY <2>2 DEF Holders
  <2> QED BY <2>3, <2>4 DEF MutualExclusion
<1> QED BY <1>2, <1>3

LEMMA LeaveEmpty ==
    ASSUME TypeOK, MutualExclusion, NEW p \in Proc, lock' = 0,
           \/ inCS[p] /\ inCS' = [inCS EXCEPT ![p] = FALSE] /\ UNCHANGED handler
           \/ handler[p] = "flush" /\ handler' = [handler EXCEPT ![p] = "none"] /\ UNCHANGED inCS
    PROVE  MutualExclusion'
<1>1. CASE inCS[p] /\ inCS' = [inCS EXCEPT ![p] = FALSE] /\ UNCHANGED handler
  <2>1. <<p, "main">> \in Holders BY <1>1, HoldersAre
  <2>2. \A q \in Proc : <<q, "handler">> \notin Holders /\ (<<q, "main">> \in Holders => q = p)
    BY <2>1 DEF MutualExclusion
  <2>3. \A q \in Proc : handler[q] # "flush" /\ (inCS[q] => q = p) BY <2>2, HoldersAre
  <2>4. Holders' = {} BY <1>1, <2>3 DEF Holders, Inside, TypeOK
  <2> QED BY <2>4 DEF MutualExclusion
<1>2. CASE handler[p] = "flush" /\ handler' = [handler EXCEPT ![p] = "none"] /\ UNCHANGED inCS
  <2>1. <<p, "handler">> \in Holders BY <1>2, HoldersAre
  <2>2. \A q \in Proc : <<q, "main">> \notin Holders /\ (<<q, "handler">> \in Holders => q = p)
    BY <2>1 DEF MutualExclusion
  <2>3. \A q \in Proc : ~inCS[q] /\ (handler[q] = "flush" => q = p) BY <2>2, HoldersAre
  <2>4. Holders' = {} BY <1>2, <2>3 DEF Holders, Inside, TypeOK
  <2> QED BY <2>4 DEF MutualExclusion
<1> QED BY <1>1, <1>2

LEMMA SameHolders ==
    ASSUME MutualExclusion, UNCHANGED <<lock, inCS>>,
           \A q \in Proc : handler'[q] = "flush" <=> handler[q] = "flush"
    PROVE  MutualExclusion'
<1>1. Holders' = Holders BY DEF Holders, Inside
<1> QED BY <1>1 DEF MutualExclusion

LEMMA ExclusionStep == Typed /\ MutualExclusion /\ [Next]_vars => MutualExclusion'
<1> SUFFICES ASSUME Typed, MutualExclusion, [Next]_vars PROVE MutualExclusion'
  OBVIOUS
<1> USE DEF Typed
<1>1. ASSUME NEW p \in Proc, Acquire(p) \/ HandlerAcquire(p) PROVE MutualExclusion'
  BY <1>1, EnterAlone DEF Acquire, HandlerAcquire
<1>2. ASSUME NEW p \in Proc, Release(p), UNCHANGED handler PROVE MutualExclusion'
  BY <1>2, LeaveEmpty DEF Release
<1>3. ASSUME NEW p \in Proc, Flush(p) PROVE MutualExclusion'
  BY <1>3, LeaveEmpty DEF Flush
<1>4. ASSUME UNCHANGED <<lock, inCS, handler>> PROVE MutualExclusion'
  BY <1>4, SameHolders
<1>5. ASSUME NEW p \in Proc, Deliver(p) PROVE MutualExclusion'
  BY <1>5, SameHolders DEF Deliver, shared, TypeOK
<1>6. ASSUME NEW p \in Proc, BuiltIn(p) PROVE Release(p) /\ UNCHANGED handler
  BY <1>6 DEF BuiltIn, Who, Rename, RenameRefused, Tell, Yell
<1>7. ASSUME NEW p \in Proc, Main(p) PROVE MutualExclusion'
  <2>1. CASE Acquire(p) BY <2>1, <1>1
  <2>2. CASE \/ \E s \in Slot : AssignUser(p, s)
             \/ ServerFull(p) \/ Collect(p) \/ Post(p) \/ Cleanup(p)
    BY <2>2, <1>2 DEF AssignUser, ServerFull, Collect, Post, Cleanup
  <2>3. CASE BuiltIn(p) BY <2>3, <1>2, <1>6
  <2>4. CASE InstallHandler(p) \/ SendSelf(p) \/ Kill(p) \/ EndSend(p)
    BY <2>4, <1>4 DEF InstallHandler, SendSelf, Kill, EndSend, shared
  <2> QED BY <1>7, <2>1, <2>2, <2>3, <2>4 DEF Main
<1>8. ASSUME NEW p \in Proc, Environment(p) PROVE MutualExclusion'
  BY <1>8, <1>4 DEF Environment, Fork, ReadCommand, ReadExit, Disconnect, shared
<1>9. ASSUME NEW p \in Proc, Handler(p) PROVE MutualExclusion'
  BY <1>9, <1>1, <1>3, <1>4, <1>5 DEF Handler, FlushBroken, shared
<1>10. ASSUME NEW p \in Proc, Dies(p) PROVE MutualExclusion'
  BY <1>10, <1>4 DEF Dies, BrokenPipe, NotANumber, shared
<1>11. CASE UNCHANGED vars BY <1>11, <1>4 DEF vars
<1> QED BY <1>7, <1>8, <1>9, <1>10, <1>11 DEF Next

\* lockShared and unlockShared exclude each other across all processes and their
\* signal handlers, and the lock word is 1 exactly while a context is inside.
THEOREM LockExcludes == Spec => []MutualExclusion
<1>1. Init => MutualExclusion
  BY DEF Init, MutualExclusion, Holders, Inside
<1>2. Typed /\ MutualExclusion /\ [Next]_vars => MutualExclusion' BY ExclusionStep
<1> QED BY <1>1, <1>2, TypedAlways, PTL DEF Spec

-----------------------------------------------------------------------------
(***************************************************************************)
(* The registry.  pid keeps its value after cleanupUser and a process      *)
(* keeps currentUserId, so the agreement of the two is inductive only with *)
(* what the control flow says of a process that has logged out or has not  *)
(* logged in: Phases.                                                      *)
(***************************************************************************)

Phases ==
    \A p \in Proc :
        /\ pc[p] \in {"new", "assign"} => myId[p] = NoSlot
        /\ pc[p] \in Command \union {"new", "assign", "install", "idle", "cleanup"}
             => text[p].kind # "left"

RegistryInv == Typed /\ Phases /\ RegistryConsistent

LEMMA RegistryInit == Init => RegistryInv
<1> SUFFICES ASSUME Init PROVE RegistryInv
  OBVIOUS
<1>1. Typed BY TypeInit
<1>2. Phases BY DEF Init, Phases
<1>3. RegistryConsistent BY DEF Init, RegistryConsistent, LoggedIn
<1> QED BY <1>1, <1>2, <1>3 DEF RegistryInv

\* Steps that leave the registry, the slots and what the processes say alone.
LEMMA RegistryFrame ==
    ASSUME RegistryConsistent, UNCHANGED <<online, pid, myId>>,
           \A p \in Proc : text'[p].kind = "left" <=> text[p].kind = "left"
    PROVE  RegistryConsistent'
BY DEF RegistryConsistent, LoggedIn

LEMMA SayKind ==
    ASSUME TypeOK, NEW p \in Proc, NEW k \in Kind, NEW n \in 0 .. MaxLines + 1, Say(p, k, n)
    PROVE  /\ text'[p].kind = k
           /\ \A q \in Proc \ {p} : text'[q] = text[q]
BY DEF TypeOK, Say

LEMMA RegistryAssign ==
    ASSUME RegistryInv, NEW p \in Proc, NEW s \in Slot, AssignUser(p, s)
    PROVE  RegistryConsistent' /\ Phases'
<1> USE DEF RegistryInv, Typed, TypeOK
<1>1. /\ pc[p] = "assign" /\ myId[p] = NoSlot /\ text[p].kind # "left" /\ ~online[s]
      /\ online' = [online EXCEPT ![s] = TRUE]
      /\ pid' = [pid EXCEPT ![s] = p]
      /\ myId' = [myId EXCEPT ![p] = s]
      /\ pc' = [pc EXCEPT ![p] = "install"]
      /\ text' = text
  BY DEF AssignUser, SmallestFree, Phases
<1>2. s # NoSlot /\ NoSlot \notin Slot BY SizeAssumption DEF Slot, NoSlot
<1>3. \A q \in Proc \ {p} : LoggedIn(q)' <=> LoggedIn(q)
  BY <1>1 DEF LoggedIn
<1>4. \A q \in Proc \ {p} : LoggedIn(q) => myId[q] # s /\ myId[q] \in Slot
  BY <1>1 DEF RegistryConsistent, LoggedIn
<1>5. LoggedIn(p)' /\ ~LoggedIn(p) BY <1>1, <1>2 DEF LoggedIn
<1>6. \A q \in Proc : LoggedIn(q)' => online'[myId'[q]] /\ pid'[myId'[q]] = q
  BY <1>1, <1>3, <1>4 DEF RegistryConsistent
<1>7. \A t \in Slot : online'[t] => \E q \in Proc : pid'[t] = q /\ myId'[q] = t /\ LoggedIn(q)'
  <2> TAKE t \in Slot
  <2>1. CASE t = s BY <1>1, <1>5, <2>1
  <2>2. CASE t # s
    <3> SUFFICES ASSUME online[t]
                 PROVE  \E q \in Proc : pid'[t] = q /\ myId'[q] = t /\ LoggedIn(q)'
      BY <1>1, <2>2
    <3>1. PICK q \in Proc : pid[t] = q /\ myId[q] = t /\ LoggedIn(q) BY DEF RegistryConsistent
    <3>2. q # p BY <3>1, <1>5
    <3> QED BY <1>1, <1>3, <2>2, <3>1, <3>2
  <2> QED BY <2>1, <2>2
<1>8. RegistryConsistent' BY <1>6, <1>7 DEF RegistryConsistent, LoggedIn
<1>9. Phases' BY <1>1 DEF Phases, Command
<1> QED BY <1>8, <1>9

LEMMA RegistryCleanup ==
    ASSUME RegistryInv, NEW p \in Proc, Cleanup(p)
    PROVE  RegistryConsistent' /\ Phases'
<1> USE DEF RegistryInv, Typed, TypeOK
<1> DEFINE s == myId[p]
<1>1. pc[p] = "cleanup" /\ s \in Slot /\ s # NoSlot
  BY SizeAssumption DEF Cleanup, Grounded, Alive, Active, Slot, NoSlot
<1>2. LoggedIn(p) BY <1>1 DEF Phases, LoggedIn
<1>3. online[s] /\ pid[s] = p BY <1>2 DEF RegistryConsistent
<1>4. /\ online' = [online EXCEPT ![s] = FALSE]
      /\ Say(p, "left", MaxLines + 1)
      /\ pc' = [pc EXCEPT ![p] = "collect"]
      /\ UNCHANGED <<pid, myId>>
  BY <1>3 DEF Cleanup, Freed
<1>5. text'[p].kind = "left" /\ \A q \in Proc \ {p} : text'[q] = text[q]
  BY <1>4, SayKind, SizeAssumption DEF Kind
<1>6. ~LoggedIn(p)' /\ \A q \in Proc \ {p} : LoggedIn(q)' <=> LoggedIn(q)
  BY <1>4, <1>5 DEF LoggedIn
<1>7. \A q \in Proc : LoggedIn(q)' => online'[myId'[q]] /\ pid'[myId'[q]] = q
  <2> TAKE q \in Proc
  <2> SUFFICES ASSUME LoggedIn(q)' PROVE online'[myId'[q]] /\ pid'[myId'[q]] = q
    OBVIOUS
  <2>1. q # p /\ LoggedIn(q) BY <1>6
  <2>2. online[myId[q]] /\ pid[myId[q]] = q /\ myId[q] \in Slot
    BY <2>1 DEF RegistryConsistent, LoggedIn
  <2>3. myId[q] # s BY <1>3, <2>1, <2>2
  <2> QED BY <1>4, <2>2, <2>3
<1>8. \A t \in Slot : online'[t] => \E q \in Proc : pid'[t] = q /\ myId'[q] = t /\ LoggedIn(q)'
  <2> TAKE t \in Slot
  <2> SUFFICES ASSUME online'[t]
               PROVE  \E q \in Proc : pid[t] = q /\ myId[q] = t /\ LoggedIn(q)'
    BY <1>4
  <2>1. t # s /\ online[t] BY <1>1, <1>4
  <2>2. PICK q \in Proc : pid[t] = q /\ myId[q] = t /\ LoggedIn(q) BY <2>1 DEF RegistryConsistent
  <2>3. q # p BY <2>1, <2>2
  <2> QED BY <1>6, <2>2, <2>3
<1>9. RegistryConsistent' BY <1>7, <1>8 DEF RegistryConsistent, LoggedIn
<1>10. Phases'
  <2>1. myId' = myId /\ pc'[p] = "collect" /\ \A q \in Proc \ {p} : pc'[q] = pc[q]
    BY <1>4
  <2> QED BY <2>1, <1>5 DEF Phases, Command
<1> QED BY <1>9, <1>10

LEMMA RegistryBuiltIn ==
    ASSUME RegistryInv, NEW p \in Proc, BuiltIn(p)
    PROVE  RegistryConsistent' /\ Phases'
<1> USE DEF RegistryInv, Typed, TypeOK
<1>0. lines[p] \in 0 .. MaxLines + 1 BY SizeAssumption
<1>1. /\ pc[p] \in Command
      /\ UNCHANGED <<online, pid, myId>>
      /\ \E k \in {"reply", "named", "told", "yelled"} : Say(p, k, lines[p])
      /\ \E l \in {"send", "collect"} : pc' = [pc EXCEPT ![p] = l]
  BY DEF BuiltIn, Who, Rename, RenameRefused, Tell, Yell, Command, registry
<1>2. text'[p].kind # "left" /\ \A q \in Proc \ {p} : text'[q] = text[q]
  BY <1>0, <1>1, SayKind DEF Kind
<1>3. text[p].kind # "left" BY <1>1 DEF Phases
<1>4. RegistryConsistent' BY <1>1, <1>2, <1>3, RegistryFrame
<1>5. Phases' BY <1>1, <1>2 DEF Phases, Command
<1> QED BY <1>4, <1>5

LEMMA RegistryStep == RegistryInv /\ [Next]_vars => RegistryInv'
<1> SUFFICES ASSUME RegistryInv, [Next]_vars PROVE RegistryConsistent' /\ Phases'
  BY TypeStep DEF RegistryInv
<1> USE DEF RegistryInv, Typed, TypeOK
<1>1. CASE UNCHANGED vars
  BY <1>1 DEF vars, RegistryConsistent, LoggedIn, Phases
<1>2. ASSUME NEW p \in Proc, Environment(p) PROVE RegistryConsistent' /\ Phases'
  <2>1. RegistryConsistent'
    BY <1>2, RegistryFrame DEF Environment, Fork, ReadCommand, ReadExit, Disconnect, shared, local
  <2>2. Phases'
    BY <1>2 DEF Environment, Fork, ReadCommand, ReadExit, Disconnect, shared, local, Phases, Command
  <2> QED BY <2>1, <2>2
<1>3. ASSUME NEW p \in Proc, Handler(p) \/ Dies(p) PROVE RegistryConsistent' /\ Phases'
  <2>1. UNCHANGED <<online, pid, myId, text>>
    BY <1>3 DEF Handler, Deliver, HandlerAcquire, Flush, FlushBroken, Dies, BrokenPipe, NotANumber, shared, registry, local
  <2>2. pc' = pc \/ \E l \in {"killed", "aborted"} : pc' = [pc EXCEPT ![p] = l]
    BY <1>3 DEF Handler, Deliver, HandlerAcquire, Flush, FlushBroken, Dies, BrokenPipe, NotANumber
  <2>3. RegistryConsistent' BY <2>1, RegistryFrame
  <2>4. Phases' BY <2>1, <2>2 DEF Phases, Command
  <2> QED BY <2>3, <2>4
<1>4. ASSUME NEW p \in Proc, Main(p) PROVE RegistryConsistent' /\ Phases'
  <2>1. CASE Acquire(p) \/ ServerFull(p) \/ Collect(p) \/ SendSelf(p) \/ Post(p)
               \/ Kill(p) \/ EndSend(p)
    <3>1. UNCHANGED <<online, pid, myId, text>>
      BY <2>1 DEF Acquire, ServerFull, Collect, SendSelf, Post, Kill, EndSend, shared, registry, local
    <3>2. \/ pc' = pc
          \/ \E l \in {"exited", "send", "kill"} : pc' = [pc EXCEPT ![p] = l]
          \/ text[p].kind # "left" /\ pc' = [pc EXCEPT ![p] = "idle"]
      BY <2>1 DEF Acquire, ServerFull, Collect, SendSelf, Post, Kill, EndSend
    <3>3. RegistryConsistent' BY <3>1, RegistryFrame
    <3>4. Phases' BY <3>1, <3>2 DEF Phases, Command
    <3> QED BY <3>3, <3>4
  <2>2. CASE InstallHandler(p)
    <3>1. text[p].kind # "left" BY <2>2 DEF InstallHandler, Phases
    <3>2. text'[p].kind # "left" /\ \A q \in Proc \ {p} : text'[q] = text[q]
      <4>1. "entered" \in Kind /\ 0 \in 0 .. MaxLines + 1 BY SizeAssumption DEF Kind
      <4>2. Say(p, "entered", 0) BY <2>2 DEF InstallHandler
      <4>3. text'[p].kind = "entered" /\ \A q \in Proc \ {p} : text'[q] = text[q]
        BY <4>1, <4>2, SayKind
      <4> QED BY <4>3
    <3>3. RegistryConsistent' BY <2>2, <3>1, <3>2, RegistryFrame DEF InstallHandler, shared
    <3>4. Phases' BY <2>2, <3>2 DEF InstallHandler, Phases, Command
    <3> QED BY <3>3, <3>4
  <2> QED BY <1>4, <2>1, <2>2, RegistryAssign, RegistryCleanup, RegistryBuiltIn DEF Main
<1> QED BY <1>1, <1>2, <1>3, <1>4 DEF Next

LEMMA RegistryAlways == Spec => []RegistryInv
<1> QED BY RegistryInit, RegistryStep, PTL DEF Spec

\* assignUser and cleanupUser keep the table and the processes in agreement: a
\* logged-in process owns its slot, and an occupied slot's pid is its owner, so
\* no two processes share a slot and none holds two.
THEOREM RegistryAgrees == Spec => []RegistryConsistent
<1>1. RegistryInv => RegistryConsistent BY DEF RegistryInv
<1> QED BY <1>1, RegistryAlways, PTL

-----------------------------------------------------------------------------
(***************************************************************************)
(* Nicknames and the directory, provided that copyString keeps a nickname  *)
(* whole: the duplicate test compares what was typed with what was stored. *)
(***************************************************************************)

NamesFit == \A n \in Name : StoredName[n] = n

\* What a step can do to the registry: one of the three, or nothing.
LEMMA RegistrySteps ==
    ASSUME [Next]_vars
    PROVE  \/ \E p \in Proc, s \in Slot : AssignUser(p, s)
           \/ \E p \in Proc : Cleanup(p)
           \/ \E p \in Proc, n \in Name \ {DefaultName} : Rename(p, n)
           \/ UNCHANGED registry
<1>1. CASE UNCHANGED vars BY <1>1 DEF vars, registry
<1>2. ASSUME NEW p \in Proc, Environment(p) \/ Handler(p) \/ Dies(p)
      PROVE  UNCHANGED registry
  BY <1>2 DEF Environment, Fork, ReadCommand, ReadExit, Disconnect, Handler, Deliver,
              HandlerAcquire, Flush, FlushBroken, Dies, BrokenPipe, NotANumber, shared, registry
<1>3. ASSUME NEW p \in Proc, Main(p)
      PROVE  \/ \E s \in Slot : AssignUser(p, s)
             \/ Cleanup(p)
             \/ \E n \in Name \ {DefaultName} : Rename(p, n)
             \/ UNCHANGED registry
  BY <1>3 DEF Main, Acquire, ServerFull, InstallHandler, Collect, SendSelf, Post, Kill, EndSend,
              BuiltIn, Who, RenameRefused, Tell, Yell, shared, registry
<1> QED BY <1>1, <1>2, <1>3 DEF Next

LEMMA UniqueNamesStep ==
    ASSUME NamesFit, RegistryInv, UniqueNames, [Next]_vars
    PROVE  UniqueNames'
<1> USE DEF RegistryInv, Typed, TypeOK
<1>1. ASSUME NEW p \in Proc, NEW s \in Slot, AssignUser(p, s) PROVE UniqueNames'
  BY <1>1 DEF AssignUser, UniqueNames
<1>2. ASSUME NEW p \in Proc, Cleanup(p) PROVE UniqueNames'
  <2>1. \A t \in Slot : online'[t] => online[t]
    BY <1>2 DEF Cleanup, Freed
  <2> QED BY <1>2, <2>1 DEF Cleanup, UniqueNames
<1>3. ASSUME NEW p \in Proc, NEW n \in Name \ {DefaultName}, Rename(p, n) PROVE UniqueNames'
  <2>1. myId[p] \in Slot BY <1>3 DEF Rename, Grounded, Alive, Active
  <2>2. name' = [name EXCEPT ![myId[p]] = n] /\ online' = online
    BY <1>3 DEF Rename, NamesFit
  <2>3. \A t \in Slot : online[t] => name[t] # n BY <1>3 DEF Rename, Duplicate
  <2> QED BY <2>1, <2>2, <2>3 DEF UniqueNames
<1>4. CASE UNCHANGED registry BY <1>4 DEF registry, UniqueNames
<1> QED BY <1>1, <1>2, <1>3, <1>4, RegistrySteps

\* The test of name and its store are one critical section: two users never
\* carry the same nickname, unless it is the default one.
THEOREM NamesStayUnique ==
    ASSUME NamesFit
    PROVE  Spec => []UniqueNames
<1>1. Init => UniqueNames BY DEF Init, UniqueNames
<1>2. RegistryInv /\ UniqueNames /\ [Next]_vars => UniqueNames' BY UniqueNamesStep
<1> QED BY <1>1, <1>2, RegistryAlways, PTL DEF Spec

LEMMA DirectoryInit == Init => Directory!Init
BY DEF Init, Directory!Init, directoryUser, directoryNick, Slot, Directory!Slot

LEMMA DirectoryLogin ==
    ASSUME RegistryInv, NEW p \in Proc, NEW s \in Slot, AssignUser(p, s)
    PROVE  Directory!Login(p, s)
<1> USE DEF RegistryInv, Typed, TypeOK
<1>1. /\ myId[p] = NoSlot /\ ~online[s] /\ \A t \in 1 .. s - 1 : online[t]
      /\ online' = [online EXCEPT ![s] = TRUE]
      /\ pid' = [pid EXCEPT ![s] = p]
      /\ name' = [name EXCEPT ![s] = DefaultName]
  BY DEF AssignUser, SmallestFree, Phases
<1>2. \A t \in Slot : directoryUser[t] # p
  BY <1>1, ProcAssumption, SizeAssumption DEF directoryUser, RegistryConsistent, LoggedIn
<1>3. directoryUser[s] = NoProc BY <1>1 DEF directoryUser
<1>4. \A t \in 1 .. s - 1 : directoryUser[t] # NoProc
  <2> TAKE t \in 1 .. s - 1
  <2>1. t \in Slot BY SizeAssumption DEF Slot
  <2>2. pid[t] \in Proc BY <1>1, <2>1 DEF Grounded
  <2> QED BY <1>1, <2>1, <2>2, ProcAssumption DEF directoryUser
<1>5. directoryUser' = [directoryUser EXCEPT ![s] = p] BY <1>1 DEF directoryUser
<1>6. directoryNick' = directoryNick BY <1>1 DEF directoryNick
<1> QED BY <1>2, <1>3, <1>4, <1>5, <1>6
        DEF Directory!Login, Directory!Free, Directory!Slot, Slot

LEMMA DirectoryLogout ==
    ASSUME RegistryInv, NEW p \in Proc, Cleanup(p), online[myId[p]]
    PROVE  Directory!Logout(myId[p])
<1> USE DEF RegistryInv, Typed, TypeOK
<1>1. myId[p] \in Slot BY DEF Cleanup, Grounded, Alive, Active
<1>2. online' = [online EXCEPT ![myId[p]] = FALSE] /\ UNCHANGED <<pid, name>>
  BY DEF Cleanup, Freed
<1>3. directoryUser[myId[p]] # NoProc BY <1>1, ProcAssumption DEF directoryUser, Grounded
<1>4. directoryUser' = [directoryUser EXCEPT ![myId[p]] = NoProc]
  BY <1>1, <1>2 DEF directoryUser
<1>5. directoryNick' = [directoryNick EXCEPT ![myId[p]] = DefaultName]
  BY <1>1, <1>2 DEF directoryNick
<1> QED BY <1>3, <1>4, <1>5 DEF Directory!Logout, Directory!Free

LEMMA DirectoryRename ==
    ASSUME NamesFit, RegistryInv, NEW p \in Proc, NEW n \in Name \ {DefaultName}, Rename(p, n)
    PROVE  Directory!Rename(myId[p], n) /\ myId[p] \in Slot
<1> USE DEF RegistryInv, Typed, TypeOK
<1>1. myId[p] \in Slot /\ myId[p] # NoSlot
  BY SizeAssumption DEF Rename, Grounded, Alive, Active, Slot, NoSlot
<1>2. text[p].kind # "left" BY DEF Rename, Phases, Command
<1>3. online[myId[p]] BY <1>1, <1>2 DEF RegistryConsistent, LoggedIn
<1>4. directoryUser[myId[p]] # NoProc BY <1>1, <1>3, ProcAssumption DEF directoryUser, Grounded
<1>5. /\ name' = [name EXCEPT ![myId[p]] = n]
      /\ UNCHANGED <<online, pid>>
      /\ \A t \in Slot : online[t] => name[t] # n
  BY DEF Rename, NamesFit, Duplicate
<1>6. \A t \in Slot : directoryUser[t] # NoProc => directoryNick[t] # n
  BY <1>5 DEF directoryUser, directoryNick
<1>7. directoryUser' = directoryUser BY <1>5 DEF directoryUser
<1>8. directoryNick' = [directoryNick EXCEPT ![myId[p]] = n]
  BY <1>1, <1>3, <1>5 DEF directoryNick
<1> QED BY <1>1, <1>4, <1>6, <1>7, <1>8 DEF Directory!Rename, Directory!Free, Directory!Slot, Slot

LEMMA DirectoryStep ==
    ASSUME NamesFit, RegistryInv, [Next]_vars
    PROVE  [Directory!Next]_<<directoryUser, directoryNick>>
<1>0. Directory!Slot = Slot BY DEF Directory!Slot, Slot
<1>1. ASSUME NEW p \in Proc, NEW s \in Slot, AssignUser(p, s) PROVE Directory!Next
  BY <1>0, <1>1, DirectoryLogin DEF Directory!Next
<1>2. ASSUME NEW p \in Proc, Cleanup(p)
      PROVE  [Directory!Next]_<<directoryUser, directoryNick>>
  <2>1. myId[p] \in Slot BY <1>2 DEF RegistryInv, Typed, Cleanup, Grounded, Alive, Active
  <2>2. CASE online[myId[p]] BY <1>0, <1>2, <2>1, <2>2, DirectoryLogout DEF Directory!Next
  <2>3. CASE ~online[myId[p]]
    BY <1>2, <2>3 DEF Cleanup, directoryUser, directoryNick
  <2> QED BY <2>2, <2>3
<1>3. ASSUME NEW p \in Proc, NEW n \in Name \ {DefaultName}, Rename(p, n) PROVE Directory!Next
  BY <1>0, <1>3, DirectoryRename DEF Directory!Next
<1>4. CASE UNCHANGED registry BY <1>4 DEF registry, directoryUser, directoryNick
<1> QED BY <1>1, <1>2, <1>3, <1>4, RegistrySteps

\* The registry behind the lock implements the user directory: every step of
\* every process is a login with the smallest free number, a logout, a rename
\* to an unused nickname, or nothing to the directory.
THEOREM RegistryImplementsDirectory ==
    ASSUME NamesFit
    PROVE  Spec => ImplementsDirectory
<1>1. Init => Directory!Init BY DirectoryInit
<1>2. RegistryInv /\ [Next]_vars => [Directory!Next]_<<directoryUser, directoryNick>>
  BY DirectoryStep
<1> QED BY <1>1, <1>2, RegistryAlways, PTL DEF Spec, ImplementsDirectory, Directory!Spec

-----------------------------------------------------------------------------
(***************************************************************************)
(* Wake-ups, as long as no client vanishes: a sender that dies of SIGPIPE  *)
(* between its unlock and its kill takes the signal with it.               *)
(***************************************************************************)

WakeupInv == RegistryInv /\ NobodyGone /\ MailboxesWoken

\* A step keeps MailboxesWoken when it fills no mailbox, brings no owner to life and
\* leaves woken everybody whose mailbox it does not empty.
LEMMA WakeupFrame ==
    ASSUME MailboxesWoken,
           \A s \in Slot : online'[s] /\ messages'[s] # <<>> =>
               /\ online[s] /\ messages[s] # <<>> /\ pid'[s] = pid[s]
               /\ pc'[pid[s]] \in Active => pc[pid[s]] \in Active
               /\ Woken(pid[s]) => \E o \in Proc : o = pid[s] /\ Woken(o)'
    PROVE  MailboxesWoken'
<1> SUFFICES ASSUME NEW s \in Slot, online'[s], messages'[s] # <<>>, pc'[pid'[s]] \in Active
             PROVE  Woken(pid[s])'
  BY DEF MailboxesWoken, Alive
<1>1. Woken(pid[s]) BY DEF MailboxesWoken, Alive
<1>2. PICK o \in Proc : o = pid[s] /\ Woken(o)' BY <1>1
<1> QED BY <1>2 DEF Woken

\* Steps that leave signals, handlers and senders as they are.
LEMMA WakeupSame ==
    ASSUME WakeupInv, UNCHANGED <<online, pid, sig>>,
           \A s \in Slot : messages'[s] # <<>> => messages[s] # <<>>,
           \A q \in Proc : handler[q] # "none" => handler'[q] # "none",
           \A q \in Proc : pc[q] = "kill" => pc'[q] = "kill" /\ killPid'[q] = killPid[q],
           \A q \in Proc : pc'[q] \in Active /\ pc[q] \notin Active => pc[q] = "new"
    PROVE  MailboxesWoken'
<1> USE DEF WakeupInv, RegistryInv
<1>1. \A o \in Proc : Woken(o) => Woken(o)' BY DEF Woken
<1>2. ASSUME NEW s \in Slot, online[s]
      PROVE  pid[s] \in Proc /\ pc[pid[s]] # "new"
  BY <1>2, SizeAssumption DEF RegistryConsistent, LoggedIn, Phases
<1>3. ASSUME NEW s \in Slot, online'[s], messages'[s] # <<>>
      PROVE  /\ online[s] /\ messages[s] # <<>> /\ pid'[s] = pid[s]
             /\ pc'[pid[s]] \in Active => pc[pid[s]] \in Active
             /\ Woken(pid[s]) => \E o \in Proc : o = pid[s] /\ Woken(o)'
  <2>1. online[s] /\ messages[s] # <<>> /\ pid'[s] = pid[s] BY <1>3
  <2>2. pid[s] \in Proc /\ pc[pid[s]] # "new" BY <1>2, <2>1
  <2> QED BY <1>1, <2>1, <2>2
<1> QED BY <1>3, WakeupFrame

LEMMA WakeupHandler ==
    ASSUME WakeupInv, NEW p \in Proc, Handler(p) \/ Dies(p)
    PROVE  MailboxesWoken'
<1> USE DEF WakeupInv, RegistryInv, Typed, TypeOK
<1>0. ~FlushBroken(p) /\ ~BrokenPipe(p) BY DEF FlushBroken, BrokenPipe, NobodyGone
<1>1. CASE Deliver(p)
  <2>1. UNCHANGED <<online, pid, messages, killPid>> /\ sig' = [sig EXCEPT ![p] = FALSE]
    BY <1>1 DEF Deliver, shared, local
  <2>2. CASE Installed(p)
    <3>1. handler' = [handler EXCEPT ![p] = "lock"] /\ pc' = pc BY <1>1, <2>2 DEF Deliver
    <3>2. \A o \in Proc : Woken(o) => Woken(o)' BY <2>1, <3>1 DEF Woken
    <3> QED BY <2>1, <3>1, <3>2, WakeupFrame DEF Grounded
  <2>3. CASE ~Installed(p)
    <3>1. handler' = handler /\ pc' = [pc EXCEPT ![p] = "killed"] BY <1>1, <2>3 DEF Deliver
    <3>2. pc[p] # "kill" BY <2>3 DEF Installed, Active
    <3>3. \A o \in Proc \ {p} : Woken(o) => Woken(o)' BY <2>1, <3>1, <3>2 DEF Woken
    <3> SUFFICES ASSUME NEW s \in Slot, online'[s], messages'[s] # <<>>, pc'[pid'[s]] \in Active
                 PROVE  Woken(pid[s])'
      BY DEF MailboxesWoken, Alive
    <3>4. pid'[s] = pid[s] /\ pid[s] \in Proc /\ online[s] /\ messages[s] # <<>>
      BY <2>1 DEF Grounded
    <3>5. pid[s] # p /\ pc[pid[s]] \in Active BY <3>1, <3>4 DEF Active
    <3>6. Woken(pid[s]) BY <3>4, <3>5 DEF MailboxesWoken, Alive
    <3>7. PICK o \in Proc \ {p} : o = pid[s] /\ Woken(o)' BY <3>3, <3>4, <3>5, <3>6
    <3> QED BY <3>4, <3>7 DEF Woken
  <2> QED BY <2>2, <2>3
<1>2. CASE HandlerAcquire(p)
  BY <1>2, WakeupSame DEF HandlerAcquire, registry, local
<1>3. CASE Flush(p)
  <2>1. myId[p] \in Slot BY <1>3 DEF Flush, Grounded, Installed, Alive
  <2>2. /\ messages' = [messages EXCEPT ![myId[p]] = <<>>]
        /\ handler' = [handler EXCEPT ![p] = "none"]
        /\ UNCHANGED <<online, pid, pc, sig, killPid>>
    BY <1>3 DEF Flush, Emptied, registry, local
  <2>3. \A o \in Proc \ {p} : Woken(o) => Woken(o)' BY <2>2 DEF Woken
  <2>4. ASSUME NEW s \in Slot, online'[s], messages'[s] # <<>>
        PROVE  /\ online[s] /\ messages[s] # <<>> /\ pid'[s] = pid[s]
               /\ pc'[pid[s]] \in Active => pc[pid[s]] \in Active
               /\ Woken(pid[s]) => \E o \in Proc : o = pid[s] /\ Woken(o)'
    <3>1. s # myId[p] /\ online[s] /\ messages[s] # <<>> BY <2>1, <2>2, <2>4
    <3>2. pid[s] \in Proc /\ pid[s] # p BY <3>1 DEF RegistryConsistent
    <3> QED BY <2>2, <2>3, <3>1, <3>2
  <2> QED BY <2>4, WakeupFrame
<1>4. CASE NotANumber(p)
  <2>1. /\ UNCHANGED <<online, pid, messages, sig, handler, killPid>>
        /\ pc[p] = "tell" /\ pc' = [pc EXCEPT ![p] = "aborted"]
    BY <1>4 DEF NotANumber, shared, local
  <2>2. /\ \A q \in Proc : pc[q] = "kill" => pc'[q] = "kill"
        /\ \A q \in Proc : pc'[q] \in Active => pc[q] \in Active
    BY <2>1 DEF Active
  <2> QED BY <2>1, <2>2, WakeupSame
<1> QED BY <1>0, <1>1, <1>2, <1>3, <1>4 DEF Handler, Dies

LEMMA WakeupAssign ==
    ASSUME WakeupInv, NEW p \in Proc, NEW s \in Slot, AssignUser(p, s)
    PROVE  MailboxesWoken'
<1> USE DEF WakeupInv, RegistryInv, Typed, TypeOK
<1>1. /\ online' = [online EXCEPT ![s] = TRUE]
      /\ pid' = [pid EXCEPT ![s] = p]
      /\ messages' = [messages EXCEPT ![s] = <<>>]
      /\ pc[p] = "assign" /\ pc' = [pc EXCEPT ![p] = "install"]
      /\ UNCHANGED <<handler, sig, killPid>>
  BY DEF AssignUser, Emptied
<1>2. \A o \in Proc : Woken(o) => Woken(o)' BY <1>1 DEF Woken
<1>3. ASSUME NEW t \in Slot, online'[t], messages'[t] # <<>>
      PROVE  /\ online[t] /\ messages[t] # <<>> /\ pid'[t] = pid[t]
             /\ pc'[pid[t]] \in Active => pc[pid[t]] \in Active
             /\ Woken(pid[t]) => \E o \in Proc : o = pid[t] /\ Woken(o)'
  <2>1. t # s /\ online[t] /\ messages[t] # <<>> BY <1>1, <1>3
  <2>2. pid[t] \in Proc BY <2>1 DEF Grounded
  <2> QED BY <1>1, <1>2, <2>1, <2>2 DEF Active
<1> QED BY <1>3, WakeupFrame

LEMMA WakeupPost ==
    ASSUME WakeupInv, NEW p \in Proc, Post(p)
    PROVE  MailboxesWoken'
<1> USE DEF WakeupInv, RegistryInv, Typed, TypeOK
<1>1. PICK t \in targets[p] :
        IF online[t.id]
        THEN /\ messages' = [messages EXCEPT ![t.id] = Enqueue(@, MessageTo(p, t))]
             /\ killPid' = [killPid EXCEPT ![p] = pid[t.id]]
             /\ pc' = [pc EXCEPT ![p] = "kill"]
        ELSE UNCHANGED <<messages, killPid, pc>>
  BY DEF Post
<1>2. /\ t.id \in Slot /\ pc[p] = "send"
      /\ UNCHANGED <<online, pid, handler, sig>>
  BY DEF Post, registry, Target
<1>3. CASE ~online[t.id]
  BY <1>1, <1>2, <1>3, WakeupSame
<1>4. CASE online[t.id]
  <2>0. /\ messages' = [messages EXCEPT ![t.id] = Enqueue(@, MessageTo(p, t))]
        /\ killPid' = [killPid EXCEPT ![p] = pid[t.id]] /\ pc' = [pc EXCEPT ![p] = "kill"]
    BY <1>1, <1>4
  <2>1. pc'[p] = "kill" /\ killPid'[p] = pid[t.id] BY <2>0
  <2>2. \A o \in Proc : Woken(o) => Woken(o)' BY <1>2, <2>0 DEF Woken
  <2> SUFFICES ASSUME NEW s \in Slot, online[s], messages'[s] # <<>>, pc'[pid[s]] \in Active
               PROVE  \E o \in Proc : o = pid[s] /\ Woken(o)'
    BY <1>2 DEF MailboxesWoken, Alive, Woken
  <2>3. pid[s] \in Proc BY DEF Grounded
  <2>4. CASE s = t.id BY <1>2, <2>1, <2>3, <2>4 DEF Woken
  <2>5. CASE s # t.id
    <3>1. messages[s] # <<>> /\ pc[pid[s]] \in Active
      BY <1>2, <2>0, <2>3, <2>5 DEF Active
    <3>2. Woken(pid[s]) BY <3>1 DEF MailboxesWoken, Alive
    <3> QED BY <2>2, <2>3, <3>2
  <2> QED BY <2>4, <2>5
<1> QED BY <1>3, <1>4

LEMMA WakeupKill ==
    ASSUME WakeupInv, NEW p \in Proc, Kill(p)
    PROVE  MailboxesWoken'
<1> USE DEF WakeupInv, RegistryInv, Typed, TypeOK
<1>1. /\ pc[p] = "kill" /\ pc' = [pc EXCEPT ![p] = "send"]
      /\ killPid' = [killPid EXCEPT ![p] = NoProc]
      /\ sig' = [q \in Proc |-> sig[q] \/ (q = killPid[p] /\ Alive(q))]
      /\ UNCHANGED <<online, pid, messages, handler>>
  BY DEF Kill, Signalled, shared
<1>2. \A o \in Proc : Woken(o) /\ Alive(o) => Woken(o)'
  <2> SUFFICES ASSUME NEW o \in Proc, Woken(o), Alive(o) PROVE Woken(o)'
    OBVIOUS
  <2>1. CASE sig[o] \/ handler[o] # "none" BY <1>1, <2>1 DEF Woken
  <2>2. CASE pc[p] = "kill" /\ killPid[p] = o BY <1>1, <2>2 DEF Woken
  <2>3. CASE \E q \in Proc \ {p} : pc[q] = "kill" /\ killPid[q] = o BY <1>1, <2>3 DEF Woken
  <2> QED BY <2>1, <2>2, <2>3 DEF Woken
<1> SUFFICES ASSUME NEW s \in Slot, online'[s], messages'[s] # <<>>, pc'[pid'[s]] \in Active
             PROVE  Woken(pid[s])'
  BY DEF MailboxesWoken, Alive
<1>3. pid'[s] = pid[s] /\ online[s] /\ messages[s] # <<>> /\ pid[s] \in Proc
  BY <1>1 DEF Grounded
<1>4. pc[pid[s]] \in Active BY <1>1, <1>3 DEF Active
<1>5. Woken(pid[s]) BY <1>3, <1>4 DEF MailboxesWoken, Alive
<1>6. PICK o \in Proc : o = pid[s] /\ Woken(o)' BY <1>2, <1>3, <1>4, <1>5 DEF Alive
<1> QED BY <1>3, <1>6 DEF Woken

LEMMA WakeupCleanup ==
    ASSUME WakeupInv, NEW p \in Proc, Cleanup(p)
    PROVE  MailboxesWoken'
<1> USE DEF WakeupInv, RegistryInv, Typed, TypeOK
<1>1. /\ \A s \in Slot : online'[s] => online[s]
      /\ \A s \in Slot : messages'[s] # <<>> => messages[s] # <<>>
      /\ UNCHANGED <<pid, handler, sig, killPid>>
      /\ \E l \in {"collect", "exited"} : pc' = [pc EXCEPT ![p] = l]
      /\ pc[p] = "cleanup"
  BY DEF Cleanup, Freed, Emptied
<1>2. \A o \in Proc : Woken(o) => Woken(o)' BY <1>1 DEF Woken
<1>3. ASSUME NEW s \in Slot, online'[s], messages'[s] # <<>>
      PROVE  /\ online[s] /\ messages[s] # <<>> /\ pid'[s] = pid[s]
             /\ pc'[pid[s]] \in Active => pc[pid[s]] \in Active
             /\ Woken(pid[s]) => \E o \in Proc : o = pid[s] /\ Woken(o)'
  <2>1. online[s] /\ messages[s] # <<>> BY <1>1, <1>3
  <2>2. pid[s] \in Proc BY <2>1 DEF Grounded
  <2> QED BY <1>1, <1>2, <2>1, <2>2 DEF Active
<1> QED BY <1>3, WakeupFrame

LEMMA NobodyReturns ==
    ASSUME Typed, NobodyGone', [Next]_vars
    PROVE  NobodyGone
<1>1. ASSUME NEW p \in Proc, Disconnect(p) PROVE FALSE
  BY <1>1 DEF Disconnect, NobodyGone, Typed, TypeOK
<1>2. ASSUME NEW p \in Proc, Environment(p) PROVE client' = client
  BY <1>1, <1>2 DEF Environment, Fork, ReadCommand, ReadExit
<1>3. ASSUME NEW p \in Proc, Main(p) PROVE client' = client
  BY <1>3 DEF Main, Acquire, AssignUser, ServerFull, InstallHandler, Collect, SendSelf, Post, Kill,
              EndSend, BuiltIn, Who, Rename, RenameRefused, Tell, Yell, Cleanup
<1>4. ASSUME NEW p \in Proc, Handler(p) \/ Dies(p) PROVE client' = client
  BY <1>4 DEF Handler, Deliver, HandlerAcquire, Flush, FlushBroken, Dies, BrokenPipe, NotANumber
<1>5. client' = client
  BY <1>2, <1>3, <1>4 DEF Next, vars
<1> QED BY <1>5 DEF NobodyGone

LEMMA WakeupStep ==
    ASSUME WakeupInv, [Next]_vars
    PROVE  MailboxesWoken'
<1>2. CASE UNCHANGED vars
  <2>1. UNCHANGED <<online, pid, sig, messages, handler, killPid, pc>> BY <1>2 DEF vars
  <2> QED BY <2>1, WakeupSame
<1>3. ASSUME NEW p \in Proc, Environment(p) PROVE MailboxesWoken'
  <2> USE DEF WakeupInv, RegistryInv, Typed, TypeOK
  <2>1. UNCHANGED <<online, pid, sig, messages, handler, killPid>>
    BY <1>3 DEF Environment, Fork, ReadCommand, ReadExit, Disconnect, shared, local
  <2>2. \A q \in Proc : pc[q] = "kill" => pc'[q] = "kill"
    BY <1>3 DEF Environment, Fork, ReadCommand, ReadExit, Disconnect, Command
  <2>3. \A q \in Proc : pc'[q] \in Active /\ pc[q] \notin Active => pc[q] = "new"
    BY <1>3 DEF Environment, Fork, ReadCommand, ReadExit, Disconnect, Command, Active
  <2> QED BY <2>1, <2>2, <2>3, WakeupSame
<1>4. ASSUME NEW p \in Proc, Main(p) PROVE MailboxesWoken'
  <2> USE DEF WakeupInv, RegistryInv, Typed, TypeOK
  <2>1. CASE Acquire(p) \/ ServerFull(p) \/ InstallHandler(p) \/ Collect(p) \/ SendSelf(p)
               \/ EndSend(p) \/ BuiltIn(p)
    <3>1. UNCHANGED <<online, pid, sig, messages, handler, killPid>>
      BY <2>1 DEF Acquire, ServerFull, InstallHandler, Collect, SendSelf, EndSend, BuiltIn, Who,
                  Rename, RenameRefused, Tell, Yell, shared, registry, local
    <3>2. pc' = pc \/ (pc[p] \in Active \ {"kill"} /\ \E l : pc' = [pc EXCEPT ![p] = l])
      BY <2>1 DEF Acquire, ServerFull, InstallHandler, Collect, SendSelf, EndSend, BuiltIn, Who,
                  Rename, RenameRefused, Tell, Yell, Active
    <3>3. /\ \A q \in Proc : pc[q] = "kill" => pc'[q] = "kill"
          /\ \A q \in Proc : pc'[q] \in Active /\ pc[q] \notin Active => pc[q] = "new"
      BY <3>2
    <3> QED BY <3>1, <3>3, WakeupSame
  <2> QED BY <1>4, <2>1, WakeupAssign, WakeupPost, WakeupKill, WakeupCleanup DEF Main
<1>5. ASSUME NEW p \in Proc, Handler(p) \/ Dies(p) PROVE MailboxesWoken'
  BY <1>5, WakeupHandler
<1> QED BY <1>2, <1>3, <1>4, <1>5 DEF Next

\* Unlocking before kill, coalesced signals and slots that change hands lose no
\* wake-up: as long as no client vanishes, whenever the mailbox of a live user holds
\* something, a signal for its process is pending, in its handler, or about to be sent.
THEOREM WakeupsNotLost == Spec => []NoLostWakeup
<1>1. Init => RegistryInv /\ NoLostWakeup
  BY RegistryInit DEF Init, NoLostWakeup, MailboxesWoken
<1>2. RegistryInv /\ NoLostWakeup /\ [Next]_vars => RegistryInv' /\ NoLostWakeup'
  BY RegistryStep, NobodyReturns, WakeupStep DEF NoLostWakeup, WakeupInv, RegistryInv
<1> QED BY <1>1, <1>2, PTL DEF Spec

-----------------------------------------------------------------------------
(***************************************************************************)
(* The order of a sender's texts.  Unsent(p, s) bounds what p has put into *)
(* slot s from above: the number of the next text it can post there.  It   *)
(* never falls, so what is appended to a mailbox or written to a client    *)
(* is later than everything of the same sender that went there before.     *)
(***************************************************************************)

Numbered(p) ==
    /\ pc[p] \in {"new", "assign"} => seen[p] = <<>>
    /\ pc[p] \in {"new", "assign", "install"} => lines[p] = 0
    /\ pc[p] \in {"collect", "send", "kill"}
         => text[p].n = IF text[p].kind = "left" THEN MaxLines + 1 ELSE lines[p]
    /\ \A t, u \in targets[p] : t.id = u.id => t = u

ToVisit(p, s) == \E t \in targets[p] : t.id = s

Unsent(p, s) ==
    CASE pc[p] \in {"new", "assign", "install"} -> 0
      [] pc[p] \in Command -> lines[p]
      [] pc[p] \in {"idle", "cleanup"} -> lines[p] + 1
      [] pc[p] = "collect" -> text[p].n
      [] pc[p] \in {"send", "kill"} -> IF ToVisit(p, s) THEN text[p].n ELSE text[p].n + 1
      [] OTHER -> MaxLines + 2

\* Whatever lies in a mailbox or was written to a client was sent before what is to come.
Sent ==
    /\ \A s \in Slot : \A m \in Range(messages[s]) : m.n < Unsent(m.from, s)
    /\ \A p \in Proc : \A m \in Range(seen[p]) : m.n < Unsent(m.from, myId[p])

Ordered(box) ==
    \A i, j \in 1 .. Len(box) : i < j /\ box[i].from = box[j].from => box[i].n < box[j].n

\* One sequence after the other: of each sender, all of a comes before all of b.
Before(a, b) == \A m \in Range(a), k \in Range(b) : m.from = k.from => m.n < k.n

\* What a client saw comes before what its slot still holds, and a process posts
\* nothing to its own slot.
Queued ==
    /\ \A s \in Slot : Ordered(messages[s])
    /\ \A p \in Proc : Ordered(seen[p])
    /\ \A p \in Proc : myId[p] \in Slot => Before(seen[p], messages[myId[p]])
    /\ \A s \in Slot : \A m \in Range(messages[s]) : myId[m.from] # s

OrderInv == (\A p \in Proc : Numbered(p)) /\ Sent /\ Queued

LEMMA RangeOfEmpty == Range(<<>>) = {}
BY DEF Range

LEMMA OrderedEmpty == Ordered(<<>>)
BY DEF Ordered

LEMMA RangeOfAppend ==
    ASSUME NEW S, NEW a \in Seq(S), NEW x \in S
    PROVE  Range(Append(a, x)) = Range(a) \union {x}
<1>1. Len(Append(a, x)) = Len(a) + 1 /\ Append(a, x)[Len(a) + 1] = x
      /\ \A i \in 1 .. Len(a) : Append(a, x)[i] = a[i]
  OBVIOUS
<1>2. DOMAIN a = 1 .. Len(a) /\ DOMAIN Append(a, x) = 1 .. Len(a) + 1
  BY <1>1
<1> QED BY <1>1, <1>2 DEF Range

LEMMA RangeOfConcat ==
    ASSUME NEW S, NEW a \in Seq(S), NEW b \in Seq(S)
    PROVE  Range(a \o b) = Range(a) \union Range(b)
<1>1. /\ Len(a \o b) = Len(a) + Len(b) /\ a \o b \in Seq(S)
      /\ \A i \in 1 .. Len(a) : (a \o b)[i] = a[i]
      /\ \A i \in 1 .. Len(b) : (a \o b)[Len(a) + i] = b[i]
  OBVIOUS
<1>2. /\ DOMAIN a = 1 .. Len(a) /\ DOMAIN b = 1 .. Len(b)
      /\ DOMAIN (a \o b) = 1 .. Len(a) + Len(b) /\ Len(a) \in Nat /\ Len(b) \in Nat
  BY <1>1
<1>3. ASSUME NEW i \in 1 .. Len(a) + Len(b)
      PROVE  (a \o b)[i] \in Range(a) \union Range(b)
  <2>1. CASE i =< Len(a) BY <1>1, <1>2, <2>1 DEF Range
  <2>2. CASE i > Len(a)
    <3>1. i - Len(a) \in 1 .. Len(b) /\ i = Len(a) + (i - Len(a)) BY <1>2, <2>2
    <3>2. (a \o b)[i] = b[i - Len(a)] BY <1>1, <3>1
    <3> QED BY <1>2, <3>1, <3>2 DEF Range
  <2> QED BY <1>2, <2>1, <2>2
<1>4. ASSUME NEW i \in 1 .. Len(a) PROVE a[i] \in Range(a \o b)
  BY <1>1, <1>2 DEF Range
<1>5. ASSUME NEW i \in 1 .. Len(b) PROVE b[i] \in Range(a \o b)
  <2>1. Len(a) + i \in 1 .. Len(a) + Len(b) BY <1>2
  <2> QED BY <1>1, <1>2, <2>1 DEF Range
<1>6. Range(a \o b) \subseteq Range(a) \union Range(b) BY <1>2, <1>3 DEF Range
<1>7. Range(a) \subseteq Range(a \o b) /\ Range(b) \subseteq Range(a \o b)
  BY <1>2, <1>4, <1>5 DEF Range
<1> QED BY <1>6, <1>7

LEMMA RangeIn ==
    ASSUME NEW S, NEW a \in Seq(S)
    PROVE  Range(a) \subseteq S
BY DEF Range

LEMMA OrderedAppend ==
    ASSUME NEW a \in Seq(Message), NEW m \in Message, Ordered(a),
           \A k \in Range(a) : k.from = m.from => k.n < m.n
    PROVE  Ordered(Append(a, m))
<1>1. /\ Len(Append(a, m)) = Len(a) + 1 /\ Append(a, m)[Len(a) + 1] = m /\ Len(a) \in Nat
      /\ \A i \in 1 .. Len(a) : Append(a, m)[i] = a[i] /\ a[i] \in Range(a)
  BY DEF Range
<1> SUFFICES ASSUME NEW i \in 1 .. Len(a) + 1, NEW j \in 1 .. Len(a) + 1, i < j,
                    Append(a, m)[i].from = Append(a, m)[j].from
             PROVE  Append(a, m)[i].n < Append(a, m)[j].n
  BY <1>1 DEF Ordered
<1>2. i \in 1 .. Len(a) BY <1>1
<1>3. CASE j = Len(a) + 1 BY <1>1, <1>2, <1>3
<1>4. CASE j \in 1 .. Len(a) BY <1>1, <1>2, <1>4 DEF Ordered
<1> QED BY <1>1, <1>3, <1>4

LEMMA OrderedConcat ==
    ASSUME NEW a \in Seq(Message), NEW b \in Seq(Message), Ordered(a), Ordered(b), Before(a, b)
    PROVE  Ordered(a \o b)
<1> DEFINE c == a \o b
<1>1. /\ Len(c) = Len(a) + Len(b) /\ Len(a) \in Nat /\ Len(b) \in Nat
      /\ \A i \in 1 .. Len(a) : c[i] = a[i] /\ a[i] \in Range(a)
      /\ \A i \in 1 .. Len(b) : c[Len(a) + i] = b[i] /\ b[i] \in Range(b)
  BY DEF Range
<1> HIDE DEF c
<1>2. \A i \in 1 .. Len(c) : i > Len(a) => i - Len(a) \in 1 .. Len(b) /\ c[i] = b[i - Len(a)]
  <2> TAKE i \in 1 .. Len(c)
  <2> HAVE i > Len(a)
  <2>1. i - Len(a) \in 1 .. Len(b) BY <1>1
  <2>2. i = Len(a) + (i - Len(a)) BY <1>1
  <2> QED BY <1>1, <2>1, <2>2
<1> SUFFICES ASSUME NEW i \in 1 .. Len(c), NEW j \in 1 .. Len(c), i < j, c[i].from = c[j].from
             PROVE  c[i].n < c[j].n
  BY DEF Ordered, c
<1>3. CASE j =< Len(a)
  <2>1. i \in 1 .. Len(a) /\ j \in 1 .. Len(a) BY <1>1, <1>3
  <2> QED BY <1>1, <2>1 DEF Ordered
<1>4. CASE i =< Len(a) /\ j > Len(a)
  <2>1. c[i] \in Range(a) BY <1>1, <1>4
  <2>2. c[j] \in Range(b) BY <1>1, <1>2, <1>4
  <2> QED BY <2>1, <2>2 DEF Before
<1>5. CASE i > Len(a)
  <2>1. /\ i - Len(a) \in 1 .. Len(b) /\ j - Len(a) \in 1 .. Len(b)
        /\ c[i] = b[i - Len(a)] /\ c[j] = b[j - Len(a)] /\ i - Len(a) < j - Len(a)
    BY <1>1, <1>2, <1>5
  <2> QED BY <2>1 DEF Ordered
<1> QED BY <1>1, <1>3, <1>4, <1>5

LEMMA OrderInit == Init => OrderInv
<1> SUFFICES ASSUME Init PROVE OrderInv
  OBVIOUS
<1>1. \A p \in Proc : Numbered(p) BY DEF Init, Numbered
<1>2. Sent BY RangeOfEmpty DEF Init, Sent
<1>3. Queued BY RangeOfEmpty, SizeAssumption DEF Init, Queued, Ordered, Before, Slot, NoSlot
<1> QED BY <1>1, <1>2, <1>3 DEF OrderInv

LEMMA SayIs ==
    ASSUME TypeOK, NEW p \in Proc, NEW k \in Kind, NEW n \in 0 .. MaxLines + 1, Say(p, k, n)
    PROVE  /\ text'[p].kind = k /\ text'[p].n = n
           /\ \A q \in Proc \ {p} : text'[q] = text[q]
BY DEF TypeOK, Say

\* What a step of p leaves of the texts, targets and counts of the others.
LEMMA OthersKeep ==
    ASSUME Typed, NEW p \in Proc,
           Environment(p) \/ Main(p) \/ Handler(p) \/ Dies(p)
    PROVE  \A q \in Proc \ {p} :
              /\ pc'[q] = pc[q] /\ text'[q] = text[q] /\ targets'[q] = targets[q]
              /\ lines'[q] = lines[q] /\ myId'[q] = myId[q] /\ seen'[q] = seen[q]
<1> USE DEF Typed, TypeOK
<1>1. CASE Environment(p)
  BY <1>1 DEF Environment, Fork, ReadCommand, ReadExit, Disconnect, local
<1>2. CASE Handler(p) \/ Dies(p)
  BY <1>2 DEF Handler, Deliver, HandlerAcquire, Flush, FlushBroken, Dies, BrokenPipe, NotANumber, local
<1>3. CASE BuiltIn(p)
  BY <1>3 DEF BuiltIn, Who, Rename, RenameRefused, Tell, Yell, Say, ReplyTo
<1>4. CASE Main(p) /\ ~BuiltIn(p)
  BY <1>4 DEF Main, Acquire, AssignUser, ServerFull, InstallHandler, Collect, SendSelf, Post, Kill,
              EndSend, Cleanup, Say, local
<1> QED BY <1>1, <1>2, <1>3, <1>4

LEMMA UnsentType ==
    ASSUME Typed, NEW p \in Proc, NEW s
    PROVE  Unsent(p, s) \in 0 .. MaxLines + 2
BY SizeAssumption DEF Typed, TypeOK, Unsent, Text

LEMMA UnsentTypeNext ==
    ASSUME Typed', NEW p \in Proc, NEW s
    PROVE  Unsent(p, s)' \in 0 .. MaxLines + 2
BY SizeAssumption DEF Typed, TypeOK, Unsent, Text

\* What mailboxes and clients hold are numbered texts of processes.
LEMMA MessagesNumbered ==
    ASSUME Typed
    PROVE  /\ \A s \in Slot : \A m \in Range(messages[s]) : m.from \in Proc /\ m.n \in Int
           /\ \A p \in Proc : \A m \in Range(seen[p]) : m.from \in Proc /\ m.n \in Int
<1>1. \A m \in Message : m.from \in Proc /\ m.n \in Int
  BY SizeAssumption DEF Message
<1>2. \A s \in Slot : Range(messages[s]) \subseteq Message BY RangeIn DEF Typed, TypeOK
<1>3. \A p \in Proc : Range(seen[p]) \subseteq Message BY RangeIn DEF Typed, TypeOK
<1> QED BY <1>1, <1>2, <1>3

\* Every step of p keeps the numbering, and no number comes back.
LEMMA SenderGoesOn ==
    ASSUME Typed, Phases, NEW p \in Proc, Numbered(p),
           Environment(p) \/ Main(p) \/ Handler(p) \/ Dies(p)
    PROVE  Numbered(p)' /\ \A s \in Slot \union {NoSlot} : Unsent(p, s) =< Unsent(p, s)'
<1> USE SizeAssumption DEF Typed, TypeOK
<1>0. /\ lines[p] \in 0 .. MaxLines /\ text[p].n \in 0 .. MaxLines + 1
      /\ text[p].kind \in Kind /\ {"entered", "reply", "named", "told", "yelled", "left"} \subseteq Kind
  BY DEF Text, Kind
<1>1. CASE Environment(p)
  <2>1. UNCHANGED <<text, targets, seen>>
    BY <1>1 DEF Environment, Fork, ReadCommand, ReadExit, Disconnect, local
  <2>2. \/ lines' = lines /\ pc' = pc
        \/ pc[p] = "new" /\ pc' = [pc EXCEPT ![p] = "assign"] /\ lines' = lines
        \/ pc[p] = "idle" /\ pc' = [pc EXCEPT ![p] = "cleanup"] /\ lines' = lines
        \/ /\ pc[p] = "idle" /\ \E c \in Command : pc' = [pc EXCEPT ![p] = c]
           /\ lines'[p] = lines[p] + 1
    BY <1>1 DEF Environment, Fork, ReadCommand, ReadExit, Disconnect, local
  <2>3. Numbered(p)' BY <2>1, <2>2 DEF Numbered, Command
  <2>4. \A s \in Slot \union {NoSlot} : Unsent(p, s) =< Unsent(p, s)'
    BY <1>0, <2>1, <2>2 DEF Unsent, ToVisit, Command
  <2> QED BY <2>3, <2>4
<1>2. CASE Handler(p) \/ Dies(p)
  <2>1. UNCHANGED <<lines, text, targets>>
    BY <1>2 DEF Handler, Deliver, HandlerAcquire, Flush, FlushBroken, Dies, BrokenPipe, NotANumber, local
  <2>2. pc' = pc \/ \E l \in {"killed", "aborted"} : pc' = [pc EXCEPT ![p] = l]
    BY <1>2 DEF Handler, Deliver, HandlerAcquire, Flush, FlushBroken, Dies, BrokenPipe, NotANumber
  <2>3. pc'[p] \in {"new", "assign"} => seen' = seen
    <3>1. Flush(p) => pc'[p] \notin {"new", "assign"}
      BY DEF Flush, Grounded, Installed, Alive, Active
    <3> QED BY <1>2, <3>1 DEF Handler, Deliver, HandlerAcquire, FlushBroken, Dies, BrokenPipe, NotANumber
  <2>4. Numbered(p)' BY <2>1, <2>2, <2>3 DEF Numbered
  <2>5. \A s \in Slot \union {NoSlot} : Unsent(p, s) =< Unsent(p, s)'
    BY <1>0, <2>1, <2>2 DEF Unsent, ToVisit, Command
  <2> QED BY <2>4, <2>5
<1>3. CASE BuiltIn(p)
  <2>1. /\ pc[p] \in Command /\ UNCHANGED lines /\ UNCHANGED seen
        /\ \E k \in {"reply", "named", "told", "yelled"} : Say(p, k, lines[p])
        /\ \E l \in {"send", "collect"} : pc' = [pc EXCEPT ![p] = l]
    BY <1>3 DEF BuiltIn, Who, Rename, RenameRefused, Tell, Yell, Command
  <2>2. targets' = targets \/ \E t \in Target : targets' = [targets EXCEPT ![p] = {t}]
    <3>1. myId[p] \in Slot BY <2>1 DEF Grounded, Alive, Active, Command
    <3>2. \A s \in Slot : online[s] => pid[s] \in Proc BY DEF Grounded
    <3> QED BY <1>3, <3>1, <3>2 DEF BuiltIn, Who, Rename, RenameRefused, Tell, Yell, ReplyTo, Target
  <2>3. text'[p].n = lines[p] /\ text'[p].kind # "left" BY <1>0, <2>1, SayIs
  <2>4. Numbered(p)' BY <2>1, <2>2, <2>3 DEF Numbered, Command
  <2>5. \A s \in Slot \union {NoSlot} : Unsent(p, s) =< Unsent(p, s)'
    BY <1>0, <2>1, <2>3 DEF Unsent, Command
  <2> QED BY <2>4, <2>5
<1>4. CASE Acquire(p) \/ ServerFull(p) \/ Kill(p) \/ EndSend(p)
  <2>1. UNCHANGED <<text, targets, lines, seen>>
    BY <1>4 DEF Acquire, ServerFull, Kill, EndSend, local
  <2>2. \/ pc' = pc
        \/ pc[p] = "assign" /\ pc' = [pc EXCEPT ![p] = "exited"]
        \/ pc[p] = "kill" /\ pc' = [pc EXCEPT ![p] = "send"]
        \/ pc[p] = "send" /\ targets[p] = {} /\ text[p].kind # "left" /\ pc' = [pc EXCEPT ![p] = "idle"]
        \/ pc[p] = "send" /\ text[p].kind = "left" /\ pc' = [pc EXCEPT ![p] = "exited"]
    BY <1>4 DEF Acquire, ServerFull, Kill, EndSend
  <2>3. Numbered(p)' BY <2>1, <2>2 DEF Numbered
  <2>4. \A s \in Slot \union {NoSlot} : Unsent(p, s) =< Unsent(p, s)'
    BY <1>0, <2>1, <2>2 DEF Unsent, ToVisit, Command, Numbered
  <2> QED BY <2>3, <2>4
<1>5. ASSUME NEW s \in Slot, AssignUser(p, s)
      PROVE  Numbered(p)' /\ \A r \in Slot \union {NoSlot} : Unsent(p, r) =< Unsent(p, r)'
  BY <1>0, <1>5 DEF AssignUser, Numbered, Unsent, Command
<1>6. CASE InstallHandler(p)
  <2>1. Say(p, "entered", 0) /\ pc[p] = "install" /\ pc' = [pc EXCEPT ![p] = "collect"]
        /\ UNCHANGED <<lines, targets>>
    BY <1>6 DEF InstallHandler
  <2>2. text'[p].n = 0 /\ text'[p].kind = "entered"
    <3>1. 0 \in 0 .. MaxLines + 1 OBVIOUS
    <3> QED BY <1>0, <2>1, <3>1, SayIs
  <2> QED BY <1>0, <2>1, <2>2 DEF Numbered, Unsent, Command
<1>7. CASE Collect(p)
  <2>1. /\ pc[p] = "collect" /\ pc' = [pc EXCEPT ![p] = "send"] /\ UNCHANGED <<text, lines>>
        /\ targets' = [targets EXCEPT ![p] = {[id |-> s, owner |-> pid[s]] : s \in OnlineSlots}]
    BY <1>7 DEF Collect
  <2>2. \A t, u \in targets'[p] : t.id = u.id => t = u BY <2>1
  <2> QED BY <1>0, <2>1, <2>2 DEF Numbered, Unsent, Command
<1>8. CASE SendSelf(p) \/ Post(p)
  <2>1. /\ pc[p] = "send" /\ (pc' = pc \/ pc' = [pc EXCEPT ![p] = "kill"])
        /\ UNCHANGED <<text, lines>>
        /\ \E t \in targets[p] : targets' = [targets EXCEPT ![p] = @ \ {t}]
    BY <1>8 DEF SendSelf, Post
  <2>2. targets'[p] \subseteq targets[p] BY <2>1
  <2> QED BY <1>0, <2>1, <2>2 DEF Numbered, Unsent, ToVisit, Command
<1>9. CASE Cleanup(p)
  <2>1. pc[p] = "cleanup" /\ UNCHANGED <<lines, targets>> BY <1>9 DEF Cleanup
  <2>2. CASE online[myId[p]]
    <3>1. Say(p, "left", MaxLines + 1) /\ pc' = [pc EXCEPT ![p] = "collect"]
      BY <1>9, <2>2 DEF Cleanup
    <3>2. text'[p].n = MaxLines + 1 /\ text'[p].kind = "left" BY <1>0, <3>1, SayIs
    <3> QED BY <1>0, <2>1, <3>1, <3>2 DEF Numbered, Unsent, Command
  <2>3. CASE ~online[myId[p]]
    BY <1>0, <1>9, <2>1, <2>3 DEF Cleanup, Numbered, Unsent, Command
  <2> QED BY <2>2, <2>3
<1> QED BY <1>1, <1>2, <1>3, <1>4, <1>5, <1>6, <1>7, <1>8, <1>9 DEF Main

UnsentGrows ==
    \A p \in Proc, s \in Slot \union {NoSlot}, n \in Int : n < Unsent(p, s) => n < Unsent(p, s)'

\* The bounds only grow: what was sent before the next text stays so.
LEMMA SendersGoOn ==
    ASSUME Typed, Phases, OrderInv, [Next]_vars
    PROVE  /\ \A p \in Proc : Numbered(p)'
           /\ UnsentGrows
<1> SUFFICES \A p \in Proc : /\ Numbered(p)'
                              /\ \A s \in Slot \union {NoSlot} : Unsent(p, s) =< Unsent(p, s)'
  <2>1. \A p \in Proc : \A s : Unsent(p, s) \in Int /\ Unsent(p, s)' \in Int
    BY TypeStep, UnsentType, UnsentTypeNext, SizeAssumption
  <2> QED BY <2>1 DEF UnsentGrows
<1> USE DEF OrderInv
<1>1. CASE UNCHANGED vars
  <2>1. \A p \in Proc : Numbered(p)' BY <1>1 DEF vars, Numbered
  <2>2. \A p \in Proc, s \in Slot \union {NoSlot} : Unsent(p, s)' = Unsent(p, s)
    BY <1>1 DEF vars, Unsent, ToVisit
  <2>3. \A p \in Proc, s \in Slot \union {NoSlot} : Unsent(p, s) \in Int BY UnsentType, SizeAssumption
  <2> QED BY <2>1, <2>2, <2>3
<1>2. ASSUME NEW p \in Proc, Environment(p) \/ Main(p) \/ Handler(p) \/ Dies(p)
      PROVE  \A q \in Proc : Numbered(q)' /\ \A s \in Slot \union {NoSlot} : Unsent(q, s) =< Unsent(q, s)'
  <2> TAKE q \in Proc
  <2>1. CASE q = p BY <1>2, <2>1, SenderGoesOn
  <2>2. CASE q # p
    <3>1. /\ pc'[q] = pc[q] /\ text'[q] = text[q] /\ targets'[q] = targets[q]
          /\ lines'[q] = lines[q] /\ seen'[q] = seen[q]
      BY <1>2, <2>2, OthersKeep
    <3>2. Numbered(q)' BY <3>1 DEF Numbered
    <3>3. \A s \in Slot \union {NoSlot} : Unsent(q, s)' = Unsent(q, s) BY <3>1 DEF Unsent, ToVisit
    <3>4. \A s \in Slot \union {NoSlot} : Unsent(q, s) \in Int BY UnsentType, SizeAssumption
    <3> QED BY <3>2, <3>3, <3>4
  <2> QED BY <2>1, <2>2
<1> QED BY <1>1, <1>2 DEF Next

\* A step that puts nothing new into mailboxes or before clients keeps the order.
LEMMA OrderFrame ==
    ASSUME Typed, OrderInv, UnsentGrows, UNCHANGED <<seen, myId>>,
           \A t \in Slot : messages'[t] = messages[t] \/ messages'[t] = <<>>
    PROVE  Sent' /\ Queued'
<1> USE DEF Typed, TypeOK, OrderInv
<1>1. \A t \in Slot : Range(messages'[t]) \subseteq Range(messages[t])
  BY RangeOfEmpty
<1>2. /\ \A t \in Slot : \A m \in Range(messages[t]) : m.from \in Proc /\ m.n \in Int
      /\ \A q \in Proc : \A m \in Range(seen[q]) : m.from \in Proc /\ m.n \in Int
  BY MessagesNumbered
<1>3. Sent' BY <1>1, <1>2 DEF Sent, UnsentGrows
<1>4. \A t \in Slot : Ordered(messages'[t]) BY OrderedEmpty DEF Queued
<1>5. Queued' BY <1>1, <1>4 DEF Queued, Before, Ordered
<1> QED BY <1>3, <1>5

LEMMA OrderAssign ==
    ASSUME Typed, OrderInv, UnsentGrows, NEW p \in Proc, NEW s \in Slot, AssignUser(p, s)
    PROVE  Sent' /\ Queued'
<1> USE DEF Typed, TypeOK, OrderInv
<1>1. /\ seen' = seen /\ seen[p] = <<>>
      /\ myId' = [myId EXCEPT ![p] = s]
      /\ messages' = [messages EXCEPT ![s] = <<>>]
  BY DEF AssignUser, Numbered, Emptied
<1>2. /\ \A t \in Slot : \A m \in Range(messages[t]) : m.from \in Proc /\ m.n \in Int
      /\ \A q \in Proc : \A m \in Range(seen[q]) : m.from \in Proc /\ m.n \in Int
  BY MessagesNumbered
<1>3. Range(seen[p]) = {} /\ Range(messages'[s]) = {} BY <1>1, RangeOfEmpty
<1>4. Sent'
  <2>1. \A t \in Slot : \A m \in Range(messages'[t]) : m.n < Unsent(m.from, t)'
    BY <1>1, <1>2, <1>3 DEF Sent, UnsentGrows
  <2>2. \A q \in Proc \ {p} : \A m \in Range(seen[q]) : m.n < Unsent(m.from, myId[q])'
    BY <1>1, <1>2 DEF Sent, UnsentGrows
  <2> QED BY <1>1, <1>3, <2>1, <2>2 DEF Sent
<1>5. Queued'
  <2>1. \A t \in Slot : Ordered(messages'[t]) BY <1>1 DEF Queued, Ordered
  <2>2. \A q \in Proc : Ordered(seen[q]) BY DEF Queued
  <2>3. \A q \in Proc : myId'[q] \in Slot => Before(seen[q], messages'[myId'[q]])
    BY <1>1, <1>3 DEF Queued, Before
  <2>4. \A t \in Slot : \A m \in Range(messages'[t]) : myId'[m.from] # t
    BY <1>1, <1>2, <1>3 DEF Queued
  <2> QED BY <1>1, <2>1, <2>2, <2>3, <2>4 DEF Queued, Ordered, Before
<1> QED BY <1>4, <1>5

LEMMA OrderFlush ==
    ASSUME Typed, OrderInv, UnsentGrows, NEW p \in Proc, Flush(p)
    PROVE  Sent' /\ Queued'
<1> USE DEF Typed, TypeOK, OrderInv
<1> DEFINE s == myId[p]
<1>1. s \in Slot BY DEF Flush, Grounded, Installed, Alive
<1>2. /\ seen' = [seen EXCEPT ![p] = @ \o messages[s]]
      /\ messages' = [messages EXCEPT ![s] = <<>>]
      /\ myId' = myId
  BY DEF Flush, Emptied, local
<1>3. /\ \A t \in Slot : \A m \in Range(messages[t]) : m.from \in Proc /\ m.n \in Int
      /\ \A q \in Proc : \A m \in Range(seen[q]) : m.from \in Proc /\ m.n \in Int
  BY MessagesNumbered
<1>4. seen'[p] = seen[p] \o messages[s] /\ \A q \in Proc \ {p} : seen'[q] = seen[q]
  BY <1>2
<1>5. messages'[s] = <<>> /\ \A t \in Slot \ {s} : messages'[t] = messages[t]
  BY <1>1, <1>2
<1>6. Range(seen'[p]) = Range(seen[p]) \union Range(messages[s])
  BY <1>1, <1>4, RangeOfConcat
<1>7. Range(messages'[s]) = {} BY <1>5, RangeOfEmpty
<1>8. Ordered(seen'[p])
  <2>1. Ordered(seen[p]) /\ Ordered(messages[s]) /\ Before(seen[p], messages[s])
    BY <1>1 DEF Queued
  <2> QED BY <1>1, <1>4, <2>1, OrderedConcat
<1>9. Sent'
  <2>1. \A t \in Slot : \A m \in Range(messages'[t]) : m.n < Unsent(m.from, t)'
    BY <1>3, <1>5, <1>7 DEF Sent, UnsentGrows
  <2>2. \A q \in Proc : \A m \in Range(seen'[q]) : m.n < Unsent(m.from, myId[q])'
    BY <1>1, <1>2, <1>3, <1>4, <1>6 DEF Sent, UnsentGrows
  <2> QED BY <1>2, <2>1, <2>2 DEF Sent
<1>10. Queued'
  <2>1. \A t \in Slot : Ordered(messages'[t]) BY <1>5, OrderedEmpty DEF Queued
  <2>2. \A q \in Proc : Ordered(seen'[q]) BY <1>4, <1>8 DEF Queued
  <2>3. \A q \in Proc : myId'[q] \in Slot => Before(seen'[q], messages'[myId'[q]])
    BY <1>2, <1>4, <1>5, <1>7 DEF Queued, Before
  <2>4. \A t \in Slot : \A m \in Range(messages'[t]) : myId'[m.from] # t
    BY <1>2, <1>5, <1>7 DEF Queued
  <2> QED BY <2>1, <2>2, <2>3, <2>4 DEF Queued, Ordered, Before
<1> QED BY <1>9, <1>10

LEMMA OrderSendSelf ==
    ASSUME Typed, OrderInv, UnsentGrows, NEW p \in Proc, SendSelf(p)
    PROVE  Sent' /\ Queued'
<1> USE DEF Typed, TypeOK, OrderInv
<1>1. PICK t \in targets[p] :
        /\ t.id = myId[p]
        /\ targets' = [targets EXCEPT ![p] = @ \ {t}]
        /\ seen' = [seen EXCEPT ![p] = Append(@, MessageTo(p, t))]
  BY DEF SendSelf
<1>2. pc[p] = "send" /\ UNCHANGED <<messages, myId, pc, text>> BY DEF SendSelf, shared
<1>3. t \in Target /\ myId[p] \in Slot BY <1>1 DEF Target
<1>4. PICK m \in Message :
        m = MessageTo(p, t) /\ m.from = p /\ m.n = text[p].n /\ text[p].n \in Int
  <2>1. MessageTo(p, t) \in Message BY <1>3, MessageToType
  <2>2. MessageTo(p, t).from = p /\ MessageTo(p, t).n = text[p].n BY DEF MessageTo
  <2>3. text[p].n \in Int BY SizeAssumption DEF Text
  <2> QED BY <2>1, <2>2, <2>3
<1>5. Unsent(p, myId[p]) = text[p].n BY <1>1, <1>2 DEF Unsent, ToVisit, Command
<1>6. Unsent(p, myId[p])' = text[p].n + 1
  BY <1>1, <1>2 DEF Unsent, ToVisit, Command, Numbered
<1>7. seen'[p] = Append(seen[p], m) /\ \A q \in Proc \ {p} : seen'[q] = seen[q]
  BY <1>1, <1>4
<1>8. Range(seen'[p]) = Range(seen[p]) \union {m} BY <1>4, <1>7, RangeOfAppend
<1>9. /\ \A s \in Slot : \A k \in Range(messages[s]) : k.from \in Proc /\ k.n \in Int
      /\ \A q \in Proc : \A k \in Range(seen[q]) : k.from \in Proc /\ k.n \in Int
  BY MessagesNumbered
<1>10. Sent'
  <2>1. \A s \in Slot : \A k \in Range(messages[s]) : k.n < Unsent(k.from, s)'
    BY <1>9 DEF Sent, UnsentGrows
  <2>2. \A q \in Proc : \A k \in Range(seen[q]) : k.n < Unsent(k.from, myId[q])'
    <3> TAKE q \in Proc
    <3> TAKE k \in Range(seen[q])
    <3>1. k.from \in Proc /\ k.n \in Int /\ myId[q] \in Slot \union {NoSlot} BY <1>9
    <3>2. k.n < Unsent(k.from, myId[q]) BY DEF Sent
    <3> QED BY <1>2, <3>1, <3>2 DEF UnsentGrows
  <2>3. m.n < Unsent(m.from, myId[p])' BY <1>2, <1>4, <1>6
  <2> QED BY <1>2, <1>7, <1>8, <2>1, <2>2, <2>3 DEF Sent
<1>11. Queued'
  <2>1. \A k \in Range(seen[p]) : k.from = m.from => k.n < m.n
    BY <1>4, <1>5 DEF Sent
  <2>2. Ordered(seen'[p])
    <3>1. Ordered(seen[p]) /\ seen[p] \in Seq(Message) BY DEF Queued
    <3> QED BY <1>7, <2>1, <3>1, OrderedAppend
  <2>3. Before(seen'[p], messages[myId[p]]) BY <1>3, <1>4, <1>8 DEF Queued, Before
  <2> QED BY <1>2, <1>7, <2>2, <2>3 DEF Queued
<1> QED BY <1>10, <1>11

LEMMA OrderPost ==
    ASSUME Typed, OrderInv, UnsentGrows, NEW p \in Proc, Post(p)
    PROVE  Sent' /\ Queued'
<1> USE DEF Typed, TypeOK, OrderInv
<1>1. PICK t \in targets[p] :
        /\ t.id # myId[p]
        /\ targets' = [targets EXCEPT ![p] = @ \ {t}]
        /\ IF online[t.id]
           THEN /\ messages' = [messages EXCEPT ![t.id] = Enqueue(@, MessageTo(p, t))]
                /\ pc' = [pc EXCEPT ![p] = "kill"]
           ELSE UNCHANGED <<messages, pc>>
  BY DEF Post
<1>2. pc[p] = "send" /\ pc'[p] \in {"send", "kill"} /\ UNCHANGED <<seen, myId, text>>
  BY <1>1 DEF Post
<1>3. t \in Target /\ t.id \in Slot BY <1>1 DEF Target
<1>4. PICK m \in Message :
        m = MessageTo(p, t) /\ m.from = p /\ m.n = text[p].n /\ text[p].n \in Int
  <2>1. MessageTo(p, t) \in Message BY <1>3, MessageToType
  <2>2. MessageTo(p, t).from = p /\ MessageTo(p, t).n = text[p].n BY DEF MessageTo
  <2>3. text[p].n \in Int BY SizeAssumption DEF Text
  <2> QED BY <2>1, <2>2, <2>3
<1> DEFINE s == t.id
<1>5. Unsent(p, s) = text[p].n BY <1>1, <1>2 DEF Unsent, ToVisit, Command
<1>6. Unsent(p, s)' = text[p].n + 1
  BY <1>1, <1>2 DEF Unsent, ToVisit, Command, Numbered
<1>7. CASE messages' = messages
  BY <1>2, <1>7, OrderFrame
<1>8. CASE messages' # messages
  <2>1. messages' = [messages EXCEPT ![s] = Append(@, m)]
    <3>1. messages' = [messages EXCEPT ![s] = Enqueue(@, m)] BY <1>1, <1>4, <1>8
    <3>2. Enqueue(messages[s], m) = messages[s] => messages' = messages BY <1>3, <3>1
    <3> QED BY <1>8, <3>1, <3>2 DEF Enqueue
  <2>2. messages'[s] = Append(messages[s], m) /\ \A r \in Slot \ {s} : messages'[r] = messages[r]
    BY <1>3, <2>1
  <2>3. Range(messages'[s]) = Range(messages[s]) \union {m}
    BY <1>3, <1>4, <2>2, RangeOfAppend
  <2>4. /\ \A r \in Slot : \A k \in Range(messages[r]) : k.from \in Proc /\ k.n \in Int
        /\ \A q \in Proc : \A k \in Range(seen[q]) : k.from \in Proc /\ k.n \in Int
    BY MessagesNumbered
  <2>5. Sent'
    <3>1. \A r \in Slot : \A k \in Range(messages[r]) : k.n < Unsent(k.from, r)'
      BY <2>4 DEF Sent, UnsentGrows
    <3>2. \A q \in Proc : \A k \in Range(seen[q]) : k.n < Unsent(k.from, myId[q])'
      <4> TAKE q \in Proc
      <4> TAKE k \in Range(seen[q])
      <4>1. k.from \in Proc /\ k.n \in Int /\ myId[q] \in Slot \union {NoSlot} BY <2>4
      <4>2. k.n < Unsent(k.from, myId[q]) BY DEF Sent
      <4> QED BY <1>2, <4>1, <4>2 DEF UnsentGrows
    <3>3. m.n < Unsent(m.from, s)' BY <1>4, <1>6
    <3> QED BY <1>2, <2>2, <2>3, <3>1, <3>2, <3>3 DEF Sent
  <2>6. Queued'
    <3>1. \A k \in Range(messages[s]) : k.from = m.from => k.n < m.n
      BY <1>3, <1>4, <1>5 DEF Sent
    <3>2. \A r \in Slot : Ordered(messages'[r])
      <4>1. \A r \in Slot : Ordered(messages[r]) BY DEF Queued
      <4>2. messages[s] \in Seq(Message) BY <1>3
      <4>3. Ordered(messages'[s]) BY <1>3, <2>2, <3>1, <4>1, <4>2, OrderedAppend
      <4> QED BY <2>2, <4>1, <4>3
    <3>3. ASSUME NEW q \in Proc, myId[q] = s
          PROVE  Before(seen[q], messages'[s])
      <4>1. Before(seen[q], messages[s]) BY <1>3, <3>3 DEF Queued
      <4>2. \A k \in Range(seen[q]) : k.from = m.from => k.n < m.n
        BY <1>4, <1>5, <3>3 DEF Sent
      <4> QED BY <2>3, <4>1, <4>2 DEF Before
    <3>4. \A q \in Proc : myId[q] \in Slot => Before(seen[q], messages'[myId[q]])
      BY <2>2, <3>3 DEF Queued
    <3>5. \A r \in Slot : \A k \in Range(messages'[r]) : myId[k.from] # r
      <4>1. \A r \in Slot : \A k \in Range(messages[r]) : myId[k.from] # r BY DEF Queued
      <4>2. myId[m.from] # s BY <1>1, <1>4
      <4> QED BY <2>2, <2>3, <4>1, <4>2
    <3>6. \A q \in Proc : Ordered(seen[q]) BY DEF Queued
    <3> QED BY <1>2, <3>2, <3>4, <3>5, <3>6 DEF Queued
  <2> QED BY <2>5, <2>6
<1> QED BY <1>7, <1>8

LEMMA OrderStep == RegistryInv /\ OrderInv /\ [Next]_vars => OrderInv'
<1> SUFFICES ASSUME RegistryInv, OrderInv, [Next]_vars PROVE OrderInv'
  OBVIOUS
<1>0. Typed /\ Phases BY DEF RegistryInv
<1>1. (\A p \in Proc : Numbered(p)') /\ UnsentGrows BY <1>0, SendersGoOn
<1> SUFFICES Sent' /\ Queued'
  BY <1>1 DEF OrderInv
<1>2. ASSUME UNCHANGED <<seen, messages, myId>> PROVE Sent' /\ Queued'
  BY <1>0, <1>1, <1>2, OrderFrame
<1>3. ASSUME NEW p \in Proc, Environment(p) \/ Dies(p) PROVE Sent' /\ Queued'
  BY <1>2, <1>3 DEF Environment, Fork, ReadCommand, ReadExit, Disconnect, Dies, BrokenPipe, NotANumber, shared, local
<1>4. ASSUME NEW p \in Proc, Handler(p) PROVE Sent' /\ Queued'
  BY <1>0, <1>1, <1>2, <1>4, OrderFlush
  DEF Handler, Deliver, HandlerAcquire, FlushBroken, shared, local
<1>5. ASSUME NEW p \in Proc, Main(p) PROVE Sent' /\ Queued'
  <2>1. CASE \E s \in Slot : AssignUser(p, s) BY <1>0, <1>1, <2>1, OrderAssign
  <2>2. CASE SendSelf(p) BY <1>0, <1>1, <2>2, OrderSendSelf
  <2>3. CASE Post(p) BY <1>0, <1>1, <2>3, OrderPost
  <2>4. CASE Cleanup(p)
    <3>1. /\ UNCHANGED <<seen, myId>>
          /\ \A t \in Slot : messages'[t] = messages[t] \/ messages'[t] = <<>>
      BY <1>0, <2>4 DEF Cleanup, Emptied, Typed, TypeOK
    <3> QED BY <1>0, <1>1, <3>1, OrderFrame
  <2>5. CASE BuiltIn(p)
    BY <1>2, <2>5 DEF BuiltIn, Who, Rename, RenameRefused, Tell, Yell
  <2>6. CASE Acquire(p) \/ ServerFull(p) \/ InstallHandler(p) \/ Collect(p) \/ Kill(p) \/ EndSend(p)
    BY <1>2, <2>6 DEF Acquire, ServerFull, InstallHandler, Collect, Kill, EndSend, shared, local
  <2> QED BY <1>5, <2>1, <2>2, <2>3, <2>4, <2>5, <2>6 DEF Main
<1>6. CASE UNCHANGED vars BY <1>2, <1>6 DEF vars
<1> QED BY <1>3, <1>4, <1>5, <1>6 DEF Next

\* Whatever mixture of own writes and signal-driven flushes brings the texts of one
\* sender to a client, and whoever has the client's slot after its logout: the client
\* sees them in the order in which they were sent, and none twice.
THEOREM TextsInOrderOnce == Spec => []InOrderOnce
<1>1. Init => OrderInv BY OrderInit
<1>2. RegistryInv /\ OrderInv /\ [Next]_vars => OrderInv' BY OrderStep
<1>3. OrderInv => InOrderOnce BY DEF OrderInv, Queued, Ordered, InOrderOnce
<1> QED BY <1>1, <1>2, <1>3, RegistryAlways, PTL DEF Spec

-----------------------------------------------------------------------------
(***************************************************************************)
(* Clients that wait for the server to be quiet and do not vanish.  One    *)
(* process is at work at a time, so that the registry does not change      *)
(* between a look-up and the delivery it leads to.                         *)
(***************************************************************************)

Polite == ~Overlap /\ ~Vanish

Busy(p) == pc[p] \in Active \ {"idle"}

\* What a slot's process may be among polite clients.
Kept(p) == Alive(p) \/ pc[p] = "aborted"

\* One process works at a time, signals go to idle ones, and nobody dies.
OneAtWork ==
    /\ \A p, q \in Proc : Busy(p) /\ Busy(q) => p = q
    /\ \A p \in Proc : sig[p] \/ handler[p] # "none" => pc[p] = "idle"
    /\ \A p \in Proc : pc[p] = "kill" => killPid[p] # p
    /\ \A p \in Proc : pc[p] # "killed"

\* Slots belong to live processes, or to what a std::stoi has left of them, and what is
\* underway is for their owners.
Addressed ==
    /\ NoGhostUser
    /\ \A p \in Proc : Busy(p) /\ myId[p] \in Slot /\ online[myId[p]] => pid[myId[p]] = p
    /\ \A p \in Proc : pc[p] \in {"send", "kill"} =>
         \A t \in targets[p] : online[t.id] /\ pid[t.id] = t.owner
    /\ \A s \in Slot : \A m \in Range(messages[s]) : online[s] /\ m.to = pid[s]
    /\ \A p \in Proc : \A m \in Range(seen[p]) : m.to = p

ServedInv == NobodyGone /\ OneAtWork /\ Addressed

LEMMA ServedInit == Init => ServedInv
<1> SUFFICES ASSUME Init PROVE ServedInv
  OBVIOUS
<1>1. NobodyGone /\ OneAtWork BY DEF Init, NobodyGone, OneAtWork, Busy, Active
<1>2. Addressed BY RangeOfEmpty DEF Init, Addressed, NoGhostUser, Busy, Active
<1> QED BY <1>1, <1>2 DEF ServedInv

LEMMA MainIsWork ==
    ASSUME NEW p \in Proc, Main(p)
    PROVE  Busy(p)
BY DEF Main, Acquire, LockSite, AssignUser, ServerFull, InstallHandler, Collect, SendSelf, Post, Kill,
       EndSend, BuiltIn, Who, Rename, RenameRefused, Tell, Yell, Cleanup, Busy, Active, Command

\* What the work of p changes of control: its own.
LEMMA MainControl ==
    ASSUME Typed, NEW p \in Proc, Main(p)
    PROVE  /\ client' = client /\ handler' = handler
           /\ \E l \in Active \union {"exited"} : pc' = [pc EXCEPT ![p] = l]
           /\ sig' = sig \/ Kill(p)
           /\ killPid' = killPid \/ Kill(p) \/ Post(p)
           /\ pc'[p] = "kill" => pc[p] = "kill" \/ Post(p)
<1> USE DEF Typed, TypeOK
<1>1. CASE BuiltIn(p)
  BY <1>1 DEF BuiltIn, Who, Rename, RenameRefused, Tell, Yell, Active
<1>2. CASE Acquire(p)
  <2>1. pc[p] \in Active /\ pc' = pc
    BY <1>2 DEF Acquire, LockSite, Active, Command
  <2> QED BY <1>2, <2>1 DEF Acquire, local
<1>3. CASE SendSelf(p) \/ Post(p)
  <2>1. pc[p] = "send" /\ (pc' = pc \/ pc' = [pc EXCEPT ![p] = "kill"])
    BY <1>3 DEF SendSelf, Post
  <2>2. pc' = pc => pc' = [pc EXCEPT ![p] = "send"] BY <2>1
  <2>3. \E l \in Active : pc' = [pc EXCEPT ![p] = l] BY <2>1, <2>2 DEF Active
  <2>4. client' = client /\ handler' = handler /\ sig' = sig /\ (killPid' = killPid \/ Post(p))
    BY <1>3 DEF SendSelf, Post
  <2>5. pc'[p] = "kill" => Post(p) BY <1>3, <2>1 DEF SendSelf
  <2> QED BY <2>3, <2>4, <2>5
<1>4. CASE \/ \E s \in Slot : AssignUser(p, s)
           \/ ServerFull(p) \/ InstallHandler(p) \/ Collect(p) \/ Kill(p) \/ EndSend(p) \/ Cleanup(p)
  <2>1. \E l \in {"install", "collect", "send", "idle", "exited"} : pc' = [pc EXCEPT ![p] = l]
    BY <1>4 DEF AssignUser, ServerFull, InstallHandler, Collect, Kill, EndSend, Cleanup
  <2>2. client' = client /\ handler' = handler /\ ((sig' = sig /\ killPid' = killPid) \/ Kill(p))
    BY <1>4 DEF AssignUser, ServerFull, InstallHandler, Collect, Kill, EndSend, Cleanup, local
  <2> QED BY <2>1, <2>2 DEF Active
<1> QED BY <1>1, <1>2, <1>3, <1>4 DEF Main

LEMMA AtWorkMain ==
    ASSUME RegistryInv, ServedInv, NEW p \in Proc, Main(p)
    PROVE  OneAtWork' /\ NobodyGone'
<1> USE DEF RegistryInv, Typed, TypeOK, ServedInv
<1>1. Busy(p) /\ pc[p] # "idle" BY MainIsWork DEF Busy
<1>2. PICK l \in Active \union {"exited"} : pc' = [pc EXCEPT ![p] = l] BY MainControl
<1>3. NobodyGone' BY MainControl DEF NobodyGone
<1>4. \A q \in Proc \ {p} : ~Busy(q) /\ pc'[q] = pc[q] BY <1>1, <1>2 DEF OneAtWork
<1>5. \A q, r \in Proc : Busy(q)' /\ Busy(r)' => q = r BY <1>4 DEF Busy
<1>6. \A q \in Proc : pc'[q] # "killed" BY <1>2 DEF OneAtWork, Active
<1>7. handler' = handler BY MainControl
<1>8. \A q \in Proc : sig'[q] \/ handler'[q] # "none" => pc'[q] = "idle"
  <2>1. ~sig[p] /\ handler[p] = "none" BY <1>1 DEF OneAtWork
  <2>2. CASE sig' = sig BY <1>4, <1>7, <2>1, <2>2 DEF OneAtWork
  <2>3. CASE Kill(p)
    <3>1. pc[p] = "kill" /\ killPid[p] # p BY <2>3 DEF Kill, OneAtWork
    <3>2. \A q \in Proc : sig'[q] => sig[q] \/ (q # p /\ Alive(q))
      BY <2>3, <3>1 DEF Kill, Signalled
    <3>3. \A q \in Proc \ {p} : Alive(q) => pc[q] = "idle" BY <1>4 DEF Busy, Alive
    <3> QED BY <1>4, <1>7, <2>1, <3>2, <3>3 DEF OneAtWork
  <2> QED BY <2>2, <2>3, MainControl
<1>9. \A q \in Proc : pc'[q] = "kill" => killPid'[q] # q
  <2>1. CASE Post(p)
    <3>1. PICK t \in targets[p] :
            /\ t.id # myId[p]
            /\ \/ online[t.id] /\ killPid' = [killPid EXCEPT ![p] = pid[t.id]]
               \/ killPid' = killPid /\ pc' = pc
      BY <2>1 DEF Post
    <3>2. t.id \in Slot /\ pc[p] = "send" BY <2>1 DEF Target, Post
    <3>3. online[t.id] => pid[t.id] # p BY <3>1, <3>2 DEF RegistryConsistent
    <3>4. \A q \in Proc \ {p} : pc'[q] # "kill" BY <1>4 DEF Busy, Active
    <3>5. pc'[p] = "kill" => killPid'[p] # p
      <4>1. CASE online[t.id] /\ killPid' = [killPid EXCEPT ![p] = pid[t.id]]
        BY <3>3, <4>1
      <4>2. CASE killPid' = killPid /\ pc' = pc BY <3>2, <4>2
      <4> QED BY <3>1, <4>1, <4>2
    <3> QED BY <3>4, <3>5
  <2>2. CASE Kill(p)
    BY <1>4, <2>2 DEF OneAtWork, Kill, Busy, Active
  <2>3. CASE killPid' = killPid /\ ~Post(p)
    BY <1>4, <2>3, MainControl DEF OneAtWork
  <2> QED BY <2>1, <2>2, <2>3, MainControl
<1> QED BY <1>3, <1>5, <1>6, <1>8, <1>9 DEF OneAtWork

LEMMA AtWorkElsewhere ==
    ASSUME Polite, RegistryInv, ServedInv, NEW p \in Proc,
           Environment(p) \/ Handler(p) \/ Dies(p)
    PROVE  OneAtWork' /\ NobodyGone'
<1> USE DEF RegistryInv, Typed, TypeOK, ServedInv
<1>1. ~BrokenPipe(p) /\ ~FlushBroken(p) /\ ~Disconnect(p)
  BY DEF BrokenPipe, FlushBroken, NobodyGone, Disconnect, Polite
<1>2. CASE Environment(p)
  <2>1. /\ Quiet /\ UNCHANGED <<sig, handler, killPid, client>>
        /\ \E l \in Command \union {"assign", "cleanup"} : pc' = [pc EXCEPT ![p] = l]
        /\ pc[p] \in {"new", "idle"}
    BY <1>1, <1>2 DEF Environment, Fork, ReadCommand, ReadExit, EnvMayAct, Polite, local
  <2>2. \A q \in Proc : ~Busy(q) BY <2>1 DEF Quiet, Busy, Active
  <2>3. ~sig[p] /\ handler[p] = "none" BY <2>1 DEF Quiet, OneAtWork, Alive, Active
  <2> QED BY <2>1, <2>2, <2>3 DEF OneAtWork, Busy, Active, Command, NobodyGone
<1>3. CASE Deliver(p)
  <2>1. pc[p] = "idle" BY <1>3 DEF Deliver, OneAtWork
  <2>2. Installed(p) BY <2>1 DEF Installed, Active
  <2>3. UNCHANGED <<pc, killPid, client>> /\ sig' = [sig EXCEPT ![p] = FALSE]
        /\ handler' = [handler EXCEPT ![p] = "lock"]
    BY <1>3, <2>2 DEF Deliver, local
  <2> QED BY <2>1, <2>3 DEF OneAtWork, Busy, NobodyGone
<1>4. CASE HandlerAcquire(p) \/ Flush(p)
  <2>1. UNCHANGED <<pc, killPid, client, sig>> /\ handler[p] # "none"
        /\ \E h \in {"none", "flush"} : handler' = [handler EXCEPT ![p] = h]
    BY <1>4 DEF HandlerAcquire, Flush, local
  <2> QED BY <2>1 DEF OneAtWork, Busy, NobodyGone
<1>5. CASE NotANumber(p)
  <2>1. /\ UNCHANGED <<killPid, client, sig, handler>> /\ pc[p] = "tell"
        /\ pc' = [pc EXCEPT ![p] = "aborted"]
    BY <1>5 DEF NotANumber, shared, local
  <2> QED BY <2>1 DEF OneAtWork, Busy, Active, NobodyGone
<1> QED BY <1>1, <1>2, <1>3, <1>4, <1>5 DEF Handler, Dies

\* A step that changes no registry and no mailbox, writes to no client, and after which
\* nobody newly sends or has gone.
LEMMA AddressedFrame ==
    ASSUME Typed, ServedInv, UNCHANGED <<online, pid, myId>>,
           \A s \in Slot : Range(messages'[s]) \subseteq Range(messages[s]),
           \A p \in Proc : Range(seen'[p]) \subseteq Range(seen[p]),
           \A p \in Proc : Busy(p)' =>
               Busy(p) \/ (myId[p] \in Slot /\ online[myId[p]] => pid[myId[p]] = p),
           \A p \in Proc : pc'[p] \in {"send", "kill"} =>
               pc[p] \in {"send", "kill"} /\ targets'[p] \subseteq targets[p],
           \A s \in Slot : online[s] /\ Kept(pid[s]) => \E q \in Proc : q = pid[s] /\ Kept(q)'
    PROVE  Addressed'
<1> USE DEF Typed, TypeOK, ServedInv
<1>1. NoGhostUser'
  <2> SUFFICES ASSUME NEW s \in Slot, online[s] PROVE Kept(pid[s])'
    BY DEF NoGhostUser, Kept
  <2>1. Kept(pid[s]) BY DEF Addressed, NoGhostUser, Kept
  <2>2. PICK q \in Proc : q = pid[s] /\ Kept(q)' BY <2>1
  <2> QED BY <2>2 DEF Kept, Alive
<1>2. \A p \in Proc : Busy(p)' /\ myId[p] \in Slot /\ online[myId[p]] => pid[myId[p]] = p
  BY DEF Addressed
<1>3. \A p \in Proc : pc'[p] \in {"send", "kill"} =>
        \A t \in targets'[p] : online[t.id] /\ pid[t.id] = t.owner
  BY DEF Addressed
<1>4. \A s \in Slot : \A m \in Range(messages'[s]) : online[s] /\ m.to = pid[s]
  BY DEF Addressed
<1>5. \A p \in Proc : \A m \in Range(seen'[p]) : m.to = p
  BY DEF Addressed
<1> QED BY <1>1, <1>2, <1>3, <1>4, <1>5 DEF Addressed

\* Whoever is at its prompt owns its slot.
LEMMA IdleOwns ==
    ASSUME RegistryInv, NEW p \in Proc, pc[p] \in Command \union {"idle", "cleanup"}
    PROVE  LoggedIn(p) /\ myId[p] \in Slot /\ online[myId[p]] /\ pid[myId[p]] = p
<1>1. myId[p] \in Slot /\ myId[p] # NoSlot
  BY SizeAssumption DEF RegistryInv, Typed, Grounded, Alive, Active, Command, Slot, NoSlot
<1>2. LoggedIn(p) BY <1>1 DEF RegistryInv, Phases, LoggedIn
<1> QED BY <1>1, <1>2 DEF RegistryInv, RegistryConsistent

LEMMA AddressedElsewhere ==
    ASSUME Polite, RegistryInv, ServedInv, NEW p \in Proc,
           Environment(p) \/ Handler(p) \/ Dies(p)
    PROVE  Addressed'
<1> USE DEF RegistryInv, Typed, TypeOK, ServedInv
<1>1. ~BrokenPipe(p) /\ ~FlushBroken(p) /\ ~Disconnect(p)
  BY DEF BrokenPipe, FlushBroken, NobodyGone, Disconnect, Polite
<1>2. \A s \in Slot : online[s] => pid[s] \in Proc BY DEF Grounded
<1>3. CASE Environment(p)
  <2>1. /\ UNCHANGED <<online, pid, myId, messages, seen, targets>>
        /\ \E l \in Command \union {"assign", "cleanup"} : pc' = [pc EXCEPT ![p] = l]
        /\ pc[p] \in {"new", "idle"}
    BY <1>1, <1>3 DEF Environment, Fork, ReadCommand, ReadExit, shared, local
  <2>2. myId[p] \in Slot /\ online[myId[p]] => pid[myId[p]] = p
    <3>1. CASE pc[p] = "new" BY <3>1, SizeAssumption DEF Phases, Slot, NoSlot
    <3>2. CASE pc[p] = "idle" BY <3>2, IdleOwns
    <3> QED BY <2>1, <3>1, <3>2
  <2>3. \A q \in Proc : Busy(q)' => Busy(q) \/ q = p BY <2>1 DEF Busy
  <2>4. \A q \in Proc : pc'[q] \in {"send", "kill"} => pc[q] \in {"send", "kill"} BY <2>1 DEF Command
  <2>5. \A q \in Proc : Kept(q) => Kept(q)' BY <2>1 DEF Kept, Alive, Active, Command
  <2> QED BY <1>2, <2>1, <2>2, <2>3, <2>4, <2>5, AddressedFrame
<1>4. CASE Deliver(p) \/ HandlerAcquire(p)
  <2>1. UNCHANGED <<online, pid, myId, messages, seen, targets, pc>>
    <3>1. Deliver(p) => Installed(p) BY DEF Deliver, OneAtWork, Installed, Active
    <3> QED BY <1>4, <3>1 DEF Deliver, HandlerAcquire, shared, registry, local
  <2> QED BY <1>2, <2>1, AddressedFrame DEF Busy, Kept, Alive
<1>5. CASE Flush(p)
  <2>1. pc[p] = "idle" BY <1>5 DEF Flush, OneAtWork
  <2>2. myId[p] \in Slot /\ pid[myId[p]] = p BY <2>1, IdleOwns
  <2>3. /\ UNCHANGED <<online, pid, myId, pc, targets>>
        /\ messages' = [messages EXCEPT ![myId[p]] = <<>>]
        /\ seen' = [seen EXCEPT ![p] = @ \o messages[myId[p]]]
    BY <1>5 DEF Flush, Emptied, registry, local
  <2>4. Range(seen'[p]) = Range(seen[p]) \union Range(messages[myId[p]])
    BY <2>2, <2>3, RangeOfConcat
  <2>5. \A s \in Slot : Range(messages'[s]) \subseteq Range(messages[s])
    BY <2>2, <2>3, RangeOfEmpty
  <2>6. \A q \in Proc : \A m \in Range(seen'[q]) : m.to = q
    BY <2>2, <2>3, <2>4 DEF Addressed
  <2>7. NoGhostUser' BY <2>3 DEF Addressed, NoGhostUser, Alive
  <2>8. \A s \in Slot : \A m \in Range(messages'[s]) : online[s] /\ m.to = pid[s]
    BY <2>5 DEF Addressed
  <2> QED BY <2>3, <2>6, <2>7, <2>8 DEF Addressed, Busy
<1>6. CASE NotANumber(p)
  <2>1. /\ UNCHANGED <<online, pid, myId, messages, seen, targets>> /\ pc[p] = "tell"
        /\ pc' = [pc EXCEPT ![p] = "aborted"]
    BY <1>6 DEF NotANumber, shared, local
  <2>2. \A q \in Proc : Kept(q) => Kept(q)' BY <2>1 DEF Kept, Alive
  <2>3. \A q \in Proc : Busy(q)' => Busy(q) BY <2>1 DEF Busy, Active
  <2> QED BY <1>2, <2>1, <2>2, <2>3, AddressedFrame
<1> QED BY <1>1, <1>3, <1>4, <1>5, <1>6 DEF Handler, Dies

\* While p works nobody else sends.
LEMMA OnlyWorker ==
    ASSUME Typed, ServedInv, NEW p \in Proc, Main(p)
    PROVE  \A q \in Proc \ {p} : ~Busy(q) /\ ~Busy(q)' /\ pc'[q] \notin {"send", "kill"}
                                 /\ (Kept(q) => Kept(q)') /\ (Alive(q)' => Alive(q))
<1>1. Busy(p) BY MainIsWork
<1>2. \A q \in Proc \ {p} : ~Busy(q) BY <1>1 DEF ServedInv, OneAtWork
<1>3. \A q \in Proc \ {p} : pc'[q] = pc[q] BY OthersKeep
<1> QED BY <1>2, <1>3 DEF Busy, Kept, Alive, Active

\* Work of p that leaves registry and mailboxes alone and aims at owners.
LEMMA AddressedWork ==
    ASSUME RegistryInv, ServedInv, NEW p \in Proc, Main(p), UNCHANGED <<online, pid, myId>>,
           \A s \in Slot : \A m \in Range(messages'[s]) :
              m \in Range(messages[s]) \/ (online[s] /\ m.to = pid[s]),
           \A m \in Range(seen'[p]) : m \in Range(seen[p]) \/ m.to = p,
           pc'[p] \in {"send", "kill"} =>
              \A t \in targets'[p] : online[t.id] /\ pid[t.id] = t.owner,
           Alive(p)' \/ \A s \in Slot : online[s] => pid[s] # p
    PROVE  Addressed'
<1> USE DEF RegistryInv, Typed, TypeOK, ServedInv
<1>1. Busy(p) BY MainIsWork
<1>2. \A q \in Proc \ {p} : seen'[q] = seen[q] BY OthersKeep
<1>3. NoGhostUser'
  <2> SUFFICES ASSUME NEW s \in Slot, online[s] PROVE Kept(pid[s])'
    BY DEF NoGhostUser, Kept
  <2>1. PICK q \in Proc : q = pid[s] /\ Kept(q) BY DEF Addressed, NoGhostUser, Grounded, Kept
  <2>2. Kept(q)' BY <2>1, OnlyWorker DEF Kept
  <2> QED BY <2>1, <2>2 DEF Kept, Alive
<1>4. \A q \in Proc : Busy(q)' /\ myId[q] \in Slot /\ online[myId[q]] => pid[myId[q]] = q
  BY <1>1, OnlyWorker DEF Addressed
<1>5. \A q \in Proc : pc'[q] \in {"send", "kill"} =>
        \A t \in targets'[q] : online[t.id] /\ pid[t.id] = t.owner
  BY OnlyWorker
<1>6. \A s \in Slot : \A m \in Range(messages'[s]) : online[s] /\ m.to = pid[s]
  BY DEF Addressed
<1>7. \A q \in Proc : \A m \in Range(seen'[q]) : m.to = q
  BY <1>2 DEF Addressed
<1> QED BY <1>3, <1>4, <1>5, <1>6, <1>7 DEF Addressed

LEMMA AddressedAssign ==
    ASSUME RegistryInv, ServedInv, NEW p \in Proc, NEW s \in Slot, AssignUser(p, s), Main(p)
    PROVE  Addressed'
<1> USE DEF RegistryInv, Typed, TypeOK, ServedInv
<1>1. /\ online' = [online EXCEPT ![s] = TRUE]
      /\ pid' = [pid EXCEPT ![s] = p]
      /\ myId' = [myId EXCEPT ![p] = s]
      /\ messages' = [messages EXCEPT ![s] = <<>>]
      /\ pc' = [pc EXCEPT ![p] = "install"]
      /\ seen' = seen
  BY DEF AssignUser, Emptied
<1>2. NoGhostUser'
  <2> SUFFICES ASSUME NEW t \in Slot, online'[t] PROVE Kept(pid[t])'
    BY DEF NoGhostUser, Kept
  <2>1. CASE t = s BY <1>1, <2>1 DEF Kept, Alive, Active
  <2>2. CASE t # s
    <3>1. online[t] /\ pid'[t] = pid[t] BY <1>1, <2>2
    <3>2. PICK q \in Proc : q = pid[t] /\ Kept(q) BY <3>1 DEF Addressed, NoGhostUser, Grounded, Kept
    <3>3. pc'[q] \in Active \union {"aborted"} BY <1>1, <3>2 DEF Kept, Alive, Active
    <3> QED BY <3>1, <3>2, <3>3 DEF Kept, Alive
  <2> QED BY <2>1, <2>2
<1>3. \A q \in Proc : Busy(q)' => q = p BY OnlyWorker
<1>4. \A q \in Proc : pc'[q] \notin {"send", "kill"} BY <1>1, OnlyWorker
<1>5. \A t \in Slot : \A m \in Range(messages'[t]) : online'[t] /\ m.to = pid'[t]
  BY <1>1, RangeOfEmpty DEF Addressed
<1> QED BY <1>1, <1>2, <1>3, <1>4, <1>5 DEF Addressed

LEMMA AddressedCleanup ==
    ASSUME RegistryInv, ServedInv, NEW p \in Proc, Cleanup(p), Main(p)
    PROVE  Addressed'
<1> USE DEF RegistryInv, Typed, TypeOK, ServedInv
<1> DEFINE s == myId[p]
<1>1. s \in Slot /\ online[s] /\ pid[s] = p BY IdleOwns DEF Cleanup
<1>2. /\ online' = [online EXCEPT ![s] = FALSE]
      /\ messages' = [messages EXCEPT ![s] = <<>>]
      /\ pc' = [pc EXCEPT ![p] = "collect"]
      /\ UNCHANGED <<pid, myId, seen>>
  BY <1>1 DEF Cleanup, Freed, Emptied
<1>3. NoGhostUser'
  <2> SUFFICES ASSUME NEW t \in Slot, online'[t] PROVE Kept(pid[t])'
    BY DEF NoGhostUser, Kept
  <2>1. t # s /\ online[t] BY <1>1, <1>2
  <2>2. PICK q \in Proc : q = pid[t] /\ Kept(q) BY <2>1 DEF Addressed, NoGhostUser, Grounded, Kept
  <2>3. pc'[q] \in Active \union {"aborted"} BY <1>2, <2>2 DEF Kept, Alive, Active
  <2> QED BY <1>2, <2>2, <2>3 DEF Kept, Alive
<1>4. \A q \in Proc : Busy(q)' => q = p BY OnlyWorker
<1>5. \A q \in Proc : pc'[q] \notin {"send", "kill"} BY <1>2, OnlyWorker
<1>6. \A t \in Slot : \A m \in Range(messages'[t]) : online'[t] /\ m.to = pid[t]
  <2> TAKE t \in Slot
  <2>1. CASE t = s
    <3>1. Range(messages'[t]) = {} BY <1>1, <1>2, <2>1, RangeOfEmpty
    <3> QED BY <3>1
  <2>2. CASE t # s BY <1>1, <1>2, <2>2 DEF Addressed
  <2> QED BY <2>1, <2>2
<1> QED BY <1>1, <1>2, <1>3, <1>4, <1>5, <1>6 DEF Addressed

LEMMA AddressedBuiltIn ==
    ASSUME RegistryInv, ServedInv, NEW p \in Proc, BuiltIn(p)
    PROVE  Addressed'
<1> USE DEF RegistryInv, Typed, TypeOK, ServedInv
<1>0. Main(p) BY DEF Main
<1>1. /\ pc[p] \in Command /\ UNCHANGED <<online, pid, myId, messages, seen>>
      /\ \E l \in {"send", "collect"} : pc' = [pc EXCEPT ![p] = l]
  BY DEF BuiltIn, Who, Rename, RenameRefused, Tell, Yell, Command, registry
<1>2. myId[p] \in Slot /\ online[myId[p]] /\ pid[myId[p]] = p BY <1>1, IdleOwns
<1>3. pc'[p] = "send" =>
        \/ targets' = [targets EXCEPT ![p] = {[id |-> myId[p], owner |-> p]}]
        \/ \E s \in Slot : /\ online[s]
                           /\ targets' = [targets EXCEPT ![p] = {[id |-> s, owner |-> pid[s]]}]
  BY DEF BuiltIn, Who, Rename, RenameRefused, Tell, Yell, ReplyTo
<1>4. pc'[p] \in {"send", "kill"} =>
        \A t \in targets'[p] : online[t.id] /\ pid[t.id] = t.owner
  BY <1>1, <1>2, <1>3
<1>5. Alive(p)' BY <1>1 DEF Alive, Active
<1> QED BY <1>0, <1>1, <1>4, <1>5, AddressedWork

LEMMA AddressedSend ==
    ASSUME RegistryInv, ServedInv, NEW p \in Proc, SendSelf(p) \/ Post(p)
    PROVE  Addressed'
<1> USE DEF RegistryInv, Typed, TypeOK, ServedInv
<1>0. Main(p) /\ Busy(p) BY MainIsWork DEF Main
<1>1. /\ pc[p] = "send" /\ pc'[p] \in {"send", "kill"} /\ UNCHANGED <<online, pid, myId>>
      /\ targets'[p] \subseteq targets[p]
  BY DEF SendSelf, Post, shared, registry
<1>2. Alive(p)' BY <1>1 DEF Alive, Active
<1>3. \A t \in targets[p] : t \in Target /\ online[t.id] /\ pid[t.id] = t.owner
  BY <1>1 DEF Addressed
<1>4. CASE SendSelf(p)
  <2>1. PICK t \in targets[p] :
          t.id = myId[p] /\ seen' = [seen EXCEPT ![p] = Append(@, MessageTo(p, t))]
    BY <1>4 DEF SendSelf
  <2>2. t.owner = p BY <1>0, <1>3, <2>1 DEF Addressed, Target
  <2>3. MessageTo(p, t) \in Message /\ MessageTo(p, t).to = p
    BY <1>3, <2>2, MessageToType DEF MessageTo
  <2>4. seen'[p] = Append(seen[p], MessageTo(p, t)) BY <2>1
  <2>5. Range(seen'[p]) = Range(seen[p]) \union {MessageTo(p, t)} BY <2>3, <2>4, RangeOfAppend
  <2>6. messages' = messages BY <1>4 DEF SendSelf, shared
  <2> QED BY <1>0, <1>1, <1>2, <1>3, <2>3, <2>5, <2>6, AddressedWork
<1>5. CASE Post(p)
  <2>1. PICK t \in targets[p] :
          \/ messages' = [messages EXCEPT ![t.id] = Enqueue(@, MessageTo(p, t))]
          \/ messages' = messages
    BY <1>5 DEF Post
  <2>2. PICK m \in Message : m = MessageTo(p, t) /\ m.to = pid[t.id]
    <3>1. MessageTo(p, t) \in Message /\ MessageTo(p, t).to = pid[t.id]
      BY <1>3, MessageToType DEF MessageTo
    <3> QED BY <3>1
  <2>3. t.id \in Slot BY <1>3 DEF Target
  <2>4. Range(Enqueue(messages[t.id], m)) \subseteq Range(messages[t.id]) \union {m}
    BY <2>3, RangeOfAppend DEF Enqueue
  <2>5. \A s \in Slot : \A k \in Range(messages'[s]) :
          k \in Range(messages[s]) \/ (online[s] /\ k.to = pid[s])
    BY <1>3, <2>1, <2>2, <2>3, <2>4
  <2>6. seen' = seen BY <1>5 DEF Post
  <2> QED BY <1>0, <1>1, <1>2, <1>3, <2>5, <2>6, AddressedWork
<1> QED BY <1>4, <1>5

LEMMA AddressedMain ==
    ASSUME RegistryInv, ServedInv, NEW p \in Proc, Main(p)
    PROVE  Addressed'
<1> USE DEF RegistryInv, Typed, TypeOK, ServedInv
<1>1. CASE Acquire(p) \/ InstallHandler(p) \/ Kill(p)
  <2>1. /\ UNCHANGED <<online, pid, myId, messages, seen, targets>>
        /\ \/ pc' = pc
           \/ pc' = [pc EXCEPT ![p] = "collect"]
           \/ pc[p] = "kill" /\ pc' = [pc EXCEPT ![p] = "send"]
    <3>1. CASE Acquire(p) BY <3>1 DEF Acquire, registry, local
    <3>2. CASE InstallHandler(p) BY <3>2 DEF InstallHandler, shared
    <3>3. CASE Kill(p) BY <3>3 DEF Kill, shared
    <3> QED BY <1>1, <3>1, <3>2, <3>3
  <2>2. Alive(p)' BY <2>1, MainIsWork DEF Busy, Alive, Active
  <2>3. pc'[p] \in {"send", "kill"} => \A t \in targets'[p] : online[t.id] /\ pid[t.id] = t.owner
    BY <2>1 DEF Addressed
  <2> QED BY <2>1, <2>2, <2>3, AddressedWork
<1>2. CASE Collect(p)
  <2>1. /\ UNCHANGED <<online, pid, myId, messages, seen>>
        /\ pc[p] = "collect" /\ pc' = [pc EXCEPT ![p] = "send"]
        /\ targets' = [targets EXCEPT ![p] = {[id |-> s, owner |-> pid[s]] : s \in OnlineSlots}]
    BY <1>2 DEF Collect, registry
  <2>2. Alive(p)' BY <2>1 DEF Alive, Active
  <2>3. \A t \in targets'[p] : online[t.id] /\ pid[t.id] = t.owner BY <2>1 DEF OnlineSlots
  <2> QED BY <2>1, <2>2, <2>3, AddressedWork
<1>3. CASE ServerFull(p) \/ EndSend(p)
  <2>1. /\ UNCHANGED <<online, pid, myId, messages, seen, text>>
        /\ \/ pc[p] = "assign" /\ pc' = [pc EXCEPT ![p] = "exited"]
           \/ text[p].kind = "left" /\ pc' = [pc EXCEPT ![p] = "exited"]
           \/ pc' = [pc EXCEPT ![p] = "idle"]
    BY <1>3 DEF ServerFull, EndSend, shared, registry, local
  <2>2. Alive(p)' \/ \A s \in Slot : online[s] => pid[s] # p
    <3>1. CASE pc[p] = "assign"
      BY <3>1, SizeAssumption DEF Phases, RegistryConsistent, LoggedIn
    <3>2. CASE text[p].kind = "left" BY <3>2 DEF RegistryConsistent, LoggedIn
    <3>3. CASE pc' = [pc EXCEPT ![p] = "idle"] BY <3>3 DEF Alive, Active
    <3> QED BY <2>1, <3>1, <3>2, <3>3
  <2>3. pc'[p] \notin {"send", "kill"} BY <2>1
  <2> QED BY <2>1, <2>2, <2>3, AddressedWork
<1> QED BY <1>1, <1>2, <1>3, AddressedAssign, AddressedCleanup, AddressedBuiltIn, AddressedSend
        DEF Main

LEMMA ServedStep ==
    ASSUME Polite, RegistryInv, ServedInv, [Next]_vars
    PROVE  ServedInv'
<1>1. CASE UNCHANGED vars
  BY <1>1 DEF vars, ServedInv, NobodyGone, OneAtWork, Addressed, NoGhostUser, Busy, Alive
<1>2. ASSUME NEW p \in Proc, Main(p) PROVE ServedInv'
  BY <1>2, AtWorkMain, AddressedMain DEF ServedInv
<1>3. ASSUME NEW p \in Proc, Environment(p) \/ Handler(p) \/ Dies(p) PROVE ServedInv'
  BY <1>3, AtWorkElsewhere, AddressedElsewhere DEF ServedInv
<1> QED BY <1>1, <1>2, <1>3 DEF Next

-----------------------------------------------------------------------------
(***************************************************************************)
(* Who holds the lock.  Main is between lockShared and unlockShared only   *)
(* where it has a section to run (AtLock), and a signal that kills finds   *)
(* its process between assignUser and signal(), as nobody knows a process  *)
(* that has not been entered into the registry (Unknown).                  *)
(***************************************************************************)

AtLock == \A p \in Proc : inCS[p] /\ Alive(p) => LockSite(p)

Unknown ==
    \A p \in Proc : pc[p] \in {"new", "assign"} =>
        /\ ~sig[p]
        /\ \A s \in Slot : pid[s] # p
        /\ \A q \in Proc : killPid[q] # p

DeadHoldNothing == \A p \in Proc : ~Alive(p) => ~inCS[p] /\ handler[p] # "flush"

LockInv == AtLock /\ Unknown

LEMMA OthersKeepLock ==
    ASSUME Typed, NEW p \in Proc,
           Environment(p) \/ Main(p) \/ Handler(p) \/ Dies(p)
    PROVE  \A q \in Proc \ {p} : inCS'[q] = inCS[q] /\ handler'[q] = handler[q]
<1> USE DEF Typed, TypeOK
<1>1. CASE Environment(p) \/ Handler(p) \/ Dies(p)
  BY <1>1 DEF Environment, Fork, ReadCommand, ReadExit, Disconnect, Handler, Deliver, HandlerAcquire,
              Flush, FlushBroken, Dies, BrokenPipe, NotANumber
<1>2. CASE BuiltIn(p)
  BY <1>2 DEF BuiltIn, Who, Rename, RenameRefused, Tell, Yell, Release
<1>3. CASE Main(p) /\ ~BuiltIn(p)
  BY <1>3 DEF Main, Acquire, AssignUser, ServerFull, InstallHandler, Collect, SendSelf, Post, Kill,
              EndSend, Cleanup, Release
<1> QED BY <1>1, <1>2, <1>3

LEMMA UnknownStep ==
    ASSUME Typed, Unknown, [Next]_vars
    PROVE  Unknown'
<1> USE DEF Typed, TypeOK
<1>1. CASE UNCHANGED vars BY <1>1 DEF vars, Unknown
<1>2. ASSUME NEW p \in Proc, Environment(p) \/ Handler(p) \/ Dies(p) PROVE Unknown'
  <2>1. UNCHANGED <<pid, killPid>> /\ \A q \in Proc : sig'[q] => sig[q]
    BY <1>2 DEF Environment, Fork, ReadCommand, ReadExit, Disconnect, Handler, Deliver, HandlerAcquire,
                Flush, FlushBroken, Dies, BrokenPipe, NotANumber, shared, registry, local
  <2>2. \A q \in Proc : pc'[q] \in {"new", "assign"} => pc[q] \in {"new", "assign"}
    BY <1>2 DEF Environment, Fork, ReadCommand, ReadExit, Disconnect, Handler, Deliver, HandlerAcquire,
                Flush, FlushBroken, Dies, BrokenPipe, NotANumber, Command
  <2> QED BY <2>1, <2>2 DEF Unknown
<1>3. ASSUME NEW p \in Proc, Main(p) PROVE Unknown'
  <2>1. \A q \in Proc : pc'[q] \in {"new", "assign"} => pc[q] \in {"new", "assign"}
    <3>1. pc[p] \in {"new", "assign"} \/ pc'[p] \notin {"new", "assign"}
      BY <1>3 DEF Main, Acquire, AssignUser, ServerFull, InstallHandler, Collect, SendSelf, Post, Kill,
                  EndSend, BuiltIn, Who, Rename, RenameRefused, Tell, Yell, Cleanup
    <3> QED BY <1>3, <3>1, OthersKeep
  <2>2. CASE \E s \in Slot : AssignUser(p, s)
    <3>1. /\ UNCHANGED <<sig, killPid>> /\ pc'[p] = "install"
          /\ \A r \in Slot : pid'[r] = pid[r] \/ pid'[r] = p
      BY <2>2 DEF AssignUser
    <3>2. \A q \in Proc : pc'[q] \in {"new", "assign"} => q # p /\ pc[q] \in {"new", "assign"}
      BY <2>1, <3>1
    <3> SUFFICES ASSUME NEW q \in Proc, pc'[q] \in {"new", "assign"}
                 PROVE  /\ ~sig'[q]
                        /\ \A r \in Slot : pid'[r] # q
                        /\ \A o \in Proc : killPid'[o] # q
      BY DEF Unknown
    <3> QED BY <3>1, <3>2 DEF Unknown
  <2>3. CASE Post(p)
    <3>1. /\ UNCHANGED <<sig, pid>>
          /\ \A o \in Proc : killPid'[o] = killPid[o] \/ \E s \in Slot : killPid'[o] = pid[s]
      BY <2>3 DEF Post, Target, registry
    <3> SUFFICES ASSUME NEW q \in Proc, pc'[q] \in {"new", "assign"}
                 PROVE  /\ ~sig'[q]
                        /\ \A r \in Slot : pid'[r] # q
                        /\ \A o \in Proc : killPid'[o] # q
      BY DEF Unknown
    <3>2. ~sig[q] /\ (\A r \in Slot : pid[r] # q) /\ \A o \in Proc : killPid[o] # q
      BY <2>1 DEF Unknown
    <3>3. ASSUME NEW o \in Proc PROVE killPid'[o] # q BY <3>1, <3>2
    <3> QED BY <3>1, <3>2, <3>3
  <2>4. CASE Kill(p)
    <3>1. /\ UNCHANGED pid /\ killPid' = [killPid EXCEPT ![p] = NoProc]
          /\ \A q \in Proc : sig'[q] => sig[q] \/ q = killPid[p]
      BY <2>4 DEF Kill, Signalled, shared
    <3> QED BY <2>1, <3>1, ProcAssumption DEF Unknown
  <2>5. CASE ~Post(p) /\ ~Kill(p) /\ ~\E s \in Slot : AssignUser(p, s)
    <3>1. UNCHANGED <<sig, pid, killPid>>
      BY <1>3, <2>5 DEF Main, Acquire, ServerFull, InstallHandler, Collect, SendSelf, EndSend, BuiltIn,
                        Who, Rename, RenameRefused, Tell, Yell, Cleanup, shared, registry, local
    <3> QED BY <2>1, <3>1 DEF Unknown
  <2> QED BY <2>2, <2>3, <2>4, <2>5
<1> QED BY <1>1, <1>2, <1>3 DEF Next

LEMMA AtLockStep ==
    ASSUME Typed, AtLock, [Next]_vars
    PROVE  AtLock'
<1> USE DEF Typed, TypeOK
<1>1. CASE UNCHANGED vars BY <1>1 DEF vars, AtLock, Alive, LockSite, IsNext
<1>2. ASSUME NEW p \in Proc, Environment(p) \/ Main(p) \/ Handler(p) \/ Dies(p),
             inCS'[p] /\ Alive(p)' => LockSite(p)'
      PROVE  AtLock'
  <2> SUFFICES ASSUME NEW q \in Proc \ {p}, inCS'[q], Alive(q)' PROVE LockSite(q)'
    BY <1>2 DEF AtLock
  <2>1. UNCHANGED <<pc[q], targets[q], myId[q], inCS[q]>> BY <1>2, OthersKeep, OthersKeepLock
  <2> QED BY <2>1 DEF AtLock, Alive, LockSite, IsNext
<1>3. ASSUME NEW p \in Proc, Environment(p) PROVE inCS'[p] /\ Alive(p)' => LockSite(p)'
  <2>1. CASE Fork(p) BY <2>1 DEF Fork, LockSite
  <2>2. CASE ReadCommand(p) \/ ReadExit(p)
    <3>1. pc[p] = "idle" /\ inCS' = inCS BY <2>2 DEF ReadCommand, ReadExit
    <3> QED BY <3>1 DEF AtLock, Alive, Active, LockSite, Command
  <2>3. CASE Disconnect(p)
    BY <2>3 DEF Disconnect, AtLock, Alive, LockSite, IsNext, local
  <2> QED BY <1>3, <2>1, <2>2, <2>3 DEF Environment
<1>4. ASSUME NEW p \in Proc, Handler(p) \/ Dies(p) PROVE inCS'[p] /\ Alive(p)' => LockSite(p)'
  <2>1. UNCHANGED <<inCS, targets, myId>> /\ (pc' = pc \/ \E l \in {"killed", "aborted"} : pc' = [pc EXCEPT ![p] = l])
    BY <1>4 DEF Handler, Deliver, HandlerAcquire, Flush, FlushBroken, Dies, BrokenPipe, NotANumber, local
  <2> QED BY <2>1 DEF AtLock, Alive, Active, LockSite, IsNext
<1>5. ASSUME NEW p \in Proc, Main(p) PROVE inCS'[p] /\ Alive(p)' => LockSite(p)'
  <2>1. CASE Acquire(p) BY <2>1 DEF Acquire, LockSite, IsNext, local
  <2>2. ASSUME Release(p) PROVE ~inCS'[p] BY <2>2 DEF Release
  <2>3. CASE BuiltIn(p)
    BY <2>2, <2>3 DEF BuiltIn, Who, Rename, RenameRefused, Tell, Yell
  <2>4. CASE (\E s \in Slot : AssignUser(p, s)) \/ ServerFull(p) \/ Collect(p) \/ Post(p) \/ Cleanup(p)
    BY <2>2, <2>4 DEF AssignUser, ServerFull, Collect, Post, Cleanup
  <2>5. CASE InstallHandler(p) \/ SendSelf(p) \/ Kill(p) \/ EndSend(p)
    <3>1. inCS' = inCS /\ Alive(p)
      BY <2>5 DEF InstallHandler, SendSelf, Kill, EndSend, Alive, Active
    <3>2. CASE InstallHandler(p) \/ Kill(p) \/ EndSend(p)
      BY <3>1, <3>2 DEF InstallHandler, Kill, EndSend, AtLock, LockSite, Command
    <3>3. CASE SendSelf(p)
      <4>1. PICK t \in targets[p] : IsNext(p, t) /\ t.id = myId[p] BY <3>3 DEF SendSelf
      <4>2. \A u \in targets[p] : IsNext(p, u) => u.id = t.id
        <5>1. \A u \in targets[p] : u.id \in Int BY DEF Target, Slot
        <5> QED BY <4>1, <5>1 DEF IsNext
      <4> QED BY <3>1, <3>3, <4>1, <4>2 DEF SendSelf, AtLock, LockSite, Command
    <3> QED BY <2>5, <3>2, <3>3
  <2> QED BY <1>5, <2>1, <2>3, <2>4, <2>5 DEF Main
<1> QED BY <1>1, <1>2, <1>3, <1>4, <1>5 DEF Next

LEMMA DeadStep ==
    ASSUME Typed, AtLock, Unknown, NobodyGone, DeadHoldNothing, [Next]_vars
    PROVE  DeadHoldNothing'
<1> USE DEF Typed, TypeOK
<1>1. CASE UNCHANGED vars BY <1>1 DEF vars, DeadHoldNothing, Alive
<1>2. ASSUME NEW p \in Proc, Environment(p) \/ Main(p) \/ Handler(p) \/ Dies(p),
             ~Alive(p)' => ~inCS'[p] /\ handler'[p] # "flush"
      PROVE  DeadHoldNothing'
  <2> SUFFICES ASSUME NEW q \in Proc \ {p}, ~Alive(q)' PROVE ~inCS'[q] /\ handler'[q] # "flush"
    BY <1>2 DEF DeadHoldNothing
  <2>1. UNCHANGED <<pc[q], inCS[q], handler[q]>> BY <1>2, OthersKeep, OthersKeepLock
  <2> QED BY <2>1 DEF DeadHoldNothing, Alive
<1>3. ASSUME NEW p \in Proc, Environment(p) PROVE ~Alive(p)' => ~inCS'[p] /\ handler'[p] # "flush"
  BY <1>3 DEF Environment, Fork, ReadCommand, ReadExit, Disconnect, DeadHoldNothing, Alive, Active, Command
<1>4. ASSUME NEW p \in Proc, Handler(p) \/ Dies(p)
      PROVE  ~Alive(p)' => ~inCS'[p] /\ handler'[p] # "flush"
  <2>1. ~FlushBroken(p) /\ ~BrokenPipe(p) BY DEF FlushBroken, BrokenPipe, NobodyGone
  <2>2. CASE Deliver(p)
    <3>1. inCS' = inCS /\ sig[p] /\ Alive(p) /\ handler[p] = "none" BY <2>2 DEF Deliver
    <3>2. CASE Installed(p) BY <2>2, <3>1, <3>2 DEF Deliver, Alive
    <3>3. CASE ~Installed(p)
      <4>1. pc[p] = "install" BY <3>1, <3>3 DEF Installed, Alive, Unknown
      <4>2. ~LockSite(p) BY <4>1 DEF LockSite, Command
      <4> QED BY <2>2, <3>1, <3>3, <4>2 DEF Deliver, AtLock
    <3> QED BY <3>2, <3>3
  <2>3. CASE HandlerAcquire(p) \/ Flush(p) BY <2>3 DEF HandlerAcquire, Flush, Alive
  <2>4. CASE NotANumber(p) BY <2>4 DEF NotANumber
  <2> QED BY <1>4, <2>1, <2>2, <2>3, <2>4 DEF Handler, Dies
<1>5. ASSUME NEW p \in Proc, Main(p) PROVE ~Alive(p)' => ~inCS'[p] /\ handler'[p] # "flush"
  <2> SUFFICES ASSUME ~Alive(p)' PROVE ~inCS'[p] /\ handler'[p] # "flush"
    OBVIOUS
  <2>1. Alive(p) /\ handler[p] = "none" /\ handler' = handler
    <3>1. Alive(p) BY <1>5, MainIsWork DEF Busy, Alive
    <3>2. handler[p] = "none"
      <4>1. BuiltIn(p) => handler[p] = "none"
        BY DEF BuiltIn, Who, Rename, RenameRefused, Tell, Yell, Release
      <4>2. ~BuiltIn(p) => handler[p] = "none"
        BY <1>5 DEF Main, Acquire, AssignUser, ServerFull, InstallHandler, Collect, SendSelf, Post, Kill,
                    EndSend, Cleanup, Release, Grounded, Installed
      <4> QED BY <4>1, <4>2
    <3> QED BY <1>5, <3>1, <3>2, MainControl
  <2>2. Release(p) \/ EndSend(p)
    BY <1>5, <2>1 DEF Main, Acquire, AssignUser, ServerFull, InstallHandler, Collect, SendSelf, Post, Kill,
                BuiltIn, Who, Rename, RenameRefused, Tell, Yell, Cleanup, Alive, Active, Command
  <2>3. CASE Release(p) BY <2>1, <2>3 DEF Release
  <2>4. CASE EndSend(p)
    <3>1. ~LockSite(p) /\ inCS' = inCS BY <2>4 DEF EndSend, LockSite, Command
    <3> QED BY <2>1, <3>1 DEF AtLock
  <2> QED BY <2>2, <2>3, <2>4
<1> QED BY <1>1, <1>2, <1>3, <1>4, <1>5 DEF Next

\* Processes that end, or that a signal kills before it is caught, never end inside a
\* critical section, whatever clients do at the same time: only a client that vanishes
\* can take the lock with it.
THEOREM LockGivenBack == Spec => []LockIsGivenBack
<1> DEFINE Inv == AtLock /\ Unknown /\ (NobodyGone => DeadHoldNothing)
<1>1. Init => Inv
  BY ProcAssumption DEF Init, AtLock, Unknown, DeadHoldNothing
<1>2. Typed /\ Inv /\ [Next]_vars => Inv'
  BY AtLockStep, UnknownStep, DeadStep, NobodyReturns, TypeStep
<1>3. Inv => LockIsGivenBack
  BY DEF LockIsGivenBack, DeadHoldNothing, Holders, Inside
<1> HIDE DEF Inv
<1> QED BY <1>1, <1>2, <1>3, TypedAlways, PTL DEF Spec

\* A user's process that is no longer there said nothing, lost its client, or was ended
\* by std::stoi; before it says anything it can be killed by the first signal.
Lost(q) == pc[q] = "aborted" \/ client[q] = "gone" \/ text[q].kind = "none"

GhostInv ==
    \A q \in Proc :
        /\ pc[q] \in {"new", "assign", "install"} => text[q].kind = "none"
        /\ LoggedIn(q) /\ pc[q] \in {"exited", "killed"} => Lost(q)

LEMMA GhostStep ==
    ASSUME RegistryInv, GhostInv, [Next]_vars
    PROVE  GhostInv'
<1> USE DEF RegistryInv, Typed, TypeOK
<1>1. CASE UNCHANGED vars BY <1>1 DEF vars, GhostInv, LoggedIn, Lost
<1>2. ASSUME NEW p \in Proc, Environment(p) \/ Main(p) \/ Handler(p) \/ Dies(p),
             pc'[p] \in {"assign", "install"} => text'[p].kind = "none",
             LoggedIn(p)' /\ pc'[p] \in {"exited", "killed"} => Lost(p)',
             pc'[p] # "new",
             \A q \in Proc \ {p} : client'[q] = client[q]
      PROVE  GhostInv'
  <2>1. \A q \in Proc \ {p} : pc'[q] = pc[q] /\ text'[q] = text[q] /\ myId'[q] = myId[q]
    BY <1>2, OthersKeep
  <2> QED BY <1>2, <2>1 DEF GhostInv, LoggedIn, Lost
<1>3. ASSUME NEW p \in Proc, Environment(p) PROVE GhostInv'
  <2>1. /\ UNCHANGED <<text, myId>> /\ \A q \in Proc \ {p} : client'[q] = client[q]
        /\ client'[p] \in {client[p], "gone"}
    BY <1>3 DEF Environment, Fork, ReadCommand, ReadExit, Disconnect, local
  <2>2. \/ pc[p] = "new" /\ pc'[p] = "assign"
        \/ pc[p] = "idle" /\ pc'[p] \in Command \union {"cleanup"}
        \/ pc' = pc /\ pc[p] \in Active
    BY <1>3 DEF Environment, Fork, ReadCommand, ReadExit, Disconnect, Alive
  <2> QED BY <1>2, <1>3, <2>1, <2>2 DEF GhostInv, Active, Command
<1>4. ASSUME NEW p \in Proc, Main(p) PROVE GhostInv'
  <2>1. client' = client BY <1>4, MainControl
  <2>2. PICK l \in Active \union {"exited"} : pc' = [pc EXCEPT ![p] = l] BY <1>4, MainControl
  <2>3. CASE \E s \in Slot : AssignUser(p, s)
    <3>1. pc[p] = "assign" /\ pc'[p] = "install" /\ text' = text BY <2>3 DEF AssignUser
    <3> QED BY <1>2, <1>4, <2>1, <3>1 DEF GhostInv
  <2>4. CASE ServerFull(p)
    <3>1. pc'[p] = "exited" /\ myId'[p] = NoSlot BY <2>4 DEF ServerFull, Phases, local, registry
    <3> QED BY <1>2, <1>4, <2>1, <3>1 DEF LoggedIn
  <2>5. CASE Cleanup(p)
    <3>1. pc'[p] = "collect" BY <2>5, IdleOwns DEF Cleanup
    <3> QED BY <1>2, <1>4, <2>1, <3>1
  <2>6. CASE EndSend(p)
    <3>1. pc'[p] \in {"idle", "exited"} /\ (pc'[p] = "exited" => text'[p].kind = "left")
      BY <2>6 DEF EndSend, local
    <3> QED BY <1>2, <1>4, <2>1, <3>1 DEF LoggedIn
  <2>7. CASE Acquire(p)
    <3>1. pc' = pc /\ text' = text /\ pc[p] \in Active
      BY <1>4, <2>7, MainIsWork DEF Acquire, local, Busy
    <3> QED BY <1>2, <1>4, <2>1, <3>1 DEF GhostInv, Active
  <2>8. CASE InstallHandler(p) \/ Collect(p) \/ SendSelf(p) \/ Post(p) \/ Kill(p) \/ BuiltIn(p)
    <3>1. pc'[p] \in {"collect", "send", "kill"}
      BY <2>8 DEF InstallHandler, Collect, SendSelf, Post, Kill, BuiltIn, Who, Rename, RenameRefused,
                  Tell, Yell
    <3> QED BY <1>2, <1>4, <2>1, <3>1
  <2> QED BY <1>4, <2>3, <2>4, <2>5, <2>6, <2>7, <2>8 DEF Main
<1>5. ASSUME NEW p \in Proc, Handler(p) \/ Dies(p) PROVE GhostInv'
  <2>1. UNCHANGED <<client, text, myId>>
    BY <1>5 DEF Handler, Deliver, HandlerAcquire, Flush, FlushBroken, Dies, BrokenPipe, NotANumber, local
  <2>2. \/ pc' = pc /\ pc[p] # "new"
        \/ pc'[p] = "aborted"
        \/ pc'[p] = "killed" /\ client[p] = "gone"
        \/ pc'[p] = "killed" /\ pc[p] \in {"assign", "install"}
    <3>1. CASE Deliver(p)
      BY <3>1 DEF Deliver, Installed, Alive, Active
    <3>2. CASE HandlerAcquire(p) \/ Flush(p)
      <4>1. pc' = pc /\ handler[p] # "none" BY <3>2 DEF HandlerAcquire, Flush
      <4> QED BY <4>1 DEF Grounded, Installed, Active
    <3>3. CASE FlushBroken(p) \/ BrokenPipe(p) BY <3>3 DEF FlushBroken, BrokenPipe
    <3>4. CASE NotANumber(p) BY <3>4 DEF NotANumber
    <3> QED BY <1>5, <3>1, <3>2, <3>3, <3>4 DEF Handler, Dies
  <2> QED BY <1>2, <1>5, <2>1, <2>2 DEF GhostInv, LoggedIn, Lost
<1> QED BY <1>1, <1>3, <1>4, <1>5 DEF Next

LEMMA GhostsKnown == Spec => []GhostsAreKnown
<1>1. Init => GhostInv BY DEF Init, GhostInv, LoggedIn
<1>2. RegistryInv /\ GhostInv => GhostsAreKnown
  <2> SUFFICES ASSUME RegistryInv, GhostInv, NEW s \in Slot, online[s], ~Alive(pid[s])
               PROVE  Lost(pid[s])
    BY DEF GhostsAreKnown, Lost
  <2>1. PICK q \in Proc : q = pid[s] /\ LoggedIn(q) BY DEF RegistryInv, RegistryConsistent
  <2>2. pc[q] \in {"exited", "killed", "aborted"}
    BY <2>1 DEF RegistryInv, Typed, TypeOK, Phases, LoggedIn, Alive
  <2> QED BY <2>1, <2>2 DEF GhostInv, Lost
<1> QED BY <1>1, <1>2, GhostStep, RegistryAlways, PTL DEF Spec

\* The lock and the registry together: whatever clients do, vanish included, one context
\* at a time changes the table, the table agrees with the processes on who has which
\* slot, only a client that has vanished can leave it locked, and whoever is listed
\* without being there was killed at its login, lost its client, or met std::stoi.
THEOREM RegistryIsSafe == Spec => []RegistrySafe
<1>1. MutualExclusion /\ RegistryConsistent /\ LockIsGivenBack /\ GhostsAreKnown => RegistrySafe
  BY DEF RegistrySafe
<1> QED BY <1>1, LockExcludes, RegistryAgrees, LockGivenBack, GhostsKnown, PTL

\* Among clients that wait for each other and close with exit, no slot belongs to a
\* process that has gone, unless a tell without a number ended it, and a slot that changes hands takes no text along: every
\* text that a client sees was meant for its process when the sender looked it up.
\* And a signal finds its process at the prompt, where no section is open.
THEOREM PoliteAreWellServed ==
    ASSUME Polite
    PROVE  Spec => []WellServed
<1>1. Init => ServedInv /\ AtLock BY ServedInit DEF Init, AtLock
<1>2. RegistryInv /\ (ServedInv /\ AtLock) /\ [Next]_vars => (ServedInv /\ AtLock)'
  BY ServedStep, AtLockStep DEF RegistryInv
<1>3. ServedInv /\ AtLock => NeverWaitsForItself
  BY DEF ServedInv, OneAtWork, AtLock, NeverWaitsForItself, Alive, Active, LockSite, Command
<1>4. TypeOK /\ (ServedInv /\ AtLock) => WellServed
  <2> SUFFICES ASSUME TypeOK, ServedInv, AtLock PROVE DeliveredToAddressee
    BY <1>3 DEF ServedInv, Addressed, WellServed
  <2>1. \A p \in Proc : \A i \in 1 .. Len(seen[p]) : seen[p][i] \in Range(seen[p])
    BY DEF TypeOK, Range
  <2> QED BY <2>1 DEF ServedInv, Addressed, DeliveredToAddressee
<1> QED BY <1>1, <1>2, <1>4, RegistryAlways, TypeCorrect, PTL DEF Spec

-----------------------------------------------------------------------------
(***************************************************************************)
(* Induction on the numbers, with a set where a predicate would have to be *)
(* instantiated.                                                           *)
(***************************************************************************)

LEMMA SetInduction ==
    ASSUME NEW S, 0 \in S, \A n \in Nat : n \in S => n + 1 \in S
    PROVE  Nat \subseteq S
<1> SUFFICES ASSUME NEW k \in Nat, k \notin S PROVE FALSE
  OBVIOUS
<1> DEFINE T == Nat \ S
<1>1. T \subseteq Nat /\ T # {} OBVIOUS
<1> HIDE DEF T
<1>2. PICK x \in T : \A y \in T : ~ (<<y, x>> \in OpToRel(<, Nat))
  BY <1>1, NatLessThanWellFounded, WFMin
<1>3. x # 0 /\ x \in Nat BY DEF T
<1>4. x - 1 \in T BY <1>3 DEF T
<1>5. <<x - 1, x>> \in Nat \X Nat BY <1>3
<1>6. <<x - 1, x>> \in OpToRel(<, Nat) BY <1>3, <1>5 DEF OpToRel
<1> QED BY <1>2, <1>4, <1>6

LEMMA UpTo ==
    ASSUME NEW n \in Nat, NEW S, 0 \in S, \A k \in 1 .. n : k - 1 \in S => k \in S
    PROVE  \A k \in 0 .. n : k \in S
<1> DEFINE T == S \union {k \in Nat : k > n}
<1>1. 0 \in T /\ \A k \in Nat : k \in T => k + 1 \in T
  <2> SUFFICES ASSUME NEW k \in Nat, k \in T PROVE k + 1 \in T
    OBVIOUS
  <2>1. CASE k + 1 > n BY <2>1
  <2>2. CASE k + 1 \in 1 .. n
    <3>1. PICK j \in 1 .. n : j = k + 1 BY <2>2
    <3>2. j - 1 \in S BY <3>1
    <3> QED BY <3>1, <3>2
  <2> QED BY <2>1, <2>2
<1> HIDE DEF T
<1>2. Nat \subseteq T BY <1>1, SetInduction
<1> QED BY <1>2 DEF T

-----------------------------------------------------------------------------
(***************************************************************************)
(* The broadcasts among some texts: what one more text adds to a history.  *)
(***************************************************************************)

Saying == Proc \X (0 .. MaxLines + 1)

\* What one more text adds to a history.
Said(history, m) == IF Broadcast(m.kind) THEN Append(history, <<m.from, m.n>>) ELSE history

\* The histories of the first k texts, k up to the length.
IsSaid(h, texts, k) ==
    h = [i \in 0 .. k |->
            IF i = 0 THEN <<>>
            ELSE IF Broadcast(texts[i].kind)
                 THEN Append(h[i - 1], <<texts[i].from, texts[i].n>>)
                 ELSE h[i - 1]]

LEMMA SaidExists == ASSUME NEW texts \in Seq(Message) PROVE \E h : IsSaid(h, texts, Len(texts))
<1> DEFINE S == {k \in 0 .. Len(texts) : \E h : IsSaid(h, texts, k)}
<1>1. Len(texts) \in Nat BY LenProperties
<1>2. 0 \in S
  <2>1. PICK h : h = [i \in 0 .. 0 |-> <<>>] OBVIOUS
  <2>2. IsSaid(h, texts, 0) BY <2>1 DEF IsSaid
  <2> QED BY <1>1, <2>2
<1>3. ASSUME NEW k \in 1 .. Len(texts), k - 1 \in S PROVE k \in S
  <2>1. PICK h : IsSaid(h, texts, k - 1) BY <1>3
  <2>2. PICK e : e = IF Broadcast(texts[k].kind)
                     THEN Append(h[k - 1], <<texts[k].from, texts[k].n>>)
                     ELSE h[k - 1]
    OBVIOUS
  <2>3. PICK g : g = [i \in 0 .. k |-> IF i = k THEN e ELSE h[i]]
    OBVIOUS
  <2>4. g[k] = e /\ \A i \in 0 .. k - 1 : g[i] = h[i] BY <1>1, <2>3
  <2>5. \A i \in 0 .. k :
           g[i] = IF i = 0 THEN <<>>
                  ELSE IF Broadcast(texts[i].kind)
                       THEN Append(g[i - 1], <<texts[i].from, texts[i].n>>)
                       ELSE g[i - 1]
    <3> SUFFICES ASSUME NEW i \in 0 .. k
                 PROVE  g[i] = IF i = 0 THEN <<>>
                               ELSE IF Broadcast(texts[i].kind)
                                    THEN Append(g[i - 1], <<texts[i].from, texts[i].n>>)
                                    ELSE g[i - 1]
      OBVIOUS
    <3>1. CASE i = k
      <4>1. i # 0 /\ k - 1 \in 0 .. k - 1 BY <1>1, <3>1
      <4>2. g[k - 1] = h[k - 1] BY <2>4, <4>1
      <4> QED BY <2>2, <2>4, <3>1, <4>1, <4>2
    <3>2. CASE i # k
      <4>1. i \in 0 .. k - 1 /\ (i # 0 => i - 1 \in 0 .. k - 1) BY <1>1, <3>2
      <4>2. h[i] = IF i = 0 THEN <<>>
                   ELSE IF Broadcast(texts[i].kind)
                        THEN Append(h[i - 1], <<texts[i].from, texts[i].n>>)
                        ELSE h[i - 1]
        BY <2>1, <4>1 DEF IsSaid
      <4> QED BY <2>4, <4>1, <4>2
    <3> QED BY <3>1, <3>2
  <2>6. IsSaid(g, texts, k) BY <2>3, <2>5 DEF IsSaid
  <2> QED BY <1>1, <1>3, <2>6
<1> HIDE DEF S
<1>4. \A k \in 1 .. Len(texts) : k - 1 \in S => k \in S BY <1>3
<1>5. \A k \in 0 .. Len(texts) : k \in S BY <1>1, <1>2, <1>4, UpTo, Zenon
<1>6. Len(texts) \in S BY <1>1, <1>5
<1> QED BY <1>6 DEF S

LEMMA BroadcastsAre ==
    ASSUME NEW texts \in Seq(Message)
    PROVE  \E h : IsSaid(h, texts, Len(texts)) /\ Broadcasts(texts) = h[Len(texts)]
<1>1. \E h : IsSaid(h, texts, Len(texts)) BY SaidExists
<1> QED BY <1>1 DEF Broadcasts, IsSaid

LEMMA MessageSays ==
    ASSUME NEW m \in Message
    PROVE  <<m.from, m.n>> \in Saying
BY DEF Message, Saying

LEMMA SaidSteps ==
    ASSUME NEW texts \in Seq(Message), NEW h, IsSaid(h, texts, Len(texts))
    PROVE  /\ h[0] = <<>>
           /\ \A i \in 0 .. Len(texts) : h[i] \in Seq(Saying)
           /\ \A i \in 1 .. Len(texts) : h[i] = Said(h[i - 1], texts[i])
<1> DEFINE S == {k \in 0 .. Len(texts) : h[k] \in Seq(Saying)}
<1>1. Len(texts) \in Nat BY LenProperties
<1>2. h[0] = <<>> BY <1>1 DEF IsSaid
<1>3. ASSUME NEW i \in 1 .. Len(texts)
      PROVE  h[i] = Said(h[i - 1], texts[i])
  <2>1. i \in 0 .. Len(texts) /\ i # 0 BY <1>1
  <2> QED BY <2>1 DEF IsSaid, Said
<1>4. 0 \in S
  <2>1. h[0] \in Seq(Saying) BY <1>2, EmptySeq
  <2>2. 0 \in 0 .. Len(texts) BY <1>1
  <2> QED BY <2>1, <2>2
<1>5. \A k \in 1 .. Len(texts) : k - 1 \in S => k \in S
  <2> SUFFICES ASSUME NEW k \in 1 .. Len(texts), h[k - 1] \in Seq(Saying) PROVE h[k] \in Seq(Saying)
    BY <1>1
  <2>1. texts[k] \in Message BY ElementOfSeq
  <2>2. PICK x \in Saying : x = <<texts[k].from, texts[k].n>> BY <2>1, MessageSays
  <2>3. Append(h[k - 1], x) \in Seq(Saying) BY AppendProperties
  <2> QED BY <1>3, <2>2, <2>3 DEF Said
<1> HIDE DEF S
<1>6. \A k \in 0 .. Len(texts) : k \in S BY <1>1, <1>4, <1>5, UpTo, Zenon
<1>7. \A i \in 0 .. Len(texts) : h[i] \in Seq(Saying) BY <1>6 DEF S
<1> QED BY <1>2, <1>3, <1>7

LEMMA BroadcastsType ==
    ASSUME NEW texts \in Seq(Message)
    PROVE  Broadcasts(texts) \in Seq(Saying)
<1>1. PICK h : IsSaid(h, texts, Len(texts)) /\ Broadcasts(texts) = h[Len(texts)] BY BroadcastsAre
<1>2. Len(texts) \in 0 .. Len(texts) BY LenProperties
<1> QED BY <1>1, <1>2, SaidSteps

LEMMA BroadcastsEmpty == Broadcasts(<<>>) = <<>>
<1>1. <<>> \in Seq(Message) /\ Len(<<>>) = 0 BY EmptySeq
<1>2. PICK h : IsSaid(h, <<>>, Len(<<>>)) /\ Broadcasts(<<>>) = h[Len(<<>>)] BY <1>1, BroadcastsAre
<1>3. h[0] = <<>> BY <1>1, <1>2, SaidSteps
<1> QED BY <1>1, <1>2, <1>3

LEMMA BroadcastsAppend ==
    ASSUME NEW texts \in Seq(Message), NEW m \in Message
    PROVE  Broadcasts(Append(texts, m)) = Said(Broadcasts(texts), m)
<1> DEFINE n == Len(texts)
           more == Append(texts, m)
<1>1. /\ more \in Seq(Message) /\ Len(more) = n + 1 /\ more[n + 1] = m /\ n \in Nat
      /\ \A i \in 1 .. n : more[i] = texts[i]
  BY AppendProperties, LenProperties
<1> HIDE DEF n, more
<1>2. PICK h : IsSaid(h, texts, n) /\ Broadcasts(texts) = h[n] BY BroadcastsAre DEF n
<1>3. PICK g : IsSaid(g, more, n + 1) /\ Broadcasts(more) = g[n + 1] BY <1>1, BroadcastsAre
<1>4. /\ h[0] = <<>>
      /\ \A i \in 1 .. n : h[i] = Said(h[i - 1], texts[i])
  BY <1>2, SaidSteps DEF n
<1>5. /\ g[0] = <<>>
      /\ \A i \in 1 .. n + 1 : g[i] = Said(g[i - 1], more[i])
  <2>1. IsSaid(g, more, Len(more)) BY <1>1, <1>3
  <2>2. /\ g[0] = <<>>
        /\ \A i \in 1 .. Len(more) : g[i] = Said(g[i - 1], more[i])
    BY <1>1, <2>1, SaidSteps, Zenon
  <2> QED BY <1>1, <2>2
<1> DEFINE S == {k \in 0 .. n : g[k] = h[k]}
<1>6. 0 \in S BY <1>1, <1>4, <1>5
<1>7. \A k \in 1 .. n : k - 1 \in S => k \in S
  <2> SUFFICES ASSUME NEW k \in 1 .. n, k - 1 \in S PROVE k \in S
    OBVIOUS
  <2>1. k \in 1 .. n + 1 /\ k \in 0 .. n BY <1>1
  <2>2. h[k] = Said(h[k - 1], texts[k]) BY <1>4
  <2>3. g[k] = Said(g[k - 1], texts[k]) BY <1>1, <1>5, <2>1
  <2>4. g[k - 1] = h[k - 1] OBVIOUS
  <2>5. g[k] = h[k] BY <2>2, <2>3, <2>4
  <2> QED BY <2>1, <2>5
<1> HIDE DEF S
<1>8. \A k \in 0 .. n : k \in S BY <1>1, <1>6, <1>7, UpTo, Zenon
<1>9. g[n] = h[n] BY <1>1, <1>8 DEF S
<1>10. g[n + 1] = Said(g[n], m)
  <2>1. PICK j \in 1 .. n + 1 : j = n + 1 /\ j - 1 = n BY <1>1
  <2>2. g[j] = Said(g[j - 1], more[j]) BY <1>5
  <2> QED BY <1>1, <2>1, <2>2
<1> QED BY <1>2, <1>3, <1>9, <1>10 DEF more

-----------------------------------------------------------------------------
(* Suffixes: Ends(a, b) says that b ends with a. *)

Ends(a, b) == Len(a) =< Len(b) /\ \A i \in 1 .. Len(a) : a[i] = b[Len(b) - Len(a) + i]

LEMMA EndsIsSuffix ==
    ASSUME NEW S, NEW a \in Seq(S), NEW b \in Seq(S), Ends(a, b)
    PROVE  IsSuffix(a, b)
<1> DEFINE ra == Reverse(a)
           rb == Reverse(b)
<1>1. Len(a) \in Nat /\ Len(b) \in Nat /\ Len(a) =< Len(b) BY LenProperties DEF Ends
<1>2. /\ \A i \in 1 .. Len(a) : a[i] \in S
      /\ \A i \in 1 .. Len(b) : b[i] \in S
  BY ElementOfSeq
<1>3. ra \in Seq(S) /\ Len(ra) = Len(a) /\ \A i \in 1 .. Len(a) : ra[i] = a[Len(a) - i + 1]
  BY <1>1, <1>2 DEF Reverse
<1>4. rb \in Seq(S) /\ Len(rb) = Len(b) /\ \A i \in 1 .. Len(b) : rb[i] = b[Len(b) - i + 1]
  BY <1>1, <1>2 DEF Reverse
<1> HIDE DEF ra, rb
<1>5. \A i \in 1 .. Len(a) : ra[i] = rb[i]
  <2> TAKE i \in 1 .. Len(a)
  <2>1. PICK j \in 1 .. Len(a) : j = Len(a) - i + 1
    <3>1. Len(a) - i + 1 \in 1 .. Len(a) BY <1>1
    <3> QED BY <3>1
  <2>2. i \in 1 .. Len(b) /\ Len(b) - Len(a) + j = Len(b) - i + 1 BY <1>1, <2>1
  <2>3. a[j] = b[Len(b) - Len(a) + j] BY DEF Ends
  <2> QED BY <1>3, <1>4, <2>1, <2>2, <2>3
<1>6. SubSeq(ra, 1, Len(a)) = [i \in 1 .. Len(a) |-> ra[i]]
  BY <1>1, <1>3
<1>7. SubSeq(rb, 1, Len(a)) = [i \in 1 .. Len(a) |-> rb[i]]
  BY <1>1, <1>4
<1>8. SubSeq(ra, 1, Len(ra)) = SubSeq(rb, 1, Len(ra)) BY <1>3, <1>5, <1>6, <1>7
<1> QED BY <1>1, <1>3, <1>4, <1>8 DEF IsSuffix, IsPrefix, ra, rb

LEMMA EndsAppend ==
    ASSUME NEW S, NEW a \in Seq(S), NEW b \in Seq(S), NEW x \in S, Ends(a, b)
    PROVE  Ends(Append(a, x), Append(b, x))
<1>1. Len(a) \in Nat /\ Len(b) \in Nat /\ Len(a) =< Len(b) BY LenProperties DEF Ends
<1>2. /\ Len(Append(a, x)) = Len(a) + 1 /\ Append(a, x)[Len(a) + 1] = x
      /\ \A i \in 1 .. Len(a) : Append(a, x)[i] = a[i]
  BY AppendProperties
<1>3. /\ Len(Append(b, x)) = Len(b) + 1 /\ Append(b, x)[Len(b) + 1] = x
      /\ \A i \in 1 .. Len(b) : Append(b, x)[i] = b[i]
  BY AppendProperties
<1> SUFFICES ASSUME NEW i \in 1 .. Len(a) + 1
             PROVE  Append(a, x)[i] = Append(b, x)[Len(b) - Len(a) + i]
  <2>1. Len(Append(b, x)) - Len(Append(a, x)) = Len(b) - Len(a) BY <1>1, <1>2, <1>3
  <2>2. Len(Append(a, x)) =< Len(Append(b, x)) BY <1>1, <1>2, <1>3
  <2>3. \A i \in 1 .. Len(Append(a, x)) : Append(a, x)[i] = Append(b, x)[Len(b) - Len(a) + i]
    BY <1>2
  <2> QED BY <2>1, <2>2, <2>3, Zenon DEF Ends
<1>4. CASE i = Len(a) + 1
  <2>1. Len(b) - Len(a) + i = Len(b) + 1 BY <1>1, <1>4
  <2> QED BY <1>2, <1>3, <1>4, <2>1
<1>5. CASE i \in 1 .. Len(a)
  <2>1. Len(b) - Len(a) + i \in 1 .. Len(b) BY <1>1, <1>5
  <2>2. a[i] = b[Len(b) - Len(a) + i] BY <1>5 DEF Ends
  <2> QED BY <1>2, <1>3, <1>5, <2>1, <2>2
<1> QED BY <1>1, <1>4, <1>5

LEMMA EndsEmpty ==
    ASSUME NEW S, NEW b \in Seq(S)
    PROVE  Ends(<<>>, b)
<1>1. Len(<<>>) = 0 BY EmptySeq
<1>2. Len(b) \in Nat BY LenProperties
<1> QED BY <1>1, <1>2 DEF Ends

LEMMA AppendFirst ==
    ASSUME NEW S, NEW a \in Seq(S), NEW x \in S
    PROVE  Append(a, x) # <<>> /\ Append(a, x)[1] = IF a = <<>> THEN x ELSE a[1]
<1>1. /\ Append(a, x)[Len(a) + 1] = x /\ \A i \in 1 .. Len(a) : Append(a, x)[i] = a[i]
      /\ Len(a) \in Nat
  BY AppendProperties, LenProperties
<1>2. Append(a, x) # <<>> BY AppendProperties, Zenon
<1>3. CASE a = <<>>
  <2>1. Len(a) = 0 BY <1>3, EmptySeq
  <2> QED BY <1>1, <1>2, <1>3, <2>1
<1>4. CASE a # <<>>
  <2>1. Len(a) # 0 BY <1>4, EmptySeq
  <2>2. 1 \in 1 .. Len(a) BY <1>1, <2>1
  <2> QED BY <1>1, <1>2, <1>4, <2>2
<1> QED BY <1>3, <1>4

-----------------------------------------------------------------------------
(***************************************************************************)
(* One history.  A broadcast reaches the clients one after the other, so   *)
(* that in between the histories differ: Whole(p) counts what p's client   *)
(* has seen, what waits in its mailbox, and the text that is on its way to *)
(* it.  A mailbox that is posted to is empty, so that no text is dropped.  *)
(***************************************************************************)

Sends(w) == pc[w] \in {"send", "kill"} /\ Broadcast(text[w].kind)

\* The texts on their way to p: one at most, as one process is at work.
Words(p) == {<<w, text[w].n>> : w \in {w \in Proc : Sends(w) /\ ToVisit(w, myId[p])}}

Heard(p) == Broadcasts(seen[p] \o messages[myId[p]])

Heed(history, words) ==
    IF words = {} THEN history ELSE Append(history, CHOOSE word \in words : TRUE)

Whole(p) == Heed(Heard(p), Words(p))

\* p has its slot, but has not announced itself.
Entering(p) == pc[p] = "install" \/ (pc[p] = "collect" /\ text[p].kind = "entered")

\* Histories begin with the own login, and of two the later one ends the other.
Opens(p) == IF Entering(p) THEN Whole(p) = <<>> ELSE Whole(p) # <<>> /\ Whole(p)[1] = <<p, 0>>
Agree(a, b) == Ends(a, b) \/ Ends(b, a)

\* p has its slot and is alive to see what comes.
There(p) == LoggedIn(p) /\ Alive(p)

AllShare ==
    /\ \A p \in Proc : There(p) => Opens(p)
    /\ \A p, q \in Proc : There(p) /\ There(q) => Agree(Whole(p), Whole(q))

\* Where the worker posts next is room, if somebody is there to read it.
Room ==
    \A w \in Proc : Busy(w) =>
        IF pc[w] \in {"send", "kill"}
        THEN \A t \in targets[w] : Alive(t.owner) => messages[t.id] = <<>>
        ELSE \A s \in Slot : online[s] /\ Alive(pid[s]) => messages[s] = <<>>

\* What is announced to everybody is a broadcast, and a login is the first text.
Announced ==
    \A p \in Proc : pc[p] = "collect" =>
        Broadcast(text[p].kind) /\ (text[p].kind = "entered" => text[p].n = 0)

HistoryInv == Room /\ Announced /\ AllShare

HistoryContext == Polite /\ RegistryInv /\ ServedInv /\ OrderInv /\ HistoryInv

LEMMA HeedNone == \A h : Heed(h, {}) = h
BY DEF Heed

LEMMA HeedOne == \A h, x : Heed(h, {x}) = Append(h, x)
<1> SUFFICES ASSUME NEW h, NEW x PROVE Heed(h, {x}) = Append(h, x)
  OBVIOUS
<1>1. (CHOOSE word \in {x} : TRUE) = x OBVIOUS
<1>2. {x} # {} OBVIOUS
<1> QED BY <1>1, <1>2, Zenon DEF Heed

LEMMA ThereOwns ==
    ASSUME RegistryInv, NEW p \in Proc, There(p)
    PROVE  myId[p] \in Slot /\ online[myId[p]] /\ pid[myId[p]] = p
BY DEF RegistryInv, Typed, TypeOK, RegistryConsistent, There, LoggedIn

LEMMA HeardType ==
    ASSUME RegistryInv, NEW p \in Proc, There(p)
    PROVE  /\ seen[p] \o messages[myId[p]] \in Seq(Message)
           /\ Heard(p) \in Seq(Saying)
<1>1. myId[p] \in Slot BY ThereOwns
<1>2. seen[p] \in Seq(Message) /\ messages[myId[p]] \in Seq(Message)
  BY <1>1 DEF RegistryInv, Typed, TypeOK
<1>3. seen[p] \o messages[myId[p]] \in Seq(Message) BY <1>2, ConcatProperties
<1> QED BY <1>3, BroadcastsType DEF Heard

\* While p works, whatever is on its way is p's text.
LEMMA WordsOfWorker ==
    ASSUME Typed, ServedInv, NEW p \in Proc, Main(p), NEW q \in Proc
    PROVE  /\ Words(q) = IF Sends(p) /\ ToVisit(p, myId[q]) THEN {<<p, text[p].n>>} ELSE {}
           /\ Words(q)' = IF Sends(p)' /\ ToVisit(p, myId[q])' THEN {<<p, text[p].n>>}' ELSE {}
<1>1. \A w \in Proc \ {p} : ~Sends(w) /\ ~Sends(w)'
  BY OnlyWorker DEF Sends, Busy, Active
<1> QED BY <1>1 DEF Words

LEMMA WordsNone ==
    ASSUME \A w \in Proc : pc[w] \notin {"send", "kill"}
    PROVE  \A q \in Proc : Words(q) = {}
BY DEF Words, Sends

LEMMA WordsNoneNext ==
    ASSUME \A w \in Proc : pc'[w] \notin {"send", "kill"}
    PROVE  \A q \in Proc : Words(q)' = {}
BY DEF Words, Sends

LEMMA ShareFrame ==
    ASSUME AllShare,
           \A p \in Proc : There(p)' =>
               There(p) /\ Whole(p)' = Whole(p) /\ (Entering(p)' <=> Entering(p))
    PROVE  AllShare'
<1>1. \A p \in Proc : There(p)' => Opens(p)' BY DEF AllShare, Opens
<1>2. \A p, q \in Proc : There(p)' /\ There(q)' => Agree(Whole(p)', Whole(q)')
  BY DEF AllShare
<1> QED BY <1>1, <1>2 DEF AllShare, Agree, Ends

LEMMA BoxesEmpty ==
    ASSUME RegistryInv, ServedInv, MailboxesWoken, Quiet
    PROVE  \A s \in Slot : online[s] /\ Alive(pid[s]) => messages[s] = <<>>
<1> SUFFICES ASSUME NEW s \in Slot, online[s], Alive(pid[s]), messages[s] # <<>> PROVE FALSE
  OBVIOUS
<1> USE DEF RegistryInv, Typed, TypeOK
<1>1. PICK o \in Proc : o = pid[s] /\ Alive(o) BY DEF Grounded
<1>2. Woken(o) BY <1>1 DEF MailboxesWoken
<1> QED BY <1>1, <1>2 DEF Woken, Quiet

LEMMA RoomElsewhere ==
    ASSUME HistoryContext, MailboxesWoken, NEW p \in Proc, Environment(p) \/ Handler(p) \/ Dies(p)
    PROVE  Room' /\ Announced'
<1> USE DEF HistoryContext, HistoryInv, RegistryInv, Typed, TypeOK, ServedInv
<1>1. ~BrokenPipe(p) /\ ~FlushBroken(p) /\ ~Disconnect(p)
  BY DEF BrokenPipe, FlushBroken, NobodyGone, Disconnect, Polite
<1>2. CASE Environment(p)
  <2>1. /\ Quiet /\ UNCHANGED <<messages, text, targets>>
        /\ \E l \in Command \union {"assign", "cleanup"} : pc' = [pc EXCEPT ![p] = l]
    BY <1>1, <1>2 DEF Environment, Fork, ReadCommand, ReadExit, EnvMayAct, Polite, shared, local
  <2>2. \A s \in Slot : online[s] /\ Alive(pid[s]) => messages[s] = <<>> BY <2>1, BoxesEmpty
  <2>3. \A q \in Proc : pc'[q] \notin {"collect", "send", "kill"}
    BY <2>1 DEF Quiet, Command
  <2>4. ASSUME NEW s \in Slot, online[s], Alive(pid[s])' PROVE messages'[s] = <<>>
    <3>1. pid[s] \in Proc /\ pc[pid[s]] # "new"
      BY <2>4, SizeAssumption DEF RegistryConsistent, LoggedIn, Phases
    <3>2. pc[p] \in {"new", "idle"} /\ pid' = pid
      BY <1>1, <1>2 DEF Environment, Fork, ReadCommand, ReadExit, shared
    <3>3. Alive(pid[s]) BY <2>1, <2>4, <3>1, <3>2 DEF Alive, Active
    <3> QED BY <2>1, <2>2, <2>4, <3>3
  <2>5. UNCHANGED <<online, pid>>
    BY <1>1, <1>2 DEF Environment, Fork, ReadCommand, ReadExit, shared
  <2>6. \A s \in Slot : online'[s] /\ Alive(pid[s])' => messages'[s] = <<>> BY <2>4, <2>5
  <2> QED BY <2>1, <2>3, <2>6 DEF Room, Announced
<1>3. CASE Handler(p)
  <2>1. Deliver(p) => Installed(p) BY DEF Deliver, OneAtWork, Installed, Active
  <2>2. UNCHANGED <<pc, text, targets>>
    BY <1>1, <1>3, <2>1 DEF Handler, Deliver, HandlerAcquire, Flush, local
  <2>3. \A s \in Slot : messages'[s] = messages[s] \/ messages'[s] = <<>>
    BY <1>1, <1>3 DEF Handler, Deliver, HandlerAcquire, Flush, Emptied, shared
  <2>4. \A w \in Proc : pc[w] \in {"send", "kill"} => \A t \in targets[w] : t.id \in Slot
    BY DEF Target
  <2>5. UNCHANGED <<online, pid>>
    BY <1>1, <1>3, <2>1 DEF Handler, Deliver, HandlerAcquire, Flush, registry, shared
  <2> QED BY <2>2, <2>3, <2>4, <2>5 DEF Room, Announced, Busy, Alive
<1>4. CASE NotANumber(p)
  <2>1. /\ UNCHANGED <<online, pid, messages, text, targets>> /\ pc[p] = "tell"
        /\ pc' = [pc EXCEPT ![p] = "aborted"]
    BY <1>4 DEF NotANumber, shared, local
  <2>2. \A q \in Proc : (Alive(q)' => Alive(q)) /\ (Busy(q)' => Busy(q) /\ pc'[q] = pc[q])
    BY <2>1 DEF Alive, Busy, Active
  <2>3. \A w \in Proc : Busy(w) /\ pc[w] \in {"send", "kill"} =>
          \A t \in targets[w] : t.owner \in Proc
    BY DEF Addressed, Target, Grounded
  <2>4. \A s \in Slot : online[s] => pid[s] \in Proc BY DEF Grounded
  <2>5. \A q \in Proc : pc'[q] = "collect" => pc[q] = "collect" BY <2>1
  <2> QED BY <2>1, <2>2, <2>3, <2>4, <2>5 DEF HistoryInv, Room, Announced
<1> QED BY <1>1, <1>2, <1>3, <1>4 DEF Dies

LEMMA RoomMain ==
    ASSUME HistoryContext, NEW p \in Proc, Main(p)
    PROVE  Room'
<1> USE DEF HistoryContext, HistoryInv, RegistryInv, Typed, TypeOK, ServedInv
<1>1. Busy(p) BY MainIsWork
<1>2. \A q \in Proc \ {p} : ~Busy(q)' BY OnlyWorker
<1>5. \A q \in Proc : Alive(q)' => Alive(q) BY <1>1, OnlyWorker DEF Busy, Alive
<1>6. \A s \in Slot : online[s] => pid[s] \in Proc BY DEF Grounded
<1>3. CASE pc[p] \notin {"send", "kill"}
  <2>1. \A s \in Slot : online[s] /\ Alive(pid[s]) => messages[s] = <<>> BY <1>1, <1>3 DEF Room
  <2>2. \A s \in Slot : \/ messages'[s] = <<>>
                        \/ messages'[s] = messages[s] /\ pid'[s] = pid[s] /\ (online'[s] => online[s])
    <3>1. CASE BuiltIn(p)
      BY <3>1 DEF BuiltIn, Who, Rename, RenameRefused, Tell, Yell, registry
    <3>2. CASE \E s \in Slot : AssignUser(p, s)
      <4>1. PICK s \in Slot : AssignUser(p, s) BY <3>2
      <4>2. /\ online' = [online EXCEPT ![s] = TRUE] /\ pid' = [pid EXCEPT ![s] = p]
            /\ messages' = [messages EXCEPT ![s] = <<>>]
        BY <4>1 DEF AssignUser, Emptied
      <4>3. messages'[s] = <<>> BY <4>2
      <4>4. \A r \in Slot \ {s} : /\ messages'[r] = messages[r] /\ pid'[r] = pid[r]
                                  /\ online'[r] = online[r]
        BY <4>2
      <4>5. ASSUME NEW r \in Slot
            PROVE  \/ messages'[r] = <<>>
                   \/ messages'[r] = messages[r] /\ pid'[r] = pid[r] /\ (online'[r] => online[r])
        <5>1. CASE r = s BY <4>3, <5>1
        <5>2. CASE r # s BY <4>4, <5>2
        <5> QED BY <5>1, <5>2
      <4> QED BY <4>5
    <3>3. CASE Cleanup(p)
      BY <3>3 DEF Cleanup, Emptied, Freed
    <3>4. CASE ~BuiltIn(p) /\ ~Cleanup(p) /\ ~\E s \in Slot : AssignUser(p, s)
      BY <1>3, <3>4 DEF Main, Acquire, ServerFull, InstallHandler, Collect, SendSelf, Post, Kill,
                        EndSend, registry, shared
    <3> QED BY <3>1, <3>2, <3>3, <3>4
  <2>3. \A s \in Slot : online'[s] /\ Alive(pid[s])' => messages'[s] = <<>>
    BY <1>5, <1>6, <2>1, <2>2 DEF Alive
  <2>4. /\ targets' \in [Proc -> SUBSET Target]
        /\ pc'[p] \in {"send", "kill"} => \A t \in targets'[p] : online'[t.id] /\ pid'[t.id] = t.owner
    BY TypeMain, AddressedMain DEF Addressed
  <2>5. pc'[p] \in {"send", "kill"} =>
          \A t \in targets'[p] : pc'[t.owner] \in Active => messages'[t.id] = <<>>
    <3> SUFFICES ASSUME pc'[p] \in {"send", "kill"}, NEW t \in targets'[p], pc'[t.owner] \in Active
                 PROVE  messages'[t.id] = <<>>
      OBVIOUS
    <3>1. t.id \in Slot /\ online'[t.id] /\ pid'[t.id] = t.owner BY <2>4 DEF Target
    <3> QED BY <2>3, <3>1 DEF Alive
  <2> QED BY <1>2, <2>3, <2>5 DEF Room, Alive
<1>4. CASE pc[p] \in {"send", "kill"}
  <2>1. \A t \in targets[p] : /\ t.id \in Slot /\ t.owner \in Proc
                              /\ pc'[t.owner] \in Active => messages[t.id] = <<>>
    <3>1. \A t \in targets[p] : t.id \in Slot /\ t.owner \in Proc BY <1>4, <1>6 DEF Addressed, Target
    <3> QED BY <1>1, <1>4, <1>5, <3>1 DEF Room, Alive
  <2>2. CASE EndSend(p)
    BY <1>2, <2>2 DEF EndSend, Room, Busy, Active
  <2>3. CASE Post(p)
    <3>1. PICK t \in targets[p] :
            /\ targets' = [targets EXCEPT ![p] = @ \ {t}]
            /\ \/ messages' = [messages EXCEPT ![t.id] = Enqueue(@, MessageTo(p, t))]
               \/ messages' = messages
      BY <2>3 DEF Post
    <3>2. \A u \in targets'[p] : u \in targets[p] /\ u.id # t.id
      BY <1>4, <3>1 DEF OrderInv, Numbered
    <3>3. ASSUME NEW u \in targets'[p], pc'[u.owner] \in Active PROVE messages'[u.id] = <<>>
      <4>1. u \in targets[p] /\ u.id # t.id BY <3>2, <3>3
      <4>2. u.id \in Slot /\ messages[u.id] = <<>> BY <2>1, <3>3, <4>1
      <4> QED BY <3>1, <4>1, <4>2
    <3>4. pc'[p] \in {"send", "kill"} BY <2>3 DEF Post
    <3> QED BY <1>2, <3>3, <3>4 DEF Room, Alive
  <2>4. CASE Kill(p) \/ SendSelf(p) \/ Acquire(p)
    <3>1. /\ messages' = messages /\ pc'[p] \in {"send", "kill"}
          /\ targets'[p] \subseteq targets[p]
      BY <1>4, <2>4 DEF Kill, SendSelf, Acquire, shared, local
    <3>2. ASSUME NEW u \in targets'[p], pc'[u.owner] \in Active PROVE messages'[u.id] = <<>>
      <4>1. u \in targets[p] BY <3>1, <3>2
      <4>2. messages[u.id] = <<>> BY <2>1, <3>2, <4>1
      <4> QED BY <3>1, <4>2
    <3> QED BY <1>2, <3>1, <3>2 DEF Room, Alive
  <2>5. EndSend(p) \/ Post(p) \/ Kill(p) \/ SendSelf(p) \/ Acquire(p)
    BY <1>4 DEF Main, AssignUser, ServerFull, InstallHandler, Collect, Cleanup, BuiltIn, Who, Rename,
                RenameRefused, Tell, Yell
  <2> QED BY <2>2, <2>3, <2>4, <2>5
<1> QED BY <1>3, <1>4

LEMMA AnnouncedMain ==
    ASSUME HistoryContext, NEW p \in Proc, Main(p)
    PROVE  Announced'
<1> USE DEF HistoryContext, HistoryInv, RegistryInv, Typed, TypeOK, ServedInv
<1>1. \A q \in Proc \ {p} : pc'[q] = pc[q] /\ text'[q] = text[q] BY OthersKeep
<1> SUFFICES ASSUME pc'[p] = "collect"
             PROVE  Broadcast(text'[p].kind) /\ (text'[p].kind = "entered" => text'[p].n = 0)
  BY <1>1 DEF Announced
<1>0. /\ lines[p] \in 0 .. MaxLines + 1 /\ 0 \in 0 .. MaxLines + 1 /\ MaxLines + 1 \in 0 .. MaxLines + 1
      /\ {"entered", "named", "yelled", "left"} \subseteq Kind
  BY SizeAssumption DEF Kind
<1>2. \/ Acquire(p)
      \/ InstallHandler(p)
      \/ \E k \in {"named", "yelled"} : Say(p, k, lines[p])
      \/ Say(p, "left", MaxLines + 1)
  BY DEF Main, AssignUser, ServerFull, Collect, SendSelf, Post, Kill, EndSend, Cleanup, BuiltIn, Who,
         Rename, RenameRefused, Tell, Yell
<1>3. CASE Acquire(p) BY <1>3 DEF Acquire, Announced, local
<1>4. CASE InstallHandler(p)
  <2>1. text'[p].kind = "entered" /\ text'[p].n = 0 BY <1>0, <1>4, SayIs DEF InstallHandler
  <2> QED BY <2>1 DEF Broadcast
<1>5. CASE \E k \in {"named", "yelled"} : Say(p, k, lines[p])
  <2>1. text'[p].kind \in {"named", "yelled"} BY <1>0, <1>5, SayIs
  <2> QED BY <2>1 DEF Broadcast
<1>6. CASE Say(p, "left", MaxLines + 1)
  <2>1. text'[p].kind = "left" BY <1>0, <1>6, SayIs
  <2> QED BY <2>1 DEF Broadcast
<1> QED BY <1>2, <1>3, <1>4, <1>5, <1>6

LEMMA ShareElsewhere ==
    ASSUME HistoryContext, NEW p \in Proc, Environment(p) \/ Handler(p) \/ Dies(p)
    PROVE  AllShare'
<1> USE DEF HistoryContext, RegistryInv, Typed, TypeOK, ServedInv
<1>0. AllShare BY DEF HistoryInv
<1>1. ~BrokenPipe(p) /\ ~FlushBroken(p) /\ ~Disconnect(p)
  BY DEF BrokenPipe, FlushBroken, NobodyGone, Disconnect, Polite
<1>2. CASE Environment(p)
  <2>1. /\ Quiet /\ UNCHANGED <<messages, seen, text, myId>>
        /\ \E l \in Command \union {"assign", "cleanup"} : pc' = [pc EXCEPT ![p] = l]
        /\ pc[p] \in {"new", "idle"}
    BY <1>1, <1>2 DEF Environment, Fork, ReadCommand, ReadExit, EnvMayAct, Polite, shared, local
  <2>2. \A q \in Proc : Words(q) = {}
    <3>1. \A q \in Proc : pc[q] \notin {"send", "kill"} BY <2>1 DEF Quiet
    <3> QED BY <3>1, WordsNone
  <2>3. \A q \in Proc : Words(q)' = {}
    <3>1. \A q \in Proc : pc'[q] \notin {"send", "kill"} BY <2>1 DEF Quiet, Command
    <3> QED BY <3>1, WordsNoneNext
  <2>4. \A q \in Proc : Heard(q)' = Heard(q) BY <2>1 DEF Heard
  <2>5. \A q \in Proc : Whole(q)' = Whole(q) BY <2>2, <2>3, <2>4 DEF Whole
  <2>6. \A q \in Proc : Entering(q)' <=> Entering(q) BY <2>1 DEF Entering, Command
  <2>7. \A q \in Proc : There(q)' => There(q)
    BY <2>1, SizeAssumption DEF There, LoggedIn, Alive, Active, Phases
  <2> QED BY <1>0, <2>5, <2>6, <2>7, ShareFrame
<1>3. CASE Handler(p)
  <2>1. Deliver(p) => Installed(p) BY DEF Deliver, OneAtWork, Installed, Active
  <2>2. UNCHANGED <<pc, text, targets, myId>>
    BY <1>1, <1>3, <2>1 DEF Handler, Deliver, HandlerAcquire, Flush, local
  <2>3. \A q \in Proc : There(q)' <=> There(q) BY <2>2 DEF There, LoggedIn, Alive
  <2>4. \A q \in Proc : Words(q)' = Words(q) BY <2>2 DEF Words, Sends, ToVisit
  <2>5. \A q \in Proc : Entering(q)' <=> Entering(q) BY <2>2 DEF Entering
  <2>6. ASSUME NEW q \in Proc, There(q) PROVE Heard(q)' = Heard(q)
    <3>1. CASE Deliver(p) \/ HandlerAcquire(p)
      BY <3>1, <2>2 DEF Deliver, HandlerAcquire, shared, Heard
    <3>2. CASE Flush(p)
      <4>1. /\ seen' = [seen EXCEPT ![p] = @ \o messages[myId[p]]]
            /\ messages' = [messages EXCEPT ![myId[p]] = <<>>]
        BY <3>2 DEF Flush, Emptied
      <4>2. myId[q] \in Slot /\ pid[myId[q]] = q BY <2>6, ThereOwns
      <4>3. myId[p] \in Slot /\ pid[myId[p]] = p
        <5>1. pc[p] = "idle" BY <3>2 DEF Flush, OneAtWork
        <5> QED BY <5>1, IdleOwns
      <4>4. CASE q = p
        <5>1. seen[p] \o messages[myId[p]] \in Seq(Message) BY <4>3, ConcatProperties
        <5>2. seen'[p] \o messages'[myId[p]] = seen[p] \o messages[myId[p]]
          BY <4>1, <4>3, <5>1, ConcatEmptySeq
        <5> QED BY <2>2, <4>4, <5>2 DEF Heard
      <4>5. CASE q # p
        <5>1. seen'[q] = seen[q] /\ messages'[myId[q]] = messages[myId[q]]
          BY <4>1, <4>2, <4>3, <4>5
        <5> QED BY <2>2, <5>1 DEF Heard
      <4> QED BY <4>4, <4>5
    <3> QED BY <1>1, <1>3, <3>1, <3>2 DEF Handler
  <2>7. \A q \in Proc : There(q) => Whole(q)' = Whole(q) BY <2>4, <2>6 DEF Whole
  <2> QED BY <1>0, <2>3, <2>5, <2>7, ShareFrame
<1>4. CASE NotANumber(p)
  <2>1. /\ UNCHANGED <<messages, seen, text, myId, targets>> /\ pc[p] = "tell"
        /\ pc' = [pc EXCEPT ![p] = "aborted"]
    BY <1>4 DEF NotANumber, shared, local
  <2>2. \A q \in Proc : There(q)' => There(q) BY <2>1 DEF There, LoggedIn, Alive, Active
  <2>3. \A q \in Proc : (Sends(q)' <=> Sends(q)) /\ (Entering(q)' <=> Entering(q))
    BY <2>1 DEF Sends, Entering
  <2>4. \A q \in Proc : Words(q)' = Words(q) BY <2>1, <2>3 DEF Words, ToVisit
  <2>5. \A q \in Proc : Whole(q)' = Whole(q) BY <2>1, <2>4 DEF Whole, Heard
  <2> QED BY <1>0, <2>2, <2>3, <2>5, ShareFrame
<1> QED BY <1>1, <1>2, <1>3, <1>4 DEF Dies

LEMMA ShareBuiltIn ==
    ASSUME HistoryContext, NEW p \in Proc, BuiltIn(p)
    PROVE  AllShare'
<1> USE DEF HistoryContext, RegistryInv, Typed, TypeOK, ServedInv
<1>0. AllShare /\ Main(p) BY DEF HistoryInv, Main
<1>1. UNCHANGED <<messages, seen, myId>> /\ pc[p] \in Command
  BY DEF BuiltIn, Who, Rename, RenameRefused, Tell, Yell, Command
<1>2. \/ pc' = [pc EXCEPT ![p] = "send"] /\ \E k \in {"reply", "told"} : Say(p, k, lines[p])
      \/ pc' = [pc EXCEPT ![p] = "collect"] /\ \E k \in {"named", "yelled"} : Say(p, k, lines[p])
  BY DEF BuiltIn, Who, Rename, RenameRefused, Tell, Yell
<1>3. /\ lines[p] \in 0 .. MaxLines + 1
      /\ {"reply", "told", "named", "yelled"} \subseteq Kind
  BY SizeAssumption DEF Kind
<1>4. \/ pc'[p] = "send" /\ text'[p].kind \in {"reply", "told"}
      \/ pc'[p] = "collect" /\ text'[p].kind \in {"named", "yelled"}
  BY <1>2, <1>3, SayIs
<1>5. \A q \in Proc \ {p} : pc'[q] = pc[q] /\ text'[q] = text[q] BY <1>0, OthersKeep
<1>6. ~Sends(p) /\ ~Sends(p)' BY <1>1, <1>4 DEF Sends, Command, Broadcast
<1>7. \A q \in Proc : Words(q) = {} /\ Words(q)' = {} BY <1>0, <1>6, WordsOfWorker
<1>8. \A q \in Proc : Heard(q)' = Heard(q) BY <1>1 DEF Heard
<1>9. \A q \in Proc : Whole(q)' = Whole(q) BY <1>7, <1>8 DEF Whole
<1>10. \A q \in Proc : Entering(q)' <=> Entering(q) BY <1>1, <1>4, <1>5 DEF Entering, Command
<1>11. \A q \in Proc : There(q)' => There(q)
  BY <1>1, <1>5 DEF There, LoggedIn, Phases, Alive, Active, Command
<1> QED BY <1>0, <1>9, <1>10, <1>11, ShareFrame

LEMMA ShareControl ==
    ASSUME HistoryContext, NEW p \in Proc,
           Acquire(p) \/ ServerFull(p) \/ InstallHandler(p) \/ Kill(p) \/ EndSend(p)
    PROVE  AllShare'
<1> USE DEF HistoryContext, RegistryInv, Typed, TypeOK, ServedInv
<1>0. AllShare /\ Main(p) BY DEF HistoryInv, Main
<1>1. UNCHANGED <<messages, seen, myId, targets>>
  BY DEF Acquire, ServerFull, InstallHandler, Kill, EndSend, shared, local
<1>2. \A q \in Proc \ {p} : pc'[q] = pc[q] /\ text'[q] = text[q] BY <1>0, OthersKeep
<1>3. \/ text' = text /\ pc' = pc
      \/ text' = text /\ pc[p] = "kill" /\ pc'[p] = "send"
      \/ text' = text /\ pc[p] = "assign" /\ pc'[p] = "exited"
      \/ text' = text /\ pc[p] = "send" /\ targets[p] = {} /\ pc'[p] \in {"idle", "exited"}
      \/ pc[p] = "install" /\ pc'[p] = "collect" /\ text'[p].kind = "entered"
  <2>1. CASE InstallHandler(p)
    <3>1. "entered" \in Kind /\ 0 \in 0 .. MaxLines + 1 BY SizeAssumption DEF Kind
    <3> QED BY <2>1, <3>1, SayIs DEF InstallHandler
  <2>2. CASE ~InstallHandler(p)
    BY <2>2 DEF Acquire, ServerFull, Kill, EndSend, local
  <2> QED BY <2>1, <2>2
<1>4. \A q \in Proc : Words(q)' = Words(q)
  <2> TAKE q \in Proc
  <2>1. CASE pc[p] \in {"send", "kill"} /\ pc'[p] \in {"send", "kill"}
    BY <1>0, <1>1, <1>3, <2>1, WordsOfWorker DEF Sends, ToVisit
  <2>2. CASE pc[p] \notin {"send", "kill"} /\ pc'[p] \notin {"send", "kill"}
    BY <1>0, <2>2, WordsOfWorker DEF Sends
  <2>3. CASE targets[p] = {} /\ pc'[p] \notin {"send", "kill"}
    BY <1>0, <2>3, WordsOfWorker DEF Sends, ToVisit
  <2> QED BY <1>3, <2>1, <2>2, <2>3
<1>5. \A q \in Proc : Heard(q)' = Heard(q) BY <1>1 DEF Heard
<1>6. \A q \in Proc : Whole(q)' = Whole(q) BY <1>4, <1>5 DEF Whole
<1>7. \A q \in Proc : Entering(q)' <=> Entering(q) BY <1>2, <1>3 DEF Entering
<1>8. \A q \in Proc : There(q)' => There(q)
  <2>1. Alive(p) BY <1>0, MainIsWork DEF Busy, Alive
  <2> QED BY <1>1, <1>2, <1>3, <2>1 DEF There, LoggedIn, Phases, Alive
<1> QED BY <1>0, <1>6, <1>7, <1>8, ShareFrame

LEMMA ShareCollect ==
    ASSUME HistoryContext, NEW p \in Proc, Collect(p)
    PROVE  AllShare'
<1> USE DEF HistoryContext, RegistryInv, Typed, TypeOK, ServedInv
<1>0. AllShare /\ Main(p) /\ Busy(p) BY MainIsWork DEF HistoryInv, Main
<1>1. /\ pc[p] = "collect" /\ pc' = [pc EXCEPT ![p] = "send"]
      /\ UNCHANGED <<messages, seen, myId, text>>
      /\ targets' = [targets EXCEPT ![p] = {[id |-> s, owner |-> pid[s]] : s \in OnlineSlots}]
  BY DEF Collect
<1>2. PICK x \in Saying : x = <<p, text[p].n>>
  <2>1. text[p].n \in 0 .. MaxLines + 1 BY DEF Text
  <2> QED BY <2>1 DEF Saying
<1>3. Broadcast(text[p].kind) /\ (text[p].kind = "entered" => x = <<p, 0>>)
  BY <1>1, <1>2 DEF HistoryInv, Announced
<1>4. ~Sends(p) /\ Sends(p)' BY <1>1, <1>3 DEF Sends
<1>5. ASSUME NEW q \in Proc, There(q)'
      PROVE  /\ There(q) /\ Heard(q) \in Seq(Saying)
             /\ Whole(q) = Heard(q) /\ Whole(q)' = Append(Heard(q), x)
             /\ ~Entering(q)' /\ (Entering(q) => q = p /\ text[p].kind = "entered")
  <2>1. There(q) BY <1>1, <1>5 DEF There, LoggedIn, Alive, Active
  <2>2. myId[q] \in Slot /\ online[myId[q]] BY <2>1, ThereOwns
  <2>3. ToVisit(p, myId[q])'
    <3>1. [id |-> myId[q], owner |-> pid[myId[q]]] \in targets'[p] BY <1>1, <2>2 DEF OnlineSlots
    <3>2. [id |-> myId[q], owner |-> pid[myId[q]]].id = myId'[q] BY <1>1
    <3> QED BY <3>1, <3>2 DEF ToVisit
  <2>4. Words(q) = {} /\ Words(q)' = {x} BY <1>0, <1>1, <1>2, <1>4, <2>3, WordsOfWorker
  <2>5. Heard(q)' = Heard(q) BY <1>1 DEF Heard
  <2>6. Whole(q) = Heard(q) BY <2>4, HeedNone DEF Whole
  <2>7. Whole(q)' = Append(Heard(q), x) BY <2>4, <2>5, HeedOne DEF Whole
  <2>8. Entering(q) => q = p BY <1>0 DEF Entering, OneAtWork, Busy, Active
  <2>9. ~Entering(q)' BY <1>0, <1>1, <2>8 DEF Entering
  <2> QED BY <1>1, <2>1, <2>6, <2>7, <2>8, <2>9, HeardType DEF Entering
<1>6. ASSUME NEW q \in Proc, There(q)' PROVE Opens(q)'
  <2>1. /\ There(q) /\ Heard(q) \in Seq(Saying)
        /\ Whole(q) = Heard(q) /\ Whole(q)' = Append(Heard(q), x)
        /\ ~Entering(q)' /\ (Entering(q) => q = p /\ text[p].kind = "entered")
    BY <1>5, <1>6
  <2>2. Opens(q) BY <1>0, <2>1 DEF AllShare
  <2>3. Append(Heard(q), x) # <<>> BY <2>1, AppendFirst
  <2>4. Append(Heard(q), x)[1] = <<q, 0>>
    <3>1. CASE Entering(q)
      <4>1. Heard(q) = <<>> /\ x = <<q, 0>> BY <1>3, <2>1, <2>2, <3>1 DEF Opens
      <4> QED BY <2>1, <4>1, AppendFirst
    <3>2. CASE ~Entering(q)
      <4>1. Heard(q) # <<>> /\ Heard(q)[1] = <<q, 0>> BY <2>1, <2>2, <3>2 DEF Opens
      <4> QED BY <2>1, <4>1, AppendFirst
    <3> QED BY <3>1, <3>2
  <2> QED BY <2>1, <2>3, <2>4 DEF Opens
<1>7. ASSUME NEW q \in Proc, NEW r \in Proc, There(q)', There(r)'
      PROVE  Agree(Whole(q)', Whole(r)')
  <2>1. /\ Heard(q) \in Seq(Saying) /\ Whole(q)' = Append(Heard(q), x)
        /\ Heard(r) \in Seq(Saying) /\ Whole(r)' = Append(Heard(r), x)
        /\ Agree(Heard(q), Heard(r))
    BY <1>0, <1>5, <1>7 DEF AllShare
  <2> QED BY <2>1, EndsAppend DEF Agree
<1> QED BY <1>6, <1>7 DEF AllShare, Agree, Ends

LEMMA ShareAssign ==
    ASSUME HistoryContext, NEW p \in Proc, NEW s \in Slot, AssignUser(p, s)
    PROVE  AllShare'
<1> USE DEF HistoryContext, RegistryInv, Typed, TypeOK, ServedInv
<1>0. AllShare /\ Main(p) BY DEF HistoryInv, Main
<1>1. /\ pc[p] = "assign" /\ pc' = [pc EXCEPT ![p] = "install"]
      /\ UNCHANGED <<seen, text, targets>> /\ ~online[s]
      /\ messages' = [messages EXCEPT ![s] = <<>>]
      /\ myId' = [myId EXCEPT ![p] = s]
      /\ seen[p] = <<>>
  BY DEF AssignUser, Emptied, SmallestFree, OrderInv, Numbered
<1>2. ~Sends(p) /\ ~Sends(p)' BY <1>1 DEF Sends
<1>3. \A q \in Proc : Words(q) = {} /\ Words(q)' = {} BY <1>0, <1>2, WordsOfWorker
<1>4. Whole(p)' = <<>> /\ Entering(p)'
  <2>1. seen'[p] \o messages'[myId'[p]] = <<>> BY <1>1
  <2> QED BY <1>1, <1>3, <2>1, BroadcastsEmpty, HeedNone DEF Whole, Heard, Entering
<1>5. ASSUME NEW q \in Proc, There(q)', q # p
      PROVE  /\ There(q) /\ Whole(q)' = Whole(q) /\ (Entering(q)' <=> Entering(q))
             /\ Whole(q) \in Seq(Saying)
  <2>1. There(q) BY <1>1, <1>5 DEF There, LoggedIn, Alive
  <2>2. myId[q] \in Slot /\ myId[q] # s BY <1>1, <2>1, ThereOwns
  <2>3. Heard(q)' = Heard(q) BY <1>1, <1>5, <2>2 DEF Heard
  <2>4. Whole(q)' = Whole(q) /\ Whole(q) = Heard(q) BY <1>3, <2>3, HeedNone DEF Whole
  <2> QED BY <1>1, <1>5, <2>1, <2>4, HeardType DEF Entering
<1>6. \A q \in Proc : There(q)' => Opens(q)' BY <1>0, <1>4, <1>5 DEF AllShare, Opens
<1>7. ASSUME NEW q \in Proc, NEW r \in Proc, There(q)', There(r)'
      PROVE  Agree(Whole(q)', Whole(r)')
  <2>1. \A o \in Proc : There(o)' => Ends(<<>>, Whole(o)')
    BY <1>4, <1>5, EndsEmpty, EmptySeq
  <2>2. CASE q = p \/ r = p BY <1>4, <1>7, <2>1, <2>2 DEF Agree
  <2>3. CASE q # p /\ r # p BY <1>0, <1>5, <1>7, <2>3 DEF AllShare
  <2> QED BY <2>2, <2>3
<1> QED BY <1>6, <1>7 DEF AllShare, Agree, Ends

LEMMA ShareCleanup ==
    ASSUME HistoryContext, NEW p \in Proc, Cleanup(p)
    PROVE  AllShare'
<1> USE DEF HistoryContext, RegistryInv, Typed, TypeOK, ServedInv
<1>0. AllShare /\ Main(p) BY DEF HistoryInv, Main
<1>1. myId[p] \in Slot /\ online[myId[p]] /\ pid[myId[p]] = p BY IdleOwns DEF Cleanup
<1>2. /\ pc[p] = "cleanup" /\ pc' = [pc EXCEPT ![p] = "collect"]
      /\ UNCHANGED <<seen, myId, targets>>
      /\ messages' = [messages EXCEPT ![myId[p]] = <<>>]
      /\ Say(p, "left", MaxLines + 1)
  BY <1>1 DEF Cleanup, Emptied
<1>3. text'[p].kind = "left" /\ \A q \in Proc \ {p} : text'[q] = text[q]
  <2>1. "left" \in Kind /\ MaxLines + 1 \in 0 .. MaxLines + 1 BY SizeAssumption DEF Kind
  <2> QED BY <1>2, <2>1, SayIs
<1>4. ~Sends(p) /\ ~Sends(p)' BY <1>2 DEF Sends
<1>5. \A q \in Proc : Words(q) = {} /\ Words(q)' = {} BY <1>0, <1>4, WordsOfWorker
<1>6. ASSUME NEW q \in Proc, There(q)'
      PROVE  There(q) /\ Whole(q)' = Whole(q) /\ (Entering(q)' <=> Entering(q))
  <2>1. q # p /\ There(q) BY <1>2, <1>3, <1>6 DEF There, LoggedIn, Alive
  <2>2. myId[q] \in Slot /\ myId[q] # myId[p] BY <1>1, <2>1, ThereOwns
  <2>3. Heard(q)' = Heard(q) BY <1>1, <1>2, <2>2 DEF Heard
  <2> QED BY <1>2, <1>3, <1>5, <2>1, <2>3 DEF Whole, Entering
<1> QED BY <1>0, <1>6, ShareFrame

\* The next client gets p's text.
LEMMA ShareSend ==
    ASSUME HistoryContext, MaxMessages >= 1, NEW p \in Proc, SendSelf(p) \/ Post(p)
    PROVE  AllShare'
<1> USE DEF HistoryContext, RegistryInv, Typed, TypeOK, ServedInv
<1>0. AllShare /\ Main(p) /\ Busy(p) BY MainIsWork DEF HistoryInv, Main
<1>1. /\ pc[p] = "send" /\ pc'[p] \in {"send", "kill"} /\ UNCHANGED <<myId, text>>
      /\ \A q \in Proc \ {p} : pc'[q] = pc[q]
  <2>1. pc[p] = "send" /\ pc'[p] \in {"send", "kill"} /\ UNCHANGED <<myId, text>>
    BY DEF SendSelf, Post
  <2> QED BY <1>0, <2>1, OthersKeep
<1>2. PICK t \in targets[p] :
        /\ targets' = [targets EXCEPT ![p] = @ \ {t}]
        /\ \/ /\ t.id = myId[p] /\ messages' = messages
              /\ seen' = [seen EXCEPT ![p] = Append(@, MessageTo(p, t))]
           \/ /\ t.id # myId[p] /\ seen' = seen
              /\ messages' = IF online[t.id]
                             THEN [messages EXCEPT ![t.id] = Enqueue(@, MessageTo(p, t))]
                             ELSE messages
  BY DEF SendSelf, Post, shared
<1>3. /\ t \in Target /\ t.id \in Slot /\ online[t.id] /\ pid[t.id] = t.owner /\ t.owner \in Proc
      /\ Alive(t.owner) => messages[t.id] = <<>>
  BY <1>0, <1>1 DEF Target, Addressed, HistoryInv, Room
<1>4. PICK m \in Message : m = MessageTo(p, t)
  BY <1>3, MessageToType
<1>5. m.kind = text[p].kind /\ <<m.from, m.n>> = <<p, text[p].n>> BY <1>4 DEF MessageTo
<1> DEFINE o == t.owner
<1>6. myId[o] = t.id /\ \A q \in Proc \ {o} : There(q) => myId[q] # t.id
  BY <1>3, ThereOwns DEF RegistryConsistent
<1>7. Alive(o) => seen[o] \in Seq(Message) /\ seen[o] \o messages[myId[o]] = seen[o]
  <2> SUFFICES ASSUME Alive(o) PROVE seen[o] \in Seq(Message) /\ seen[o] \o messages[myId[o]] = seen[o]
    OBVIOUS
  <2>1. seen[o] \in Seq(Message) /\ messages[myId[o]] = <<>> BY <1>3, <1>6
  <2> QED BY <2>1, ConcatEmptySeq
<1>8. Alive(o) => seen'[o] \o messages'[myId[o]] = Append(seen[o], m)
  <2> SUFFICES ASSUME Alive(o) PROVE seen'[o] \o messages'[myId[o]] = Append(seen[o], m)
    OBVIOUS
  <2>1. CASE t.id = myId[p] /\ messages' = messages
             /\ seen' = [seen EXCEPT ![p] = Append(@, MessageTo(p, t))]
    <3>1. o = p BY <1>0, <1>3, <2>1 DEF Addressed
    <3>2. Append(seen[o], m) \in Seq(Message) BY <1>7, AppendProperties
    <3>3. seen'[o] = Append(seen[o], m) /\ messages'[myId[o]] = <<>>
      BY <1>3, <1>4, <1>6, <2>1, <3>1
    <3> QED BY <3>2, <3>3, ConcatEmptySeq
  <2>2. CASE seen' = seen /\ messages' = [messages EXCEPT ![t.id] = Enqueue(@, MessageTo(p, t))]
    <3>1. Len(<<>>) = 0 BY EmptySeq
    <3>5. messages[t.id] = <<>> BY <1>3
    <3>2. messages'[t.id] = Append(<<>>, m)
      BY <1>3, <1>4, <2>2, <3>1, <3>5, SizeAssumption DEF Enqueue
    <3>3. Append(<<>>, m) = <<m>> OBVIOUS
    <3>4. seen[o] \o <<m>> = Append(seen[o], m) BY <1>7, AppendIsConcat
    <3> QED BY <1>6, <2>2, <3>2, <3>3, <3>4
  <2> QED BY <1>2, <1>3, <2>1, <2>2
<1>9. Alive(o) => Heard(o) = Broadcasts(seen[o]) /\ Heard(o)' = Said(Heard(o), m)
  <2> SUFFICES ASSUME Alive(o) PROVE Heard(o) = Broadcasts(seen[o]) /\ Heard(o)' = Said(Heard(o), m)
    OBVIOUS
  <2>1. Heard(o) = Broadcasts(seen[o]) BY <1>7 DEF Heard
  <2>2. Heard(o)' = Broadcasts(Append(seen[o], m)) BY <1>1, <1>8 DEF Heard
  <2> QED BY <1>7, <2>1, <2>2, BroadcastsAppend
<1>10. Sends(p)' <=> Sends(p) BY <1>1 DEF Sends
<1>11. ToVisit(p, t.id) /\ ~ToVisit(p, t.id)' /\ \A s \in Slot \ {t.id} : ToVisit(p, s)' <=> ToVisit(p, s)
  BY <1>2, <1>3 DEF ToVisit, OrderInv, Numbered
<1>12. Alive(o) => Whole(o)' = Whole(o)
  <2> SUFFICES ASSUME Alive(o) PROVE Whole(o)' = Whole(o)
    OBVIOUS
  <2>1. Words(o)' = {} BY <1>0, <1>1, <1>3, <1>6, <1>11, WordsOfWorker
  <2>2. CASE Sends(p)
    <3>1. Words(o) = {<<p, text[p].n>>} BY <1>0, <1>3, <1>6, <1>11, <2>2, WordsOfWorker
    <3>2. Whole(o) = Append(Heard(o), <<p, text[p].n>>) BY <3>1, HeedOne DEF Whole
    <3>3. Heard(o)' = Append(Heard(o), <<p, text[p].n>>) BY <1>5, <1>9, <2>2 DEF Said, Sends
    <3> QED BY <2>1, <3>2, <3>3, HeedNone DEF Whole
  <2>3. CASE ~Sends(p)
    <3>1. Words(o) = {} BY <1>0, <1>3, <2>3, WordsOfWorker
    <3>2. Heard(o)' = Heard(o) BY <1>1, <1>5, <1>9, <2>3 DEF Said, Sends
    <3> QED BY <2>1, <3>1, <3>2, HeedNone DEF Whole
  <2> QED BY <2>2, <2>3
<1>13. ASSUME NEW q \in Proc, There(q), q # o PROVE Whole(q)' = Whole(q)
  <2>1. myId[q] \in Slot \ {t.id} BY <1>6, <1>13, ThereOwns
  <2>2. Words(q)' = Words(q) BY <1>0, <1>1, <1>10, <1>11, <2>1, WordsOfWorker
  <2>3. seen'[q] = seen[q]
    <3>1. t.id = myId[p] => p = o BY <1>0, <1>3 DEF Addressed
    <3> QED BY <1>2, <1>13, <3>1
  <2>4. messages'[myId[q]] = messages[myId[q]] BY <1>2, <1>3, <2>1
  <2> QED BY <1>1, <2>2, <2>3, <2>4 DEF Whole, Heard
<1>14. \A q \in Proc : (There(q)' <=> There(q)) /\ (Entering(q)' <=> Entering(q))
  BY <1>1 DEF There, LoggedIn, Entering, Alive, Active
<1>15. \A q \in Proc : There(q) => Whole(q)' = Whole(q) BY <1>12, <1>13 DEF There
<1> QED BY <1>0, <1>14, <1>15, ShareFrame

LEMMA HistoryStep ==
    ASSUME HistoryContext, MailboxesWoken, MaxMessages >= 1, [Next]_vars
    PROVE  HistoryInv'
<1>1. ASSUME NEW p \in Proc, Main(p) PROVE HistoryInv'
  <2>1. AllShare'
    BY <1>1, ShareBuiltIn, ShareControl, ShareCollect, ShareAssign, ShareCleanup, ShareSend DEF Main
  <2> QED BY <1>1, <2>1, RoomMain, AnnouncedMain DEF HistoryInv
<1>2. ASSUME NEW p \in Proc, Environment(p) \/ Handler(p) \/ Dies(p) PROVE HistoryInv'
  BY <1>2, ShareElsewhere, RoomElsewhere DEF HistoryInv
<1>3. CASE UNCHANGED vars
  <2>1. UNCHANGED <<pc, text, targets, messages, seen, myId>> BY <1>3 DEF vars
  <2>2. Room' /\ Announced'
    BY <1>3, <2>1 DEF vars, HistoryContext, HistoryInv, Room, Busy, Alive, Announced
  <2>3. \A p \in Proc : Whole(p)' = Whole(p) BY <2>1 DEF Whole, Heard, Words, Sends, ToVisit
  <2>4. \A p \in Proc : (There(p)' <=> There(p)) /\ (Entering(p)' <=> Entering(p))
    BY <2>1 DEF There, LoggedIn, Entering, Alive
  <2>5. AllShare' BY <2>3, <2>4, ShareFrame DEF HistoryContext, HistoryInv
  <2> QED BY <2>2, <2>5 DEF HistoryInv
<1> QED BY <1>1, <1>2, <1>3 DEF Next

LEMMA HistoryInit == Init => HistoryInv
<1> SUFFICES ASSUME Init PROVE HistoryInv
  OBVIOUS
<1>1. Room BY DEF Init, Room, Busy, Active
<1>2. Announced BY DEF Init, Announced
<1>3. AllShare BY DEF Init, AllShare, There, LoggedIn
<1> QED BY <1>1, <1>2, <1>3 DEF HistoryInv

\* kMaxMessages leaves room for one text, and clients wait for each other: then what
\* the spreading of a broadcast over own writes, mailboxes and signals does to the
\* order is invisible, every user having seen one history since its own login.
THEOREM PoliteShareOneHistory ==
    ASSUME Polite, MaxMessages >= 1
    PROVE  Spec => []SameHistory
<1>1. Init => ServedInv /\ OrderInv /\ HistoryInv BY ServedInit, OrderInit, HistoryInit
<1>2. RegistryInv /\ NoLostWakeup /\ (ServedInv /\ OrderInv /\ HistoryInv) /\ [Next]_vars
        => (ServedInv /\ OrderInv /\ HistoryInv)'
  BY ServedStep, OrderStep, HistoryStep DEF HistoryContext, NoLostWakeup, ServedInv
<1>3. RegistryInv /\ NoLostWakeup /\ (ServedInv /\ OrderInv /\ HistoryInv) => SameHistory
  <2> SUFFICES ASSUME RegistryInv, NoLostWakeup, ServedInv, HistoryInv, Quiet,
                      NEW p \in Proc, NEW q \in Proc, pc[p] = "idle", pc[q] = "idle"
               PROVE  /\ History(p) # <<>> /\ History(p)[1] = <<p, 0>>
                      /\ IsSuffix(History(p), History(q)) \/ IsSuffix(History(q), History(p))
    BY DEF SameHistory
  <2>1. \A s \in Slot : online[s] /\ Alive(pid[s]) => messages[s] = <<>>
    BY BoxesEmpty DEF NoLostWakeup, ServedInv
  <2>2. \A o \in Proc : Words(o) = {}
    <3>1. \A w \in Proc : pc[w] \notin {"send", "kill"} BY DEF Quiet
    <3> QED BY <3>1, WordsNone
  <2>3. ASSUME NEW o \in Proc, pc[o] = "idle"
        PROVE  There(o) /\ ~Entering(o) /\ Whole(o) = History(o) /\ History(o) \in Seq(Saying)
    <3>1. There(o) /\ myId[o] \in Slot /\ online[myId[o]] /\ Alive(pid[myId[o]])
      BY <2>3, IdleOwns DEF There, Alive, Active
    <3>2. seen[o] \in Seq(Message) BY DEF RegistryInv, Typed, TypeOK
    <3>3. seen[o] \o messages[myId[o]] = seen[o] BY <2>1, <3>1, <3>2, ConcatEmptySeq
    <3>4. Heard(o) = History(o) BY <3>3 DEF Heard, History
    <3>5. Whole(o) = History(o) BY <2>2, <3>4, HeedNone DEF Whole
    <3> QED BY <2>3, <3>1, <3>4, <3>5, HeardType DEF Entering
  <2>4. History(p) # <<>> /\ History(p)[1] = <<p, 0>>
    BY <2>3 DEF HistoryInv, AllShare, Opens
  <2>5. Agree(History(p), History(q)) BY <2>3 DEF HistoryInv, AllShare
  <2>6. IsSuffix(History(p), History(q)) \/ IsSuffix(History(q), History(p))
    BY <2>3, <2>5, EndsIsSuffix DEF Agree
  <2> QED BY <2>4, <2>6
<1> QED BY <1>1, <1>2, <1>3, RegistryAlways, WakeupsNotLost, PTL DEF Spec

=============================================================================
