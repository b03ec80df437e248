------------------------- MODULE NpSingleProcProofs -------------------------
(***************************************************************************)
(* Theorems about NpSingleProc: its clients and user pipes implement the   *)
(* same abstract specifications as those of np_multi_proc.cpp, and what    *)
(* its tables keep for a user refers to that user's connection and pipes,  *)
(* for any number of connections, lines and descriptors and any commands.  *)
(***************************************************************************)
EXTENDS NpSingleProc, FiniteSetTheorems, WellFoundedInduction, TLAPS

-----------------------------------------------------------------------------
(***************************************************************************)
(* The registry.  What the descriptors refer to plays no part in it, but   *)
(* the control does: the client that is served is online, and so are those *)
(* whose turn is to come.                                                  *)
(***************************************************************************)

Serving == {"line", "resolveIn", "resolveOut", "command", "wait"}

RegistryType ==
    /\ client \in [Id -> Conn \union {Nobody}]
    /\ nick \in [Id -> Name]
    /\ conn \in [Conn -> {"out", "waiting", "in", "gone", "done"}]
    /\ userPipe = [x \in Id \X Id |-> userPipe[x]]
    /\ {"from", "to"} \subseteq DOMAIN line
    /\ line.from \in Id \union {NoUser} /\ line.to \in Id \union {NoUser}
    /\ ready \subseteq OnlineIds

\* The client that is served is online and has no second turn.
Turns == pc \in Serving => cur \in OnlineIds \ ready

\* A connection has one number, from its accept until its cleanup.
OneNumber ==
    /\ \A id \in OnlineIds : conn[client[id]] \in {"in", "gone"}
    /\ \A i, j \in OnlineIds : client[i] = client[j] => i = j
    /\ \A id \in Id : ~Online(id) => nick[id] = DefaultName

Registry == RegistryType /\ Turns /\ OneNumber /\ PipesBetweenUsers

LEMMA RegistryInit == Init => Registry
BY ConnAssumption, NameAssumption
DEF Init, Registry, RegistryType, Turns, OneNumber, PipesBetweenUsers, Serving, OnlineIds, Online,
    UserPipesIn, NoLine, NoUser

\* A step of the server that only works on the line under way.
LEMMA RegistryKept ==
    ASSUME Registry, UNCHANGED <<client, nick, conn, userPipe, cur>>,
           {"from", "to"} \subseteq DOMAIN line',
           line'.from \in Id \union {NoUser}, line'.to \in Id \union {NoUser},
           ready' = ready, pc' \in Serving => pc \in Serving
    PROVE  Registry'
BY DEF Registry, RegistryType, Turns, OneNumber, PipesBetweenUsers, OnlineIds, Online, UserPipesIn

LEMMA RegistryCleanup ==
    ASSUME Registry, pc \in Serving, CleanupClient(cur)
    PROVE  Registry'
<1> USE ConnAssumption, NameAssumption
    DEF Registry, RegistryType, Turns, OneNumber, OnlineIds, Online
<1>1. cur \in Id /\ client[cur] \in Conn /\ cur \notin ready
  BY DEF RegistryType
<1>2. /\ client' = [client EXCEPT ![cur] = Nobody]
      /\ nick' = [nick EXCEPT ![cur] = DefaultName]
      /\ conn' = [conn EXCEPT ![client[cur]] = "done"]
      /\ userPipe' = [x \in Id \X Id |-> IF x \in UserPipesOf(cur) THEN NoEnds ELSE userPipe[x]]
      /\ line' = NoLine /\ UNCHANGED <<ready, cur>> /\ pc' \in {"serve", "dead"}
  BY DEF CleanupClient, Goto
<1>3. RegistryType'
  BY <1>1, <1>2 DEF NoLine, NoUser
<1>4. Turns' BY <1>2 DEF Serving
<1>5. OneNumber' BY <1>1, <1>2
<1>6. PipesBetweenUsers'
  <2> SUFFICES ASSUME NEW x \in Id \X Id, userPipe'[x] # NoEnds
               PROVE  client'[x[1]] # Nobody /\ client'[x[2]] # Nobody
    BY DEF PipesBetweenUsers, UserPipesIn
  <2>1. userPipe[x] # NoEnds /\ x[1] # cur /\ x[2] # cur
    BY <1>2 DEF UserPipesOf
  <2>2. client[x[1]] # Nobody /\ client[x[2]] # Nobody
    BY <2>1 DEF PipesBetweenUsers, UserPipesIn
  <2> QED BY <1>1, <1>2, <2>1, <2>2
<1> QED BY <1>3, <1>4, <1>5, <1>6

LEMMA RegistryServer ==
    ASSUME Registry, Server
    PROVE  Registry'
<1> USE DEF registry, session, commands
<1>1. ASSUME NEW R \in SUBSET Id, Select(R) PROVE Registry'
  BY <1>1 DEF Select, Registry, RegistryType, Turns, OneNumber, PipesBetweenUsers, OnlineIds, Online,
              UserPipesIn, Serving
<1>2. ASSUME NEW c \in Conn, NEW id \in Id, Accept(c, id) PROVE Registry'
  <2> USE ConnAssumption, NameAssumption
  <2>1. /\ client' = [client EXCEPT ![id] = c] /\ client[id] = Nobody /\ conn[c] = "waiting"
        /\ nick' = [nick EXCEPT ![id] = DefaultName] /\ conn' = [conn EXCEPT ![c] = "in"]
        /\ UNCHANGED <<userPipe, ready, cur, line>> /\ pc' \in {"serve", "dead"}
    BY <1>2 DEF Accept, SmallestUnusedId, Online, Goto
  <2> QED
    BY <2>1 DEF Registry, RegistryType, Turns, OneNumber, PipesBetweenUsers, OnlineIds, Online,
                UserPipesIn, Serving
<1>3. ASSUME NEW c \in Conn, Refuse(c) PROVE Registry'
  BY <1>3 DEF Refuse, Registry, RegistryType, Turns, OneNumber, PipesBetweenUsers, OnlineIds, Online,
              UserPipesIn, Serving
<1>4. ASSUME NEW id \in Id, NextReady(id) PROVE Registry'
  BY <1>4 DEF NextReady, Registry, RegistryType, Turns, OneNumber, PipesBetweenUsers, OnlineIds, Online,
              UserPipesIn, Serving
<1>5. CASE NoneReady
  BY <1>5 DEF NoneReady, Registry, RegistryType, Turns, OneNumber, PipesBetweenUsers, OnlineIds, Online,
              UserPipesIn, Serving
<1>6. CASE EndOfInput
  BY <1>6, RegistryCleanup DEF EndOfInput, Serving
<1>7. CASE ExitLine
  BY <1>7, RegistryCleanup DEF ExitLine, TakesLine, Serving
<1>8. CASE Builtin
  BY <1>8, RegistryKept
  DEF Builtin, TakesLine, CountBuiltin, Prompt, Goto, Serving, Registry, RegistryType
<1>12. CASE NotANumber
  BY <1>12, RegistryKept DEF NotANumber, TakesLine, Serving, Registry, RegistryType
<1>9. ASSUME NEW n \in Name, Rename(n) PROVE Registry'
  <2>1. /\ nick' = [nick EXCEPT ![cur] = n] /\ cur \in OnlineIds \ ready
        /\ UNCHANGED <<client, conn, userPipe, ready, cur, line>> /\ pc \in Serving
    BY <1>9 DEF Rename, TakesLine, Serving, Registry, Turns
  <2> QED
    BY <2>1 DEF Registry, RegistryType, Turns, OneNumber, PipesBetweenUsers, OnlineIds, Online, UserPipesIn
<1>10. ASSUME NEW s \in Shape, NEW f \in Id \union {NoUser}, NEW t \in Id \union {NoUser}, Parse(s, f, t)
       PROVE  Registry'
  <2>1. line'.from = f /\ line'.to = t /\ {"from", "to"} \subseteq DOMAIN line'
    BY <1>10 DEF Parse, NoLine
  <2> QED BY <1>10, <2>1, RegistryKept DEF Parse, TakesLine, Serving
<1>11. CASE NotAsked
  BY <1>11, RegistryKept DEF NotAsked, Serving, Registry, RegistryType
<1>13. CASE ResolveInNull
  BY <1>13, RegistryKept DEF ResolveInNull, Registry, RegistryType, Goto, Serving
<1>14. CASE ResolveIn
  <2>1. cur \in Id /\ Online(cur) /\ pc \in Serving
    BY <1>14 DEF ResolveIn, Serving, Registry, Turns, OnlineIds
  <2>2. userPipe' = [userPipe EXCEPT ![<<line.from, cur>>] = NoEnds] BY <1>14 DEF ResolveIn, Taken
  <2>3. {"from", "to"} \subseteq DOMAIN line' /\ line'.from = line.from /\ line'.to = line.to
    BY <1>14 DEF ResolveIn, Registry, RegistryType
  <2>4. UNCHANGED <<client, nick, conn, ready, cur>> BY <1>14 DEF ResolveIn
  <2> QED
    BY <2>1, <2>2, <2>3, <2>4
    DEF Registry, RegistryType, Turns, OneNumber, PipesBetweenUsers, OnlineIds, Online, UserPipesIn
<1>15. CASE ResolveOutNull
  BY <1>15, RegistryKept DEF ResolveOutNull, Registry, RegistryType, Goto, Serving
<1>16. ASSUME NEW q \in Pipe, ResolveOut(q) PROVE Registry'
  <2>1. cur \in Id /\ Online(cur) /\ Online(line.to) /\ line.to \in Id /\ pc \in Serving
    BY <1>16 DEF ResolveOut, Serving, Registry, RegistryType, Turns, OnlineIds
  <2>2. userPipe' = [userPipe EXCEPT ![<<cur, line.to>>] = PipeFds(fd, q)] BY <1>16 DEF ResolveOut
  <2>3. {"from", "to"} \subseteq DOMAIN line' /\ line'.from = line.from /\ line'.to = line.to
    BY <1>16 DEF ResolveOut, Registry, RegistryType
  <2>4. UNCHANGED <<client, nick, conn, ready, cur>> BY <1>16 DEF ResolveOut
  <2>5. Turns' /\ OneNumber' BY <2>1, <2>4 DEF Registry, Turns, OneNumber, OnlineIds, Online
  <2>6. RegistryType' BY <2>2, <2>3, <2>4 DEF Registry, RegistryType, OnlineIds, Online
  <2>7. PipesBetweenUsers'
    <3> SUFFICES ASSUME NEW x \in Id \X Id, userPipe'[x] # NoEnds
                 PROVE  Online(x[1])' /\ Online(x[2])'
      BY DEF PipesBetweenUsers, UserPipesIn
    <3>1. CASE x = <<cur, line.to>> BY <3>1, <2>1, <2>4 DEF Online
    <3>2. CASE x # <<cur, line.to>>
      <4>1. userPipe[x] # NoEnds BY <3>2, <2>2 DEF Registry, RegistryType
      <4> QED BY <4>1, <2>4 DEF Registry, PipesBetweenUsers, UserPipesIn, Online
    <3> QED BY <3>1, <3>2
  <2> QED BY <2>5, <2>6, <2>7 DEF Registry
<1>17. ASSUME NEW i, NEW s, NEW k, NEW a, NEW t, NEW m, NEW out, NEW ordinary,
              pc = "command", Forked(i, s, k, a, t, m, out, ordinary),
              UNCHANGED <<conn, registry, userPipe, ready, cur>>
       PROVE  Registry'
  BY <1>17, RegistryKept DEF Forked, Registry, RegistryType, Serving
<1>18. ASSUME NEW k \in Kid, RunPlain(k) PROVE Registry'
  BY <1>17, <1>18 DEF RunPlain, Turn
<1>19. ASSUME NEW k \in Kid, RunNumbered(k) PROVE Registry'
  BY <1>17, <1>19 DEF RunNumbered, Turn
<1>20. ASSUME NEW k \in Kid, NEW q \in Pipe, RunPiped(k, q) PROVE Registry'
  BY <1>17, <1>20 DEF RunPiped, Turn
<1>21. ASSUME NEW k \in Kid, NEW q \in Pipe, RunNewNumbered(k, q) PROVE Registry'
  BY <1>17, <1>21 DEF RunNewNumbered, Turn
<1>22. CASE Reap
  <2>1. line' = NoLine BY <1>22 DEF Reap
  <2>2. {"from", "to"} \subseteq DOMAIN line' /\ line'.from = NoUser /\ line'.to = NoUser
    BY <2>1 DEF NoLine
  <2> QED BY <1>22, <2>2, RegistryKept DEF Reap, Prompt, Goto, Serving
<1> QED
  BY <1>1, <1>2, <1>3, <1>4, <1>5, <1>6, <1>7, <1>8, <1>9, <1>10, <1>11, <1>12, <1>13, <1>14, <1>15, <1>16,
     <1>18, <1>19, <1>20, <1>21, <1>22
  DEF Server

LEMMA RegistryStep ==
    ASSUME Registry, [Next]_vars
    PROVE  Registry'
<1> USE DEF registry, session, commands
<1>1. CASE UNCHANGED vars
  BY <1>1 DEF vars, Registry, RegistryType, Turns, OneNumber, PipesBetweenUsers, OnlineIds, Online, UserPipesIn
<1>2. ASSUME NEW c \in Conn, Connect(c) \/ Disconnect(c) PROVE Registry'
  BY <1>2 DEF Connect, Disconnect, Registry, RegistryType, Turns, OneNumber, PipesBetweenUsers, OnlineIds,
              Online, UserPipesIn
<1>3. ASSUME NEW k \in Kid, Command(k) PROVE Registry'
  BY <1>3, RegistryKept DEF Command, Registry, RegistryType
<1>4. CASE Server
  BY <1>4, RegistryServer
<1> QED BY <1>1, <1>2, <1>3, <1>4 DEF Next, Environment

LEMMA RegistryAlways == Spec => []Registry
BY RegistryInit, RegistryStep, PTL DEF Spec

\* A user pipe is always between two users who are online.
THEOREM UserPipesBetweenUsers == Spec => []PipesBetweenUsers
<1>1. Registry => PipesBetweenUsers BY DEF Registry
<1> QED BY <1>1, RegistryAlways, PTL
-----------------------------------------------------------------------------
(***************************************************************************)
(* Refinement.  A step of the server is a step of the directory and of the *)
(* user pipes, or leaves both alone.                                       *)
(***************************************************************************)

AbstractStep ==
    /\ [Directory!Next]_<<client, nick>>
    /\ [Pipes!Next]_<<OnlineIds, UserPipesIn>>

LEMMA AbstractStutter ==
    ASSUME UNCHANGED <<client, nick, userPipe>>
    PROVE  AbstractStep
BY DEF AbstractStep, OnlineIds, Online, UserPipesIn

LEMMA AcceptAbstract ==
    ASSUME Registry, NEW c \in Conn, NEW id \in Id, Accept(c, id)
    PROVE  AbstractStep
<1> USE ConnAssumption DEF Registry, RegistryType, OneNumber
<1>1. /\ client' = [client EXCEPT ![id] = c] /\ client[id] = Nobody /\ conn[c] = "waiting"
      /\ nick' = [nick EXCEPT ![id] = DefaultName] /\ UNCHANGED userPipe
      /\ \A i \in 1 .. id - 1 : client[i] # Nobody
  BY DEF Accept, SmallestUnusedId, Online
<1>2. nick' = nick BY <1>1 DEF Online
<1>3. \A t \in Id : client[t] # c BY <1>1 DEF OnlineIds, Online
<1>4. Directory!Login(c, id)
  BY <1>1, <1>2, <1>3 DEF Directory!Login, Directory!Free, Directory!Slot, Id
<1>5. Pipes!Join(id)
  BY <1>1 DEF Pipes!Join, OnlineIds, Online, UserPipesIn
<1> QED BY <1>4, <1>5 DEF AbstractStep, Directory!Next, Directory!Slot, Id, Pipes!Next

LEMMA CleanupAbstract ==
    ASSUME Registry, pc \in Serving, CleanupClient(cur)
    PROVE  AbstractStep
<1> USE ConnAssumption DEF Registry, RegistryType
<1>1. cur \in Id /\ client[cur] # Nobody BY DEF Turns, OnlineIds, Online
<1>2. /\ client' = [client EXCEPT ![cur] = Nobody]
      /\ nick' = [nick EXCEPT ![cur] = DefaultName]
      /\ userPipe' = [x \in Id \X Id |-> IF x \in UserPipesOf(cur) THEN NoEnds ELSE userPipe[x]]
  BY DEF CleanupClient
<1>3. Directory!Logout(cur)
  BY <1>1, <1>2 DEF Directory!Logout, Directory!Free
<1>4. Pipes!Leave(cur)
  <2>1. OnlineIds' = OnlineIds \ {cur} BY <1>1, <1>2 DEF OnlineIds, Online
  <2>2. UserPipesIn' = {p \in UserPipesIn : cur # p[1] /\ cur # p[2]}
    BY <1>2 DEF UserPipesIn, UserPipesOf
  <2> QED BY <1>1, <2>1, <2>2 DEF Pipes!Leave, OnlineIds, Online
<1> QED BY <1>1, <1>3, <1>4 DEF AbstractStep, Directory!Next, Directory!Slot, Id, Pipes!Next

LEMMA RenameAbstract ==
    ASSUME Registry, NEW n \in Name, Rename(n)
    PROVE  AbstractStep
<1>1. /\ nick' = [nick EXCEPT ![cur] = n] /\ UNCHANGED <<client, userPipe>>
      /\ n # DefaultName /\ ~NameTaken(n) /\ cur \in Id /\ client[cur] # Nobody
  BY DEF Rename, TakesLine, Registry, Turns, Serving, OnlineIds, Online
<1>2. Directory!Rename(cur, n)
  BY <1>1 DEF Directory!Rename, Directory!Free, Directory!Slot, NameTaken, Online, Id
<1> QED
  BY <1>1, <1>2 DEF AbstractStep, Directory!Next, Directory!Slot, Id, OnlineIds, Online, UserPipesIn

LEMMA ReceiveAbstract ==
    ASSUME Registry, ResolveIn
    PROVE  AbstractStep
<1> DEFINE x == <<line.from, cur>>
<1>1. x \in Id \X Id BY DEF ResolveIn, Registry, RegistryType, Turns, Serving, OnlineIds
<1>2. userPipe[x] # NoEnds /\ userPipe' = [userPipe EXCEPT ![x] = NoEnds]
  BY DEF ResolveIn, Taken
<1>3. UNCHANGED <<client, nick>> BY DEF ResolveIn, registry
<1>4. UserPipesIn' = UserPipesIn \ {x} /\ x \in UserPipesIn
  BY <1>1, <1>2 DEF UserPipesIn, Registry, RegistryType
<1>5. Pipes!Receive(line.from, cur) BY <1>3, <1>4 DEF Pipes!Receive, OnlineIds, Online
<1> QED BY <1>1, <1>3, <1>5 DEF AbstractStep, Pipes!Next

LEMMA SendAbstract ==
    ASSUME Registry, NEW q \in Pipe, ResolveOut(q)
    PROVE  AbstractStep
<1> DEFINE x == <<cur, line.to>>
           e == PipeFds(fd, q)
<1>1. x \in Id \X Id /\ cur \in OnlineIds /\ line.to \in OnlineIds
  BY DEF ResolveOut, Registry, RegistryType, Turns, Serving, OnlineIds, NoUser
<1>2. userPipe[x] = NoEnds /\ userPipe' = [userPipe EXCEPT ![x] = e]
  BY DEF ResolveOut
<1>3. UNCHANGED <<client, nick>> BY DEF ResolveOut, registry
<1> HIDE DEF e
<1>4. CASE e = NoEnds
  <2>1. userPipe' = userPipe BY <1>1, <1>2, <1>4 DEF Registry, RegistryType
  <2> QED BY <1>3, <2>1, AbstractStutter
<1>5. CASE e # NoEnds
  <2>1. x \notin UserPipesIn /\ UserPipesIn' = UserPipesIn \union {x}
    BY <1>1, <1>2, <1>5 DEF UserPipesIn, Registry, RegistryType
  <2>2. Pipes!Send(cur, line.to) BY <1>1, <1>3, <2>1 DEF Pipes!Send, OnlineIds, Online
  <2> QED BY <1>1, <1>3, <2>2 DEF AbstractStep, Pipes!Next
<1> QED BY <1>4, <1>5

LEMMA RefinementStep ==
    ASSUME Registry, [Next]_vars
    PROVE  AbstractStep
<1> USE AbstractStutter DEF registry
<1>1. CASE UNCHANGED vars
  BY <1>1 DEF vars
<1>2. ASSUME NEW c \in Conn, Connect(c) \/ Disconnect(c) PROVE AbstractStep
  BY <1>2 DEF Connect, Disconnect
<1>3. ASSUME NEW k \in Kid, Command(k) PROVE AbstractStep
  BY <1>3 DEF Command
<1>4. CASE Server
  <2>1. CASE \E R \in SUBSET Id : Select(R)
    BY <2>1 DEF Select
  <2>2. CASE \E c \in Conn : (\E id \in Id : Accept(c, id)) \/ Refuse(c)
    BY <2>2, AcceptAbstract DEF Refuse
  <2>3. CASE (\E id \in Id : NextReady(id)) \/ NoneReady
    BY <2>3 DEF NextReady, NoneReady
  <2>4. CASE EndOfInput \/ ExitLine
    BY <2>4, CleanupAbstract DEF EndOfInput, ExitLine, TakesLine, Serving
  <2>5. CASE Builtin \/ NotANumber
    BY <2>5 DEF Builtin, NotANumber
  <2>6. CASE \E n \in Name : Rename(n)
    BY <2>6, RenameAbstract
  <2>7. CASE \E s \in Shape, f, t \in Id \union {NoUser} : Parse(s, f, t)
    BY <2>7 DEF Parse
  <2>8. CASE NotAsked \/ ResolveInNull \/ ResolveOutNull \/ Reap
    BY <2>8 DEF NotAsked, ResolveInNull, ResolveOutNull, Reap
  <2>9. CASE ResolveIn
    BY <2>9, ReceiveAbstract
  <2>10. CASE \E q \in Pipe : ResolveOut(q)
    BY <2>10, SendAbstract
  <2>11. ASSUME NEW k \in Kid,
                RunPlain(k) \/ RunNumbered(k) \/ \E q \in Pipe : RunPiped(k, q) \/ RunNewNumbered(k, q)
         PROVE  AbstractStep
    <3>1. RunPlain(k) => UNCHANGED <<registry, userPipe>> BY DEF RunPlain
    <3>2. RunNumbered(k) => UNCHANGED <<registry, userPipe>> BY DEF RunNumbered
    <3>3. \A q \in Pipe : RunPiped(k, q) => UNCHANGED <<registry, userPipe>> BY DEF RunPiped
    <3>4. \A q \in Pipe : RunNewNumbered(k, q) => UNCHANGED <<registry, userPipe>> BY DEF RunNewNumbered
    <3> QED BY <2>11, <3>1, <3>2, <3>3, <3>4
  <2> QED BY <1>4, <2>1, <2>2, <2>3, <2>4, <2>5, <2>6, <2>7, <2>8, <2>9, <2>10, <2>11 DEF Server
<1> QED BY <1>1, <1>2, <1>3, <1>4 DEF Next, Environment

LEMMA AbstractInit == Init => Directory!Init /\ Pipes!Init
BY DEF Init, Directory!Init, Directory!Slot, Pipes!Init, Id, OnlineIds, Online, UserPipesIn

\* The single-process server's table of clients is the users' directory: logins, logouts
\* and names, in every order of its select loop.
THEOREM ClientsImplementDirectory == Spec => ImplementsDirectory
<1>1. Registry /\ [Next]_vars => [Directory!Next]_<<client, nick>>
  BY RefinementStep DEF AbstractStep
<1>2. Init => Directory!Init BY AbstractInit
<1> QED BY <1>1, <1>2, RegistryAlways, PTL DEF Spec, ImplementsDirectory, Directory!Spec

\* Its map of pipe descriptors is the user pipes of UserPipes, as the files and flags of
\* the multi-process server are.
THEOREM MapImplementsUserPipes == Spec => ImplementsUserPipes
<1>1. Registry /\ [Next]_vars => [Pipes!Next]_<<OnlineIds, UserPipesIn>>
  BY RefinementStep DEF AbstractStep
<1>2. Init => Pipes!Init BY AbstractInit
<1> QED BY <1>1, <1>2, RegistryAlways, PTL DEF Spec, ImplementsUserPipes, Pipes!Spec
-----------------------------------------------------------------------------
(***************************************************************************)
(* The descriptor table: open finds the lowest free descriptor whenever    *)
(* there is room, and touches no other.                                    *)
(***************************************************************************)

Table == [Fd -> Object \union {Closed}]
Less == {ss \in Nat \X Nat : ss[1] < ss[2]}

LEMMA LessIsWellFounded == IsWellFoundedOn(Less, Nat)
BY NatLessThanWellFounded DEF OpToRel, Less

LEMMA HasLeast ==
    ASSUME NEW T, T \subseteq Nat, T # {}
    PROVE  \E x \in T : \A y \in T : x <= y
<1>1. PICK x \in T : \A y \in T : ~(<<y, x>> \in Less)
  BY LessIsWellFounded, WFMin
<1>2. ASSUME NEW y \in T PROVE x <= y
  <2>1. <<y, x>> \in Less <=> y < x BY DEF Less
  <2> QED BY <1>1, <2>1
<1> QED BY <1>2

LEMMA FdIsFinite == \A S \in SUBSET Fd : IsFiniteSet(S)
<1>1. IsFiniteSet(Fd) BY BoundAssumption, FS_Interval DEF Fd
<1> QED BY <1>1, FS_Subset

LEMMA LowestIsFree ==
    ASSUME NEW t \in Table, Room(t, 1)
    PROVE  Lowest(t) \in Fd /\ t[Lowest(t)] = Closed
<1> DEFINE T == {f \in Fd : t[f] = Closed}
<1>1. T # {} BY FS_EmptySet DEF Room
<1>2. PICK x \in T : \A y \in T : x <= y
  <2>1. T \subseteq Nat BY DEF Fd
  <2> HIDE DEF T
  <2> QED BY <1>1, <2>1, HasLeast
<1>3. x \in Fd /\ t[x] = Closed /\ \A g \in 1 .. x - 1 : t[g] # Closed
  BY <1>2, BoundAssumption DEF Fd
<1> QED BY <1>3 DEF Lowest

LEMMA RoomForTwo ==
    ASSUME NEW t \in Table, Room(t, 2)
    PROVE  Room(t, 1) /\ \A o \in Object : Closed \notin Object => Room(Opened(t, o), 1)
<1> DEFINE T == {f \in Fd : t[f] = Closed}
           U(o) == {f \in Fd : Opened(t, o)[f] = Closed}
<1>1. IsFiniteSet(T) /\ Cardinality(T) \in Nat BY FdIsFinite, FS_CardinalityType
<1>2. Room(t, 1) BY <1>1 DEF Room
<1>3. ASSUME NEW o \in Object, Closed \notin Object PROVE Room(Opened(t, o), 1)
  <2>1. Lowest(t) \in T BY <1>2, LowestIsFree
  <2>2. U(o) = T \ {Lowest(t)} BY <1>3, <2>1 DEF Opened, Table
  <2>3. Cardinality(U(o)) = Cardinality(T) - 1
    <3> HIDE DEF T, U
    <3> QED BY <1>1, <2>1, <2>2, FS_RemoveElement
  <2> QED BY <1>1, <2>3 DEF Room
<1> QED BY <1>2, <1>3

LEMMA ClosedIsNoObject ==
    /\ Closed \notin Object /\ Stdin \notin Object
    /\ \A q \in Pipe : Rd(q) \in PipeEnd /\ Wr(q) \in PipeEnd /\ Rd(q) # Wr(q)
    /\ PipeEnd \subseteq Object /\ Null \notin PipeEnd /\ Null \in Object /\ Listen \in Object
    /\ \A c \in Conn : Sock(c) \in Object /\ Sock(c) \notin PipeEnd /\ Sock(c) # Null
    /\ \A p, q \in Pipe : (Rd(p) = Rd(q) => p = q) /\ (Wr(p) = Wr(q) => p = q) /\ Rd(p) # Wr(q)
    /\ \A c, d : Sock(c) = Sock(d) => c = d
BY DEF Closed, Stdin, Object, Listen, Null, Sock, PipeEnd, Rd, Wr

LEMMA OpenIs ==
    ASSUME NEW t \in Table, NEW o \in Object, Room(t, 1)
    PROVE  /\ Lowest(t) \in Fd /\ t[Lowest(t)] = Closed
           /\ Opened(t, o) \in Table /\ Opened(t, o)[Lowest(t)] = o
           /\ \A f \in Fd : f # Lowest(t) => Opened(t, o)[f] = t[f]
BY LowestIsFree DEF Opened, Table

LEMMA PipeIs ==
    ASSUME NEW t \in Table, NEW q \in Pipe, Room(t, 2)
    PROVE  /\ PipeFds(t, q) \in Ends
           /\ PipeFds(t, q).r \in Fd /\ PipeFds(t, q).w \in Fd /\ PipeFds(t, q).r # PipeFds(t, q).w
           /\ t[PipeFds(t, q).r] = Closed /\ t[PipeFds(t, q).w] = Closed
           /\ WithPipe(t, q) \in Table
           /\ WithPipe(t, q)[PipeFds(t, q).r] = Rd(q) /\ WithPipe(t, q)[PipeFds(t, q).w] = Wr(q)
           /\ \A f \in Fd : f \notin {PipeFds(t, q).r, PipeFds(t, q).w} => WithPipe(t, q)[f] = t[f]
<1>1. Rd(q) \in Object /\ Wr(q) \in Object BY ClosedIsNoObject
<1>2. Room(t, 1) /\ Room(Opened(t, Rd(q)), 1) BY <1>1, RoomForTwo, ClosedIsNoObject
<1>3. PICK u : u = Opened(t, Rd(q)) OBVIOUS
<1>4. /\ Lowest(t) \in Fd /\ t[Lowest(t)] = Closed /\ u \in Table /\ u[Lowest(t)] = Rd(q)
      /\ \A f \in Fd : f # Lowest(t) => u[f] = t[f]
  BY <1>1, <1>2, <1>3, OpenIs
<1>5. /\ Lowest(u) \in Fd /\ u[Lowest(u)] = Closed
      /\ Opened(u, Wr(q)) \in Table /\ Opened(u, Wr(q))[Lowest(u)] = Wr(q)
      /\ \A f \in Fd : f # Lowest(u) => Opened(u, Wr(q))[f] = u[f]
  BY <1>1, <1>2, <1>3, <1>4, OpenIs
<1>6. Lowest(u) # Lowest(t) BY <1>1, <1>4, <1>5, ClosedIsNoObject
<1>7. PipeFds(t, q) = [r |-> Lowest(t), w |-> Lowest(u)] /\ WithPipe(t, q) = Opened(u, Wr(q))
  BY <1>3 DEF PipeFds, WithPipe
<1> QED BY <1>4, <1>5, <1>6, <1>7 DEF Ends

LEMMA CloseIs ==
    ASSUME NEW t \in Table, NEW f \in Fd \union {0}
    PROVE  /\ CloseFd(t, f) \in Table
           /\ \A g \in Fd : CloseFd(t, f)[g] = IF g = f THEN Closed ELSE t[g]
BY DEF CloseFd, Table, Fd

-----------------------------------------------------------------------------
(***************************************************************************)
(* Types.  The server's steps find a number in cur whenever they use it;   *)
(* a command that reads a pipe has a unit to write only when units exist.  *)
(***************************************************************************)

LineSet ==
    [cmds : Shape \union {<<>>}, i : Nat, seg : Segment \union {0},
     from : Id \union {NoUser}, to : Id \union {NoUser}, inFd : Fd \union {0},
     user : Fd \union {0}, outFd : Fd \union {0}, devIn : Fd \union {0},
     devOut : Fd \union {0}, waits : SUBSET Kid]
KidSet ==
    [in : Object \union {Stdin}, out : Object, holds : SUBSET Object, todo : Nat,
     job : (Conn \union {Nobody}) \X (Segment \union {0})]
Purpose == (Conn \union {Nobody}) \X (Segment \union {0})

TablesType ==
    /\ fd \in Table
    /\ sock \in [Id -> Fd \union {0}]
    /\ numbered \in [Id -> [Segment -> Ends]]
    /\ executed \in [Id -> Segment \union {0}]
    /\ userPipe \in [Id \X Id -> Ends]
ClientsType ==
    /\ conn \in [Conn -> {"out", "waiting", "in", "gone", "done"}]
    /\ client \in [Id -> Conn \union {Nobody}]
    /\ nick \in [Id -> Name]
    /\ lines \in [Conn -> Nat]
ControlType ==
    /\ pc \in {"select", "accept", "serve", "line", "resolveIn", "resolveOut", "command", "wait", "dead"}
    /\ ready \subseteq Id
    /\ cur \in Id \union {0}
    /\ line \in LineSet
CommandsType ==
    /\ kid \in [Kid -> KidSet]
    /\ content \in [Pipe -> 0 .. Capacity]
    /\ purpose \in [Pipe -> Purpose]

LEMMA TypesAre == TypeOK <=> TablesType /\ ClientsType /\ ControlType /\ CommandsType
BY DEF TypeOK, TablesType, ClientsType, ControlType, CommandsType, Table, LineSet, KidSet, Purpose

Typed == TablesType /\ ClientsType /\ ControlType /\ CommandsType

LEMMA NoLineIsLine == NoLine \in LineSet /\ NoLine.i = 0 /\ NoLine.cmds = <<>>
BY DEF NoLine, LineSet, NoUser

LEMMA TypedInit == Init => Typed
<1> SUFFICES ASSUME Init PROVE Typed OBVIOUS
<1> USE BoundAssumption
<1>1. TablesType BY ClosedIsNoObject DEF Init, TablesType, Table, NoEnds, Ends
<1>2. ClientsType BY NameAssumption DEF Init, ClientsType
<1>3. ControlType BY NoLineIsLine DEF Init, ControlType
<1>4. NoKid \in KidSet BY ClosedIsNoObject DEF NoKid, KidSet
<1>5. CommandsType BY <1>4 DEF Init, CommandsType, Purpose
<1> QED BY <1>1, <1>2, <1>3, <1>5 DEF Typed

\* Where the client is served, it is there.
LEMMA CurIsHere ==
    ASSUME Typed, Registry, pc \in Serving
    PROVE  cur \in Id /\ client[cur] \in Conn /\ cur \in OnlineIds
BY DEF Registry, Turns, OnlineIds, Online, Typed, ClientsType

LEMMA TakesLineTyped ==
    ASSUME Typed, Registry, TakesLine
    PROVE  lines' \in [Conn -> Nat] /\ cur \in Id /\ client[cur] \in Conn /\ cur \in OnlineIds
<1>1. cur \in Id /\ client[cur] \in Conn /\ cur \in OnlineIds BY CurIsHere DEF TakesLine, Serving
<1> QED BY <1>1, BoundAssumption DEF TakesLine, CanType, Typed, ClientsType

LEMMA CleanupTyped ==
    ASSUME Typed, Registry, pc \in Serving, CleanupClient(cur), lines' \in [Conn -> Nat]
    PROVE  Typed'
<1>1. cur \in Id /\ client[cur] \in Conn BY CurIsHere
<1>2. TablesType'
  BY BoundAssumption DEF CleanupClient, Typed, TablesType, Table, Ends, NoEnds
<1>3. ClientsType' BY <1>1, NameAssumption DEF CleanupClient, Typed, ClientsType
<1>4. ControlType' BY NoLineIsLine DEF CleanupClient, Typed, ControlType, Goto
<1>5. CommandsType' BY DEF CleanupClient, Typed, CommandsType, commands
<1> QED BY <1>2, <1>3, <1>4, <1>5 DEF Typed

LEMMA CountTyped ==
    ASSUME Typed, cur \in Id, CountBuiltin
    PROVE  /\ fd' \in Table /\ numbered' \in [Id -> [Segment -> Ends]]
           /\ executed' \in [Id -> Segment \union {0}]
<1>1. PICK s \in Segment : /\ fd' = Discarded(fd, numbered[cur][s])
                           /\ numbered' = [numbered EXCEPT ![cur][s] = NoEnds]
                           /\ executed' = [executed EXCEPT ![cur] = s]
  BY DEF CountBuiltin
<1>2. numbered[cur][s] \in Ends /\ fd \in Table BY DEF Typed, TablesType
<1>3. fd' \in Table BY <1>1, <1>2, CloseIs DEF Discarded, ClosePipe, Ends
<1> QED BY <1>1, <1>3 DEF Typed, TablesType, Ends, NoEnds

LEMMA RunsAtCommand ==
    /\ \A k \in Kid : RunPlain(k) \/ RunNumbered(k) => pc = "command"
    /\ \A k \in Kid, q \in Pipe : RunPiped(k, q) \/ RunNewNumbered(k, q) => pc = "command"
<1>1. ASSUME NEW k \in Kid, RunPlain(k) PROVE pc = "command"
  BY <1>1 DEF RunPlain, Turn
<1>2. ASSUME NEW k \in Kid, RunNumbered(k) PROVE pc = "command"
  BY <1>2 DEF RunNumbered, Turn
<1>3. ASSUME NEW k \in Kid, NEW q \in Pipe, RunPiped(k, q) PROVE pc = "command"
  BY <1>3 DEF RunPiped, Turn
<1>4. ASSUME NEW k \in Kid, NEW q \in Pipe, RunNewNumbered(k, q) PROVE pc = "command"
  <2>1. PICK i, s : Turn(i, s) BY <1>4, Zenon DEF RunNewNumbered
  <2> QED BY <2>1 DEF Turn
<1> QED BY <1>1, <1>2, <1>3, <1>4

LEMMA TypedSession ==
    ASSUME Typed, Registry, Server, pc \in {"select", "accept", "serve", "line"}
    PROVE  Typed'
<1> USE DEF registry, session, commands
<1>1. ASSUME NEW R \in SUBSET Id, Select(R) PROVE Typed'
  BY <1>1 DEF Select, Typed, TablesType, ClientsType, ControlType, CommandsType
<1>2. ASSUME NEW c \in Conn, NEW id \in Id, Accept(c, id) PROVE Typed'
  <2>1. fd' \in Table /\ Lowest(fd) \in Fd
    BY <1>2, OpenIs, ClosedIsNoObject DEF Accept, Typed, TablesType
  <2>2. TablesType' BY <1>2, <2>1 DEF Accept, Typed, TablesType, Ends, NoEnds
  <2>3. ClientsType' BY <1>2, NameAssumption DEF Accept, Typed, ClientsType
  <2>4. ControlType' BY <1>2 DEF Accept, Typed, ControlType, Goto
  <2>5. CommandsType' BY <1>2 DEF Accept, Typed, CommandsType
  <2> QED BY <2>2, <2>3, <2>4, <2>5 DEF Typed
<1>3. ASSUME NEW c \in Conn, Refuse(c) PROVE Typed'
  BY <1>3 DEF Refuse, Typed, TablesType, ClientsType, ControlType, CommandsType
<1>4. ASSUME NEW id \in Id, NextReady(id) PROVE Typed'
  BY <1>4 DEF NextReady, Typed, TablesType, ClientsType, ControlType, CommandsType
<1>5. CASE NoneReady
  BY <1>5 DEF NoneReady, Typed, TablesType, ClientsType, ControlType, CommandsType
<1>6. CASE EndOfInput
  BY <1>6, CleanupTyped DEF EndOfInput, Typed, ClientsType, Serving
<1>7. CASE ExitLine
  BY <1>7, CleanupTyped, TakesLineTyped DEF ExitLine, TakesLine, Serving
<1>8. CASE Builtin
  <2>1. /\ cur \in Id /\ CountBuiltin /\ lines' \in [Conn -> Nat] /\ pc' \in {"line", "serve", "dead"}
        /\ UNCHANGED <<conn, registry, userPipe, ready, cur, line, commands>>
    BY <1>8, TakesLineTyped DEF Builtin, Prompt, Goto
  <2> QED BY <2>1, CountTyped DEF Typed, TablesType, ClientsType, ControlType, CommandsType
<1>13. CASE NotANumber
  BY <1>13, TakesLineTyped DEF NotANumber, Typed, TablesType, ClientsType, ControlType, CommandsType
<1>9. ASSUME NEW n \in Name, Rename(n) PROVE Typed'
  <2>1. /\ cur \in Id /\ CountBuiltin /\ lines' \in [Conn -> Nat] /\ pc' \in {"line", "serve", "dead"}
        /\ nick' = [nick EXCEPT ![cur] = n]
        /\ UNCHANGED <<conn, client, sock, userPipe, ready, cur, line, commands>>
    BY <1>9, TakesLineTyped DEF Rename, Prompt, Goto
  <2> QED BY <2>1, CountTyped DEF Typed, TablesType, ClientsType, ControlType, CommandsType
<1>10. ASSUME NEW s \in Shape, NEW f \in Id \union {NoUser}, NEW t \in Id \union {NoUser}, Parse(s, f, t)
       PROVE  Typed'
  <2>1. /\ cur \in Id /\ lines' \in [Conn -> Nat] /\ pc' = "resolveIn"
        /\ line' = [NoLine EXCEPT !.cmds = s, !.from = f, !.to = t, !.seg = executed[cur]]
        /\ UNCHANGED <<fd, conn, registry, session, userPipe, ready, cur, commands>>
    BY <1>10, TakesLineTyped DEF Parse
  <2>2. line' \in LineSet
    <3>1. executed[cur] \in Segment \union {0} BY <2>1 DEF Typed, TablesType
    <3>2. s \in Shape \union {<<>>} OBVIOUS
    <3>3. line' = [cmds |-> s, i |-> 0, seg |-> executed[cur], from |-> f, to |-> t, inFd |-> 0, user |-> 0,
                   outFd |-> 0, devIn |-> 0, devOut |-> 0, waits |-> {}]
      BY <2>1 DEF NoLine
    <3> QED BY <3>1, <3>2, <3>3 DEF LineSet
  <2> QED BY <2>1, <2>2 DEF Typed, TablesType, ClientsType, ControlType, CommandsType
<1>11. ~NotAsked /\ ~ResolveInNull /\ ~ResolveIn /\ ~ResolveOutNull /\ ~Reap /\ \A q \in Pipe : ~ResolveOut(q)
  BY DEF NotAsked, ResolveInNull, ResolveIn, ResolveOutNull, Reap, ResolveOut
<1>12. /\ \A k \in Kid : ~RunPlain(k) /\ ~RunNumbered(k)
       /\ \A k \in Kid, q \in Pipe : ~RunPiped(k, q) /\ ~RunNewNumbered(k, q)
  BY RunsAtCommand
<1> QED
  BY <1>1, <1>2, <1>3, <1>4, <1>5, <1>6, <1>7, <1>8, <1>9, <1>10, <1>11, <1>12, <1>13 DEF Server

LEMMA TypedResolve ==
    ASSUME Typed, Registry, Server, pc \in {"resolveIn", "resolveOut"}
    PROVE  Typed'
<1> USE DEF registry, session, commands
<1>1. cur \in Id /\ client[cur] \in Conn BY CurIsHere DEF Serving
<1>2. CASE NotAsked
  BY <1>2 DEF NotAsked, Typed, TablesType, ClientsType, ControlType, CommandsType
<1>3. CASE ResolveInNull \/ ResolveOutNull
  <2>1. fd' \in Table /\ Lowest(fd) \in Fd
    BY <1>3, OpenIs, ClosedIsNoObject DEF ResolveInNull, ResolveOutNull, Typed, TablesType
  <2>2. /\ UNCHANGED <<conn, registry, session, userPipe, ready, cur, lines, commands>>
        /\ pc' \in {"resolveOut", "command", "dead"}
    BY <1>3 DEF ResolveInNull, ResolveOutNull, Goto
  <2>3. line' \in LineSet
    <3> USE DEF Typed, ControlType, LineSet
    <3>1. CASE ResolveInNull BY <2>1, <3>1 DEF ResolveInNull
    <3>2. CASE ResolveOutNull BY <2>1, <3>2 DEF ResolveOutNull
    <3> QED BY <1>3, <3>1, <3>2
  <2> QED BY <2>1, <2>2, <2>3 DEF Typed, TablesType, ClientsType, ControlType, CommandsType
<1>4. CASE ResolveIn
  <2> DEFINE x == <<line.from, cur>>
  <2>1. x \in Id \X Id /\ userPipe[x] \in Ends
    BY <1>1, <1>4 DEF ResolveIn, Typed, TablesType, ControlType, LineSet
  <2>2. /\ fd' = CloseFd(fd, userPipe[x].w) /\ userPipe' = [userPipe EXCEPT ![x] = NoEnds]
        /\ line' = [line EXCEPT !.user = userPipe[x].r]
        /\ UNCHANGED <<conn, registry, session, ready, cur, lines, commands>> /\ pc' \in {"resolveOut", "dead"}
    BY <1>4 DEF ResolveIn, Goto, Drained, Taken
  <2> HIDE DEF x
  <2>3. fd' \in Table BY <2>1, <2>2, CloseIs DEF Typed, TablesType, Ends
  <2>4. line' \in LineSet BY <2>1, <2>2 DEF Typed, ControlType, LineSet, Ends
  <2>5. userPipe' \in [Id \X Id -> Ends] BY <2>1, <2>2 DEF Typed, TablesType, NoEnds, Ends
  <2> QED BY <2>2, <2>3, <2>4, <2>5 DEF Typed, TablesType, ClientsType, ControlType, CommandsType
<1>5. ASSUME NEW q \in Pipe, ResolveOut(q) PROVE Typed'
  <2>1. PICK e : e = PipeFds(fd, q) OBVIOUS
  <2>2. e \in Ends /\ WithPipe(fd, q) \in Table
    BY <1>5, <2>1, PipeIs DEF ResolveOut, Typed, TablesType
  <2>3. /\ fd' = WithPipe(fd, q) /\ userPipe' = [userPipe EXCEPT ![<<cur, line.to>>] = e]
        /\ line' = [line EXCEPT !.outFd = e.w] /\ content' = [content EXCEPT ![q] = 0]
        /\ purpose' = [purpose EXCEPT ![q] = <<client[line.to], 0>>]
        /\ line.to # NoUser
        /\ UNCHANGED <<conn, registry, session, ready, cur, lines, kid>> /\ pc' \in {"command", "dead"}
    BY <1>5, <2>1 DEF ResolveOut, Goto
  <2>4. line.to \in Id BY <2>3 DEF Typed, ControlType, LineSet
  <2>5. TablesType' BY <1>1, <2>2, <2>3, <2>4 DEF Typed, TablesType
  <2>6. line' \in LineSet BY <2>2, <2>3 DEF Typed, ControlType, LineSet, Ends
  <2>7. CommandsType'
    BY <2>3, <2>4, BoundAssumption DEF Typed, CommandsType, ClientsType, Purpose
  <2> QED BY <2>3, <2>5, <2>6, <2>7 DEF Typed, ClientsType, ControlType
<1>6. /\ \A k \in Kid : ~RunPlain(k) /\ ~RunNumbered(k)
      /\ \A k \in Kid, q \in Pipe : ~RunPiped(k, q) /\ ~RunNewNumbered(k, q)
  BY RunsAtCommand
<1>9. ~NoneReady /\ ~EndOfInput /\ ~ExitLine /\ ~Builtin /\ ~NotANumber /\ ~Reap
  BY DEF NoneReady, EndOfInput, ExitLine, Builtin, NotANumber, Reap, TakesLine
<1>10. /\ \A n \in Name : ~Rename(n)
       /\ \A s \in Shape, f, t \in Id \union {NoUser} : ~Parse(s, f, t)
       /\ \A R \in SUBSET Id : ~Select(R)
       /\ \A id \in Id : ~NextReady(id)
       /\ \A c \in Conn : ~Refuse(c) /\ \A id \in Id : ~Accept(c, id)
  BY DEF Rename, Parse, TakesLine, Select, NextReady, Refuse, Accept
<1> QED BY <1>2, <1>3, <1>4, <1>5, <1>6, <1>9, <1>10 DEF Server

LEMMA AttachedTyped ==
    ASSUME Typed, cur \in Id, NEW i, NEW s \in Segment
    PROVE  /\ Attached(i, s).fd \in Table
           /\ Attached(i, s).in \in Fd \union {0}
           /\ Attached(i, s).numbered \in [Id -> [Segment -> Ends]]
<1>1. PICK due : due = Due(i, s) OBVIOUS
<1>2. due \in Ends BY <1>1 DEF Due, NoEnds, Ends, Typed, TablesType
<1>3. PICK own : own = IF line.inFd = 0 THEN due.r ELSE line.inFd OBVIOUS
<1>4. PICK extra : extra = IF line.inFd \notin {0, due.r} THEN due.r ELSE 0 OBVIOUS
<1>5. /\ own \in Fd \union {0} /\ extra \in Fd \union {0} /\ line.user \in Fd \union {0}
      /\ due.w \in Fd \union {0} /\ fd \in Table
  BY <1>2, <1>3, <1>4 DEF Ends, Typed, ControlType, LineSet, TablesType
<1>6. PICK t : t = CloseFd(CloseFd(fd, extra), due.w) OBVIOUS
<1>7. t \in Table /\ CloseFd(t, own) \in Table BY <1>5, <1>6, CloseIs
<1>8. Attached(i, s).fd \in {t, CloseFd(t, own)} BY <1>1, <1>3, <1>4, <1>6 DEF Attached
<1>9. Attached(i, s).in \in {own, line.user} BY <1>1, <1>3 DEF Attached
<1>10. Attached(i, s).numbered \in {numbered, [numbered EXCEPT ![cur][s] = NoEnds]} BY DEF Attached
<1>11. numbered \in [Id -> [Segment -> Ends]] BY DEF Typed, TablesType
<1>12. NoEnds \in Ends BY DEF NoEnds, Ends
<1>13. [numbered EXCEPT ![cur][s] = NoEnds] \in [Id -> [Segment -> Ends]] BY <1>11, <1>12
<1> QED BY <1>5, <1>7, <1>8, <1>9, <1>10, <1>11, <1>13

LEMMA NewKidTyped ==
    ASSUME Typed, cur \in Id, NEW t \in Table, NEW m, NEW in \in Fd \union {0}, NEW out \in Fd \union {0},
           NEW ordinary, NEW s \in Segment, NEW n \in Outputs
    PROVE  NewKid(t, m, in, out, ordinary, s, n) \in KidSet
<1>1. Input(t, in) \in Object \union {Stdin} /\ Output(t, out) \in Object
  BY ClosedIsNoObject DEF Input, Output, Table
<1>2. Inherited(t, m, in, out, ordinary) \subseteq Object BY DEF Inherited, Table
<1>3. client[cur] \in Conn \union {Nobody} BY DEF Typed, ClientsType
<1> QED BY <1>1, <1>2, <1>3, BoundAssumption DEF NewKid, KidSet

LEMMA ForkedTyped ==
    ASSUME Typed, cur \in Id, NEW i \in 1 .. Len(line.cmds), NEW s \in Segment, NEW k \in Kid, NEW a,
           NEW t \in Table, NEW m \in [Id -> [Segment -> Ends]], NEW out \in Fd \union {0},
           NEW ordinary \in Ends, a.in \in Fd \union {0}, Forked(i, s, k, a, t, m, out, ordinary),
           UNCHANGED <<conn, registry, executed, userPipe, ready, cur, lines>>,
           content' \in [Pipe -> 0 .. Capacity], purpose' \in [Pipe -> Purpose],
           \A q \in Pipe : content'[q] # 0 => content'[q] = content[q]
    PROVE  Typed'
<1>1. PICK u : u = CloseFd(CloseFd(t, a.in), ordinary.w) OBVIOUS
<1>2. ordinary.r \in Fd \union {0} /\ ordinary.w \in Fd \union {0} BY DEF Ends
<1>3. u \in Table /\ CloseFd(u, ordinary.r) \in Table BY <1>1, <1>2, CloseIs
<1>4. fd' \in {u, CloseFd(u, ordinary.r)} BY <1>1 DEF Forked
<1>5. TablesType' BY <1>3, <1>4 DEF Forked, Typed, TablesType, registry
<1>6. ClientsType' BY DEF Typed, ClientsType, registry
<1>7. line' \in LineSet /\ pc' \in {"wait", "command"}
  <2>1. /\ line' = [line EXCEPT !.i = i, !.seg = s, !.inFd = IF IsLast(i) THEN 0 ELSE ordinary.r,
                                !.waits = IF Waitable(i) THEN @ \union {k} ELSE @]
        /\ pc' \in {"wait", "command"}
    BY DEF Forked
  <2>2. line \in LineSet /\ i \in Nat BY DEF Typed, ControlType
  <2>3. PICK f, w : /\ f = IF IsLast(i) THEN 0 ELSE ordinary.r
                    /\ w = IF Waitable(i) THEN line.waits \union {k} ELSE line.waits
    OBVIOUS
  <2>4. f \in Fd \union {0} BY <1>2, <2>3
  <2>5. w \in SUBSET Kid BY <2>2, <2>3 DEF LineSet
  <2>6. line' = [line EXCEPT !.i = i, !.seg = s, !.inFd = f, !.waits = w] BY <2>1, <2>3
  <2>7. /\ line' = [cmds |-> line.cmds, i |-> i, seg |-> s, from |-> line.from, to |-> line.to, inFd |-> f,
                    user |-> line.user, outFd |-> line.outFd, devIn |-> line.devIn, devOut |-> line.devOut,
                    waits |-> w]
    BY <2>2, <2>6 DEF LineSet
  <2>8. /\ line.cmds \in Shape \union {<<>>} /\ line.from \in Id \union {NoUser} /\ line.to \in Id \union {NoUser}
        /\ line.user \in Fd \union {0} /\ line.outFd \in Fd \union {0} /\ line.devIn \in Fd \union {0}
        /\ line.devOut \in Fd \union {0}
    BY <2>2 DEF LineSet
  <2> QED BY <2>1, <2>2, <2>4, <2>5, <2>7, <2>8 DEF LineSet
<1>8. ControlType' BY <1>7 DEF Typed, ControlType
<1>9. CommandsType' BY NewKidTyped DEF Forked, Typed, CommandsType
<1> QED BY <1>5, <1>6, <1>8, <1>9 DEF Typed

LEMMA TypedCommand ==
    ASSUME Typed, Registry, Server, pc \in {"command", "wait"}
    PROVE  Typed'
<1>1. cur \in Id /\ client[cur] \in Conn BY CurIsHere DEF Serving
<1>2. NoEnds \in Ends BY DEF NoEnds, Ends
<1>3. ASSUME NEW k \in Kid, RunPlain(k) PROVE Typed'
  <2>1. PICK i \in 1 .. Len(line.cmds), s \in Segment :
          /\ LET a == Attached(i, s) IN
               Forked(i, s, k, a, a.fd, a.numbered, IF line.outFd # 0 THEN line.outFd ELSE sock[cur], NoEnds)
          /\ UNCHANGED <<conn, registry, executed, userPipe, ready, cur, lines, content, purpose>>
    BY <1>3 DEF RunPlain
  <2>2. PICK a, t, m, o : /\ a = Attached(i, s) /\ t = a.fd /\ m = a.numbered
                          /\ o = IF line.outFd # 0 THEN line.outFd ELSE sock[cur]
    OBVIOUS
  <2>3. Forked(i, s, k, a, t, m, o, NoEnds) BY <2>1, <2>2
  <2>4. t \in Table /\ a.in \in Fd \union {0} /\ m \in [Id -> [Segment -> Ends]]
    BY <1>1, <2>2, AttachedTyped
  <2>5. o \in Fd \union {0} BY <1>1, <2>2 DEF Typed, TablesType, ControlType, LineSet
  <2> QED BY <1>1, <1>2, <2>1, <2>3, <2>4, <2>5, ForkedTyped DEF Typed, CommandsType
<1>4. ASSUME NEW k \in Kid, RunNumbered(k) PROVE Typed'
  <2>1. PICK i \in 1 .. Len(line.cmds), s \in Segment :
          /\ Target(i, s) \in Segment
          /\ LET a == Attached(i, s)
                 ends == a.numbered[cur][Target(i, s)]
             IN  Forked(i, s, k, a, a.fd, a.numbered, ends.w, NoEnds)
          /\ UNCHANGED <<conn, registry, executed, userPipe, ready, cur, lines, content, purpose>>
    BY <1>4 DEF RunNumbered
  <2>2. PICK a, t, m, o : /\ a = Attached(i, s) /\ t = a.fd /\ m = a.numbered
                          /\ o = a.numbered[cur][Target(i, s)].w
    OBVIOUS
  <2>3. Forked(i, s, k, a, t, m, o, NoEnds) BY <2>1, <2>2
  <2>4. t \in Table /\ a.in \in Fd \union {0} /\ m \in [Id -> [Segment -> Ends]]
    BY <1>1, <2>2, AttachedTyped
  <2>5. o \in Fd \union {0} BY <1>1, <2>1, <2>2, <2>4 DEF Ends
  <2> QED BY <1>1, <1>2, <2>1, <2>3, <2>4, <2>5, ForkedTyped DEF Typed, CommandsType
<1>5. ASSUME NEW k \in Kid, NEW q \in Pipe, RunPiped(k, q) PROVE Typed'
  <2>1. PICK i \in 1 .. Len(line.cmds), s \in Segment :
          /\ LET a == Attached(i, s) IN
               /\ Room(a.fd, 2)
               /\ Forked(i, s, k, a, WithPipe(a.fd, q), a.numbered, PipeFds(a.fd, q).w, PipeFds(a.fd, q))
          /\ content' = [content EXCEPT ![q] = 0]
          /\ purpose' = [purpose EXCEPT ![q] = <<client[cur], s>>]
          /\ UNCHANGED <<conn, registry, executed, userPipe, ready, cur, lines>>
    BY <1>5 DEF RunPiped
  <2>2. PICK a, t, m, e : /\ a = Attached(i, s) /\ t = WithPipe(a.fd, q) /\ m = a.numbered
                          /\ e = PipeFds(a.fd, q)
    OBVIOUS
  <2>3. Room(a.fd, 2) /\ Forked(i, s, k, a, t, m, e.w, e) BY <2>1, <2>2
  <2>4. a.fd \in Table /\ a.in \in Fd \union {0} /\ m \in [Id -> [Segment -> Ends]]
    BY <1>1, <2>2, AttachedTyped
  <2>5. e \in Ends /\ t \in Table /\ e.w \in Fd \union {0} BY <2>2, <2>3, <2>4, PipeIs
  <2>6. content' \in [Pipe -> 0 .. Capacity] /\ purpose' \in [Pipe -> Purpose]
    BY <1>1, <2>1, BoundAssumption DEF Typed, CommandsType, Purpose
  <2>7. \A p \in Pipe : content'[p] # 0 => content'[p] = content[p] BY <2>1 DEF Typed, CommandsType
  <2> QED BY <1>1, <2>1, <2>3, <2>4, <2>5, <2>6, <2>7, ForkedTyped
<1>6. ASSUME NEW k \in Kid, NEW q \in Pipe, RunNewNumbered(k, q) PROVE Typed'
  <2>1. PICK i \in 1 .. Len(line.cmds), s \in Segment :
          /\ Target(i, s) \in Segment
          /\ LET a == Attached(i, s) IN
               /\ Room(a.fd, 2)
               /\ Forked(i, s, k, a, WithPipe(a.fd, q),
                         [a.numbered EXCEPT ![cur][Target(i, s)] = PipeFds(a.fd, q)],
                         PipeFds(a.fd, q).w, NoEnds)
          /\ content' = [content EXCEPT ![q] = 0]
          /\ purpose' = [purpose EXCEPT ![q] = <<client[cur], Target(i, s)>>]
          /\ UNCHANGED <<conn, registry, executed, userPipe, ready, cur, lines>>
    BY <1>6 DEF RunNewNumbered
  <2>20. PICK a, t, e, g : /\ a = Attached(i, s) /\ t = WithPipe(a.fd, q) /\ g = Target(i, s)
                           /\ e = PipeFds(a.fd, q)
    OBVIOUS
  <2>21. PICK m : m = [a.numbered EXCEPT ![cur][g] = e] OBVIOUS
  <2>2. /\ a = Attached(i, s) /\ t = WithPipe(a.fd, q) /\ g = Target(i, s)
        /\ e = PipeFds(a.fd, q) /\ m = [a.numbered EXCEPT ![cur][g] = e]
    BY <2>20, <2>21
  <2>3. Room(a.fd, 2) /\ Forked(i, s, k, a, t, m, e.w, NoEnds) /\ g \in Segment BY <2>1, <2>2
  <2>4. a.fd \in Table /\ a.in \in Fd \union {0} /\ a.numbered \in [Id -> [Segment -> Ends]]
    BY <1>1, <2>2, AttachedTyped
  <2>5. e \in Ends /\ t \in Table /\ e.w \in Fd \union {0} BY <2>2, <2>3, <2>4, PipeIs
  <2>6. m \in [Id -> [Segment -> Ends]] BY <1>1, <2>2, <2>3, <2>4, <2>5
  <2>7. content' \in [Pipe -> 0 .. Capacity] /\ purpose' \in [Pipe -> Purpose]
    BY <1>1, <2>1, BoundAssumption DEF Typed, CommandsType, Purpose
  <2>8. \A p \in Pipe : content'[p] # 0 => content'[p] = content[p] BY <2>1 DEF Typed, CommandsType
  <2> QED BY <1>1, <1>2, <2>1, <2>3, <2>4, <2>5, <2>6, <2>7, <2>8, ForkedTyped
<1>7. CASE Reap
  <2>1. /\ fd' = CloseFd(CloseFd(fd, line.devIn), line.devOut)
        /\ executed' = [executed EXCEPT ![cur] = line.seg] /\ line' = NoLine
        /\ UNCHANGED <<conn, registry, numbered, userPipe, ready, cur, lines, commands>>
        /\ pc' \in {"line", "serve", "dead"}
    BY <1>7 DEF Reap, Prompt, Goto
  <2>2. line.devIn \in Fd \union {0} /\ line.devOut \in Fd \union {0} /\ line.seg \in Segment \union {0}
    BY DEF Typed, ControlType, LineSet
  <2>3. fd' \in Table BY <2>1, <2>2, CloseIs DEF Typed, TablesType
  <2>4. TablesType' BY <2>1, <2>2, <2>3 DEF Typed, TablesType, registry
  <2>5. ClientsType' BY <2>1 DEF Typed, ClientsType, registry
  <2>6. ControlType' BY <2>1, NoLineIsLine DEF Typed, ControlType
  <2> QED BY <2>1, <2>4, <2>5, <2>6 DEF Typed, CommandsType, commands
<1>8. /\ ~NoneReady /\ ~EndOfInput /\ ~ExitLine /\ ~Builtin /\ ~NotANumber
      /\ ~NotAsked /\ ~ResolveInNull /\ ~ResolveIn /\ ~ResolveOutNull /\ \A q \in Pipe : ~ResolveOut(q)
  BY DEF NoneReady, EndOfInput, ExitLine, Builtin, NotANumber, TakesLine, NotAsked, ResolveInNull, ResolveIn,
         ResolveOutNull, ResolveOut
<1>9. /\ \A n \in Name : ~Rename(n)
      /\ \A s \in Shape, f, t \in Id \union {NoUser} : ~Parse(s, f, t)
      /\ \A R \in SUBSET Id : ~Select(R)
      /\ \A id \in Id : ~NextReady(id)
      /\ \A c \in Conn : ~Refuse(c) /\ \A id \in Id : ~Accept(c, id)
  BY DEF Rename, Parse, TakesLine, Select, NextReady, Refuse, Accept
<1> QED BY <1>3, <1>4, <1>5, <1>6, <1>7, <1>8, <1>9 DEF Server

LEMMA TypedStep ==
    ASSUME Typed, Registry, [Next]_vars
    PROVE  Typed'
<1>1. CASE UNCHANGED vars
  BY <1>1 DEF vars, registry, session, commands, Typed, TablesType, ClientsType, ControlType, CommandsType
<1>2. ASSUME NEW c \in Conn, Connect(c) \/ Disconnect(c) PROVE Typed'
  BY <1>2 DEF Connect, Disconnect, registry, session, commands, Typed, TablesType, ClientsType, ControlType,
              CommandsType
<1>3. ASSUME NEW k \in Kid, Command(k) PROVE Typed'
  <2>1. TablesType' /\ ClientsType' /\ ControlType' /\ purpose' \in [Pipe -> Purpose]
    BY <1>3 DEF Command, registry, session, Typed, TablesType, ClientsType, ControlType, CommandsType
  <2>2. kid[k] \in KidSet /\ NoKid \in KidSet
    BY ClosedIsNoObject, BoundAssumption DEF Typed, CommandsType, NoKid, KidSet
  <2>3. ASSUME NEW q \in Pipe, Read(k, q) PROVE Typed'
    <3>1. [kid[k] EXCEPT !.todo = 1] \in KidSet BY <2>2 DEF KidSet
    <3>2. CommandsType'
      BY <2>1, <2>3, <3>1, BoundAssumption DEF Read, Typed, CommandsType
    <3> QED BY <2>1, <3>2 DEF Typed
  <2>4. CASE Write(k)
    <3>1. kid[k].todo \in Nat /\ kid[k].todo > 0 BY <2>2, <2>4 DEF Write, KidSet
    <3>2. [kid[k] EXCEPT !.todo = kid[k].todo - 1] \in KidSet BY <2>2, <3>1 DEF KidSet
    <3>3. kid' \in [Kid -> KidSet]
      BY <2>2, <2>4, <3>2 DEF Write, Finished, Typed, CommandsType
    <3>4. content' \in [Pipe -> 0 .. Capacity]
      BY <2>4, BoundAssumption DEF Write, Full, Typed, CommandsType
    <3> QED BY <2>1, <3>3, <3>4 DEF Typed, CommandsType
  <2>5. CASE End(k)
    BY <2>1, <2>2, <2>5 DEF End, Finished, Typed, CommandsType
  <2> QED BY <1>3, <2>3, <2>4, <2>5 DEF Command
<1>4. CASE Server
  <2>1. pc # "dead"
    BY <1>4, RunsAtCommand DEF Server, Select, Accept, Refuse, NextReady, NoneReady, EndOfInput, ExitLine, Builtin, NotANumber, Rename,
                Parse, TakesLine, NotAsked, ResolveInNull, ResolveIn, ResolveOutNull, ResolveOut, Reap
  <2> QED
    BY <1>4, <2>1, TypedSession, TypedResolve, TypedCommand DEF Typed, ControlType
<1> QED BY <1>1, <1>2, <1>3, <1>4 DEF Next, Environment

LEMMA TypedAlways == Spec => []Typed
BY TypedInit, TypedStep, RegistryAlways, PTL DEF Spec

\* The server's tables, its clients, the line under way and the commands keep their
\* types, whatever the clients type and however many they are.
THEOREM SingleProcTypes == Spec => []TypeOK
<1>1. Typed => TypeOK BY TypesAre DEF Typed
<1> QED BY <1>1, TypedAlways, PTL

-----------------------------------------------------------------------------
(***************************************************************************)
(* Descriptors.  What the server keeps for its users stays theirs as long  *)
(* as every descriptor has one keeper: a number that two places keep is    *)
(* closed by one and opened again for a third.  A pipe's purpose tells the *)
(* delayed pipes apart, Apart the user pipes; the line under way holds     *)
(* descriptors that no table has.                                          *)
(***************************************************************************)

\* A `<N` that finds no pipe closes its descriptor twice, before the second command of
\* the line and at the end: nothing must be opened in between.
ClosesOnce == Mistakes => \A s \in Shape : Len(s) = 1

SocketIsOwn(id) == Online(id) => sock[id] # 0 /\ fd[sock[id]] = Sock(client[id])

DelayIsOwn(x) ==
    LET e == numbered[x[1]][x[2]] IN
    e # NoEnds => Online(x[1]) /\ e.r # 0 /\ e.w # 0 /\ EndsOfPipe(e, <<client[x[1]], x[2]>>)

UserPipeIsOwn(x) ==
    userPipe[x] # NoEnds =>
        userPipe[x].r # 0 /\ userPipe[x].w # 0 /\ EndsOfPipe(userPipe[x], <<client[x[2]], 0>>)

\* Different user pipes have different descriptors.
ApartFrom(x, y) ==
    userPipe[x] # NoEnds /\ userPipe[y] # NoEnds /\ x # y =>
        userPipe[x].r # userPipe[y].r /\ userPipe[x].w # userPipe[y].w

Tables ==
    /\ \A id \in Id : SocketIsOwn(id)
    /\ \A x \in Id \X Segment : DelayIsOwn(x)
    /\ \A x \in Id \X Id : UserPipeIsOwn(x)
    /\ \A x, y \in Id \X Id : ApartFrom(x, y)

\* Who keeps descriptor f.
KeepsSocket(id, f) == Online(id) /\ sock[id] = f
KeepsDelay(x, f) == numbered[x[1]][x[2]] # NoEnds /\ f \in {numbered[x[1]][x[2]].r, numbered[x[1]][x[2]].w}
KeepsUserPipe(x, f) == userPipe[x] # NoEnds /\ f \in {userPipe[x].r, userPipe[x].w}

\* No table has f.
Loose(f) ==
    /\ \A id \in Id : ~KeepsSocket(id, f)
    /\ \A x \in Id \X Segment : ~KeepsDelay(x, f)
    /\ \A x \in Id \X Id : ~KeepsUserPipe(x, f)

IsReader(o) == \E q \in Pipe : o = Rd(q)

\* What the line under way holds: the read end of an ordinary pipe between two commands,
\* the source of `<N` until the first command has it, and /dev/null in place of a pipe.
LineHolds ==
    /\ line.inFd # 0 => Loose(line.inFd) /\ IsReader(fd[line.inFd]) /\ line.i # 0 /\ ~Starts(line.i + 1)
    /\ line.user # 0 /\ line.i = 0 =>
          Loose(line.user) /\ (fd[line.user] = Null \/ IsReader(fd[line.user])) /\ line.user # line.devOut
    /\ line.devIn # 0 => line.devIn = line.user /\ Mistakes /\ (line.i # 0 => fd[line.devIn] = Closed)
    /\ line.devOut # 0 => fd[line.devOut] = Null

LineMoves ==
    /\ pc \in {"resolveIn", "resolveOut", "command", "wait"} => line.cmds # <<>>
    /\ pc \in {"resolveIn", "resolveOut"} => line.i = 0
    /\ pc = "resolveIn" => line.user = 0
    /\ pc = "command" => line.i < Len(line.cmds)
    /\ pc = "wait" => line.i # 0
    /\ line = NoLine \/ pc \in {"resolveIn", "resolveOut", "command", "wait", "dead"}

Desc == Tables /\ LineHolds /\ LineMoves

LEMMA OwnDescriptorsAre == Tables => OwnDescriptors
BY DEF Tables, OwnDescriptors, SocketIsOwn, DelayIsOwn, UserPipeIsOwn, OnlineIds, NumberedIn, UserPipesIn

LEMMA DescInit == Init => Desc
<1> SUFFICES ASSUME Init PROVE Desc OBVIOUS
<1>1. /\ \A id \in Id : client[id] = Nobody
      /\ \A x \in Id \X Segment : numbered[x[1]][x[2]] = NoEnds
      /\ \A x \in Id \X Id : userPipe[x] = NoEnds
      /\ pc = "select" /\ line = NoLine
  BY DEF Init
<1>2. Tables BY <1>1 DEF Tables, SocketIsOwn, DelayIsOwn, UserPipeIsOwn, ApartFrom, Online
<1>3. LineHolds BY <1>1 DEF LineHolds, NoLine
<1>4. LineMoves BY <1>1 DEF LineMoves
<1> QED BY <1>2, <1>3, <1>4 DEF Desc

\* What is kept is open, and is a connection or the end of a pipe.
LEMMA KeptIsOpen ==
    ASSUME Typed, Tables, NEW f
    PROVE  /\ \A id \in Id : KeepsSocket(id, f) => f \in Fd /\ \E c \in Conn : fd[f] = Sock(c)
           /\ \A x \in Id \X Segment : KeepsDelay(x, f) => f \in Fd /\ fd[f] \in PipeEnd
           /\ \A x \in Id \X Id : KeepsUserPipe(x, f) => f \in Fd /\ fd[f] \in PipeEnd
           /\ ~Loose(f) => f \in Fd /\ fd[f] \notin {Closed, Null}
<1>1. ASSUME NEW id \in Id, KeepsSocket(id, f) PROVE f \in Fd /\ \E c \in Conn : fd[f] = Sock(c)
  BY <1>1 DEF KeepsSocket, Tables, SocketIsOwn, Online, Typed, TablesType, ClientsType
<1>2. ASSUME NEW x \in Id \X Segment, KeepsDelay(x, f) PROVE f \in Fd /\ fd[f] \in PipeEnd
  <2>1. PICK e : e = numbered[x[1]][x[2]] OBVIOUS
  <2>2. e \in Ends /\ e # NoEnds BY <1>2, <2>1 DEF KeepsDelay, Typed, TablesType
  <2>3. DelayIsOwn(x) BY DEF Tables
  <2>4. e.r # 0 /\ e.w # 0 /\ \E q \in Pipe : fd[e.r] = Rd(q) /\ fd[e.w] = Wr(q)
    BY <2>1, <2>2, <2>3 DEF DelayIsOwn, EndsOfPipe
  <2> QED BY <1>2, <2>1, <2>2, <2>4, ClosedIsNoObject DEF KeepsDelay, Ends
<1>3. ASSUME NEW x \in Id \X Id, KeepsUserPipe(x, f) PROVE f \in Fd /\ fd[f] \in PipeEnd
  <2>1. PICK e : e = userPipe[x] OBVIOUS
  <2>2. e \in Ends /\ e # NoEnds BY <1>3, <2>1 DEF KeepsUserPipe, Typed, TablesType
  <2>3. UserPipeIsOwn(x) BY DEF Tables
  <2>4. e.r # 0 /\ e.w # 0 /\ \E q \in Pipe : fd[e.r] = Rd(q) /\ fd[e.w] = Wr(q)
    BY <2>1, <2>2, <2>3 DEF UserPipeIsOwn, EndsOfPipe
  <2> QED BY <1>3, <2>1, <2>2, <2>4, ClosedIsNoObject DEF KeepsUserPipe, Ends
<1>4. ~Loose(f) => f \in Fd /\ fd[f] \notin {Closed, Null}
  BY <1>1, <1>2, <1>3, ClosedIsNoObject DEF Loose
<1> QED BY <1>1, <1>2, <1>3, <1>4

\* The pipe whose ends a table has.
\* A pipe that is open somewhere keeps its purpose.
PurposesStay == \A f \in Fd, q \in Pipe : fd[f] = Rd(q) => purpose'[q] = purpose[q]
HeldPurposesStay ==
    \A k \in Kid, q \in Pipe : Rd(q) \in kid[k].holds \/ Wr(q) \in kid[k].holds => purpose'[q] = purpose[q]

LEMMA FreshIsUnused ==
    ASSUME Typed, NEW q \in Pipe, Fresh(q), pc # "dead", NEW why, purpose' = [purpose EXCEPT ![q] = why]
    PROVE  PurposesStay /\ HeldPurposesStay /\ purpose'[q] = why
<1>1. /\ \A f \in Fd : fd[f] # Rd(q)
      /\ \A k \in Kid : Rd(q) \notin kid[k].holds /\ Wr(q) \notin kid[k].holds
  BY DEF Fresh, HasReader, HasWriter, HeldOpen
<1>2. purpose'[q] = why /\ \A p \in Pipe \ {q} : purpose'[p] = purpose[p] BY DEF Typed, CommandsType
<1> QED BY <1>1, <1>2 DEF PurposesStay, HeldPurposesStay

LEMMA DelayedPipe ==
    ASSUME Typed, Tables, NEW x \in Id \X Segment, numbered[x[1]][x[2]] # NoEnds
    PROVE  \E q \in Pipe : /\ fd[numbered[x[1]][x[2]].r] = Rd(q) /\ fd[numbered[x[1]][x[2]].w] = Wr(q)
                           /\ purpose[q] = <<client[x[1]], x[2]>> /\ Online(x[1])
BY DEF Tables, DelayIsOwn, EndsOfPipe

LEMMA UserPipesPipe ==
    ASSUME Typed, Tables, NEW x \in Id \X Id, userPipe[x] # NoEnds
    PROVE  \E q \in Pipe : /\ fd[userPipe[x].r] = Rd(q) /\ fd[userPipe[x].w] = Wr(q)
                           /\ purpose[q] = <<client[x[2]], 0>>
BY DEF Tables, UserPipeIsOwn, EndsOfPipe

\* A descriptor has one keeper.
LEMMA KeptByOne ==
    ASSUME Typed, Registry, Tables, NEW f
    PROVE  /\ \A i, j \in Id : KeepsSocket(i, f) /\ KeepsSocket(j, f) => i = j
           /\ \A i \in Id, x \in Id \X Segment : ~(KeepsSocket(i, f) /\ KeepsDelay(x, f))
           /\ \A i \in Id, x \in Id \X Id : ~(KeepsSocket(i, f) /\ KeepsUserPipe(x, f))
           /\ \A x, y \in Id \X Segment : KeepsDelay(x, f) /\ KeepsDelay(y, f) => x = y
           /\ \A x \in Id \X Segment, y \in Id \X Id : ~(KeepsDelay(x, f) /\ KeepsUserPipe(y, f))
           /\ \A x, y \in Id \X Id : KeepsUserPipe(x, f) /\ KeepsUserPipe(y, f) => x = y
<1>1. ASSUME NEW i \in Id, NEW j \in Id, KeepsSocket(i, f), KeepsSocket(j, f) PROVE i = j
  <2>1. Online(i) /\ Online(j) /\ Sock(client[i]) = Sock(client[j])
    BY <1>1 DEF KeepsSocket, Tables, SocketIsOwn
  <2> QED BY <2>1, ClosedIsNoObject DEF Registry, OneNumber, OnlineIds
<1>2. ASSUME NEW i \in Id, KeepsSocket(i, f) PROVE fd[f] \notin PipeEnd
  BY <1>2, KeptIsOpen, ClosedIsNoObject
<1>3. ASSUME NEW x \in Id \X Segment, NEW y \in Id \X Segment, KeepsDelay(x, f), KeepsDelay(y, f)
      PROVE  x = y
  <2>1. PICK p \in Pipe : /\ fd[numbered[x[1]][x[2]].r] = Rd(p) /\ fd[numbered[x[1]][x[2]].w] = Wr(p)
                          /\ purpose[p] = <<client[x[1]], x[2]>> /\ Online(x[1])
    BY <1>3, DelayedPipe DEF KeepsDelay
  <2>2. PICK q \in Pipe : /\ fd[numbered[y[1]][y[2]].r] = Rd(q) /\ fd[numbered[y[1]][y[2]].w] = Wr(q)
                          /\ purpose[q] = <<client[y[1]], y[2]>> /\ Online(y[1])
    BY <1>3, DelayedPipe DEF KeepsDelay
  <2>3. fd[f] \in {Rd(p), Wr(p)} /\ fd[f] \in {Rd(q), Wr(q)} BY <1>3, <2>1, <2>2 DEF KeepsDelay
  <2>4. p = q BY <2>3, ClosedIsNoObject
  <2>5. x[1] = y[1] /\ x[2] = y[2]
    BY <2>1, <2>2, <2>4 DEF Registry, OneNumber, OnlineIds
  <2> QED BY <2>5
<1>4. ASSUME NEW x \in Id \X Segment, NEW y \in Id \X Id, KeepsDelay(x, f), KeepsUserPipe(y, f)
      PROVE  FALSE
  <2>1. PICK p \in Pipe : /\ fd[numbered[x[1]][x[2]].r] = Rd(p) /\ fd[numbered[x[1]][x[2]].w] = Wr(p)
                          /\ purpose[p] = <<client[x[1]], x[2]>>
    BY <1>4, DelayedPipe DEF KeepsDelay
  <2>2. PICK q \in Pipe : /\ fd[userPipe[y].r] = Rd(q) /\ fd[userPipe[y].w] = Wr(q)
                          /\ purpose[q] = <<client[y[2]], 0>>
    BY <1>4, UserPipesPipe DEF KeepsUserPipe
  <2>3. fd[f] \in {Rd(p), Wr(p)} /\ fd[f] \in {Rd(q), Wr(q)}
    BY <1>4, <2>1, <2>2 DEF KeepsDelay, KeepsUserPipe
  <2>4. p = q BY <2>3, ClosedIsNoObject
  <2>5. x[2] = 0 BY <2>1, <2>2, <2>4
  <2> QED BY <2>5 DEF Segment
<1>5. ASSUME NEW x \in Id \X Id, NEW y \in Id \X Id, KeepsUserPipe(x, f), KeepsUserPipe(y, f), x # y
      PROVE  FALSE
  <2>1. PICK p \in Pipe : fd[userPipe[x].r] = Rd(p) /\ fd[userPipe[x].w] = Wr(p)
    BY <1>5, UserPipesPipe DEF KeepsUserPipe
  <2>2. PICK q \in Pipe : fd[userPipe[y].r] = Rd(q) /\ fd[userPipe[y].w] = Wr(q)
    BY <1>5, UserPipesPipe DEF KeepsUserPipe
  <2>3. userPipe[x].r # userPipe[y].r /\ userPipe[x].w # userPipe[y].w
    BY <1>5 DEF Tables, ApartFrom, KeepsUserPipe
  <2> QED BY <1>5, <2>1, <2>2, <2>3, ClosedIsNoObject DEF KeepsUserPipe
<1> QED BY <1>1, <1>2, <1>3, <1>4, <1>5, KeptIsOpen

\* The tables but for some entries.
TablesBut(I, N, U) ==
    /\ \A id \in Id \ I : SocketIsOwn(id)
    /\ \A x \in (Id \X Segment) \ N : DelayIsOwn(x)
    /\ \A x \in (Id \X Id) \ U : UserPipeIsOwn(x)
    /\ \A x, y \in (Id \X Id) \ U : ApartFrom(x, y)

\* The descriptors in C are closed, others may be opened, no pipe in use gets a new
\* purpose.
ClosesOnly(C) ==
    /\ \A f \in Fd : fd[f] # Closed /\ f \notin C => fd'[f] = fd[f]
    /\ \A f \in Fd, q \in Pipe : fd[f] = Rd(q) => purpose'[q] = purpose[q]

\* A descriptor that is closed is nobody's or goes with its keeper.
GoesWith(C, I, N, U) ==
    \A f \in C \intersect Fd :
        \/ Loose(f) \/ fd[f] \in {Closed, Null}
        \/ \E id \in I : KeepsSocket(id, f)
        \/ \E x \in N : KeepsDelay(x, f)
        \/ \E x \in U : KeepsUserPipe(x, f)

\* Nothing new is kept, some entries aside.
NothingNew(I, N, U) ==
    /\ \A id \in Id \ I : client'[id] # Nobody => client'[id] = client[id] /\ sock'[id] = sock[id]
    /\ \A x \in (Id \X Segment) \ N : numbered'[x[1]][x[2]] # NoEnds =>
           numbered'[x[1]][x[2]] = numbered[x[1]][x[2]] /\ client'[x[1]] = client[x[1]]
    /\ \A x \in (Id \X Id) \ U : userPipe'[x] # NoEnds =>
           userPipe'[x] = userPipe[x] /\ client'[x[2]] = client[x[2]]

\* Entries that stay lose no descriptor.
LEMMA KeepersStay ==
    ASSUME Typed, Registry, Tables, NEW C, NEW I \in SUBSET Id, NEW N \in SUBSET (Id \X Segment),
           NEW U \in SUBSET (Id \X Id), GoesWith(C, I, N, U)
    PROVE  /\ \A id \in Id \ I : client[id] # Nobody => sock[id] \notin C
           /\ \A x \in (Id \X Segment) \ N : numbered[x[1]][x[2]] # NoEnds =>
                  numbered[x[1]][x[2]].r \notin C /\ numbered[x[1]][x[2]].w \notin C
           /\ \A x \in (Id \X Id) \ U : userPipe[x] # NoEnds =>
                  userPipe[x].r \notin C /\ userPipe[x].w \notin C
<1>1. ASSUME NEW f \in C, f \in Fd, ~Loose(f)
      PROVE  \/ \E id \in I : KeepsSocket(id, f)
             \/ \E x \in N : KeepsDelay(x, f)
             \/ \E x \in U : KeepsUserPipe(x, f)
  BY <1>1, KeptIsOpen DEF GoesWith
<1>2. ASSUME NEW id \in Id \ I, client[id] # Nobody, sock[id] \in C PROVE FALSE
  <2>1. PICK f : f = sock[id] OBVIOUS
  <2>2. KeepsSocket(id, f) /\ id \in Id BY <1>2, <2>1 DEF KeepsSocket, Online
  <2>3. f \in C /\ f \in Fd /\ ~Loose(f) BY <1>2, <2>1, <2>2, KeptIsOpen DEF Loose
  <2>4. ASSUME NEW i \in I, KeepsSocket(i, f) PROVE FALSE BY <1>2, <2>2, <2>4, KeptByOne
  <2>5. ASSUME NEW x \in N, KeepsDelay(x, f) PROVE FALSE BY <2>2, <2>5, KeptByOne
  <2>6. ASSUME NEW x \in U, KeepsUserPipe(x, f) PROVE FALSE BY <2>2, <2>6, KeptByOne
  <2> QED BY <1>1, <2>3, <2>4, <2>5, <2>6
<1>3. ASSUME NEW x \in (Id \X Segment) \ N, numbered[x[1]][x[2]] # NoEnds,
             NEW f \in {numbered[x[1]][x[2]].r, numbered[x[1]][x[2]].w}, f \in C
      PROVE  FALSE
  <2>2. KeepsDelay(x, f) /\ x \in Id \X Segment BY <1>3 DEF KeepsDelay
  <2>3. f \in C /\ f \in Fd /\ ~Loose(f) BY <1>3, <2>2, KeptIsOpen DEF Loose
  <2>4. ASSUME NEW i \in I, KeepsSocket(i, f) PROVE FALSE BY <2>2, <2>4, KeptByOne
  <2>5. ASSUME NEW y \in N, KeepsDelay(y, f) PROVE FALSE
    <3>1. x = y BY <2>2, <2>5, KeptByOne
    <3> QED BY <1>3, <3>1
  <2>6. ASSUME NEW y \in U, KeepsUserPipe(y, f) PROVE FALSE BY <2>2, <2>6, KeptByOne
  <2> QED BY <1>1, <2>3, <2>4, <2>5, <2>6
<1>4. ASSUME NEW x \in (Id \X Id) \ U, userPipe[x] # NoEnds, NEW f \in {userPipe[x].r, userPipe[x].w}, f \in C
      PROVE  FALSE
  <2>2. KeepsUserPipe(x, f) /\ x \in Id \X Id BY <1>4 DEF KeepsUserPipe
  <2>3. f \in C /\ f \in Fd /\ ~Loose(f) BY <1>4, <2>2, KeptIsOpen DEF Loose
  <2>4. ASSUME NEW i \in I, KeepsSocket(i, f) PROVE FALSE BY <2>2, <2>4, KeptByOne
  <2>5. ASSUME NEW y \in N, KeepsDelay(y, f) PROVE FALSE BY <2>2, <2>5, KeptByOne
  <2>6. ASSUME NEW y \in U, KeepsUserPipe(y, f) PROVE FALSE
    <3>1. x = y BY <2>2, <2>6, KeptByOne
    <3> QED BY <1>4, <3>1
  <2> QED BY <1>1, <2>3, <2>4, <2>5, <2>6
<1> QED BY <1>2, <1>3, <1>4

LEMMA TablesKept ==
    ASSUME Typed, Registry, Tables, NEW C, NEW I \in SUBSET Id, NEW N \in SUBSET (Id \X Segment),
           NEW U \in SUBSET (Id \X Id), GoesWith(C, I, N, U), ClosesOnly(C), NothingNew(I, N, U)
    PROVE  TablesBut(I, N, U)'
<1>1. ASSUME NEW id \in Id \ I PROVE SocketIsOwn(id)'
  <2> SUFFICES ASSUME client'[id] # Nobody PROVE sock'[id] # 0 /\ fd'[sock'[id]] = Sock(client'[id])
    BY DEF SocketIsOwn, Online
  <2>1. client'[id] = client[id] /\ sock'[id] = sock[id] BY DEF NothingNew
  <2>2. sock[id] \notin C BY <2>1, KeepersStay
  <2>3. KeepsSocket(id, sock[id]) BY <2>1 DEF KeepsSocket, Online
  <2>4. sock[id] \in Fd /\ fd[sock[id]] # Closed BY <2>3, KeptIsOpen, ClosedIsNoObject
  <2>5. fd'[sock[id]] = fd[sock[id]] BY <2>2, <2>4 DEF ClosesOnly
  <2> QED BY <2>1, <2>5 DEF Tables, SocketIsOwn, Online
<1>2. ASSUME NEW x \in (Id \X Segment) \ N PROVE DelayIsOwn(x)'
  <2> SUFFICES ASSUME numbered'[x[1]][x[2]] # NoEnds PROVE DelayIsOwn(x)'
    BY DEF DelayIsOwn
  <2> x \in Id \X Segment OBVIOUS
  <2>1. PICK e : e = numbered[x[1]][x[2]] OBVIOUS
  <2>2. numbered'[x[1]][x[2]] = e /\ client'[x[1]] = client[x[1]] /\ e # NoEnds
    BY <2>1 DEF NothingNew
  <2>3. e.r \notin C /\ e.w \notin C BY <2>1, <2>2, KeepersStay
  <2>4. PICK q \in Pipe : fd[e.r] = Rd(q) /\ fd[e.w] = Wr(q) /\ purpose[q] = <<client[x[1]], x[2]>>
    <3>1. DelayIsOwn(x) BY DEF Tables
    <3> QED BY <2>1, <2>2, <3>1 DEF DelayIsOwn, EndsOfPipe
  <2>5. KeepsDelay(x, e.r) /\ KeepsDelay(x, e.w) BY <2>1, <2>2 DEF KeepsDelay
  <2>6. e.r \in Fd /\ e.w \in Fd BY <2>5, KeptIsOpen
  <2>7. fd'[e.r] = Rd(q) /\ fd'[e.w] = Wr(q) /\ purpose'[q] = <<client[x[1]], x[2]>>
    BY <2>3, <2>4, <2>6, ClosedIsNoObject DEF ClosesOnly
  <2>8. e.r # 0 /\ e.w # 0 BY <2>6 DEF Fd
  <2>9. client[x[1]] # Nobody BY <2>1, <2>2 DEF Tables, DelayIsOwn, Online
  <2> QED BY <2>2, <2>7, <2>8, <2>9 DEF DelayIsOwn, EndsOfPipe, Online
<1>3. ASSUME NEW x \in (Id \X Id) \ U PROVE UserPipeIsOwn(x)'
  <2> SUFFICES ASSUME userPipe'[x] # NoEnds PROVE UserPipeIsOwn(x)'
    BY DEF UserPipeIsOwn
  <2> x \in Id \X Id OBVIOUS
  <2>1. PICK e : e = userPipe[x] OBVIOUS
  <2>2. userPipe'[x] = e /\ client'[x[2]] = client[x[2]] /\ e # NoEnds
    BY <2>1 DEF NothingNew
  <2>3. e.r \notin C /\ e.w \notin C BY <2>1, <2>2, KeepersStay
  <2>4. PICK q \in Pipe : fd[e.r] = Rd(q) /\ fd[e.w] = Wr(q) /\ purpose[q] = <<client[x[2]], 0>>
    <3>1. UserPipeIsOwn(x) BY DEF Tables
    <3> QED BY <2>1, <2>2, <3>1 DEF UserPipeIsOwn, EndsOfPipe
  <2>5. KeepsUserPipe(x, e.r) /\ KeepsUserPipe(x, e.w) BY <2>1, <2>2 DEF KeepsUserPipe
  <2>6. e.r \in Fd /\ e.w \in Fd BY <2>5, KeptIsOpen
  <2>7. fd'[e.r] = Rd(q) /\ fd'[e.w] = Wr(q) /\ purpose'[q] = <<client[x[2]], 0>>
    BY <2>3, <2>4, <2>6, ClosedIsNoObject DEF ClosesOnly
  <2>8. e.r # 0 /\ e.w # 0 BY <2>6 DEF Fd
  <2> QED BY <2>2, <2>7, <2>8 DEF UserPipeIsOwn, EndsOfPipe
<1>4. ASSUME NEW x \in (Id \X Id) \ U, NEW y \in (Id \X Id) \ U PROVE ApartFrom(x, y)'
  BY DEF Tables, ApartFrom, NothingNew
<1> QED BY <1>1, <1>2, <1>3, <1>4 DEF TablesBut

LEMMA TablesAgain ==
    ASSUME NEW I, NEW N, NEW U, TablesBut(I, N, U)',
           \A id \in Id \intersect I : SocketIsOwn(id)',
           \A x \in (Id \X Segment) \intersect N : DelayIsOwn(x)',
           \A x \in (Id \X Id) \intersect U : UserPipeIsOwn(x)',
           \A x \in (Id \X Id) \intersect U, y \in Id \X Id : ApartFrom(x, y)' /\ ApartFrom(y, x)'
    PROVE  Tables'
<1>1. \A id \in Id : SocketIsOwn(id)' BY DEF TablesBut
<1>2. \A x \in Id \X Segment : DelayIsOwn(x)' BY DEF TablesBut
<1>3. \A x \in Id \X Id : UserPipeIsOwn(x)' BY DEF TablesBut
<1>4. \A x, y \in Id \X Id : ApartFrom(x, y)' BY DEF TablesBut
<1> QED BY <1>1, <1>2, <1>3, <1>4 DEF Tables

\* Nothing is kept by what is gone.
LEMMA GoneIsGone ==
    /\ \A id \in Id : client'[id] = Nobody => SocketIsOwn(id)'
    /\ \A x \in Id \X Segment : numbered'[x[1]][x[2]] = NoEnds => DelayIsOwn(x)'
    /\ \A x \in Id \X Id : userPipe'[x] = NoEnds =>
           UserPipeIsOwn(x)' /\ \A y \in Id \X Id : ApartFrom(x, y)' /\ ApartFrom(y, x)'
BY DEF SocketIsOwn, Online, DelayIsOwn, UserPipeIsOwn, ApartFrom

LEMMA TablesAlone ==
    ASSUME Typed, Tables, UNCHANGED <<fd, client, sock, numbered, userPipe, purpose>>
    PROVE  Tables'
BY DEF Tables, SocketIsOwn, DelayIsOwn, UserPipeIsOwn, ApartFrom, EndsOfPipe, Online

LEMMA IdleLine ==
    ASSUME line' = NoLine, pc' \in {"select", "accept", "serve", "line", "dead"}
    PROVE  LineHolds' /\ LineMoves'
BY DEF LineHolds, LineMoves, NoLine

LEMMA CleanupDesc ==
    ASSUME Typed, Registry, Desc, pc \in Serving, CleanupClient(cur)
    PROVE  Desc'
<1>1. cur \in Id /\ client[cur] \in Conn /\ client[cur] # Nobody BY CurIsHere, ConnAssumption
<1>2. PICK C : C = {sock[cur]} \union ShellStateFds(cur) \union FdsOf({userPipe[x] : x \in UserPipesOf(cur)})
  OBVIOUS
<1>3. PICK N : N = {x \in Id \X Segment : x[1] = cur} OBVIOUS
<1>4. PICK U, J : U = UserPipesOf(cur) /\ J = {cur} OBVIOUS
<1>5. /\ fd' = [f \in Fd |-> IF f \in C THEN Closed ELSE fd[f]]
      /\ userPipe' = [x \in Id \X Id |-> IF x \in U THEN NoEnds ELSE userPipe[x]]
      /\ numbered' = [numbered EXCEPT ![cur] = [s \in Segment |-> NoEnds]]
      /\ client' = [client EXCEPT ![cur] = Nobody]
      /\ sock' = [sock EXCEPT ![cur] = 0]
      /\ line' = NoLine /\ pc' \in {"serve", "dead"} /\ purpose' = purpose
  BY <1>2, <1>4 DEF CleanupClient, Goto, commands
<1>6. ASSUME NEW f \in C \intersect Fd
      PROVE  \/ \E id \in {cur} : KeepsSocket(id, f)
             \/ \E x \in N : KeepsDelay(x, f)
             \/ \E x \in U : KeepsUserPipe(x, f)
  <2>1. CASE f = sock[cur] BY <1>1, <2>1 DEF KeepsSocket, Online
  <2>2. CASE f \in ShellStateFds(cur)
    <3>1. PICK s \in Segment : numbered[cur][s] # NoEnds /\ f \in {numbered[cur][s].r, numbered[cur][s].w}
      BY <2>2 DEF ShellStateFds, FdsOf, EndsOf
    <3>2. <<cur, s>> \in N BY <1>1, <1>3
    <3> QED BY <3>1, <3>2 DEF KeepsDelay
  <2>3. CASE f \in FdsOf({userPipe[x] : x \in UserPipesOf(cur)})
    BY <1>4, <2>3 DEF FdsOf, UserPipesOf, KeepsUserPipe
  <2> QED BY <1>2, <2>1, <2>2, <2>3
<1>7. N \subseteq Id \X Segment /\ U \subseteq Id \X Id BY <1>3, <1>4 DEF UserPipesOf
<1>8. NothingNew(J, N, U)
  <2>1. \A x \in (Id \X Id) \ U : userPipe'[x] # NoEnds =>
            userPipe'[x] = userPipe[x] /\ client'[x[2]] = client[x[2]]
    BY <1>4, <1>5 DEF UserPipesOf, Typed, ClientsType
  <2>2. \A id \in Id \ {cur} : client'[id] # Nobody => client'[id] = client[id] /\ sock'[id] = sock[id]
    BY <1>5 DEF Typed, ClientsType, TablesType
  <2>3. ASSUME NEW x \in (Id \X Segment) \ N
        PROVE  numbered'[x[1]] = numbered[x[1]] /\ client'[x[1]] = client[x[1]]
    <3>1. x[1] \in Id /\ x[1] # cur BY <1>3
    <3> QED BY <1>5, <3>1 DEF Typed, ClientsType, TablesType
  <2> QED BY <1>4, <2>1, <2>2, <2>3 DEF NothingNew
<1>9. ClosesOnly(C) BY <1>5 DEF ClosesOnly
<1>10. GoesWith(C, J, N, U) BY <1>4, <1>6 DEF GoesWith
<1>11. TablesBut(J, N, U)'
  <2>1. J \in SUBSET Id /\ N \in SUBSET (Id \X Segment) /\ U \in SUBSET (Id \X Id) BY <1>1, <1>4, <1>7
  <2> QED BY <1>8, <1>9, <1>10, <2>1, TablesKept DEF Desc
<1>12. Tables'
  <2>1. client'[cur] = Nobody BY <1>1, <1>5 DEF Typed, ClientsType
  <2>2. \A x \in N : numbered'[x[1]][x[2]] = NoEnds BY <1>1, <1>3, <1>5 DEF Typed, TablesType
  <2>3. \A x \in U : userPipe'[x] = NoEnds BY <1>5, <1>7
  <2>4. \A id \in Id \intersect J : SocketIsOwn(id)' BY <1>4, <2>1, GoneIsGone
  <2>5. \A x \in (Id \X Segment) \intersect N : DelayIsOwn(x)' BY <2>2, GoneIsGone
  <2>6. \A x \in (Id \X Id) \intersect U : UserPipeIsOwn(x)' BY <2>3, GoneIsGone
  <2>7. \A x \in (Id \X Id) \intersect U, y \in Id \X Id : ApartFrom(x, y)' /\ ApartFrom(y, x)'
    BY <2>3, GoneIsGone
  <2> QED BY <1>11, <2>4, <2>5, <2>6, <2>7, TablesAgain
<1> QED BY <1>5, <1>12, IdleLine DEF Desc

\* A built-in closes the delayed pipe that is due.
LEMMA CountDesc ==
    ASSUME Typed, Registry, Desc, cur \in Id, CountBuiltin, UNCHANGED <<client, sock, userPipe, purpose, line>>,
           line = NoLine, pc' \in {"select", "accept", "serve", "line", "dead"}
    PROVE  Desc'
<1>1. PICK s \in Segment : /\ fd' = Discarded(fd, numbered[cur][s])
                           /\ numbered' = [numbered EXCEPT ![cur][s] = NoEnds]
  BY DEF CountBuiltin
<1>2. PICK e : e = numbered[cur][s] OBVIOUS
<1>3. e \in Ends BY <1>2 DEF Typed, TablesType
<1>4. PICK C, N : C = {e.r, e.w} /\ N = {<<cur, s>>} OBVIOUS
<1>5. \A f \in Fd : fd[f] # Closed /\ f \notin C => fd'[f] = fd[f]
  BY <1>1, <1>2, <1>3, <1>4, CloseIs DEF Discarded, ClosePipe, Ends, Typed, TablesType
<1>6. ASSUME NEW f \in C \intersect Fd PROVE \E x \in N : KeepsDelay(x, f)
  <2>1. e # NoEnds BY <1>4 DEF NoEnds, Fd
  <2> QED BY <1>2, <1>4, <2>1 DEF KeepsDelay
<1>7. NothingNew({}, N, {})
  <2>1. ASSUME NEW x \in (Id \X Segment) \ N PROVE numbered'[x[1]][x[2]] = numbered[x[1]][x[2]]
    <3>1. PICK i \in Id, g \in Segment : x = <<i, g>> OBVIOUS
    <3>2. i # cur \/ g # s BY <1>4, <3>1
    <3>3. numbered'[i][g] = numbered[i][g] BY <1>1, <3>2 DEF Typed, TablesType
    <3> QED BY <3>1, <3>3
  <2> QED BY <2>1 DEF NothingNew
<1>8. TablesBut({}, N, {})'
  <2>1. {} \in SUBSET Id /\ N \in SUBSET (Id \X Segment) /\ {} \in SUBSET (Id \X Id) BY <1>4
  <2>2. GoesWith(C, {}, N, {}) BY <1>6 DEF GoesWith
  <2>3. ClosesOnly(C) BY <1>5 DEF ClosesOnly
  <2> QED BY <1>7, <2>1, <2>2, <2>3, TablesKept DEF Desc
<1>9. numbered'[cur][s] = NoEnds BY <1>1 DEF Typed, TablesType
<1>10. Tables'
  <2>1. \A x \in (Id \X Segment) \intersect N : DelayIsOwn(x)' BY <1>4, <1>9, GoneIsGone
  <2> QED BY <1>8, <2>1, TablesAgain
<1> QED BY <1>10, IdleLine DEF Desc

LEMMA AcceptDesc ==
    ASSUME Typed, Registry, Desc, NEW c \in Conn, NEW id \in Id, Accept(c, id)
    PROVE  Desc'
<1>1. PICK l : l = Lowest(fd) OBVIOUS
<1>2. /\ l \in Fd /\ fd[l] = Closed /\ fd'[l] = Sock(c)
      /\ \A f \in Fd : f # l => fd'[f] = fd[f]
  BY <1>1, OpenIs, ClosedIsNoObject DEF Accept, Typed, TablesType
<1>3. /\ client' = [client EXCEPT ![id] = c] /\ client[id] = Nobody
      /\ sock' = [sock EXCEPT ![id] = l]
      /\ numbered' = [numbered EXCEPT ![id] = [s \in Segment |-> NoEnds]]
      /\ UNCHANGED <<userPipe, line, purpose>> /\ pc' \in {"serve", "dead"} /\ pc = "accept"
  BY <1>1 DEF Accept, SmallestUnusedId, Online, Goto, commands
<1>4. line' = NoLine BY <1>3 DEF Desc, LineMoves
<1>5. PICK N : N = {x \in Id \X Segment : x[1] = id} OBVIOUS
<1>6. ASSUME NEW x \in (Id \X Segment) \ N
      PROVE  numbered'[x[1]] = numbered[x[1]] /\ client'[x[1]] = client[x[1]]
  <2>1. x[1] \in Id /\ x[1] # id BY <1>5
  <2> QED BY <1>3, <2>1 DEF Typed, ClientsType, TablesType
<1>7. ASSUME NEW x \in Id \X Id, userPipe[x] # NoEnds PROVE client'[x[2]] = client[x[2]]
  <2>1. x[2] # id /\ x[2] \in Id BY <1>3, <1>7 DEF Registry, PipesBetweenUsers, UserPipesIn, Online
  <2> QED BY <1>3, <2>1 DEF Typed, ClientsType
<1>8. TablesBut({id}, N, {})'
  <2>1. {id} \in SUBSET Id /\ N \in SUBSET (Id \X Segment) /\ {} \in SUBSET (Id \X Id) BY <1>5
  <2>2. \A i \in Id \ {id} : client'[i] # Nobody => client'[i] = client[i] /\ sock'[i] = sock[i]
    BY <1>3 DEF Typed, ClientsType, TablesType
  <2>3. ClosesOnly({}) BY <1>2, <1>3 DEF ClosesOnly
  <2>4. GoesWith({}, {id}, N, {}) BY DEF GoesWith
  <2>5. NothingNew({id}, N, {}) BY <1>3, <1>6, <1>7, <2>2 DEF NothingNew
  <2> QED BY <2>1, <2>3, <2>4, <2>5, TablesKept DEF Desc
<1>9. SocketIsOwn(id)'
  BY <1>2, <1>3 DEF SocketIsOwn, Typed, ClientsType, TablesType, Fd
<1>10. ASSUME NEW x \in N PROVE DelayIsOwn(x)'
  <2>1. numbered'[x[1]][x[2]] = NoEnds /\ x \in Id \X Segment BY <1>3, <1>5, <1>10 DEF Typed, TablesType
  <2> QED BY <2>1, GoneIsGone
<1>11. Tables'
  <2>1. \A i \in Id \intersect {id} : SocketIsOwn(i)' BY <1>9
  <2> QED BY <1>8, <1>10, <2>1, TablesAgain
<1> QED BY <1>3, <1>4, <1>11, IdleLine DEF Desc

LEMMA ShapeIsSequence ==
    \A s \in Shape : s \in Seq(Nat \union {NoPipe, Ordinary}) /\ Len(s) \in Nat /\ Len(s) > 0
<1> SUFFICES ASSUME NEW s \in Shape PROVE s \in Seq(Nat \union {NoPipe, Ordinary}) /\ Len(s) \in Nat /\ Len(s) > 0
  OBVIOUS
<1>1. s \in Seq(Nat \union {NoPipe, Ordinary}) /\ s # <<>> BY ShapeAssumption
<1> QED BY <1>1

\* A step that keeps nothing new leaves a loose descriptor loose, and what it closes.
LEMMA LooseAgain ==
    ASSUME Typed, Registry, Tables, NEW C, NEW I \in SUBSET Id, NEW N \in SUBSET (Id \X Segment),
           NEW U \in SUBSET (Id \X Id), GoesWith(C, I, N, U), NothingNew(I, N, U),
           NEW f, Loose(f) \/ f \in C,
           \A id \in I : ~KeepsSocket(id, f)', \A x \in N : ~KeepsDelay(x, f)',
           \A x \in U : ~KeepsUserPipe(x, f)'
    PROVE  Loose(f)'
<1>1. ASSUME NEW id \in Id \ I, KeepsSocket(id, f)' PROVE FALSE
  <2>1. KeepsSocket(id, f) /\ client[id] # Nobody /\ sock[id] = f
    BY <1>1 DEF KeepsSocket, Online, NothingNew
  <2>2. ~Loose(f) BY <2>1 DEF Loose
  <2> QED BY <2>1, <2>2, KeepersStay
<1>2. ASSUME NEW x \in (Id \X Segment) \ N, KeepsDelay(x, f)' PROVE FALSE
  <2>1. numbered'[x[1]][x[2]] # NoEnds /\ numbered'[x[1]][x[2]] = numbered[x[1]][x[2]]
    BY <1>2 DEF KeepsDelay, NothingNew
  <2>2. KeepsDelay(x, f) BY <1>2, <2>1 DEF KeepsDelay
  <2>3. ~Loose(f) BY <2>2 DEF Loose
  <2>4. numbered[x[1]][x[2]] # NoEnds /\ f \in {numbered[x[1]][x[2]].r, numbered[x[1]][x[2]].w}
    BY <2>2 DEF KeepsDelay
  <2>5. f \notin C
    <3>1. numbered[x[1]][x[2]].r \notin C /\ numbered[x[1]][x[2]].w \notin C BY <2>4, KeepersStay
    <3> QED BY <2>4, <3>1
  <2> QED BY <2>3, <2>5
<1>3. ASSUME NEW x \in (Id \X Id) \ U, KeepsUserPipe(x, f)' PROVE FALSE
  <2>1. userPipe'[x] # NoEnds /\ userPipe'[x] = userPipe[x]
    BY <1>3 DEF KeepsUserPipe, NothingNew
  <2>2. KeepsUserPipe(x, f) BY <1>3, <2>1 DEF KeepsUserPipe
  <2>3. ~Loose(f) BY <2>2 DEF Loose
  <2>4. f \notin C BY <2>1, <2>2, KeepersStay DEF KeepsUserPipe
  <2> QED BY <2>3, <2>4
<1> QED BY <1>1, <1>2, <1>3 DEF Loose

LEMMA DescSession ==
    ASSUME Typed, Registry, Desc, Server, pc \in {"select", "accept", "serve", "line"}
    PROVE  Desc'
<1> USE DEF registry, session, commands
<1>1. line = NoLine BY DEF Desc, LineMoves
<1>2. ASSUME UNCHANGED <<fd, client, sock, numbered, userPipe, purpose, line>>,
             pc' \in {"select", "accept", "serve", "line", "dead"}
      PROVE  Desc'
  BY <1>1, <1>2, TablesAlone, IdleLine DEF Desc
<1>3. ASSUME NEW R \in SUBSET Id, Select(R) PROVE Desc'
  BY <1>2, <1>3 DEF Select
<1>4. ASSUME NEW c \in Conn, Refuse(c) PROVE Desc'
  BY <1>2, <1>4 DEF Refuse
<1>5. ASSUME NEW id \in Id, NextReady(id) PROVE Desc'
  BY <1>2, <1>5 DEF NextReady
<1>6. CASE NoneReady
  BY <1>2, <1>6 DEF NoneReady
<1>7. CASE EndOfInput
  BY <1>7, CleanupDesc DEF EndOfInput, Serving
<1>8. CASE ExitLine
  BY <1>8, CleanupDesc DEF ExitLine, TakesLine, Serving
<1>9. CASE Builtin
  <2>1. cur \in Id BY <1>9, TakesLineTyped DEF Builtin
  <2> QED BY <1>1, <1>9, <2>1, CountDesc DEF Builtin, Prompt, Goto
<1>14. CASE NotANumber
  BY <1>2, <1>14 DEF NotANumber
<1>10. ASSUME NEW n \in Name, Rename(n) PROVE Desc'
  <2>1. cur \in Id BY <1>10, TakesLineTyped DEF Rename
  <2> QED BY <1>1, <1>10, <2>1, CountDesc DEF Rename, Prompt, Goto
<1>11. ASSUME NEW s \in Shape, NEW f \in Id \union {NoUser}, NEW t \in Id \union {NoUser}, Parse(s, f, t)
       PROVE  Desc'
  <2>1. /\ line' = [cmds |-> s, i |-> 0, seg |-> executed[cur], from |-> f, to |-> t, inFd |-> 0, user |-> 0,
                    outFd |-> 0, devIn |-> 0, devOut |-> 0, waits |-> {}]
        /\ pc' = "resolveIn" /\ UNCHANGED <<fd, client, sock, numbered, userPipe, purpose>>
    BY <1>11 DEF Parse, NoLine
  <2>2. s # <<>> BY ShapeAssumption
  <2>3. LineHolds' /\ LineMoves' BY <2>1, <2>2 DEF LineHolds, LineMoves
  <2> QED BY <2>1, <2>3, TablesAlone DEF Desc
<1>12. /\ ~NotAsked /\ ~ResolveInNull /\ ~ResolveIn /\ ~ResolveOutNull /\ ~Reap
       /\ \A q \in Pipe : ~ResolveOut(q)
  BY DEF NotAsked, ResolveInNull, ResolveIn, ResolveOutNull, Reap, ResolveOut
<1>13. /\ \A k \in Kid : ~RunPlain(k) /\ ~RunNumbered(k)
       /\ \A k \in Kid, q \in Pipe : ~RunPiped(k, q) /\ ~RunNewNumbered(k, q)
  BY RunsAtCommand
<1> QED
  BY <1>3, <1>4, <1>5, <1>6, <1>7, <1>8, <1>9, <1>10, <1>11, <1>12, <1>13, <1>14, AcceptDesc DEF Server

\* /dev/null in place of a pipe.
LEMMA OpenedDesc ==
    ASSUME Typed, Registry, Desc, Room(fd, 1), fd' = Opened(fd, Null), NEW l, l = Lowest(fd),
           UNCHANGED <<client, sock, numbered, userPipe, purpose>>
    PROVE  /\ Tables' /\ Loose(l)' /\ l \in Fd /\ fd'[l] = Null /\ l # 0
           /\ \A f \in Fd : fd[f] # Closed => f # l /\ fd'[f] = fd[f]
           /\ \A f : Loose(f) => Loose(f)'
<1>1. l \in Fd /\ fd[l] = Closed /\ fd'[l] = Null /\ \A f \in Fd : f # l => fd'[f] = fd[f]
  BY OpenIs, ClosedIsNoObject DEF Typed, TablesType
<1>2. ClosesOnly({}) BY <1>1 DEF ClosesOnly
<1>3. GoesWith({}, {}, {}, {}) BY DEF GoesWith
<1>4. NothingNew({}, {}, {}) BY DEF NothingNew
<1>5. TablesBut({}, {}, {})'
  <2>1. {} \in SUBSET Id /\ {} \in SUBSET (Id \X Segment) /\ {} \in SUBSET (Id \X Id) OBVIOUS
  <2> QED BY <1>2, <1>3, <1>4, <2>1, TablesKept DEF Desc
<1>6. Tables' BY <1>5, TablesAgain
<1>7. \A f : Loose(f) => Loose(f)' BY DEF Loose, KeepsSocket, KeepsDelay, KeepsUserPipe, Online
<1>8. Loose(l) BY <1>1, KeptIsOpen DEF Desc
<1> QED BY <1>1, <1>6, <1>7, <1>8 DEF Fd

LEMMA DescResolve ==
    ASSUME Typed, Registry, Desc, Server, pc \in {"resolveIn", "resolveOut"}
    PROVE  Desc'
<1> USE DEF registry, session, commands
<1>1. cur \in Id /\ client[cur] \in Conn BY CurIsHere DEF Serving
<1>2. line.i = 0 /\ line.inFd = 0 /\ line.cmds # <<>> BY DEF Desc, LineHolds, LineMoves
<1>3. Len(line.cmds) \in Nat /\ 0 < Len(line.cmds)
  <2>1. line.cmds \in Shape /\ line.cmds # <<>> BY <1>2 DEF Typed, ControlType, LineSet
  <2> QED BY <2>1, ShapeIsSequence
<1>4. CASE NotAsked
  <2>1. Tables' BY <1>4, TablesAlone DEF NotAsked, Desc
  <2>2. LineHolds' BY <1>4 DEF NotAsked, Desc, LineHolds, Loose, KeepsSocket, KeepsDelay, KeepsUserPipe, Online, Starts
  <2>3. LineMoves' BY <1>2, <1>3, <1>4 DEF NotAsked, Desc, LineMoves
  <2> QED BY <2>1, <2>2, <2>3 DEF Desc
<1>5. CASE ResolveInNull
  <2>1. PICK l : l = Lowest(fd) OBVIOUS
  <2>2. /\ line' = [line EXCEPT !.user = l, !.devIn = l] /\ pc' \in {"resolveOut", "dead"} /\ Mistakes
        /\ Room(fd, 1) /\ fd' = Opened(fd, Null)
        /\ UNCHANGED <<client, sock, numbered, userPipe, purpose>>
    BY <1>5, <2>1 DEF ResolveInNull, Goto
  <2>3. /\ Tables' /\ Loose(l)' /\ l \in Fd /\ fd'[l] = Null /\ l # 0
        /\ \A f \in Fd : fd[f] # Closed => f # l /\ fd'[f] = fd[f]
    BY <2>1, <2>2, OpenedDesc
  <2>4. /\ line'.user = l /\ line'.devIn = l /\ line'.i = 0 /\ line'.inFd = 0 /\ line'.devOut = line.devOut
        /\ line'.cmds = line.cmds
    BY <1>2, <2>2 DEF Typed, ControlType, LineSet
  <2>5. line.devOut # 0 => line.devOut # l /\ fd'[line.devOut] = Null
    BY <2>3, ClosedIsNoObject DEF Desc, LineHolds, Typed, ControlType, LineSet
  <2>6. LineHolds' BY <2>2, <2>3, <2>4, <2>5 DEF LineHolds
  <2>7. LineMoves' BY <1>2, <1>3, <2>2, <2>4 DEF LineMoves
  <2> QED BY <2>3, <2>6, <2>7 DEF Desc
<1>6. CASE ResolveOutNull
  <2>1. PICK l : l = Lowest(fd) OBVIOUS
  <2>2. /\ line' = [line EXCEPT !.outFd = l, !.devOut = l] /\ pc' \in {"command", "dead"}
        /\ Room(fd, 1) /\ fd' = Opened(fd, Null)
        /\ UNCHANGED <<client, sock, numbered, userPipe, purpose>>
    BY <1>6, <2>1 DEF ResolveOutNull, Goto
  <2>3. /\ Tables' /\ l \in Fd /\ fd'[l] = Null /\ l # 0
        /\ \A f \in Fd : fd[f] # Closed => f # l /\ fd'[f] = fd[f]
        /\ \A f : Loose(f) => Loose(f)'
    BY <2>1, <2>2, OpenedDesc
  <2>4. /\ line'.user = line.user /\ line'.devIn = line.devIn /\ line'.i = 0 /\ line'.inFd = 0 /\ line'.devOut = l
        /\ line'.cmds = line.cmds
    BY <1>2, <2>2 DEF Typed, ControlType, LineSet
  <2>5. PICK u : u = line.user OBVIOUS
  <2>6. u # 0 => Loose(u)' /\ (fd'[u] = Null \/ IsReader(fd'[u])) /\ u # l
    <3> SUFFICES ASSUME u # 0 PROVE Loose(u)' /\ (fd'[u] = Null \/ IsReader(fd'[u])) /\ u # l
      OBVIOUS
    <3>1. Loose(u) /\ (fd[u] = Null \/ IsReader(fd[u])) /\ u \in Fd
      BY <1>2, <2>5 DEF Desc, LineHolds, Typed, ControlType, LineSet
    <3>2. fd[u] # Closed BY <3>1, ClosedIsNoObject DEF IsReader
    <3> QED BY <2>3, <3>1, <3>2
  <2>7. line.devIn # 0 => line.devIn = line.user /\ Mistakes BY DEF Desc, LineHolds
  <2>8. LineHolds' BY <2>3, <2>4, <2>5, <2>6, <2>7 DEF LineHolds
  <2>9. LineMoves' BY <1>2, <1>3, <2>2, <2>4 DEF LineMoves
  <2> QED BY <2>3, <2>8, <2>9 DEF Desc
<1>7. CASE ResolveIn
  <2>1. PICK x : x = <<line.from, cur>> OBVIOUS
  <2>2. x \in Id \X Id /\ userPipe[x] # NoEnds
    BY <1>1, <1>7, <2>1 DEF ResolveIn, Typed, ControlType, LineSet
  <2>3. PICK e : e = userPipe[x] OBVIOUS
  <2>4. /\ line' = [line EXCEPT !.user = e.r] /\ pc' \in {"resolveOut", "dead"} /\ pc = "resolveIn"
        /\ fd' = CloseFd(fd, e.w) /\ userPipe' = [userPipe EXCEPT ![x] = NoEnds]
        /\ UNCHANGED <<client, sock, numbered, purpose>>
    BY <1>7, <2>1, <2>3 DEF ResolveIn, Goto, Drained, Taken
  <2>5. KeepsUserPipe(x, e.r) /\ KeepsUserPipe(x, e.w) BY <2>2, <2>3 DEF KeepsUserPipe
  <2>6. PICK q \in Pipe : fd[e.r] = Rd(q) /\ fd[e.w] = Wr(q)
    BY <2>2, <2>3, UserPipesPipe DEF Desc
  <2>7. e.r \in Fd /\ e.w \in Fd /\ e.r # e.w /\ e.r # 0
    BY <2>2, <2>5, <2>6, KeptIsOpen, ClosedIsNoObject DEF Desc, Fd
  <2>8. PICK C, U : C = {e.r, e.w} /\ U = {x} OBVIOUS
  <2>9. \A f \in Fd : f # e.w => fd'[f] = fd[f] BY <2>4, <2>7, CloseIs DEF Typed, TablesType
  <2>10. ClosesOnly(C) BY <2>4, <2>8, <2>9 DEF ClosesOnly
  <2>11. GoesWith(C, {}, {}, U) BY <2>5, <2>8 DEF GoesWith
  <2>12. NothingNew({}, {}, U) BY <2>4, <2>8 DEF NothingNew, Typed, TablesType
  <2>13. {} \in SUBSET Id /\ {} \in SUBSET (Id \X Segment) /\ U \in SUBSET (Id \X Id) BY <2>2, <2>8
  <2>14. userPipe'[x] = NoEnds BY <2>2, <2>4 DEF Typed, TablesType
  <2>15. Tables'
    <3>1. TablesBut({}, {}, U)' BY <2>10, <2>11, <2>12, <2>13, TablesKept DEF Desc
    <3>2. \A y \in (Id \X Id) \intersect U : UserPipeIsOwn(y)' BY <2>2, <2>8, <2>14, GoneIsGone
    <3>3. \A y \in (Id \X Id) \intersect U, z \in Id \X Id : ApartFrom(y, z)' /\ ApartFrom(z, y)'
      BY <2>2, <2>8, <2>14, GoneIsGone
    <3> QED BY <3>1, <3>2, <3>3, TablesAgain
  <2>16. Loose(e.r)'
    <3>1. \A y \in U : ~KeepsUserPipe(y, e.r)' BY <2>8, <2>14 DEF KeepsUserPipe
    <3>2. e.r \in C BY <2>8
    <3> QED BY <2>11, <2>12, <2>13, <3>1, <3>2, LooseAgain DEF Desc
  <2>17. fd'[e.r] = Rd(q) BY <2>6, <2>7, <2>9
  <2>18. /\ line'.user = e.r /\ line'.devIn = line.devIn /\ line'.i = 0 /\ line'.inFd = 0
         /\ line'.devOut = line.devOut /\ line'.cmds = line.cmds
    BY <1>2, <2>4 DEF Typed, ControlType, LineSet
  <2>19. line.devOut # 0 => fd'[line.devOut] = Null /\ line.devOut # e.r
    <3> SUFFICES ASSUME line.devOut # 0 PROVE fd'[line.devOut] = Null /\ line.devOut # e.r
      OBVIOUS
    <3>1. fd[line.devOut] = Null /\ line.devOut \in Fd BY DEF Desc, LineHolds, Typed, ControlType, LineSet
    <3> QED BY <2>6, <2>9, <3>1, ClosedIsNoObject
  <2>20. line.devIn = 0 BY <2>4 DEF Desc, LineHolds, LineMoves
  <2>21. LineHolds' BY <2>16, <2>17, <2>18, <2>19, <2>20 DEF LineHolds, IsReader
  <2>22. LineMoves' BY <1>2, <1>3, <2>4, <2>18 DEF LineMoves
  <2> QED BY <2>15, <2>21, <2>22 DEF Desc
<1>8. ASSUME NEW q \in Pipe, ResolveOut(q) PROVE Desc'
  <2>1. PICK x : x = <<cur, line.to>> OBVIOUS
  <2>2. x \in Id \X Id /\ userPipe[x] = NoEnds /\ x[2] = line.to
    BY <1>1, <1>8, <2>1 DEF ResolveOut, Typed, ControlType, LineSet
  <2>3. PICK e : e = PipeFds(fd, q) OBVIOUS
  <2>4. /\ line' = [line EXCEPT !.outFd = e.w] /\ pc' \in {"command", "dead"} /\ pc = "resolveOut"
        /\ userPipe' = [userPipe EXCEPT ![x] = e] /\ purpose' = [purpose EXCEPT ![q] = <<client[line.to], 0>>]
        /\ UNCHANGED <<client, sock, numbered>> /\ Fresh(q)
    BY <1>8, <2>1, <2>3 DEF ResolveOut, Goto
  <2>5. /\ e.r \in Fd /\ e.w \in Fd /\ e.r # e.w /\ fd[e.r] = Closed /\ fd[e.w] = Closed
        /\ fd'[e.r] = Rd(q) /\ fd'[e.w] = Wr(q)
        /\ \A f \in Fd : f \notin {e.r, e.w} => fd'[f] = fd[f]
    BY <1>8, <2>3, PipeIs DEF ResolveOut, Typed, TablesType
  <2>6. PICK U : U = {x} OBVIOUS
  <2>7. \A f \in Fd, p \in Pipe : fd[f] = Rd(p) => purpose'[p] = purpose[p]
    BY <2>4, FreshIsUnused DEF PurposesStay
  <2>8. ClosesOnly({}) BY <2>5, <2>7 DEF ClosesOnly
  <2>9. GoesWith({}, {}, {}, U) BY DEF GoesWith
  <2>10. NothingNew({}, {}, U) BY <2>4, <2>6 DEF NothingNew, Typed, TablesType
  <2>11. {} \in SUBSET Id /\ {} \in SUBSET (Id \X Segment) /\ U \in SUBSET (Id \X Id) BY <2>2, <2>6
  <2>12. userPipe'[x] = e BY <2>2, <2>4 DEF Typed, TablesType
  <2>13. UserPipeIsOwn(x)'
    <3>1. purpose'[q] = <<client'[x[2]], 0>> BY <2>2, <2>4 DEF Typed, CommandsType
    <3> QED BY <2>5, <2>12, <3>1 DEF UserPipeIsOwn, EndsOfPipe, Fd
  <2>14. ASSUME NEW y \in Id \X Id, x # y PROVE ApartFrom(x, y)' /\ ApartFrom(y, x)'
    <3> SUFFICES ASSUME userPipe[y] # NoEnds PROVE userPipe[y].r # e.r /\ userPipe[y].w # e.w
      BY <2>2, <2>4, <2>12, <2>14 DEF ApartFrom, Typed, TablesType
    <3>1. KeepsUserPipe(y, userPipe[y].r) /\ KeepsUserPipe(y, userPipe[y].w) BY DEF KeepsUserPipe
    <3>2. fd[userPipe[y].r] # Closed /\ fd[userPipe[y].w] # Closed
      BY <3>1, KeptIsOpen, ClosedIsNoObject DEF Desc
    <3> QED BY <2>5, <3>2
  <2>15. Tables'
    <3>1. TablesBut({}, {}, U)' BY <2>8, <2>9, <2>10, <2>11, TablesKept DEF Desc
    <3>2. \A y \in (Id \X Id) \intersect U : UserPipeIsOwn(y)' BY <2>6, <2>13
    <3>3. ApartFrom(x, x)' BY DEF ApartFrom
    <3>4. \A y \in (Id \X Id) \intersect U, z \in Id \X Id : ApartFrom(y, z)' /\ ApartFrom(z, y)'
      BY <2>6, <2>14, <3>3
    <3> QED BY <3>1, <3>2, <3>4, TablesAgain
  <2>16. PICK u : u = line.user OBVIOUS
  <2>17. u # 0 => Loose(u)' /\ (fd'[u] = Null \/ IsReader(fd'[u])) /\ u # line.devOut
    <3> SUFFICES ASSUME u # 0
                 PROVE  Loose(u)' /\ (fd'[u] = Null \/ IsReader(fd'[u])) /\ u # line.devOut
      OBVIOUS
    <3>1. Loose(u) /\ (fd[u] = Null \/ IsReader(fd[u])) /\ u \in Fd /\ u # line.devOut
      BY <1>2, <2>16 DEF Desc, LineHolds, Typed, ControlType, LineSet
    <3>2. fd[u] # Closed BY <3>1, ClosedIsNoObject DEF IsReader
    <3>3. fd'[u] = fd[u] /\ u \notin {e.r, e.w} BY <2>5, <3>1, <3>2
    <3>4. \A y \in U : ~KeepsUserPipe(y, u)' BY <2>6, <2>12, <3>3 DEF KeepsUserPipe
    <3>5. Loose(u)' BY <2>9, <2>10, <2>11, <3>1, <3>4, LooseAgain DEF Desc
    <3> QED BY <3>1, <3>3, <3>5
  <2>18. line.devIn # 0 => line.devIn = line.user /\ Mistakes BY DEF Desc, LineHolds
  <2>19. line.devOut # 0 => fd'[line.devOut] = Null
    <3> SUFFICES ASSUME line.devOut # 0 PROVE fd'[line.devOut] = Null
      OBVIOUS
    <3>1. fd[line.devOut] = Null /\ line.devOut \in Fd BY DEF Desc, LineHolds, Typed, ControlType, LineSet
    <3> QED BY <2>5, <3>1, ClosedIsNoObject
  <2>20. /\ line'.user = line.user /\ line'.devIn = line.devIn /\ line'.i = 0 /\ line'.inFd = 0
         /\ line'.devOut = line.devOut /\ line'.cmds = line.cmds
    BY <1>2, <2>4 DEF Typed, ControlType, LineSet
  <2>21. LineHolds' BY <2>16, <2>17, <2>18, <2>19, <2>20 DEF LineHolds
  <2>22. LineMoves' BY <1>2, <1>3, <2>4, <2>20 DEF LineMoves
  <2> QED BY <2>15, <2>21, <2>22 DEF Desc
<1>9. /\ \A k \in Kid : ~RunPlain(k) /\ ~RunNumbered(k)
      /\ \A k \in Kid, q \in Pipe : ~RunPiped(k, q) /\ ~RunNewNumbered(k, q)
  BY RunsAtCommand
<1>10. ~NoneReady /\ ~EndOfInput /\ ~ExitLine /\ ~Builtin /\ ~NotANumber /\ ~Reap
  BY DEF NoneReady, EndOfInput, ExitLine, Builtin, NotANumber, Reap, TakesLine
<1>11. /\ \A n \in Name : ~Rename(n)
       /\ \A s \in Shape, f, t \in Id \union {NoUser} : ~Parse(s, f, t)
       /\ \A R \in SUBSET Id : ~Select(R)
       /\ \A id \in Id : ~NextReady(id)
       /\ \A c \in Conn : ~Refuse(c) /\ \A id \in Id : ~Accept(c, id)
  BY DEF Rename, Parse, TakesLine, Select, NextReady, Refuse, Accept
<1> QED BY <1>4, <1>5, <1>6, <1>7, <1>8, <1>9, <1>10, <1>11 DEF Server

\* What attaching a command's input closes, and the command's input.
AttachedAs(a, i, s, due) ==
    /\ due \in Ends /\ a.fd \in Table /\ a.in \in Fd \union {0}
    /\ due # NoEnds => KeepsDelay(<<cur, s>>, due.r) /\ KeepsDelay(<<cur, s>>, due.w)
    /\ \A f \in Fd : a.fd[f] = fd[f] \/ (a.fd[f] = Closed /\ f \in {due.r, due.w})
    /\ a.in # 0 => /\ a.fd[a.in] # Closed /\ a.fd[a.in] = fd[a.in] /\ a.in # line.devOut
                   /\ fd[a.in] = Null \/ IsReader(fd[a.in])
                   /\ Loose(a.in) \/ (due # NoEnds /\ a.in = due.r)
    /\ line.i = 0 /\ line.user # 0 => a.in = line.user
    /\ due = NoEnds => a.numbered = numbered
    /\ due # NoEnds => numbered[cur][s] = due /\ a.numbered = [numbered EXCEPT ![cur][s] = NoEnds]

LEMMA AttachedIs ==
    ASSUME Typed, Registry, Desc, cur \in Id, pc = "command", NEW i, i = line.i + 1, NEW s \in Segment,
           NEW a, a = Attached(i, s), NEW due, due = Due(i, s)
    PROVE  AttachedAs(a, i, s, due)
<1>1. due \in Ends /\ (due # NoEnds => due = numbered[cur][s])
  BY DEF Due, Typed, TablesType, NoEnds, Ends
<1>2. a.fd \in Table /\ a.in \in Fd \union {0} BY AttachedTyped
<1>3. due # NoEnds => KeepsDelay(<<cur, s>>, due.r) /\ KeepsDelay(<<cur, s>>, due.w)
  BY <1>1 DEF KeepsDelay
<1>4. PICK own : own = IF line.inFd = 0 THEN due.r ELSE line.inFd OBVIOUS
<1>5. line.inFd # 0 => due = NoEnds /\ i # 1
  BY DEF Desc, LineHolds, Due, Typed, ControlType, LineSet
<1>6. (IF line.inFd \notin {0, due.r} THEN due.r ELSE 0) = 0
  BY <1>5 DEF NoEnds
<1>7. PICK t : t = CloseFd(CloseFd(fd, 0), due.w) OBVIOUS
<1>8. t \in Table /\ \A f \in Fd : t[f] = IF f = due.w THEN Closed ELSE fd[f]
  BY <1>1, <1>7, CloseIs DEF Ends, Typed, TablesType, Fd
<1>9. /\ a.fd = IF i = 1 /\ line.user # 0 THEN CloseFd(t, own) ELSE t
      /\ a.in = IF i = 1 /\ line.user # 0 THEN line.user ELSE own
      /\ a.numbered = IF due # NoEnds THEN [numbered EXCEPT ![cur][s] = NoEnds] ELSE numbered
  BY <1>4, <1>6, <1>7 DEF Attached
<1>10. i = 1 <=> line.i = 0 BY DEF Typed, ControlType, LineSet
<1>11. i = 1 => own = due.r BY <1>4, <1>5
<1>12. \A f \in Fd : a.fd[f] = fd[f] \/ (a.fd[f] = Closed /\ f \in {due.r, due.w})
  <2>1. CASE i = 1 /\ line.user # 0
    <3>1. a.fd = CloseFd(t, due.r) BY <1>9, <1>11, <2>1
    <3>2. \A f \in Fd : a.fd[f] = IF f = due.r THEN Closed ELSE t[f] BY <1>1, <1>8, <3>1, CloseIs DEF Ends
    <3> QED BY <1>8, <3>2
  <2>2. CASE ~(i = 1 /\ line.user # 0)
    BY <1>8, <1>9, <2>2
  <2> QED BY <2>1, <2>2
<1>13. ASSUME a.in # 0
       PROVE  /\ a.fd[a.in] # Closed /\ a.fd[a.in] = fd[a.in] /\ a.in # line.devOut
              /\ fd[a.in] = Null \/ IsReader(fd[a.in])
              /\ Loose(a.in) \/ (due # NoEnds /\ a.in = due.r)
  <2>1. CASE i = 1 /\ line.user # 0
    <3>1. a.in = line.user /\ Loose(a.in) /\ (fd[a.in] = Null \/ IsReader(fd[a.in])) /\ a.in # line.devOut
      BY <1>9, <1>10, <2>1 DEF Desc, LineHolds
    <3>2. a.in \notin {due.r, due.w} BY <1>2, <1>3, <1>13, <3>1 DEF Loose, NoEnds, Fd
    <3>3. a.fd[a.in] = fd[a.in] BY <1>2, <1>12, <1>13, <3>2
    <3> QED BY <3>1, <3>3, ClosedIsNoObject DEF IsReader
  <2>2. CASE ~(i = 1 /\ line.user # 0) /\ line.inFd # 0
    <3>1. a.in = line.inFd /\ Loose(a.in) /\ IsReader(fd[a.in]) /\ due = NoEnds
      BY <1>4, <1>5, <1>9, <2>2 DEF Desc, LineHolds
    <3>2. a.fd[a.in] = fd[a.in] BY <1>2, <1>12, <1>13, <3>1 DEF NoEnds
    <3>3. a.in # line.devOut BY <1>13, <3>1, ClosedIsNoObject DEF Desc, LineHolds, IsReader
    <3> QED BY <3>1, <3>2, <3>3, ClosedIsNoObject DEF IsReader
  <2>3. CASE ~(i = 1 /\ line.user # 0) /\ line.inFd = 0
    <3>1. a.in = due.r /\ due # NoEnds BY <1>4, <1>9, <1>13, <2>3 DEF NoEnds
    <3>2. PICK q \in Pipe : fd[due.r] = Rd(q) /\ fd[due.w] = Wr(q)
      <4>1. numbered[cur][s] = due /\ <<cur, s>> \in Id \X Segment BY <1>1, <3>1
      <4> QED BY <3>1, <4>1, DelayedPipe DEF Desc
    <3>3. due.r # due.w BY <3>2, ClosedIsNoObject
    <3>4. a.fd[a.in] = fd[a.in] BY <1>2, <1>8, <1>9, <1>13, <2>3, <3>1, <3>3
    <3>5. a.in # line.devOut BY <1>13, <3>1, <3>2, ClosedIsNoObject DEF Desc, LineHolds
    <3> QED BY <3>1, <3>2, <3>4, <3>5, ClosedIsNoObject DEF IsReader
  <2> QED BY <2>1, <2>2, <2>3
<1> QED BY <1>1, <1>2, <1>3, <1>9, <1>10, <1>12, <1>13 DEF AttachedAs

\* Table u is table t with the ends e of a pipe opened.
Reopens(t, u, e) ==
    /\ \A f \in Fd : t[f] # Closed => u[f] = t[f]
    /\ \A f \in {e.r, e.w} \intersect Fd : t[f] = Closed

\* The ends of an ordinary pipe that leads from command i to the next.
LeadsOn(i, u, e) == e.r # 0 => e.r # e.w /\ IsReader(u[e.r]) /\ line.cmds[i] = Ordinary

\* What a fork leaves.
ForkLeaves(a, t, ordinary, C, N) ==
    /\ ClosesOnly(C) /\ GoesWith(C, {}, N, {}) /\ N \in SUBSET (Id \X Segment)
    /\ \A f \in Fd : f \notin {a.in, ordinary.r, ordinary.w} => fd'[f] = t[f]
    /\ line'.inFd \in {0, ordinary.r}
    /\ (line.inFd # 0 => Loose(line.inFd))' => LineHolds'
    /\ LineMoves'

\* What the parent closes after fork, and what the line holds then.
LEMMA ForkedIs ==
    ASSUME Typed, Registry, Desc, ClosesOnce, cur \in Id, pc = "command",
           NEW i \in 1 .. Len(line.cmds), i = line.i + 1, NEW s \in Segment, NEW k,
           NEW a, a = Attached(i, s), NEW due, due = Due(i, s),
           NEW t \in Table, NEW m, NEW out, NEW ordinary \in Ends, Forked(i, s, k, a, t, m, out, ordinary),
           Reopens(a.fd, t, ordinary), LeadsOn(i, t, ordinary), PurposesStay,
           NEW C, C = {due.r, due.w, a.in}, NEW N, N = IF due = NoEnds THEN {} ELSE {<<cur, s>>}
    PROVE  ForkLeaves(a, t, ordinary, C, N)
<1>0. AttachedAs(a, i, s, due) BY AttachedIs
<1>1. /\ due \in Ends /\ a.fd \in Table /\ a.in \in Fd \union {0}
      /\ due # NoEnds => KeepsDelay(<<cur, s>>, due.r) /\ KeepsDelay(<<cur, s>>, due.w)
      /\ \A f \in Fd : a.fd[f] = fd[f] \/ (a.fd[f] = Closed /\ f \in {due.r, due.w})
  BY <1>0 DEF AttachedAs
<1>2. a.in # 0 => /\ a.fd[a.in] # Closed /\ a.fd[a.in] = fd[a.in] /\ a.in # line.devOut
                  /\ Loose(a.in) \/ (due # NoEnds /\ a.in = due.r)
  BY <1>0 DEF AttachedAs
<1>3. line.i = 0 /\ line.user # 0 => a.in = line.user BY <1>0 DEF AttachedAs
<1>4. ordinary.r \in Fd \union {0} /\ ordinary.w \in Fd \union {0} BY DEF Ends
<1>5. \A f \in Fd : fd'[f] = IF f \in {a.in, ordinary.w} \/ (IsLast(i) /\ f = ordinary.r) THEN Closed ELSE t[f]
  <2>1. PICK u : u = CloseFd(CloseFd(t, a.in), ordinary.w) OBVIOUS
  <2>2. u \in Table /\ \A f \in Fd : u[f] = IF f \in {a.in, ordinary.w} THEN Closed ELSE t[f]
    <3>1. PICK v : v = CloseFd(t, a.in) OBVIOUS
    <3>2. v \in Table /\ \A f \in Fd : v[f] = IF f = a.in THEN Closed ELSE t[f] BY <1>1, <3>1, CloseIs
    <3>3. u \in Table /\ \A f \in Fd : u[f] = IF f = ordinary.w THEN Closed ELSE v[f]
      BY <1>4, <2>1, <3>1, <3>2, CloseIs
    <3> QED BY <3>2, <3>3
  <2>3. fd' = IF IsLast(i) THEN CloseFd(u, ordinary.r) ELSE u BY <2>1 DEF Forked
  <2>4. \A f \in Fd : CloseFd(u, ordinary.r)[f] = IF f = ordinary.r THEN Closed ELSE u[f]
    <3>1. u \in Table BY <2>2
    <3>2. PICK r : r = ordinary.r OBVIOUS
    <3>3. r \in Fd \union {0} BY <1>4, <3>2
    <3>4. \A f \in Fd : CloseFd(u, r)[f] = IF f = r THEN Closed ELSE u[f] BY <3>1, <3>3, CloseIs
    <3> QED BY <3>2, <3>4
  <2> QED BY <2>2, <2>3, <2>4
<1>6. \A f \in Fd : f \notin {a.in, ordinary.r, ordinary.w} => fd'[f] = t[f] BY <1>5
<1>7. ClosesOnly(C)
  <2>1. ASSUME NEW f \in Fd, fd[f] # Closed, f \notin C PROVE fd'[f] = fd[f]
    <3>1. a.fd[f] = fd[f] /\ t[f] = fd[f] BY <1>1, <2>1 DEF Reopens
    <3>2. f \notin {ordinary.r, ordinary.w} BY <2>1, <3>1 DEF Reopens
    <3> QED BY <1>6, <2>1, <3>1, <3>2
  <2> QED BY <2>1 DEF ClosesOnly, PurposesStay
<1>8. GoesWith(C, {}, N, {})
  <2>1. ASSUME NEW f \in C \intersect Fd PROVE Loose(f) \/ \E x \in N : KeepsDelay(x, f)
    <3>1. CASE f \in {due.r, due.w}
      <4>1. due # NoEnds BY <3>1 DEF NoEnds, Fd
      <4>2. KeepsDelay(<<cur, s>>, f) BY <1>1, <3>1, <4>1
      <4> QED BY <4>1, <4>2
    <3>2. CASE f = a.in /\ f \notin {due.r, due.w} BY <1>2, <3>2 DEF Fd
    <3> QED BY <3>1, <3>2
  <2> QED BY <2>1 DEF GoesWith
<1>9. N \in SUBSET (Id \X Segment) OBVIOUS
<1>10. /\ line'.i = i /\ line'.inFd = (IF IsLast(i) THEN 0 ELSE ordinary.r)
       /\ line'.cmds = line.cmds /\ line'.user = line.user /\ line'.devIn = line.devIn /\ line'.devOut = line.devOut
       /\ pc' = (IF IsLast(i) THEN "wait" ELSE "command")
  <2>1. line \in LineSet BY DEF Typed, ControlType
  <2> QED BY <2>1 DEF Forked, LineSet
<1>11. line.i \in Nat /\ i # 0 /\ line.cmds # <<>> /\ Len(line.cmds) \in Nat /\ line.cmds \in Shape
  <2>1. line.i \in Nat /\ line.cmds \in Shape \union {<<>>} BY DEF Typed, ControlType, LineSet
  <2> QED BY <2>1, ShapeIsSequence DEF Desc, LineMoves
<1>12. LineMoves' BY <1>10, <1>11 DEF LineMoves, IsLast
<1>13. ASSUME line'.inFd # 0 PROVE IsReader(fd'[line'.inFd]) /\ ~Starts(line.i + 1)'
  <2>1. line'.inFd = ordinary.r /\ ordinary.r # 0 /\ ~IsLast(i) BY <1>10, <1>13
  <2>2. ordinary.r \in Fd /\ a.fd[ordinary.r] = Closed BY <1>4, <2>1 DEF Reopens
  <2>3. ordinary.r # a.in BY <1>2, <2>1, <2>2
  <2>4. fd'[ordinary.r] = t[ordinary.r] BY <1>5, <2>1, <2>2, <2>3 DEF LeadsOn
  <2>5. i + 1 # 1 /\ (i + 1) - 1 = i BY <1>11
  <2>6. IsReader(t[ordinary.r]) /\ line.cmds[i] = Ordinary BY <2>1 DEF LeadsOn
  <2>7. ~Starts(line.i + 1)' BY <1>10, <2>5, <2>6 DEF Starts
  <2> QED BY <2>1, <2>4, <2>6, <2>7
<1>14. ASSUME line.devIn # 0 PROVE line.devIn = line.user /\ Mistakes /\ fd'[line.devIn] = Closed
  <2>1. line.devIn = line.user /\ Mistakes /\ line.devIn \in Fd
    BY <1>14 DEF Desc, LineHolds, Typed, ControlType, LineSet
  <2>2. Len(line.cmds) = 1 BY <1>11, <2>1 DEF ClosesOnce
  <2>3. line.i = 0 BY <1>11, <2>2
  <2>4. a.in = line.devIn BY <1>3, <1>14, <2>1, <2>3
  <2> QED BY <1>5, <2>1, <2>4
<1>15. ASSUME line.devOut # 0 PROVE fd'[line.devOut] = Null
  <2>1. PICK o : o = line.devOut OBVIOUS
  <2>2. fd[o] = Null /\ o \in Fd BY <1>15, <2>1 DEF Desc, LineHolds, Typed, ControlType, LineSet
  <2>3. o \notin {due.r, due.w}
    <3> SUFFICES ASSUME o \in {due.r, due.w} PROVE FALSE OBVIOUS
    <3>1. due # NoEnds BY <2>2 DEF NoEnds, Fd
    <3>2. KeepsDelay(<<cur, s>>, o) /\ <<cur, s>> \in Id \X Segment BY <1>1, <3>1
    <3> QED BY <2>2, <3>2, KeptIsOpen, ClosedIsNoObject DEF Desc
  <2>4. o # a.in BY <1>2, <2>1, <2>2 DEF Fd
  <2>5. o \notin C BY <2>3, <2>4
  <2> QED BY <1>7, <2>1, <2>2, <2>5, ClosedIsNoObject DEF ClosesOnly
<1>16. (line.inFd # 0 => Loose(line.inFd))' => LineHolds'
  BY <1>10, <1>11, <1>13, <1>14, <1>15 DEF LineHolds
<1> QED BY <1>6, <1>7, <1>8, <1>9, <1>10, <1>12, <1>16 DEF ForkLeaves

\* A fork that makes no new delayed pipe.
LEMMA ForkedDesc ==
    ASSUME Typed, Registry, Desc, ClosesOnce, cur \in Id, pc = "command",
           NEW i \in 1 .. Len(line.cmds), i = line.i + 1, NEW s \in Segment, NEW k,
           NEW a, a = Attached(i, s),
           NEW t \in Table, NEW out, NEW ordinary \in Ends, Forked(i, s, k, a, t, a.numbered, out, ordinary),
           Reopens(a.fd, t, ordinary), LeadsOn(i, t, ordinary), PurposesStay,
           UNCHANGED <<client, sock, userPipe>>
    PROVE  Desc'
<1>1. PICK due : due = Due(i, s) OBVIOUS
<1>2. PICK C : C = {due.r, due.w, a.in} OBVIOUS
<1>3. PICK N : N = IF due = NoEnds THEN {} ELSE {<<cur, s>>} OBVIOUS
<1>4. /\ ClosesOnly(C) /\ GoesWith(C, {}, N, {}) /\ N \in SUBSET (Id \X Segment)
      /\ line'.inFd \in {0, ordinary.r}
      /\ (line.inFd # 0 => Loose(line.inFd))' => LineHolds'
      /\ LineMoves'
  <2>1. ForkLeaves(a, t, ordinary, C, N) BY <1>1, <1>2, <1>3, ForkedIs
  <2> QED BY <2>1 DEF ForkLeaves
<1>5. /\ \A f \in Fd : a.fd[f] = fd[f] \/ (a.fd[f] = Closed /\ f \in {due.r, due.w})
      /\ due = NoEnds => a.numbered = numbered
      /\ due # NoEnds => a.numbered = [numbered EXCEPT ![cur][s] = NoEnds]
  <2>1. AttachedAs(a, i, s, due) BY <1>1, AttachedIs
  <2> QED BY <2>1 DEF AttachedAs
<1>6. numbered' = a.numbered BY DEF Forked
<1>7. \A x \in N : numbered'[x[1]][x[2]] = NoEnds
  <2>1. due # NoEnds => numbered'[cur][s] = NoEnds
    <3>1. numbered \in [Id -> [Segment -> Ends]] BY DEF Typed, TablesType
    <3>2. due # NoEnds => numbered' = [numbered EXCEPT ![cur][s] = NoEnds] BY <1>5, <1>6
    <3> QED BY <3>1, <3>2
  <2> QED BY <1>3, <2>1
<1>8. NothingNew({}, N, {})
  <2>1. ASSUME NEW x \in (Id \X Segment) \ N PROVE numbered'[x[1]][x[2]] = numbered[x[1]][x[2]]
    <3>1. PICK j \in Id, g \in Segment : x = <<j, g>> OBVIOUS
    <3>2. CASE due = NoEnds BY <1>5, <1>6, <3>2
    <3>3. CASE due # NoEnds
      <4>1. j # cur \/ g # s BY <1>3, <2>1, <3>1, <3>3
      <4>2. numbered'[j][g] = numbered[j][g]
        <5>1. numbered \in [Id -> [Segment -> Ends]] BY DEF Typed, TablesType
        <5>2. numbered' = [numbered EXCEPT ![cur][s] = NoEnds] BY <1>5, <1>6, <3>3
        <5> QED BY <4>1, <5>1, <5>2
      <4> QED BY <3>1, <4>2
    <3> QED BY <3>2, <3>3
  <2> QED BY <2>1 DEF NothingNew
<1>9. {} \in SUBSET Id /\ {} \in SUBSET (Id \X Id) OBVIOUS
<1>10. Tables'
  <2>1. TablesBut({}, N, {})' BY <1>4, <1>8, <1>9, TablesKept DEF Desc
  <2>2. \A x \in (Id \X Segment) \intersect N : DelayIsOwn(x)' BY <1>7, GoneIsGone
  <2> QED BY <2>1, <2>2, TablesAgain
<1>11. (line.inFd # 0 => Loose(line.inFd))'
  <2> SUFFICES ASSUME line'.inFd # 0 PROVE Loose(line.inFd)' OBVIOUS
  <2>1. PICK f : f = ordinary.r OBVIOUS
  <2>2. line'.inFd = f /\ f \in Fd BY <1>4, <2>1 DEF Ends
  <2>3. a.fd[f] = Closed BY <2>1, <2>2 DEF Reopens
  <2>4. Loose(f) \/ f \in C BY <1>2, <1>5, <2>2, <2>3, KeptIsOpen DEF Desc
  <2>5. \A x \in N : ~KeepsDelay(x, f)' BY <1>7 DEF KeepsDelay
  <2>6. Loose(f)' BY <1>4, <1>8, <1>9, <2>4, <2>5, LooseAgain DEF Desc
  <2> QED BY <2>2, <2>6 DEF Loose, KeepsSocket, KeepsDelay, KeepsUserPipe
<1> QED BY <1>4, <1>10, <1>11 DEF Desc

LEMMA RunPlainDesc ==
    ASSUME Typed, Registry, Desc, ClosesOnce, cur \in Id, NEW k \in Kid, RunPlain(k)
    PROVE  Desc'
<1>1. PICK i \in 1 .. Len(line.cmds), s \in Segment :
        /\ Turn(i, s)
        /\ LET a == Attached(i, s) IN
             Forked(i, s, k, a, a.fd, a.numbered, IF line.outFd # 0 THEN line.outFd ELSE sock[cur], NoEnds)
        /\ UNCHANGED <<conn, registry, executed, userPipe, ready, cur, lines, content, purpose>>
  BY DEF RunPlain
<1>2. PICK a, o : /\ a = Attached(i, s)
                  /\ o = IF line.outFd # 0 THEN line.outFd ELSE sock[cur]
  OBVIOUS
<1>3. Forked(i, s, k, a, a.fd, a.numbered, o, NoEnds) BY <1>1, <1>2
<1>4. a.fd \in Table BY <1>2, AttachedTyped
<1>5. NoEnds \in Ends /\ NoEnds.r = 0 /\ NoEnds.w = 0 /\ 0 \notin Fd BY DEF NoEnds, Ends, Fd
<1>6. i = line.i + 1 /\ pc = "command" /\ UNCHANGED <<client, sock, userPipe, purpose>>
  BY <1>1 DEF Turn, registry
<1>7. Reopens(a.fd, a.fd, NoEnds) /\ LeadsOn(i, a.fd, NoEnds) /\ PurposesStay
  BY <1>5, <1>6 DEF Reopens, LeadsOn, PurposesStay
<1> QED BY <1>2, <1>3, <1>4, <1>5, <1>6, <1>7, ForkedDesc

LEMMA RunNumberedDesc ==
    ASSUME Typed, Registry, Desc, ClosesOnce, cur \in Id, NEW k \in Kid, RunNumbered(k)
    PROVE  Desc'
<1>1. PICK i \in 1 .. Len(line.cmds), s \in Segment :
        /\ Turn(i, s)
        /\ LET a == Attached(i, s)
               ends == a.numbered[cur][Target(i, s)]
           IN  Forked(i, s, k, a, a.fd, a.numbered, ends.w, NoEnds)
        /\ UNCHANGED <<conn, registry, executed, userPipe, ready, cur, lines, content, purpose>>
  BY DEF RunNumbered
<1>2. PICK a, o : a = Attached(i, s) /\ o = a.numbered[cur][Target(i, s)].w
  OBVIOUS
<1>3. Forked(i, s, k, a, a.fd, a.numbered, o, NoEnds) BY <1>1, <1>2
<1>4. a.fd \in Table BY <1>2, AttachedTyped
<1>5. NoEnds \in Ends /\ NoEnds.r = 0 /\ NoEnds.w = 0 /\ 0 \notin Fd BY DEF NoEnds, Ends, Fd
<1>6. i = line.i + 1 /\ pc = "command" /\ UNCHANGED <<client, sock, userPipe, purpose>>
  BY <1>1 DEF Turn, registry
<1>7. Reopens(a.fd, a.fd, NoEnds) /\ LeadsOn(i, a.fd, NoEnds) /\ PurposesStay
  BY <1>5, <1>6 DEF Reopens, LeadsOn, PurposesStay
<1> QED BY <1>2, <1>3, <1>4, <1>5, <1>6, <1>7, ForkedDesc

LEMMA RunPipedDesc ==
    ASSUME Typed, Registry, Desc, ClosesOnce, cur \in Id, NEW k \in Kid, NEW q \in Pipe, RunPiped(k, q)
    PROVE  Desc'
<1>1. PICK i \in 1 .. Len(line.cmds), s \in Segment :
        /\ Turn(i, s) /\ line.cmds[i] = Ordinary
        /\ LET a == Attached(i, s) IN
             /\ Room(a.fd, 2) /\ Fresh(q)
             /\ Forked(i, s, k, a, WithPipe(a.fd, q), a.numbered, PipeFds(a.fd, q).w, PipeFds(a.fd, q))
        /\ purpose' = [purpose EXCEPT ![q] = <<client[cur], s>>]
        /\ UNCHANGED <<conn, registry, executed, userPipe, ready, cur, lines>>
  BY DEF RunPiped
<1>2. PICK a, t, e : a = Attached(i, s) /\ t = WithPipe(a.fd, q) /\ e = PipeFds(a.fd, q)
  OBVIOUS
<1>3. Room(a.fd, 2) /\ Fresh(q) /\ Forked(i, s, k, a, t, a.numbered, e.w, e) BY <1>1, <1>2
<1>4. a.fd \in Table BY <1>2, AttachedTyped
<1>5. /\ e \in Ends /\ e.r # e.w /\ a.fd[e.r] = Closed /\ a.fd[e.w] = Closed /\ t \in Table
      /\ t[e.r] = Rd(q) /\ \A f \in Fd : f \notin {e.r, e.w} => t[f] = a.fd[f]
  BY <1>2, <1>3, <1>4, PipeIs
<1>6. i = line.i + 1 /\ pc = "command" /\ UNCHANGED <<client, sock, userPipe>>
  BY <1>1 DEF Turn, registry
<1>7. PurposesStay
  BY <1>1, <1>3, <1>6, FreshIsUnused
<1>8. Reopens(a.fd, t, e) BY <1>5 DEF Reopens
<1>9. LeadsOn(i, t, e) BY <1>1, <1>5 DEF LeadsOn, IsReader
<1> QED BY <1>2, <1>3, <1>5, <1>6, <1>7, <1>8, <1>9, ForkedDesc

LEMMA RunNewNumberedDesc ==
    ASSUME Typed, Registry, Desc, ClosesOnce, cur \in Id, Online(cur), NEW k \in Kid, NEW q \in Pipe,
           RunNewNumbered(k, q)
    PROVE  Desc'
<1>1. PICK i \in 1 .. Len(line.cmds), s \in Segment :
        /\ Turn(i, s) /\ Target(i, s) \in Segment
        /\ LET a == Attached(i, s) IN
             /\ a.numbered[cur][Target(i, s)] = NoEnds
             /\ Room(a.fd, 2) /\ Fresh(q)
             /\ Forked(i, s, k, a, WithPipe(a.fd, q),
                       [a.numbered EXCEPT ![cur][Target(i, s)] = PipeFds(a.fd, q)],
                       PipeFds(a.fd, q).w, NoEnds)
        /\ purpose' = [purpose EXCEPT ![q] = <<client[cur], Target(i, s)>>]
        /\ UNCHANGED <<conn, registry, executed, userPipe, ready, cur, lines>>
  BY DEF RunNewNumbered
<1>2. PICK a, t, e, g : /\ a = Attached(i, s) /\ t = WithPipe(a.fd, q) /\ e = PipeFds(a.fd, q)
                        /\ g = Target(i, s)
  OBVIOUS
<1>3. PICK m : m = [a.numbered EXCEPT ![cur][g] = e] OBVIOUS
<1>4. Room(a.fd, 2) /\ Fresh(q) /\ Forked(i, s, k, a, t, m, e.w, NoEnds) /\ g \in Segment
  BY <1>1, <1>2, <1>3
<1>5. a.fd \in Table /\ a.numbered \in [Id -> [Segment -> Ends]] BY <1>2, AttachedTyped
<1>6. /\ e.r \in Fd /\ e.w \in Fd /\ e.r # e.w /\ a.fd[e.r] = Closed /\ a.fd[e.w] = Closed /\ t \in Table
      /\ t[e.r] = Rd(q) /\ t[e.w] = Wr(q) /\ \A f \in Fd : f \notin {e.r, e.w} => t[f] = a.fd[f]
  BY <1>2, <1>4, <1>5, PipeIs
<1>7. i = line.i + 1 /\ pc = "command" /\ UNCHANGED <<client, sock, userPipe>>
  BY <1>1 DEF Turn, registry
<1>8. NoEnds \in Ends /\ NoEnds.r = 0 /\ NoEnds.w = 0 /\ 0 \notin Fd BY DEF NoEnds, Ends, Fd
<1>9. PICK due : due = Due(i, s) OBVIOUS
<1>10. PICK C : C = {due.r, due.w, a.in} OBVIOUS
<1>11. PICK N : N = IF due = NoEnds THEN {} ELSE {<<cur, s>>} OBVIOUS
<1>12. /\ ClosesOnly(C) /\ GoesWith(C, {}, N, {}) /\ N \in SUBSET (Id \X Segment)
       /\ \A f \in Fd : f # a.in => fd'[f] = t[f]
       /\ LineHolds' /\ LineMoves'
  <2>1. PurposesStay
    BY <1>1, <1>4, <1>7, FreshIsUnused
  <2>2. Reopens(a.fd, t, NoEnds) BY <1>6, <1>8 DEF Reopens
  <2>3. LeadsOn(i, t, NoEnds) BY <1>8 DEF LeadsOn
  <2>4. ForkLeaves(a, t, NoEnds, C, N)
    BY <1>2, <1>4, <1>6, <1>7, <1>8, <1>9, <1>10, <1>11, <2>1, <2>2, <2>3, ForkedIs
  <2> QED BY <1>8, <2>4 DEF ForkLeaves
<1>13. /\ a.in # 0 => a.fd[a.in] # Closed
       /\ due = NoEnds => a.numbered = numbered
       /\ due # NoEnds => a.numbered = [numbered EXCEPT ![cur][s] = NoEnds]
  <2>1. AttachedAs(a, i, s, due) BY <1>2, <1>7, <1>9, AttachedIs
  <2> QED BY <2>1 DEF AttachedAs
<1>14. PICK M : M = N \union {<<cur, g>>} OBVIOUS
<1>15. numbered' = m BY <1>4 DEF Forked
<1>16. NothingNew({}, M, {})
  <2>1. ASSUME NEW x \in (Id \X Segment) \ M PROVE numbered'[x[1]][x[2]] = numbered[x[1]][x[2]]
    <3>1. PICK j \in Id, h \in Segment : x = <<j, h>> OBVIOUS
    <3>2. j # cur \/ h # g BY <1>14, <2>1, <3>1
    <3>3. numbered'[j][h] = a.numbered[j][h] BY <1>3, <1>5, <1>15, <3>2
    <3>4. x \notin N BY <1>14, <2>1
    <3>5. a.numbered[j][h] = numbered[j][h]
      <4>1. CASE due = NoEnds BY <1>13, <4>1
      <4>2. CASE due # NoEnds
        <5>1. j # cur \/ h # s BY <1>11, <3>1, <3>4, <4>2
        <5>2. numbered \in [Id -> [Segment -> Ends]] BY DEF Typed, TablesType
        <5>3. a.numbered = [numbered EXCEPT ![cur][s] = NoEnds] BY <1>13, <4>2
        <5> QED BY <5>1, <5>2, <5>3
      <4> QED BY <4>1, <4>2
    <3> QED BY <3>1, <3>3, <3>5
  <2> QED BY <1>7, <2>1 DEF NothingNew
<1>17. GoesWith(C, {}, M, {}) BY <1>12, <1>14 DEF GoesWith
<1>18. DelayIsOwn(<<cur, g>>)'
  <2>1. numbered'[cur][g] = e BY <1>3, <1>4, <1>5, <1>15
  <2>2. fd'[e.r] = Rd(q) /\ fd'[e.w] = Wr(q) BY <1>6, <1>8, <1>12, <1>13
  <2>3. purpose'[q] = <<client[cur], g>> BY <1>1, <1>2 DEF Typed, CommandsType
  <2>4. UNCHANGED <<cur, client>> BY <1>1, <1>7
  <2>5. e.r # 0 /\ e.w # 0 BY <1>6, <1>8
  <2> QED BY <2>1, <2>2, <2>3, <2>4, <2>5 DEF DelayIsOwn, EndsOfPipe, Online
<1>19. ASSUME NEW x \in M PROVE DelayIsOwn(x)'
  <2>0. UNCHANGED cur BY <1>1
  <2>1. CASE x = <<cur, g>>
    <3>1. PICK y : y = <<cur, g>> OBVIOUS
    <3>2. DelayIsOwn(y)' BY <1>18, <2>0, <3>1 DEF DelayIsOwn, EndsOfPipe, Online
    <3> QED BY <2>1, <3>1, <3>2
  <2>2. CASE x # <<cur, g>>
    <3>1. x = <<cur, s>> /\ due # NoEnds /\ s # g BY <1>11, <1>14, <1>19, <2>2
    <3>2. numbered'[cur][s] = NoEnds BY <1>3, <1>4, <1>5, <1>13, <1>15, <3>1 DEF Typed, TablesType
    <3>3. numbered'[x[1]][x[2]] = NoEnds /\ x \in Id \X Segment BY <3>1, <3>2
    <3> QED BY <3>3, GoneIsGone
  <2> QED BY <2>1, <2>2
<1>20. Tables'
  <2>1. {} \in SUBSET Id /\ {} \in SUBSET (Id \X Id) /\ M \in SUBSET (Id \X Segment) BY <1>4, <1>12, <1>14
  <2>2. TablesBut({}, M, {})' BY <1>12, <1>16, <1>17, <2>1, TablesKept DEF Desc
  <2> QED BY <1>19, <2>2, TablesAgain
<1> QED BY <1>12, <1>20 DEF Desc

LEMMA DescCommand ==
    ASSUME Typed, Registry, Desc, ClosesOnce, Server, pc \in {"command", "wait"}
    PROVE  Desc'
<1>1. cur \in Id /\ Online(cur) BY CurIsHere DEF Serving, OnlineIds
<1>2. CASE Reap
  <2>1. /\ fd' = CloseFd(CloseFd(fd, line.devIn), line.devOut) /\ line' = NoLine /\ pc = "wait"
        /\ UNCHANGED <<client, sock, numbered, userPipe, purpose>>
        /\ pc' \in {"line", "serve", "dead"}
    BY <1>2 DEF Reap, Prompt, Goto, registry, commands
  <2>2. line.devIn \in Fd \union {0} /\ line.devOut \in Fd \union {0}
    BY DEF Typed, ControlType, LineSet
  <2>3. \A f \in Fd : fd'[f] = IF f \in {line.devIn, line.devOut} THEN Closed ELSE fd[f]
    <3>1. PICK v : v = CloseFd(fd, line.devIn) OBVIOUS
    <3>2. v \in Table /\ \A f \in Fd : v[f] = IF f = line.devIn THEN Closed ELSE fd[f]
      BY <2>2, <3>1, CloseIs DEF Typed, TablesType
    <3>3. \A f \in Fd : fd'[f] = IF f = line.devOut THEN Closed ELSE v[f]
      BY <2>1, <2>2, <3>1, <3>2, CloseIs
    <3> QED BY <3>2, <3>3
  <2>4. PICK C : C = {line.devIn, line.devOut} OBVIOUS
  <2>5. ClosesOnly(C) BY <2>1, <2>3, <2>4 DEF ClosesOnly
  <2>6. \A f \in C \intersect Fd : fd[f] \in {Closed, Null}
    BY <2>1, <2>4 DEF Desc, LineHolds, LineMoves, Fd
  <2>7. GoesWith(C, {}, {}, {}) BY <2>6 DEF GoesWith
  <2>8. NothingNew({}, {}, {}) BY <2>1 DEF NothingNew
  <2>9. Tables'
    <3>1. {} \in SUBSET Id /\ {} \in SUBSET (Id \X Segment) /\ {} \in SUBSET (Id \X Id) OBVIOUS
    <3>2. TablesBut({}, {}, {})' BY <2>5, <2>7, <2>8, <3>1, TablesKept DEF Desc
    <3> QED BY <3>2, TablesAgain
  <2> QED BY <2>1, <2>9, IdleLine DEF Desc
<1>3. /\ ~NoneReady /\ ~EndOfInput /\ ~ExitLine /\ ~Builtin /\ ~NotANumber
      /\ ~NotAsked /\ ~ResolveInNull /\ ~ResolveIn /\ ~ResolveOutNull /\ \A q \in Pipe : ~ResolveOut(q)
  BY DEF NoneReady, EndOfInput, ExitLine, Builtin, NotANumber, TakesLine, NotAsked, ResolveInNull, ResolveIn,
         ResolveOutNull, ResolveOut
<1>4. /\ \A n \in Name : ~Rename(n)
      /\ \A s \in Shape, f, t \in Id \union {NoUser} : ~Parse(s, f, t)
      /\ \A R \in SUBSET Id : ~Select(R)
      /\ \A id \in Id : ~NextReady(id)
      /\ \A c \in Conn : ~Refuse(c) /\ \A id \in Id : ~Accept(c, id)
  BY DEF Rename, Parse, TakesLine, Select, NextReady, Refuse, Accept
<1> QED
  BY <1>1, <1>2, <1>3, <1>4, RunPlainDesc, RunNumberedDesc, RunPipedDesc, RunNewNumberedDesc DEF Server

LEMMA NobodyServesDead == Server => pc # "dead"
<1> SUFFICES ASSUME Server PROVE pc # "dead" OBVIOUS
<1> QED
  BY RunsAtCommand DEF Server, Select, Accept, Refuse, NextReady, NoneReady, EndOfInput, ExitLine, Builtin, NotANumber, Rename,
     Parse, TakesLine, NotAsked, ResolveInNull, ResolveIn, ResolveOutNull, ResolveOut, Reap

LEMMA DescStep ==
    ASSUME Typed, Registry, Desc, ClosesOnce, [Next]_vars
    PROVE  Desc'
<1>1. ASSUME UNCHANGED <<fd, client, sock, numbered, userPipe, purpose, line, pc>> PROVE Desc'
  <2>1. Tables' BY <1>1, TablesAlone DEF Desc
  <2>2. LineHolds' BY <1>1 DEF Desc, LineHolds, Loose, KeepsSocket, KeepsDelay, KeepsUserPipe, Online, Starts
  <2>3. LineMoves' BY <1>1 DEF Desc, LineMoves
  <2> QED BY <2>1, <2>2, <2>3 DEF Desc
<1>2. CASE UNCHANGED vars
  BY <1>1, <1>2 DEF vars, registry, session, commands
<1>3. CASE \E c \in Conn : Connect(c) \/ Disconnect(c)
  BY <1>1, <1>3 DEF Connect, Disconnect, registry, session, commands
<1>4. CASE \E k \in Kid : Command(k)
  BY <1>1, <1>4 DEF Command, registry, session
<1>5. CASE Server
  BY <1>5, NobodyServesDead, DescSession, DescResolve, DescCommand DEF Typed, ControlType
<1> QED BY <1>2, <1>3, <1>4, <1>5 DEF Next, Environment

\* Whatever is opened and closed for whom, in whatever order: each user's socket, delayed
\* pipes and user pipes are descriptors of that user's, as long as no `<N` that finds no
\* pipe stands in a line of several commands.
THEOREM DescriptorsAreOwn == ASSUME ClosesOnce PROVE Spec => []OwnDescriptors
<1>1. Typed /\ Registry /\ Desc /\ [Next]_vars => Desc' BY DescStep
<1>2. Desc => OwnDescriptors BY OwnDescriptorsAre DEF Desc
<1> QED BY <1>1, <1>2, DescInit, TypedAlways, RegistryAlways, PTL DEF Spec

-----------------------------------------------------------------------------
(***************************************************************************)
(* Ends.  Every open descriptor is the listener, is kept by a table or is  *)
(* held by the line under way, so that nothing leaks; and what a command   *)
(* gets as its input was made for it.                                      *)
(***************************************************************************)

HeldByLine(f) == f = line.inFd \/ (f = line.user /\ line.i = 0) \/ f = line.devOut

Accounted ==
    /\ fd[1] = Listen
    /\ \A f \in Fd \ {1} : fd[f] # Closed => ~Loose(f) \/ HeldByLine(f)
    /\ pc = "wait" => line.inFd = 0
    /\ pc \in {"resolveIn", "resolveOut"} => line.devOut = 0

\* What the line holds was made for the command that will read it.
LineMeant ==
    /\ line.user # 0 /\ line.i = 0 =>
           \A q \in Pipe : fd[line.user] = Rd(q) => purpose[q] = <<client[cur], 0>>
    /\ line.inFd # 0 =>
           \A q \in Pipe : fd[line.inFd] = Rd(q) => purpose[q] = <<client[cur], line.seg>>

\* A command keeps the pipe that it reads, so that no other takes its place.
KidsMeant ==
    \A k \in Kid, q \in Pipe :
        kid[k].in = Rd(q) => Rd(q) \in kid[k].holds /\ purpose[q] \in {kid[k].job, <<kid[k].job[1], 0>>}

Hands == Accounted /\ LineMeant /\ KidsMeant

LEMMA ListenIsNoPipe ==
    /\ 1 \in Fd /\ 0 \notin Fd /\ Listen \notin {Closed, Null} /\ Listen \notin PipeEnd /\ Listen # Stdin
    /\ \A c : Sock(c) # Listen
    /\ \A q \in Pipe : Rd(q) # Stdin /\ Rd(q) # Null /\ Wr(q) # Null /\ Rd(q) # Listen
BY BoundAssumption DEF Fd, Listen, Closed, Null, PipeEnd, Stdin, Sock, Rd, Wr

LEMMA HandsInit == Init => Hands
<1> SUFFICES ASSUME Init PROVE Hands OBVIOUS
<1>1. fd[1] = Listen /\ \A f \in Fd \ {1} : fd[f] = Closed BY ListenIsNoPipe DEF Init
<1>2. line = NoLine /\ pc = "select" BY DEF Init
<1>3. Accounted BY <1>1, <1>2 DEF Accounted, NoLine
<1>4. LineMeant BY <1>2 DEF LineMeant, NoLine
<1>5. \A k \in Kid : kid[k].in = Stdin BY DEF Init, NoKid
<1>6. KidsMeant BY <1>5, ListenIsNoPipe DEF KidsMeant
<1> QED BY <1>3, <1>4, <1>6 DEF Hands

LEMMA ListenerIsLoose ==
    ASSUME Typed, Tables, Accounted
    PROVE  Loose(1)
BY KeptIsOpen, ListenIsNoPipe, ClosedIsNoObject DEF Accounted, Loose

\* The commands' side of a step that leaves the commands alone.
LEMMA KidsAgain ==
    ASSUME KidsMeant, kid' = kid,
           \A k \in Kid, p \in Pipe : Rd(p) \in kid[k].holds => purpose'[p] = purpose[p]
    PROVE  KidsMeant'
BY DEF KidsMeant

LEMMA HandsAlone ==
    ASSUME Hands, UNCHANGED <<fd, client, sock, numbered, userPipe, purpose, kid>>,
           \/ UNCHANGED line /\ (line # NoLine => UNCHANGED cur)
           \/ line = NoLine /\ line'.inFd = 0 /\ line'.user = 0 /\ line'.devOut = 0,
           pc' = "wait" => pc = "wait" /\ UNCHANGED line,
           pc' \in {"resolveIn", "resolveOut"} => line'.devOut = 0
    PROVE  Hands'
<1>1. \A f : Loose(f)' <=> Loose(f) BY DEF Loose, KeepsSocket, KeepsDelay, KeepsUserPipe, Online
<1>2. CASE UNCHANGED <<line, cur>>
  <2>1. Accounted' BY <1>1, <1>2 DEF Hands, Accounted, HeldByLine
  <2>2. LineMeant' BY <1>2 DEF Hands, LineMeant
  <2> QED BY <2>1, <2>2, KidsAgain DEF Hands
<1>3. CASE line = NoLine /\ line'.inFd = 0 /\ line'.user = 0 /\ line'.devOut = 0
  <2>1. \A f \in Fd : ~HeldByLine(f) BY <1>3, ListenIsNoPipe DEF HeldByLine, NoLine
  <2>2. Accounted' BY <1>1, <1>3, <2>1 DEF Hands, Accounted
  <2>3. LineMeant' BY <1>3 DEF LineMeant
  <2> QED BY <2>2, <2>3, KidsAgain DEF Hands
<1>4. line = NoLine /\ UNCHANGED line => line'.inFd = 0 /\ line'.user = 0 /\ line'.devOut = 0
  BY DEF NoLine
<1> QED BY <1>2, <1>3, <1>4

\* A step between lines: what it opens is kept, what is not kept any more is closed.
LEMMA HandsIdle ==
    ASSUME Hands, line' = NoLine, UNCHANGED <<purpose, kid>>,
           pc' # "wait", fd'[1] = Listen,
           \A f \in Fd \ {1} : fd'[f] # Closed => ~Loose(f)'
    PROVE  Hands'
<1>1. Accounted' BY DEF Accounted, NoLine
<1>2. LineMeant' BY DEF LineMeant, NoLine
<1> QED BY <1>1, <1>2, KidsAgain DEF Hands

LEMMA CleanupHands ==
    ASSUME Typed, Registry, Desc, Hands, pc \in Serving, line = NoLine, CleanupClient(cur)
    PROVE  Hands'
<1>1. cur \in Id /\ client[cur] \in Conn BY CurIsHere
<1>2. PICK C : C = {sock[cur]} \union ShellStateFds(cur) \union FdsOf({userPipe[x] : x \in UserPipesOf(cur)})
  OBVIOUS
<1>3. /\ fd' = [f \in Fd |-> IF f \in C THEN Closed ELSE fd[f]]
      /\ userPipe' = [x \in Id \X Id |-> IF x \in UserPipesOf(cur) THEN NoEnds ELSE userPipe[x]]
      /\ numbered' = [numbered EXCEPT ![cur] = [s \in Segment |-> NoEnds]]
      /\ client' = [client EXCEPT ![cur] = Nobody]
      /\ sock' = [sock EXCEPT ![cur] = 0]
      /\ line' = NoLine /\ pc' \in {"serve", "dead"} /\ UNCHANGED <<purpose, kid>>
  BY <1>2 DEF CleanupClient, Goto, commands
<1>4. \A f \in Fd : fd[f] # Closed /\ f # 1 => ~Loose(f)
  BY ListenIsNoPipe DEF Hands, Accounted, HeldByLine, NoLine
<1>5. /\ \A f : KeepsSocket(cur, f) => f \in C
      /\ \A s \in Segment : \A f : KeepsDelay(<<cur, s>>, f) => f \in C
      /\ \A x \in UserPipesOf(cur) : \A f : KeepsUserPipe(x, f) => f \in C
  BY <1>2 DEF KeepsSocket, KeepsDelay, KeepsUserPipe, ShellStateFds, FdsOf, EndsOf
<1>6. ASSUME NEW f \in Fd, f \notin C, ~Loose(f) PROVE ~Loose(f)'
  <2>1. ASSUME NEW id \in Id, KeepsSocket(id, f) PROVE KeepsSocket(id, f)'
    <3>1. id # cur BY <1>5, <1>6, <2>1
    <3> QED BY <1>3, <2>1, <3>1 DEF KeepsSocket, Online, Typed, ClientsType, TablesType
  <2>2. ASSUME NEW x \in Id \X Segment, KeepsDelay(x, f) PROVE KeepsDelay(x, f)'
    <3>1. PICK j \in Id, s \in Segment : x = <<j, s>> OBVIOUS
    <3>2. j # cur BY <1>5, <1>6, <2>2, <3>1
    <3>3. numbered'[j] = numbered[j] BY <1>3, <3>2 DEF Typed, TablesType
    <3> QED BY <2>2, <3>1, <3>3 DEF KeepsDelay
  <2>3. ASSUME NEW x \in Id \X Id, KeepsUserPipe(x, f) PROVE KeepsUserPipe(x, f)'
    <3>1. x \notin UserPipesOf(cur) BY <1>5, <1>6, <2>3
    <3>2. userPipe'[x] = userPipe[x] BY <1>3, <3>1
    <3> QED BY <2>3, <3>2 DEF KeepsUserPipe
  <2> QED BY <1>6, <2>1, <2>2, <2>3 DEF Loose
<1>7. 1 \notin C
  <2>1. Loose(1) BY ListenerIsLoose DEF Desc, Hands
  <2>2. sock[cur] # 1 BY <1>1, <2>1, ConnAssumption DEF Loose, KeepsSocket, Online
  <2>3. 1 \notin ShellStateFds(cur)
    <3>1. ASSUME NEW s \in Segment, numbered[cur][s] # NoEnds PROVE 1 \notin {numbered[cur][s].r, numbered[cur][s].w}
      <4>1. PICK x : x = <<cur, s>> OBVIOUS
      <4>2. x \in Id \X Segment /\ ~KeepsDelay(x, 1) BY <1>1, <2>1, <4>1 DEF Loose
      <4> QED BY <3>1, <4>1, <4>2 DEF KeepsDelay
    <3> QED BY <3>1 DEF ShellStateFds, FdsOf, EndsOf
  <2>4. 1 \notin FdsOf({userPipe[x] : x \in UserPipesOf(cur)})
    BY <2>1 DEF FdsOf, UserPipesOf, Loose, KeepsUserPipe
  <2> QED BY <1>2, <2>2, <2>3, <2>4
<1>8. fd'[1] = Listen BY <1>3, <1>7, ListenIsNoPipe DEF Hands, Accounted
<1>9. \A f \in Fd \ {1} : fd'[f] # Closed => ~Loose(f)' BY <1>3, <1>4, <1>6
<1> QED BY <1>3, <1>8, <1>9, HandsIdle

LEMMA CountHands ==
    ASSUME Typed, Registry, Desc, Hands, cur \in Id, CountBuiltin,
           UNCHANGED <<client, sock, userPipe, purpose, kid, line>>, line = NoLine, pc' # "wait"
    PROVE  Hands'
<1>1. PICK s \in Segment : /\ fd' = Discarded(fd, numbered[cur][s])
                           /\ numbered' = [numbered EXCEPT ![cur][s] = NoEnds]
  BY DEF CountBuiltin
<1>2. PICK e : e = numbered[cur][s] OBVIOUS
<1>3. e \in Ends BY <1>2 DEF Typed, TablesType
<1>4. \A f \in Fd : fd'[f] = IF f \in {e.r, e.w} THEN Closed ELSE fd[f]
  <2>1. PICK v : v = CloseFd(fd, e.r) OBVIOUS
  <2>2. v \in Table /\ \A f \in Fd : v[f] = IF f = e.r THEN Closed ELSE fd[f]
    BY <1>3, <2>1, CloseIs DEF Ends, Typed, TablesType
  <2>3. \A f \in Fd : CloseFd(v, e.w)[f] = IF f = e.w THEN Closed ELSE v[f]
    BY <1>3, <2>2, CloseIs DEF Ends
  <2> QED BY <1>1, <1>2, <2>1, <2>2, <2>3 DEF Discarded, ClosePipe
<1>5. e # NoEnds => KeepsDelay(<<cur, s>>, e.r) /\ KeepsDelay(<<cur, s>>, e.w)
  BY <1>2 DEF KeepsDelay
<1>6. fd'[1] = Listen
  <2>1. Loose(1) BY ListenerIsLoose DEF Desc, Hands
  <2>2. 1 \notin {e.r, e.w} BY <1>5, <2>1 DEF Loose, NoEnds
  <2> QED BY <1>4, <2>2, ListenIsNoPipe DEF Hands, Accounted
<1>7. ASSUME NEW f \in Fd \ {1}, fd'[f] # Closed PROVE ~Loose(f)'
  <2>1. f \notin {e.r, e.w} /\ ~Loose(f)
    BY <1>4, <1>7, ListenIsNoPipe DEF Hands, Accounted, HeldByLine, NoLine
  <2>2. ASSUME NEW id \in Id, KeepsSocket(id, f) PROVE KeepsSocket(id, f)'
    BY <2>2 DEF KeepsSocket, Online
  <2>3. ASSUME NEW x \in Id \X Segment, KeepsDelay(x, f) PROVE KeepsDelay(x, f)'
    <3>1. PICK j \in Id, g \in Segment : x = <<j, g>> OBVIOUS
    <3>2. j # cur \/ g # s BY <1>2, <2>1, <2>3, <3>1 DEF KeepsDelay
    <3>3. numbered \in [Id -> [Segment -> Ends]] BY DEF Typed, TablesType
    <3>4. numbered'[j][g] = numbered[j][g] BY <1>1, <3>2, <3>3
    <3> QED BY <2>3, <3>1, <3>4 DEF KeepsDelay
  <2>4. ASSUME NEW x \in Id \X Id, KeepsUserPipe(x, f) PROVE KeepsUserPipe(x, f)'
    BY <2>4 DEF KeepsUserPipe
  <2> QED BY <2>1, <2>2, <2>3, <2>4 DEF Loose
<1> QED BY <1>6, <1>7, HandsIdle

LEMMA AcceptHands ==
    ASSUME Typed, Registry, Desc, Hands, NEW c \in Conn, NEW id \in Id, Accept(c, id)
    PROVE  Hands'
<1>1. PICK l : l = Lowest(fd) OBVIOUS
<1>2. /\ l \in Fd /\ fd[l] = Closed /\ fd'[l] = Sock(c)
      /\ \A f \in Fd : f # l => fd'[f] = fd[f]
  BY <1>1, OpenIs, ClosedIsNoObject DEF Accept, Typed, TablesType
<1>3. /\ client' = [client EXCEPT ![id] = c] /\ client[id] = Nobody
      /\ sock' = [sock EXCEPT ![id] = l]
      /\ numbered' = [numbered EXCEPT ![id] = [s \in Segment |-> NoEnds]]
      /\ UNCHANGED <<userPipe, line, purpose, kid>> /\ pc' \in {"serve", "dead"} /\ pc = "accept"
  BY <1>1 DEF Accept, SmallestUnusedId, Online, Goto, commands
<1>4. line = NoLine /\ line' = NoLine BY <1>3 DEF Desc, LineMoves
<1>5. fd'[1] = Listen BY <1>2, ListenIsNoPipe DEF Hands, Accounted
<1>6. ASSUME NEW f \in Fd \ {1}, fd'[f] # Closed PROVE ~Loose(f)'
  <2>1. CASE f = l
    <3>1. KeepsSocket(id, f)' BY <1>3, <2>1, ConnAssumption DEF KeepsSocket, Online, Typed, ClientsType, TablesType
    <3> QED BY <3>1 DEF Loose
  <2>2. CASE f # l
    <3>1. ~Loose(f)
      BY <1>2, <1>4, <1>6, <2>2, ListenIsNoPipe DEF Hands, Accounted, HeldByLine, NoLine
    <3>2. ASSUME NEW i \in Id, KeepsSocket(i, f) PROVE KeepsSocket(i, f)'
      <4>1. i # id BY <1>3, <3>2 DEF KeepsSocket, Online
      <4> QED BY <1>3, <3>2, <4>1 DEF KeepsSocket, Online, Typed, ClientsType, TablesType
    <3>3. ASSUME NEW x \in Id \X Segment, KeepsDelay(x, f) PROVE KeepsDelay(x, f)'
      <4>1. Online(x[1]) BY <3>3 DEF Desc, Tables, DelayIsOwn, KeepsDelay
      <4>2. x[1] # id /\ x[1] \in Id BY <1>3, <4>1 DEF Online
      <4>3. numbered'[x[1]] = numbered[x[1]] BY <1>3, <4>2 DEF Typed, TablesType
      <4> QED BY <3>3, <4>3 DEF KeepsDelay
    <3>4. ASSUME NEW x \in Id \X Id, KeepsUserPipe(x, f) PROVE KeepsUserPipe(x, f)'
      BY <1>3, <3>4 DEF KeepsUserPipe
    <3> QED BY <3>1, <3>2, <3>3, <3>4 DEF Loose
  <2> QED BY <2>1, <2>2
<1> QED BY <1>3, <1>4, <1>5, <1>6, HandsIdle

LEMMA HandsSession ==
    ASSUME Typed, Registry, Desc, Hands, Server, pc \in {"select", "accept", "serve", "line"}
    PROVE  Hands'
<1> USE DEF registry, session, commands
<1>1. line = NoLine BY DEF Desc, LineMoves
<1>2. ASSUME UNCHANGED <<fd, client, sock, numbered, userPipe, purpose, kid, line>>, pc' # "wait"
      PROVE  Hands'
  BY <1>1, <1>2, HandsAlone DEF NoLine
<1>3. ASSUME NEW R \in SUBSET Id, Select(R) PROVE Hands'
  BY <1>2, <1>3 DEF Select
<1>4. ASSUME NEW c \in Conn, Refuse(c) PROVE Hands'
  BY <1>2, <1>4 DEF Refuse
<1>5. ASSUME NEW id \in Id, NextReady(id) PROVE Hands'
  BY <1>2, <1>5 DEF NextReady
<1>6. CASE NoneReady
  BY <1>2, <1>6 DEF NoneReady
<1>7. CASE EndOfInput
  BY <1>1, <1>7, CleanupHands DEF EndOfInput, Serving
<1>8. CASE ExitLine
  BY <1>1, <1>8, CleanupHands DEF ExitLine, TakesLine, Serving
<1>9. CASE Builtin
  <2>1. cur \in Id BY <1>9, TakesLineTyped DEF Builtin
  <2> QED BY <1>1, <1>9, <2>1, CountHands DEF Builtin, Prompt, Goto
<1>14. CASE NotANumber
  BY <1>2, <1>14 DEF NotANumber
<1>10. ASSUME NEW n \in Name, Rename(n) PROVE Hands'
  <2>1. cur \in Id BY <1>10, TakesLineTyped DEF Rename
  <2> QED BY <1>1, <1>10, <2>1, CountHands DEF Rename, Prompt, Goto
<1>11. ASSUME NEW s \in Shape, NEW f \in Id \union {NoUser}, NEW t \in Id \union {NoUser}, Parse(s, f, t)
       PROVE  Hands'
  <2>1. /\ line'.inFd = 0 /\ line'.user = 0 /\ line'.devOut = 0 /\ pc' = "resolveIn"
        /\ UNCHANGED <<fd, client, sock, numbered, userPipe, purpose, kid>>
    BY <1>11 DEF Parse, NoLine
  <2> QED BY <1>1, <2>1, HandsAlone
<1>12. /\ ~NotAsked /\ ~ResolveInNull /\ ~ResolveIn /\ ~ResolveOutNull /\ ~Reap
       /\ \A q \in Pipe : ~ResolveOut(q)
  BY DEF NotAsked, ResolveInNull, ResolveIn, ResolveOutNull, Reap, ResolveOut
<1>13. /\ \A k \in Kid : ~RunPlain(k) /\ ~RunNumbered(k)
       /\ \A k \in Kid, q \in Pipe : ~RunPiped(k, q) /\ ~RunNewNumbered(k, q)
  BY RunsAtCommand
<1> QED
  BY <1>3, <1>4, <1>5, <1>6, <1>7, <1>8, <1>9, <1>10, <1>11, <1>12, <1>13, <1>14, AcceptHands DEF Server

\* What is kept stays kept, some entries aside.
LEMMA KeptAgain ==
    ASSUME Typed, NEW f, ~Loose(f), NEW N \in SUBSET (Id \X Segment), NEW U \in SUBSET (Id \X Id),
           UNCHANGED <<client, sock>>,
           \A x \in (Id \X Segment) \ N : numbered'[x[1]][x[2]] = numbered[x[1]][x[2]],
           \A x \in (Id \X Id) \ U : userPipe'[x] = userPipe[x],
           \A x \in N : ~KeepsDelay(x, f), \A x \in U : ~KeepsUserPipe(x, f)
    PROVE  ~Loose(f)'
<1>1. ASSUME NEW id \in Id, KeepsSocket(id, f) PROVE ~Loose(f)'
  <2>1. KeepsSocket(id, f)' BY <1>1 DEF KeepsSocket, Online
  <2> QED BY <2>1 DEF Loose
<1>2. ASSUME NEW x \in Id \X Segment, KeepsDelay(x, f) PROVE ~Loose(f)'
  <2>1. KeepsDelay(x, f)' BY <1>2 DEF KeepsDelay
  <2> QED BY <2>1 DEF Loose
<1>3. ASSUME NEW x \in Id \X Id, KeepsUserPipe(x, f) PROVE ~Loose(f)'
  <2>1. KeepsUserPipe(x, f)' BY <1>3 DEF KeepsUserPipe
  <2> QED BY <2>1 DEF Loose
<1> QED BY <1>1, <1>2, <1>3 DEF Loose

LEMMA HandsOpensNull ==
    ASSUME Typed, Registry, Desc, Hands, line.i = 0, line.inFd = 0, Room(fd, 1), fd' = Opened(fd, Null),
           NEW l, l = Lowest(fd), pc' # "wait", UNCHANGED <<client, sock, numbered, userPipe, purpose, kid, cur>>,
           line'.inFd = 0, line'.i = 0, pc' \in {"resolveIn", "resolveOut"} => line'.devOut = 0,
           \/ line.user = 0 /\ line'.user = l /\ line'.devOut = line.devOut
           \/ line.devOut = 0 /\ line'.devOut = l /\ line'.user = line.user
    PROVE  Hands'
<1>1. l \in Fd /\ fd[l] = Closed /\ fd'[l] = Null /\ \A f \in Fd : f # l => fd'[f] = fd[f]
  BY OpenIs, ClosedIsNoObject DEF Typed, TablesType
<1>2. \A f : Loose(f)' <=> Loose(f) BY DEF Loose, KeepsSocket, KeepsDelay, KeepsUserPipe, Online
<1>3. fd'[1] = Listen BY <1>1, ListenIsNoPipe DEF Hands, Accounted
<1>4. ASSUME NEW f \in Fd \ {1}, fd'[f] # Closed PROVE ~Loose(f)' \/ HeldByLine(f)'
  <2>1. f = l => HeldByLine(f)' BY DEF HeldByLine
  <2>2. ASSUME f # l PROVE ~Loose(f)' \/ HeldByLine(f)'
    <3>1. ~Loose(f) \/ HeldByLine(f) BY <1>1, <1>4, <2>2 DEF Hands, Accounted
    <3>2. HeldByLine(f) => HeldByLine(f)' BY <1>4, ListenIsNoPipe DEF HeldByLine
    <3> QED BY <1>2, <3>1, <3>2
  <2> QED BY <2>1, <2>2
<1>5. Accounted' BY <1>3, <1>4 DEF Accounted
<1>6. LineMeant'
  <2>1. ASSUME line'.user # 0, NEW q \in Pipe, fd'[line'.user] = Rd(q)
        PROVE  purpose'[q] = <<client'[cur'], 0>>
    <3>1. line'.user # l BY <1>1, <2>1, ListenIsNoPipe
    <3>2. line'.user = line.user /\ line'.user \in Fd
      BY <2>1, <3>1 DEF Typed, ControlType, LineSet
    <3>3. fd[line.user] = Rd(q) BY <1>1, <2>1, <3>1, <3>2
    <3> QED BY <2>1, <3>2, <3>3 DEF Hands, LineMeant
  <2> QED BY <2>1 DEF LineMeant
<1> QED BY <1>5, <1>6, KidsAgain DEF Hands

LEMMA HandsResolve ==
    ASSUME Typed, Registry, Desc, Hands, Server, pc \in {"resolveIn", "resolveOut"}
    PROVE  Hands'
<1> USE DEF registry, session, commands
<1>1. cur \in Id /\ client[cur] \in Conn BY CurIsHere DEF Serving
<1>2. line.i = 0 /\ line.inFd = 0 BY DEF Desc, LineHolds, LineMoves
<1>3. line \in LineSet BY DEF Typed, ControlType
<1>4. CASE NotAsked
  <2>1. line.devOut = 0 BY <1>4 DEF NotAsked, Hands, Accounted
  <2> QED BY <1>4, <2>1, HandsAlone DEF NotAsked
<1>5. CASE ResolveInNull
  <2>1. PICK l : l = Lowest(fd) OBVIOUS
  <2>2. /\ line' = [line EXCEPT !.user = l, !.devIn = l] /\ pc' # "wait" /\ line.user = 0
        /\ Room(fd, 1) /\ fd' = Opened(fd, Null)
        /\ UNCHANGED <<client, sock, numbered, userPipe, purpose, kid, cur>> /\ line.devOut = 0
    BY <1>5, <2>1 DEF ResolveInNull, Goto, Desc, LineMoves, Hands, Accounted
  <2>3. line'.user = l /\ line'.i = 0 /\ line'.inFd = 0 /\ line'.devOut = line.devOut
    BY <1>2, <1>3, <2>2 DEF LineSet
  <2> QED BY <1>2, <2>1, <2>2, <2>3, HandsOpensNull
<1>6. CASE ResolveOutNull
  <2>1. PICK l : l = Lowest(fd) OBVIOUS
  <2>2. /\ line' = [line EXCEPT !.outFd = l, !.devOut = l] /\ pc' \in {"command", "dead"}
        /\ Room(fd, 1) /\ fd' = Opened(fd, Null) /\ pc = "resolveOut"
        /\ UNCHANGED <<client, sock, numbered, userPipe, purpose, kid, cur>>
    BY <1>6, <2>1 DEF ResolveOutNull, Goto
  <2>3. line'.user = line.user /\ line'.i = 0 /\ line'.inFd = 0 /\ line'.devOut = l
    BY <1>2, <1>3, <2>2 DEF LineSet
  <2>4. line.devOut = 0 BY <2>2 DEF Hands, Accounted
  <2> QED BY <1>2, <2>1, <2>2, <2>3, <2>4, HandsOpensNull
<1>7. CASE ResolveIn
  <2>1. PICK x : x = <<line.from, cur>> OBVIOUS
  <2>2. x \in Id \X Id /\ userPipe[x] # NoEnds
    BY <1>1, <1>3, <1>7, <2>1 DEF ResolveIn, LineSet
  <2>3. PICK e : e = userPipe[x] OBVIOUS
  <2>4. /\ line' = [line EXCEPT !.user = e.r] /\ pc' # "wait" /\ pc = "resolveIn"
        /\ fd' = CloseFd(fd, e.w) /\ userPipe' = [userPipe EXCEPT ![x] = NoEnds]
        /\ UNCHANGED <<client, sock, numbered, purpose, kid, cur>>
    BY <1>7, <2>1, <2>3 DEF ResolveIn, Goto, Drained, Taken
  <2>5. KeepsUserPipe(x, e.r) /\ KeepsUserPipe(x, e.w) BY <2>2, <2>3 DEF KeepsUserPipe
  <2>6. PICK q \in Pipe : fd[e.r] = Rd(q) /\ fd[e.w] = Wr(q) /\ purpose[q] = <<client[cur], 0>>
    BY <2>1, <2>2, <2>3, UserPipesPipe DEF Desc
  <2>7. e.r \in Fd /\ e.w \in Fd /\ e.r # e.w /\ e.r # 0 /\ 1 \notin {e.r, e.w}
    BY <2>2, <2>5, <2>6, KeptIsOpen, ClosedIsNoObject, ListenIsNoPipe DEF Desc, Fd, Hands, Accounted
  <2>8. \A f \in Fd : fd'[f] = IF f = e.w THEN Closed ELSE fd[f]
    BY <2>4, <2>7, CloseIs DEF Typed, TablesType
  <2>9. line'.user = e.r /\ line'.i = 0 /\ line'.inFd = 0 /\ line'.devOut = line.devOut
    BY <1>2, <1>3, <2>4 DEF LineSet
  <2>10. line.user = 0 BY <2>4 DEF Desc, LineMoves
  <2>11. ASSUME NEW f \in Fd \ {1}, fd'[f] # Closed PROVE ~Loose(f)' \/ HeldByLine(f)'
    <3>1. fd[f] # Closed /\ f # e.w BY <2>8, <2>11
    <3>2. CASE f = e.r BY <2>9, <3>2 DEF HeldByLine
    <3>3. CASE HeldByLine(f) BY <1>2, <2>9, <2>10, <2>11, <3>3, ListenIsNoPipe DEF HeldByLine
    <3>4. CASE f # e.r /\ ~HeldByLine(f)
      <4>1. ~Loose(f) BY <2>11, <3>1, <3>4 DEF Hands, Accounted
      <4>2. PICK U : U = {x} OBVIOUS
      <4>3. \A y \in U : ~KeepsUserPipe(y, f) BY <2>3, <3>1, <3>4, <4>2 DEF KeepsUserPipe
      <4>4. \A y \in (Id \X Id) \ U : userPipe'[y] = userPipe[y]
        BY <2>4, <4>2 DEF Typed, TablesType
      <4>5. {} \in SUBSET (Id \X Segment) /\ U \in SUBSET (Id \X Id) BY <2>2, <4>2
      <4> QED BY <2>4, <4>1, <4>3, <4>4, <4>5, KeptAgain
    <3> QED BY <3>2, <3>3, <3>4
  <2>12. fd'[1] = Listen BY <2>7, <2>8, ListenIsNoPipe DEF Hands, Accounted
  <2>13. Accounted'
    <3>1. line'.devOut = 0 BY <2>4, <2>9 DEF Hands, Accounted
    <3> QED BY <2>4, <2>11, <2>12, <3>1 DEF Accounted
  <2>14. fd'[e.r] = Rd(q) /\ \A p \in Pipe : Rd(p) = Rd(q) => p = q
    BY <2>6, <2>7, <2>8, ClosedIsNoObject
  <2>15. LineMeant' BY <2>4, <2>6, <2>9, <2>14 DEF LineMeant
  <2> QED BY <2>4, <2>13, <2>15, KidsAgain DEF Hands
<1>8. ASSUME NEW q \in Pipe, ResolveOut(q) PROVE Hands'
  <2>1. PICK x : x = <<cur, line.to>> OBVIOUS
  <2>2. x \in Id \X Id /\ userPipe[x] = NoEnds
    BY <1>1, <1>3, <1>8, <2>1 DEF ResolveOut, LineSet
  <2>3. PICK e, why : e = PipeFds(fd, q) /\ why = <<client[line.to], 0>> OBVIOUS
  <2>4. /\ line' = [line EXCEPT !.outFd = e.w] /\ pc' \in {"command", "dead"}
        /\ userPipe' = [userPipe EXCEPT ![x] = e] /\ purpose' = [purpose EXCEPT ![q] = why]
        /\ UNCHANGED <<client, sock, numbered, kid, cur>> /\ Fresh(q)
    BY <1>8, <2>1, <2>3 DEF ResolveOut, Goto
  <2>5. /\ e.r \in Fd /\ e.w \in Fd /\ fd[e.r] = Closed /\ fd[e.w] = Closed
        /\ \A f \in Fd : f \notin {e.r, e.w} => fd'[f] = fd[f]
    BY <1>8, <2>3, PipeIs DEF ResolveOut, Typed, TablesType
  <2>6. userPipe'[x] = e BY <2>2, <2>4 DEF Typed, TablesType
  <2>7. line'.user = line.user /\ line'.i = 0 /\ line'.inFd = 0 /\ line'.devOut = line.devOut
    BY <1>2, <1>3, <2>4 DEF LineSet
  <2>8. ASSUME NEW f \in Fd \ {1}, fd'[f] # Closed PROVE ~Loose(f)' \/ HeldByLine(f)'
    <3>1. CASE f \in {e.r, e.w}
      <4>1. e # NoEnds BY <2>5 DEF NoEnds, Fd
      <4>2. KeepsUserPipe(x, f)' BY <2>6, <3>1, <4>1 DEF KeepsUserPipe
      <4> QED BY <2>2, <4>2 DEF Loose
    <3>2. CASE HeldByLine(f) BY <1>2, <2>7, <2>8, <3>2, ListenIsNoPipe DEF HeldByLine
    <3>3. CASE f \notin {e.r, e.w} /\ ~HeldByLine(f)
      <4>1. ~Loose(f) BY <2>5, <2>8, <3>3 DEF Hands, Accounted
      <4>2. PICK U : U = {x} OBVIOUS
      <4>3. \A y \in U : ~KeepsUserPipe(y, f) BY <2>2, <4>2 DEF KeepsUserPipe
      <4>4. \A y \in (Id \X Id) \ U : userPipe'[y] = userPipe[y]
        BY <2>4, <4>2 DEF Typed, TablesType
      <4>5. {} \in SUBSET (Id \X Segment) /\ U \in SUBSET (Id \X Id) BY <2>2, <4>2
      <4> QED BY <2>4, <4>1, <4>3, <4>4, <4>5, KeptAgain
    <3> QED BY <3>1, <3>2, <3>3
  <2>9. fd'[1] = Listen BY <2>5, ListenIsNoPipe DEF Hands, Accounted
  <2>10. Accounted' BY <2>4, <2>8, <2>9 DEF Accounted
  <2>11. PurposesStay /\ HeldPurposesStay BY <1>8, <2>4, FreshIsUnused DEF ResolveOut
  <2>12. ASSUME line'.user # 0, NEW p \in Pipe, fd'[line'.user] = Rd(p)
         PROVE  purpose'[p] = <<client'[cur'], 0>>
    <3>1. PICK u : u = line.user OBVIOUS
    <3>2. u \in Fd /\ u # 0 BY <1>3, <2>7, <2>12, <3>1 DEF LineSet
    <3>3. fd[u] = Null \/ IsReader(fd[u]) BY <1>2, <3>1, <3>2 DEF Desc, LineHolds
    <3>4. fd'[u] = fd[u] BY <2>5, <3>2, <3>3, ClosedIsNoObject DEF IsReader
    <3>5. fd[u] = Rd(p) BY <2>7, <2>12, <3>1, <3>4
    <3>6. purpose[p] = <<client[cur], 0>> BY <1>2, <3>1, <3>2, <3>5 DEF Hands, LineMeant
    <3> QED BY <2>4, <2>11, <3>2, <3>5, <3>6 DEF PurposesStay
  <2>13. LineMeant' BY <2>7, <2>12 DEF LineMeant
  <2> QED BY <2>4, <2>10, <2>11, <2>13, KidsAgain DEF Hands, HeldPurposesStay
<1>9. /\ \A k \in Kid : ~RunPlain(k) /\ ~RunNumbered(k)
      /\ \A k \in Kid, q \in Pipe : ~RunPiped(k, q) /\ ~RunNewNumbered(k, q)
  BY RunsAtCommand
<1>10. ~NoneReady /\ ~EndOfInput /\ ~ExitLine /\ ~Builtin /\ ~NotANumber /\ ~Reap
  BY DEF NoneReady, EndOfInput, ExitLine, Builtin, NotANumber, Reap, TakesLine
<1>11. /\ \A n \in Name : ~Rename(n)
       /\ \A s \in Shape, f, t \in Id \union {NoUser} : ~Parse(s, f, t)
       /\ \A R \in SUBSET Id : ~Select(R)
       /\ \A id \in Id : ~NextReady(id)
       /\ \A c \in Conn : ~Refuse(c) /\ \A id \in Id : ~Accept(c, id)
  BY DEF Rename, Parse, TakesLine, Select, NextReady, Refuse, Accept
<1> QED BY <1>4, <1>5, <1>6, <1>7, <1>8, <1>9, <1>10, <1>11 DEF Server

\* The segment of the command whose turn it is.
NextSegment(i) == IF Starts(i) THEN line.seg + 1 ELSE line.seg

\* Where the command's input comes from, and what happens to the pipe that is due.
AttachedFrom(a, s, due) ==
    /\ due # NoEnds => due.r \in Fd /\ due.w \in Fd /\ a.fd[due.w] = Closed /\ (a.fd[due.r] = Closed \/ a.in = due.r)
    /\ line.inFd # 0 => a.in = line.inFd
    /\ a.in # 0 => \/ a.in = line.user /\ line.i = 0
                   \/ a.in = line.inFd /\ s = line.seg
                   \/ due # NoEnds /\ a.in = due.r

LEMMA AttachedFromIs ==
    ASSUME Typed, Registry, Desc, cur \in Id, pc = "command", NEW i, i = line.i + 1, NEW s \in Segment,
           s = NextSegment(i), NEW a, a = Attached(i, s), NEW due, due = Due(i, s)
    PROVE  AttachedFrom(a, s, due)
<1>1. due \in Ends /\ (due # NoEnds => due = numbered[cur][s])
  BY DEF Due, Typed, TablesType, NoEnds, Ends
<1>2. due # NoEnds => due.r \in Fd /\ due.w \in Fd /\ due.r # due.w
  <2> SUFFICES ASSUME due # NoEnds PROVE due.r \in Fd /\ due.w \in Fd /\ due.r # due.w OBVIOUS
  <2>1. PICK x : x = <<cur, s>> OBVIOUS
  <2>2. x \in Id \X Segment /\ numbered[x[1]][x[2]] = due BY <1>1, <2>1
  <2>3. KeepsDelay(x, due.r) /\ KeepsDelay(x, due.w) BY <2>2 DEF KeepsDelay
  <2>4. PICK q \in Pipe : fd[due.r] = Rd(q) /\ fd[due.w] = Wr(q) BY <2>2, DelayedPipe DEF Desc
  <2> QED BY <2>2, <2>3, <2>4, KeptIsOpen, ClosedIsNoObject DEF Desc
<1>3. PICK own : own = IF line.inFd = 0 THEN due.r ELSE line.inFd OBVIOUS
<1>4. line.inFd # 0 => due = NoEnds /\ i # 1 /\ s = line.seg
  BY DEF Desc, LineHolds, Due, Typed, ControlType, LineSet, NextSegment
<1>5. (IF line.inFd \notin {0, due.r} THEN due.r ELSE 0) = 0 BY <1>4 DEF NoEnds
<1>6. PICK t : t = CloseFd(CloseFd(fd, 0), due.w) OBVIOUS
<1>7. t \in Table /\ \A f \in Fd : t[f] = IF f = due.w THEN Closed ELSE fd[f]
  BY <1>1, <1>6, CloseIs DEF Ends, Typed, TablesType, Fd
<1>8. /\ a.fd = IF i = 1 /\ line.user # 0 THEN CloseFd(t, own) ELSE t
      /\ a.in = IF i = 1 /\ line.user # 0 THEN line.user ELSE own
  BY <1>3, <1>5, <1>6 DEF Attached
<1>9. i = 1 <=> line.i = 0 BY DEF Typed, ControlType, LineSet
<1>10. due # NoEnds => a.fd[due.w] = Closed /\ (a.fd[due.r] = Closed \/ a.in = due.r)
  <2> SUFFICES ASSUME due # NoEnds PROVE a.fd[due.w] = Closed /\ (a.fd[due.r] = Closed \/ a.in = due.r)
    OBVIOUS
  <2>1. own = due.r BY <1>3, <1>4
  <2>2. \A f \in Fd : CloseFd(t, due.r)[f] = IF f = due.r THEN Closed ELSE t[f]
    BY <1>1, <1>7, CloseIs DEF Ends
  <2> QED BY <1>2, <1>7, <1>8, <2>1, <2>2
<1>11. line.inFd # 0 => a.in = line.inFd BY <1>3, <1>4, <1>8
<1>12. a.in # 0 => \/ a.in = line.user /\ line.i = 0
                   \/ a.in = line.inFd /\ s = line.seg
                   \/ due # NoEnds /\ a.in = due.r
  BY <1>3, <1>4, <1>8, <1>9 DEF NoEnds
<1> QED BY <1>2, <1>10, <1>11, <1>12 DEF AttachedFrom

\* A command's turn: what all four kinds of output have in common.
Delays(i, s, m, n) ==
    /\ n \in [Id -> [Segment -> Ends]]
    /\ \A j \in Id, g \in Segment :
          \/ n[j][g] = m[j][g]
          \/ j = cur /\ m[j][g] = NoEnds /\ line.cmds[i] \in Nat /\ g = s + line.cmds[i]

OpensFor(t, u, n, e) ==
    \A f \in Fd : u[f] # Closed =>
        \/ u[f] = t[f]
        \/ f \in {e.r, e.w}
        \/ \E g \in Segment : n[cur][g] # NoEnds /\ f \in {n[cur][g].r, n[cur][g].w}

RunsAs(i, s, k, a, t, out, e) ==
    /\ i \in 1 .. Len(line.cmds) /\ i = line.i + 1 /\ s \in Segment /\ s = NextSegment(i)
    /\ a = Attached(i, s) /\ t \in Table /\ e \in Ends
    /\ Forked(i, s, k, a, t, numbered', out, e)
    /\ UNCHANGED <<client, sock, executed, userPipe, cur>>
    /\ Reopens(a.fd, t, e) /\ LeadsOn(i, t, e) /\ PurposesStay /\ HeldPurposesStay
    /\ e.r # 0 => \A p \in Pipe : t[e.r] = Rd(p) => purpose'[p] = <<client[cur], s>>
    /\ Delays(i, s, a.numbered, numbered')
    /\ OpensFor(a.fd, t, numbered', e)

LEMMA NoEndsAre == NoEnds \in Ends /\ NoEnds.r = 0 /\ NoEnds.w = 0 /\ 0 \notin Fd
BY DEF NoEnds, Ends, Fd

\* An output that needs no new pipe.
LEMMA RunsWithoutPipe ==
    ASSUME Typed, Registry, Desc, cur \in Id, NEW i \in 1 .. Len(line.cmds), NEW s \in Segment, Turn(i, s),
           NEW k, NEW out, NEW a, a = Attached(i, s),
           Forked(i, s, k, a, a.fd, a.numbered, out, NoEnds),
           UNCHANGED <<client, sock, executed, userPipe, cur, purpose>>
    PROVE  RunsAs(i, s, k, a, a.fd, out, NoEnds)
<1>1. a.fd \in Table /\ a.numbered \in [Id -> [Segment -> Ends]] BY AttachedTyped
<1>2. numbered' = a.numbered BY DEF Forked
<1>3. i = line.i + 1 /\ s = NextSegment(i) BY DEF Turn, NextSegment
<1>4. Reopens(a.fd, a.fd, NoEnds) /\ LeadsOn(i, a.fd, NoEnds) /\ PurposesStay /\ HeldPurposesStay
  BY NoEndsAre DEF Reopens, LeadsOn, PurposesStay, HeldPurposesStay
<1>5. Delays(i, s, a.numbered, numbered') BY <1>1, <1>2 DEF Delays
<1>6. OpensFor(a.fd, a.fd, numbered', NoEnds) BY DEF OpensFor
<1> QED BY <1>1, <1>2, <1>3, <1>4, <1>5, <1>6, NoEndsAre DEF RunsAs

LEMMA RunPlainIs ==
    ASSUME Typed, Registry, Desc, cur \in Id, NEW k \in Kid, RunPlain(k)
    PROVE  \E i, s, a, t, out, e : RunsAs(i, s, k, a, t, out, e)
<1>1. PICK i \in 1 .. Len(line.cmds), s \in Segment :
        /\ Turn(i, s)
        /\ LET a == Attached(i, s) IN
             Forked(i, s, k, a, a.fd, a.numbered, IF line.outFd # 0 THEN line.outFd ELSE sock[cur], NoEnds)
        /\ UNCHANGED <<conn, registry, executed, userPipe, ready, cur, lines, content, purpose>>
  BY DEF RunPlain
<1>2. PICK a, o : /\ a = Attached(i, s)
                  /\ o = IF line.outFd # 0 THEN line.outFd ELSE sock[cur]
  OBVIOUS
<1>3. Forked(i, s, k, a, a.fd, a.numbered, o, NoEnds) BY <1>1, <1>2
<1>4. UNCHANGED <<client, sock, executed, userPipe, cur, purpose>> BY <1>1 DEF registry
<1>5. RunsAs(i, s, k, a, a.fd, o, NoEnds) BY <1>1, <1>2, <1>3, <1>4, RunsWithoutPipe
<1> QED BY <1>5

LEMMA RunNumberedIs ==
    ASSUME Typed, Registry, Desc, cur \in Id, NEW k \in Kid, RunNumbered(k)
    PROVE  \E i, s, a, t, out, e : RunsAs(i, s, k, a, t, out, e)
<1>1. PICK i \in 1 .. Len(line.cmds), s \in Segment :
        /\ Turn(i, s)
        /\ LET a == Attached(i, s)
               ends == a.numbered[cur][Target(i, s)]
           IN  Forked(i, s, k, a, a.fd, a.numbered, ends.w, NoEnds)
        /\ UNCHANGED <<conn, registry, executed, userPipe, ready, cur, lines, content, purpose>>
  BY DEF RunNumbered
<1>2. PICK a, o : a = Attached(i, s) /\ o = a.numbered[cur][Target(i, s)].w
  OBVIOUS
<1>3. Forked(i, s, k, a, a.fd, a.numbered, o, NoEnds) BY <1>1, <1>2
<1>4. UNCHANGED <<client, sock, executed, userPipe, cur, purpose>> BY <1>1 DEF registry
<1>5. RunsAs(i, s, k, a, a.fd, o, NoEnds) BY <1>1, <1>2, <1>3, <1>4, RunsWithoutPipe
<1> QED BY <1>5

LEMMA RunPipedIs ==
    ASSUME Typed, Registry, Desc, cur \in Id, NEW k \in Kid, NEW q \in Pipe, RunPiped(k, q)
    PROVE  \E i, s, a, t, out, e : RunsAs(i, s, k, a, t, out, e)
<1>1. PICK i \in 1 .. Len(line.cmds), s \in Segment :
        /\ Turn(i, s) /\ line.cmds[i] = Ordinary
        /\ LET a == Attached(i, s) IN
             /\ Room(a.fd, 2) /\ Fresh(q)
             /\ Forked(i, s, k, a, WithPipe(a.fd, q), a.numbered, PipeFds(a.fd, q).w, PipeFds(a.fd, q))
        /\ purpose' = [purpose EXCEPT ![q] = <<client[cur], s>>]
        /\ UNCHANGED <<conn, registry, executed, userPipe, ready, cur, lines>>
  BY DEF RunPiped
<1>2. PICK a, t, e, why : /\ a = Attached(i, s) /\ t = WithPipe(a.fd, q) /\ e = PipeFds(a.fd, q)
                          /\ why = <<client[cur], s>>
  OBVIOUS
<1>3. Room(a.fd, 2) /\ Fresh(q) /\ Forked(i, s, k, a, t, a.numbered, e.w, e) BY <1>1, <1>2
<1>4. a.fd \in Table /\ a.numbered \in [Id -> [Segment -> Ends]] BY <1>2, AttachedTyped
<1>5. /\ e \in Ends /\ e.r # e.w /\ a.fd[e.r] = Closed /\ a.fd[e.w] = Closed /\ t \in Table
      /\ t[e.r] = Rd(q) /\ \A f \in Fd : f \notin {e.r, e.w} => t[f] = a.fd[f]
  BY <1>2, <1>3, <1>4, PipeIs
<1>6. UNCHANGED <<client, sock, executed, userPipe, cur>> BY <1>1 DEF registry
<1>7. i = line.i + 1 /\ s = NextSegment(i) BY <1>1 DEF Turn, NextSegment
<1>8. PurposesStay /\ HeldPurposesStay /\ purpose'[q] = why
  <2>1. purpose' = [purpose EXCEPT ![q] = why] BY <1>1, <1>2
  <2> QED BY <1>1, <1>3, <2>1, FreshIsUnused DEF Turn
<1>9. Reopens(a.fd, t, e) BY <1>5 DEF Reopens
<1>10. LeadsOn(i, t, e) BY <1>1, <1>5 DEF LeadsOn, IsReader
<1>11. \A p \in Pipe : t[e.r] = Rd(p) => purpose'[p] = <<client[cur], s>>
  BY <1>2, <1>5, <1>8, ClosedIsNoObject
<1>12. numbered' = a.numbered BY <1>3 DEF Forked
<1>13. Delays(i, s, a.numbered, numbered') BY <1>4, <1>12 DEF Delays
<1>14. OpensFor(a.fd, t, numbered', e) BY <1>5 DEF OpensFor
<1>15. RunsAs(i, s, k, a, t, e.w, e)
  BY <1>1, <1>2, <1>3, <1>5, <1>6, <1>7, <1>8, <1>9, <1>10, <1>11, <1>12, <1>13, <1>14 DEF RunsAs
<1> QED BY <1>15

LEMMA RunNewNumberedIs ==
    ASSUME Typed, Registry, Desc, cur \in Id, NEW k \in Kid, NEW q \in Pipe, RunNewNumbered(k, q)
    PROVE  \E i, s, a, t, out, e : RunsAs(i, s, k, a, t, out, e)
<1>1. PICK i \in 1 .. Len(line.cmds), s \in Segment :
        /\ Turn(i, s) /\ Target(i, s) \in Segment /\ line.cmds[i] >= 0
        /\ LET a == Attached(i, s) IN
             /\ a.numbered[cur][Target(i, s)] = NoEnds
             /\ Room(a.fd, 2) /\ Fresh(q)
             /\ Forked(i, s, k, a, WithPipe(a.fd, q),
                       [a.numbered EXCEPT ![cur][Target(i, s)] = PipeFds(a.fd, q)],
                       PipeFds(a.fd, q).w, NoEnds)
        /\ purpose' = [purpose EXCEPT ![q] = <<client[cur], Target(i, s)>>]
        /\ UNCHANGED <<conn, registry, executed, userPipe, ready, cur, lines>>
  BY DEF RunNewNumbered
<1>2. PICK a, t, e, g, why :
        /\ a = Attached(i, s) /\ t = WithPipe(a.fd, q) /\ e = PipeFds(a.fd, q)
        /\ g = Target(i, s) /\ why = <<client[cur], g>>
  OBVIOUS
<1>3. PICK m : m = [a.numbered EXCEPT ![cur][g] = e] OBVIOUS
<1>4. /\ Room(a.fd, 2) /\ Fresh(q) /\ Forked(i, s, k, a, t, m, e.w, NoEnds) /\ g \in Segment
      /\ a.numbered[cur][g] = NoEnds
  BY <1>1, <1>2, <1>3
<1>5. a.fd \in Table /\ a.numbered \in [Id -> [Segment -> Ends]] BY <1>2, AttachedTyped
<1>6. /\ e \in Ends /\ e.r \in Fd /\ t \in Table /\ \A f \in Fd : f \notin {e.r, e.w} => t[f] = a.fd[f]
      /\ a.fd[e.r] = Closed /\ a.fd[e.w] = Closed
  BY <1>2, <1>4, <1>5, PipeIs
<1>7. UNCHANGED <<client, sock, executed, userPipe, cur>> BY <1>1 DEF registry
<1>8. i = line.i + 1 /\ s = NextSegment(i) BY <1>1 DEF Turn, NextSegment
<1>9. PurposesStay /\ HeldPurposesStay
  <2>1. purpose' = [purpose EXCEPT ![q] = why] BY <1>1, <1>2
  <2> QED BY <1>1, <1>4, <2>1, FreshIsUnused DEF Turn
<1>10. Reopens(a.fd, t, NoEnds) BY <1>6, NoEndsAre DEF Reopens
<1>11. LeadsOn(i, t, NoEnds) BY NoEndsAre DEF LeadsOn
<1>12. numbered' = m BY <1>4 DEF Forked
<1>13. m \in [Id -> [Segment -> Ends]] /\ m[cur][g] = e
       /\ \A j \in Id, h \in Segment : j # cur \/ h # g => m[j][h] = a.numbered[j][h]
  <2>1. a.numbered \in [Id -> [Segment -> Ends]] /\ e \in Ends BY <1>5, <1>6
  <2> QED BY <1>3, <1>4, <2>1
<1>14. Delays(i, s, a.numbered, numbered')
  <2>1. g = s + line.cmds[i] /\ line.cmds[i] \in Nat
    <3>1. line.cmds \in Shape BY <1>1, NoLineIsLine DEF Typed, ControlType, LineSet
    <3>2. line.cmds[i] \in Nat \union {NoPipe, Ordinary} BY <1>1, <3>1, ShapeIsSequence
    <3> QED BY <1>1, <1>2, <3>2 DEF Target, NoPipe, Ordinary
  <2> QED BY <1>4, <1>12, <1>13, <2>1 DEF Delays
<1>15. OpensFor(a.fd, t, numbered', NoEnds)
  <2>1. e # NoEnds BY <1>6, NoEndsAre
  <2> QED BY <1>4, <1>6, <1>12, <1>13, <2>1 DEF OpensFor
<1>16. Forked(i, s, k, a, t, numbered', e.w, NoEnds) BY <1>4, <1>12
<1>17. RunsAs(i, s, k, a, t, e.w, NoEnds)
  BY <1>1, <1>2, <1>6, <1>7, <1>8, <1>9, <1>10, <1>11, <1>14, <1>15, <1>16, NoEndsAre DEF RunsAs
<1> QED BY <1>17

\* The table that fork leaves.
LEMMA ForkedFds ==
    ASSUME NEW i, NEW s, NEW k, NEW a, a.in \in Fd \union {0}, NEW t \in Table, NEW m, NEW out, NEW e \in Ends,
           Forked(i, s, k, a, t, m, out, e)
    PROVE  \A f \in Fd : fd'[f] = IF f \in {a.in, e.w} \/ (IsLast(i) /\ f = e.r) THEN Closed ELSE t[f]
<1>1. PICK r, w : r = e.r /\ w = e.w OBVIOUS
<1>2. r \in Fd \union {0} /\ w \in Fd \union {0} BY <1>1 DEF Ends
<1>3. PICK v : v = CloseFd(t, a.in) OBVIOUS
<1>4. v \in Table /\ \A f \in Fd : v[f] = IF f = a.in THEN Closed ELSE t[f] BY <1>3, CloseIs
<1>5. PICK u : u = CloseFd(v, w) OBVIOUS
<1>6. u \in Table /\ \A f \in Fd : u[f] = IF f = w THEN Closed ELSE v[f] BY <1>2, <1>4, <1>5, CloseIs
<1>7. \A f \in Fd : CloseFd(u, r)[f] = IF f = r THEN Closed ELSE u[f] BY <1>2, <1>6, CloseIs
<1>8. fd' = IF IsLast(i) THEN CloseFd(u, r) ELSE u BY <1>1, <1>3, <1>5 DEF Forked
<1> QED BY <1>1, <1>4, <1>6, <1>7, <1>8

LEMMA ForkedLine ==
    ASSUME Typed, NEW i, NEW s, NEW k, NEW a, NEW t, NEW m, NEW out, NEW e, Forked(i, s, k, a, t, m, out, e)
    PROVE  /\ line'.i = i /\ line'.seg = s /\ line'.inFd = IF IsLast(i) THEN 0 ELSE e.r
           /\ line'.cmds = line.cmds /\ line'.user = line.user /\ line'.devOut = line.devOut
           /\ pc' = IF IsLast(i) THEN "wait" ELSE "command"
<1>1. line \in LineSet BY DEF Typed, ControlType
<1> QED BY <1>1 DEF Forked, LineSet

\* After a fork: what is open, and was not opened for the command's output.
LEMMA StillOpen ==
    ASSUME Typed, Registry, Desc, Hands, cur \in Id, pc = "command", NEW k \in Kid,
           NEW i, NEW s, NEW a, NEW t, NEW out, NEW e, RunsAs(i, s, k, a, t, out, e),
           NEW f \in Fd \ {1}, t[f] # Closed, t[f] = a.fd[f], f # a.in
    PROVE  /\ fd[f] = t[f]
           /\ \/ f = line.devOut /\ fd[f] = Null
              \/ /\ ~Loose(f) /\ ~Loose(f)'
                 /\ \A g \in Segment : KeepsDelay(<<cur, g>>, f) =>
                        numbered'[cur][g] # NoEnds /\ f \in {numbered'[cur][g].r, numbered'[cur][g].w}
<1>0. PICK due : due = Due(i, s) OBVIOUS
<1>1. AttachedAs(a, i, s, due) /\ AttachedFrom(a, s, due)
  BY <1>0, AttachedIs, AttachedFromIs DEF RunsAs
<1>2. /\ \A h \in Fd : a.fd[h] = fd[h] \/ (a.fd[h] = Closed /\ h \in {due.r, due.w})
      /\ line.i = 0 /\ line.user # 0 => a.in = line.user
      /\ line.inFd # 0 => a.in = line.inFd
  BY <1>1 DEF AttachedAs, AttachedFrom
<1>3. fd[f] = t[f] BY <1>2
<1>4. due # NoEnds => f \notin {due.r, due.w} BY <1>1 DEF AttachedFrom
<1>5. CASE f = line.devOut
  BY <1>3, <1>5, NoEndsAre DEF Desc, LineHolds
<1>6. CASE f # line.devOut
  <2>1. ~HeldByLine(f) BY <1>2, <1>6, NoEndsAre DEF HeldByLine
  <2>2. ~Loose(f) BY <1>3, <2>1 DEF Hands, Accounted
  <2>3. PICK N : N = {x \in Id \X Segment : numbered'[x[1]][x[2]] # numbered[x[1]][x[2]]} OBVIOUS
  <2>4. ASSUME NEW x \in N PROVE ~KeepsDelay(x, f)
    <3>1. PICK j \in Id, g \in Segment : x = <<j, g>> BY <2>3
    <3>2. numbered'[j][g] # numbered[j][g] BY <2>3, <3>1
    <3>3. numbered'[j][g] = a.numbered[j][g] \/ a.numbered[j][g] = NoEnds BY DEF RunsAs, Delays
    <3>4. CASE due = NoEnds
      <4>1. a.numbered = numbered BY <1>1, <3>4 DEF AttachedAs
      <4> QED BY <3>1, <3>2, <3>3, <4>1 DEF KeepsDelay
    <3>5. CASE due # NoEnds /\ ~(j = cur /\ g = s)
      <4>1. numbered \in [Id -> [Segment -> Ends]] BY DEF Typed, TablesType
      <4>2. a.numbered = [numbered EXCEPT ![cur][s] = NoEnds] BY <1>1, <3>5 DEF AttachedAs
      <4>3. a.numbered[j][g] = numbered[j][g] BY <3>5, <4>1, <4>2
      <4> QED BY <3>1, <3>2, <3>3, <4>3 DEF KeepsDelay
    <3>6. CASE due # NoEnds /\ j = cur /\ g = s
      <4>1. numbered[cur][s] = due BY <1>1, <3>6 DEF AttachedAs
      <4> QED BY <1>4, <3>1, <3>6, <4>1 DEF KeepsDelay
    <3> QED BY <3>4, <3>5, <3>6
  <2>5. N \in SUBSET (Id \X Segment) /\ {} \in SUBSET (Id \X Id) BY <2>3
  <2>6. \A x \in (Id \X Segment) \ N : numbered'[x[1]][x[2]] = numbered[x[1]][x[2]] BY <2>3
  <2>7. UNCHANGED <<client, sock, userPipe>> BY DEF RunsAs
  <2>8. ~Loose(f)' BY <2>2, <2>4, <2>5, <2>6, <2>7, KeptAgain
  <2>9. ASSUME NEW g \in Segment, KeepsDelay(<<cur, g>>, f)
        PROVE  numbered'[cur][g] # NoEnds /\ f \in {numbered'[cur][g].r, numbered'[cur][g].w}
    <3>1. PICK x : x = <<cur, g>> OBVIOUS
    <3>2. x \in (Id \X Segment) \ N BY <2>4, <2>9, <3>1
    <3>3. numbered'[cur][g] = numbered[cur][g] BY <2>6, <3>1, <3>2
    <3> QED BY <2>9, <3>3 DEF KeepsDelay
  <2> QED BY <1>3, <2>2, <2>8, <2>9
<1> QED BY <1>5, <1>6

LEMMA ForkedHands ==
    ASSUME Typed, Registry, Desc, Hands, cur \in Id, pc = "command", NEW k \in Kid,
           NEW i, NEW s, NEW a, NEW t, NEW out, NEW e, RunsAs(i, s, k, a, t, out, e)
    PROVE  Hands'
<1>0. PICK due : due = Due(i, s) OBVIOUS
<1>1. AttachedAs(a, i, s, due) /\ AttachedFrom(a, s, due)
  BY <1>0, AttachedIs, AttachedFromIs DEF RunsAs
<1>2. /\ a.in \in Fd \union {0} /\ t \in Table /\ e \in Ends /\ Forked(i, s, k, a, t, numbered', out, e)
      /\ s \in Segment /\ i # 0 /\ UNCHANGED <<client, cur>>
  BY <1>1 DEF AttachedAs, RunsAs, Typed, ControlType, LineSet
<1>3. \A f \in Fd : fd'[f] = IF f \in {a.in, e.w} \/ (IsLast(i) /\ f = e.r) THEN Closed ELSE t[f]
  BY <1>2, ForkedFds
<1>4. /\ line'.i = i /\ line'.seg = s /\ line'.inFd = (IF IsLast(i) THEN 0 ELSE e.r)
      /\ line'.devOut = line.devOut
      /\ pc' = (IF IsLast(i) THEN "wait" ELSE "command")
  BY <1>2, ForkedLine
<1>5. a.in # 0 => a.fd[a.in] = fd[a.in] /\ fd[a.in] # Closed /\ (fd[a.in] = Null \/ IsReader(fd[a.in]))
  BY <1>1 DEF AttachedAs
<1>6. \A f \in Fd : a.fd[f] # Closed => t[f] = a.fd[f] /\ f \notin {e.r, e.w}
  BY DEF RunsAs, Reopens
<1>7. fd'[1] = Listen
  <2>1. Loose(1) BY ListenerIsLoose DEF Desc, Hands
  <2>2. 1 \notin {due.r, due.w}
    <3>1. PICK x : x = <<cur, s>> OBVIOUS
    <3>2. x \in Id \X Segment BY <1>2, <3>1
    <3>3. ~KeepsDelay(x, 1) BY <2>1, <3>2 DEF Loose
    <3>4. due # NoEnds => KeepsDelay(x, due.r) /\ KeepsDelay(x, due.w) BY <1>1, <3>1 DEF AttachedAs
    <3> QED BY <3>3, <3>4, NoEndsAre
  <2>3. fd[1] = Listen BY DEF Hands, Accounted
  <2>4. a.fd[1] = Listen BY <1>1, <2>2, <2>3, ListenIsNoPipe DEF AttachedAs
  <2>5. a.in # 1 BY <1>5, <2>3, ListenIsNoPipe, ClosedIsNoObject DEF IsReader
  <2> QED BY <1>3, <1>6, <2>4, <2>5, ListenIsNoPipe
<1>8. ASSUME NEW f \in Fd \ {1}, fd'[f] # Closed PROVE ~Loose(f)' \/ HeldByLine(f)'
  <2>1. t[f] # Closed /\ f \notin {a.in, e.w} /\ ~(IsLast(i) /\ f = e.r) BY <1>3, <1>8
  <2>2. CASE t[f] = a.fd[f]
    <3>1. ~Loose(f)' \/ f = line.devOut BY <2>1, <2>2, StillOpen
    <3> QED BY <1>4, <3>1 DEF HeldByLine
  <2>3. CASE f = e.r
    BY <1>4, <2>1, <2>3 DEF HeldByLine
  <2>4. ASSUME NEW g \in Segment, numbered'[cur][g] # NoEnds, f \in {numbered'[cur][g].r, numbered'[cur][g].w}
        PROVE  ~Loose(f)'
    <3>1. PICK x : x = <<cur, g>> OBVIOUS
    <3>2. x \in Id \X Segment /\ KeepsDelay(x, f)' BY <2>4, <3>1 DEF KeepsDelay
    <3> QED BY <3>2 DEF Loose
  <2> QED BY <2>1, <2>2, <2>3, <2>4 DEF RunsAs, OpensFor
<1>9. Accounted' BY <1>4, <1>7, <1>8 DEF Accounted
<1>10. ASSUME line'.inFd # 0, NEW q \in Pipe, fd'[line'.inFd] = Rd(q)
       PROVE  purpose'[q] = <<client'[cur'], line'.seg>>
  <2>1. line'.inFd = e.r /\ ~IsLast(i) /\ e.r # 0 BY <1>4, <1>10
  <2>2. e.r \in Fd /\ e.r # e.w BY <1>2, <2>1 DEF Ends, RunsAs, LeadsOn
  <2>3. e.r # a.in BY <1>5, <1>6, <2>1, <2>2
  <2>4. fd'[e.r] = t[e.r] BY <1>3, <2>1, <2>2, <2>3
  <2>5. purpose'[q] = <<client[cur], s>> BY <1>10, <2>1, <2>4 DEF RunsAs
  <2> QED BY <1>2, <1>4, <2>5
<1>11. LineMeant' BY <1>2, <1>4, <1>10 DEF LineMeant
<1>12. ASSUME NEW q \in Pipe, kid'[k].in = Rd(q)
       PROVE  Rd(q) \in kid'[k].holds /\ purpose'[q] \in {kid'[k].job, <<kid'[k].job[1], 0>>}
  <2>1. PICK n \in Outputs : kid'[k] = NewKid(t, numbered', a.in, out, e, s, n)
    BY <1>2 DEF Forked, Typed, CommandsType
  <2>2. PICK o : o = Input(t, a.in) OBVIOUS
  <2>3. kid'[k].in = o /\ (o # Stdin => o \in kid'[k].holds) /\ kid'[k].job = <<client[cur], s>>
    BY <2>1, <2>2 DEF NewKid
  <2>4. a.in # 0 /\ t[a.in] = Rd(q) /\ o # Stdin
    BY <1>12, <2>2, <2>3, ListenIsNoPipe DEF Input
  <2>5. fd[a.in] = Rd(q) /\ a.in \in Fd BY <1>2, <1>5, <1>6, <2>4
  <2>6. purpose[q] \in {<<client[cur], s>>, <<client[cur], 0>>}
    <3>1. CASE a.in = line.user /\ line.i = 0
      BY <2>4, <2>5, <3>1 DEF Hands, LineMeant
    <3>2. CASE a.in = line.inFd /\ s = line.seg
      BY <2>4, <2>5, <3>2 DEF Hands, LineMeant
    <3>3. CASE due # NoEnds /\ a.in = due.r
      <4>1. PICK x : x = <<cur, s>> OBVIOUS
      <4>2. x \in Id \X Segment /\ numbered[x[1]][x[2]] = due BY <1>1, <1>2, <3>3, <4>1 DEF AttachedAs
      <4>3. PICK p \in Pipe : fd[due.r] = Rd(p) /\ purpose[p] = <<client[x[1]], x[2]>>
        BY <3>3, <4>2, DelayedPipe DEF Desc
      <4>4. p = q BY <2>5, <3>3, <4>3, ClosedIsNoObject
      <4> QED BY <4>1, <4>3, <4>4
    <3> QED BY <1>1, <2>4, <3>1, <3>2, <3>3 DEF AttachedFrom
  <2>7. purpose'[q] = purpose[q] BY <2>5 DEF RunsAs, PurposesStay
  <2> QED BY <1>12, <2>3, <2>4, <2>6, <2>7
<1>13. ASSUME NEW j \in Kid, j # k, NEW q \in Pipe, kid'[j].in = Rd(q)
       PROVE  Rd(q) \in kid'[j].holds /\ purpose'[q] \in {kid'[j].job, <<kid'[j].job[1], 0>>}
  <2>1. kid'[j] = kid[j] BY <1>2, <1>13 DEF Forked, Typed, CommandsType
  <2>2. Rd(q) \in kid[j].holds /\ purpose[q] \in {kid[j].job, <<kid[j].job[1], 0>>}
    BY <1>13, <2>1 DEF Hands, KidsMeant
  <2>3. purpose'[q] = purpose[q] BY <2>2 DEF RunsAs, HeldPurposesStay
  <2> QED BY <2>1, <2>2, <2>3
<1>14. KidsMeant' BY <1>12, <1>13 DEF KidsMeant
<1> QED BY <1>9, <1>11, <1>14 DEF Hands

\* The four kinds of output, in one form.
LEMMA ForksAre ==
    ASSUME Typed, Registry, Desc, Server, pc = "command"
    PROVE  cur \in Id /\ Online(cur) /\ \E k \in Kid : \E i, s, a, t, out, e : RunsAs(i, s, k, a, t, out, e)
<1>1. cur \in Id /\ Online(cur) BY CurIsHere DEF Serving, OnlineIds
<1>2. \/ \E k \in Kid : RunPlain(k) \/ RunNumbered(k)
      \/ \E k \in Kid, q \in Pipe : RunPiped(k, q) \/ RunNewNumbered(k, q)
  <2>1. /\ ~NoneReady /\ ~EndOfInput /\ ~ExitLine /\ ~Builtin /\ ~NotANumber /\ ~Reap
        /\ ~NotAsked /\ ~ResolveInNull /\ ~ResolveIn /\ ~ResolveOutNull /\ \A q \in Pipe : ~ResolveOut(q)
    BY DEF NoneReady, EndOfInput, ExitLine, Builtin, NotANumber, TakesLine, NotAsked, ResolveInNull, ResolveIn,
           ResolveOutNull, ResolveOut, Reap
  <2>2. /\ \A n \in Name : ~Rename(n)
        /\ \A s \in Shape, f, t \in Id \union {NoUser} : ~Parse(s, f, t)
        /\ \A R \in SUBSET Id : ~Select(R)
        /\ \A id \in Id : ~NextReady(id)
        /\ \A c \in Conn : ~Refuse(c) /\ \A id \in Id : ~Accept(c, id)
    BY DEF Rename, Parse, TakesLine, Select, NextReady, Refuse, Accept
  <2> QED BY <2>1, <2>2 DEF Server
<1> QED BY <1>1, <1>2, RunPlainIs, RunNumberedIs, RunPipedIs, RunNewNumberedIs

LEMMA WaitIsReap == Server /\ pc = "wait" => Reap
<1> SUFFICES ASSUME Server, pc = "wait" PROVE Reap OBVIOUS
<1>1. /\ ~NoneReady /\ ~EndOfInput /\ ~ExitLine /\ ~Builtin /\ ~NotANumber
      /\ ~NotAsked /\ ~ResolveInNull /\ ~ResolveIn /\ ~ResolveOutNull /\ \A q \in Pipe : ~ResolveOut(q)
  BY DEF NoneReady, EndOfInput, ExitLine, Builtin, NotANumber, TakesLine, NotAsked, ResolveInNull, ResolveIn,
         ResolveOutNull, ResolveOut
<1>2. /\ \A n \in Name : ~Rename(n)
      /\ \A s \in Shape, f, t \in Id \union {NoUser} : ~Parse(s, f, t)
      /\ \A R \in SUBSET Id : ~Select(R)
      /\ \A id \in Id : ~NextReady(id)
      /\ \A c \in Conn : ~Refuse(c) /\ \A id \in Id : ~Accept(c, id)
  BY DEF Rename, Parse, TakesLine, Select, NextReady, Refuse, Accept
<1>3. /\ \A k \in Kid : ~RunPlain(k) /\ ~RunNumbered(k)
      /\ \A k \in Kid, q \in Pipe : ~RunPiped(k, q) /\ ~RunNewNumbered(k, q)
  BY RunsAtCommand
<1> QED BY <1>1, <1>2, <1>3 DEF Server

LEMMA ReapHands ==
    ASSUME Typed, Desc, Hands, Reap
    PROVE  Hands'
<1>1. /\ fd' = CloseFd(CloseFd(fd, line.devIn), line.devOut) /\ line' = NoLine /\ pc = "wait"
      /\ UNCHANGED <<client, sock, numbered, userPipe, purpose, kid>>
      /\ pc' \in {"line", "serve", "dead"}
  BY DEF Reap, Prompt, Goto, registry, commands
<1>2. PICK r, w : r = line.devIn /\ w = line.devOut OBVIOUS
<1>3. r \in Fd \union {0} /\ w \in Fd \union {0} BY <1>2 DEF Typed, ControlType, LineSet
<1>4. \A f \in Fd : fd'[f] = IF f \in {r, w} THEN Closed ELSE fd[f]
  <2>1. PICK v : v = CloseFd(fd, r) OBVIOUS
  <2>2. v \in Table /\ \A f \in Fd : v[f] = IF f = r THEN Closed ELSE fd[f]
    BY <1>3, <2>1, CloseIs DEF Typed, TablesType
  <2>3. \A f \in Fd : CloseFd(v, w)[f] = IF f = w THEN Closed ELSE v[f] BY <1>3, <2>2, CloseIs
  <2> QED BY <1>1, <1>2, <2>1, <2>2, <2>3
<1>5. /\ r # 0 => fd[r] = Closed
      /\ w # 0 => fd[w] = Null
      /\ line.inFd = 0 /\ line.i # 0
  BY <1>1, <1>2 DEF Desc, LineHolds, LineMoves, Hands, Accounted
<1>6. fd'[1] = Listen BY <1>4, <1>5, ListenIsNoPipe DEF Hands, Accounted
<1>7. ASSUME NEW f \in Fd \ {1}, fd'[f] # Closed PROVE ~Loose(f)'
  <2>1. ~HeldByLine(f) BY <1>2, <1>4, <1>5, <1>7, NoEndsAre DEF HeldByLine
  <2>2. ~Loose(f) BY <1>4, <1>7, <2>1 DEF Hands, Accounted
  <2> QED BY <1>1, <2>2 DEF Loose, KeepsSocket, KeepsDelay, KeepsUserPipe, Online
<1> QED BY <1>1, <1>6, <1>7, HandsIdle

\* A command changes what it has to write, or is no more.
LEMMA CommandIs ==
    ASSUME Typed, NEW k \in Kid, Command(k), NEW j \in Kid
    PROVE  \/ kid'[j] = NoKid
           \/ /\ kid'[j].in = kid[j].in /\ kid'[j].out = kid[j].out
              /\ kid'[j].holds = kid[j].holds /\ kid'[j].job = kid[j].job
<1>1. kid \in [Kid -> KidSet] BY DEF Typed, CommandsType
<1>2. \/ kid' = [kid EXCEPT ![k] = NoKid]
      \/ \E n : kid' = [kid EXCEPT ![k].todo = n]
  BY DEF Command, Read, Write, End, Finished
<1> QED BY <1>1, <1>2 DEF KidSet

LEMMA CommandHands ==
    ASSUME Typed, Hands, NEW k \in Kid, Command(k)
    PROVE  Hands'
<1>1. UNCHANGED <<fd, client, sock, numbered, userPipe, purpose, line, cur, pc>>
  BY DEF Command, registry, session
<1>2. Accounted'
  BY <1>1 DEF Hands, Accounted, Loose, KeepsSocket, KeepsDelay, KeepsUserPipe, Online, HeldByLine
<1>3. LineMeant' BY <1>1 DEF Hands, LineMeant
<1>4. ASSUME NEW j \in Kid, NEW q \in Pipe, kid'[j].in = Rd(q)
      PROVE  Rd(q) \in kid'[j].holds /\ purpose'[q] \in {kid'[j].job, <<kid'[j].job[1], 0>>}
  <2>1. kid'[j] # NoKid BY <1>4, ListenIsNoPipe DEF NoKid
  <2>2. kid'[j].in = kid[j].in /\ kid'[j].holds = kid[j].holds /\ kid'[j].job = kid[j].job
    BY <2>1, CommandIs
  <2> QED BY <1>1, <1>4, <2>2 DEF Hands, KidsMeant
<1>5. KidsMeant' BY <1>4 DEF KidsMeant
<1> QED BY <1>2, <1>3, <1>5 DEF Hands

LEMMA HandsStep ==
    ASSUME Typed, Registry, Desc, Hands, [Next]_vars
    PROVE  Hands'
<1>1. ASSUME UNCHANGED <<fd, client, sock, numbered, userPipe, purpose, kid, line, cur, pc>> PROVE Hands'
  <2>1. Accounted'
    BY <1>1 DEF Hands, Accounted, Loose, KeepsSocket, KeepsDelay, KeepsUserPipe, Online, HeldByLine
  <2>2. LineMeant' BY <1>1 DEF Hands, LineMeant
  <2> QED BY <1>1, <2>1, <2>2, KidsAgain DEF Hands
<1>2. CASE UNCHANGED vars
  BY <1>1, <1>2 DEF vars, registry, session, commands
<1>3. CASE \E c \in Conn : Connect(c) \/ Disconnect(c)
  BY <1>1, <1>3 DEF Connect, Disconnect, registry, session, commands
<1>4. CASE \E k \in Kid : Command(k)
  BY <1>4, CommandHands
<1>5. CASE Server
  <2>1. CASE pc = "command" BY <1>5, <2>1, ForksAre, ForkedHands
  <2>2. CASE pc = "wait" BY <1>5, <2>2, WaitIsReap, ReapHands
  <2> QED BY <1>5, <2>1, <2>2, NobodyServesDead, HandsSession, HandsResolve DEF Typed, ControlType
<1> QED BY <1>2, <1>3, <1>4, <1>5 DEF Next, Environment

\* What is open between lines is in a table.
LEMMA NothingLeaksIs ==
    ASSUME Typed, Registry, Desc, Hands
    PROVE  NothingLeaks
<1> SUFFICES ASSUME pc = "select"
             PROVE  {f \in Fd : fd[f] # Closed} =
                        {1} \union {sock[id] : id \in OnlineIds}
                            \union FdsOf({numbered[x[1]][x[2]] : x \in NumberedIn})
                            \union FdsOf({userPipe[x] : x \in UserPipesIn})
  BY DEF NothingLeaks
<1>1. line = NoLine BY DEF Desc, LineMoves
<1>2. \A f \in Fd \ {1} : fd[f] # Closed => ~Loose(f)
  BY <1>1, NoEndsAre DEF Hands, Accounted, HeldByLine, NoLine
<1>3. \A f : ~Loose(f) => f \in Fd /\ fd[f] # Closed BY KeptIsOpen DEF Desc
<1>4. 1 \in Fd /\ fd[1] # Closed BY ListenIsNoPipe DEF Hands, Accounted
<1>5. \A f : ~Loose(f) <=> \/ f \in {sock[id] : id \in OnlineIds}
                           \/ f \in FdsOf({numbered[x[1]][x[2]] : x \in NumberedIn})
                           \/ f \in FdsOf({userPipe[x] : x \in UserPipesIn})
  <2> SUFFICES ASSUME NEW f
               PROVE  ~Loose(f) <=> \/ f \in {sock[id] : id \in OnlineIds}
                                    \/ f \in FdsOf({numbered[x[1]][x[2]] : x \in NumberedIn})
                                    \/ f \in FdsOf({userPipe[x] : x \in UserPipesIn})
    OBVIOUS
  <2>1. f \in {sock[id] : id \in OnlineIds} <=> \E id \in Id : KeepsSocket(id, f)
    BY DEF OnlineIds, KeepsSocket
  <2>2. f \in FdsOf({numbered[x[1]][x[2]] : x \in NumberedIn}) <=> \E x \in Id \X Segment : KeepsDelay(x, f)
    BY DEF FdsOf, NumberedIn, KeepsDelay
  <2>3. f \in FdsOf({userPipe[x] : x \in UserPipesIn}) <=> \E x \in Id \X Id : KeepsUserPipe(x, f)
    BY DEF FdsOf, UserPipesIn, KeepsUserPipe
  <2> QED BY <2>1, <2>2, <2>3 DEF Loose
<1> QED BY <1>2, <1>3, <1>4, <1>5

-----------------------------------------------------------------------------
(***************************************************************************)
(* Segments.  A delayed pipe waits for a segment that is still to come:    *)
(* after the one under way, or after those that are over between lines.    *)
(***************************************************************************)

\* No command pipes into its own segment.
NoneToSelf == \A s \in Shape : \A i \in 1 .. Len(s) : s[i] # 0

Reached(id) == IF id = cur /\ line # NoLine THEN line.seg ELSE executed[id]

Ahead == \A x \in Id \X Segment : numbered[x[1]][x[2]] # NoEnds => x[2] > Reached(x[1])

LEMMA AheadIdle ==
    ASSUME Typed, Ahead, line = NoLine, line' = NoLine,
           \A id \in Id : \/ executed'[id] = executed[id] /\ numbered'[id] = numbered[id]
                          \/ \A s \in Segment : numbered'[id][s] # NoEnds => s > executed'[id]
    PROVE  Ahead'
<1> SUFFICES ASSUME NEW x \in Id \X Segment, numbered'[x[1]][x[2]] # NoEnds PROVE x[2] > executed'[x[1]]
  BY DEF Ahead, Reached
<1>1. PICK id \in Id, s \in Segment : x = <<id, s>> OBVIOUS
<1>2. CASE executed'[id] = executed[id] /\ numbered'[id] = numbered[id]
  BY <1>1, <1>2 DEF Ahead, Reached
<1>3. CASE \A g \in Segment : numbered'[id][g] # NoEnds => g > executed'[id]
  BY <1>1, <1>3
<1> QED BY <1>2, <1>3

LEMMA AheadSession ==
    ASSUME Typed, Registry, Desc, Ahead, Server, pc \in {"select", "accept", "serve", "line"}
    PROVE  Ahead'
<1> USE DEF registry, session, commands
<1>1. line = NoLine BY DEF Desc, LineMoves
<1>2. ASSUME UNCHANGED <<numbered, executed, line>> PROVE Ahead'
  BY <1>1, <1>2, AheadIdle
<1>3. ASSUME NEW R \in SUBSET Id, Select(R) PROVE Ahead'
  BY <1>2, <1>3 DEF Select
<1>4. ASSUME NEW c \in Conn, Refuse(c) PROVE Ahead'
  BY <1>2, <1>4 DEF Refuse
<1>5. ASSUME NEW id \in Id, NextReady(id) PROVE Ahead'
  BY <1>2, <1>5 DEF NextReady
<1>6. CASE NoneReady
  BY <1>2, <1>6 DEF NoneReady
<1>7. ASSUME NEW id \in Id, line' = NoLine, numbered' = [numbered EXCEPT ![id] = [s \in Segment |-> NoEnds]],
             executed' = [executed EXCEPT ![id] = 0]
      PROVE  Ahead'
  <2>1. \A s \in Segment : numbered'[id][s] = NoEnds BY <1>7 DEF Typed, TablesType
  <2>2. \A j \in Id \ {id} : executed'[j] = executed[j] /\ numbered'[j] = numbered[j]
    BY <1>7 DEF Typed, TablesType, ClientsType
  <2> QED BY <1>1, <1>7, <2>1, <2>2, AheadIdle
<1>8. CASE EndOfInput
  <2>1. cur \in Id BY <1>8, CurIsHere DEF EndOfInput, Serving
  <2> QED BY <1>7, <1>8, <2>1 DEF EndOfInput, CleanupClient
<1>9. CASE ExitLine
  <2>1. cur \in Id BY <1>9, TakesLineTyped DEF ExitLine
  <2> QED BY <1>7, <1>9, <2>1 DEF ExitLine, CleanupClient
<1>10. ASSUME NEW c \in Conn, NEW id \in Id, Accept(c, id) PROVE Ahead'
  BY <1>1, <1>7, <1>10 DEF Accept
<1>11. ASSUME cur \in Id, CountBuiltin, UNCHANGED line PROVE Ahead'
  <2>1. PICK s \in Segment : /\ s = executed[cur] + 1
                             /\ numbered' = [numbered EXCEPT ![cur][s] = NoEnds]
                             /\ executed' = [executed EXCEPT ![cur] = s]
    BY <1>11 DEF CountBuiltin
  <2>2. numbered \in [Id -> [Segment -> Ends]] /\ executed \in [Id -> Segment \union {0}]
    BY DEF Typed, TablesType, ClientsType
  <2>3. executed'[cur] = s /\ \A j \in Id \ {cur} : executed'[j] = executed[j] /\ numbered'[j] = numbered[j]
    BY <1>11, <2>1, <2>2
  <2>4. numbered'[cur][s] = NoEnds /\ \A g \in Segment \ {s} : numbered'[cur][g] = numbered[cur][g]
    BY <1>11, <2>1, <2>2
  <2>5. ASSUME NEW g \in Segment, numbered'[cur][g] # NoEnds PROVE g > executed'[cur]
    <3>1. g # s /\ numbered[cur][g] # NoEnds BY <2>4, <2>5
    <3>2. PICK x : x = <<cur, g>> OBVIOUS
    <3>3. x \in Id \X Segment /\ numbered[x[1]][x[2]] # NoEnds BY <1>11, <3>1, <3>2
    <3>4. g > executed[cur] BY <1>1, <3>2, <3>3 DEF Ahead, Reached
    <3> QED BY <1>11, <2>1, <2>2, <2>3, <3>1, <3>4 DEF Segment
  <2> QED BY <1>1, <1>11, <2>3, <2>5, AheadIdle
<1>12. CASE Builtin
  <2>1. cur \in Id BY <1>12, TakesLineTyped DEF Builtin
  <2> QED BY <1>11, <1>12, <2>1 DEF Builtin
<1>17. CASE NotANumber
  BY <1>2, <1>17 DEF NotANumber
<1>13. ASSUME NEW n \in Name, Rename(n) PROVE Ahead'
  <2>1. cur \in Id BY <1>13, TakesLineTyped DEF Rename
  <2> QED BY <1>11, <1>13, <2>1 DEF Rename
<1>14. ASSUME NEW s \in Shape, NEW f \in Id \union {NoUser}, NEW t \in Id \union {NoUser}, Parse(s, f, t)
       PROVE  Ahead'
  <2>1. line'.seg = executed[cur] /\ UNCHANGED <<cur, numbered, executed>>
    BY <1>14 DEF Parse, NoLine
  <2> QED BY <1>1, <2>1 DEF Ahead, Reached
<1>15. /\ ~NotAsked /\ ~ResolveInNull /\ ~ResolveIn /\ ~ResolveOutNull /\ ~Reap
       /\ \A q \in Pipe : ~ResolveOut(q)
  BY DEF NotAsked, ResolveInNull, ResolveIn, ResolveOutNull, Reap, ResolveOut
<1>16. /\ \A k \in Kid : ~RunPlain(k) /\ ~RunNumbered(k)
       /\ \A k \in Kid, q \in Pipe : ~RunPiped(k, q) /\ ~RunNewNumbered(k, q)
  BY RunsAtCommand
<1> QED
  BY <1>3, <1>4, <1>5, <1>6, <1>8, <1>9, <1>10, <1>12, <1>13, <1>14, <1>15, <1>16, <1>17 DEF Server

\* Resolving user pipes leaves segments and delayed pipes alone.
LEMMA ResolveLeaves ==
    ASSUME Typed, Server, pc \in {"resolveIn", "resolveOut"}
    PROVE  /\ UNCHANGED <<numbered, executed, cur, kid>>
           /\ line'.seg = line.seg /\ line'.cmds = line.cmds
<1> USE DEF registry, session, commands
<1>1. line \in LineSet BY DEF Typed, ControlType
<1>2. CASE NotAsked BY <1>2 DEF NotAsked
<1>3. CASE ResolveInNull BY <1>1, <1>3 DEF ResolveInNull, LineSet
<1>4. CASE ResolveOutNull BY <1>1, <1>4 DEF ResolveOutNull, LineSet
<1>5. CASE ResolveIn BY <1>1, <1>5 DEF ResolveIn, LineSet
<1>6. ASSUME NEW q \in Pipe, ResolveOut(q)
      PROVE  /\ UNCHANGED <<numbered, executed, cur, kid>>
             /\ line'.seg = line.seg /\ line'.cmds = line.cmds
  BY <1>1, <1>6 DEF ResolveOut, LineSet
<1>9. /\ \A k \in Kid : ~RunPlain(k) /\ ~RunNumbered(k)
      /\ \A k \in Kid, q \in Pipe : ~RunPiped(k, q) /\ ~RunNewNumbered(k, q)
  BY RunsAtCommand
<1>10. ~NoneReady /\ ~EndOfInput /\ ~ExitLine /\ ~Builtin /\ ~NotANumber /\ ~Reap
  BY DEF NoneReady, EndOfInput, ExitLine, Builtin, NotANumber, Reap, TakesLine
<1>11. /\ \A n \in Name : ~Rename(n)
       /\ \A s \in Shape, f, t \in Id \union {NoUser} : ~Parse(s, f, t)
       /\ \A R \in SUBSET Id : ~Select(R)
       /\ \A id \in Id : ~NextReady(id)
       /\ \A c \in Conn : ~Refuse(c) /\ \A id \in Id : ~Accept(c, id)
  BY DEF Rename, Parse, TakesLine, Select, NextReady, Refuse, Accept
<1> QED BY <1>2, <1>3, <1>4, <1>5, <1>6, <1>9, <1>10, <1>11 DEF Server

LEMMA ForkedAhead ==
    ASSUME Typed, Registry, Desc, Ahead, NoneToSelf, cur \in Id, pc = "command", NEW k \in Kid,
           NEW i, NEW s, NEW a, NEW t, NEW out, NEW e, RunsAs(i, s, k, a, t, out, e)
    PROVE  Ahead'
<1>0. PICK due : due = Due(i, s) OBVIOUS
<1>1. AttachedAs(a, i, s, due) BY <1>0, AttachedIs DEF RunsAs
<1>2. /\ i \in 1 .. Len(line.cmds) /\ s \in Segment /\ s = NextSegment(i)
      /\ UNCHANGED <<executed, cur>> /\ Delays(i, s, a.numbered, numbered')
  BY DEF RunsAs
<1>3. line'.seg = s /\ line'.cmds = line.cmds
  BY ForkedLine DEF RunsAs
<1>4. line.cmds \in Shape /\ line.cmds # <<>> /\ line.seg \in Segment \union {0}
  BY DEF Typed, ControlType, LineSet, Desc, LineMoves
<1>5. line # NoLine /\ line' # NoLine BY <1>3, <1>4, NoLineIsLine
<1>6. line.cmds[i] # 0 BY <1>2, <1>4 DEF NoneToSelf
<1>7. numbered \in [Id -> [Segment -> Ends]] BY DEF Typed, TablesType
<1>8. \A j \in Id, g \in Segment : j # cur \/ g # s => a.numbered[j][g] = numbered[j][g]
  <2>1. CASE due = NoEnds BY <1>1, <2>1 DEF AttachedAs
  <2>2. CASE due # NoEnds
    <3>1. a.numbered = [numbered EXCEPT ![cur][s] = NoEnds] BY <1>1, <2>2 DEF AttachedAs
    <3> QED BY <1>7, <3>1
  <2> QED BY <2>1, <2>2
<1>9. Starts(i) => a.numbered[cur][s] = NoEnds
  <2> SUFFICES ASSUME Starts(i) PROVE a.numbered[cur][s] = NoEnds OBVIOUS
  <2>1. due = numbered[cur][s] BY <1>0 DEF Due
  <2>2. CASE due = NoEnds BY <1>1, <2>1, <2>2 DEF AttachedAs
  <2>3. CASE due # NoEnds
    <3>1. a.numbered = [numbered EXCEPT ![cur][s] = NoEnds] BY <1>1, <2>3 DEF AttachedAs
    <3> QED BY <1>2, <1>7, <3>1
  <2> QED BY <2>2, <2>3
<1>10. ASSUME NEW j \in Id, NEW g \in Segment, numbered'[j][g] # NoEnds
       PROVE  g > IF j = cur THEN s ELSE executed[j]
  <2>1. ASSUME numbered'[j][g] = a.numbered[j][g], a.numbered[j][g] = numbered[j][g]
        PROVE  g > IF j = cur THEN line.seg ELSE executed[j]
    <3>1. PICK x : x = <<j, g>> OBVIOUS
    <3>2. x \in Id \X Segment /\ numbered[x[1]][x[2]] # NoEnds BY <1>10, <2>1, <3>1
    <3> QED BY <1>5, <3>1, <3>2 DEF Ahead, Reached
  <2>2. CASE j # cur
    BY <1>2, <1>8, <2>1, <2>2 DEF Delays
  <2>3. CASE j = cur /\ numbered'[j][g] # a.numbered[j][g]
    BY <1>2, <1>6, <2>3 DEF Delays, Segment
  <2>4. CASE j = cur /\ numbered'[j][g] = a.numbered[j][g] /\ Starts(i)
    <3>1. g # s BY <1>9, <1>10, <2>4
    <3>2. g > line.seg BY <1>8, <2>1, <2>4, <3>1
    <3> QED BY <1>2, <1>4, <2>4, <3>1, <3>2 DEF NextSegment, Segment
  <2>5. CASE j = cur /\ numbered'[j][g] = a.numbered[j][g] /\ ~Starts(i)
    <3>1. due = NoEnds BY <1>0, <2>5 DEF Due
    <3>2. a.numbered = numbered BY <1>1, <3>1 DEF AttachedAs
    <3> QED BY <1>2, <2>1, <2>5, <3>2 DEF NextSegment
  <2> QED BY <2>2, <2>3, <2>4, <2>5
<1> QED BY <1>2, <1>3, <1>5, <1>10 DEF Ahead, Reached

LEMMA AheadStep ==
    ASSUME Typed, Registry, Desc, Ahead, NoneToSelf, [Next]_vars
    PROVE  Ahead'
<1>1. ASSUME UNCHANGED <<numbered, executed, line, cur>> PROVE Ahead'
  BY <1>1 DEF Ahead, Reached
<1>2. CASE UNCHANGED vars
  BY <1>1, <1>2 DEF vars, session
<1>3. CASE \E c \in Conn : Connect(c) \/ Disconnect(c)
  BY <1>1, <1>3 DEF Connect, Disconnect, session
<1>4. CASE \E k \in Kid : Command(k)
  BY <1>1, <1>4 DEF Command, session
<1>5. CASE Server
  <2>1. CASE pc = "command" BY <1>5, <2>1, ForksAre, ForkedAhead
  <2>2. CASE pc = "wait"
    <3>1. Reap BY <1>5, <2>2, WaitIsReap
    <3>2. line # NoLine BY <2>2, NoLineIsLine DEF Desc, LineMoves
    <3>3. executed' = [executed EXCEPT ![cur] = line.seg] /\ line' = NoLine /\ UNCHANGED numbered
      BY <3>1 DEF Reap
    <3>4. \A id \in Id : executed'[id] = Reached(id) BY <3>2, <3>3 DEF Reached, Typed, TablesType, ClientsType
    <3> QED BY <3>3, <3>4 DEF Ahead, Reached
  <2>3. CASE pc \in {"resolveIn", "resolveOut"}
    <3>1. line # NoLine /\ line' # NoLine /\ line'.seg = line.seg /\ UNCHANGED <<numbered, executed, cur>>
      BY <1>5, <2>3, ResolveLeaves, NoLineIsLine DEF Desc, LineMoves
    <3> QED BY <3>1 DEF Ahead, Reached
  <2> QED BY <1>5, <2>1, <2>2, <2>3, NobodyServesDead, AheadSession DEF Typed, ControlType
<1> QED BY <1>2, <1>3, <1>4, <1>5 DEF Next, Environment

-----------------------------------------------------------------------------
(***************************************************************************)
(* Intended ends.  Of its own client's pipes and of the user pipes, a      *)
(* command gets the ends that it uses and no other.                        *)
(***************************************************************************)

LEMMA ForkedIntended ==
    ASSUME Typed, Registry, Desc, Hands, OnlyIntendedEnds, cur \in Id, Online(cur), pc = "command", NEW k \in Kid,
           NEW i, NEW s, NEW a, NEW t, NEW out, NEW e, RunsAs(i, s, k, a, t, out, e)
    PROVE  OnlyIntendedEnds'
<1>1. Forked(i, s, k, a, t, numbered', out, e) /\ t \in Table /\ UNCHANGED <<userPipe, cur>> BY DEF RunsAs
<1>2. /\ \E n \in Outputs : kid'[k] = NewKid(t, numbered', a.in, out, e, s, n)
      /\ \A j \in Kid \ {k} : kid'[j] = kid[j]
  BY <1>1 DEF Forked, Typed, CommandsType
<1>3. PICK closed : closed = ClosedNumbered(numbered') \union FdsOf({userPipe[x] : x \in Id \X Id} \ {NoEnds})
                                \union {e.r, e.w, a.in, out}
  OBVIOUS
<1>4. PICK me : me = client[cur] OBVIOUS
<1>5. ASSUME NEW p \in Pipe, NEW f \in Fd \ closed, t[f] \in {Rd(p), Wr(p)}
      PROVE  purpose'[p][1] # me /\ purpose'[p][2] # 0
  <2>1. \A g \in Segment : numbered'[cur][g] # NoEnds => f \notin {numbered'[cur][g].r, numbered'[cur][g].w}
    BY <1>3, <1>5 DEF ClosedNumbered, FdsOf, EndsOf
  <2>2. t[f] # Closed /\ t[f] \in PipeEnd BY <1>5, ClosedIsNoObject DEF Rd, Wr, PipeEnd
  <2>3. t[f] = a.fd[f] /\ f # a.in BY <1>3, <1>5, <2>1, <2>2 DEF RunsAs, OpensFor
  <2>4. f # 1
    <3>1. PICK due : due = Due(i, s) OBVIOUS
    <3>2. AttachedAs(a, i, s, due) BY <3>1, AttachedIs DEF RunsAs
    <3>3. f = 1 => fd[1] = t[1] BY <2>2, <2>3, <3>2 DEF AttachedAs
    <3> QED BY <2>2, <3>3, ListenIsNoPipe DEF Hands, Accounted
  <2>5. /\ fd[f] = t[f]
        /\ ~Loose(f)
        /\ \A g \in Segment : KeepsDelay(<<cur, g>>, f) =>
               numbered'[cur][g] # NoEnds /\ f \in {numbered'[cur][g].r, numbered'[cur][g].w}
    <3>1. Null \notin PipeEnd BY DEF Null, PipeEnd
    <3> QED BY <1>5, <2>2, <2>3, <2>4, <3>1, StillOpen
  <2>6. ASSUME NEW id \in Id, KeepsSocket(id, f) PROVE FALSE
    BY <2>2, <2>5, <2>6, KeptIsOpen, ClosedIsNoObject DEF Desc
  <2>7. ASSUME NEW x \in Id \X Id, KeepsUserPipe(x, f) PROVE FALSE
    BY <1>3, <1>5, <2>7 DEF KeepsUserPipe, FdsOf
  <2>8. PICK x \in Id \X Segment : KeepsDelay(x, f) BY <2>5, <2>6, <2>7 DEF Loose
  <2>9. PICK ends : ends = numbered[x[1]][x[2]] OBVIOUS
  <2>10. ends # NoEnds /\ f \in {ends.r, ends.w} BY <2>8, <2>9 DEF KeepsDelay
  <2>11. x[1] # cur
    <3>1. SUFFICES ASSUME x[1] = cur PROVE FALSE OBVIOUS
    <3>2. x = <<cur, x[2]>> /\ x[2] \in Segment BY <3>1
    <3> QED BY <2>1, <2>5, <2>8, <3>2
  <2>12. PICK q \in Pipe : /\ fd[ends.r] = Rd(q) /\ fd[ends.w] = Wr(q)
                           /\ purpose[q] = <<client[x[1]], x[2]>> /\ Online(x[1])
    BY <2>9, <2>10, DelayedPipe DEF Desc
  <2>13. q = p BY <1>5, <2>5, <2>10, <2>12 DEF Rd, Wr
  <2>14. ends.r \in Fd
    <3>1. ends \in Ends BY <2>9 DEF Typed, TablesType
    <3>2. ends.r # 0 BY <2>9, <2>10 DEF Desc, Tables, DelayIsOwn
    <3> QED BY <3>1, <3>2 DEF Ends
  <2>15. purpose'[p] = <<client[x[1]], x[2]>> BY <2>12, <2>13, <2>14 DEF RunsAs, PurposesStay
  <2>16. client[x[1]] # me BY <1>4, <2>11, <2>12 DEF Registry, OneNumber, OnlineIds
  <2>17. x[2] # 0 BY DEF Segment
  <2> QED BY <2>15, <2>16, <2>17
<1>6. ASSUME NEW p \in Pipe
      PROVE  \/ {Rd(p), Wr(p)} \intersect kid'[k].holds \subseteq {kid'[k].in, kid'[k].out}
             \/ purpose'[p][1] # kid'[k].job[1] /\ purpose'[p][2] # 0
  <2>1. PICK n \in Outputs : kid'[k] = NewKid(t, numbered', a.in, out, e, s, n) BY <1>2
  <2>2. PICK h : h = Inherited(t, numbered', a.in, out, e) OBVIOUS
  <2>3. \A o \in h : \E f \in Fd \ closed : t[f] = o BY <1>3, <2>2 DEF Inherited
  <2>4. kid'[k].holds \subseteq h \union {kid'[k].in, kid'[k].out} /\ kid'[k].job[1] = me
    BY <1>4, <2>1, <2>2 DEF NewKid
  <2>5. CASE {Rd(p), Wr(p)} \intersect h = {} BY <2>4, <2>5
  <2>6. CASE {Rd(p), Wr(p)} \intersect h # {}
    <3>1. PICK f \in Fd \ closed : t[f] \in {Rd(p), Wr(p)} BY <2>3, <2>6
    <3> QED BY <1>5, <2>4, <3>1
  <2> QED BY <2>5, <2>6
<1>7. ASSUME NEW j \in Kid, j # k, NEW p \in Pipe
      PROVE  \/ {Rd(p), Wr(p)} \intersect kid'[j].holds \subseteq {kid'[j].in, kid'[j].out}
             \/ purpose'[p][1] # kid'[j].job[1] /\ purpose'[p][2] # 0
  <2>1. kid'[j] = kid[j] BY <1>2, <1>7
  <2>2. Rd(p) \in kid[j].holds \/ Wr(p) \in kid[j].holds => purpose'[p] = purpose[p]
    BY DEF RunsAs, HeldPurposesStay
  <2> QED BY <2>1, <2>2 DEF OnlyIntendedEnds
<1> QED BY <1>6, <1>7 DEF OnlyIntendedEnds

\* Only forks make commands, and no pipe that a command holds gets another purpose.
LEMMA KidsStay == Server /\ Typed /\ pc # "command" => UNCHANGED kid /\ HeldPurposesStay
<1> SUFFICES ASSUME Server, Typed, pc # "command" PROVE UNCHANGED kid /\ HeldPurposesStay OBVIOUS
<1> USE DEF commands, HeldPurposesStay
<1>1. NoneReady \/ EndOfInput \/ ExitLine \/ Builtin \/ NotANumber => UNCHANGED <<kid, purpose>>
  BY DEF NoneReady, EndOfInput, ExitLine, Builtin, NotANumber, CleanupClient
<1>2. NotAsked \/ ResolveInNull \/ ResolveIn \/ ResolveOutNull \/ Reap => UNCHANGED <<kid, purpose>>
  BY DEF NotAsked, ResolveInNull, ResolveIn, ResolveOutNull, Reap
<1>3. ASSUME NEW q \in Pipe, ResolveOut(q) PROVE UNCHANGED kid /\ HeldPurposesStay
  <2>1. PICK why : why = <<client[line.to], 0>> OBVIOUS
  <2>2. purpose' = [purpose EXCEPT ![q] = why] /\ Fresh(q) /\ pc # "dead" /\ UNCHANGED kid
    BY <1>3, <2>1 DEF ResolveOut
  <2> QED BY <2>2, FreshIsUnused
<1>4. /\ \A n \in Name : Rename(n) => UNCHANGED <<kid, purpose>>
      /\ \A s \in Shape, f, t \in Id \union {NoUser} : Parse(s, f, t) => UNCHANGED <<kid, purpose>>
  BY DEF Rename, Parse
<1>5. /\ \A R \in SUBSET Id : Select(R) => UNCHANGED <<kid, purpose>>
      /\ \A id \in Id : NextReady(id) => UNCHANGED <<kid, purpose>>
      /\ \A c \in Conn : /\ Refuse(c) => UNCHANGED <<kid, purpose>>
                         /\ \A id \in Id : Accept(c, id) => UNCHANGED <<kid, purpose>>
  BY DEF Select, NextReady, Refuse, Accept
<1> QED BY <1>1, <1>2, <1>3, <1>4, <1>5, RunsAtCommand DEF Server

LEMMA IntendedStep ==
    ASSUME Typed, Registry, Desc, Hands, OnlyIntendedEnds, [Next]_vars
    PROVE  OnlyIntendedEnds'
<1>1. ASSUME UNCHANGED kid, HeldPurposesStay PROVE OnlyIntendedEnds'
  BY <1>1 DEF OnlyIntendedEnds, HeldPurposesStay
<1>2. UNCHANGED <<kid, purpose>> => OnlyIntendedEnds'
  BY <1>1 DEF HeldPurposesStay
<1>3. CASE UNCHANGED vars
  BY <1>2, <1>3 DEF vars, commands
<1>4. CASE \E c \in Conn : Connect(c) \/ Disconnect(c)
  BY <1>2, <1>4 DEF Connect, Disconnect, commands
<1>5. ASSUME NEW k \in Kid, Command(k) PROVE OnlyIntendedEnds'
  <2>1. purpose' = purpose BY <1>5 DEF Command
  <2>2. ASSUME NEW j \in Kid, NEW q \in Pipe
        PROVE  \/ {Rd(q), Wr(q)} \intersect kid'[j].holds \subseteq {kid'[j].in, kid'[j].out}
               \/ purpose'[q][1] # kid'[j].job[1] /\ purpose'[q][2] # 0
    <3>1. CASE kid'[j] = NoKid BY <3>1 DEF NoKid
    <3>2. CASE /\ kid'[j].in = kid[j].in /\ kid'[j].out = kid[j].out
               /\ kid'[j].holds = kid[j].holds /\ kid'[j].job = kid[j].job
      BY <2>1, <3>2 DEF OnlyIntendedEnds
    <3> QED BY <1>5, <3>1, <3>2, CommandIs
  <2> QED BY <2>2 DEF OnlyIntendedEnds
<1>6. CASE Server
  <2>1. CASE pc = "command" BY <1>6, <2>1, ForksAre, ForkedIntended
  <2>2. CASE pc # "command" BY <1>1, <1>6, <2>2, KidsStay
  <2> QED BY <2>1, <2>2
<1> QED BY <1>2, <1>3, <1>4, <1>5, <1>6 DEF Next, Environment

-----------------------------------------------------------------------------

LEMMA DescAlways == ASSUME ClosesOnce PROVE Spec => []Desc
<1>1. Typed /\ Registry /\ Desc /\ [Next]_vars => Desc' BY DescStep
<1> QED BY <1>1, DescInit, TypedAlways, RegistryAlways, PTL DEF Spec

LEMMA HandsAlways == ASSUME ClosesOnce PROVE Spec => []Hands
<1>1. Typed /\ Registry /\ Desc /\ Hands /\ [Next]_vars => Hands' BY HandsStep
<1> QED BY <1>1, HandsInit, DescAlways, TypedAlways, RegistryAlways, PTL DEF Spec

\* However many clients pipe to whom: no descriptor of the server outlives its purpose.
THEOREM DescriptorsDoNotLeak == ASSUME ClosesOnce PROVE Spec => []NothingLeaks
<1>1. Typed /\ Registry /\ Desc /\ Hands => NothingLeaks BY NothingLeaksIs
<1> QED BY <1>1, HandsAlways, DescAlways, TypedAlways, RegistryAlways, PTL

\* A command never reads a pipe that was made for somebody else or for another segment.
THEOREM InputsAreMeant == ASSUME ClosesOnce PROVE Spec => []InputIsMeantForIt
<1>1. Hands => InputIsMeantForIt BY DEF Hands, KidsMeant, InputIsMeantForIt
<1> QED BY <1>1, HandsAlways, PTL

\* A delayed pipe is still there for the segment it is meant for, and for none that is over.
THEOREM DelaysAreAhead == ASSUME ClosesOnce, NoneToSelf PROVE Spec => []DelaysLieAhead
<1>1. Init => Ahead BY DEF Init, Ahead
<1>2. Typed /\ Registry /\ Desc /\ Ahead /\ [Next]_vars => Ahead' BY AheadStep
<1>3. Desc /\ Ahead => DelaysLieAhead BY DEF Desc, LineMoves, Ahead, Reached, DelaysLieAhead, NumberedIn
<1> QED BY <1>1, <1>2, <1>3, DescAlways, TypedAlways, RegistryAlways, PTL DEF Spec

\* However many clients there are, the ends of every pipe are with the commands it was
\* made for and in the table that keeps it, except that a command keeps those ends of
\* other clients' delayed pipes that it was born with.
THEOREM EndsAreInRightHands ==
    ASSUME ClosesOnce, NoneToSelf PROVE Spec => []EndsInRightHands
<1>1. Init => OnlyIntendedEnds BY DEF Init, OnlyIntendedEnds, NoKid
<1>2. Typed /\ Registry /\ Desc /\ Hands /\ OnlyIntendedEnds /\ [Next]_vars => OnlyIntendedEnds'
  BY IntendedStep
<1>3. Spec => []OnlyIntendedEnds
  BY <1>1, <1>2, HandsAlways, DescAlways, TypedAlways, RegistryAlways, PTL DEF Spec
<1>4. InputIsMeantForIt /\ OnlyIntendedEnds /\ DelaysLieAhead /\ NothingLeaks => EndsInRightHands
  BY DEF EndsInRightHands
<1> QED BY <1>3, <1>4, InputsAreMeant, DelaysAreAhead, DescriptorsDoNotLeak, PTL
=============================================================================
