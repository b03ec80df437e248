------------------------- MODULE ShellSessionProofs -------------------------
(***************************************************************************)
(* Theorems about ShellSession, for any lines, any number of processes,    *)
(* children, pipes and segments, and any size of pipes and outputs.        *)
(***************************************************************************)
EXTENDS ShellSession, FiniteSetTheorems, TLAPS

Ended == {"over", "aborted", "gaveUp"}
MaybePipe == Pipe \union {None}
Sink == Pipe \union {None, File}
LineRecord == [cmds : Lines \union {Builtin}, i : 1 .. MaxCommands + 1, in : MaybePipe, out : Sink,
               waits : SUBSET Kid, back : SUBSET Kid]
KidRecord == [state : {"none", "runs", "zombie"}, in : MaybePipe, out : Sink, holds : SUBSET End,
              todo : 0 .. Units + 1, at : Place \union {Nowhere}, aim : Nat \X Nat]

(* Segments that start in the first i commands. *)
Count(cmds, i) == Cardinality({j \in 1 .. i : Starts(cmds, j)})

(* The line under way is one that ReadLine lets through, and a command that is about to   *)
(* be forked has its plan.                                                                *)
UnderWay ==
    /\ pc \in {"command", "fork", "reap", "wait"} =>
         /\ line.cmds \in Lines /\ line.cmds # Builtin
         /\ WithinBound(line.cmds)
         /\ \A i \in 1 .. Len(line.cmds) : line.cmds[i].next # TooLarge
         /\ line.i =< Len(line.cmds) + 1
    /\ pc \in {"fork", "reap"} =>
         line.i =< Len(line.cmds) /\ Current.argv /\ (PipesOrdinary => line.out \in Pipe)
    /\ pc = "wait" => line.in = None /\ line.i = Len(line.cmds) + 1
    /\ pc \in {"read"} \union Ended => line = NoLine

Typed == TypeOK /\ UnderWay /\ \A k \in Kid : Runs(k) => kid[k].at \in Place

(* Who leads where: a pipe is in numberedPipes once, and is not the one that the next     *)
(* command reads, nor the new one of an ordinary `|`.                                     *)
IsNumbered(q) == \E s \in Segment : numbered[s] = q
Forming == pc \in {"fork", "reap"} /\ PipesOrdinary

Apart ==
    /\ \A s, t \in Segment : numbered[s] = numbered[t] /\ numbered[s] # None => s = t
    /\ line.in # None => ~IsNumbered(line.in)
    /\ Forming => line.out # line.in /\ ~IsNumbered(line.out)

(* The shell's ends, one by one. *)
Owns ==
    \A q \in Pipe :
        /\ Rd(q) \in mine <=> (IsNumbered(q) \/ line.in = q \/ (Forming /\ line.out = q))
        /\ Wr(q) \in mine <=> (IsNumbered(q) \/ (Forming /\ line.out = q))

(* The segments whose incoming pipe has been attached or dropped. *)
Done == executed + Count(line.cmds, IF pc \in {"fork", "reap"} THEN line.i ELSE line.i - 1)
Ahead == \A s \in Segment : numbered[s] # None => s > Done

ChildEnds == \A k \in Kid : Runs(k) => kid[k].holds = {Rd(kid[k].in), Wr(kid[k].out)} \intersect End

(* No `|0`, and nothing missing in front of a segment. *)
Tidy ==
    \A l \in Lines : \A i \in 1 .. Len(l) :
        /\ l[i].next # 0
        /\ ~l[i].argv => ~Starts(l, i)

-----------------------------------------------------------------------------
(* Segments and places. *)

LEMMA Lengths ==
    ASSUME NEW cmds \in Lines
    PROVE  cmds \in Seq(Command) /\ Len(cmds) \in Nat /\ Len(cmds) =< MaxCommands
<1>1. cmds \in Seq(Command) /\ Len(cmds) =< MaxCommands BY LinesAssumption
<1> QED BY <1>1

LEMMA CountSet ==
    ASSUME NEW cmds, NEW i \in Nat
    PROVE  LET S == {j \in 1 .. i : Starts(cmds, j)} IN
           IsFiniteSet(S) /\ Cardinality(S) \in Nat /\ Cardinality(S) =< i
<1> DEFINE S == {j \in 1 .. i : Starts(cmds, j)}
<1>1. IsFiniteSet(1 .. i) /\ Cardinality(1 .. i) = i BY FS_Interval
<1>2. S \subseteq 1 .. i OBVIOUS
<1>3. IsFiniteSet(S) /\ Cardinality(S) =< i BY <1>1, <1>2, FS_Subset
<1> QED BY <1>3, FS_CardinalityType

LEMMA CountStep ==
    ASSUME NEW cmds, NEW i \in Nat
    PROVE  /\ Count(cmds, 0) = 0
           /\ Count(cmds, i) \in Nat
           /\ Count(cmds, i + 1) = Count(cmds, i) + (IF Starts(cmds, i + 1) THEN 1 ELSE 0)
           /\ Count(cmds, i) =< Count(cmds, i + 1)
           /\ Count(cmds, i + 1) \in Nat \ {0}
<1> DEFINE S(n) == {j \in 1 .. n : Starts(cmds, j)}
<1>1. S(0) = {} OBVIOUS
<1>2. Count(cmds, 0) = 0 BY <1>1, FS_EmptySet DEF Count
<1>3. IsFiniteSet(S(i)) /\ Cardinality(S(i)) \in Nat BY CountSet
<1>4. IsFiniteSet(S(i + 1)) /\ Cardinality(S(i + 1)) \in Nat
  <2>1. i + 1 \in Nat OBVIOUS
  <2> QED BY <2>1, CountSet
<1>5. i + 1 \notin S(i) OBVIOUS
<1>6. CASE Starts(cmds, i + 1)
  <2>1. S(i + 1) = S(i) \union {i + 1} BY <1>6
  <2> HIDE DEF S
  <2>2. Cardinality(S(i) \union {i + 1}) = Cardinality(S(i)) + 1 BY <1>3, <1>5, FS_AddElement
  <2>3. Cardinality(S(i + 1)) = Cardinality(S(i)) + 1 BY <2>1, <2>2
  <2> QED BY <1>2, <1>3, <1>6, <2>3 DEF Count, S
<1>7. CASE ~Starts(cmds, i + 1)
  <2>1. S(i + 1) = S(i) BY <1>7
  <2>2. 1 \in S(i + 1) BY DEF Starts
  <2> HIDE DEF S
  <2>3. Cardinality(S(i + 1)) # 0 BY <2>2, <1>4, FS_EmptySet
  <2> QED BY <1>2, <1>3, <1>4, <1>7, <2>1, <2>3 DEF Count, S
<1> QED BY <1>6, <1>7

LEMMA Positive ==
    ASSUME NEW cmds, NEW i \in Nat \ {0}
    PROVE  Count(cmds, i) \in Nat \ {0}
<1>1. i - 1 \in Nat /\ (i - 1) + 1 = i OBVIOUS
<1> QED BY <1>1, CountStep

LEMMA Segments ==
    ASSUME TypeOK, NEW cmds \in Lines, WithinBound(cmds), NEW i \in 1 .. Len(cmds)
    PROVE  /\ SegmentOf(cmds, i) \in Segment
           /\ cmds[i].next \in Nat => SegmentOf(cmds, i) + cmds[i].next \in Segment
<1>1. Len(cmds) \in Nat BY Lengths
<1>2. i \in Nat \ {0} BY <1>1
<1>3. Count(cmds, i) \in Nat \ {0} BY <1>2, Positive
<1>4. executed \in Nat /\ MaxSegments \in Nat BY BoundAssumption DEF TypeOK, Segment
<1>5. SegmentOf(cmds, i) = executed + Count(cmds, i) BY DEF SegmentOf, Count
<1>6. SegmentOf(cmds, i) \in Nat /\ SegmentOf(cmds, i) >= 1 BY <1>3, <1>4, <1>5
<1>7. SegmentOf(cmds, i) + (IF cmds[i].next \in Nat THEN cmds[i].next ELSE 0) \in Segment
  BY DEF WithinBound
<1>8. CASE cmds[i].next \in Nat
  <2>1. SegmentOf(cmds, i) + cmds[i].next \in Segment BY <1>7, <1>8
  <2>2. SegmentOf(cmds, i) \in Segment BY <1>4, <1>6, <1>8, <2>1 DEF Segment
  <2> QED BY <2>1, <2>2
<1>9. CASE cmds[i].next \notin Nat BY <1>6, <1>7, <1>9
<1> QED BY <1>8, <1>9

LEMMA Places ==
    ASSUME TypeOK, NEW cmds \in Lines, WithinBound(cmds), NEW i \in 1 .. Len(cmds)
    PROVE  /\ PlaceOf(cmds, i) \in Segment \X Nat
           /\ cmds[i].argv => PlaceOf(cmds, i) \in Place
<1> DEFINE S == {j \in 1 .. i : cmds[j].argv /\ SegmentOf(cmds, j) = SegmentOf(cmds, i)}
<1>1. i \in Nat /\ i >= 1 /\ i =< MaxCommands /\ MaxCommands \in Nat BY Lengths, BoundAssumption
<1>2. IsFiniteSet(1 .. i) /\ Cardinality(1 .. i) = i BY <1>1, FS_Interval
<1>3. S \subseteq 1 .. i OBVIOUS
<1>4. cmds[i].argv => i \in S BY <1>1
<1> HIDE DEF S
<1>5. IsFiniteSet(S) /\ Cardinality(S) =< i BY <1>2, <1>3, FS_Subset
<1>6. Cardinality(S) \in Nat /\ (cmds[i].argv => Cardinality(S) # 0)
  BY <1>4, <1>5, FS_CardinalityType, FS_EmptySet
<1>7. cmds[i].argv => Cardinality(S) \in 1 .. MaxCommands BY <1>1, <1>5, <1>6
<1>8. PlaceOf(cmds, i) = <<SegmentOf(cmds, i), Cardinality(S)>> BY DEF PlaceOf, S
<1> QED BY <1>6, <1>7, <1>8, Segments DEF Place

LEMMA Aims ==
    ASSUME TypeOK, NEW cmds \in Lines, WithinBound(cmds), NEW i \in 1 .. Len(cmds),
           cmds[i].next # TooLarge
    PROVE  AimOf(cmds, i) \in Nat \X Nat
<1> DEFINE p == PlaceOf(cmds, i)
<1>1. p[1] \in Nat /\ p[2] \in Nat BY Places DEF Segment
<1>2. cmds[i].next \in NextType
  <2>1. cmds \in Seq(Command) BY Lengths
  <2>2. cmds[i] \in Command BY <2>1
  <2> QED BY <2>2 DEF Command
<1>3. CASE cmds[i].redirect = "opens" \/ cmds[i].next = NoPipe
  <2>1. AimOf(cmds, i) = Nowhere BY <1>3 DEF AimOf
  <2>2. Nowhere \in Nat \X Nat BY DEF Nowhere
  <2> QED BY <2>1, <2>2
<1>4. CASE ~(cmds[i].redirect = "opens" \/ cmds[i].next = NoPipe) /\ cmds[i].next = Ordinary
  <2>1. AimOf(cmds, i) = <<p[1], p[2] + 1>> BY <1>4 DEF AimOf
  <2> QED BY <1>1, <2>1
<1>5. CASE ~(cmds[i].redirect = "opens" \/ cmds[i].next = NoPipe) /\ cmds[i].next # Ordinary
  <2>1. AimOf(cmds, i) = <<p[1] + cmds[i].next, 1>> BY <1>5 DEF AimOf
  <2>2. cmds[i].next \in Nat BY <1>2, <1>5 DEF NextType
  <2> QED BY <1>1, <2>1, <2>2
<1> QED BY <1>3, <1>4, <1>5

-----------------------------------------------------------------------------
(* Types. *)

LEMMA Parts ==
    ASSUME TypeOK
    PROVE  /\ line \in LineRecord /\ kid \in [Kid -> KidRecord]
           /\ numbered \in [Segment -> MaybePipe] /\ mine \in SUBSET End
           /\ MaxCommands \in Nat /\ Units \in Nat /\ MaxSegments \in Nat
           /\ executed \in Nat /\ line.i \in Nat \ {0}
BY BoundAssumption DEF TypeOK, LineRecord, KidRecord, MaybePipe, Sink, Segment

LEMMA Nothing == NoLine \in LineRecord /\ NoKid \in KidRecord
<1>1. MaxCommands \in Nat /\ Units \in Nat BY BoundAssumption
<1>2. NoLine \in LineRecord BY <1>1 DEF NoLine, LineRecord, Builtin, MaybePipe, Sink
<1>3. NoKid \in KidRecord BY <1>1 DEF NoKid, KidRecord, MaybePipe, Sink, Nowhere
<1> QED BY <1>2, <1>3

LEMMA ReapedTyped ==
    ASSUME TypeOK, NEW K
    PROVE  Reaped(K) \in [Kid -> KidRecord]
BY Parts, Nothing DEF Reaped

LEMMA NothingUnderWay ==
    ASSUME line' = NoLine, pc' \in {"read"} \union Ended
    PROVE  UnderWay'
BY DEF UnderWay, Ended

LEMMA TypeLeave ==
    ASSUME Typed, NEW how \in Ended, Leave(how)
    PROVE  Typed'
<1>1. /\ pc' = how /\ line' = NoLine /\ numbered' = [s \in Segment |-> None] /\ mine' = {}
      /\ kid' = Reaped(Kid) /\ sig' = FALSE /\ UNCHANGED <<executed, content, sent, got, atEnd>>
  BY DEF Leave, ghosts
<1>2. TypeOK BY DEF Typed
<1>3. line' \in LineRecord /\ kid' \in [Kid -> KidRecord] BY <1>1, <1>2, Nothing, ReapedTyped
<1>4. numbered' \in [Segment -> MaybePipe] BY <1>1 DEF MaybePipe
<1>5. TypeOK' BY <1>1, <1>2, <1>3, <1>4 DEF TypeOK, LineRecord, KidRecord, MaybePipe, Sink, Ended
<1>6. UnderWay' BY <1>1, NothingUnderWay
<1>7. \A k \in Kid : Runs(k)' => kid'[k].at \in Place BY <1>1 DEF Typed, Reaped, NoKid, Runs
<1> QED BY <1>5, <1>6, <1>7 DEF Typed

(* Commands and the handler: the shell does not move. *)
LEMMA SamePlace ==
    ASSUME UnderWay, UNCHANGED <<pc, line, executed>>
    PROVE  UnderWay'
BY DEF UnderWay, WithinBound, SegmentOf, Starts, PipesOrdinary, Current

LEMMA TypeWork ==
    ASSUME Typed, NEW k \in Kid, Work(k) \/ Quit(k)
    PROVE  Typed'
<1>0. TypeOK /\ UnderWay BY DEF Typed
<1>1. UNCHANGED <<pc, line, numbered, executed, mine>>
  BY DEF Work, Take, Show, Put, BrokenPipe, Finish, Quit, shell
<1>2. kid[k] \in KidRecord /\ NoKid \in KidRecord BY <1>0, Parts, Nothing
<1>3. \E r \in KidRecord : kid' = [kid EXCEPT ![k] = r]
  <2>1. CASE Take(k)
    <3>1. kid' = [kid EXCEPT ![k] = [@ EXCEPT !.todo = 1]] BY <2>1 DEF Take
    <3>2. 1 \in 0 .. Units + 1 BY <1>0, Parts
    <3>3. [kid[k] EXCEPT !.todo = 1] \in KidRecord BY <1>2, <3>2 DEF KidRecord
    <3> QED BY <3>1, <3>3
  <2>2. CASE Show(k) \/ Put(k)
    <3>1. kid' = [kid EXCEPT ![k].todo = @ - 1] /\ kid[k].todo > 0
      BY <2>2 DEF Show, Put
    <3>2. kid[k].todo - 1 \in 0 .. Units + 1 BY <1>0, <1>2, <3>1, Parts DEF KidRecord
    <3>3. [kid[k] EXCEPT !.todo = @ - 1] \in KidRecord BY <1>2, <3>2 DEF KidRecord
    <3>4. kid' = [kid EXCEPT ![k] = [kid[k] EXCEPT !.todo = @ - 1]] BY <3>1
    <3> QED BY <3>3, <3>4
  <2>3. CASE EndKid(k)
    <3>1. [kid[k] EXCEPT !.state = "zombie", !.holds = {}] \in KidRecord BY <1>2 DEF KidRecord
    <3> QED BY <1>2, <2>3, <3>1 DEF EndKid
  <2> QED BY <2>1, <2>2, <2>3 DEF Work, BrokenPipe, Finish, Quit
<1>4. kid' \in [Kid -> KidRecord] BY <1>0, <1>3, Parts
<1>5. sig' \in BOOLEAN
  BY <1>0 DEF TypeOK, Work, Take, Show, Put, BrokenPipe, Finish, Quit, EndKid
<1>6. content' \in [Pipe -> 0 .. Capacity]
  <2>1. CASE Take(k)
    <3>1. content' = [content EXCEPT ![kid[k].in] = @ - 1] /\ content[kid[k].in] > 0 /\ kid[k].in \in Pipe
      BY <1>2, <2>1 DEF Take, KidRecord, MaybePipe
    <3>2. content[kid[k].in] - 1 \in 0 .. Capacity BY <1>0, <3>1, BoundAssumption DEF TypeOK
    <3> QED BY <1>0, <3>1, <3>2 DEF TypeOK
  <2>2. CASE Put(k)
    <3>1. content' = [content EXCEPT ![kid[k].out] = @ + 1] /\ content[kid[k].out] < Capacity /\ kid[k].out \in Pipe
      BY <2>2 DEF Put
    <3>2. content[kid[k].out] + 1 \in 0 .. Capacity BY <1>0, <3>1, BoundAssumption DEF TypeOK
    <3> QED BY <1>0, <3>1, <3>2 DEF TypeOK
  <2>3. CASE content' = content BY <1>0, <2>3 DEF TypeOK
  <2> QED BY <2>1, <2>2, <2>3 DEF Work, Show, BrokenPipe, Finish, Quit
<1>7. sent' \in [Place -> Nat] /\ got' \in [Place -> Nat]
  <2>1. sent' = sent \/ \E p \in Place : sent' = [sent EXCEPT ![p] = @ + 1]
    BY DEF Work, Take, Show, Put, BrokenPipe, Finish, Quit, ghosts
  <2>2. got' = got \/ \E p \in Place \union {Nowhere} : got' = [got EXCEPT ![p] = @ + 1]
    BY <1>2 DEF Work, Take, Show, Put, BrokenPipe, Finish, Quit, ghosts, KidRecord
  <2>3. sent \in [Place -> Nat] /\ got \in [Place -> Nat] BY <1>0 DEF TypeOK
  <2>4. Nowhere \notin Place BY DEF Nowhere, Place, Segment
  <2> QED BY <2>1, <2>2, <2>3, <2>4
<1>8. atEnd' \subseteq Place
  BY <1>0 DEF Typed, TypeOK, Work, Take, Show, Put, BrokenPipe, Finish, Quit, ghosts
<1>9. \A j \in Kid : Runs(j)' => kid'[j].at \in Place
  <2>1. \A j \in Kid \ {k} : kid'[j] = kid[j] BY <1>0, <1>3, Parts
  <2>2. kid'[k].state = "runs" => Runs(k) /\ kid'[k].at = kid[k].at
    <3>1. CASE EndKid(k) BY <1>0, <3>1, Parts DEF EndKid, NoKid, KidRecord
    <3>2. CASE Take(k) \/ Show(k) \/ Put(k)
      BY <1>0, <3>2, Parts DEF Take, Show, Put, Runs, KidRecord
    <3> QED BY <3>1, <3>2 DEF Work, BrokenPipe, Finish, Quit
  <2> QED BY <2>1, <2>2 DEF Typed, Runs
<1>10. TypeOK'
  BY <1>0, <1>1, <1>4, <1>5, <1>6, <1>7, <1>8 DEF TypeOK, KidRecord, MaybePipe, Sink
<1>11. UnderWay' BY <1>0, <1>1, SamePlace
<1> QED BY <1>9, <1>10, <1>11 DEF Typed

(* The line under way goes on with the same commands. *)
LEMMA SameLine ==
    ASSUME Typed, NEW p \in {"command", "fork", "reap", "wait"}, pc' = p,
           pc \in {"command", "fork", "reap", "wait"},
           line'.cmds = line.cmds, executed' = executed,
           line'.i =< Len(line.cmds) + 1,
           p \in {"fork", "reap"} =>
             line'.i =< Len(line.cmds) /\ Current'.argv /\ (PipesOrdinary' => line'.out \in Pipe),
           p = "wait" => line'.in = None /\ line'.i = Len(line.cmds) + 1
    PROVE  UnderWay'
<1>1. WithinBound(line.cmds)' BY DEF Typed, UnderWay, WithinBound, SegmentOf, Starts
<1> QED BY <1>1 DEF Typed, UnderWay, Ended

LEMMA TypeTurn ==
    ASSUME Typed, UNCHANGED <<kid, sig, content, ghosts>>, numbered' \in [Segment -> MaybePipe],
           mine' \in SUBSET End, executed' \in Segment \union {0}, line' \in LineRecord,
           pc' \in {"read", "command", "fork", "reap", "wait"} \union Ended, UnderWay'
    PROVE  Typed'
<1>1. TypeOK' BY DEF Typed, TypeOK, LineRecord, MaybePipe, Sink, ghosts, Ended
<1> QED BY <1>1 DEF Typed, Runs

LEMMA TypeBuiltin == ASSUME Typed, RunBuiltin PROVE Typed'
<1>0. TypeOK /\ UnderWay BY DEF Typed
<1>1. /\ pc' = "read" /\ line' = line /\ executed' \in Segment
      /\ mine' \subseteq mine
      /\ numbered' = [numbered EXCEPT ![executed + 1] = None]
      /\ UNCHANGED <<kid, sig, content, ghosts>>
  BY DEF RunBuiltin, DiscardIncoming
<1>2. numbered' \in [Segment -> MaybePipe] BY <1>0, <1>1, Parts DEF MaybePipe
<1>3. UnderWay' BY <1>0, <1>1, NothingUnderWay DEF RunBuiltin, UnderWay
<1> QED BY <1>0, <1>1, <1>2, <1>3, Parts, TypeTurn

LEMMA TypeReadLine == ASSUME Typed, NEW cmds \in Lines, ReadLine(cmds) PROVE Typed'
<1>0. TypeOK /\ UnderWay BY DEF Typed
<1>1. /\ pc' = "command" /\ line' = [NoLine EXCEPT !.cmds = cmds]
      /\ cmds # Builtin /\ WithinBound(cmds)
      /\ \A i \in 1 .. Len(cmds) : cmds[i].next # TooLarge
      /\ UNCHANGED <<numbered, executed, mine, kid, sig, content, ghosts>>
  BY DEF ReadLine
<1>2. /\ line' \in LineRecord
      /\ line'.cmds = cmds /\ line'.i = 1
  BY <1>1, Nothing DEF LineRecord, NoLine
<1>3. WithinBound(cmds)' BY <1>1 DEF WithinBound, SegmentOf
<1>4. 1 =< Len(cmds) + 1 BY Lengths
<1>5. UnderWay' BY <1>1, <1>2, <1>3, <1>4 DEF UnderWay, Ended
<1> QED BY <1>0, <1>1, <1>2, <1>5, Parts, TypeTurn DEF TypeOK

(* Where a command of the line under way is. *)
LEMMA CurrentTyped ==
    ASSUME Typed, pc \in {"command", "fork", "reap", "wait"}
    PROVE  /\ line.cmds \in Lines /\ line.cmds # Builtin /\ WithinBound(line.cmds)
           /\ Len(line.cmds) \in Nat /\ Len(line.cmds) >= 1 /\ Len(line.cmds) =< MaxCommands
           /\ line.i \in Nat \ {0} /\ line.i =< Len(line.cmds) + 1
           /\ line.cmds \in Seq(Command)
           /\ line.i =< Len(line.cmds) =>
                /\ line.i \in 1 .. Len(line.cmds)
                /\ line.i + 1 \in 1 .. MaxCommands + 1
                /\ Current \in Command /\ Current.next # TooLarge
                /\ Here \in Segment
                /\ Current.next \in Nat => Here + Current.next \in Segment
<1>1. line.cmds \in Lines /\ line.cmds # Builtin /\ WithinBound(line.cmds) /\ line.i =< Len(line.cmds) + 1
  BY DEF Typed, UnderWay
<1>2. line.cmds \in Seq(Command) /\ Len(line.cmds) \in Nat /\ Len(line.cmds) =< MaxCommands
  BY <1>1, Lengths
<1>3. Len(line.cmds) >= 1 BY <1>1, <1>2 DEF Builtin
<1>4. line.i \in Nat \ {0} /\ MaxCommands \in Nat BY Parts DEF Typed
<1>5. ASSUME line.i =< Len(line.cmds)
      PROVE  /\ line.i \in 1 .. Len(line.cmds)
             /\ line.i + 1 \in 1 .. MaxCommands + 1
             /\ Current \in Command /\ Current.next # TooLarge
             /\ Here \in Segment
             /\ Current.next \in Nat => Here + Current.next \in Segment
  <2>1. line.i \in 1 .. Len(line.cmds) BY <1>2, <1>4, <1>5
  <2>2. line.i + 1 \in 1 .. MaxCommands + 1 BY <1>2, <1>4, <1>5
  <2>3. Current \in Command BY <1>2, <2>1 DEF Current
  <2>4. Current.next # TooLarge BY <2>1 DEF Typed, UnderWay, Current
  <2>5. Here \in Segment /\ (Current.next \in Nat => Here + Current.next \in Segment)
    BY <1>1, <2>1, Segments DEF Here, Current, Typed
  <2> QED BY <2>1, <2>2, <2>3, <2>4, <2>5
<1> QED BY <1>1, <1>2, <1>3, <1>4, <1>5

LEMMA TypeSkip == ASSUME Typed, SkipEmpty PROVE Typed'
<1>0. TypeOK /\ UnderWay BY DEF Typed
<1>1. /\ pc = "command" /\ pc' = pc /\ line.i =< Len(line.cmds) /\ line' = [line EXCEPT !.i = @ + 1]
      /\ UNCHANGED <<numbered, executed, mine, kid, sig, content, ghosts>>
  BY DEF SkipEmpty
<1>2. line.i + 1 \in 1 .. MaxCommands + 1 /\ line.i + 1 =< Len(line.cmds) + 1 BY <1>1, CurrentTyped
<1>3. line' \in LineRecord /\ line'.cmds = line.cmds /\ line'.i = line.i + 1
  BY <1>0, <1>1, <1>2, Parts DEF LineRecord
<1>4. UnderWay' BY <1>1, <1>2, <1>3, SameLine
<1> QED BY <1>0, <1>1, <1>3, <1>4, Parts, TypeTurn DEF TypeOK

LEMMA TypeEndOfLine == ASSUME Typed, EndOfLine PROVE Typed'
<1>0. TypeOK /\ UnderWay BY DEF Typed
<1>1. /\ pc = "command" /\ pc' = "wait" /\ line.i > Len(line.cmds) /\ line' = [line EXCEPT !.in = None]
      /\ mine' \subseteq mine
      /\ UNCHANGED <<numbered, executed, kid, sig, content, ghosts>>
  BY DEF EndOfLine
<1>2. line.i = Len(line.cmds) + 1 BY <1>1, CurrentTyped
<1>3. line' \in LineRecord /\ line'.cmds = line.cmds /\ line'.i = line.i /\ line'.in = None
  BY <1>0, <1>1, Parts DEF LineRecord, MaybePipe
<1>4. line'.i =< Len(line.cmds) + 1 BY <1>1, <1>2, <1>3, CurrentTyped
<1>5. UnderWay' BY <1>1, <1>2, <1>3, <1>4, SameLine
<1> QED BY <1>0, <1>1, <1>3, <1>5, Parts, TypeTurn DEF TypeOK

LEMMA TypeReaps ==
    ASSUME Typed, \/ ReapChildren \/ ForkFails \/ \E k \in Kid : ReapOne(k)
    PROVE  Typed'
<1>0. TypeOK /\ UnderWay BY DEF Typed
<1>1. kid' = kid \/ \E K : kid' = Reaped(K) BY DEF ReapChildren, ForkFails, ReapOne
<1>2. kid' \in [Kid -> KidRecord] BY <1>0, <1>1, Parts, ReapedTyped
<1>3. \A k \in Kid : Runs(k)' => kid'[k].at \in Place
  BY <1>1 DEF Typed, Reaped, NoKid, Runs
<1>4. UNCHANGED <<line, numbered, executed, mine, content, sent, got, atEnd>> /\ sig' \in BOOLEAN
  BY <1>0 DEF ReapChildren, ForkFails, ReapOne, shell, ghosts, TypeOK
<1>5. pc' = pc \/ (pc \in {"fork", "reap"} /\ pc' \in {"fork", "reap"})
  BY DEF ReapChildren, ForkFails, ReapOne, shell
<1>6. TypeOK' BY <1>0, <1>2, <1>4, <1>5 DEF TypeOK, KidRecord, MaybePipe, Sink
<1>7. UnderWay'
  BY <1>0, <1>4, <1>5 DEF UnderWay, WithinBound, SegmentOf, Starts, PipesOrdinary, Current, Ended
<1> QED BY <1>3, <1>6, <1>7 DEF Typed

LEMMA TypeWait == ASSUME Typed, Wait PROVE Typed'
<1>0. TypeOK /\ UnderWay BY DEF Typed
<1>1. /\ pc = "wait" /\ pc' = "read" /\ line' = NoLine
      /\ executed' = SegmentOf(line.cmds, Len(line.cmds))
      /\ kid' = Reaped(line.waits \union line.back)
      /\ UNCHANGED <<numbered, mine, sig, content, sent, got, atEnd>>
  BY DEF Wait, ghosts
<1>2. executed' \in Segment
  <2>1. Len(line.cmds) \in 1 .. Len(line.cmds) BY <1>1, CurrentTyped
  <2> QED BY <1>0, <1>1, <2>1, CurrentTyped, Segments
<1>3. kid' \in [Kid -> KidRecord] BY <1>0, <1>1, ReapedTyped
<1>4. \A k \in Kid : Runs(k)' => kid'[k].at \in Place
  BY <1>1 DEF Typed, Reaped, NoKid, Runs
<1>5. line' \in LineRecord BY <1>1, Nothing
<1>6. TypeOK' BY <1>0, <1>1, <1>2, <1>3, <1>5 DEF TypeOK, KidRecord, LineRecord, MaybePipe, Sink
<1>7. UnderWay' BY <1>1, NothingUnderWay
<1> QED BY <1>4, <1>6, <1>7 DEF Typed

(* The pipe that leads to the command, and what attaching it leaves. *)
LEMMA AttachTyped ==
    ASSUME Typed, pc = "command", line.i =< Len(line.cmds)
    PROVE  /\ Incoming \in MaybePipe /\ InFd \in MaybePipe
           /\ AttachedEnds \subseteq mine
           /\ AttachedPipes \in [Segment -> MaybePipe]
<1>0. TypeOK BY DEF Typed
<1>1. Here \in Segment BY CurrentTyped
<1>2. numbered \in [Segment -> MaybePipe] /\ line.in \in MaybePipe
  BY <1>0, Parts DEF LineRecord
<1>3. Incoming \in MaybePipe BY <1>1, <1>2 DEF Incoming, MaybePipe
<1>4. InFd \in MaybePipe BY <1>2, <1>3 DEF InFd
<1>5. AttachedPipes \in [Segment -> MaybePipe] BY <1>2 DEF AttachedPipes, MaybePipe
<1> QED BY <1>3, <1>4, <1>5 DEF AttachedEnds

(* What a plan is, whichever way the output goes. *)
LEMMA Planned ==
    ASSUME Typed, Prepare
    PROVE  /\ pc = "command" /\ pc' = "fork" /\ line.i =< Len(line.cmds)
           /\ Current.argv
           /\ \E out \in Sink :
                /\ line' = [line EXCEPT !.in = InFd, !.out = out]
                /\ PipesOrdinary => out \in Pipe
           /\ UNCHANGED <<executed, kid, sig, sent, got, atEnd>>
<1>1. /\ pc = "command" /\ pc' = "fork" /\ line.i =< Len(line.cmds) /\ Current.argv
      /\ UNCHANGED <<executed, kid, sig, sent, got, atEnd>>
      /\ ToFile \/ ToStdout \/ \E q \in Pipe : ToOrdinary(q) \/ ToNumbered(q)
  BY DEF Prepare, ghosts
<1>2. CASE ToFile BY <1>1, <1>2 DEF ToFile, Sink, PipesOrdinary
<1>3. CASE ToStdout
  <2>1. line' = [line EXCEPT !.in = InFd, !.out = None] /\ ~PipesOrdinary
    BY <1>3 DEF ToStdout, PipesOrdinary, NoPipe, Ordinary
  <2> QED BY <1>1, <2>1 DEF Sink
<1>4. CASE \E q \in Pipe : ToOrdinary(q) \/ ToNumbered(q)
  <2>1. PICK q \in Pipe : ToOrdinary(q) \/ ToNumbered(q) BY <1>4
  <2>2. line' = [line EXCEPT !.in = InFd, !.out = q] BY <2>1 DEF ToOrdinary, ToNumbered, Create
  <2> QED BY <1>1, <2>2 DEF Sink
<1> QED BY <1>1, <1>2, <1>3, <1>4

LEMMA PlannedPipes ==
    ASSUME Typed, Prepare
    PROVE  /\ numbered' \in [Segment -> MaybePipe]
           /\ mine' \in SUBSET End
           /\ content' \in [Pipe -> 0 .. Capacity]
<1>1. AttachedPipes \in [Segment -> MaybePipe] /\ AttachedEnds \in SUBSET End
  BY Planned, AttachTyped, Parts DEF Typed
<1>2. content \in [Pipe -> 0 .. Capacity] /\ 0 \in 0 .. Capacity
  BY BoundAssumption DEF Typed, TypeOK
<1>3. \/ numbered' = AttachedPipes
      \/ \E q \in Pipe, t \in Segment : numbered' = [AttachedPipes EXCEPT ![t] = q]
  <2>1. ASSUME NEW q \in Pipe, ToNumbered(q)
        PROVE  \/ numbered' = AttachedPipes
               \/ \E t \in Segment : numbered' = [AttachedPipes EXCEPT ![t] = q]
    <3>1. Here + Current.next \in Segment BY <2>1, Planned, CurrentTyped DEF ToNumbered
    <3> QED BY <2>1, <3>1 DEF ToNumbered
  <2> QED BY <2>1 DEF Prepare, ToFile, ToStdout, ToOrdinary
<1>4. numbered' \in [Segment -> MaybePipe] BY <1>1, <1>3 DEF MaybePipe
<1>5. mine' = AttachedEnds \/ \E q \in Pipe : mine' = AttachedEnds \union BothEnds(q)
  BY DEF Prepare, ToFile, ToStdout, ToOrdinary, ToNumbered, Create
<1>6. mine' \in SUBSET End BY <1>1, <1>5 DEF BothEnds
<1>7. content' = content \/ \E q \in Pipe : content' = [content EXCEPT ![q] = 0]
  BY DEF Prepare, ToFile, ToStdout, ToOrdinary, ToNumbered, Create
<1> QED BY <1>2, <1>4, <1>6, <1>7

LEMMA TypePrepare == ASSUME Typed, Prepare PROVE Typed'
<1>0. TypeOK /\ UnderWay BY DEF Typed
<1>1. PICK out \in Sink :
        /\ line' = [line EXCEPT !.in = InFd, !.out = out]
        /\ PipesOrdinary => out \in Pipe
  BY Planned
<1>2. /\ line' \in LineRecord
      /\ line'.cmds = line.cmds /\ line'.i = line.i /\ line'.out = out
  BY <1>0, <1>1, Planned, AttachTyped, Parts DEF LineRecord
<1>3. PipesOrdinary' <=> PipesOrdinary BY <1>2 DEF PipesOrdinary, Current
<1>4. line.i =< Len(line.cmds) + 1 BY Planned, CurrentTyped
<1>5. UnderWay'
  <2>1. Current' = Current BY <1>2 DEF Current
  <2> QED BY <1>1, <1>2, <1>3, <1>4, <2>1, Planned, SameLine
<1>6. TypeOK' BY <1>0, <1>2, Planned, PlannedPipes DEF TypeOK, LineRecord, MaybePipe, Sink
<1>7. \A k \in Kid : Runs(k)' => kid'[k].at \in Place BY Planned DEF Typed, Runs
<1> QED BY <1>5, <1>6, <1>7 DEF Typed

LEMMA TypeOpenFails == ASSUME Typed, OpenFails PROVE Typed'
<1>0. TypeOK /\ UnderWay BY DEF Typed
<1>1. /\ pc = "command" /\ pc' = pc /\ line.i =< Len(line.cmds)
      /\ line' = [line EXCEPT !.in = None, !.i = @ + 1]
      /\ mine' \subseteq AttachedEnds /\ numbered' = AttachedPipes
      /\ UNCHANGED <<executed, kid, sig, content, ghosts>>
  BY DEF OpenFails
<1>2. line.i + 1 \in 1 .. MaxCommands + 1 /\ line.i + 1 =< Len(line.cmds) + 1 BY <1>1, CurrentTyped
<1>3. line' \in LineRecord /\ line'.cmds = line.cmds /\ line'.i = line.i + 1
  BY <1>0, <1>1, <1>2, Parts DEF LineRecord, MaybePipe
<1>4. UnderWay' BY <1>1, <1>2, <1>3, SameLine
<1>5. numbered' \in [Segment -> MaybePipe] /\ mine' \in SUBSET End
  BY <1>0, <1>1, AttachTyped, Parts
<1> QED BY <1>0, <1>1, <1>3, <1>4, <1>5, TypeTurn DEF TypeOK

(* The new child, and the line that goes on with the next command. *)
NewKid ==
    [state |-> "runs", in |-> line.in, out |-> line.out,
     holds |-> (mine \ ClosedInChild) \union Copies,
     todo |-> IF line.in = None THEN Units ELSE 0,
     at |-> PlaceOf(line.cmds, line.i), aim |-> AimOf(line.cmds, line.i)]

LEMMA Forked ==
    ASSUME Typed, NEW k \in Kid, Fork(k)
    PROVE  /\ pc = "fork" /\ pc' = "command" /\ line.i =< Len(line.cmds)
           /\ kid' = [kid EXCEPT ![k] = NewKid]
           /\ NewKid \in KidRecord /\ NewKid.at \in Place
           /\ mine' = mine \ ClosedInParent
           /\ line' \in LineRecord /\ line'.cmds = line.cmds /\ line'.i = line.i + 1
           /\ line'.in = IF PipesOrdinary THEN line.out ELSE None
           /\ UNCHANGED <<numbered, executed, sig, content, sent, got, atEnd>>
<1>0. TypeOK /\ UnderWay BY DEF Typed
<1>1. /\ pc = "fork" /\ pc' = "command"
      /\ kid' = [kid EXCEPT ![k] = NewKid]
      /\ mine' = mine \ ClosedInParent
      /\ UNCHANGED <<numbered, executed, sig, content, sent, got, atEnd>>
  BY DEF Fork, NewKid, ghosts
<1>2. line.i =< Len(line.cmds) /\ Current.argv /\ (PipesOrdinary => line.out \in Pipe)
  BY <1>0, <1>1 DEF UnderWay
<1>3. line.i + 1 \in 1 .. MaxCommands + 1 /\ line.i \in 1 .. Len(line.cmds) BY <1>1, <1>2, CurrentTyped
<1>4. PlaceOf(line.cmds, line.i) \in Place BY <1>0, <1>1, <1>2, <1>3, CurrentTyped, Places DEF Current
<1>5. AimOf(line.cmds, line.i) \in Nat \X Nat
  BY <1>0, <1>1, <1>2, <1>3, CurrentTyped, Aims DEF Current
<1>6. (mine \ ClosedInChild) \union Copies \in SUBSET End BY <1>0, Parts DEF Copies
<1>7. line.in \in MaybePipe /\ line.out \in Sink BY <1>0, Parts DEF LineRecord
<1>8. (IF line.in = None THEN Units ELSE 0) \in 0 .. Units + 1 BY <1>0, Parts
<1>9. NewKid \in KidRecord /\ NewKid.at \in Place
  BY <1>4, <1>5, <1>6, <1>7, <1>8 DEF NewKid, KidRecord
<1> DEFINE waitable == Waitable(line.cmds, line.i)
           w == IF waitable THEN line.waits \union {k} ELSE line.waits
           b == IF waitable THEN line.back ELSE line.back \union {k}
<1>10. /\ line' = [line EXCEPT !.i = @ + 1, !.in = IF PipesOrdinary THEN line.out ELSE None, !.out = None,
                               !.waits = w, !.back = b]
       /\ w \in SUBSET Kid /\ b \in SUBSET Kid
  <2>1. line.waits \in SUBSET Kid /\ line.back \in SUBSET Kid BY <1>0, Parts DEF LineRecord
  <2>2. w \in SUBSET Kid /\ b \in SUBSET Kid BY <2>1
  <2>3. line' = [line EXCEPT !.i = @ + 1, !.in = IF PipesOrdinary THEN line.out ELSE None, !.out = None,
                             !.waits = w, !.back = b]
    BY DEF Fork
  <2> QED BY <2>2, <2>3
<1> HIDE DEF w, b
<1>11. (IF PipesOrdinary THEN line.out ELSE None) \in MaybePipe BY <1>2 DEF MaybePipe
<1>12. /\ line' \in LineRecord /\ line'.cmds = line.cmds /\ line'.i = line.i + 1
       /\ line'.in = IF PipesOrdinary THEN line.out ELSE None
  BY <1>0, <1>3, <1>10, <1>11, Parts DEF LineRecord, Sink
<1> QED BY <1>1, <1>2, <1>9, <1>12

LEMMA TypeFork == ASSUME Typed, NEW k \in Kid, Fork(k) PROVE Typed'
<1>0. TypeOK /\ UnderWay BY DEF Typed
<1>1. line'.i =< Len(line.cmds) + 1 BY Forked, CurrentTyped
<1>2. UnderWay' BY <1>1, Forked, SameLine
<1>3. kid' \in [Kid -> KidRecord] BY <1>0, Forked, Parts
<1>4. TypeOK'
  BY <1>0, <1>3, Forked DEF TypeOK, KidRecord, LineRecord, MaybePipe, Sink
<1>5. \A j \in Kid : Runs(j)' => kid'[j].at \in Place BY <1>0, Forked, Parts DEF Typed, Runs
<1> QED BY <1>2, <1>4, <1>5 DEF Typed

LEMMA TypeInit == Init => Typed
<1> SUFFICES ASSUME Init PROVE Typed OBVIOUS
<1>1. line \in LineRecord /\ kid \in [Kid -> KidRecord] BY Nothing DEF Init
<1>2. 0 \in 0 .. Capacity BY BoundAssumption
<1>3. TypeOK BY <1>1, <1>2 DEF Init, TypeOK, KidRecord, LineRecord, MaybePipe, Sink
<1> QED BY <1>3 DEF Init, Typed, UnderWay, Runs, NoKid, Ended

LEMMA TypeStep == ASSUME Typed, [Next]_vars PROVE Typed'
<1>1. CASE Exit \/ (\E cmds \in Lines : Throw(cmds)) \/ GiveUp
  BY <1>1, TypeLeave DEF Exit, Throw, GiveUp, Ended
<1>2. CASE RunBuiltin BY <1>2, TypeBuiltin
<1>3. CASE \E cmds \in Lines : ReadLine(cmds) BY <1>3, TypeReadLine
<1>4. CASE SkipEmpty \/ EndOfLine \/ Wait BY <1>4, TypeSkip, TypeEndOfLine, TypeWait
<1>5. CASE Prepare \/ OpenFails BY <1>5, TypePrepare, TypeOpenFails
<1>6. CASE ForkFails \/ ReapChildren \/ \E k \in Kid : ReapOne(k) BY <1>6, TypeReaps
<1>7. CASE \E k \in Kid : Fork(k) BY <1>7, TypeFork
<1>8. CASE \E k \in Kid : Work(k) \/ Quit(k) BY <1>8, TypeWork
<1>9. CASE UNCHANGED vars
  BY <1>9 DEF Typed, TypeOK, UnderWay, WithinBound, SegmentOf, Starts, PipesOrdinary, Current, Runs,
              vars, shell, ghosts, Ended
<1> QED BY <1>1, <1>2, <1>3, <1>4, <1>5, <1>6, <1>7, <1>8, <1>9 DEF Next, Line

(* Every variable keeps its type: the line's index stays in the line, pipes in their      *)
(* capacity, and what is executed within the bound that ReadLine checks.                  *)
THEOREM TypeCorrect == Spec => []TypeOK
<1>1. Typed /\ [Next]_vars => Typed' BY TypeStep
<1>2. Typed => TypeOK BY DEF Typed
<1> QED BY TypeInit, <1>1, <1>2, PTL DEF Spec

-----------------------------------------------------------------------------
(***************************************************************************)
(* IntendedEnds.  Apart, Owns and ChildEnds are inductive for any lines:   *)
(* between lines the shell owns the pipes of numberedPipes, during one     *)
(* also the input of the next command, and between the plan and the fork   *)
(* both ends of an ordinary pipe.  Ahead needs Tidy lines.                 *)
(***************************************************************************)

LEMMA EndFacts ==
    /\ \A p, q : Rd(p) # Wr(q)
    /\ \A p, q : (Rd(p) = Rd(q) <=> p = q) /\ (Wr(p) = Wr(q) <=> p = q)
    /\ \A p : (Rd(p) \in End <=> p \in Pipe) /\ (Wr(p) \in End <=> p \in Pipe)
    /\ \A e \in End : \E q \in Pipe : e = Rd(q) \/ e = Wr(q)
<1>1. \A p, q : Rd(p) # Wr(q) BY DEF Rd, Wr
<1>2. \A p, q : (Rd(p) = Rd(q) <=> p = q) /\ (Wr(p) = Wr(q) <=> p = q) BY DEF Rd, Wr
<1>3. \A p : (Rd(p) \in End <=> p \in Pipe) /\ (Wr(p) \in End <=> p \in Pipe) BY DEF Rd, Wr, End
<1>4. \A e \in End : \E q \in Pipe : e = Rd(q) \/ e = Wr(q) BY DEF Rd, Wr, End
<1> QED BY <1>1, <1>2, <1>3, <1>4

LEMMA NoPipeIsNone == None \notin Pipe /\ File \notin Pipe
BY BoundAssumption DEF None, File, Pipe

LEMMA BothFacts ==
    /\ \A p, q \in Pipe : (Rd(p) \in BothEnds(q) <=> p = q) /\ (Wr(p) \in BothEnds(q) <=> p = q)
    /\ \A e : e \notin BothEnds(None)
BY EndFacts, NoPipeIsNone DEF BothEnds

Ends == Apart /\ Owns

(* numberedPipes, line.in and the shell's ends after the attachment. *)
AttachedPipe(q) == \E s \in Segment : AttachedPipes[s] = q

LEMMA Attached ==
    ASSUME Typed, Ends, pc = "command", line.i =< Len(line.cmds)
    PROVE  /\ \A s, t \in Segment : AttachedPipes[s] = AttachedPipes[t] /\ AttachedPipes[s] # None => s = t
           /\ InFd # None => ~AttachedPipe(InFd)
           /\ \A q \in Pipe :
                /\ AttachedPipe(q) => IsNumbered(q)
                /\ InFd = q => IsNumbered(q) \/ line.in = q
                /\ Rd(q) \in AttachedEnds <=> (AttachedPipe(q) \/ InFd = q)
                /\ Wr(q) \in AttachedEnds <=> AttachedPipe(q)
<1>1. Here \in Segment /\ numbered \in [Segment -> MaybePipe] /\ line.in \in MaybePipe
  BY CurrentTyped, Parts DEF Typed, LineRecord
<1>2. Incoming \in MaybePipe /\ InFd \in MaybePipe BY AttachTyped
<1>3. Incoming # None => Incoming = numbered[Here] BY DEF Incoming
<1>4. \A s \in Segment :
        AttachedPipes[s] = IF Incoming # None /\ s = Here THEN None ELSE numbered[s]
  BY <1>1 DEF AttachedPipes
<1>5. \A q \in Pipe : AttachedPipe(q) <=> (IsNumbered(q) /\ q # Incoming)
  <2>1. \A s, t \in Segment : numbered[s] = numbered[t] /\ numbered[s] # None => s = t
    BY DEF Ends, Apart
  <2> QED BY <1>1, <1>3, <1>4, <2>1, NoPipeIsNone DEF AttachedPipe, IsNumbered
<1>6. \A s, t \in Segment : AttachedPipes[s] = AttachedPipes[t] /\ AttachedPipes[s] # None => s = t
  BY <1>4 DEF Ends, Apart
<1>7. line.in # None => line.in # Incoming
  BY <1>1, <1>3 DEF Ends, Apart, IsNumbered
<1>8. InFd = IF line.in = None THEN Incoming ELSE line.in BY DEF InFd
<1>9. InFd # None => ~AttachedPipe(InFd)
  <2>1. CASE line.in # None
    <3>1. line.in \in Pipe BY <1>1, <2>1 DEF MaybePipe
    <3>2. ~IsNumbered(line.in) BY <2>1 DEF Ends, Apart
    <3> QED BY <1>5, <1>8, <2>1, <3>1, <3>2
  <2>2. CASE line.in = None /\ Incoming # None
    <3>1. Incoming \in Pipe BY <1>2, <2>2 DEF MaybePipe
    <3> QED BY <1>5, <1>8, <2>2, <3>1
  <2> QED BY <1>8, <2>1, <2>2
<1>10. \A q \in Pipe : InFd = q => IsNumbered(q) \/ line.in = q
  BY <1>1, <1>3, <1>8, NoPipeIsNone DEF IsNumbered
<1>11. \A q \in Pipe :
        /\ Rd(q) \in mine <=> (IsNumbered(q) \/ line.in = q)
        /\ Wr(q) \in mine <=> IsNumbered(q)
  BY DEF Ends, Owns, Forming
<1>12. CASE Incoming = None
  <2>1. InFd = line.in BY <1>8, <1>12
  <2>2. AttachedEnds = mine
    <3>1. Wr(Incoming) \notin mine BY <1>12, EndFacts, NoPipeIsNone, Parts DEF Typed
    <3> QED BY <1>12, <3>1, BothFacts DEF AttachedEnds
  <2>3. \A q \in Pipe : AttachedPipe(q) <=> IsNumbered(q) BY <1>5, <1>12, NoPipeIsNone
  <2> QED BY <1>6, <1>9, <1>10, <1>11, <2>1, <2>2, <2>3
<1>13. CASE Incoming # None /\ line.in = None
  <2>1. InFd = Incoming /\ Incoming \in Pipe BY <1>2, <1>8, <1>13 DEF MaybePipe
  <2>2. AttachedEnds = mine \ {Wr(Incoming)} BY <2>1 DEF AttachedEnds
  <2>3. IsNumbered(Incoming) BY <1>1, <1>3, <1>13 DEF IsNumbered
  <2>4. \A q \in Pipe :
          /\ Rd(q) \in AttachedEnds <=> IsNumbered(q)
          /\ Wr(q) \in AttachedEnds <=> (IsNumbered(q) /\ q # Incoming)
    BY <1>11, <1>13, <2>2, EndFacts, NoPipeIsNone
  <2> QED BY <1>5, <1>6, <1>9, <1>10, <2>1, <2>3, <2>4
<1>14. CASE Incoming # None /\ line.in # None
  <2>1. InFd = line.in /\ InFd # Incoming /\ Incoming \in Pipe BY <1>2, <1>7, <1>8, <1>14 DEF MaybePipe
  <2>2. AttachedEnds = mine \ BothEnds(Incoming) BY <2>1 DEF AttachedEnds
  <2>3. \A q \in Pipe :
          /\ Rd(q) \in AttachedEnds <=> ((IsNumbered(q) \/ line.in = q) /\ q # Incoming)
          /\ Wr(q) \in AttachedEnds <=> (IsNumbered(q) /\ q # Incoming)
    BY <1>11, <2>1, <2>2, BothFacts
  <2> QED BY <1>5, <1>6, <1>9, <1>10, <2>1, <2>3
<1> QED BY <1>12, <1>13, <1>14

LEMMA FreshPipe ==
    ASSUME Typed, Ends, pc = "command", line.i =< Len(line.cmds), NEW q \in Pipe, Fresh(q)
    PROVE  InFd # q /\ ~AttachedPipe(q)
<1>1. Rd(q) \notin mine BY DEF Fresh, Exists, HasReader
<1>2. ~IsNumbered(q) /\ line.in # q BY <1>1 DEF Ends, Owns
<1> QED BY <1>2, Attached

LEMMA EndsPrepare == ASSUME Typed, Ends, Prepare PROVE Ends'
<1>0. /\ pc = "command" /\ line.i =< Len(line.cmds) /\ pc' = "fork"
      /\ Here \in Segment /\ AttachedPipes \in [Segment -> MaybePipe]
  BY Planned, CurrentTyped, AttachTyped
<1>1. PICK out \in Sink :
        /\ line' = [line EXCEPT !.in = InFd, !.out = out]
        /\ PipesOrdinary => out \in Pipe
  BY Planned
<1>2. line'.in = InFd /\ line'.out = out /\ line'.cmds = line.cmds /\ line'.i = line.i
  BY <1>1, Parts DEF Typed, LineRecord
<1>3. Forming' <=> PipesOrdinary BY <1>0, <1>2 DEF Forming, PipesOrdinary, Current
<1>4. CASE numbered' = AttachedPipes /\ mine' = AttachedEnds /\ ~PipesOrdinary
  <2>1. \A q : IsNumbered(q)' <=> AttachedPipe(q) BY <1>4 DEF IsNumbered, AttachedPipe
  <2> QED BY <1>0, <1>2, <1>3, <1>4, <2>1, Attached DEF Ends, Apart, Owns
<1>5. CASE \E q \in Pipe : ToOrdinary(q)
  <2>1. PICK q \in Pipe : ToOrdinary(q) BY <1>5
  <2>2. Fresh(q) /\ numbered' = AttachedPipes /\ mine' = AttachedEnds \union BothEnds(q) /\ line'.out = q
    <3>1. line' = [line EXCEPT !.in = InFd, !.out = q] BY <2>1 DEF ToOrdinary, Create
    <3>2. line'.out = q BY <3>1, Parts DEF Typed, LineRecord
    <3> QED BY <2>1, <3>2 DEF ToOrdinary, Create
  <2>3. \A r : IsNumbered(r)' <=> AttachedPipe(r) BY <2>2 DEF IsNumbered, AttachedPipe
  <2>4. Forming' BY <1>3, <2>1 DEF ToOrdinary, PipesOrdinary
  <2>5. InFd # q /\ ~AttachedPipe(q) BY <1>0, <2>2, FreshPipe
  <2>6. Apart' BY <1>0, <1>2, <2>2, <2>3, <2>5, Attached DEF Apart
  <2>7. Owns' BY <1>0, <1>2, <2>2, <2>3, <2>4, Attached, BothFacts DEF Owns
  <2> QED BY <2>6, <2>7 DEF Ends
<1>6. CASE \E q \in Pipe : ToNumbered(q) /\ numbered' # AttachedPipes
  <2>1. PICK q \in Pipe : ToNumbered(q) /\ numbered' # AttachedPipes BY <1>6
  <2> DEFINE t == Here + Current.next
  <2>2. t \in Segment BY <1>0, <2>1, CurrentTyped DEF ToNumbered
  <2> HIDE DEF t
  <2>3. /\ AttachedPipes[t] = None /\ Fresh(q)
        /\ numbered' = [AttachedPipes EXCEPT ![t] = q]
        /\ mine' = AttachedEnds \union BothEnds(q)
    BY <2>1 DEF ToNumbered, Create, TargetPipe, t
  <2>4. ~Forming' BY <1>3, <2>1 DEF ToNumbered, PipesOrdinary, Ordinary
  <2>5. InFd # q /\ ~AttachedPipe(q) BY <1>0, <2>3, FreshPipe
  <2>6. \A r \in Pipe : IsNumbered(r)' <=> (AttachedPipe(r) \/ r = q)
    BY <1>0, <2>2, <2>3, NoPipeIsNone DEF IsNumbered, AttachedPipe
  <2>7. InFd \in MaybePipe BY <1>0, AttachTyped
  <2>8. line'.in # None => \A s \in Segment : numbered'[s] # line'.in
    <3>1. SUFFICES ASSUME line'.in # None PROVE \A s \in Segment : numbered'[s] # line'.in OBVIOUS
    <3>2. InFd \in Pipe /\ InFd # None BY <1>2, <2>7, <3>1 DEF MaybePipe
    <3>3. ~AttachedPipe(InFd) BY <1>0, <3>2, Attached
    <3> QED BY <1>0, <1>2, <2>2, <2>3, <2>5, <3>2, <3>3 DEF AttachedPipe
  <2>9. \A s, u \in Segment : numbered'[s] = numbered'[u] /\ numbered'[s] # None => s = u
    BY <1>0, <2>2, <2>3, <2>5, Attached DEF AttachedPipe
  <2>10. Apart' BY <2>4, <2>8, <2>9 DEF Apart, IsNumbered
  <2>11. Owns' BY <1>0, <1>2, <2>3, <2>4, <2>6, Attached, BothFacts DEF Owns
  <2> QED BY <2>10, <2>11 DEF Ends
<1>7. \/ numbered' = AttachedPipes /\ mine' = AttachedEnds /\ ~PipesOrdinary
      \/ \E q \in Pipe : ToOrdinary(q)
      \/ \E q \in Pipe : ToNumbered(q) /\ numbered' # AttachedPipes
  <2>1. CASE ToFile \/ ToStdout BY <2>1 DEF ToFile, ToStdout, PipesOrdinary, NoPipe, Ordinary
  <2>2. ASSUME NEW q \in Pipe, ToNumbered(q), numbered' = AttachedPipes
        PROVE  mine' = AttachedEnds /\ ~PipesOrdinary
    <3>1. Here + Current.next \in Segment BY <1>0, <2>2, CurrentTyped DEF ToNumbered
    <3>2. AttachedPipes[Here + Current.next] = q
      BY <1>0, <2>2, <3>1 DEF ToNumbered, TargetPipe
    <3> QED BY <2>2, <3>2, NoPipeIsNone DEF ToNumbered, TargetPipe, PipesOrdinary, Ordinary
  <2> QED BY <2>1, <2>2 DEF Prepare
<1> QED BY <1>4, <1>5, <1>6, <1>7

LEMMA NotForming == ASSUME pc \notin {"fork", "reap"} PROVE ~Forming
BY DEF Forming

LEMMA EndsOpenFails == ASSUME Typed, Ends, OpenFails PROVE Ends'
<1>0. /\ pc = "command" /\ pc' = pc /\ line.i =< Len(line.cmds)
      /\ line' = [line EXCEPT !.in = None, !.i = @ + 1]
      /\ mine' = AttachedEnds \ {Rd(InFd)} /\ numbered' = AttachedPipes
  BY DEF OpenFails
<1>1. line'.in = None BY <1>0, Parts DEF Typed, LineRecord
<1>2. ~Forming' BY <1>0 DEF Forming
<1>3. InFd \in MaybePipe BY <1>0, AttachTyped
<1>4. \A q : IsNumbered(q)' <=> AttachedPipe(q) BY <1>0 DEF IsNumbered, AttachedPipe
<1>5. Apart' BY <1>0, <1>1, <1>2, Attached DEF Apart
<1>6. \A q \in Pipe :
        /\ Rd(q) \in mine' <=> (AttachedPipe(q) \/ InFd = q) /\ q # InFd
        /\ Wr(q) \in mine' <=> AttachedPipe(q)
  BY <1>0, Attached, EndFacts
<1>7. InFd # None => ~AttachedPipe(InFd) BY <1>0, Attached
<1>8. \A q \in Pipe : Rd(q) \in mine' <=> AttachedPipe(q) BY <1>6, <1>7, NoPipeIsNone
<1>9. Owns' BY <1>1, <1>2, <1>4, <1>6, <1>8, NoPipeIsNone DEF Owns
<1> QED BY <1>5, <1>9 DEF Ends

LEMMA EndsFork == ASSUME Typed, Ends, NEW k \in Kid, Fork(k) PROVE Ends' /\ (ChildEnds => ChildEnds')
<1>0. /\ pc = "fork" /\ pc' = "command"
      /\ kid' = [kid EXCEPT ![k] = NewKid]
      /\ mine' = mine \ ClosedInParent
      /\ line'.in = (IF PipesOrdinary THEN line.out ELSE None)
      /\ numbered' = numbered
  BY Forked
<1>1. Forming <=> PipesOrdinary BY <1>0 DEF Forming
<1>2. ~Forming' BY <1>0 DEF Forming
<1>3. PipesOrdinary => line.out \in Pipe BY <1>0 DEF Typed, UnderWay
<1>4. \A q : IsNumbered(q)' <=> IsNumbered(q) BY <1>0 DEF IsNumbered
<1>5. /\ \A s, t \in Segment : numbered[s] = numbered[t] /\ numbered[s] # None => s = t
      /\ line.in # None => ~IsNumbered(line.in)
      /\ PipesOrdinary => line.out # line.in /\ ~IsNumbered(line.out)
  BY <1>1 DEF Ends, Apart
<1>6. \A q \in Pipe :
        /\ Rd(q) \in mine <=> (IsNumbered(q) \/ line.in = q \/ (PipesOrdinary /\ line.out = q))
        /\ Wr(q) \in mine <=> (IsNumbered(q) \/ (PipesOrdinary /\ line.out = q))
  BY <1>1 DEF Ends, Owns
<1>7. line'.in # None => \A s \in Segment : numbered'[s] # line'.in
  BY <1>0, <1>5 DEF IsNumbered
<1>8. Apart' BY <1>0, <1>2, <1>5, <1>7 DEF Apart, IsNumbered
<1>9. ASSUME PipesOrdinary PROVE Owns'
  <2>1. ClosedInParent = {Rd(line.in), Wr(line.out)} BY <1>9 DEF ClosedInParent
  <2>2. \A q \in Pipe :
          /\ Rd(q) \in mine' <=> (IsNumbered(q) \/ line.out = q)
          /\ Wr(q) \in mine' <=> IsNumbered(q)
    BY <1>0, <1>5, <1>6, <1>9, <2>1, EndFacts, NoPipeIsNone
  <2> QED BY <1>0, <1>2, <1>4, <1>9, <2>2 DEF Owns
<1>10. ASSUME ~PipesOrdinary PROVE Owns'
  <2>1. ClosedInParent = {Rd(line.in)} BY <1>10 DEF ClosedInParent
  <2>2. \A q \in Pipe :
          /\ Rd(q) \in mine' <=> IsNumbered(q)
          /\ Wr(q) \in mine' <=> IsNumbered(q)
    BY <1>0, <1>5, <1>6, <1>10, <2>1, EndFacts, NoPipeIsNone
  <2> QED BY <1>0, <1>2, <1>4, <1>10, <2>2, NoPipeIsNone DEF Owns
<1>11. NumberedEnds \subseteq ClosedInChild /\ Rd(line.in) \in ClosedInChild
       /\ (PipesOrdinary => BothEnds(line.out) \subseteq ClosedInChild)
  BY DEF ClosedInChild
<1>12. \A q \in Pipe : IsNumbered(q) => Rd(q) \in NumberedEnds /\ Wr(q) \in NumberedEnds
  BY BothFacts DEF IsNumbered, NumberedEnds
<1>13. mine \ ClosedInChild = {}
  <2>1. \A q \in Pipe : Rd(q) \in mine => Rd(q) \in ClosedInChild
    BY <1>3, <1>6, <1>11, <1>12, BothFacts
  <2>2. \A q \in Pipe : Wr(q) \in mine => Wr(q) \in ClosedInChild
    BY <1>3, <1>6, <1>11, <1>12, BothFacts
  <2>3. mine \subseteq End BY Parts DEF Typed
  <2> QED BY <2>1, <2>2, <2>3, EndFacts
<1>14. NewKid.holds = {Rd(NewKid.in), Wr(NewKid.out)} \intersect End BY <1>13 DEF NewKid, Copies
<1>15. ChildEnds => ChildEnds' BY <1>0, <1>14, Parts DEF Typed, ChildEnds, Runs
<1>16. Owns' BY <1>9, <1>10
<1> QED BY <1>8, <1>15, <1>16 DEF Ends

(* Without a line there is neither an input nor a pipe about to be used. *)
LEMMA EndsLeave == ASSUME NEW how \in Ended, Leave(how) PROVE Ends' /\ Ahead'
<1>1. /\ pc' = how /\ line' = NoLine /\ numbered' = [s \in Segment |-> None] /\ mine' = {}
  BY DEF Leave
<1>2. line'.in = None /\ ~Forming' BY <1>1 DEF NoLine, Forming, Ended
<1>3. \A s \in Segment : numbered'[s] = None BY <1>1
<1>4. \A q \in Pipe : ~IsNumbered(q)' BY <1>3, NoPipeIsNone DEF IsNumbered
<1>5. Apart' BY <1>2, <1>3 DEF Apart
<1>6. Owns' BY <1>1, <1>2, <1>4, NoPipeIsNone DEF Owns
<1>7. Ahead' BY <1>3 DEF Ahead
<1> QED BY <1>5, <1>6, <1>7 DEF Ends

LEMMA EndsBuiltin == ASSUME Typed, Ends, RunBuiltin PROVE Ends'
<1> DEFINE t == executed + 1
<1>0. /\ pc = "read" /\ pc' = "read" /\ line = NoLine /\ line' = NoLine /\ t \in Segment
      /\ mine' = mine \ BothEnds(numbered[t]) /\ numbered' = [numbered EXCEPT ![t] = None]
  BY DEF RunBuiltin, DiscardIncoming, Typed, UnderWay
<1> HIDE DEF t
<1>1. line.in = None /\ line'.in = None /\ ~Forming /\ ~Forming' BY <1>0 DEF NoLine, Forming
<1>2. numbered \in [Segment -> MaybePipe] BY Parts DEF Typed
<1>3. \A s \in Segment : numbered'[s] = IF s = t THEN None ELSE numbered[s] BY <1>0, <1>2
<1>4. \A s, u \in Segment : numbered[s] = numbered[u] /\ numbered[s] # None => s = u
  BY DEF Ends, Apart
<1>5. Apart' BY <1>1, <1>3, <1>4 DEF Apart
<1>6. \A q \in Pipe : IsNumbered(q)' <=> (IsNumbered(q) /\ q # numbered[t])
  BY <1>0, <1>3, <1>4, NoPipeIsNone DEF IsNumbered
<1>7. \A q \in Pipe : (Rd(q) \in mine <=> IsNumbered(q)) /\ (Wr(q) \in mine <=> IsNumbered(q))
  BY <1>1, NoPipeIsNone DEF Ends, Owns
<1>8. \A q \in Pipe :
        /\ Rd(q) \in mine' <=> (IsNumbered(q) /\ q # numbered[t])
        /\ Wr(q) \in mine' <=> (IsNumbered(q) /\ q # numbered[t])
  <2>1. numbered[t] \in MaybePipe BY <1>0, <1>2
  <2>2. CASE numbered[t] = None BY <1>0, <1>7, <2>2, BothFacts, NoPipeIsNone
  <2>3. CASE numbered[t] \in Pipe BY <1>0, <1>7, <2>3, BothFacts
  <2> QED BY <2>1, <2>2, <2>3 DEF MaybePipe
<1>9. Owns' BY <1>1, <1>6, <1>8, NoPipeIsNone DEF Owns
<1> QED BY <1>5, <1>9 DEF Ends

(* Steps that leave numberedPipes, the shell's ends and what comes next as they are. *)
LEMMA EndsKept ==
    ASSUME Ends, numbered' = numbered, mine' = mine, line'.in = line.in,
           Forming' <=> Forming, Forming => line'.out = line.out
    PROVE  Ends'
<1>1. \A q : IsNumbered(q)' <=> IsNumbered(q) BY DEF IsNumbered
<1>2. line'.in # None => \A s \in Segment : numbered'[s] # line'.in BY DEF Ends, Apart, IsNumbered
<1>3. Forming' => line'.out # line'.in /\ \A s \in Segment : numbered'[s] # line'.out
  BY DEF Ends, Apart, IsNumbered
<1>4. Apart' BY <1>2, <1>3 DEF Ends, Apart, IsNumbered
<1>5. Owns' BY <1>1 DEF Ends, Owns
<1> QED BY <1>4, <1>5 DEF Ends

LEMMA EndsEndOfLine == ASSUME Typed, Ends, EndOfLine PROVE Ends'
<1>0. /\ pc = "command" /\ pc' = "wait" /\ line' = [line EXCEPT !.in = None]
      /\ mine' = mine \ {Rd(line.in)} /\ numbered' = numbered
  BY DEF EndOfLine
<1>1. line'.in = None BY <1>0, Parts DEF Typed, LineRecord
<1>2. ~Forming /\ ~Forming' BY <1>0 DEF Forming
<1>3. \A q : IsNumbered(q)' <=> IsNumbered(q) BY <1>0 DEF IsNumbered
<1>4. Apart' BY <1>0, <1>1, <1>2 DEF Ends, Apart
<1>5. line.in # None => ~IsNumbered(line.in) BY DEF Ends, Apart
<1>6. Owns'
  BY <1>0, <1>1, <1>2, <1>3, <1>5, EndFacts, NoPipeIsNone DEF Ends, Owns
<1> QED BY <1>4, <1>6 DEF Ends

LEMMA EndsStep == ASSUME Typed, Ends, [Next]_vars PROVE Ends'
<1>1. CASE Exit \/ (\E cmds \in Lines : Throw(cmds)) \/ GiveUp
  BY <1>1, EndsLeave DEF Exit, Throw, GiveUp, Ended
<1>2. CASE RunBuiltin BY <1>2, EndsBuiltin
<1>3. CASE \E cmds \in Lines : ReadLine(cmds)
  <2>1. /\ pc = "read" /\ pc' = "command" /\ line = NoLine /\ line'.in = None
        /\ numbered' = numbered /\ mine' = mine
    BY <1>3 DEF ReadLine, NoLine, Typed, UnderWay
  <2>2. ~Forming /\ ~Forming' /\ line.in = None BY <2>1 DEF Forming, NoLine
  <2> QED BY <2>1, <2>2, EndsKept
<1>4. CASE SkipEmpty
  <2>1. /\ pc = "command" /\ pc' = "command" /\ line' = [line EXCEPT !.i = @ + 1]
        /\ numbered' = numbered /\ mine' = mine
    BY <1>4 DEF SkipEmpty
  <2>2. line'.in = line.in BY <2>1, Parts DEF Typed, LineRecord
  <2> QED BY <2>1, <2>2, EndsKept, NotForming DEF Forming
<1>5. CASE Wait
  <2>1. /\ pc = "wait" /\ pc' = "read" /\ line' = NoLine /\ numbered' = numbered /\ mine' = mine
        /\ line.in = None
    BY <1>5 DEF Wait, Typed, UnderWay
  <2>2. ~Forming /\ ~Forming' /\ line'.in = None BY <2>1 DEF Forming, NoLine
  <2> QED BY <2>1, <2>2, EndsKept
<1>6. CASE EndOfLine BY <1>6, EndsEndOfLine
<1>7. CASE Prepare BY <1>7, EndsPrepare
<1>8. CASE OpenFails BY <1>8, EndsOpenFails
<1>9. CASE ForkFails \/ \E k \in Kid : ReapOne(k)
  <2>1. /\ pc \in {"fork", "reap"} /\ pc' \in {"fork", "reap"} /\ UNCHANGED <<line, numbered, mine>>
    BY <1>9 DEF ForkFails, ReapOne
  <2>2. Forming' <=> Forming BY <2>1 DEF Forming, PipesOrdinary, Current
  <2> QED BY <2>1, <2>2, EndsKept
<1>10. CASE \E k \in Kid : Fork(k) BY <1>10, EndsFork
<1>11. CASE ReapChildren \/ (\E k \in Kid : Work(k) \/ Quit(k)) \/ UNCHANGED vars
  <2>1. UNCHANGED <<pc, line, numbered, mine>>
    BY <1>11 DEF ReapChildren, Work, Take, Show, Put, BrokenPipe, Finish, Quit, shell, vars
  <2>2. Forming' <=> Forming BY <2>1 DEF Forming, PipesOrdinary, Current
  <2> QED BY <2>1, <2>2, EndsKept
<1> QED BY <1>1, <1>2, <1>3, <1>4, <1>5, <1>6, <1>7, <1>8, <1>9, <1>10, <1>11 DEF Next, Line

(* A child's ends are set by the fork, and change only when it ends. *)
LEMMA ChildEndsStep == ASSUME Typed, Ends, ChildEnds, [Next]_vars PROVE ChildEnds'
<1>1. CASE \E k \in Kid : Fork(k) BY <1>1, EndsFork
<1>2. CASE \E k \in Kid : Work(k) \/ Quit(k)
  <2>1. PICK k \in Kid : Work(k) \/ Quit(k) BY <1>2
  <2>2. \A j \in Kid : kid[j] \in KidRecord BY Parts DEF Typed
  <2>3. CASE EndKid(k) BY <2>2, <2>3, Parts DEF EndKid, NoKid, KidRecord, ChildEnds, Runs, Typed
  <2>4. CASE Take(k) \/ Show(k) \/ Put(k)
    <3>1. \E n : kid' = [kid EXCEPT ![k] = [kid[k] EXCEPT !.todo = n]]
      BY <2>4 DEF Take, Show, Put
    <3> QED BY <2>2, <3>1, Parts DEF KidRecord, ChildEnds, Runs, Typed
  <2> QED BY <2>1, <2>3, <2>4 DEF Work, BrokenPipe, Finish, Quit
<1>3. CASE kid' = kid \/ \E K : kid' = Reaped(K)
  BY <1>3 DEF ChildEnds, Runs, Reaped, NoKid
<1>4. \/ \E k \in Kid : Fork(k)
      \/ \E k \in Kid : Work(k) \/ Quit(k)
      \/ kid' = kid
      \/ \E K : kid' = Reaped(K)
  BY DEF Next, Line, Exit, RunBuiltin, ReadLine, Throw, Leave, SkipEmpty, Prepare, OpenFails,
         EndOfLine, Wait, ForkFails, GiveUp, ReapOne, ReapChildren, vars
<1> QED BY <1>1, <1>2, <1>3, <1>4

(* The segment of a command, counted. *)
LEMMA Counted ==
    ASSUME Typed, pc \in {"command", "fork", "reap", "wait"}
    PROVE  /\ Count(line.cmds, line.i - 1) \in Nat /\ Count(line.cmds, line.i) \in Nat
           /\ Here = executed + Count(line.cmds, line.i)
           /\ Count(line.cmds, line.i) =
                Count(line.cmds, line.i - 1) + (IF Starts(line.cmds, line.i) THEN 1 ELSE 0)
           /\ (line.i + 1) - 1 = line.i
<1>1. line.i - 1 \in Nat /\ (line.i - 1) + 1 = line.i /\ line.i \in Nat /\ (line.i + 1) - 1 = line.i
  BY Parts DEF Typed
<1>2. Here = executed + Count(line.cmds, line.i) BY DEF Here, SegmentOf, Count
<1> QED BY <1>1, <1>2, CountStep

(* The attachment takes the pipe of the segment that begins. *)
LEMMA AheadAttached ==
    ASSUME Typed, Ahead, pc = "command", line.i =< Len(line.cmds)
    PROVE  \A s \in Segment :
             AttachedPipes[s] # None => s > executed + Count(line.cmds, line.i)
<1>1. Done = executed + Count(line.cmds, line.i - 1) BY DEF Done
<1>2. Here \in Segment /\ numbered \in [Segment -> MaybePipe] /\ executed \in Nat
  BY CurrentTyped, Parts DEF Typed
<1>3. \A s \in Segment : numbered[s] # None => s \in Nat /\ s > Done BY DEF Ahead, Segment
<1>4. CASE Starts(line.cmds, line.i)
  <2>1. Here = Done + 1 /\ Done \in Nat BY <1>1, <1>2, <1>4, Counted
  <2>2. AttachedPipes[Here] = None /\ \A s \in Segment \ {Here} : AttachedPipes[s] = numbered[s]
    BY <1>2, <1>4 DEF AttachedPipes, Incoming
  <2>3. \A s \in Segment : AttachedPipes[s] # None => s > Here BY <1>3, <2>1, <2>2
  <2> QED BY <2>3, Counted
<1>5. CASE ~Starts(line.cmds, line.i)
  <2>1. AttachedPipes = numbered BY <1>5 DEF AttachedPipes, Incoming
  <2>2. Done = executed + Count(line.cmds, line.i) BY <1>1, <1>2, <1>5, Counted
  <2> QED BY <1>3, <2>1, <2>2
<1> QED BY <1>4, <1>5

LEMMA AheadPrepare == ASSUME Tidy, Typed, Ahead, Prepare PROVE Ahead'
<1>0. /\ pc = "command" /\ pc' = "fork" /\ line.i =< Len(line.cmds)
      /\ line'.cmds = line.cmds /\ line'.i = line.i /\ executed' = executed
  BY Planned, Parts DEF Typed, LineRecord
<1>1. Done' = executed + Count(line.cmds, line.i) BY <1>0 DEF Done, Count, Starts
<1>2. AttachedPipes \in [Segment -> MaybePipe] BY <1>0, AttachTyped
<1>3. CASE numbered' = AttachedPipes BY <1>0, <1>1, <1>3, AheadAttached DEF Ahead
<1>4. CASE \E q \in Pipe : ToNumbered(q) /\ numbered' # AttachedPipes
  <2>1. PICK q \in Pipe : ToNumbered(q) /\ numbered' # AttachedPipes BY <1>4
  <2>2. Current.next \in Nat /\ Here + Current.next \in Segment
    BY <1>0, <2>1, CurrentTyped DEF ToNumbered
  <2>3. Current.next # 0
    <3>1. line.cmds \in Lines /\ line.i \in 1 .. Len(line.cmds) BY <1>0, CurrentTyped
    <3> QED BY <3>1 DEF Tidy, Current
  <2>4. numbered' = [AttachedPipes EXCEPT ![Here + Current.next] = q]
    BY <2>1 DEF ToNumbered, TargetPipe
  <2>5. Here = executed + Count(line.cmds, line.i) /\ Here \in Nat
    BY <1>0, Counted, Parts DEF Typed
  <2>6. Here + Current.next > Here BY <2>2, <2>3, <2>5
  <2>7. \A s \in Segment : numbered'[s] # None => s > Here
    BY <1>0, <1>2, <2>4, <2>5, <2>6, AheadAttached
  <2> QED BY <1>1, <2>5, <2>7 DEF Ahead
<1>5. numbered' = AttachedPipes \/ \E q \in Pipe : ToNumbered(q)
  BY DEF Prepare, ToFile, ToStdout, ToOrdinary
<1> QED BY <1>3, <1>4, <1>5

LEMMA AheadStep == ASSUME Tidy, Typed, Ahead, [Next]_vars PROVE Ahead'
<1>0. \A c : Count(c, 0) = 0 BY CountStep
<1>00. executed \in Nat BY Parts DEF Typed
<1>1. CASE Exit \/ (\E cmds \in Lines : Throw(cmds)) \/ GiveUp
  BY <1>1, EndsLeave DEF Exit, Throw, GiveUp, Ended
<1>2. CASE RunBuiltin
  <2>1. /\ line = NoLine /\ line' = NoLine /\ pc = "read" /\ pc' = "read"
        /\ executed' = executed + 1 /\ numbered' = [numbered EXCEPT ![executed + 1] = None]
    BY <1>2 DEF RunBuiltin, DiscardIncoming, Typed, UnderWay
  <2>2. Done = executed /\ Done' = executed + 1
    <3>1. NoLine.i - 1 = 0 BY DEF NoLine
    <3>2. Done = executed + Count(line.cmds, 0) BY <2>1, <3>1 DEF Done
    <3>3. Done' = executed' + Count(line'.cmds, 0) BY <2>1, <3>1 DEF Done, Count, Starts
    <3> QED BY <1>0, <1>00, <2>1, <3>2, <3>3
  <2>3. \A s \in Segment : numbered'[s] # None => numbered[s] # None /\ s # executed + 1
    BY <2>1, Parts DEF Typed
  <2>4. \A s \in Segment : s \in Nat BY DEF Segment
  <2> QED BY <1>00, <2>2, <2>3, <2>4 DEF Ahead
<1>3. CASE \E cmds \in Lines : ReadLine(cmds)
  <2>1. /\ line = NoLine /\ line'.i = 1 /\ pc = "read" /\ pc' = "command"
        /\ executed' = executed /\ numbered' = numbered
    BY <1>3 DEF ReadLine, NoLine, Typed, UnderWay
  <2>2. Done = executed /\ Done' = executed
    <3>1. NoLine.i - 1 = 0 BY DEF NoLine
    <3>2. Done = executed + Count(line.cmds, 0) BY <2>1, <3>1 DEF Done
    <3>3. Done' = executed' + Count(line'.cmds, 0) BY <2>1 DEF Done, Count, Starts
    <3> QED BY <1>0, <1>00, <2>1, <3>2, <3>3
  <2> QED BY <2>1, <2>2 DEF Ahead
<1>4. CASE SkipEmpty
  <2>1. /\ pc = "command" /\ pc' = pc /\ line.i =< Len(line.cmds) /\ ~Current.argv
        /\ line'.i = line.i + 1 /\ line'.cmds = line.cmds /\ executed' = executed /\ numbered' = numbered
    BY <1>4, Parts DEF SkipEmpty, Typed, LineRecord
  <2>2. line.cmds \in Lines /\ line.i \in 1 .. Len(line.cmds) BY <2>1, CurrentTyped
  <2>3. ~Starts(line.cmds, line.i) BY <2>1, <2>2 DEF Tidy, Current
  <2>4. Done = executed + Count(line.cmds, line.i - 1) BY <2>1 DEF Done
  <2>5. Done' = executed + Count(line.cmds, line.i) BY <2>1, Counted DEF Done, Count, Starts
  <2>6. Done' = Done BY <2>1, <2>3, <2>4, <2>5, Counted
  <2> QED BY <2>1, <2>6 DEF Ahead
<1>5. CASE Prepare BY <1>5, AheadPrepare
<1>6. CASE OpenFails
  <2>1. /\ pc = "command" /\ pc' = pc /\ line.i =< Len(line.cmds)
        /\ line'.i = line.i + 1 /\ line'.cmds = line.cmds /\ executed' = executed
        /\ numbered' = AttachedPipes
    BY <1>6, Parts DEF OpenFails, Typed, LineRecord
  <2>2. Done' = executed + Count(line.cmds, line.i) BY <2>1, Counted DEF Done, Count, Starts
  <2> QED BY <2>1, <2>2, AheadAttached DEF Ahead
<1>7. CASE \E k \in Kid : Fork(k)
  <2>1. /\ pc = "fork" /\ pc' = "command" /\ line'.i = line.i + 1 /\ line'.cmds = line.cmds
        /\ executed' = executed /\ numbered' = numbered
    BY <1>7, Forked
  <2>2. Done = executed + Count(line.cmds, line.i) BY <2>1 DEF Done
  <2>3. Done' = executed + Count(line.cmds, line.i) BY <2>1, Counted DEF Done, Count, Starts
  <2> QED BY <2>1, <2>2, <2>3 DEF Ahead
<1>8. CASE ForkFails \/ \E k \in Kid : ReapOne(k)
  <2>1. pc \in {"fork", "reap"} /\ pc' \in {"fork", "reap"} /\ UNCHANGED <<line, executed, numbered>>
    BY <1>8 DEF ForkFails, ReapOne
  <2> QED BY <2>1 DEF Ahead, Done, Count, Starts
<1>9. CASE EndOfLine
  <2>1. /\ pc = "command" /\ pc' = "wait" /\ line'.i = line.i /\ line'.cmds = line.cmds
        /\ executed' = executed /\ numbered' = numbered
    BY <1>9, Parts DEF EndOfLine, Typed, LineRecord
  <2> QED BY <2>1 DEF Ahead, Done, Count, Starts
<1>10. CASE Wait
  <2>1. /\ pc = "wait" /\ pc' = "read" /\ line' = NoLine /\ numbered' = numbered
        /\ executed' = SegmentOf(line.cmds, Len(line.cmds)) /\ line.i = Len(line.cmds) + 1
    BY <1>10 DEF Wait, Typed, UnderWay
  <2>2. Len(line.cmds) \in Nat BY <2>1, CurrentTyped
  <2>3. line.i - 1 = Len(line.cmds) BY <2>1, <2>2
  <2>4. Done = executed + Count(line.cmds, Len(line.cmds)) BY <2>1, <2>3 DEF Done
  <2>5. executed' = Done /\ executed' \in Nat
    <3>1. executed' = executed + Count(line.cmds, Len(line.cmds)) BY <2>1 DEF SegmentOf, Count
    <3>2. Count(line.cmds, Len(line.cmds)) \in Nat BY <2>2, CountStep
    <3> QED BY <1>00, <2>4, <3>1, <3>2
  <2>6. Done' = executed' + Count(line'.cmds, 0)
    <3>1. NoLine.i - 1 = 0 BY DEF NoLine
    <3> QED BY <2>1, <3>1 DEF Done, Count, Starts
  <2>7. Done' = Done BY <1>0, <2>5, <2>6
  <2> QED BY <2>1, <2>7 DEF Ahead
<1>11. CASE ReapChildren \/ (\E k \in Kid : Work(k) \/ Quit(k)) \/ UNCHANGED vars
  <2>1. UNCHANGED <<pc, line, executed, numbered>>
    BY <1>11 DEF ReapChildren, Work, Take, Show, Put, BrokenPipe, Finish, Quit, shell, vars
  <2> QED BY <2>1 DEF Ahead, Done, Count, Starts
<1> QED BY <1>1, <1>2, <1>3, <1>4, <1>5, <1>6, <1>7, <1>8, <1>9, <1>10, <1>11 DEF Next, Line

LEMMA EndsInit == Init => Ends /\ ChildEnds /\ Ahead
<1> SUFFICES ASSUME Init PROVE Ends /\ ChildEnds /\ Ahead OBVIOUS
<1>1. pc = "read" /\ line.in = None /\ mine = {} /\ \A s \in Segment : numbered[s] = None
  BY DEF Init, NoLine
<1>2. ~Forming BY <1>1 DEF Forming
<1>3. Apart BY <1>1, <1>2 DEF Apart
<1>4. Owns BY <1>1, <1>2, NoPipeIsNone DEF Owns, IsNumbered
<1>5. ChildEnds BY DEF Init, ChildEnds, Runs, NoKid
<1>6. Ahead BY <1>1 DEF Ahead
<1> QED BY <1>3, <1>4, <1>5, <1>6 DEF Ends

(* At a prompt nothing is under way: the shell's ends are those of numberedPipes. *)
LEMMA EndsAtPrompt == ASSUME Typed, Ends, ChildEnds, Ahead PROVE IntendedEnds
<1>1. ASSUME pc = "read" PROVE mine = NumberedEnds /\ \A s \in Segment : numbered[s] # None => s > executed
  <2>1. line = NoLine /\ line.in = None /\ ~Forming BY <1>1 DEF Typed, UnderWay, NoLine, Forming
  <2>2. \A q \in Pipe : (Rd(q) \in mine <=> IsNumbered(q)) /\ (Wr(q) \in mine <=> IsNumbered(q))
    BY <2>1, NoPipeIsNone DEF Ends, Owns
  <2>3. mine \subseteq End /\ numbered \in [Segment -> MaybePipe] BY Parts DEF Typed
  <2>4. \A q \in Pipe :
          (Rd(q) \in NumberedEnds <=> IsNumbered(q)) /\ (Wr(q) \in NumberedEnds <=> IsNumbered(q))
    BY <2>3, BothFacts DEF NumberedEnds, IsNumbered, MaybePipe
  <2>5. NumberedEnds \subseteq End BY DEF NumberedEnds, BothEnds
  <2>6. mine = NumberedEnds BY <2>2, <2>3, <2>4, <2>5, EndFacts
  <2>7. Done = executed
    <3>1. NoLine.i - 1 = 0 BY DEF NoLine
    <3>2. Done = executed + Count(line.cmds, 0) BY <1>1, <2>1, <3>1 DEF Done
    <3>3. executed \in Nat BY Parts DEF Typed
    <3> QED BY <3>2, <3>3, CountStep
  <2> QED BY <2>6, <2>7 DEF Ahead
<1> QED BY <1>1 DEF IntendedEnds, ChildEnds

(* With Tidy lines a child holds the ends it reads and writes and no others, and between  *)
(* lines the shell holds those of the numbered pipes still due: what closeChildIo,        *)
(* closeAllNumberedPipesInChild and closeParentIo are for.                                *)
THEOREM EndsAreIntended == ASSUME Tidy PROVE Spec => []IntendedEnds
<1> DEFINE IInv == Typed /\ Ends /\ ChildEnds /\ Ahead
<1>1. Init => IInv BY TypeInit, EndsInit
<1>2. IInv /\ [Next]_vars => IInv' BY TypeStep, EndsStep, ChildEndsStep, AheadStep
<1>3. IInv => IntendedEnds BY EndsAtPrompt
<1> QED BY <1>1, <1>2, <1>3, PTL DEF Spec

-----------------------------------------------------------------------------
(***************************************************************************)
(* PromptIsLast.  A command that prints is one that its line waits for.    *)
(***************************************************************************)

Printing(k) == Runs(k) /\ kid[k].out = None

(* What is waited for, and which plans print. *)
Awaited ==
    /\ pc \notin Ended => \A k \in Kid : Printing(k) => k \in line.waits
    /\ pc \in {"fork", "reap"} /\ line.out = None => Current.next = NoPipe

(* A command at the end of its segment is where buildWaitability looks. *)
LEMMA LastIsWaitable ==
    ASSUME NEW cmds \in Lines, NEW i \in 1 .. Len(cmds), cmds[i].next = NoPipe
    PROVE  Waitable(cmds, i)
<1> DEFINE Fits(e) == /\ e = Len(cmds) \/ cmds[e].next # Ordinary
                      /\ \A j \in i .. e - 1 : cmds[j].next = Ordinary
<1>1. Len(cmds) \in Nat BY Lengths
<1>2. i \in i .. Len(cmds) /\ Fits(i) BY <1>1 DEF NoPipe, Ordinary
<1>3. ASSUME NEW e \in i .. Len(cmds), Fits(e) PROVE e = i
  <2>1. e > i => i \in i .. e - 1 BY <1>1, <1>3
  <2> QED BY <1>1, <1>3, <2>1 DEF NoPipe, Ordinary
<1>4. EndOfSegment(cmds, i) = CHOOSE e \in i .. Len(cmds) : Fits(e) BY DEF EndOfSegment
<1> HIDE DEF Fits
<1>5. EndOfSegment(cmds, i) = i BY <1>2, <1>3, <1>4
<1> QED BY <1>5 DEF Waitable, NoPipe

LEMMA AwaitedFork == ASSUME Typed, Awaited, NEW k \in Kid, Fork(k) PROVE Awaited'
<1>1. /\ pc = "fork" /\ pc' = "command" /\ line.i \in 1 .. Len(line.cmds) /\ line.cmds \in Lines
      /\ kid' = [kid EXCEPT ![k] = NewKid]
  BY Forked, CurrentTyped
<1> DEFINE waitable == Waitable(line.cmds, line.i)
<1>2. line'.waits = IF waitable THEN line.waits \union {k} ELSE line.waits
  <2>1. line' = [line EXCEPT !.i = @ + 1, !.in = IF PipesOrdinary THEN line.out ELSE None, !.out = None,
                             !.waits = IF waitable THEN @ \union {k} ELSE @,
                             !.back = IF waitable THEN @ ELSE @ \union {k}]
    BY DEF Fork
  <2> HIDE DEF waitable
  <2> QED BY <2>1, Parts DEF Typed, LineRecord
<1>3. line.out = None => waitable
  <2>1. line.out = None => Current.next = NoPipe BY <1>1 DEF Awaited
  <2> QED BY <1>1, <2>1, LastIsWaitable DEF Current
<1> HIDE DEF waitable
<1>4. ASSUME NEW j \in Kid, Printing(j)' PROVE j \in line'.waits
  <2>1. CASE j = k
    <3>1. kid'[k] = NewKid BY <1>1, Parts DEF Typed
    <3>2. line.out = None BY <1>4, <2>1, <3>1 DEF Printing, NewKid
    <3> QED BY <1>2, <1>3, <2>1, <3>2
  <2>2. CASE j # k
    <3>1. kid'[j] = kid[j] BY <1>1, <2>2, Parts DEF Typed
    <3>2. Printing(j) BY <1>4, <3>1 DEF Printing, Runs
    <3> QED BY <1>1, <1>2, <3>2 DEF Awaited, Ended
  <2> QED BY <2>1, <2>2
<1> QED BY <1>1, <1>4 DEF Awaited

(* Nobody begins to print but by a fork. *)
LEMMA NoNewPrinter ==
    ASSUME Typed, [Next]_vars, ~\E k \in Kid : Fork(k), NEW j \in Kid, Printing(j)'
    PROVE  Printing(j)
<1>1. CASE \E k \in Kid : Work(k) \/ Quit(k)
  <2>1. PICK k \in Kid : Work(k) \/ Quit(k) BY <1>1
  <2>2. \A i \in Kid : kid[i] \in KidRecord BY Parts DEF Typed
  <2>3. CASE EndKid(k) BY <2>2, <2>3, Parts DEF EndKid, NoKid, KidRecord, Printing, Runs, Typed
  <2>4. CASE Take(k) \/ Show(k) \/ Put(k)
    <3>1. \E n : kid' = [kid EXCEPT ![k] = [kid[k] EXCEPT !.todo = n]]
      BY <2>4 DEF Take, Show, Put
    <3> QED BY <2>2, <3>1, Parts DEF KidRecord, Printing, Runs, Typed
  <2> QED BY <2>1, <2>3, <2>4 DEF Work, BrokenPipe, Finish, Quit
<1>2. CASE kid' = kid \/ \E K : kid' = Reaped(K)
  BY <1>2 DEF Printing, Runs, Reaped, NoKid
<1>3. \/ \E k \in Kid : Work(k) \/ Quit(k)
      \/ kid' = kid
      \/ \E K : kid' = Reaped(K)
  BY DEF Next, Line, Exit, RunBuiltin, ReadLine, Throw, Leave, SkipEmpty, Prepare, OpenFails,
         EndOfLine, Wait, ForkFails, GiveUp, ReapOne, ReapChildren, vars
<1> QED BY <1>1, <1>2, <1>3

LEMMA AwaitedPrepare == ASSUME Typed, Awaited, Prepare PROVE Awaited'
<1>1. PICK out \in Sink : line' = [line EXCEPT !.in = InFd, !.out = out] BY Planned
<1>2. /\ line'.waits = line.waits /\ line'.cmds = line.cmds /\ line'.i = line.i /\ line'.out = out
      /\ pc = "command" /\ pc' = "fork" /\ kid' = kid
  BY <1>1, Planned, Parts DEF Typed, LineRecord
<1>3. out = None => Current.next = NoPipe
  <2>1. CASE ToStdout BY <2>1 DEF ToStdout
  <2>2. CASE ToFile
    <3>1. line'.out = File BY <2>2, Parts DEF ToFile, Typed, LineRecord
    <3>2. File # None BY DEF File, None
    <3> QED BY <1>2, <3>1, <3>2
  <2>3. CASE \E q \in Pipe : ToOrdinary(q) \/ ToNumbered(q)
    <3>1. PICK q \in Pipe : ToOrdinary(q) \/ ToNumbered(q) BY <2>3
    <3>2. line' = [line EXCEPT !.in = InFd, !.out = q] BY <3>1 DEF ToOrdinary, ToNumbered, Create
    <3>3. line'.out = q BY <3>2, Parts DEF Typed, LineRecord
    <3> QED BY <1>2, <3>3, NoPipeIsNone
  <2> QED BY <2>1, <2>2, <2>3 DEF Prepare
<1> QED BY <1>2, <1>3 DEF Awaited, Printing, Runs, Current, Ended

LEMMA AwaitedStep == ASSUME Typed, Awaited, [Next]_vars PROVE Awaited'
<1>1. CASE Exit \/ (\E cmds \in Lines : Throw(cmds)) \/ GiveUp
  BY <1>1 DEF Exit, Throw, GiveUp, Leave, Awaited, Ended
<1>2. CASE Prepare BY <1>2, AwaitedPrepare
<1>3. CASE \E k \in Kid : Fork(k) BY <1>3, AwaitedFork
<1>4. CASE Wait
  <2>1. /\ pc = "wait" /\ pc' = "read" /\ (\A k \in line.waits : ~Runs(k))
        /\ kid' = Reaped(line.waits \union line.back)
    BY <1>4 DEF Wait
  <2>2. \A k \in Kid : ~Printing(k) BY <2>1 DEF Awaited, Printing, Ended
  <2>3. \A k \in Kid : ~Printing(k)' BY <2>1, <2>2 DEF Printing, Runs, Reaped, NoKid
  <2> QED BY <2>1, <2>3 DEF Awaited
<1>5. CASE /\ UNCHANGED <<pc, line>>
           /\ ~\E k \in Kid : Fork(k)
  BY <1>5, NoNewPrinter DEF Awaited, Current
<1>6. CASE ForkFails \/ \E k \in Kid : ReapOne(k)
  <2>1. pc \in {"fork", "reap"} /\ pc' \in {"fork", "reap"} /\ line' = line
    BY <1>6 DEF ForkFails, ReapOne
  <2>2. \A k \in Kid : Printing(k)' => Printing(k)
    BY <1>6 DEF ForkFails, ReapOne, Reaped, NoKid, Printing, Runs
  <2> QED BY <2>1, <2>2 DEF Awaited, Current, Ended
<1>7. CASE SkipEmpty \/ OpenFails \/ EndOfLine
  <2>1. /\ pc = "command" /\ pc' \in {"command", "wait"} /\ kid' = kid
        /\ line'.waits = line.waits
    BY <1>7, Parts DEF SkipEmpty, OpenFails, EndOfLine, Typed, LineRecord
  <2> QED BY <2>1 DEF Awaited, Printing, Runs, Ended
<1>8. CASE \E cmds \in Lines : ReadLine(cmds)
  <2>1. /\ pc = "read" /\ pc' = "command" /\ kid' = kid /\ line = NoLine /\ line'.waits = {}
    BY <1>8 DEF ReadLine, NoLine, Typed, UnderWay
  <2> QED BY <2>1 DEF Awaited, Printing, Runs, Ended, NoLine
<1>9. CASE RunBuiltin \/ ReapChildren \/ (\E k \in Kid : Work(k) \/ Quit(k)) \/ UNCHANGED vars
  <2>1. UNCHANGED <<pc, line>>
    BY <1>9 DEF RunBuiltin, ReapChildren, Work, Take, Show, Put, BrokenPipe, Finish, Quit, shell, vars
  <2>2. CASE \E k \in Kid : Fork(k) BY <2>2, AwaitedFork
  <2> QED BY <1>5, <2>1, <2>2
<1> QED BY <1>1, <1>2, <1>3, <1>4, <1>6, <1>7, <1>8, <1>9 DEF Next, Line

(* Nothing is printed behind the prompt, for any lines: what still runs then writes to    *)
(* pipes and files, since buildWaitability waits for every command without one.           *)
THEOREM NothingBehindPrompt == Spec => []PromptIsLast
<1> DEFINE IInv == Typed /\ Awaited
<1>1. Init => IInv
  <2>1. Init => Awaited BY DEF Init, Awaited, Printing, Runs, NoKid
  <2> QED BY <2>1, TypeInit
<1>2. IInv /\ [Next]_vars => IInv' BY TypeStep, AwaitedStep
<1>3. IInv => PromptIsLast
  BY DEF Awaited, Printing, PromptIsLast, Typed, UnderWay, NoLine, Ended
<1> QED BY <1>1, <1>2, <1>3, PTL DEF Spec

-----------------------------------------------------------------------------
(***************************************************************************)
(* EverythingArrives.  Every pipe that somebody reads, or will read, leads *)
(* to one command; whoever writes into it is aimed there, and what it has  *)
(* been sent is what it has read and what the pipe holds.  The places of   *)
(* commands that are still to come lie beyond the front.                   *)
(***************************************************************************)

(* Tidy, and a command is missing only between ordinary pipes or at the end of a line.   *)
Orderly ==
    /\ Tidy
    /\ \A l \in Lines : \A i \in 1 .. Len(l) : ~l[i].argv => l[i].next = Ordinary \/ i = Len(l)

Ready == pc \in {"fork", "reap"}
After(p) == <<p[1], p[2] + 1>>

(* The place of the next command, if it is in the segment under way. *)
Front ==
    IF Ready THEN PlaceOf(line.cmds, line.i)
    ELSE IF pc = "command" /\ line.i > 1 THEN After(PlaceOf(line.cmds, line.i - 1))
    ELSE IF pc = "wait" THEN <<SegmentOf(line.cmds, Len(line.cmds)) + 1, 1>>
    ELSE <<executed + 1, 1>>

NotBefore(p, f) == p[1] > f[1] \/ (p[1] = f[1] /\ p[2] >= f[2])
Beyond(p) == NotBefore(p, Front)

(* The plan of a command that is about to be forked, whom the next command reads, and     *)
(* what is left when the shell has ended.                                                 *)
Plans ==
    /\ pc = "command" /\ line.in # None /\ line.i =< Len(line.cmds) => ~Starts(line.cmds, line.i)
    /\ pc \in Ended => \A t \in Segment : numbered[t] = None
    /\ Ready =>
         /\ Current.redirect # "fails"
         /\ line.out \in Pipe => Current.redirect = "no" /\ Current.next # NoPipe
         /\ Current.redirect = "no" /\ Current.next \in Nat =>
              line.out \in Pipe /\ numbered[Here + Current.next] = line.out

(* Pipe q leads to place p. *)
FeedsKid(q, p) == \E k \in Kid : Runs(k) /\ kid[k].in = q /\ kid[k].at = p
FeedsDue(q, p) == \E s \in Segment : numbered[s] = q /\ p = <<s, 1>>
FeedsNext(q, p) == line.in = q /\ p = Front
FeedsNew(q, p) == Forming /\ line.out = q /\ p = After(Front)
Feeds(q, p) == FeedsKid(q, p) \/ FeedsDue(q, p) \/ FeedsNext(q, p) \/ FeedsNew(q, p)

Aimed(p) == \E k \in Kid : Runs(k) /\ kid[k].aim = p
Reads(p) == \E k \in Kid : Runs(k) /\ kid[k].at = p
IsFed(p) == \E q \in Pipe : Feeds(q, p)

OneToOne ==
    /\ \A q \in Pipe : \A p, r : Feeds(q, p) /\ Feeds(q, r) => p = r
    /\ \A q, t \in Pipe : \A p : Feeds(q, p) /\ Feeds(t, p) => q = t
    /\ \A j, k \in Kid : Runs(j) /\ Runs(k) /\ kid[j].at = kid[k].at => j = k
AimedWell ==
    \A k \in Kid, q \in Pipe : \A p : Runs(k) /\ Feeds(q, p) =>
        /\ kid[k].out = q => kid[k].aim = p
        /\ kid[k].aim = p /\ p \in Place => kid[k].out = q
NothingLost ==
    \A q \in Pipe, p \in Place : Feeds(q, p) => sent[p] = got[p] + content[q] /\ p \notin atEnd
Settled == \A p \in atEnd : got[p] = sent[p] /\ ~Aimed(p)
UnfedAt(p) == sent[p] = got[p] /\ \A j \in Kid : Runs(j) => kid[j].aim # p
Unfed == \A k \in Kid : Runs(k) /\ kid[k].in = None => UnfedAt(kid[k].at)
Untouched ==
    pc \notin Ended => \A p \in Place : Beyond(p) =>
        /\ got[p] = 0 /\ p \notin atEnd /\ ~Reads(p)
        /\ ~IsFed(p) => sent[p] = 0 /\ ~Aimed(p)
Streams == OneToOne /\ AimedWell /\ NothingLost /\ Settled /\ Unfed /\ Untouched

(* How places are numbered along a line. *)
LEMMA SegmentStep ==
    ASSUME NEW cmds, NEW i \in Nat \ {0}, executed \in Nat
    PROVE  /\ SegmentOf(cmds, i) \in Nat \ {0}
           /\ SegmentOf(cmds, i + 1) = SegmentOf(cmds, i) + (IF Starts(cmds, i + 1) THEN 1 ELSE 0)
           /\ SegmentOf(cmds, i) = executed + Count(cmds, i)
           /\ SegmentOf(cmds, 1) = executed + 1
<1>1. \A n \in Nat : SegmentOf(cmds, n) = executed + Count(cmds, n) BY DEF SegmentOf, Count
<1>2. Count(cmds, i) \in Nat \ {0} BY Positive
<1>3. Count(cmds, i + 1) = Count(cmds, i) + (IF Starts(cmds, i + 1) THEN 1 ELSE 0) BY CountStep
<1>4. Count(cmds, 1) = 1
  <2>1. Count(cmds, 0 + 1) = Count(cmds, 0) + (IF Starts(cmds, 0 + 1) THEN 1 ELSE 0) /\ Count(cmds, 0) = 0
    BY CountStep
  <2> QED BY <2>1 DEF Starts
<1>5. i + 1 \in Nat /\ 1 \in Nat OBVIOUS
<1>6. SegmentOf(cmds, i) = executed + Count(cmds, i) /\ SegmentOf(cmds, i + 1) = executed + Count(cmds, i + 1)
      /\ SegmentOf(cmds, 1) = executed + Count(cmds, 1)
  BY <1>1, <1>5
<1> QED BY <1>2, <1>3, <1>4, <1>6

LEMMA SegmentsGrow ==
    ASSUME NEW cmds, NEW i \in Nat \ {0}, NEW j \in 1 .. i, executed \in Nat
    PROVE  SegmentOf(cmds, j) =< SegmentOf(cmds, i)
<1> DEFINE S(n) == {m \in 1 .. n : Starts(cmds, m)}
<1>1. IsFiniteSet(S(i)) /\ Cardinality(S(i)) \in Nat BY CountSet
<1>2. S(j) \subseteq S(i) OBVIOUS
<1> HIDE DEF S
<1>3. Cardinality(S(j)) =< Cardinality(S(i)) /\ IsFiniteSet(S(j)) BY <1>1, <1>2, FS_Subset
<1>4. Cardinality(S(j)) \in Nat BY <1>3, FS_CardinalityType
<1>5. SegmentOf(cmds, j) = executed + Cardinality(S(j)) /\ SegmentOf(cmds, i) = executed + Cardinality(S(i))
  BY DEF SegmentOf, S
<1> QED BY <1>1, <1>3, <1>4, <1>5

(* The commands with words that precede and are in the same segment. *)
Words(cmds, i) == {j \in 1 .. i : cmds[j].argv /\ SegmentOf(cmds, j) = SegmentOf(cmds, i)}

LEMMA WordsFinite ==
    ASSUME NEW cmds, NEW i \in Nat
    PROVE  IsFiniteSet(Words(cmds, i)) /\ Cardinality(Words(cmds, i)) \in Nat
<1>1. IsFiniteSet(1 .. i) BY FS_Interval
<1>2. Words(cmds, i) \subseteq 1 .. i BY DEF Words
<1>3. IsFiniteSet(Words(cmds, i)) BY <1>1, <1>2, FS_Subset
<1> QED BY <1>3, FS_CardinalityType

LEMMA PlaceGoesOn ==
    ASSUME NEW cmds, NEW i \in Nat \ {0}, executed \in Nat, ~Starts(cmds, i + 1)
    PROVE  PlaceOf(cmds, i + 1) = IF cmds[i + 1].argv THEN After(PlaceOf(cmds, i)) ELSE PlaceOf(cmds, i)
<1>1. SegmentOf(cmds, i + 1) = SegmentOf(cmds, i) BY SegmentStep
<1>2. 1 .. i + 1 = (1 .. i) \union {i + 1} /\ i + 1 \notin 1 .. i OBVIOUS
<1>3. i \in Nat OBVIOUS
<1>4. IsFiniteSet(Words(cmds, i)) /\ Cardinality(Words(cmds, i)) \in Nat BY <1>3, WordsFinite
<1>5. /\ PlaceOf(cmds, i) = <<SegmentOf(cmds, i), Cardinality(Words(cmds, i))>>
      /\ PlaceOf(cmds, i + 1) = <<SegmentOf(cmds, i + 1), Cardinality(Words(cmds, i + 1))>>
  BY DEF PlaceOf, Words
<1>6. CASE cmds[i + 1].argv
  <2>1. Words(cmds, i + 1) = Words(cmds, i) \union {i + 1} BY <1>1, <1>2, <1>6 DEF Words
  <2>2. i + 1 \notin Words(cmds, i) BY <1>2 DEF Words
  <2>3. Cardinality(Words(cmds, i + 1)) = Cardinality(Words(cmds, i)) + 1
    BY <1>4, <2>1, <2>2, FS_AddElement
  <2> QED BY <1>1, <1>5, <1>6, <2>3 DEF After
<1>7. CASE ~cmds[i + 1].argv
  <2>1. Words(cmds, i + 1) = Words(cmds, i) BY <1>1, <1>2, <1>7 DEF Words
  <2> QED BY <1>1, <1>5, <1>7, <2>1
<1> QED BY <1>6, <1>7

LEMMA PlaceStarts ==
    ASSUME NEW cmds, NEW i \in Nat \ {0}, executed \in Nat, Starts(cmds, i), cmds[i].argv
    PROVE  PlaceOf(cmds, i) = <<SegmentOf(cmds, i), 1>>
<1>1. ASSUME NEW j \in 1 .. i, j # i PROVE SegmentOf(cmds, j) # SegmentOf(cmds, i)
  <2>1. i - 1 \in Nat \ {0} /\ j \in 1 .. i - 1 /\ j \in Nat \ {0} /\ (i - 1) + 1 = i BY <1>1
  <2>2. SegmentOf(cmds, j) =< SegmentOf(cmds, i - 1) BY <2>1, SegmentsGrow
  <2>3. SegmentOf(cmds, i) = SegmentOf(cmds, i - 1) + 1 /\ SegmentOf(cmds, i - 1) \in Nat
    BY <2>1, SegmentStep
  <2>4. SegmentOf(cmds, j) \in Nat BY <2>1, SegmentStep
  <2> QED BY <2>2, <2>3, <2>4
<1>2. Words(cmds, i) = {i} BY <1>1 DEF Words
<1>3. Cardinality({i}) = 1 BY FS_Singleton
<1> QED BY <1>2, <1>3 DEF PlaceOf, Words

LEMMA Order ==
    \A f, g, p \in Nat \X Nat : NotBefore(g, f) /\ NotBefore(p, g) => NotBefore(p, f)
BY DEF NotBefore

LEMMA PlaceIsPair == ASSUME NEW p \in Place PROVE p \in Nat \X Nat /\ p[1] >= 1 /\ p[2] >= 1
BY BoundAssumption DEF Place, Segment

(* What PlaceOf says stays as long as no line ends. *)
LEMMA SameNumbers ==
    ASSUME executed' = executed, NEW c, NEW i
    PROVE  PlaceOf(c, i)' = PlaceOf(c, i) /\ SegmentOf(c, i)' = SegmentOf(c, i)
BY DEF PlaceOf, SegmentOf, Starts

(* The front, wherever the shell is. *)
LEMMA Fronts ==
    ASSUME Typed
    PROVE  /\ Front \in Nat \X Nat /\ Front[1] >= 1
           /\ Ready => Front = PlaceOf(line.cmds, line.i) /\ Front \in Place /\ Front[1] = Here
           /\ pc = "command" /\ line.i = 1 => Front = <<executed + 1, 1>>
           /\ pc = "command" /\ line.i > 1 => Front = After(PlaceOf(line.cmds, line.i - 1))
           /\ pc = "wait" => Front = <<SegmentOf(line.cmds, Len(line.cmds)) + 1, 1>>
           /\ pc = "read" => Front = <<executed + 1, 1>>
<1>1. TypeOK /\ executed \in Nat BY Parts DEF Typed
<1>2. CASE Ready
  <2>1. line.i =< Len(line.cmds) /\ Current.argv /\ pc \in {"fork", "reap"}
    BY <1>2 DEF Typed, UnderWay, Ready
  <2>2. line.i \in 1 .. Len(line.cmds) /\ line.cmds \in Lines /\ WithinBound(line.cmds)
    BY <2>1, CurrentTyped
  <2>3. Front = PlaceOf(line.cmds, line.i) BY <1>2 DEF Front
  <2>4. Front \in Place BY <1>1, <2>1, <2>2, <2>3, Places DEF Current
  <2>5. Front[1] = Here BY <2>3 DEF PlaceOf, Here
  <2> QED BY <1>2, <2>1, <2>3, <2>4, <2>5, PlaceIsPair
<1>3. CASE pc = "command" /\ line.i > 1
  <2>1. line.i - 1 \in 1 .. Len(line.cmds) /\ line.cmds \in Lines /\ WithinBound(line.cmds)
    BY <1>3, CurrentTyped
  <2>2. Front = After(PlaceOf(line.cmds, line.i - 1)) /\ ~Ready BY <1>3 DEF Front, Ready
  <2>3. PlaceOf(line.cmds, line.i - 1) \in Segment \X Nat BY <1>1, <2>1, Places
  <2> QED BY <1>1, <1>3, <2>2, <2>3, Parts DEF After, Segment
<1>4. CASE pc = "wait"
  <2>1. Len(line.cmds) \in 1 .. Len(line.cmds) /\ line.cmds \in Lines /\ WithinBound(line.cmds)
    BY <1>4, CurrentTyped
  <2>2. SegmentOf(line.cmds, Len(line.cmds)) \in Segment BY <1>1, <2>1, Segments
  <2>3. Front = <<SegmentOf(line.cmds, Len(line.cmds)) + 1, 1>> BY <1>4 DEF Front, Ready
  <2> QED BY <1>1, <1>4, <2>2, <2>3, Parts DEF Segment, Ready
<1>5. CASE ~Ready /\ ~(pc = "command" /\ line.i > 1) /\ pc # "wait"
  <2>1. Front = <<executed + 1, 1>> BY <1>5 DEF Front
  <2> QED BY <1>1, <1>5, <2>1, Parts
<1> QED BY <1>2, <1>3, <1>4, <1>5

(* The place of the next command with words is at the front, or in the segment behind it. *)
LEMMA FrontPlace ==
    ASSUME Typed, pc = "command", line.i =< Len(line.cmds), Current.argv
    PROVE  LET P == PlaceOf(line.cmds, line.i) IN
           /\ P \in Place /\ P[1] = Here /\ NotBefore(P, Front)
           /\ ~Starts(line.cmds, line.i) => P = Front
           /\ Starts(line.cmds, line.i) => P = <<Here, 1>> /\ Front[1] =< Here
                                           /\ (line.i > 1 => Front[1] < Here)
           /\ Here = executed + Count(line.cmds, line.i)
<1> DEFINE P == PlaceOf(line.cmds, line.i)
<1>1. TypeOK /\ executed \in Nat BY Parts DEF Typed
<1>2. line.i \in 1 .. Len(line.cmds) /\ line.cmds \in Lines /\ WithinBound(line.cmds) /\ line.i \in Nat \ {0}
  BY CurrentTyped
<1>3. P \in Place BY <1>1, <1>2, Places DEF Current
<1>4. P[1] = Here BY DEF PlaceOf, Here
<1>5. Here = executed + Count(line.cmds, line.i) /\ Here \in Nat \ {0}
  BY <1>1, <1>2, SegmentStep DEF Here
<1>6. CASE line.i = 1
  <2>1. Front = <<executed + 1, 1>> BY <1>6, Fronts
  <2>2. Starts(line.cmds, line.i) BY <1>6 DEF Starts
  <2>3. P = <<Here, 1>> BY <1>1, <1>2, <2>2, PlaceStarts DEF Current, Here
  <2>4. Here = executed + 1 BY <1>1, <1>2, <1>6, SegmentStep DEF Here
  <2> QED BY <1>1, <1>3, <1>4, <1>5, <1>6, <2>1, <2>2, <2>3, <2>4 DEF NotBefore
<1>7. CASE line.i > 1
  <2>1. Front = After(PlaceOf(line.cmds, line.i - 1)) BY <1>7, Fronts
  <2>2. line.i - 1 \in Nat \ {0} /\ (line.i - 1) + 1 = line.i /\ line.i - 1 \in 1 .. Len(line.cmds)
    BY <1>2, <1>7
  <2>3. PlaceOf(line.cmds, line.i - 1) \in Segment \X Nat BY <1>1, <1>2, <2>2, Places
  <2>4. PlaceOf(line.cmds, line.i - 1)[1] = SegmentOf(line.cmds, line.i - 1) BY DEF PlaceOf
  <2>5. CASE ~Starts(line.cmds, line.i)
    <3>1. P = After(PlaceOf(line.cmds, line.i - 1)) BY <1>1, <2>2, <2>5, PlaceGoesOn DEF Current
    <3> HIDE DEF P
    <3>2. NotBefore(P, Front) BY <1>3, <2>1, <3>1, PlaceIsPair DEF NotBefore
    <3> QED BY <1>3, <1>4, <1>5, <2>1, <2>5, <3>1, <3>2 DEF P
  <2>6. CASE Starts(line.cmds, line.i)
    <3>1. P = <<Here, 1>> BY <1>1, <1>2, <2>6, PlaceStarts DEF Current, Here
    <3>2. Here = SegmentOf(line.cmds, line.i - 1) + 1 BY <1>1, <2>2, <2>6, SegmentStep DEF Here
    <3>3. Front[1] = SegmentOf(line.cmds, line.i - 1) /\ Front[1] \in Nat
      BY <2>1, <2>4, Fronts DEF After
    <3>4. Front[1] < Here BY <3>2, <3>3
    <3>5. NotBefore(P, Front) BY <1>5, <3>1, <3>3, <3>4 DEF NotBefore
    <3> HIDE DEF P
    <3> QED BY <1>3, <1>4, <1>5, <2>6, <3>1, <3>3, <3>4, <3>5 DEF P
  <2> QED BY <2>5, <2>6
<1> QED BY <1>2, <1>6, <1>7

(* Nobody starts or stops running. *)
SameKids ==
    /\ \A k \in Kid : Runs(k)' <=> Runs(k)
    /\ \A k \in Kid : Runs(k) => kid'[k] = kid[k]

LEMMA SameKidsFeed ==
    ASSUME SameKids
    PROVE  /\ \A q, p : FeedsKid(q, p)' <=> FeedsKid(q, p)
           /\ \A p : (Aimed(p)' <=> Aimed(p)) /\ (Reads(p)' <=> Reads(p))
BY DEF SameKids, FeedsKid, Aimed, Reads

(* A step that reaps children or moves the shell, without a new pipe: pipes may stop to   *)
(* lead anywhere, but not to a place that is still to come.                               *)
LEMMA StreamsKept ==
    ASSUME Streams, SameKids, UNCHANGED <<content, sent, got, atEnd>>,
           \A q \in Pipe : \A p : Feeds(q, p)' => Feeds(q, p),
           pc' \notin Ended =>
             /\ pc \notin Ended
             /\ \A p \in Place : Beyond(p)' =>
                  Beyond(p) /\ \A q \in Pipe : Feeds(q, p) => Feeds(q, p)'
    PROVE  Streams'
<1>1. \A p : (Aimed(p)' <=> Aimed(p)) /\ (Reads(p)' <=> Reads(p)) BY SameKidsFeed
<1>2. OneToOne' BY DEF Streams, OneToOne, SameKids
<1>3. AimedWell' BY DEF Streams, AimedWell, SameKids
<1>4. NothingLost' BY DEF Streams, NothingLost
<1>5. Settled' BY <1>1 DEF Streams, Settled
<1>6. Unfed'
  <2> SUFFICES ASSUME NEW k \in Kid, Runs(k)', kid'[k].in = None PROVE UnfedAt(kid[k].at)'
    BY DEF Unfed
  <2>1. Runs(k) /\ kid'[k] = kid[k] BY DEF SameKids
  <2>2. UnfedAt(kid[k].at) BY <2>1 DEF Streams, Unfed
  <2> QED BY <2>1, <2>2 DEF UnfedAt, SameKids
<1>7. Untouched'
  <2> SUFFICES ASSUME pc' \notin Ended, NEW p \in Place, Beyond(p)'
               PROVE  /\ got'[p] = 0 /\ p \notin atEnd' /\ ~Reads(p)'
                      /\ ~IsFed(p)' => sent'[p] = 0 /\ ~Aimed(p)'
    BY DEF Untouched
  <2>1. Beyond(p) /\ pc \notin Ended /\ \A q \in Pipe : Feeds(q, p) => Feeds(q, p)' OBVIOUS
  <2>2. IsFed(p) => IsFed(p)' BY <2>1 DEF IsFed
  <2>3. /\ got[p] = 0 /\ p \notin atEnd /\ ~Reads(p)
        /\ ~IsFed(p) => sent[p] = 0 /\ ~Aimed(p)
    BY <2>1 DEF Streams, Untouched
  <2> QED BY <1>1, <2>2, <2>3
<1> QED BY <1>2, <1>3, <1>4, <1>5, <1>6, <1>7 DEF Streams

(* A child that has ended holds nothing. *)
Spent == \A k \in Kid : ~Runs(k) => kid[k].holds = {}

LEMMA SpentStep == ASSUME Typed, Spent, [Next]_vars PROVE Spent'
<1>1. CASE \E k \in Kid : Work(k) \/ Quit(k)
  <2>1. PICK k \in Kid : Work(k) \/ Quit(k) BY <1>1
  <2>2. kid \in [Kid -> KidRecord] BY Parts DEF Typed
  <2>3. CASE EndKid(k) BY <2>2, <2>3 DEF EndKid, NoKid, KidRecord, Runs, Spent
  <2>4. CASE Take(k) \/ Show(k) \/ Put(k)
    <3>1. PICK n : kid' = [kid EXCEPT ![k] = [kid[k] EXCEPT !.todo = n]]
      BY <2>4 DEF Take, Show, Put
    <3> QED BY <2>2, <3>1 DEF KidRecord, Runs, Spent
  <2> QED BY <2>1, <2>3, <2>4 DEF Work, BrokenPipe, Finish, Quit
<1>2. CASE \E k \in Kid : Fork(k)
  <2>1. PICK k \in Kid : kid' = [kid EXCEPT ![k] = NewKid] BY <1>2, Forked
  <2>2. NewKid.state = "runs" BY DEF NewKid
  <2> QED BY <2>1, <2>2, Parts DEF Typed, Runs, Spent
<1>3. CASE kid' = kid \/ \E K : kid' = Reaped(K)
  BY <1>3 DEF Runs, Reaped, NoKid, Spent
<1>4. \/ \E k \in Kid : Work(k) \/ Quit(k)
      \/ \E k \in Kid : Fork(k)
      \/ kid' = kid
      \/ \E K : kid' = Reaped(K)
  BY DEF Next, Line, Exit, RunBuiltin, ReadLine, Throw, Leave, SkipEmpty, Prepare, OpenFails,
         EndOfLine, Wait, ForkFails, GiveUp, ReapOne, ReapChildren, vars
<1> QED BY <1>1, <1>2, <1>3, <1>4

(* The shell and its children have a pipe's read end exactly when it leads somewhere. *)
LEMMA FedHasReader ==
    ASSUME Typed, Ends, ChildEnds, Spent, NEW q \in Pipe
    PROVE  /\ HasReader(q) <=> \E p : Feeds(q, p)
           /\ \A k \in Kid : Runs(k) /\ kid[k].out = q => HasWriter(q)
<1>1. Rd(q) \in mine <=> (IsNumbered(q) \/ line.in = q \/ (Forming /\ line.out = q))
  BY DEF Ends, Owns
<1>2. Rd(q) \in mine <=> \E p : FeedsDue(q, p) \/ FeedsNext(q, p) \/ FeedsNew(q, p)
  BY <1>1 DEF IsNumbered, FeedsDue, FeedsNext, FeedsNew
<1>3. ASSUME NEW k \in Kid PROVE Rd(q) \in kid[k].holds <=> Runs(k) /\ kid[k].in = q
  <2>1. Runs(k) => kid[k].holds = {Rd(kid[k].in), Wr(kid[k].out)} \intersect End BY DEF ChildEnds
  <2>2. ~Runs(k) => Rd(q) \notin kid[k].holds BY DEF Spent
  <2> QED BY <2>1, <2>2, EndFacts
<1>4. (\E k \in Kid : Rd(q) \in kid[k].holds) <=> \E p : FeedsKid(q, p) BY <1>3 DEF FeedsKid
<1>5. \A k \in Kid : Runs(k) /\ kid[k].out = q => Wr(q) \in kid[k].holds
  BY EndFacts DEF ChildEnds
<1> QED BY <1>2, <1>4, <1>5 DEF HasReader, HasWriter, Feeds

LEMMA ReapsNobodyRunning ==
    ASSUME kid' = kid \/ \E K : kid' = Reaped(K)
    PROVE  SameKids
BY DEF SameKids, Runs, Zombie, Reaped, NoKid

(* Steps at which nothing begins or ceases to lead anywhere. *)
LEMMA StreamsSame ==
    ASSUME Streams, SameKids, UNCHANGED <<content, sent, got, atEnd, numbered>>,
           line'.in = line.in, Front' = Front,
           Forming' <=> Forming, Forming => line'.out = line.out,
           pc' \notin Ended => pc \notin Ended
    PROVE  Streams'
<1>1. \A q, p : FeedsKid(q, p)' <=> FeedsKid(q, p) BY SameKidsFeed
<1>2. \A q, p : (FeedsDue(q, p)' <=> FeedsDue(q, p)) /\ (FeedsNext(q, p)' <=> FeedsNext(q, p))
  BY DEF FeedsDue, FeedsNext
<1>3. \A q, p : FeedsNew(q, p)' <=> FeedsNew(q, p) BY DEF FeedsNew, After
<1>4. \A q, p : Feeds(q, p)' <=> Feeds(q, p) BY <1>1, <1>2, <1>3 DEF Feeds
<1>5. \A p : Beyond(p)' <=> Beyond(p) BY DEF Beyond, NotBefore
<1> QED BY <1>4, <1>5, StreamsKept

LEMMA StreamsReaps ==
    ASSUME Typed, Streams, \/ ReapChildren \/ ForkFails \/ UNCHANGED vars
                           \/ \E k \in Kid : ReapOne(k)
    PROVE  Streams'
<1>1. /\ UNCHANGED <<content, sent, got, atEnd, numbered, line, executed>>
      /\ kid' = kid \/ \E K : kid' = Reaped(K)
      /\ pc' = pc \/ (Ready /\ Ready')
  BY DEF ReapChildren, ForkFails, ReapOne, shell, ghosts, vars, Ready
<1>2. SameKids BY <1>1, ReapsNobodyRunning
<1>3. \A c, i : PlaceOf(c, i)' = PlaceOf(c, i) /\ SegmentOf(c, i)' = SegmentOf(c, i)
  BY <1>1, SameNumbers
<1>4. Ready' <=> Ready BY <1>1 DEF Ready
<1>5. pc' # pc => Ready BY <1>1
<1>6. Front' = Front
  <2>1. CASE Ready BY <1>1, <1>3, <1>4, <2>1 DEF Front
  <2>2. CASE ~Ready BY <1>1, <1>3, <1>4, <1>5, <2>2 DEF Front
  <2> QED BY <2>1, <2>2
<1>7. (Forming' <=> Forming) /\ (pc' \notin Ended => pc \notin Ended)
  BY <1>1, <1>4 DEF Forming, Ready, PipesOrdinary, Current, Ended
<1> QED BY <1>1, <1>2, <1>6, <1>7, StreamsSame

LEMMA StreamsSkip == ASSUME Orderly, Typed, Streams, SkipEmpty PROVE Streams'
<1>1. /\ pc = "command" /\ pc' = pc /\ line.i =< Len(line.cmds) /\ ~Current.argv
      /\ line'.i = line.i + 1 /\ line'.cmds = line.cmds /\ line'.in = line.in
      /\ UNCHANGED <<executed, numbered, kid, content, sent, got, atEnd>>
  BY Parts DEF SkipEmpty, Typed, LineRecord, ghosts
<1>2. line.cmds \in Lines /\ line.i \in 1 .. Len(line.cmds) /\ line.i \in Nat \ {0}
  BY <1>1, CurrentTyped
<1>3. ~Starts(line.cmds, line.i) BY <1>1, <1>2 DEF Orderly, Tidy, Current
<1>4. line.i > 1 /\ line.i - 1 \in Nat \ {0} /\ (line.i - 1) + 1 = line.i BY <1>2, <1>3 DEF Starts
<1>5. PlaceOf(line.cmds, line.i) = PlaceOf(line.cmds, line.i - 1)
  BY <1>1, <1>3, <1>4, PlaceGoesOn, Parts DEF Current, Typed
<1>6. Front = After(PlaceOf(line.cmds, line.i - 1)) BY <1>1, <1>4, Fronts
<1>7. Front' = After(PlaceOf(line.cmds, line.i))
  <2>1. line.i + 1 > 1 /\ (line.i + 1) - 1 = line.i BY <1>2
  <2>2. ~Ready' BY <1>1 DEF Ready
  <2> QED BY <1>1, <2>1, <2>2 DEF Front, After, PlaceOf, SegmentOf, Starts
<1>8. SameKids BY <1>1, ReapsNobodyRunning
<1>9. ~Forming /\ ~Forming' BY <1>1 DEF Forming
<1> QED BY <1>1, <1>5, <1>6, <1>7, <1>8, <1>9, StreamsSame

LEMMA StreamsReadLine == ASSUME Typed, Streams, NEW cmds \in Lines, ReadLine(cmds) PROVE Streams'
<1>1. /\ pc = "read" /\ pc' = "command" /\ line = NoLine /\ line'.i = 1 /\ line'.in = line.in
      /\ UNCHANGED <<executed, numbered, kid, content, sent, got, atEnd>>
  BY DEF ReadLine, NoLine, Typed, UnderWay, ghosts
<1>2. Front = <<executed + 1, 1>> BY <1>1, Fronts
<1>3. Front' = <<executed + 1, 1>>
  <2>1. ~Ready' /\ ~(line'.i > 1) /\ pc' # "wait" BY <1>1 DEF Ready
  <2> QED BY <1>1, <2>1 DEF Front
<1>4. SameKids BY <1>1, ReapsNobodyRunning
<1>5. ~Forming /\ ~Forming' BY <1>1 DEF Forming
<1> QED BY <1>1, <1>2, <1>3, <1>4, <1>5, StreamsSame DEF Ended

LEMMA StreamsWait == ASSUME Typed, Streams, Wait PROVE Streams'
<1>1. /\ pc = "wait" /\ pc' = "read" /\ line' = NoLine /\ line.in = None
      /\ executed' = SegmentOf(line.cmds, Len(line.cmds))
      /\ kid' = Reaped(line.waits \union line.back)
      /\ UNCHANGED <<numbered, content, sent, got, atEnd>>
  BY DEF Wait, Typed, UnderWay, ghosts
<1>2. Front = <<SegmentOf(line.cmds, Len(line.cmds)) + 1, 1>> BY <1>1, Fronts
<1>3. Front' = <<executed' + 1, 1>> BY <1>1 DEF Front, Ready
<1>4. SameKids BY <1>1, ReapsNobodyRunning
<1>5. ~Forming /\ ~Forming' BY <1>1 DEF Forming
<1>6. line'.in = line.in BY <1>1 DEF NoLine
<1> QED BY <1>1, <1>2, <1>3, <1>4, <1>5, <1>6, StreamsSame DEF Ended

(* Who leaves lets go of the pipes that nobody reads yet. *)
LEMMA StreamsLeave == ASSUME Typed, Streams, NEW how \in Ended, Leave(how) PROVE Streams'
<1>1. /\ pc' = how /\ line' = NoLine /\ numbered' = [s \in Segment |-> None] /\ kid' = Reaped(Kid)
      /\ UNCHANGED <<content, sent, got, atEnd>>
  BY DEF Leave, ghosts
<1>2. SameKids BY <1>1, ReapsNobodyRunning
<1>3. ASSUME NEW q \in Pipe, NEW p, Feeds(q, p)' PROVE Feeds(q, p)
  <2>1. ~FeedsDue(q, p)' /\ ~FeedsNext(q, p)' BY <1>1, NoPipeIsNone DEF FeedsDue, FeedsNext, NoLine
  <2>2. ~FeedsNew(q, p)' BY <1>1 DEF FeedsNew, Forming, Ended
  <2>3. FeedsKid(q, p) BY <1>2, <1>3, <2>1, <2>2, SameKidsFeed DEF Feeds
  <2> QED BY <2>3 DEF Feeds
<1> QED BY <1>1, <1>2, <1>3, StreamsKept

(* At a place beyond the front nobody reads yet: what leads there is still the shell's.   *)
LEMMA BeyondIsOurs ==
    ASSUME Streams, pc \notin Ended, NEW p \in Place, Beyond(p), NEW q, Feeds(q, p)
    PROVE  FeedsDue(q, p) \/ FeedsNext(q, p) \/ FeedsNew(q, p)
BY DEF Streams, Untouched, Reads, Feeds, FeedsKid

LEMMA StreamsBuiltin == ASSUME Typed, Streams, RunBuiltin PROVE Streams'
<1>1. /\ pc = "read" /\ pc' = "read" /\ line = NoLine /\ line' = NoLine /\ executed' = executed + 1
      /\ numbered' = [numbered EXCEPT ![executed + 1] = None]
      /\ UNCHANGED <<kid, content, sent, got, atEnd>>
  BY DEF RunBuiltin, DiscardIncoming, Typed, UnderWay, ghosts
<1>2. executed \in Nat /\ numbered \in [Segment -> MaybePipe] BY Parts DEF Typed
<1>3. Front = <<executed + 1, 1>> BY <1>1, Fronts
<1>4. Front' = <<executed + 2, 1>>
  <2>1. Front' = <<executed' + 1, 1>> BY <1>1 DEF Front, Ready, NoLine
  <2> QED BY <1>1, <1>2, <2>1
<1>5. SameKids BY <1>1, ReapsNobodyRunning
<1>6. ASSUME NEW q \in Pipe, NEW p
      PROVE  ~FeedsNext(q, p) /\ ~FeedsNext(q, p)' /\ ~FeedsNew(q, p) /\ ~FeedsNew(q, p)'
  BY <1>1, NoPipeIsNone DEF FeedsNext, FeedsNew, Forming, NoLine
<1>7. \A q \in Pipe : \A p : Feeds(q, p)' => Feeds(q, p)
  <2>1. ASSUME NEW q \in Pipe, NEW p, FeedsDue(q, p)' PROVE FeedsDue(q, p)
    BY <1>1, <1>2, <2>1, NoPipeIsNone DEF FeedsDue
  <2> QED BY <1>5, <1>6, <2>1, SameKidsFeed DEF Feeds
<1>8. ASSUME NEW p \in Place, Beyond(p)'
      PROVE  Beyond(p) /\ \A q \in Pipe : Feeds(q, p) => Feeds(q, p)'
  <2>1. Beyond(p) /\ p[1] # executed + 1
    BY <1>2, <1>3, <1>4, <1>8, PlaceIsPair DEF Beyond, NotBefore
  <2>2. ASSUME NEW q \in Pipe, Feeds(q, p) PROVE Feeds(q, p)'
    <3>1. FeedsDue(q, p) BY <1>1, <1>6, <2>1, <2>2, BeyondIsOurs DEF Ended
    <3>2. FeedsDue(q, p)' BY <1>1, <1>2, <2>1, <3>1 DEF FeedsDue
    <3> QED BY <3>2 DEF Feeds
  <2> QED BY <2>1, <2>2
<1> QED BY <1>1, <1>5, <1>7, <1>8, StreamsKept DEF Ended

(* EndOfLine closes the pipe of a last command that has no words, or of a `|` at the end. *)
LEMMA StreamsEndOfLine == ASSUME Typed, Ahead, Streams, EndOfLine PROVE Streams'
<1>1. /\ pc = "command" /\ pc' = "wait" /\ line.i > Len(line.cmds)
      /\ line'.cmds = line.cmds /\ line'.i = line.i /\ line'.in = None
      /\ UNCHANGED <<numbered, executed, kid, content, sent, got, atEnd>>
  BY Parts DEF EndOfLine, Typed, LineRecord, ghosts
<1> DEFINE n == Len(line.cmds)
<1>2. n \in 1 .. n /\ line.i = n + 1 /\ line.i > 1 /\ line.i - 1 = n BY <1>1, CurrentTyped
<1> HIDE DEF n
<1>3. Front = After(PlaceOf(line.cmds, n)) BY <1>1, <1>2, Fronts
<1>4. Front' = <<SegmentOf(line.cmds, n) + 1, 1>>
  BY <1>1 DEF Front, Ready, SegmentOf, Starts, n
<1>5. Front \in Nat \X Nat /\ Front[1] = SegmentOf(line.cmds, n) BY <1>3, Fronts DEF After, PlaceOf
<1>6. SameKids BY <1>1, ReapsNobodyRunning
<1>7. ASSUME NEW q \in Pipe, NEW p
      PROVE  ~FeedsNext(q, p)' /\ ~FeedsNew(q, p) /\ ~FeedsNew(q, p)'
             /\ (FeedsDue(q, p)' <=> FeedsDue(q, p))
  BY <1>1, NoPipeIsNone DEF FeedsNext, FeedsNew, Forming, FeedsDue
<1>8. \A q \in Pipe : \A p : Feeds(q, p)' => Feeds(q, p) BY <1>6, <1>7, SameKidsFeed DEF Feeds
<1>9. ASSUME NEW p \in Place, Beyond(p)'
      PROVE  Beyond(p) /\ \A q \in Pipe : Feeds(q, p) => Feeds(q, p)'
  <2>1. Beyond(p) /\ p # Front
    BY <1>4, <1>5, <1>9, PlaceIsPair DEF Beyond, NotBefore
  <2>2. ASSUME NEW q \in Pipe, Feeds(q, p) PROVE Feeds(q, p)'
    BY <1>1, <1>7, <2>1, <2>2, BeyondIsOurs DEF Ended, FeedsNext, Feeds
  <2> QED BY <2>1, <2>2
<1> QED BY <1>1, <1>6, <1>8, <1>9, StreamsKept DEF Ended

(* What attaching the incoming pipe does to the pipes that lead somewhere: the place of   *)
(* the command is P, and only the pipe at P changes hands.                                *)
LEMMA AttachedFeeds ==
    ASSUME Typed, Plans, Ahead, Streams, pc = "command", line.i =< Len(line.cmds), Current.argv, NEW q \in Pipe
    PROVE  LET P == PlaceOf(line.cmds, line.i) IN
           /\ \A s \in Segment : AttachedPipes[s] = q => numbered[s] = q
           /\ \A s \in Segment : numbered[s] = q /\ <<s, 1>> # P => AttachedPipes[s] = q
           /\ InFd = q <=> FeedsDue(q, P) \/ FeedsNext(q, P)
           /\ \A s \in Segment : AttachedPipes[s] # None => <<s, 1>> # P
<1> DEFINE P == PlaceOf(line.cmds, line.i)
<1>1. /\ Here \in Segment /\ numbered \in [Segment -> MaybePipe] /\ line.in \in MaybePipe
  BY CurrentTyped, Parts DEF Typed, LineRecord
<1>2. /\ P \in Place /\ P[1] = Here
      /\ ~Starts(line.cmds, line.i) => P = Front
      /\ Starts(line.cmds, line.i) => P = <<Here, 1>>
      /\ Here = executed + Count(line.cmds, line.i)
  BY FrontPlace
<1> HIDE DEF P
<1>3. \A s \in Segment :
        AttachedPipes[s] = IF Incoming # None /\ s = Here THEN None ELSE numbered[s]
  BY <1>1 DEF AttachedPipes
<1>4. \A s \in Segment : AttachedPipes[s] = q => numbered[s] = q BY <1>3, NoPipeIsNone
<1>5. Starts(line.cmds, line.i) => line.in = None BY DEF Plans
<1>6. CASE Starts(line.cmds, line.i)
  <2>1. Incoming = numbered[Here] /\ InFd = Incoming BY <1>5, <1>6 DEF Incoming, InFd
  <2>2. FeedsDue(q, P) <=> numbered[Here] = q BY <1>1, <1>2, <1>6 DEF FeedsDue
  <2>3. ~FeedsNext(q, P) BY <1>5, <1>6, NoPipeIsNone DEF FeedsNext
  <2>4. \A s \in Segment : numbered[s] = q /\ <<s, 1>> # P => AttachedPipes[s] = q
    BY <1>2, <1>3, <1>6
  <2>5. \A s \in Segment : AttachedPipes[s] # None => <<s, 1>> # P BY <1>2, <1>3, <1>6, <2>1
  <2> QED BY <1>4, <2>1, <2>2, <2>3, <2>4, <2>5 DEF P
<1>7. CASE ~Starts(line.cmds, line.i)
  <2>1. Incoming = None /\ InFd = line.in BY <1>7 DEF Incoming, InFd
  <2>2. FeedsNext(q, P) <=> line.in = q BY <1>2, <1>7 DEF FeedsNext
  <2>3. \A s \in Segment : AttachedPipes[s] = numbered[s] BY <1>3, <2>1
  <2>4. \A s \in Segment : numbered[s] # None => s # Here
    <3>1. Count(line.cmds, line.i) = Count(line.cmds, line.i - 1) BY <1>7, Counted
    <3>2. Done = Here BY <1>2, <3>1 DEF Done
    <3> QED BY <1>1, <3>2 DEF Ahead, Segment
  <2>5. \A s \in Segment : numbered[s] # None => <<s, 1>> # P BY <1>2, <2>4
  <2>6. ~FeedsDue(q, P) BY <2>5, NoPipeIsNone DEF FeedsDue
  <2> QED BY <1>4, <2>1, <2>2, <2>3, <2>5, <2>6 DEF P
<1> QED BY <1>6, <1>7

LEMMA StreamsOpenFails == ASSUME Typed, Plans, Ahead, Streams, OpenFails PROVE Streams'
<1>1. /\ pc = "command" /\ pc' = "command" /\ line.i =< Len(line.cmds) /\ Current.argv
      /\ line'.cmds = line.cmds /\ line'.i = line.i + 1 /\ line'.in = None
      /\ numbered' = AttachedPipes
      /\ UNCHANGED <<executed, kid, content, sent, got, atEnd>>
  BY Parts DEF OpenFails, Typed, LineRecord, ghosts
<1> DEFINE P == PlaceOf(line.cmds, line.i)
<1>2. P \in Place /\ P[1] = Here /\ NotBefore(P, Front) BY <1>1, FrontPlace
<1>3. Front' = After(P)
  <2>1. line.i \in Nat \ {0} /\ line.i + 1 > 1 /\ (line.i + 1) - 1 = line.i BY <1>1, CurrentTyped
  <2>2. ~Ready' /\ line'.i > 1 /\ line'.i - 1 = line.i BY <1>1, <2>1 DEF Ready
  <2>3. \A c, i : PlaceOf(c, i)' = PlaceOf(c, i) BY <1>1, SameNumbers
  <2> QED BY <1>1, <2>2, <2>3 DEF Front, After
<1> HIDE DEF P
<1>4. SameKids BY <1>1, ReapsNobodyRunning
<1>5. ASSUME NEW q \in Pipe, NEW p
      PROVE  ~FeedsNext(q, p)' /\ ~FeedsNew(q, p) /\ ~FeedsNew(q, p)'
             /\ (FeedsDue(q, p)' => FeedsDue(q, p))
  <2>1. \A s \in Segment : AttachedPipes[s] = q => numbered[s] = q BY <1>1, AttachedFeeds
  <2> QED BY <1>1, <2>1, NoPipeIsNone DEF FeedsNext, FeedsNew, Forming, FeedsDue
<1>6. \A q \in Pipe : \A p : Feeds(q, p)' => Feeds(q, p) BY <1>4, <1>5, SameKidsFeed DEF Feeds
<1>7. ASSUME NEW p \in Place, Beyond(p)'
      PROVE  Beyond(p) /\ \A q \in Pipe : Feeds(q, p) => Feeds(q, p)'
  <2>1. NotBefore(p, P) /\ p # P BY <1>2, <1>3, <1>7, PlaceIsPair DEF Beyond, NotBefore, After
  <2>2. NotBefore(p, Front) /\ (p = Front => P = Front)
    <3>1. Front \in Nat \X Nat /\ P \in Nat \X Nat /\ p \in Nat \X Nat BY <1>2, Fronts, PlaceIsPair
    <3> QED BY <1>2, <2>1, <3>1 DEF NotBefore
  <2>3. ASSUME NEW q \in Pipe, Feeds(q, p) PROVE Feeds(q, p)'
    <3>1. FeedsDue(q, p)
      BY <1>1, <1>5, <2>1, <2>2, <2>3, BeyondIsOurs DEF Ended, FeedsNext, Beyond
    <3>2. PICK s \in Segment : numbered[s] = q /\ p = <<s, 1>> BY <3>1 DEF FeedsDue
    <3>3. AttachedPipes[s] = q
      <4>1. <<s, 1>> # PlaceOf(line.cmds, line.i) BY <2>1, <3>2 DEF P
      <4> QED BY <1>1, <3>2, <4>1, AttachedFeeds
    <3>4. FeedsDue(q, p)' BY <1>1, <3>2, <3>3 DEF FeedsDue
    <3> QED BY <3>4 DEF Feeds
  <2> QED BY <2>2, <2>3 DEF Beyond
<1> QED BY <1>1, <1>4, <1>6, <1>7, StreamsKept DEF Ended

(* A new, empty pipe leads to a place that is still to come and that nothing else leads to. *)
LEMMA StreamsLaid ==
    ASSUME Typed, Streams, SameKids, UNCHANGED <<sent, got, atEnd>>, pc \notin Ended, pc' \notin Ended,
           NEW q0 \in Pipe, NEW p0, content' = [content EXCEPT ![q0] = 0],
           \A p : ~Feeds(q0, p),
           \A k \in Kid : Runs(k) => kid[k].out # q0,
           \A q \in Pipe : ~Feeds(q, p0),
           p0 \in Place => Beyond(p0),
           \A q \in Pipe : \A p : Feeds(q, p)' => Feeds(q, p) \/ (q = q0 /\ p = p0),
           \A p \in Place : Beyond(p)' => Beyond(p) /\ \A q \in Pipe : Feeds(q, p) => Feeds(q, p)'
    PROVE  Streams'
<1>1. \A p : (Aimed(p)' <=> Aimed(p)) /\ (Reads(p)' <=> Reads(p)) BY SameKidsFeed
<1>2. p0 \in Place => got[p0] = 0 /\ sent[p0] = 0 /\ p0 \notin atEnd /\ ~Aimed(p0)
  BY DEF Streams, Untouched, IsFed
<1>3. OneToOne'
  <2>1. \A q \in Pipe : \A p, r : Feeds(q, p)' /\ Feeds(q, r)' => p = r BY DEF Streams, OneToOne
  <2>2. \A q, t \in Pipe : \A p : Feeds(q, p)' /\ Feeds(t, p)' => q = t BY DEF Streams, OneToOne
  <2>3. \A j, k \in Kid : Runs(j)' /\ Runs(k)' /\ kid'[j].at = kid'[k].at => j = k
    BY DEF Streams, OneToOne, SameKids
  <2> QED BY <2>1, <2>2, <2>3 DEF OneToOne
<1>4. AimedWell'
  <2> SUFFICES ASSUME NEW k \in Kid, NEW q \in Pipe, NEW p, Runs(k)', Feeds(q, p)'
               PROVE  /\ kid'[k].out = q => kid'[k].aim = p
                      /\ kid'[k].aim = p /\ p \in Place => kid'[k].out = q
    BY DEF AimedWell
  <2>1. Runs(k) /\ kid'[k] = kid[k] BY DEF SameKids
  <2>2. CASE Feeds(q, p) BY <2>1, <2>2 DEF Streams, AimedWell
  <2>3. CASE q = q0 /\ p = p0 BY <1>2, <2>1, <2>3 DEF Aimed
  <2> QED BY <2>2, <2>3
<1>5. NothingLost'
  <2> SUFFICES ASSUME NEW q \in Pipe, NEW p \in Place, Feeds(q, p)'
               PROVE  sent'[p] = got'[p] + content'[q] /\ p \notin atEnd'
    BY DEF NothingLost
  <2>1. content \in [Pipe -> 0 .. Capacity] BY DEF Typed, TypeOK
  <2>2. CASE Feeds(q, p)
    <3>1. q # q0 BY <2>2
    <3> QED BY <2>1, <2>2, <3>1 DEF Streams, NothingLost
  <2>3. CASE q = q0 /\ p = p0 BY <1>2, <2>1, <2>3
  <2> QED BY <2>2, <2>3
<1>6. Settled' BY <1>1 DEF Streams, Settled
<1>7. Unfed'
  <2> SUFFICES ASSUME NEW k \in Kid, Runs(k)', kid'[k].in = None PROVE UnfedAt(kid[k].at)'
    BY DEF Unfed
  <2>1. Runs(k) /\ kid'[k] = kid[k] BY DEF SameKids
  <2>2. UnfedAt(kid[k].at) BY <2>1 DEF Streams, Unfed
  <2> QED BY <2>1, <2>2 DEF UnfedAt, SameKids
<1>8. Untouched'
  <2> SUFFICES ASSUME NEW p \in Place, Beyond(p)'
               PROVE  /\ got'[p] = 0 /\ p \notin atEnd' /\ ~Reads(p)'
                      /\ ~IsFed(p)' => sent'[p] = 0 /\ ~Aimed(p)'
    BY DEF Untouched
  <2>1. IsFed(p) => IsFed(p)' BY DEF IsFed
  <2>2. /\ got[p] = 0 /\ p \notin atEnd /\ ~Reads(p)
        /\ ~IsFed(p) => sent[p] = 0 /\ ~Aimed(p)
    BY DEF Streams, Untouched
  <2> QED BY <1>1, <2>1, <2>2
<1> QED BY <1>3, <1>4, <1>5, <1>6, <1>7, <1>8 DEF Streams

(* The pipes that lead somewhere once the incoming pipe is attached. *)
LeadsOn(q, p) ==
    \/ FeedsKid(q, p)
    \/ \E s \in Segment : AttachedPipes[s] = q /\ p = <<s, 1>>
    \/ InFd = q /\ p = PlaceOf(line.cmds, line.i)

LEMMA LeadsOnFeeds ==
    ASSUME Typed, Plans, Ahead, Streams, pc = "command", line.i =< Len(line.cmds), Current.argv, NEW q \in Pipe
    PROVE  /\ \A p : LeadsOn(q, p) => Feeds(q, p)
           /\ \A p \in Place : NotBefore(p, PlaceOf(line.cmds, line.i)) =>
                Beyond(p) /\ (Feeds(q, p) => LeadsOn(q, p))
<1>1. PICK P : P = PlaceOf(line.cmds, line.i) OBVIOUS
<1>2. P \in Place /\ NotBefore(P, Front) /\ Front \in Nat \X Nat BY <1>1, FrontPlace, Fronts
<1>3. /\ \A s \in Segment : AttachedPipes[s] = q => numbered[s] = q
      /\ \A s \in Segment : numbered[s] = q /\ <<s, 1>> # P => AttachedPipes[s] = q
      /\ InFd = q <=> FeedsDue(q, P) \/ FeedsNext(q, P)
  BY <1>1, AttachedFeeds
<1>4. \A p : LeadsOn(q, p) => Feeds(q, p) BY <1>1, <1>3 DEF LeadsOn, Feeds, FeedsDue
<1>5. ASSUME NEW p \in Place, NotBefore(p, P) PROVE Beyond(p) /\ (Feeds(q, p) => LeadsOn(q, p))
  <2>1. p \in Nat \X Nat /\ P \in Nat \X Nat BY <1>2, PlaceIsPair
  <2>2. Beyond(p) BY <1>2, <1>5, <2>1, Order DEF Beyond
  <2>3. p = Front => p = P BY <1>2, <1>5, <2>1 DEF NotBefore
  <2>4. ASSUME Feeds(q, p) PROVE LeadsOn(q, p)
    <3>1. FeedsDue(q, p) \/ FeedsNext(q, p)
      <4>1. FeedsDue(q, p) \/ FeedsNext(q, p) \/ FeedsNew(q, p) BY <2>2, <2>4, BeyondIsOurs DEF Ended
      <4> QED BY <4>1 DEF FeedsNew, Forming
    <3>2. CASE p = P BY <1>1, <1>3, <3>1, <3>2 DEF LeadsOn
    <3>3. CASE p # P
      <4>1. FeedsDue(q, p) BY <2>3, <3>1, <3>3 DEF FeedsNext
      <4> QED BY <1>3, <3>3, <4>1 DEF FeedsDue, LeadsOn
    <3> QED BY <3>2, <3>3
  <2> QED BY <2>2, <2>4
<1> QED BY <1>1, <1>4, <1>5

(* What every plan has in common. *)
LEMMA Prepared ==
    ASSUME Typed, Prepare
    PROVE  /\ pc = "command" /\ pc' = "fork" /\ line.i =< Len(line.cmds) /\ Current.argv
           /\ line'.in = InFd /\ line'.cmds = line.cmds /\ line'.i = line.i
           /\ Current' = Current /\ Here' = Here
           /\ Front' = PlaceOf(line.cmds, line.i)
           /\ UNCHANGED <<executed, kid, sent, got, atEnd>>
<1>1. PICK out \in Sink : line' = [line EXCEPT !.in = InFd, !.out = out] BY Planned
<1>2. line'.in = InFd /\ line'.cmds = line.cmds /\ line'.i = line.i BY <1>1, Parts DEF Typed, LineRecord
<1>3. /\ pc = "command" /\ pc' = "fork" /\ line.i =< Len(line.cmds) /\ Current.argv
      /\ UNCHANGED <<executed, kid, sent, got, atEnd>>
  BY Planned
<1>4. \A c, i : PlaceOf(c, i)' = PlaceOf(c, i) /\ SegmentOf(c, i)' = SegmentOf(c, i) BY <1>3, SameNumbers
<1>5. Front' = PlaceOf(line.cmds, line.i) BY <1>2, <1>3, <1>4 DEF Front, Ready
<1>6. Current' = Current /\ Here' = Here BY <1>2, <1>4 DEF Current, Here
<1> QED BY <1>2, <1>3, <1>5, <1>6

(* No new pipe: a file, the terminal, or the pipe that is there for the segment. *)
LEMMA StreamsPrepareOld ==
    ASSUME Typed, Plans, Ahead, Streams, Prepare,
           numbered' = AttachedPipes, content' = content, ~PipesOrdinary
    PROVE  Streams'
<1>1. PICK P : P = PlaceOf(line.cmds, line.i) OBVIOUS
<1>2. /\ pc = "command" /\ pc' = "fork" /\ line.i =< Len(line.cmds) /\ Current.argv
      /\ line'.in = InFd /\ Current' = Current /\ Front' = P
      /\ UNCHANGED <<kid, sent, got, atEnd>>
  BY <1>1, Prepared
<1>3. SameKids BY <1>2, ReapsNobodyRunning
<1>4. ASSUME NEW q \in Pipe, NEW p PROVE Feeds(q, p)' <=> LeadsOn(q, p)
  <2>1. ~FeedsNew(q, p)' BY <1>2 DEF FeedsNew, Forming, PipesOrdinary
  <2>2. FeedsDue(q, p)' <=> \E s \in Segment : AttachedPipes[s] = q /\ p = <<s, 1>> BY DEF FeedsDue
  <2>3. FeedsNext(q, p)' <=> InFd = q /\ p = PlaceOf(line.cmds, line.i) BY <1>1, <1>2 DEF FeedsNext
  <2>4. FeedsKid(q, p)' <=> FeedsKid(q, p) BY <1>3, SameKidsFeed
  <2> QED BY <2>1, <2>2, <2>3, <2>4 DEF Feeds, LeadsOn
<1>5. \A p : Beyond(p)' <=> NotBefore(p, P) BY <1>2 DEF Beyond, NotBefore
<1>6. \A q \in Pipe : \A p : Feeds(q, p)' => Feeds(q, p) BY <1>2, <1>4, LeadsOnFeeds
<1>7. ASSUME NEW p \in Place, Beyond(p)'
      PROVE  Beyond(p) /\ \A q \in Pipe : Feeds(q, p) => Feeds(q, p)'
  <2>1. \A q \in Pipe : Beyond(p) /\ (Feeds(q, p) => LeadsOn(q, p))
    BY <1>1, <1>2, <1>5, <1>7, LeadsOnFeeds
  <2>2. Beyond(p)
    <3>1. NotBefore(P, Front) /\ P \in Place BY <1>1, <1>2, FrontPlace
    <3> QED BY <1>5, <1>7, <3>1, Order, PlaceIsPair, Fronts DEF Beyond
  <2> QED BY <1>4, <2>1, <2>2
<1> QED BY <1>2, <1>3, <1>6, <1>7, StreamsKept DEF Ended

(* A new pipe, which leads to place p0. *)
LEMMA StreamsPrepareNew ==
    ASSUME Typed, Ends, ChildEnds, Spent, Plans, Ahead, Streams, Prepare, NEW q0 \in Pipe, NEW p0,
           Fresh(q0), content' = [content EXCEPT ![q0] = 0],
           p0 # Front /\ (p0 \in Place => NotBefore(p0, PlaceOf(line.cmds, line.i))),
           \A q \in Pipe : ~FeedsDue(q, p0),
           \A q \in Pipe : \A p : Feeds(q, p)' <=> LeadsOn(q, p) \/ (q = q0 /\ p = p0)
    PROVE  Streams'
<1>1. PICK P : P = PlaceOf(line.cmds, line.i) OBVIOUS
<1>2. /\ pc = "command" /\ pc' = "fork" /\ line.i =< Len(line.cmds) /\ Current.argv /\ Front' = P
      /\ UNCHANGED <<kid, sent, got, atEnd>>
  BY <1>1, Prepared
<1>3. SameKids BY <1>2, ReapsNobodyRunning
<1>4. P \in Place /\ NotBefore(P, Front) BY <1>1, <1>2, FrontPlace
<1>5. \A p \in Place : NotBefore(p, P) => Beyond(p)
  BY <1>4, Order, PlaceIsPair, Fronts DEF Beyond
<1>6. \A p : Beyond(p)' <=> NotBefore(p, P) BY <1>2 DEF Beyond, NotBefore
<1>7. ~HasReader(q0) /\ ~HasWriter(q0) BY DEF Fresh, Exists
<1>8. (\A p : ~Feeds(q0, p)) /\ \A k \in Kid : Runs(k) => kid[k].out # q0 BY <1>7, FedHasReader
<1>9. ASSUME NEW q \in Pipe PROVE ~Feeds(q, p0)
  <2>1. ~FeedsKid(q, p0)
    <3>1. CASE p0 \in Place BY <1>1, <1>2, <1>5, <3>1 DEF Streams, Untouched, Ended, Reads, FeedsKid
    <3>2. CASE p0 \notin Place BY <3>2 DEF Typed, FeedsKid
    <3> QED BY <3>1, <3>2
  <2>2. ~FeedsNext(q, p0) BY DEF FeedsNext
  <2>3. ~FeedsNew(q, p0) BY <1>2 DEF FeedsNew, Forming
  <2> QED BY <2>1, <2>2, <2>3 DEF Feeds
<1>10. \A q \in Pipe : \A p : LeadsOn(q, p) => Feeds(q, p) BY <1>2, LeadsOnFeeds
<1>11. \A q \in Pipe : \A p : Feeds(q, p)' => Feeds(q, p) \/ (q = q0 /\ p = p0) BY <1>10
<1>12. ASSUME NEW p \in Place, Beyond(p)'
       PROVE  Beyond(p) /\ \A q \in Pipe : Feeds(q, p) => Feeds(q, p)'
  <2>1. NotBefore(p, P) BY <1>6, <1>12
  <2>2. \A q \in Pipe : Feeds(q, p) => LeadsOn(q, p) BY <1>1, <1>2, <2>1, LeadsOnFeeds
  <2> QED BY <1>5, <2>1, <2>2
<1>13. p0 \in Place => Beyond(p0) BY <1>1, <1>5
<1>14. pc \notin Ended /\ pc' \notin Ended BY <1>2 DEF Ended
<1> QED BY <1>2, <1>3, <1>8, <1>9, <1>11, <1>12, <1>13, <1>14, StreamsLaid

LEMMA StreamsOrdinary ==
    ASSUME Typed, Ends, ChildEnds, Spent, Plans, Ahead, Streams, Prepare, NEW q0 \in Pipe, ToOrdinary(q0)
    PROVE  Streams'
<1>1. PICK P : P = PlaceOf(line.cmds, line.i) OBVIOUS
<1>2. /\ pc = "command" /\ pc' = "fork" /\ line.i =< Len(line.cmds) /\ Current.argv
      /\ line'.in = InFd /\ Current' = Current /\ Front' = P /\ UNCHANGED kid
  BY <1>1, Prepared
<1>3. /\ Fresh(q0) /\ content' = [content EXCEPT ![q0] = 0] /\ numbered' = AttachedPipes
      /\ line' = [line EXCEPT !.in = InFd, !.out = q0] /\ PipesOrdinary
  BY DEF ToOrdinary, Create, PipesOrdinary
<1>4. line'.out = q0 BY <1>3, Parts DEF Typed, LineRecord
<1>5. Forming' BY <1>2, <1>3 DEF Forming, PipesOrdinary
<1>6. P \in Place /\ NotBefore(P, Front) BY <1>1, <1>2, FrontPlace
<1>7. After(P) # Front /\ NotBefore(After(P), P)
  BY <1>6, Fronts, PlaceIsPair DEF NotBefore, After
<1>8. \A q \in Pipe : ~FeedsDue(q, After(P)) BY <1>6, PlaceIsPair DEF FeedsDue, After
<1>9. SameKids BY <1>2, ReapsNobodyRunning
<1>10. ASSUME NEW q \in Pipe, NEW p
       PROVE  Feeds(q, p)' <=> LeadsOn(q, p) \/ (q = q0 /\ p = After(P))
  <2>1. FeedsNew(q, p)' <=> (q = q0 /\ p = After(P)) BY <1>2, <1>4, <1>5 DEF FeedsNew, After
  <2>2. FeedsDue(q, p)' <=> \E s \in Segment : AttachedPipes[s] = q /\ p = <<s, 1>>
    BY <1>3 DEF FeedsDue
  <2>3. FeedsNext(q, p)' <=> InFd = q /\ p = PlaceOf(line.cmds, line.i) BY <1>1, <1>2 DEF FeedsNext
  <2>4. FeedsKid(q, p)' <=> FeedsKid(q, p) BY <1>9, SameKidsFeed
  <2> QED BY <2>1, <2>2, <2>3, <2>4 DEF Feeds, LeadsOn
<1> QED BY <1>1, <1>3, <1>7, <1>8, <1>10, StreamsPrepareNew

LEMMA StreamsNumbered ==
    ASSUME Orderly, Typed, Ends, ChildEnds, Spent, Plans, Ahead, Streams, Prepare, NEW q0 \in Pipe,
           ToNumbered(q0), numbered' # AttachedPipes
    PROVE  Streams'
<1>1. PICK P : P = PlaceOf(line.cmds, line.i) OBVIOUS
<1>2. /\ pc = "command" /\ pc' = "fork" /\ line.i =< Len(line.cmds) /\ Current.argv
      /\ line'.in = InFd /\ Current' = Current /\ Front' = P /\ UNCHANGED kid
  BY <1>1, Prepared
<1>3. PICK t : t = Here + Current.next OBVIOUS
<1>4. t \in Segment /\ Here \in Segment /\ Current.next \in Nat
  BY <1>2, <1>3, CurrentTyped DEF ToNumbered
<1>5. Current.next # 0
  <2>1. line.cmds \in Lines /\ line.i \in 1 .. Len(line.cmds) BY <1>2, CurrentTyped
  <2> QED BY <2>1 DEF Orderly, Tidy, Current
<1>6. t > Here BY <1>3, <1>4, <1>5 DEF Segment
<1>7. /\ AttachedPipes[t] = None /\ Fresh(q0) /\ content' = [content EXCEPT ![q0] = 0]
      /\ numbered' = [AttachedPipes EXCEPT ![t] = q0]
  BY <1>3 DEF ToNumbered, Create, TargetPipe
<1>8. ~Forming' BY <1>2 DEF ToNumbered, Forming, PipesOrdinary, Ordinary
<1>9. P \in Place /\ NotBefore(P, Front) /\ P[1] = Here BY <1>1, <1>2, FrontPlace
<1>10. <<t, 1>> # Front /\ NotBefore(<<t, 1>>, P) /\ <<t, 1>> # P
  BY <1>4, <1>6, <1>9, Fronts, PlaceIsPair DEF NotBefore, Segment
<1>11. ASSUME NEW q \in Pipe PROVE ~FeedsDue(q, <<t, 1>>)
  <2>1. numbered[t] = q => AttachedPipes[t] = q BY <1>1, <1>2, <1>4, <1>10, AttachedFeeds
  <2> QED BY <1>7, <2>1, NoPipeIsNone DEF FeedsDue
<1>12. SameKids BY <1>2, ReapsNobodyRunning
<1>13. AttachedPipes \in [Segment -> MaybePipe] BY <1>2, AttachTyped
<1>14. ASSUME NEW q \in Pipe, NEW p
       PROVE  Feeds(q, p)' <=> LeadsOn(q, p) \/ (q = q0 /\ p = <<t, 1>>)
  <2>1. ~FeedsNew(q, p)' BY <1>8 DEF FeedsNew
  <2>2. FeedsDue(q, p)' <=> \/ \E s \in Segment : AttachedPipes[s] = q /\ p = <<s, 1>>
                            \/ q = q0 /\ p = <<t, 1>>
    BY <1>4, <1>7, <1>13, NoPipeIsNone DEF FeedsDue
  <2>3. FeedsNext(q, p)' <=> InFd = q /\ p = PlaceOf(line.cmds, line.i) BY <1>1, <1>2 DEF FeedsNext
  <2>4. FeedsKid(q, p)' <=> FeedsKid(q, p) BY <1>12, SameKidsFeed
  <2> QED BY <2>1, <2>2, <2>3, <2>4 DEF Feeds, LeadsOn
<1> QED BY <1>1, <1>7, <1>10, <1>11, <1>14, StreamsPrepareNew

LEMMA StreamsPrepare ==
    ASSUME Orderly, Typed, Ends, ChildEnds, Spent, Plans, Ahead, Streams, Prepare
    PROVE  Streams'
<1>1. CASE ToFile \/ ToStdout
  BY <1>1, StreamsPrepareOld DEF ToFile, ToStdout, PipesOrdinary, NoPipe, Ordinary
<1>2. CASE \E q \in Pipe : ToOrdinary(q) BY <1>2, StreamsOrdinary
<1>3. CASE \E q \in Pipe : ToNumbered(q) /\ numbered' # AttachedPipes BY <1>3, StreamsNumbered
<1>4. ASSUME NEW q \in Pipe, ToNumbered(q), numbered' = AttachedPipes PROVE Streams'
  <2>1. Here + Current.next \in Segment /\ AttachedPipes \in [Segment -> MaybePipe]
    BY <1>4, Planned, CurrentTyped, AttachTyped DEF ToNumbered
  <2>2. content' = content /\ ~PipesOrdinary
    BY <1>4, <2>1, NoPipeIsNone DEF ToNumbered, TargetPipe, PipesOrdinary, Ordinary
  <2> QED BY <1>4, <2>2, StreamsPrepareOld
<1> QED BY <1>1, <1>2, <1>3, <1>4 DEF Prepare

-----------------------------------------------------------------------------
(* The children at work. *)

(* What is still the shell's leads beyond the front, where nobody reads. *)
LEMMA OursIsBeyond ==
    ASSUME Typed, Ahead, Plans, Streams, NEW q \in Pipe, NEW p,
           FeedsDue(q, p) \/ FeedsNext(q, p) \/ FeedsNew(q, p)
    PROVE  pc \notin Ended /\ Beyond(p) /\ ~Reads(p)
<1>1. pc \notin Ended
  <2>1. ASSUME pc \in Ended PROVE FALSE
    <3>1. line.in = None BY <2>1 DEF Typed, UnderWay, NoLine
    <3>2. ~Forming BY <2>1 DEF Forming, Ended
    <3>3. \A s \in Segment : numbered[s] = None BY <2>1 DEF Plans
    <3> QED BY <3>1, <3>2, <3>3, NoPipeIsNone DEF FeedsDue, FeedsNext, FeedsNew
  <2> QED BY <2>1
<1>2. Front \in Nat \X Nat /\ executed \in Nat /\ line.i \in Nat BY Fronts, Parts DEF Typed
<1>3. Beyond(p)
  <2>1. CASE FeedsNext(q, p) BY <1>2, <2>1 DEF FeedsNext, Beyond, NotBefore
  <2>2. CASE FeedsNew(q, p) BY <1>2, <2>2 DEF FeedsNew, Beyond, NotBefore, After
  <2>3. CASE FeedsDue(q, p)
    <3>1. PICK s \in Segment : numbered[s] = q /\ p = <<s, 1>> BY <2>3 DEF FeedsDue
    <3>2. s > Done /\ s \in Nat BY <3>1, NoPipeIsNone DEF Ahead, Segment
    <3>3. Front = <<Done + 1, 1>> \/ Front[1] = Done
      <4>1. CASE Ready BY <4>1, Counted, Fronts DEF Done, Ready
      <4>2. CASE pc = "command" /\ line.i > 1
        <5>1. Front = After(PlaceOf(line.cmds, line.i - 1)) BY <4>2, Fronts
        <5>2. Front[1] = SegmentOf(line.cmds, line.i - 1) BY <5>1 DEF After, PlaceOf
        <5>3. Done = SegmentOf(line.cmds, line.i - 1) BY <4>2 DEF Done, SegmentOf, Count
        <5> QED BY <5>2, <5>3
      <4>3. CASE pc = "command" /\ line.i = 1
        <5>1. Done = executed + Count(line.cmds, 0) BY <4>3 DEF Done
        <5> QED BY <1>2, <4>3, <5>1, Fronts, CountStep
      <4>4. CASE pc = "wait"
        <5>1. line.i - 1 = Len(line.cmds) BY <4>4, CurrentTyped DEF Typed, UnderWay
        <5>2. Done = SegmentOf(line.cmds, Len(line.cmds)) BY <4>4, <5>1 DEF Done, SegmentOf, Count
        <5> QED BY <4>4, <5>2, Fronts
      <4>5. CASE pc = "read"
        <5>1. line = NoLine BY <4>5 DEF Typed, UnderWay
        <5>2. NoLine.i - 1 = 0 BY DEF NoLine
        <5>3. Done = executed + Count(line.cmds, 0) BY <4>5, <5>1, <5>2 DEF Done
        <5> QED BY <1>2, <4>5, <5>3, Fronts, CountStep
      <4>6. pc \in {"read", "command", "fork", "reap", "wait"} BY <1>1 DEF Typed, TypeOK, Ended
      <4>7. pc = "command" => line.i > 1 \/ line.i = 1 BY Parts DEF Typed
      <4> QED BY <4>1, <4>2, <4>3, <4>4, <4>5, <4>6, <4>7 DEF Ready
    <3>4. Front[1] \in Nat /\ Front[2] \in Nat BY <1>2
    <3>5. CASE Front = <<Done + 1, 1>>
      <4>1. Front[1] = Done + 1 /\ Front[2] = 1 BY <3>5
      <4>2. Done \in Nat
        <5>1. Count(line.cmds, line.i) \in Nat /\ Count(line.cmds, line.i - 1) \in Nat
          <6>1. line.i - 1 \in Nat BY Parts DEF Typed
          <6> QED BY <1>2, <6>1, CountStep
        <5> QED BY <1>2, <5>1 DEF Done
      <4>3. s > Front[1] \/ s = Front[1] BY <3>2, <4>1, <4>2
      <4> QED BY <3>1, <4>1, <4>3 DEF Beyond, NotBefore
    <3>6. CASE Front[1] = Done BY <3>1, <3>2, <3>6 DEF Beyond, NotBefore
    <3> QED BY <3>3, <3>5, <3>6
  <2> QED BY <2>1, <2>2, <2>3
<1>4. ~Reads(p)
  <2>1. CASE p \in Place BY <1>1, <1>3, <2>1 DEF Streams, Untouched
  <2>2. CASE p \notin Place BY <2>2 DEF Typed, Reads
  <2> QED BY <2>1, <2>2
<1> QED BY <1>1, <1>3, <1>4

LEMMA ShellStill ==
    ASSUME UNCHANGED shell
    PROVE  /\ pc' = pc
           /\ \A p : Beyond(p)' <=> Beyond(p)
           /\ \A q, p : /\ FeedsDue(q, p)' <=> FeedsDue(q, p)
                        /\ FeedsNext(q, p)' <=> FeedsNext(q, p)
                        /\ FeedsNew(q, p)' <=> FeedsNew(q, p)
<1>1. UNCHANGED <<pc, line, numbered, executed, mine>> BY DEF shell
<1>2. \A c, i : PlaceOf(c, i)' = PlaceOf(c, i) /\ SegmentOf(c, i)' = SegmentOf(c, i) BY <1>1, SameNumbers
<1>3. Front' = Front BY <1>1, <1>2 DEF Front, Ready
<1>4. Forming' <=> Forming BY <1>1 DEF Forming, PipesOrdinary, Current
<1>5. \A p : Beyond(p)' <=> Beyond(p) BY <1>3 DEF Beyond, NotBefore
<1>6. \A q, p : FeedsDue(q, p)' <=> FeedsDue(q, p) BY <1>1 DEF FeedsDue
<1>7. \A q, p : FeedsNext(q, p)' <=> FeedsNext(q, p) BY <1>1, <1>3 DEF FeedsNext
<1>8. \A q, p : FeedsNew(q, p)' <=> FeedsNew(q, p) BY <1>1, <1>3, <1>4 DEF FeedsNew, After
<1> QED BY <1>1, <1>5, <1>6, <1>7, <1>8

(* A child ends: its input leads nowhere any more, and nothing else changes.  If it ends  *)
(* at its input's end, nothing was on its way to it.                                      *)
LEMMA StreamsEnds ==
    ASSUME Typed, Ahead, Plans, Streams, UNCHANGED <<shell, content, sent, got>>,
           NEW k \in Kid, Runs(k), EndKid(k),
           \/ atEnd' = atEnd
           \/ /\ atEnd' = atEnd \union {kid[k].at}
              /\ got[kid[k].at] = sent[kid[k].at] /\ ~Aimed(kid[k].at)
    PROVE  Streams'
<1>1. kid \in [Kid -> KidRecord] BY Parts DEF Typed
<1>2. ~Runs(k)' BY <1>1 DEF EndKid, Runs, NoKid, KidRecord
<1>3. \A j \in Kid : Runs(j)' => j # k /\ Runs(j) /\ kid'[j] = kid[j] BY <1>1, <1>2 DEF EndKid, Runs
<1>4. \A j \in Kid : j # k /\ Runs(j) => Runs(j)' /\ kid'[j] = kid[j] BY <1>1 DEF EndKid, Runs
<1>5. \A p : (Aimed(p)' => Aimed(p)) /\ (Reads(p)' => Reads(p)) BY <1>3 DEF Aimed, Reads
<1>6. \A q, p : FeedsKid(q, p)' => FeedsKid(q, p) BY <1>3 DEF FeedsKid
<1>7. \A q, p : Feeds(q, p)' => Feeds(q, p) BY <1>6, ShellStill DEF Feeds
<1>8. PICK a : a = kid[k].at OBVIOUS
<1>9. Reads(a) /\ a \in Place BY <1>8 DEF Reads, Typed
<1>10. ASSUME NEW q \in Pipe PROVE ~Feeds(q, a)'
  <2>1. ~FeedsKid(q, a)' BY <1>3, <1>8 DEF FeedsKid, Streams, OneToOne
  <2>2. ~(FeedsDue(q, a) \/ FeedsNext(q, a) \/ FeedsNew(q, a)) BY <1>9, OursIsBeyond
  <2> QED BY <2>1, <2>2, ShellStill DEF Feeds
<1>11. \A p : p \in atEnd' => p \in atEnd \/ (p = a /\ got[a] = sent[a] /\ ~Aimed(a)) BY <1>8
<1>12. OneToOne'
  <2>1. \A q \in Pipe : \A p, r : Feeds(q, p)' /\ Feeds(q, r)' => p = r BY <1>7 DEF Streams, OneToOne
  <2>2. \A q, t \in Pipe : \A p : Feeds(q, p)' /\ Feeds(t, p)' => q = t BY <1>7 DEF Streams, OneToOne
  <2>3. \A i, j \in Kid : Runs(i)' /\ Runs(j)' /\ kid'[i].at = kid'[j].at => i = j
    BY <1>3 DEF Streams, OneToOne
  <2> QED BY <2>1, <2>2, <2>3 DEF OneToOne
<1>13. AimedWell' BY <1>3, <1>7 DEF Streams, AimedWell
<1>14. NothingLost' BY <1>7, <1>10, <1>11 DEF Streams, NothingLost
<1>15. Settled' BY <1>5, <1>11 DEF Streams, Settled
<1>16. Unfed'
  <2> SUFFICES ASSUME NEW j \in Kid, Runs(j)', kid'[j].in = None PROVE UnfedAt(kid[j].at)'
    BY DEF Unfed
  <2>1. Runs(j) /\ kid'[j] = kid[j] BY <1>3
  <2>2. PICK b : b = kid[j].at OBVIOUS
  <2>3. UnfedAt(b) BY <2>1, <2>2 DEF Streams, Unfed
  <2>4. UnfedAt(b)' BY <1>3, <2>3 DEF UnfedAt
  <2> QED BY <2>1, <2>2, <2>4
<1>17. Untouched'
  <2> SUFFICES ASSUME pc' \notin Ended, NEW p \in Place, Beyond(p)'
               PROVE  /\ got'[p] = 0 /\ p \notin atEnd' /\ ~Reads(p)'
                      /\ ~IsFed(p)' => sent'[p] = 0 /\ ~Aimed(p)'
    BY DEF Untouched
  <2>1. pc \notin Ended /\ Beyond(p) BY ShellStill
  <2>2. /\ got[p] = 0 /\ p \notin atEnd /\ ~Reads(p)
        /\ ~IsFed(p) => sent[p] = 0 /\ ~Aimed(p)
    BY <2>1 DEF Streams, Untouched
  <2>3. p # a BY <1>9, <2>2
  <2>4. IsFed(p) => IsFed(p)'
    <3>1. ASSUME NEW q \in Pipe, Feeds(q, p) PROVE Feeds(q, p)'
      <4>1. ~FeedsKid(q, p) BY <2>2 DEF FeedsKid, Reads
      <4> QED BY <3>1, <4>1, ShellStill DEF Feeds
    <3> QED BY <3>1 DEF IsFed
  <2> QED BY <1>5, <1>11, <2>2, <2>3, <2>4
<1> QED BY <1>12, <1>13, <1>14, <1>15, <1>16, <1>17 DEF Streams

(* A command that ends at its input's end has read all, if there was an input. *)
LEMMA StreamsFinish ==
    ASSUME Typed, Ends, ChildEnds, Spent, Ahead, Plans, Streams, NEW k \in Kid, Finish(k)
    PROVE  Streams'
<1>1. /\ Runs(k) /\ EndKid(k) /\ UNCHANGED <<shell, content, sent, got>>
      /\ kid[k].in # None => content[kid[k].in] = 0 /\ ~HasWriter(kid[k].in)
      /\ atEnd' = atEnd \union {kid[k].at}
  BY DEF Finish
<1>2. kid[k].at \in Place /\ kid[k].in \in MaybePipe BY <1>1, Parts DEF Typed, KidRecord
<1>3. got[kid[k].at] = sent[kid[k].at] /\ ~Aimed(kid[k].at)
  <2>1. CASE kid[k].in = None BY <1>1, <2>1 DEF Streams, Unfed, UnfedAt, Aimed
  <2>2. CASE kid[k].in \in Pipe
    <3>1. Feeds(kid[k].in, kid[k].at) BY <1>1 DEF Feeds, FeedsKid
    <3>2. sent[kid[k].at] = got[kid[k].at] + 0
      BY <1>1, <1>2, <2>2, <3>1, NoPipeIsNone DEF Streams, NothingLost
    <3>3. got[kid[k].at] \in Nat BY <1>2 DEF Typed, TypeOK
    <3>4. ASSUME NEW j \in Kid, Runs(j), kid[j].aim = kid[k].at PROVE FALSE
      <4>1. kid[j].out = kid[k].in BY <1>2, <2>2, <3>1, <3>4 DEF Streams, AimedWell
      <4>2. HasWriter(kid[k].in) BY <2>2, <3>4, <4>1, FedHasReader
      <4> QED BY <1>1, <2>2, <4>2, NoPipeIsNone
    <3> QED BY <3>2, <3>3, <3>4 DEF Aimed
  <2> QED BY <1>2, <2>1, <2>2 DEF MaybePipe
<1> QED BY <1>1, <1>3, StreamsEnds

(* A child that works stays where it is. *)
SameLinks ==
    /\ \A j \in Kid : Runs(j)' <=> Runs(j)
    /\ \A j \in Kid : /\ kid'[j].in = kid[j].in /\ kid'[j].out = kid[j].out
                      /\ kid'[j].at = kid[j].at /\ kid'[j].aim = kid[j].aim

LEMMA Working ==
    ASSUME Typed, NEW k \in Kid, NEW n, kid' = [kid EXCEPT ![k].todo = n], UNCHANGED shell
    PROVE  /\ SameLinks /\ pc' = pc
           /\ \A p : (Aimed(p)' <=> Aimed(p)) /\ (Reads(p)' <=> Reads(p)) /\ (Beyond(p)' <=> Beyond(p))
           /\ \A q, p : Feeds(q, p)' <=> Feeds(q, p)
           /\ \A p : IsFed(p)' <=> IsFed(p)
           /\ (OneToOne => OneToOne') /\ (AimedWell => AimedWell')
<1>1. SameLinks BY Parts DEF Typed, KidRecord, SameLinks, Runs
<1>2. \A p : (Aimed(p)' <=> Aimed(p)) /\ (Reads(p)' <=> Reads(p)) BY <1>1 DEF SameLinks, Aimed, Reads
<1>3. \A q, p : FeedsKid(q, p)' <=> FeedsKid(q, p) BY <1>1 DEF SameLinks, FeedsKid
<1>4. \A q, p : Feeds(q, p)' <=> Feeds(q, p) BY <1>3, ShellStill DEF Feeds
<1>5. \A p : IsFed(p)' <=> IsFed(p) BY <1>4 DEF IsFed
<1>6. OneToOne => OneToOne' BY <1>1, <1>4 DEF OneToOne, SameLinks
<1>7. AimedWell => AimedWell' BY <1>1, <1>4 DEF AimedWell, SameLinks
<1> QED BY <1>1, <1>2, <1>4, <1>5, <1>6, <1>7, ShellStill

LEMMA StreamsShow == ASSUME Typed, Streams, NEW k \in Kid, Show(k) PROVE Streams'
<1>1. /\ UNCHANGED <<shell, content, sent, got, atEnd>>
      /\ kid' = [kid EXCEPT ![k].todo = kid[k].todo - 1]
  BY DEF Show, ghosts
<1>2. /\ SameLinks /\ pc' = pc
      /\ \A p : (Aimed(p)' <=> Aimed(p)) /\ (Reads(p)' <=> Reads(p)) /\ (Beyond(p)' <=> Beyond(p))
      /\ \A q, p : Feeds(q, p)' <=> Feeds(q, p)
      /\ \A p : IsFed(p)' <=> IsFed(p)
      /\ OneToOne' /\ AimedWell'
  BY <1>1, Working DEF Streams
<1>3. NothingLost' BY <1>1, <1>2 DEF Streams, NothingLost
<1>4. Settled' BY <1>1, <1>2 DEF Streams, Settled
<1>5. Unfed' BY <1>1, <1>2 DEF Streams, Unfed, UnfedAt, SameLinks
<1>6. Untouched' BY <1>1, <1>2 DEF Streams, Untouched
<1> QED BY <1>2, <1>3, <1>4, <1>5, <1>6 DEF Streams

(* A command takes a unit from its pipe. *)
LEMMA StreamsTake == ASSUME Typed, Streams, NEW k \in Kid, Take(k) PROVE Streams'
<1>1. PICK a, q : a = kid[k].at /\ q = kid[k].in OBVIOUS
<1>2. /\ UNCHANGED <<shell, sent, atEnd>>
      /\ kid' = [kid EXCEPT ![k].todo = 1]
      /\ Runs(k) /\ q # None /\ content[q] > 0
      /\ content' = [content EXCEPT ![q] = content[q] - 1]
      /\ got' = [got EXCEPT ![a] = got[a] + 1]
  BY <1>1 DEF Take
<1>3. /\ content \in [Pipe -> 0 .. Capacity] /\ got \in [Place -> Nat] /\ sent \in [Place -> Nat]
      /\ a \in Place /\ q \in Pipe
  BY <1>1, <1>2, Parts DEF Typed, TypeOK, KidRecord, MaybePipe
<1>4. /\ SameLinks /\ pc' = pc
      /\ \A p : (Aimed(p)' <=> Aimed(p)) /\ (Reads(p)' <=> Reads(p)) /\ (Beyond(p)' <=> Beyond(p))
      /\ \A t, p : Feeds(t, p)' <=> Feeds(t, p)
      /\ \A p : IsFed(p)' <=> IsFed(p)
      /\ OneToOne' /\ AimedWell'
  BY <1>2, Working DEF Streams
<1>5. Feeds(q, a) /\ Reads(a) BY <1>1, <1>2 DEF Feeds, FeedsKid, Reads
<1>6. NothingLost'
  <2> SUFFICES ASSUME NEW t \in Pipe, NEW p \in Place, Feeds(t, p)'
               PROVE  sent'[p] = got'[p] + content'[t] /\ p \notin atEnd'
    BY DEF NothingLost
  <2>1. Feeds(t, p) /\ sent[p] = got[p] + content[t] /\ p \notin atEnd
    BY <1>4 DEF Streams, NothingLost
  <2>2. t = q <=> p = a BY <1>3, <1>5, <2>1 DEF Streams, OneToOne
  <2>3. CASE t = q BY <1>2, <1>3, <2>1, <2>2, <2>3
  <2>4. CASE t # q BY <1>2, <1>3, <2>1, <2>2, <2>4
  <2> QED BY <2>3, <2>4
<1>7. a \notin atEnd BY <1>3, <1>5 DEF Streams, NothingLost
<1>8. Settled' BY <1>2, <1>3, <1>4, <1>7 DEF Streams, Settled
<1>9. Unfed'
  <2> SUFFICES ASSUME NEW j \in Kid, Runs(j)', kid'[j].in = None PROVE UnfedAt(kid[j].at)'
    BY DEF Unfed
  <2>1. PICK b : b = kid[j].at OBVIOUS
  <2>2. Runs(j) /\ kid[j].in = None /\ kid'[j].at = b BY <1>4, <2>1 DEF SameLinks
  <2>3. b # a
    <3>1. b = a => j = k BY <1>1, <1>2, <2>1, <2>2 DEF Streams, OneToOne
    <3> QED BY <1>1, <1>2, <2>2, <3>1
  <2>4. UnfedAt(b) BY <2>1, <2>2 DEF Streams, Unfed
  <2>5. UnfedAt(b)' BY <1>2, <1>3, <1>4, <2>3, <2>4 DEF UnfedAt, SameLinks
  <2> QED BY <2>2, <2>5
<1>10. Untouched'
  <2> SUFFICES ASSUME pc' \notin Ended, NEW p \in Place, Beyond(p)'
               PROVE  /\ got'[p] = 0 /\ p \notin atEnd' /\ ~Reads(p)'
                      /\ ~IsFed(p)' => sent'[p] = 0 /\ ~Aimed(p)'
    BY DEF Untouched
  <2>1. /\ got[p] = 0 /\ p \notin atEnd /\ ~Reads(p)
        /\ ~IsFed(p) => sent[p] = 0 /\ ~Aimed(p)
    BY <1>4 DEF Streams, Untouched
  <2>2. p # a BY <1>5, <2>1
  <2> QED BY <1>2, <1>3, <1>4, <2>1, <2>2
<1> QED BY <1>4, <1>6, <1>8, <1>9, <1>10 DEF Streams

(* A command puts a unit into its pipe, which somebody reads or will read. *)
LEMMA StreamsPut ==
    ASSUME Typed, Ends, ChildEnds, Spent, Streams, NEW k \in Kid, Put(k) PROVE Streams'
<1>1. PICK a, q : a = kid[k].aim /\ q = kid[k].out OBVIOUS
<1>2. /\ UNCHANGED <<shell, got, atEnd>>
      /\ kid' = [kid EXCEPT ![k].todo = kid[k].todo - 1]
      /\ Runs(k) /\ q \in Pipe /\ HasReader(q)
      /\ content' = [content EXCEPT ![q] = content[q] + 1]
      /\ sent' = IF a \in Place THEN [sent EXCEPT ![a] = sent[a] + 1] ELSE sent
  BY <1>1 DEF Put
<1>3. content \in [Pipe -> 0 .. Capacity] /\ got \in [Place -> Nat] /\ sent \in [Place -> Nat]
  BY DEF Typed, TypeOK
<1>4. /\ SameLinks /\ pc' = pc
      /\ \A p : (Aimed(p)' <=> Aimed(p)) /\ (Reads(p)' <=> Reads(p)) /\ (Beyond(p)' <=> Beyond(p))
      /\ \A t, p : Feeds(t, p)' <=> Feeds(t, p)
      /\ \A p : IsFed(p)' <=> IsFed(p)
      /\ OneToOne' /\ AimedWell'
  BY <1>2, Working DEF Streams
<1>5. Feeds(q, a)
  <2>1. PICK p : Feeds(q, p) BY <1>2, FedHasReader
  <2>2. a = p BY <1>1, <1>2, <2>1 DEF Streams, AimedWell
  <2> QED BY <2>1, <2>2
<1>6. \A p \in Place : p # a => sent'[p] = sent[p] BY <1>2, <1>3
<1>7. NothingLost'
  <2> SUFFICES ASSUME NEW t \in Pipe, NEW p \in Place, Feeds(t, p)'
               PROVE  sent'[p] = got'[p] + content'[t] /\ p \notin atEnd'
    BY DEF NothingLost
  <2>1. Feeds(t, p) /\ sent[p] = got[p] + content[t] /\ p \notin atEnd
    BY <1>4 DEF Streams, NothingLost
  <2>2. t = q <=> p = a BY <1>2, <1>5, <2>1 DEF Streams, OneToOne
  <2>3. CASE t = q BY <1>2, <1>3, <2>1, <2>2, <2>3
  <2>4. CASE t # q BY <1>2, <1>3, <1>6, <2>1, <2>2, <2>4
  <2> QED BY <2>3, <2>4
<1>8. Aimed(a) BY <1>1, <1>2 DEF Aimed
<1>9. Settled' BY <1>2, <1>4, <1>6, <1>8 DEF Streams, Settled, Typed, TypeOK
<1>10. Unfed'
  <2> SUFFICES ASSUME NEW j \in Kid, Runs(j)', kid'[j].in = None PROVE UnfedAt(kid[j].at)'
    BY DEF Unfed
  <2>1. PICK b : b = kid[j].at OBVIOUS
  <2>2. Runs(j) /\ kid[j].in = None /\ kid'[j].at = b BY <1>4, <2>1 DEF SameLinks
  <2>3. UnfedAt(b) /\ b \in Place BY <2>1, <2>2 DEF Streams, Unfed, Typed
  <2>4. b # a BY <1>1, <1>2, <2>3 DEF UnfedAt
  <2>5. UnfedAt(b)' BY <1>2, <1>4, <1>6, <2>3, <2>4 DEF UnfedAt, SameLinks
  <2> QED BY <2>2, <2>5
<1>11. Untouched'
  <2> SUFFICES ASSUME pc' \notin Ended, NEW p \in Place, Beyond(p)'
               PROVE  /\ got'[p] = 0 /\ p \notin atEnd' /\ ~Reads(p)'
                      /\ ~IsFed(p)' => sent'[p] = 0 /\ ~Aimed(p)'
    BY DEF Untouched
  <2>1. /\ got[p] = 0 /\ p \notin atEnd /\ ~Reads(p)
        /\ ~IsFed(p) => sent[p] = 0 /\ ~Aimed(p)
    BY <1>4 DEF Streams, Untouched
  <2>2. p = a => IsFed(p) BY <1>2, <1>5 DEF IsFed
  <2> QED BY <1>2, <1>4, <1>6, <2>1, <2>2
<1> QED BY <1>4, <1>7, <1>9, <1>10, <1>11 DEF Streams

LEMMA StreamsWork ==
    ASSUME Typed, Ends, ChildEnds, Spent, Ahead, Plans, Streams, NEW k \in Kid, Work(k) \/ Quit(k)
    PROVE  Streams'
<1>1. CASE Take(k) BY <1>1, StreamsTake
<1>2. CASE Show(k) BY <1>2, StreamsShow
<1>3. CASE Put(k) BY <1>3, StreamsPut
<1>4. CASE Finish(k) BY <1>4, StreamsFinish
<1>5. CASE BrokenPipe(k) \/ Quit(k)
  <2>1. Runs(k) /\ EndKid(k) /\ UNCHANGED <<shell, content, sent, got, atEnd>>
    BY <1>5 DEF BrokenPipe, Quit, ghosts
  <2> QED BY <2>1, StreamsEnds
<1> QED BY <1>1, <1>2, <1>3, <1>4, <1>5 DEF Work

-----------------------------------------------------------------------------
(* The fork. *)

(* A new command is aimed where the pipe that it writes leads. *)
LEMMA NewAim ==
    ASSUME Orderly, Typed, Plans, pc = "fork", NEW a, a = AimOf(line.cmds, line.i)
    PROVE  /\ line.out \in Pipe => FeedsDue(line.out, a) \/ FeedsNew(line.out, a)
           /\ a \in Place => line.out \in Pipe
           /\ a # Front
<1>1. /\ Ready /\ line.i =< Len(line.cmds) /\ Current.argv /\ (PipesOrdinary => line.out \in Pipe)
  BY DEF Ready, Typed, UnderWay
<1>2. /\ line.cmds \in Lines /\ line.i \in 1 .. Len(line.cmds) /\ Here \in Segment
      /\ Current \in Command /\ Current.next # TooLarge
      /\ Current.next \in Nat => Here + Current.next \in Segment
  BY <1>1, CurrentTyped DEF Ready
<1>3. Front = PlaceOf(line.cmds, line.i) /\ Front \in Place /\ Front[1] = Here BY <1>1, Fronts
<1>4. /\ Current.redirect # "fails"
      /\ line.out \in Pipe => Current.redirect = "no" /\ Current.next # NoPipe
      /\ Current.redirect = "no" /\ Current.next \in Nat =>
           line.out \in Pipe /\ numbered[Here + Current.next] = line.out
  BY <1>1 DEF Plans
<1>5. Current.redirect \in {"no", "opens", "fails"} /\ Current.next \in NextType BY <1>2 DEF Command
<1>6. Nowhere \notin Place /\ Nowhere # Front BY <1>3 DEF Nowhere, Place, Segment
<1>7. CASE Current.redirect = "opens" \/ Current.next = NoPipe
  <2>1. a = Nowhere BY <1>7 DEF AimOf, Current
  <2> QED BY <1>4, <1>6, <1>7, <2>1
<1>8. CASE Current.redirect = "no" /\ Current.next = Ordinary
  <2>1. a = After(Front) BY <1>3, <1>8 DEF AimOf, Current, Ordinary, NoPipe, After
  <2>2. PipesOrdinary /\ Forming BY <1>1, <1>8 DEF PipesOrdinary, Forming, Ready
  <2>3. a # Front BY <1>3, <2>1, PlaceIsPair DEF After
  <2> QED BY <1>1, <2>1, <2>2, <2>3 DEF FeedsNew
<1>9. CASE Current.redirect = "no" /\ Current.next \in Nat
  <2>1. a = <<Here + Current.next, 1>> BY <1>3, <1>9 DEF AimOf, Current, Ordinary, NoPipe
  <2>2. Current.next # 0 BY <1>2 DEF Orderly, Tidy, Current
  <2>3. a # Front BY <1>2, <1>3, <1>9, <2>1, <2>2 DEF Segment
  <2>4. line.out \in Pipe /\ FeedsDue(line.out, a) BY <1>2, <1>4, <1>9, <2>1 DEF FeedsDue
  <2> QED BY <2>3, <2>4
<1> QED BY <1>2, <1>4, <1>5, <1>7, <1>8, <1>9 DEF NextType

LEMMA StreamsFork ==
    ASSUME Orderly, Typed, Ahead, Plans, Streams, NEW k \in Kid, Fork(k)
    PROVE  Streams'
<1>1. /\ pc = "fork" /\ pc' = "command" /\ line.i =< Len(line.cmds)
      /\ kid' = [kid EXCEPT ![k] = NewKid]
      /\ line'.cmds = line.cmds /\ line'.i = line.i + 1
      /\ line'.in = (IF PipesOrdinary THEN line.out ELSE None)
      /\ UNCHANGED <<numbered, executed, content, sent, got, atEnd>>
  BY Forked
<1>2. PICK f, a : f = Front /\ a = AimOf(line.cmds, line.i) OBVIOUS
<1>3. /\ Ready /\ f = PlaceOf(line.cmds, line.i) /\ f \in Place /\ f[1] = Here
      /\ line.i \in Nat \ {0} /\ kid \in [Kid -> KidRecord] /\ pc \notin Ended
  BY <1>1, <1>2, Fronts, Parts DEF Ready, Typed, Ended
<1>4. Front' = After(f)
  <2>1. line.i + 1 > 1 /\ (line.i + 1) - 1 = line.i BY <1>3
  <2>2. ~Ready' /\ line'.i > 1 /\ line'.i - 1 = line.i BY <1>1, <2>1 DEF Ready
  <2>3. \A c, i : PlaceOf(c, i)' = PlaceOf(c, i) BY <1>1, SameNumbers
  <2> QED BY <1>1, <1>3, <2>2, <2>3 DEF Front, After
<1>5. ~Runs(k)
  <2>1. kid[k] = NoKid BY DEF Fork, FreeKid
  <2> QED BY <2>1 DEF Runs, NoKid
<1>6. /\ Runs(k)' /\ kid'[k].in = line.in /\ kid'[k].out = line.out
      /\ kid'[k].at = f /\ kid'[k].aim = a
  <2>1. kid'[k] = NewKid BY <1>1, <1>3
  <2> QED BY <1>2, <1>3, <2>1 DEF NewKid, Runs
<1>7. \A j \in Kid : j # k => kid'[j] = kid[j] /\ (Runs(j)' <=> Runs(j)) BY <1>1, <1>3 DEF Runs
<1>8. Beyond(f) /\ ~Reads(f) /\ got[f] = 0 /\ f \notin atEnd
  <2>1. Beyond(f) BY <1>2, <1>3, PlaceIsPair DEF Beyond, NotBefore
  <2> QED BY <1>3, <2>1 DEF Streams, Untouched
<1>9. ASSUME NEW q \in Pipe, NEW p PROVE Feeds(q, p)' <=> Feeds(q, p)
  <2>1. FeedsKid(q, p)' <=> FeedsKid(q, p) \/ FeedsNext(q, p)
    BY <1>2, <1>5, <1>6, <1>7 DEF FeedsKid, FeedsNext
  <2>2. FeedsDue(q, p)' <=> FeedsDue(q, p) BY <1>1 DEF FeedsDue
  <2>3. FeedsNext(q, p)' <=> FeedsNew(q, p)
    BY <1>1, <1>2, <1>4, NoPipeIsNone DEF FeedsNext, FeedsNew, Forming
  <2>4. ~FeedsNew(q, p)' BY <1>1 DEF FeedsNew, Forming
  <2> QED BY <2>1, <2>2, <2>3, <2>4 DEF Feeds
<1>10. /\ line.out \in Pipe => Feeds(line.out, a)
       /\ a \in Place => line.out \in Pipe /\ ~Reads(a)
       /\ a # f
  <2>1. /\ line.out \in Pipe => FeedsDue(line.out, a) \/ FeedsNew(line.out, a)
        /\ a \in Place => line.out \in Pipe
        /\ a # f
    BY <1>1, <1>2, NewAim
  <2> QED BY <2>1, OursIsBeyond DEF Feeds
<1>11. \A p : Aimed(p)' => Aimed(p) \/ p = a BY <1>6, <1>7 DEF Aimed
<1>12. \A p : Reads(p)' => Reads(p) \/ p = f BY <1>6, <1>7 DEF Reads
<1>13. OneToOne'
  <2>1. \A q \in Pipe : \A p, r : Feeds(q, p)' /\ Feeds(q, r)' => p = r BY <1>9 DEF Streams, OneToOne
  <2>2. \A q, t \in Pipe : \A p : Feeds(q, p)' /\ Feeds(t, p)' => q = t BY <1>9 DEF Streams, OneToOne
  <2>3. \A i, j \in Kid : Runs(i)' /\ Runs(j)' /\ kid'[i].at = kid'[j].at => i = j
    BY <1>6, <1>7, <1>8 DEF Streams, OneToOne, Reads
  <2> QED BY <2>1, <2>2, <2>3 DEF OneToOne
<1>14. AimedWell'
  <2> SUFFICES ASSUME NEW j \in Kid, NEW q \in Pipe, NEW p, Runs(j)', Feeds(q, p)'
               PROVE  /\ kid'[j].out = q => kid'[j].aim = p
                      /\ kid'[j].aim = p /\ p \in Place => kid'[j].out = q
    BY DEF AimedWell
  <2>1. Feeds(q, p) BY <1>9
  <2>2. CASE j # k BY <1>7, <2>1, <2>2 DEF Streams, AimedWell
  <2>3. CASE j = k BY <1>6, <1>10, <2>1, <2>3 DEF Streams, OneToOne
  <2> QED BY <2>2, <2>3
<1>15. NothingLost' BY <1>1, <1>9 DEF Streams, NothingLost
<1>16. Settled'
  <2>1. a \in Place => a \notin atEnd BY <1>10 DEF Streams, NothingLost
  <2>2. atEnd \subseteq Place BY DEF Typed, TypeOK
  <2> QED BY <1>1, <1>11, <2>1, <2>2 DEF Streams, Settled
<1>17. Unfed'
  <2> SUFFICES ASSUME NEW j \in Kid, Runs(j)', kid'[j].in = None PROVE UnfedAt(kid[j].at)'
    BY DEF Unfed
  <2>1. CASE j # k
    <3>1. PICK b : b = kid[j].at OBVIOUS
    <3>2. Runs(j) /\ kid[j].in = None /\ kid'[j].at = b BY <1>7, <2>1, <3>1
    <3>3. UnfedAt(b) /\ b \in Place /\ Reads(b) BY <3>1, <3>2 DEF Streams, Unfed, Typed, Reads
    <3>4. a # b BY <1>10, <3>3
    <3>5. UnfedAt(b)' BY <1>1, <1>6, <1>7, <3>3, <3>4 DEF UnfedAt
    <3> QED BY <3>2, <3>5
  <2>2. CASE j = k
    <3>1. line.in = None BY <1>6, <2>2
    <3>2. ASSUME NEW q \in Pipe PROVE ~Feeds(q, f)
      <4>1. ~FeedsKid(q, f) BY <1>8 DEF FeedsKid, Reads
      <4>2. ~FeedsNext(q, f) BY <3>1, NoPipeIsNone DEF FeedsNext
      <4>3. ~FeedsNew(q, f) BY <1>2, <1>3, PlaceIsPair DEF FeedsNew, After
      <4>4. ASSUME NEW s \in Segment, numbered[s] = q, f = <<s, 1>> PROVE FALSE
        <5>1. s > Done BY <4>4, NoPipeIsNone DEF Ahead
        <5>2. Done = Here BY <1>1, Counted DEF Done
        <5> QED BY <1>3, <4>4, <5>1, <5>2 DEF Segment
      <4>5. ~FeedsDue(q, f) BY <4>4 DEF FeedsDue
      <4> QED BY <4>1, <4>2, <4>3, <4>5 DEF Feeds
    <3>3. sent[f] = 0 /\ ~Aimed(f) BY <1>3, <1>8, <3>2 DEF Streams, Untouched, IsFed
    <3>4. sent'[f] = got'[f] /\ ~Aimed(f)' BY <1>1, <1>8, <1>10, <1>11, <3>3
    <3>5. UnfedAt(f)' BY <3>4 DEF UnfedAt, Aimed
    <3> QED BY <1>6, <2>2, <3>5
  <2> QED BY <2>1, <2>2
<1>18. Untouched'
  <2> SUFFICES ASSUME NEW p \in Place, Beyond(p)'
               PROVE  /\ got'[p] = 0 /\ p \notin atEnd' /\ ~Reads(p)'
                      /\ ~IsFed(p)' => sent'[p] = 0 /\ ~Aimed(p)'
    BY DEF Untouched
  <2>1. NotBefore(p, After(f)) BY <1>4 DEF Beyond, NotBefore
  <2>2. Beyond(p) /\ p # f BY <1>2, <1>3, <2>1, PlaceIsPair DEF Beyond, NotBefore, After
  <2>3. /\ got[p] = 0 /\ p \notin atEnd /\ ~Reads(p)
        /\ ~IsFed(p) => sent[p] = 0 /\ ~Aimed(p)
    BY <1>3, <2>2 DEF Streams, Untouched
  <2>4. IsFed(p)' <=> IsFed(p) BY <1>9 DEF IsFed
  <2>5. p = a => IsFed(p) BY <1>10 DEF IsFed
  <2> QED BY <1>1, <1>11, <1>12, <2>2, <2>3, <2>4, <2>5
<1> QED BY <1>13, <1>14, <1>15, <1>16, <1>17, <1>18 DEF Streams

-----------------------------------------------------------------------------
(* The plans, and the theorem. *)

LEMMA PlansPrepare == ASSUME Typed, Prepare PROVE Plans'
<1>1. /\ pc = "command" /\ pc' = "fork" /\ line.i =< Len(line.cmds)
      /\ Current' = Current /\ Here' = Here
  BY Prepared
<1>2. line \in LineRecord /\ AttachedPipes \in [Segment -> MaybePipe]
  BY <1>1, AttachTyped, Parts DEF Typed
<1>3. SUFFICES /\ Current.redirect # "fails"
               /\ line'.out \in Pipe => Current.redirect = "no" /\ Current.next # NoPipe
               /\ Current.redirect = "no" /\ Current.next \in Nat =>
                    line'.out \in Pipe /\ numbered'[Here + Current.next] = line'.out
  BY <1>1 DEF Plans, Ended
<1>4. CASE ToFile BY <1>2, <1>4, NoPipeIsNone DEF ToFile, LineRecord
<1>5. CASE ToStdout BY <1>2, <1>5, NoPipeIsNone DEF ToStdout, LineRecord, NoPipe
<1>6. CASE \E q \in Pipe : ToOrdinary(q)
  BY <1>2, <1>6 DEF ToOrdinary, Create, LineRecord, NoPipe, Ordinary
<1>7. CASE \E q \in Pipe : ToNumbered(q)
  <2>1. PICK q \in Pipe : ToNumbered(q) BY <1>7
  <2>2. Current.redirect = "no" /\ Current.next \in Nat /\ Here + Current.next \in Segment
    BY <1>1, <2>1, CurrentTyped DEF ToNumbered
  <2>3. line'.out = q BY <1>2, <2>1 DEF ToNumbered, Create, LineRecord
  <2>4. numbered'[Here + Current.next] = q BY <1>2, <2>1, <2>2 DEF ToNumbered, TargetPipe
  <2> QED BY <2>2, <2>3, <2>4 DEF NoPipe
<1> QED BY <1>4, <1>5, <1>6, <1>7 DEF Prepare

LEMMA PlansStep == ASSUME Orderly, Typed, Plans, [Next]_vars PROVE Plans'
<1>1. CASE Exit \/ (\E cmds \in Lines : Throw(cmds)) \/ GiveUp
  BY <1>1 DEF Exit, Throw, GiveUp, Leave, Plans, Ready
<1>2. CASE RunBuiltin BY <1>2 DEF RunBuiltin, Plans, Ready, Ended
<1>3. CASE \E cmds \in Lines : ReadLine(cmds) BY <1>3 DEF ReadLine, NoLine, Plans, Ready, Ended
<1>4. CASE SkipEmpty
  <2>1. /\ pc = "command" /\ pc' = pc /\ line.i =< Len(line.cmds) /\ ~Current.argv
        /\ line'.i = line.i + 1 /\ line'.cmds = line.cmds
    BY <1>4, Parts DEF SkipEmpty, Typed, LineRecord
  <2>2. line.cmds \in Lines /\ line.i \in 1 .. Len(line.cmds) BY <2>1, CurrentTyped
  <2>3. Current.next = Ordinary \/ line.i = Len(line.cmds) BY <2>1, <2>2 DEF Orderly, Current
  <2>4. line.i + 1 =< Len(line.cmds) => ~Starts(line.cmds, line.i + 1)
    <3>1. (line.i + 1) - 1 = line.i /\ line.i + 1 # 1 /\ ~(line.i + 1 =< line.i) BY <2>2
    <3> QED BY <2>3, <3>1 DEF Starts, Current
  <2> QED BY <2>1, <2>4 DEF Plans, Ready, Ended, Starts
<1>5. CASE Prepare BY <1>5, PlansPrepare
<1>6. CASE OpenFails
  <2>1. pc' = "command" /\ line'.in = None
    BY <1>6, Parts DEF OpenFails, Typed, LineRecord
  <2> QED BY <2>1 DEF Plans, Ready, Ended
<1>7. CASE \E k \in Kid : Fork(k)
  <2>1. /\ pc = "fork" /\ pc' = "command" /\ line.i =< Len(line.cmds)
        /\ line'.cmds = line.cmds /\ line'.i = line.i + 1
        /\ line'.in = (IF PipesOrdinary THEN line.out ELSE None)
    BY <1>7, Forked
  <2>2. (line.i + 1) - 1 = line.i /\ line.i + 1 # 1 BY <2>1, CurrentTyped
  <2>3. PipesOrdinary => ~Starts(line.cmds, line.i + 1) BY <2>2 DEF PipesOrdinary, Current, Starts
  <2> QED BY <2>1, <2>3 DEF Plans, Ready, Ended, Starts
<1>8. CASE ForkFails \/ \E k \in Kid : ReapOne(k)
  <2>1. Ready /\ Ready' /\ pc' \in {"fork", "reap"} /\ UNCHANGED <<line, executed, numbered>>
    BY <1>8 DEF ForkFails, ReapOne, Ready
  <2>2. Current' = Current /\ Here' = Here BY <2>1 DEF Current, Here, SegmentOf, Starts
  <2> QED BY <2>1, <2>2 DEF Plans, Ended
<1>9. CASE EndOfLine BY <1>9 DEF EndOfLine, Plans, Ready, Ended
<1>10. CASE Wait BY <1>10 DEF Wait, Plans, Ready, Ended
<1>11. CASE ReapChildren \/ (\E k \in Kid : Work(k) \/ Quit(k)) \/ UNCHANGED vars
  <2>1. UNCHANGED <<pc, line, executed, numbered>>
    BY <1>11 DEF ReapChildren, Work, Take, Show, Put, BrokenPipe, Finish, Quit, shell, vars
  <2>2. Current' = Current /\ Here' = Here /\ (Ready' <=> Ready)
    BY <2>1 DEF Current, Here, SegmentOf, Starts, Ready
  <2> QED BY <2>1, <2>2 DEF Plans, Starts
<1> QED BY <1>1, <1>2, <1>3, <1>4, <1>5, <1>6, <1>7, <1>8, <1>9, <1>10, <1>11 DEF Next, Line

LEMMA StreamsStep ==
    ASSUME Orderly, Typed, Ends, ChildEnds, Spent, Ahead, Plans, Streams, [Next]_vars
    PROVE  Streams'
<1>1. CASE Exit \/ (\E cmds \in Lines : Throw(cmds)) \/ GiveUp
  BY <1>1, StreamsLeave DEF Exit, Throw, GiveUp, Ended
<1>2. CASE RunBuiltin BY <1>2, StreamsBuiltin
<1>3. CASE \E cmds \in Lines : ReadLine(cmds) BY <1>3, StreamsReadLine
<1>4. CASE SkipEmpty BY <1>4, StreamsSkip
<1>5. CASE Prepare BY <1>5, StreamsPrepare
<1>6. CASE OpenFails BY <1>6, StreamsOpenFails
<1>7. CASE EndOfLine BY <1>7, StreamsEndOfLine
<1>8. CASE Wait BY <1>8, StreamsWait
<1>9. CASE \E k \in Kid : Fork(k) BY <1>9, StreamsFork
<1>10. CASE ForkFails \/ ReapChildren \/ (\E k \in Kid : ReapOne(k)) \/ UNCHANGED vars
  BY <1>10, StreamsReaps
<1>11. CASE \E k \in Kid : Work(k) \/ Quit(k) BY <1>11, StreamsWork
<1> QED BY <1>1, <1>2, <1>3, <1>4, <1>5, <1>6, <1>7, <1>8, <1>9, <1>10, <1>11 DEF Next, Line

LEMMA StreamsInit == Init => Spent /\ Plans /\ Streams
<1> SUFFICES ASSUME Init PROVE Spent /\ Plans /\ Streams OBVIOUS
<1>1. /\ pc = "read" /\ line.in = None /\ \A s \in Segment : numbered[s] = None
      /\ \A k \in Kid : kid[k] = NoKid
      /\ \A p \in Place : sent[p] = 0 /\ got[p] = 0
      /\ atEnd = {}
  BY DEF Init, NoLine
<1>2. \A k \in Kid : ~Runs(k) /\ kid[k].holds = {} BY <1>1 DEF Runs, NoKid
<1>3. ~Forming BY <1>1 DEF Forming
<1>4. \A q \in Pipe : \A p : ~Feeds(q, p)
  BY <1>1, <1>2, <1>3, NoPipeIsNone DEF Feeds, FeedsKid, FeedsDue, FeedsNext, FeedsNew
<1>5. Streams
  BY <1>1, <1>2, <1>4
  DEF Streams, OneToOne, AimedWell, NothingLost, Settled, Unfed, Untouched, Aimed, Reads
<1>6. Spent /\ Plans BY <1>1, <1>2 DEF Spent, Plans, Ready, Ended
<1> QED BY <1>5, <1>6

(* Whatever the commands of Orderly lines write into pipes, ordinary or numbered, on the  *)
(* same line or many lines ahead, is read: a command that comes to the end of its input   *)
(* has got all that was sent to it, and nobody who is still running will send it more     *)
(* (Settled).                                                                             *)
THEOREM EverythingIsRead == ASSUME Orderly PROVE Spec => []EverythingArrives
<1> DEFINE IInv == Typed /\ Ends /\ ChildEnds /\ Spent /\ Ahead /\ Plans /\ Streams
<1>1. Init => IInv BY TypeInit, EndsInit, StreamsInit
<1>2. IInv /\ [Next]_vars => IInv'
  <2>1. Tidy BY DEF Orderly
  <2> QED BY <2>1, TypeStep, EndsStep, ChildEndsStep, SpentStep, AheadStep, PlansStep, StreamsStep
<1>3. IInv => EverythingArrives BY DEF Streams, Settled, EverythingArrives
<1> HIDE DEF IInv
<1> QED BY <1>1, <1>2, <1>3, PTL DEF Spec
=============================================================================
