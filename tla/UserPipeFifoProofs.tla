------------------------- MODULE UserPipeFifoProofs -------------------------
(***************************************************************************)
(* Theorems about UserPipeFifo, for any number of sessions, slots and      *)
(* lines and for sessions that overlap in every way; CleanTransfers, which *)
(* overlapping sessions break, for clients that wait for their prompt.     *)
(***************************************************************************)
EXTENDS UserPipeFifo, TLAPS

-----------------------------------------------------------------------------
(***************************************************************************)
(* Types.  The paths are built from the numbers of the line and the slot   *)
(* of the session, so TypeOK needs that a line under way has them.         *)
(***************************************************************************)

InputHalf == {"claimIn", "openIn", "unlinkIn"}
OutputHalf == {"claimOut", "unlinkOut", "mkfifo", "openHold", "openWrite"}
Working == InputHalf \union OutputHalf \union {"read", "write"}

\* A session with a prompt or a line has its slot; a line has its numbers.
LineShape ==
    \A p \in Session :
        /\ pc[p] \in Working \union {"idle"} => slot[p] \in Slot /\ user[slot[p]] = p
        /\ pc[p] \in Working => lines[p] \in 1 .. MaxLines
        /\ pc[p] \in InputHalf => from[p] \in Slot
        /\ pc[p] \in OutputHalf => to[p] \in Slot

Typed == TypeOK /\ LineShape

LEMMA NoneIsNoTransfer == None \notin Transfer /\ None \in Fifo /\ Transfer \subseteq Fifo
BY SessionAssumption DEF None, Transfer, Fifo

LEMMA UserSlots == NoUser \notin Slot
BY DEF NoUser, Slot

LEMMA TypeInit == Init => Typed
BY NoneIsNoTransfer, BoundAssumption
DEF Init, Typed, TypeOK, LineShape, Working, InputHalf, OutputHalf, Slot, NoUser

LEMMA TypeEnvironment ==
    ASSUME Typed, NEW p \in Session, Environment(p)
    PROVE  Typed'
<1> USE NoneIsNoTransfer, UserSlots DEF Typed, TypeOK, Goto, registry, fds, history
<1>1. ASSUME NEW s \in Slot, Login(p, s) PROVE Typed'
  <2>1. TypeOK' BY <1>1 DEF Login
  <2>2. LineShape'
    BY <1>1, SessionAssumption DEF Login, LineShape, Online, Working, InputHalf, OutputHalf
  <2> QED BY <2>1, <2>2
<1>2. ASSUME NEW f \in Slot \union {NoUser}, NEW t \in Slot \union {NoUser}, ReadLine(p, f, t)
      PROVE  Typed'
  <2>1. lines' \in [Session -> 0 .. MaxLines] /\ lines'[p] \in 1 .. MaxLines
    BY <1>2, BoundAssumption DEF ReadLine
  <2>2. TypeOK' BY <1>2, <2>1 DEF ReadLine
  <2>3. LineShape' BY <1>2, <2>1 DEF ReadLine, LineShape, Working, InputHalf, OutputHalf
  <2> QED BY <2>2, <2>3
<1>3. CASE Cleanup(p)
  <2>1. TypeOK' BY <1>3 DEF Cleanup
  <2>2. \A q \in Session \ {p} : pc'[q] \in Working \union {"idle"} => slot[q] # slot[p]
    BY <1>3 DEF Cleanup, LineShape, Working, InputHalf, OutputHalf
  <2>3. LineShape' BY <1>3, <2>2 DEF Cleanup, LineShape, Working, InputHalf, OutputHalf
  <2> QED BY <2>1, <2>3
<1>4. CASE Overflow(p)
  <2>1. TypeOK' BY <1>4 DEF Overflow, Forgotten
  <2>2. LineShape' BY <1>4 DEF Overflow, LineShape, Working, InputHalf, OutputHalf
  <2> QED BY <2>1, <2>2
<1> QED BY <1>1, <1>2, <1>3, <1>4 DEF Environment

\* LineShape survives a step of a line that keeps its numbers.
LEMMA ShapeKept ==
    ASSUME Typed, NEW p \in Session, pc[p] \in Working,
           NEW l \in {"openIn", "unlinkIn", "claimOut", "unlinkOut", "mkfifo", "openHold", "openWrite",
                      "read", "write", "idle"},
           pc' = [pc EXCEPT ![p] = l],
           l \in InputHalf => from[p] \in Slot,
           l \in OutputHalf => to[p] \in Slot,
           UNCHANGED <<user, slot, from, to, lines>>
    PROVE  LineShape'
BY DEF Typed, TypeOK, LineShape, Working, InputHalf, OutputHalf

LEMMA TypeLine ==
    ASSUME Typed, NEW p \in Session, Line(p)
    PROVE  Typed'
<1> USE NoneIsNoTransfer, UserSlots DEF Typed, TypeOK, Goto, registry, fds, history, InputHalf, OutputHalf, Working
<1>1. pc[p] \in Working =>
        /\ InPath(p) \in Path <=> from[p] \in Slot
        /\ OutPath(p) \in Path <=> to[p] \in Slot
        /\ Current(p) \in Transfer
  BY DEF LineShape, InPath, OutPath, Current, Path, Transfer
<1>2. CASE ClaimIn(p)
  <2>1. TypeOK'
    <3>1. /\ UNCHANGED <<user, slot, file, data, from, to, lines, inputFd, outputFd, holdFd, hold,
                         left, unlinks, got, size, meantFor, unmade>>
          /\ InPath(p) \in Path
      BY <1>1, <1>2 DEF ClaimIn, LineShape
    <3>2. exists' \in [Path -> Fifo]
      BY <1>2, <3>1 DEF ClaimIn, Taken
    <3>3. claim' \in [Transfer -> Fifo]
      BY <1>2, <3>1 DEF ClaimIn
    <3>4. pc' \in [Session -> {"new", "idle", "claimIn", "openIn", "unlinkIn", "claimOut", "unlinkOut",
                               "mkfifo", "openHold", "openWrite", "read", "write", "cleanup", "exited",
                               "aborted"}]
      BY <1>2 DEF ClaimIn, AfterInput
    <3> QED BY <3>1, <3>2, <3>3, <3>4
  <2>2. LineShape'
    <3>1. CASE pc' = [pc EXCEPT ![p] = "openIn"] BY <1>2, <3>1, ShapeKept DEF ClaimIn, LineShape
    <3>2. CASE pc' = [pc EXCEPT ![p] = AfterInput(p)]
      BY <1>2, <3>2, ShapeKept DEF ClaimIn, AfterInput
    <3> QED BY <1>2, <3>1, <3>2 DEF ClaimIn
  <2> QED BY <2>1, <2>2
<1>3. CASE OpenIn(p)
  <2>1. TypeOK' BY <1>1, <1>3 DEF OpenIn, LineShape
  <2>2. LineShape' BY <1>3, ShapeKept DEF OpenIn, LineShape
  <2> QED BY <2>1, <2>2
<1>4. CASE UnlinkIn(p)
  <2>1. TypeOK' BY <1>4 DEF UnlinkIn, Unlinked, AfterInput
  <2>2. LineShape' BY <1>4, ShapeKept DEF UnlinkIn, AfterInput
  <2> QED BY <2>1, <2>2
<1>5. CASE ClaimOut(p)
  <2>1. user[to[p]] \in Session \union {Nobody} BY <1>5 DEF ClaimOut, LineShape
  <2>2. TypeOK'
    <3>1. OutPath(p) \in Path /\ Current(p) \in Transfer BY <1>1, <1>5 DEF ClaimOut, LineShape
    <3>2. exists' \in [Path -> Fifo] BY <1>5, <3>1 DEF ClaimOut
    <3>3. meantFor' \in [Transfer -> Session \union {Nobody}] BY <1>5, <2>1, <3>1 DEF ClaimOut
    <3> QED BY <1>5, <3>2, <3>3 DEF ClaimOut
  <2>3. LineShape'
    <3>1. CASE pc' = [pc EXCEPT ![p] = "unlinkOut"] BY <1>5, <3>1, ShapeKept DEF ClaimOut, LineShape
    <3>2. CASE pc' = [pc EXCEPT ![p] = "read"] BY <1>5, <3>2, ShapeKept DEF ClaimOut
    <3> QED BY <1>5, <3>1, <3>2 DEF ClaimOut
  <2> QED BY <2>2, <2>3
<1>6. CASE UnlinkOut(p)
  <2>1. TypeOK' BY <1>6 DEF UnlinkOut, Unlinked
  <2>2. LineShape' BY <1>6, ShapeKept DEF UnlinkOut, LineShape
  <2> QED BY <2>1, <2>2
<1>7. CASE Mkfifo(p)
  <2>1. TypeOK' BY <1>1, <1>7 DEF Mkfifo
  <2>2. LineShape' BY <1>7, ShapeKept DEF Mkfifo, LineShape
  <2> QED BY <2>1, <2>2
<1>8. CASE OpenHold(p)
  <2>1. Held(p) \subseteq Transfer BY <1>1, <1>8 DEF OpenHold, Held, LineShape, Fifo
  <2>2. OutPath(p) \in Path BY <1>1, <1>8 DEF OpenHold, LineShape
  <2>3. TypeOK' BY <1>8, <2>1, <2>2 DEF OpenHold
  <2>4. LineShape' BY <1>8, ShapeKept DEF OpenHold, LineShape
  <2> QED BY <2>3, <2>4
<1>9. CASE OpenWrite(p)
  <2>1. TypeOK' BY <1>1, <1>9 DEF OpenWrite, LineShape
  <2>2. LineShape' BY <1>9, ShapeKept DEF OpenWrite
  <2> QED BY <2>1, <2>2
<1>10. CASE ReadPiece(p)
  <2>1. data[inputFd[p]] \in SUBSET Piece /\ Current(p) \in Transfer BY <1>1, <1>10 DEF ReadPiece, Fifo
  <2>2. TypeOK' BY <1>10, <2>1 DEF ReadPiece
  <2>3. LineShape' BY <1>10 DEF ReadPiece, LineShape
  <2> QED BY <2>2, <2>3
<1>11. CASE EndOfInput(p)
  <2>1. TypeOK' BY <1>1, <1>11, OutputsAssumption DEF EndOfInput
  <2>2. LineShape' BY <1>11, ShapeKept DEF EndOfInput
  <2> QED BY <2>1, <2>2
<1>14. CASE WritePiece(p)
  <2>1. <<Current(p), left[p]>> \in Piece BY <1>1, <1>14 DEF WritePiece, Piece
  <2>2. left[p] - 1 \in Nat BY <1>14 DEF WritePiece
  <2>3. TypeOK' BY <1>14, <2>1, <2>2 DEF WritePiece
  <2>4. LineShape' BY <1>14 DEF WritePiece, LineShape
  <2> QED BY <2>3, <2>4
<1>15. CASE EndOfLine(p)
  <2>1. TypeOK' BY <1>15 DEF EndOfLine
  <2>2. LineShape' BY <1>15, ShapeKept DEF EndOfLine
  <2> QED BY <2>1, <2>2
<1>16. CASE MkfifoFails(p)
  <2>1. TypeOK' BY <1>1, <1>16 DEF MkfifoFails
  <2>2. LineShape' BY <1>16, ShapeKept DEF MkfifoFails
  <2> QED BY <2>1, <2>2
<1>12. ASSUME NEW x \in Path, UnlinkNoted(p, x) PROVE Typed'
  BY <1>12 DEF UnlinkNoted, Unlinked, LineShape
<1>13. CASE Exit(p)
  BY <1>13 DEF Exit, Forgotten, LineShape
<1> QED
  BY <1>2, <1>3, <1>4, <1>5, <1>6, <1>7, <1>8, <1>9, <1>10, <1>11, <1>12, <1>13, <1>14, <1>15, <1>16
  DEF Line

LEMMA TypeStep == Typed /\ [Next]_vars => Typed'
<1> SUFFICES ASSUME Typed, [Next]_vars PROVE Typed'
  OBVIOUS
<1>1. CASE UNCHANGED vars
  BY <1>1 DEF vars, registry, fds, history, Typed, TypeOK, LineShape
<1>2. CASE Next
  BY <1>2, TypeEnvironment, TypeLine DEF Next
<1> QED BY <1>1, <1>2

LEMMA TypedAlways == Spec => []Typed
<1> QED BY TypeInit, TypeStep, PTL DEF Spec

\* Every variable keeps its type, whatever the sessions do to each other's files.
THEOREM TypeCorrect == Spec => []TypeOK
<1>1. Typed => TypeOK BY DEF Typed
<1> QED BY <1>1, TypedAlways, PTL

-----------------------------------------------------------------------------
(***************************************************************************)
(* Flags stand between users.  Inductive together with Typed: a line under *)
(* way has its slot, so ClaimOut sets a flag of a user.                    *)
(***************************************************************************)

LEMMA FlagsInit == Init => PipesBetweenUsers
BY DEF Init, PipesBetweenUsers

LEMMA FlagsStep ==
    ASSUME Typed, PipesBetweenUsers, [Next]_vars
    PROVE  PipesBetweenUsers'
<1> USE NoneIsNoTransfer, SessionAssumption DEF Typed, TypeOK, PipesBetweenUsers, Online, registry
<1>0. CASE UNCHANGED vars
  BY <1>0 DEF vars
<1>1. ASSUME NEW p \in Session, NEW s \in Slot, Login(p, s) PROVE PipesBetweenUsers'
  BY <1>1 DEF Login
<1>2. ASSUME NEW p \in Session, Cleanup(p) PROVE PipesBetweenUsers'
  <2>1. slot[p] \in Slot BY <1>2 DEF Cleanup, LineShape
  <2>2. ASSUME NEW x \in Path, exists'[x] # None PROVE user'[x[1]] # Nobody /\ user'[x[2]] # Nobody
    <3>1. exists[x] # None /\ x[1] # slot[p] /\ x[2] # slot[p]
      BY <1>2, <2>2 DEF Cleanup, Touches
    <3> QED BY <1>2, <2>1, <3>1 DEF Cleanup, Path
  <2> QED BY <2>2
<1>3. ASSUME NEW p \in Session, ClaimIn(p) PROVE PipesBetweenUsers'
  BY <1>3 DEF ClaimIn, Taken
<1>4. ASSUME NEW p \in Session, ClaimOut(p) PROVE PipesBetweenUsers'
  <2>1. user[slot[p]] = p BY <1>4 DEF ClaimOut, LineShape, Working, OutputHalf
  <2> QED BY <1>4, <2>1 DEF ClaimOut, OutPath, Path
<1>5. ASSUME NEW p \in Session, UNCHANGED <<user, exists>> PROVE PipesBetweenUsers'
  BY <1>5
<1> QED
  BY <1>0, <1>1, <1>2, <1>3, <1>4, <1>5
  DEF Next, Environment, Line, ReadLine, Overflow, OpenIn, UnlinkIn, UnlinkOut, Mkfifo, MkfifoFails,
      OpenHold, OpenWrite, ReadPiece, EndOfInput, WritePiece, EndOfLine, UnlinkNoted, Exit

LEMMA FlagsAlways == Spec => []PipesBetweenUsers
<1>1. PipesBetweenUsers /\ Typed /\ [Next]_vars => PipesBetweenUsers'
  BY FlagsStep
<1> QED BY <1>1, FlagsInit, TypedAlways, PTL DEF Spec

\* A user pipe is always between two users who are online.
THEOREM FlagsBetweenUsers == Spec => []PipesBetweenUsers
BY FlagsAlways

-----------------------------------------------------------------------------
(***************************************************************************)
(* The open for writing.  Only the session with the sender's slot creates  *)
(* files at its paths, so between its two opens the path names the FIFO it *)
(* holds, or nothing.                                                      *)
(***************************************************************************)

HeldOpen ==
    \A p \in Session :
        pc[p] = "openWrite" /\ file[OutPath(p)] # None => file[OutPath(p)] \in hold[p]

LEMMA HeldInit == Init => HeldOpen
BY DEF Init, HeldOpen

\* Two lines under way never share a path to write to.
LEMMA OwnPaths ==
    ASSUME Typed, NEW p \in Session, NEW q \in Session, p # q,
           pc[p] \in Working, pc[q] \in Working
    PROVE  OutPath(p) # OutPath(q)
BY DEF Typed, LineShape, OutPath

LEMMA HeldStep ==
    ASSUME Typed, HeldOpen, [Next]_vars
    PROVE  HeldOpen'
<1> USE DEF HeldOpen, registry, fds, Goto
<1>0. CASE UNCHANGED vars
  BY <1>0 DEF vars, OutPath
<1>1. ASSUME NEW p \in Session, Mkfifo(p) PROVE HeldOpen'
  <2> SUFFICES ASSUME NEW q \in Session, pc'[q] = "openWrite", (file[OutPath(q)])' # None
               PROVE  (file[OutPath(q)])' \in hold'[q]
    OBVIOUS
  <2>1. q # p /\ pc[q] = "openWrite" BY <1>1 DEF Mkfifo, Typed, TypeOK
  <2>2. OutPath(q) # OutPath(p) BY <1>1, <2>1, OwnPaths DEF Mkfifo, Working, OutputHalf
  <2> QED BY <1>1, <2>1, <2>2 DEF Mkfifo, Typed, TypeOK, OutPath
<1>2. ASSUME NEW p \in Session, OpenHold(p) PROVE HeldOpen'
  BY <1>2 DEF OpenHold, Held, Typed, TypeOK, OutPath
<1>3. ASSUME NEW p \in Session, NEW x, file' = [file EXCEPT ![x] = None],
             pc'[p] # "openWrite", \A q \in Session \ {p} : pc'[q] = pc[q],
             UNCHANGED <<slot, to, hold>>
      PROVE  HeldOpen'
  BY <1>3 DEF OutPath, Typed, TypeOK
<1>4. ASSUME NEW p \in Session, pc'[p] # "openWrite", \A q \in Session \ {p} :
             pc'[q] = pc[q] /\ slot'[q] = slot[q] /\ to'[q] = to[q] /\ hold'[q] = hold[q],
             UNCHANGED file
      PROVE  HeldOpen'
  BY <1>4 DEF OutPath
<1>5. ASSUME NEW p \in Session, NEW s \in Slot, Login(p, s) PROVE HeldOpen'
  BY <1>4, <1>5 DEF Login, Typed, TypeOK
<1>6. ASSUME NEW p \in Session, NEW f \in Slot \union {NoUser}, NEW t \in Slot \union {NoUser},
             ReadLine(p, f, t)
      PROVE  HeldOpen'
  BY <1>4, <1>6 DEF ReadLine, Typed, TypeOK
<1>7. ASSUME NEW p \in Session, Cleanup(p) \/ Overflow(p) \/ ClaimIn(p) \/ OpenIn(p) \/ ClaimOut(p)
                                \/ MkfifoFails(p) \/ OpenWrite(p) \/ ReadPiece(p) \/ EndOfInput(p)
                                \/ WritePiece(p) \/ EndOfLine(p) \/ Exit(p)
      PROVE  HeldOpen'
  BY <1>4, <1>7 DEF Cleanup, Overflow, ClaimIn, OpenIn, ClaimOut, MkfifoFails, OpenWrite, ReadPiece,
                    EndOfInput, WritePiece, EndOfLine, Exit, AfterInput, Typed, TypeOK
<1>8. ASSUME NEW p \in Session, UnlinkIn(p) \/ UnlinkOut(p) PROVE HeldOpen'
  BY <1>3, <1>8 DEF UnlinkIn, UnlinkOut, Unlinked, AfterInput, Typed, TypeOK
<1>9. ASSUME NEW p \in Session, NEW x \in Path, UnlinkNoted(p, x) PROVE HeldOpen'
  BY <1>3, <1>9 DEF UnlinkNoted, Unlinked
<1> QED
  BY <1>0, <1>1, <1>2, <1>5, <1>6, <1>7, <1>8, <1>9 DEF Next, Environment, Line

\* The open(path, O_WRONLY) of `>N` never waits: its path names a FIFO that the
\* session itself has open for reading, or nothing.
THEOREM OpenNeverWaits == Spec => []NeverBlocksOnOpen
<1>1. HeldOpen /\ Typed /\ [Next]_vars => HeldOpen'
  BY HeldStep
<1>2. HeldOpen => NeverBlocksOnOpen
  BY DEF HeldOpen, NeverBlocksOnOpen, HasReader
<1> QED BY <1>1, <1>2, HeldInit, TypedAlways, PTL DEF Spec

-----------------------------------------------------------------------------
(***************************************************************************)
(* Pipes are used up once.  A transfer is at one place at a time: behind a *)
(* flag, or claimed by the line that cleared the flag.  It gets behind a   *)
(* flag once: a line flags once, and no line goes back.                    *)
(***************************************************************************)

\* Before the line's `>N` may have set its flag.
Early == InputHalf \union {"claimOut"}

\* The transfer is that of a line that got past its claim.
Made(t) ==
    /\ t \in Transfer
    /\ t[2] <= lines[t[1]]
    /\ t[2] = lines[t[1]] => pc[t[1]] \notin Early

AllMade ==
    /\ \A x \in Path : exists[x] # None => Made(exists[x])
    /\ \A t \in Transfer : claim[t] # None => Made(claim[t])

FlagsApart ==
    /\ \A x, y \in Path : exists[x] # None /\ exists[x] = exists[y] => x = y
    /\ \A x \in Path, t \in Transfer : exists[x] # None => claim[t] # exists[x]

OnePlace == AllMade /\ FlagsApart /\ ConsumedOnce

LEMMA PlaceInit == Init => OnePlace
BY NoneIsNoTransfer DEF Init, OnePlace, AllMade, FlagsApart, ConsumedOnce

\* A transfer that was made stays made: lines only grow, and a line does not go back.
LEMMA MadeKept ==
    ASSUME Typed, NEW p \in Session, Environment(p) \/ Line(p), NEW t, Made(t)
    PROVE  Made(t)'
<1> USE DEF Made, Typed, TypeOK, Goto, registry, Early, InputHalf, Transfer
<1>1. CASE \E f, r \in Slot \union {NoUser} : ReadLine(p, f, r)
  BY <1>1 DEF ReadLine
<1>2. CASE \E s \in Slot : Login(p, s)
  BY <1>2 DEF Login
<1>3. CASE UNCHANGED lines /\ \A q \in Session : pc'[q] \in Early => pc[q] \in Early
  BY <1>3
<1>4. CASE Cleanup(p) \/ Overflow(p)
  BY <1>3, <1>4 DEF Cleanup, Overflow
<1>5. CASE Line(p)
  BY <1>3, <1>5
  DEF Line, ClaimIn, OpenIn, UnlinkIn, AfterInput, ClaimOut, UnlinkOut, Mkfifo, MkfifoFails, OpenHold,
      OpenWrite, ReadPiece, EndOfInput, WritePiece, EndOfLine, UnlinkNoted, Exit
<1> QED BY <1>1, <1>2, <1>4, <1>5 DEF Environment

LEMMA PlaceClaimIn ==
    ASSUME Typed, OnePlace, NEW p \in Session, ClaimIn(p), exists' # exists,
           \A t : Made(t) => Made(t)'
    PROVE  OnePlace'
<1> DEFINE x == InPath(p)
           u == Current(p)
<1> USE NoneIsNoTransfer DEF OnePlace, Typed, TypeOK, Goto
<1>1. x \in Path /\ exists[x] # None /\ u \in Transfer
  BY DEF ClaimIn, LineShape, Working, InputHalf, InPath, Path, Current, Transfer
<1>2. exists' = [exists EXCEPT ![x] = None] /\ claim' = [claim EXCEPT ![u] = exists[x]]
  BY DEF ClaimIn, Taken
<1> HIDE DEF x, u
<1>3. AllMade' BY <1>1, <1>2 DEF AllMade
<1>4. FlagsApart' BY <1>1, <1>2 DEF FlagsApart
<1>5. ConsumedOnce' BY <1>1, <1>2 DEF ConsumedOnce, FlagsApart
<1> QED BY <1>3, <1>4, <1>5

LEMMA PlaceClaimOut ==
    ASSUME Typed, OnePlace, NEW p \in Session, ClaimOut(p), exists' # exists,
           \A t : Made(t) => Made(t)'
    PROVE  OnePlace'
<1> USE NoneIsNoTransfer DEF OnePlace, Typed, TypeOK, Goto
<1>1. PICK x \in Path, u \in Transfer : x = OutPath(p) /\ u = Current(p)
  BY DEF ClaimOut, LineShape, Working, OutputHalf, OutPath, Path, Current, Transfer
<1>2. /\ exists' = [exists EXCEPT ![x] = u] /\ pc' = [pc EXCEPT ![p] = "unlinkOut"]
      /\ pc[p] = "claimOut" /\ UNCHANGED <<claim, lines>>
  BY <1>1 DEF ClaimOut
<1>3. ~Made(u) /\ Made(u)'
  BY <1>1, <1>2 DEF Made, Current, Early, InputHalf
<1>4. AllMade' BY <1>1, <1>2, <1>3 DEF AllMade
<1>5. FlagsApart' BY <1>1, <1>2, <1>3 DEF FlagsApart, AllMade
<1>6. ConsumedOnce' BY <1>2 DEF ConsumedOnce
<1> QED BY <1>4, <1>5, <1>6

LEMMA PlaceStep ==
    ASSUME Typed, OnePlace, [Next]_vars
    PROVE  OnePlace'
<1>1. CASE UNCHANGED vars
  BY <1>1 DEF vars, history, OnePlace, AllMade, FlagsApart, ConsumedOnce, Made
<1>2. CASE Next
  <2>1. PICK p \in Session : Environment(p) \/ Line(p) BY <1>2 DEF Next
  <2>2. \A t : Made(t) => Made(t)' BY <2>1, MadeKept
  <2>3. CASE ClaimIn(p) /\ exists' # exists BY <2>2, <2>3, PlaceClaimIn
  <2>4. CASE ClaimOut(p) /\ exists' # exists BY <2>2, <2>4, PlaceClaimOut
  <2>5. CASE (\A x \in Path : exists'[x] \in {exists[x], None}) /\ claim' = claim
    BY <2>2, <2>5, NoneIsNoTransfer DEF OnePlace, AllMade, FlagsApart, ConsumedOnce
  <2>6. CASE ClaimIn(p) /\ exists' = exists
    <3>1. ~(Online(from[p]) /\ exists[InPath(p)] # None)
      BY <2>6, NoneIsNoTransfer
      DEF ClaimIn, Taken, LineShape, Working, InputHalf, InPath, Path, Typed, TypeOK
    <3> QED BY <2>5, <2>6, <3>1 DEF ClaimIn
  <2>7. CASE ClaimOut(p) /\ exists' = exists
    BY <2>5, <2>7 DEF ClaimOut
  <2>8. CASE Environment(p)
    BY <2>5, <2>8 DEF Environment, Login, ReadLine, Overflow, Cleanup, history, Typed, TypeOK
  <2>9. CASE Line(p) /\ ~ClaimIn(p) /\ ~ClaimOut(p)
    BY <2>5, <2>9
    DEF Line, OpenIn, UnlinkIn, UnlinkOut, Mkfifo, MkfifoFails, OpenHold, OpenWrite, ReadPiece,
        EndOfInput, WritePiece, EndOfLine, UnlinkNoted, Exit, history
  <2> QED BY <2>1, <2>3, <2>4, <2>6, <2>7, <2>8, <2>9
<1> QED BY <1>1, <1>2

\* A user pipe is used up by one line of one session.
THEOREM UsedUpOnce == Spec => []ConsumedOnce
<1>1. OnePlace /\ Typed /\ [Next]_vars => OnePlace'
  BY PlaceStep
<1>2. OnePlace => ConsumedOnce
  BY DEF OnePlace
<1> QED BY <1>1, <1>2, PlaceInit, TypedAlways, PTL DEF Spec

-----------------------------------------------------------------------------
(***************************************************************************)
(* Polite clients.  They wait for their prompt, so one session at a time   *)
(* is at work, and the table, the files and the data agree but for what    *)
(* that session has under way, for FIFOs that could not be made and for    *)
(* what an aborted process has taken along.                                *)
(***************************************************************************)

Output == {"unlinkOut", "mkfifo", "openHold", "openWrite"}

Alone == \A p, q \in Session : Busy(p) /\ Busy(q) => p = q

\* Who has a slot has logged in and not out.
Seated ==
    \A s \in Slot : Online(s) => pc[user[s]] \in Working \union {"idle", "aborted"} /\ slot[user[s]] = s

\* An output, and what of it is in the FIFO while n pieces are left to write.
Whole(t) == {t} \X (1 .. size[t])
Written(t, n) == {t} \X (n + 1 .. size[t])

\* The line of its sender has yet to write the output that the flag promises.
Pending(t) ==
    /\ t = Current(t[1])
    /\ pc[t[1]] \in Output \/ (pc[t[1]] \in {"read", "write"} /\ outputFd[t[1]] = t)

FlagStands(x) ==
    exists[x] # None =>
        /\ user[x[1]] = exists[x][1]
        /\ meantFor[exists[x]] = user[x[2]]
        /\ data[exists[x]] = Whole(exists[x]) \/ Pending(exists[x]) \/ Spoilt(exists[x])

FlagsStand == \A x \in Path : FlagStands(x)

\* The file is the FIFO of the transfer, or missing because that could not be made.
IsFileOf(f, t) == f = t \/ (f = None /\ t \in unmade)

\* The flag of the path has changed, the file has yet to follow.
Behind(p, x) ==
    \/ pc[p] \in {"openIn", "unlinkIn"} /\ x = InPath(p)
    \/ pc[p] \in {"unlinkOut", "mkfifo"} /\ x = OutPath(p)
    \/ pc[p] = "cleanup" /\ x \in unlinks[p]

FilesStand ==
    \A x \in Path : IsFileOf(file[x], exists[x]) \/ \E p \in Session : Behind(p, x)

\* A FIFO holds its own output, and nothing before the transfer is made.
DataStands ==
    \A f \in Transfer : (\A b \in data[f] : b[1] = f) /\ (~Made(f) => data[f] = {})

\* The line of the transfer is over.
Over(t) == t[2] < lines[t[1]] \/ (t = Current(t[1]) /\ pc[t[1]] \notin Working)

\* A line that has begun claimed a transfer that was over, meant for its session.
ClaimStands(t) ==
    claim[t] # None =>
        /\ t[2] <= lines[t[1]]
        /\ t = Current(t[1]) => pc[t[1]] \notin {"new", "claimIn"}
        /\ Over(claim[t])
        /\ meantFor[claim[t]] = t[1]

\* What it read is the output of that transfer, in the end the whole of it.
GotStands(t) ==
    /\ \A b \in got[t] : b[1] = claim[t]
    /\ claim[t] # None /\ HasRead(t) => got[t] = Whole(claim[t]) \/ Spoilt(claim[t])

\* The input half of a line, up to the end of its input.
InputStands(p) ==
    LET c == claim[Current(p)] IN
    /\ pc[p] = "openIn" => c # None /\ IsFileOf(file[InPath(p)], c)
    /\ pc[p] \in {"openIn", "unlinkIn"} => exists[InPath(p)] = None
    /\ pc[p] \in {"claimIn", "openIn"} => inputFd[p] = None
    /\ pc[p] \in {"unlinkIn", "claimOut", "read"} \union Output => IsFileOf(inputFd[p], c)
    /\ pc[p] \in Working \ {"write"} /\ c # None =>
         got[Current(p)] \union data[c] = Whole(c) \/ Spoilt(c)

\* The output half.
OutputStands(p) ==
    LET t == Current(p) IN
    /\ pc[p] \in Output => exists[OutPath(p)] = t
    /\ pc[p] = "mkfifo" => file[OutPath(p)] = None
    /\ pc[p] \in InputHalf \union OutputHalf => outputFd[p] = None
    /\ pc[p] \in {"read", "write"} => outputFd[p] \in {None, t}
    /\ pc[p] \in Output \/ (pc[p] = "read" /\ outputFd[p] = t) => data[t] = {}
    /\ pc[p] = "write" /\ outputFd[p] = t => left[p] <= size[t] /\ data[t] = Written(t, left[p])

LogoutStands(p) == pc[p] = "cleanup" => \A x \in unlinks[p] : exists[x] = None

\* A session keeps open its own FIFOs only.
HoldsOwn == \A p \in Session : \A t \in hold[p] : t[1] = p

Clean ==
    /\ Alone /\ Seated
    /\ FlagsStand /\ FilesStand /\ DataStands
    /\ \A t \in Transfer : ClaimStands(t) /\ GotStands(t)
    /\ \A p \in Session : InputStands(p) /\ OutputStands(p) /\ LogoutStands(p)
    /\ HoldsOwn

LEMMA CleanInit == Init => Clean
<1> USE NoneIsNoTransfer DEF Init
<1>1. Init => Alone /\ Seated
  BY SessionAssumption DEF Alone, Busy, Seated, Online
<1>2. Init => FlagsStand /\ FilesStand /\ DataStands
  BY DEF FlagsStand, FlagStands, FilesStand, IsFileOf, DataStands
<1>3. Init => \A t \in Transfer : ClaimStands(t) /\ GotStands(t)
  BY DEF ClaimStands, GotStands
<1>4. Init => \A p \in Session : InputStands(p) /\ OutputStands(p) /\ LogoutStands(p)
  BY DEF InputStands, OutputStands, LogoutStands, Output, Working, InputHalf, OutputHalf
<1>5. Init => HoldsOwn
  BY DEF HoldsOwn
<1> QED BY <1>1, <1>2, <1>3, <1>4, <1>5 DEF Clean

LEMMA AtRest ==
    ASSUME ~Overlap, NEW p \in Session, Environment(p)
    PROVE  \A q \in Session : ~Busy(q)
BY DEF Environment, Login, ReadLine, Overflow, Cleanup, EnvMayAct, Quiet

LEMMA AtWork ==
    ASSUME Typed, Alone, NEW p \in Session, Line(p)
    PROVE  Busy(p) /\ \A q \in Session \ {p} : ~Busy(q) /\ pc'[q] = pc[q]
<1>1. Busy(p)
  BY DEF Busy, Line, ClaimIn, OpenIn, UnlinkIn, ClaimOut, UnlinkOut, Mkfifo, MkfifoFails, OpenHold,
         OpenWrite, ReadPiece, EndOfInput, WritePiece, EndOfLine, UnlinkNoted, Exit
<1>2. \A q \in Session \ {p} : ~Busy(q)
  BY <1>1 DEF Alone
<1>3. \A q \in Session \ {p} : pc'[q] = pc[q]
  BY DEF Typed, TypeOK, Goto, Line, ClaimIn, OpenIn, UnlinkIn, ClaimOut, UnlinkOut, Mkfifo, MkfifoFails,
         OpenHold, OpenWrite, ReadPiece, EndOfInput, WritePiece, EndOfLine, UnlinkNoted, Exit
<1> QED BY <1>1, <1>2, <1>3

\* While p acts, nobody else is at work, before and after.
LEMMA OthersRest ==
    ASSUME ~Overlap, Typed, Alone, NEW p \in Session, Environment(p) \/ Line(p)
    PROVE  \A q \in Session \ {p} : ~Busy(q) /\ ~Busy(q)' /\ pc'[q] = pc[q]
<1>1. \A q \in Session \ {p} : ~Busy(q)
  BY AtRest, AtWork
<1>2. \A q \in Session \ {p} : pc'[q] = pc[q]
  <2>1. CASE Environment(p)
    BY <2>1 DEF Typed, TypeOK, Goto, Environment, Login, ReadLine, Overflow, Cleanup
  <2> QED BY <2>1, AtWork
<1> QED BY <1>1, <1>2 DEF Busy

LEMMA AloneStep ==
    ASSUME ~Overlap, Typed, Alone, NEW p \in Session, Environment(p) \/ Line(p)
    PROVE  Alone'
BY OthersRest DEF Alone

LEMMA SeatedStep ==
    ASSUME Typed, Seated, NEW p \in Session, Environment(p) \/ Line(p)
    PROVE  Seated'
<1> USE SessionAssumption DEF Typed, TypeOK, Goto, registry, Seated, Online, Working, InputHalf, OutputHalf
<1>1. ASSUME NEW s \in Slot, Login(p, s) PROVE Seated'
  BY <1>1 DEF Login
<1>2. ASSUME NEW f \in Slot \union {NoUser}, NEW t \in Slot \union {NoUser}, ReadLine(p, f, t)
      PROVE  Seated'
  BY <1>2 DEF ReadLine
<1>3. CASE Cleanup(p)
  BY <1>3 DEF Cleanup, LineShape
<1>4. CASE UNCHANGED registry /\ \E l : pc' = [pc EXCEPT ![p] = l] /\ l \in Working \union {"idle", "aborted"}
  BY <1>4
<1>5. CASE \E x \in Path : UnlinkNoted(p, x)
  BY <1>5 DEF UnlinkNoted
<1>6. CASE Exit(p)
  BY <1>6 DEF Exit
<1>7. CASE ReadPiece(p) \/ WritePiece(p)
  BY <1>7 DEF ReadPiece, WritePiece
<1>8. CASE Line(p)
  BY <1>4, <1>5, <1>6, <1>7, <1>8
  DEF Line, ClaimIn, OpenIn, UnlinkIn, ClaimOut, UnlinkOut, Mkfifo, MkfifoFails, OpenHold, OpenWrite,
      EndOfInput, EndOfLine, AfterInput
<1> QED BY <1>1, <1>2, <1>3, <1>4, <1>8 DEF Environment, Overflow

\* What is spoilt stays so: a process that has aborted does nothing more.
LEMMA SpoiltKept ==
    ASSUME Typed, NEW p \in Session, Environment(p) \/ Line(p), NEW t \in Transfer, Spoilt(t)
    PROVE  Spoilt(t)'
<1> USE DEF Typed, TypeOK, Goto, Spoilt, Transfer
<1>1. unmade \subseteq unmade'
  BY DEF Environment, Login, ReadLine, Overflow, Cleanup, Line, ClaimIn, OpenIn, UnlinkIn, ClaimOut, UnlinkOut,
         Mkfifo, MkfifoFails, OpenHold, OpenWrite, ReadPiece, EndOfInput, WritePiece, EndOfLine, UnlinkNoted,
         Exit, history
<1>2. \A q \in Session : pc[q] = "aborted" => pc'[q] = "aborted"
  BY DEF Environment, Login, ReadLine, Overflow, Cleanup, Line, ClaimIn, OpenIn, UnlinkIn, ClaimOut, UnlinkOut,
         Mkfifo, MkfifoFails, OpenHold, OpenWrite, ReadPiece, EndOfInput, WritePiece, EndOfLine, UnlinkNoted, Exit
<1> QED BY <1>1, <1>2

\* A transfer whose line is over stays so, and its output has its final size.
LEMMA OverKept ==
    ASSUME Typed, Typed', NEW p \in Session, Environment(p) \/ Line(p), NEW t \in Transfer, Over(t)
    PROVE  Over(t)' /\ Whole(t)' = Whole(t)
<1> USE DEF Typed, TypeOK, Goto, Over, Current, Transfer
<1>1. Whole(t)' = Whole(t)
  <2>1. CASE EndOfInput(p)
    <3>1. t # Current(p) BY <2>1 DEF EndOfInput, Working
    <3>2. size'[t] = size[t] BY <2>1, <3>1 DEF EndOfInput
    <3> QED BY <3>2 DEF Whole
  <2>2. CASE UNCHANGED size
    BY <2>2 DEF Whole
  <2> QED
    BY <2>1, <2>2
    DEF Environment, Login, ReadLine, Overflow, Cleanup, Line, ClaimIn, OpenIn, UnlinkIn, ClaimOut, UnlinkOut,
        Mkfifo, MkfifoFails, OpenHold, OpenWrite, ReadPiece, WritePiece, EndOfLine, UnlinkNoted, Exit, history
<1>2. Over(t)'
  <2>1. CASE \E f, r \in Slot \union {NoUser} : ReadLine(p, f, r)
    BY <2>1 DEF ReadLine
  <2>2. CASE UNCHANGED lines /\ pc'[p] \notin Working /\ \A q \in Session \ {p} : pc'[q] = pc[q]
    BY <2>2
  <2>3. CASE UNCHANGED lines /\ pc[p] \in Working /\ \A q \in Session \ {p} : pc'[q] = pc[q]
    BY <2>3
  <2>4. CASE Environment(p)
    <3>1. CASE \E s \in Slot : Login(p, s)
      BY <2>2, <3>1 DEF Login, Working, InputHalf, OutputHalf
    <3>2. CASE Overflow(p) \/ Cleanup(p)
      BY <2>2, <3>2 DEF Overflow, Cleanup, Working, InputHalf, OutputHalf
    <3> QED BY <2>1, <2>4, <3>1, <3>2 DEF Environment
  <2>5. CASE (\E x \in Path : UnlinkNoted(p, x)) \/ Exit(p)
    BY <2>2, <2>5 DEF UnlinkNoted, Exit, Working, InputHalf, OutputHalf
  <2>6. CASE Line(p)
    BY <2>3, <2>5, <2>6
    DEF Line, ClaimIn, OpenIn, UnlinkIn, AfterInput, ClaimOut, UnlinkOut, Mkfifo, MkfifoFails, OpenHold,
        OpenWrite, ReadPiece, EndOfInput, WritePiece, EndOfLine, Working, InputHalf, OutputHalf
  <2> QED BY <2>4, <2>6
<1> QED BY <1>1, <1>2

\* A transfer that a line other than its own can claim is over.
LEMMA FlagIsOver ==
    ASSUME Typed, OnePlace, NEW p \in Session, pc[p] \in Early, \A q \in Session \ {p} : ~Busy(q),
           NEW x \in Path, exists[x] # None
    PROVE  Over(exists[x])
<1>1. PICK t \in Transfer : t = exists[x] /\ Made(t) BY DEF OnePlace, AllMade, Made
<1>2. t[1] \in Session /\ t = <<t[1], t[2]>> /\ t[2] \in Int BY DEF Transfer
<1>3. CASE t[1] = p BY <1>1, <1>2, <1>3 DEF Made, Over, Typed, TypeOK
<1>4. CASE t[1] # p
  <2>1. pc[t[1]] \notin Working BY <1>2, <1>4 DEF Busy, Working, InputHalf, OutputHalf
  <2>2. t[2] <= lines[t[1]] /\ lines[t[1]] \in Int BY <1>1, <1>2 DEF Made, Typed, TypeOK
  <2>3. CASE t[2] < lines[t[1]] BY <1>1, <2>3 DEF Over
  <2>4. CASE t[2] = lines[t[1]] BY <1>1, <1>2, <2>1, <2>4 DEF Over, Current
  <2> QED BY <1>2, <2>2, <2>3, <2>4
<1> QED BY <1>1, <1>3, <1>4

LEMMA FlagsStandEnvironment ==
    ASSUME ~Overlap, Typed, Typed', PipesBetweenUsers, OnePlace, Clean, NEW p \in Session, Environment(p)
    PROVE  FlagsStand'
<1> USE NoneIsNoTransfer DEF Typed, TypeOK, Goto, registry, Clean, history
<1>1. \A t \in Transfer : ~Pending(t)
  <2>1. \A q \in Session : ~Busy(q) BY AtRest
  <2> QED BY <2>1 DEF Pending, Busy, Output, Transfer
<1> SUFFICES ASSUME NEW x \in Path, exists'[x] # None PROVE FlagStands(x)'
  BY DEF FlagsStand, FlagStands
<1>2. exists'[x] = exists[x]
  <2>1. CASE Cleanup(p) BY <2>1 DEF Cleanup
  <2>2. CASE exists' = exists BY <2>2
  <2> QED BY <2>1, <2>2 DEF Environment, Login, ReadLine, Overflow
<1>3. PICK t \in Transfer : t = exists[x] BY <1>2 DEF Fifo
<1>4. /\ user[x[1]] = t[1] /\ meantFor[t] = user[x[2]]
      /\ data[t] = Whole(t) \/ Spoilt(t)
  BY <1>1, <1>2, <1>3 DEF FlagsStand, FlagStands
<1>5. x[1] \in Slot /\ x[2] \in Slot BY DEF Path
<1>6. user'[x[1]] = user[x[1]] /\ user'[x[2]] = user[x[2]]
  <2>1. CASE \E s \in Slot : Login(p, s)
    BY <1>2, <1>5, <2>1 DEF Login, PipesBetweenUsers, Online
  <2>2. CASE Cleanup(p)
    BY <1>5, <2>2 DEF Cleanup, Touches
  <2> QED BY <2>1, <2>2 DEF Environment, ReadLine, Overflow
<1>7. meantFor' = meantFor /\ size' = size
  BY DEF Environment, Login, ReadLine, Overflow, Cleanup
<1>8. data'[t] = Whole(t)' \/ Spoilt(t)'
  <2>1. Spoilt(t) => Spoilt(t)' BY SpoiltKept
  <2>2. CASE Overflow(p)
    <3>1. t[1] = p => Spoilt(t)' BY <2>2 DEF Overflow, Spoilt
    <3>2. t[1] # p => data'[t] = data[t] BY <2>2 DEF Overflow, Forgotten, HoldsOwn
    <3> QED BY <1>4, <1>7, <2>1, <3>1, <3>2 DEF Whole
  <2>3. CASE data' = data
    BY <1>4, <1>7, <2>1, <2>3 DEF Whole
  <2> QED BY <2>2, <2>3 DEF Environment, Login, ReadLine, Cleanup
<1> QED BY <1>2, <1>3, <1>4, <1>6, <1>7, <1>8 DEF FlagStands

\* Flags and what is behind them survive a step of a line that leaves the output alone
\* that it still has to write.
LEMMA FlagsKept ==
    ASSUME Typed, FlagsStand, NEW p \in Session,
           \A q \in Session \ {p} : ~Busy(q),
           \A t \in Transfer : Spoilt(t) => Spoilt(t)',
           \A x \in Path : exists'[x] \in {exists[x], None},
           UNCHANGED <<user, meantFor, size>>,
           \A x \in Path : exists[x] # None => data'[exists[x]] = data[exists[x]],
           \A t \in Transfer : t[1] = p /\ Pending(t) => Pending(t)' \/ Spoilt(t)'
    PROVE  FlagsStand'
<1> USE NoneIsNoTransfer DEF Typed, TypeOK, Fifo
<1>1. \A t \in Transfer : Pending(t) => t[1] = p
  BY DEF Pending, Busy, Output, Transfer
<1> SUFFICES ASSUME NEW x \in Path, exists'[x] # None PROVE FlagStands(x)'
  BY DEF FlagsStand, FlagStands
<1>2. PICK t \in Transfer : t = exists[x] /\ exists'[x] = t OBVIOUS
<1>3. user[x[1]] = t[1] /\ meantFor[t] = user[x[2]] /\ (data[t] = Whole(t) \/ Pending(t) \/ Spoilt(t))
  BY <1>2 DEF FlagsStand, FlagStands
<1>4. data'[t] = data[t] /\ Whole(t)' = Whole(t) BY <1>2 DEF Whole
<1>5. data'[t] = Whole(t)' \/ Pending(t)' \/ Spoilt(t)' BY <1>1, <1>3, <1>4
<1> QED BY <1>2, <1>3, <1>5 DEF FlagStands

LEMMA FlagsStandLine ==
    ASSUME Typed, Typed', PipesBetweenUsers, OnePlace, Clean, NEW p \in Session, Line(p)
    PROVE  FlagsStand'
<1> USE NoneIsNoTransfer DEF Clean, Typed, TypeOK, Goto, registry, history, fds
<1>0. (\A q \in Session \ {p} : ~Busy(q)) /\ \A t \in Transfer : Spoilt(t) => Spoilt(t)'
  BY AtWork, SpoiltKept
<1>1. CASE ClaimIn(p) \/ OpenIn(p) \/ UnlinkIn(p) \/ \E x \in Path : UnlinkNoted(p, x)
  <2>1. \A t \in Transfer : t[1] = p => ~Pending(t)
    BY <1>1 DEF Pending, Output, ClaimIn, OpenIn, UnlinkIn, UnlinkNoted
  <2>2. \A x \in Path : exists'[x] \in {exists[x], None}
    BY <1>1 DEF ClaimIn, Taken, OpenIn, UnlinkIn, UnlinkNoted
  <2>3. UNCHANGED <<user, meantFor, size, data>> BY <1>1 DEF ClaimIn, OpenIn, UnlinkIn, UnlinkNoted
  <2> HIDE DEF Clean, Typed, TypeOK, Goto, registry, history, fds
  <2> QED BY <1>0, <2>1, <2>2, <2>3, FlagsKept DEF Clean
<1>2. CASE ClaimOut(p)
  <2>1. \A t \in Transfer : t[1] = p => ~Pending(t)
    BY <1>2 DEF Pending, Output, ClaimOut
  <2>2. CASE exists' = exists /\ meantFor' = meantFor
    <3>1. UNCHANGED <<user, data, size>> BY <1>2 DEF ClaimOut
    <3> HIDE DEF Clean, Typed, TypeOK, Goto, registry, history, fds
    <3> QED BY <1>0, <2>1, <2>2, <3>1, FlagsKept DEF Clean
  <2>3. CASE /\ exists' = [exists EXCEPT ![OutPath(p)] = Current(p)]
             /\ meantFor' = [meantFor EXCEPT ![Current(p)] = user[to[p]]]
             /\ pc' = [pc EXCEPT ![p] = "unlinkOut"]
    <3>1. PICK y \in Path, u \in Transfer : y = OutPath(p) /\ u = Current(p)
      BY <1>2 DEF ClaimOut, LineShape, Working, OutputHalf, OutPath, Path, Current, Transfer
    <3>2. ~Made(u) BY <1>2, <3>1 DEF Made, Current, Early, InputHalf, ClaimOut
    <3>3. y[1] = slot[p] /\ y[2] = to[p] /\ u[1] = p /\ user[slot[p]] = p
      BY <1>2, <3>1 DEF OutPath, Current, ClaimOut, LineShape, Working, OutputHalf
    <3>4. Pending(u)'
      BY <1>2, <2>3, <3>1, <3>3 DEF Pending, Output, Current, ClaimOut
    <3>5. UNCHANGED <<user, data, size>> BY <1>2 DEF ClaimOut
    <3>6. FlagStands(y)' BY <2>3, <3>1, <3>3, <3>4, <3>5 DEF FlagStands
    <3>7. ASSUME NEW x \in Path, x # y, exists[x] # None PROVE FlagStands(x)'
      <4>1. PICK t \in Transfer : t = exists[x] /\ t # u
        BY <3>2, <3>7 DEF OnePlace, AllMade, Fifo
      <4>2. user[x[1]] = t[1] /\ meantFor[t] = user[x[2]] /\ (data[t] = Whole(t) \/ Pending(t) \/ Spoilt(t))
        BY <3>7, <4>1 DEF FlagsStand, FlagStands
      <4>3. ~Pending(t)
        BY <1>0, <1>2 DEF Pending, Busy, Output, Transfer, ClaimOut
      <4>4. exists'[x] = t /\ meantFor'[t] = meantFor[t] BY <2>3, <3>1, <3>7, <4>1
      <4>5. Whole(t)' = Whole(t) BY <3>5 DEF Whole
      <4> QED BY <1>0, <3>5, <4>2, <4>3, <4>4, <4>5 DEF FlagStands
    <3>8. \A x \in Path : x # y => exists'[x] = exists[x] BY <2>3, <3>1
    <3> QED BY <3>6, <3>7, <3>8 DEF FlagsStand, FlagStands
  <2> QED BY <1>2, <2>2, <2>3 DEF ClaimOut
<1>3. CASE UnlinkOut(p) \/ Mkfifo(p) \/ MkfifoFails(p) \/ OpenHold(p)
  <2>1. \A t \in Transfer : t[1] = p /\ Pending(t) => Pending(t)' \/ Spoilt(t)'
    BY <1>3 DEF Pending, Current, Output, Spoilt, UnlinkOut, Mkfifo, MkfifoFails, OpenHold
  <2>2. UNCHANGED <<user, exists, meantFor, size, data>>
    BY <1>3 DEF UnlinkOut, Mkfifo, MkfifoFails, OpenHold
  <2> HIDE DEF Clean, Typed, TypeOK, Goto, registry, history, fds
  <2> QED BY <1>0, <2>1, <2>2, FlagsKept DEF Clean
<1>4. CASE OpenWrite(p)
  <2>1. file[OutPath(p)] = Current(p) \/ Spoilt(Current(p))
    <3>1. OutPath(p) \in Path
      BY <1>4 DEF OpenWrite, LineShape, Working, OutputHalf, OutPath, Path
    <3>2. \A q \in Session : ~Behind(q, OutPath(p))
      BY <1>0, <1>4 DEF Behind, Busy, OpenWrite
    <3> QED BY <1>4, <3>1, <3>2 DEF FilesStand, IsFileOf, OutputStands, Output, OpenWrite, Spoilt
  <2>2. \A t \in Transfer : t[1] = p /\ Pending(t) => t = Current(p)
    BY DEF Pending
  <2>3. Current(p) \in Transfer BY <1>4 DEF OpenWrite, LineShape, Working, OutputHalf, Current, Transfer
  <2>4. file[OutPath(p)] = Current(p) => \A t \in Transfer : t[1] = p /\ Pending(t) => Pending(t)'
    BY <1>4, <2>2 DEF Pending, Current, Output, OpenWrite
  <2>5. \A t \in Transfer : t[1] = p /\ Pending(t) => Pending(t)' \/ Spoilt(t)'
    BY <1>0, <2>1, <2>2, <2>3, <2>4
  <2>6. UNCHANGED <<user, exists, meantFor, size, data>> BY <1>4 DEF OpenWrite
  <2> HIDE DEF Clean, Typed, TypeOK, Goto, registry, history, fds
  <2> QED BY <1>0, <2>5, <2>6, FlagsKept DEF Clean
<1>5. CASE ReadPiece(p)
  <2>1. \A t \in Transfer : t[1] = p /\ Pending(t) => Pending(t)'
    BY <1>5 DEF Pending, Current, Output, ReadPiece
  <2>2. \A x \in Path : exists[x] # None => data'[exists[x]] = data[exists[x]]
    <3>1. inputFd[p] = claim[Current(p)] BY <1>5 DEF InputStands, IsFileOf, ReadPiece
    <3>2. Current(p) \in Transfer BY <1>5 DEF ReadPiece, LineShape, Working, Current, Transfer
    <3>3. \A x \in Path : exists[x] # None => exists[x] # inputFd[p]
      BY <3>1, <3>2 DEF OnePlace, FlagsApart
    <3> QED BY <1>5, <3>3 DEF ReadPiece, Fifo
  <2>3. UNCHANGED <<user, exists, meantFor, size>> BY <1>5 DEF ReadPiece
  <2> HIDE DEF Clean, Typed, TypeOK, Goto, registry, history, fds
  <2> QED BY <1>0, <2>1, <2>2, <2>3, FlagsKept DEF Clean
<1>6. CASE EndOfInput(p)
  <2>1. UNCHANGED <<user, exists, meantFor, data, outputFd, lines>> BY <1>6 DEF EndOfInput
  <2>2. ASSUME NEW x \in Path, exists[x] # None PROVE FlagStands(x)'
    <3>1. PICK t \in Transfer : t = exists[x] BY <2>2 DEF Fifo
    <3>2. user[x[1]] = t[1] /\ meantFor[t] = user[x[2]] /\ (data[t] = Whole(t) \/ Pending(t) \/ Spoilt(t))
      BY <2>2, <3>1 DEF FlagsStand, FlagStands
    <3>3. Pending(t) => Pending(t)'
      <4>1. Pending(t) => t[1] = p BY <1>0 DEF Pending, Busy, Output, Transfer
      <4> QED BY <1>6, <2>1, <4>1 DEF Pending, Current, Output, EndOfInput
    <3>4. CASE t # Current(p) \/ outputFd[p] = None
      <4>1. size'[t] = size[t] BY <1>6, <3>4 DEF EndOfInput
      <4>2. Whole(t)' = Whole(t) BY <4>1 DEF Whole
      <4> QED BY <1>0, <2>1, <2>2, <3>1, <3>2, <3>3, <4>2 DEF FlagStands
    <3>5. CASE t = Current(p) /\ outputFd[p] # None
      <4>1. outputFd[p] = t BY <1>6, <3>5 DEF OutputStands, EndOfInput
      <4>2. Pending(t) BY <1>6, <3>5, <4>1 DEF Pending, Current, EndOfInput
      <4> QED BY <2>1, <2>2, <3>1, <3>2, <3>3, <4>2 DEF FlagStands
    <3> QED BY <3>4, <3>5
  <2> QED BY <2>1, <2>2 DEF FlagsStand, FlagStands
<1>7. CASE WritePiece(p)
  <2>1. UNCHANGED <<user, exists, meantFor, size, outputFd, lines, pc>> BY <1>7 DEF WritePiece
  <2>2. outputFd[p] = Current(p) BY <1>7 DEF OutputStands, WritePiece
  <2>3. ASSUME NEW x \in Path, exists[x] # None PROVE FlagStands(x)'
    <3>1. PICK t \in Transfer : t = exists[x] BY <2>3 DEF Fifo
    <3>2. user[x[1]] = t[1] /\ meantFor[t] = user[x[2]] /\ (data[t] = Whole(t) \/ Pending(t) \/ Spoilt(t))
      BY <2>3, <3>1 DEF FlagsStand, FlagStands
    <3>3. (Pending(t) <=> Pending(t)') /\ Whole(t)' = Whole(t)
      BY <2>1 DEF Pending, Current, Whole
    <3>4. CASE t # Current(p)
      <4>1. data'[t] = data[t] BY <1>7, <2>2, <3>4 DEF WritePiece
      <4> QED BY <1>0, <2>1, <2>3, <3>1, <3>2, <3>3, <4>1 DEF FlagStands
    <3>5. CASE t = Current(p)
      <4>1. Pending(t) BY <1>7, <2>2, <3>5 DEF Pending, Current, WritePiece
      <4> QED BY <2>1, <2>3, <3>1, <3>2, <3>3, <4>1 DEF FlagStands
    <3> QED BY <3>4, <3>5
  <2> QED BY <2>1, <2>3 DEF FlagsStand, FlagStands
<1>8. CASE EndOfLine(p)
  <2>1. UNCHANGED <<user, exists, meantFor, size, data>> BY <1>8 DEF EndOfLine
  <2>2. ASSUME NEW x \in Path, exists[x] # None PROVE FlagStands(x)'
    <3>1. PICK t \in Transfer : t = exists[x] BY <2>2 DEF Fifo
    <3>2. user[x[1]] = t[1] /\ meantFor[t] = user[x[2]] /\ (data[t] = Whole(t) \/ Pending(t) \/ Spoilt(t))
      BY <2>2, <3>1 DEF FlagsStand, FlagStands
    <3>3. Pending(t) => data[t] = Whole(t)
      <4>1. Pending(t) => t = Current(p) /\ outputFd[p] = t
        BY <1>0, <1>8 DEF Pending, Busy, Output, Transfer, EndOfLine
      <4>2. left[p] = 0 /\ pc[p] = "write" BY <1>8 DEF EndOfLine
      <4>3. Written(t, 0) = Whole(t) BY DEF Written, Whole
      <4> QED BY <4>1, <4>2, <4>3 DEF OutputStands
    <3>4. Whole(t)' = Whole(t) BY <2>1 DEF Whole
    <3> QED BY <1>0, <2>1, <2>2, <3>1, <3>2, <3>3, <3>4 DEF FlagStands
  <2> QED BY <2>1, <2>2 DEF FlagsStand, FlagStands
<1>9. CASE Exit(p)
  <2>1. UNCHANGED <<user, exists, meantFor, size>> BY <1>9 DEF Exit
  <2>2. ASSUME NEW x \in Path, exists[x] # None PROVE data'[exists[x]] = data[exists[x]]
    <3>1. PICK t \in Transfer : t = exists[x] BY <2>2 DEF Fifo
    <3>2. user[x[1]] = t[1] BY <2>2, <3>1 DEF FlagsStand, FlagStands
    <3>3. x[1] \in Slot /\ pc[user[x[1]]] \in Working \union {"idle", "aborted"}
      BY <2>2 DEF PipesBetweenUsers, Seated, Path
    <3>4. t[1] # p BY <1>9, <3>2, <3>3 DEF Exit, Working, InputHalf, OutputHalf
    <3> QED BY <1>9, <3>1, <3>4 DEF Exit, Forgotten, HoldsOwn
  <2>3. \A t \in Transfer : t[1] = p => ~Pending(t)
    BY <1>9 DEF Pending, Output, Exit
  <2> HIDE DEF Clean, Typed, TypeOK, Goto, registry, history, fds
  <2> QED BY <1>0, <2>1, <2>2, <2>3, FlagsKept DEF Clean
<1> QED BY <1>1, <1>2, <1>3, <1>4, <1>5, <1>6, <1>7, <1>8, <1>9 DEF Line

LEMMA FilesStandStep ==
    ASSUME ~Overlap, Typed, Clean, NEW p \in Session, Environment(p) \/ Line(p)
    PROVE  FilesStand'
<1> USE DEF Typed, TypeOK, Goto, registry, history, fds, IsFileOf
<1>0. \A q \in Session \ {p} : ~Busy(q) BY OthersRest DEF Clean
<1>1. \A q \in Session, x \in Path : Behind(q, x) => q = p
  BY <1>0 DEF Behind, Busy
<1>2. \A x \in Path : IsFileOf(file[x], exists[x]) \/ Behind(p, x)
  BY <1>1 DEF Clean, FilesStand
<1>3. SUFFICES \A x \in Path : IsFileOf(file[x], exists[x])' \/ Behind(p, x)'
  BY DEF FilesStand
<1>4. CASE Environment(p)
  <2>1. \A x \in Path : IsFileOf(file[x], exists[x])
    <3>1. ~Busy(p) BY <1>4, AtRest
    <3> QED BY <1>2, <3>1 DEF Behind, Busy
  <2>2. CASE \E s \in Slot : Login(p, s) BY <2>1, <2>2 DEF Login
  <2>3. CASE \E f, t \in Slot \union {NoUser} : ReadLine(p, f, t) BY <2>1, <2>3 DEF ReadLine
  <2>4. CASE Cleanup(p) BY <2>1, <2>4 DEF Cleanup, Behind
  <2>5. CASE Overflow(p) BY <2>1, <2>5 DEF Overflow
  <2> QED BY <1>4, <2>2, <2>3, <2>4, <2>5 DEF Environment
<1>5. CASE ClaimIn(p)
  BY <1>2, <1>5 DEF ClaimIn, Taken, Behind, InPath
<1>6. CASE OpenIn(p)
  BY <1>2, <1>6 DEF OpenIn, Behind, InPath
<1>7. CASE UnlinkIn(p)
  BY <1>2, <1>7 DEF UnlinkIn, Unlinked, Behind, Clean, InputStands
<1>8. CASE ClaimOut(p)
  BY <1>2, <1>8 DEF ClaimOut, Behind, OutPath
<1>9. CASE UnlinkOut(p)
  BY <1>2, <1>9 DEF UnlinkOut, Unlinked, Behind, OutPath
<1>10. CASE Mkfifo(p) \/ MkfifoFails(p)
  BY <1>2, <1>10 DEF Mkfifo, MkfifoFails, Behind, Clean, OutputStands, Output
<1>11. CASE OpenHold(p) \/ OpenWrite(p) \/ ReadPiece(p) \/ EndOfInput(p) \/ WritePiece(p) \/ EndOfLine(p)
  BY <1>2, <1>11 DEF OpenHold, OpenWrite, ReadPiece, EndOfInput, WritePiece, EndOfLine, Behind
<1>12. ASSUME NEW x \in Path, UnlinkNoted(p, x)
       PROVE  \A y \in Path : IsFileOf(file[y], exists[y])' \/ Behind(p, y)'
  BY <1>2, <1>12 DEF UnlinkNoted, Unlinked, Behind, Clean, LogoutStands
<1>13. CASE Exit(p)
  BY <1>2, <1>13 DEF Exit, Behind
<1> QED BY <1>4, <1>5, <1>6, <1>7, <1>8, <1>9, <1>10, <1>11, <1>12, <1>13 DEF Line

LEMMA HoldsStep ==
    ASSUME Typed, Clean, NEW p \in Session, Environment(p) \/ Line(p)
    PROVE  HoldsOwn'
<1> USE DEF Typed, TypeOK, Goto, registry, fds, HoldsOwn, Clean
<1>1. CASE OpenHold(p)
  <2>1. OutPath(p) \in Path
    BY <1>1 DEF OpenHold, LineShape, Working, OutputHalf, OutPath, Path
  <2>2. \A q \in Session : ~Behind(q, OutPath(p))
    <3>1. \A q \in Session \ {p} : ~Busy(q) BY <1>1, AtWork DEF Line
    <3> QED BY <1>1, <3>1 DEF Behind, Busy, OpenHold
  <2>3. file[OutPath(p)] \in {Current(p), None}
    BY <1>1, <2>1, <2>2 DEF FilesStand, IsFileOf, OutputStands, Output, OpenHold
  <2> QED BY <1>1, <2>3 DEF OpenHold, Held, Current
<1>2. CASE OpenWrite(p)
  BY <1>2 DEF OpenWrite
<1>3. CASE UNCHANGED hold
  BY <1>3
<1> QED
  BY <1>1, <1>2, <1>3
  DEF Environment, Login, ReadLine, Overflow, Cleanup, Line, ClaimIn, OpenIn, UnlinkIn, ClaimOut, UnlinkOut,
      Mkfifo, MkfifoFails, ReadPiece, EndOfInput, WritePiece, EndOfLine, UnlinkNoted, Exit

LEMMA DataStep ==
    ASSUME Typed, Clean, NEW p \in Session, Environment(p) \/ Line(p)
    PROVE  DataStands'
<1> USE DEF Typed, TypeOK, DataStands, Clean
<1>1. \A f \in Transfer : ~Made(f)' => ~Made(f) BY MadeKept
<1>2. CASE WritePiece(p)
  <2>1. outputFd[p] = Current(p) BY <1>2 DEF OutputStands, WritePiece
  <2>2. Made(Current(p))
    BY <1>2 DEF WritePiece, Made, Early, InputHalf, LineShape, Working, Current, Transfer
  <2>3. data' = [data EXCEPT ![Current(p)] = {<<Current(p), left[p]>>}] BY <1>2, <2>1 DEF WritePiece
  <2> QED BY <1>1, <2>2, <2>3
<1>3. CASE \A f \in Transfer : data'[f] \subseteq data[f]
  BY <1>1, <1>3
<1>4. CASE ReadPiece(p)
  BY <1>3, <1>4 DEF ReadPiece
<1>5. CASE Exit(p) \/ Overflow(p)
  BY <1>3, <1>5 DEF Exit, Overflow, Forgotten
<1> QED
  BY <1>2, <1>3, <1>4, <1>5
  DEF Environment, Login, ReadLine, Cleanup, Line, ClaimIn, OpenIn, UnlinkIn, ClaimOut, UnlinkOut,
      Mkfifo, MkfifoFails, OpenHold, OpenWrite, EndOfInput, EndOfLine, UnlinkNoted

\* What is claimed, and what is read, concerns transfers whose lines are over.
LEMMA ClaimStep ==
    ASSUME ~Overlap, Typed, Typed', OnePlace, Clean, NEW p \in Session, Environment(p) \/ Line(p)
    PROVE  \A t \in Transfer : ClaimStands(t)'
<1> USE NoneIsNoTransfer DEF Typed, TypeOK, Goto, registry, history, fds, Clean
<1>0. \A q \in Session \ {p} : ~Busy(q) /\ pc'[q] = pc[q] BY OthersRest
<1> SUFFICES ASSUME NEW t \in Transfer, claim'[t] # None PROVE ClaimStands(t)'
  BY DEF ClaimStands
<1>1. CASE ClaimIn(p) /\ claim' # claim /\ t = Current(p)
  <2>1. PICK x \in Path : x = InPath(p) /\ x[2] = slot[p] /\ user[slot[p]] = p
    BY <1>1 DEF ClaimIn, LineShape, Working, InputHalf, InPath, Path
  <2>2. exists[x] # None /\ claim'[t] = exists[x] /\ pc'[p] = "openIn" /\ UNCHANGED <<meantFor, lines>>
    BY <1>1, <2>1 DEF ClaimIn
  <2>3. PICK u \in Transfer : u = exists[x] BY <2>2 DEF Fifo
  <2>4. Over(u) BY <1>0, <1>1, <2>2, <2>3, FlagIsOver DEF ClaimIn, Early, InputHalf
  <2>5. Over(u)' BY <2>4, OverKept
  <2>6. meantFor[u] = p BY <2>1, <2>2, <2>3 DEF FlagsStand, FlagStands
  <2>7. t[1] = p /\ t[2] <= lines[p] BY <1>1 DEF Current, Typed, TypeOK
  <2> QED BY <1>1, <2>2, <2>3, <2>5, <2>6, <2>7 DEF ClaimStands
<1>2. CASE claim'[t] = claim[t]
  <2>1. /\ t[2] <= lines[t[1]] /\ Over(claim[t]) /\ meantFor[claim[t]] = t[1] /\ claim[t] \in Transfer
        /\ t = Current(t[1]) => pc[t[1]] \notin {"new", "claimIn"}
    BY <1>2 DEF ClaimStands, Fifo
  <2>2. Over(claim[t])'
    <3>1. PICK u \in Transfer : u = claim[t] BY <2>1
    <3>2. Over(u)' BY <2>1, <3>1, OverKept
    <3> QED BY <1>2, <3>1, <3>2
  <2>3. t[2] <= lines'[t[1]] /\ (t = Current(t[1])' => pc'[t[1]] \notin {"new", "claimIn"})
    <3>1. t[1] \in Session /\ t[2] \in Int BY DEF Transfer
    <3>2. CASE \E f, r \in Slot \union {NoUser} : ReadLine(p, f, r)
      BY <2>1, <3>1, <3>2 DEF ReadLine, Current
    <3>3. CASE lines' = lines /\ \A q \in Session : pc'[q] \in {"new", "claimIn"} => pc[q] = pc'[q]
      BY <2>1, <3>1, <3>3 DEF Current
    <3>4. CASE Environment(p)
      <4>1. CASE \E s \in Slot : Login(p, s) BY <3>3, <4>1 DEF Login
      <4>2. CASE Overflow(p) \/ Cleanup(p) BY <3>3, <4>2 DEF Overflow, Cleanup
      <4> QED BY <3>2, <3>4, <4>1, <4>2 DEF Environment
    <3>5. CASE Line(p)
      BY <3>3, <3>5
      DEF Line, ClaimIn, OpenIn, UnlinkIn, AfterInput, ClaimOut, UnlinkOut, Mkfifo, MkfifoFails, OpenHold,
          OpenWrite, ReadPiece, EndOfInput, WritePiece, EndOfLine, UnlinkNoted, Exit
    <3> QED BY <3>4, <3>5
  <2>4. meantFor'[claim[t]] = t[1]
    <3>1. CASE ClaimOut(p)
      <4>1. claim[t] # Current(p) BY <2>1, <3>1 DEF Over, Current, ClaimOut, Working, OutputHalf
      <4> QED BY <2>1, <3>1, <4>1 DEF ClaimOut
    <3>2. CASE meantFor' = meantFor
      BY <2>1, <3>2
    <3> QED
      BY <3>1, <3>2
      DEF Environment, Login, ReadLine, Overflow, Cleanup, Line, ClaimIn, OpenIn, UnlinkIn, UnlinkOut, Mkfifo,
          MkfifoFails, OpenHold, OpenWrite, ReadPiece, EndOfInput, WritePiece, EndOfLine, UnlinkNoted, Exit
  <2> QED BY <1>2, <2>2, <2>3, <2>4 DEF ClaimStands
<1>3. claim' = claim \/ (ClaimIn(p) /\ claim' = [claim EXCEPT ![Current(p)] = exists[InPath(p)]])
  BY DEF Environment, Login, ReadLine, Overflow, Cleanup, Line, ClaimIn, OpenIn, UnlinkIn, ClaimOut, UnlinkOut,
         Mkfifo, MkfifoFails, OpenHold, OpenWrite, ReadPiece, EndOfInput, WritePiece, EndOfLine, UnlinkNoted, Exit
<1> QED BY <1>1, <1>2, <1>3

LEMMA GotStep ==
    ASSUME ~Overlap, Typed, Typed', OnePlace, Clean, NEW p \in Session, Environment(p) \/ Line(p)
    PROVE  \A t \in Transfer : GotStands(t)'
<1> USE NoneIsNoTransfer DEF Typed, TypeOK, Goto, registry, history, fds, Clean
<1> SUFFICES ASSUME NEW t \in Transfer PROVE GotStands(t)'
  OBVIOUS
<1>0. t[1] \in Session /\ t[2] \in Int /\ GotStands(t) BY DEF Transfer
<1>1. CASE ReadPiece(p) /\ t = Current(p)
  <2>1. inputFd[p] = claim[t] /\ inputFd[p] \in Transfer
    BY <1>1 DEF InputStands, IsFileOf, ReadPiece, Fifo
  <2>2. got'[t] = got[t] \union data[claim[t]] /\ claim' = claim BY <1>1, <2>1 DEF ReadPiece
  <2>3. \A b \in got'[t] : b[1] = claim[t] BY <1>0, <2>1, <2>2 DEF GotStands, DataStands
  <2>4. ~HasRead(t)' BY <1>1 DEF ReadPiece, HasRead, Current
  <2> QED BY <2>2, <2>3, <2>4 DEF GotStands
<1>2. CASE ClaimIn(p) /\ t = Current(p)
  <2>1. claim[t] = None BY <1>2 DEF ClaimStands, ClaimIn, Current
  <2>2. got[t] = {}
    <3>1. \A b \in got[t] : b \in Piece /\ b[1] = None BY <1>0, <2>1 DEF GotStands
    <3> QED BY <3>1 DEF Piece
  <2>3. got' = got /\ ~HasRead(t)' BY <1>2 DEF ClaimIn, AfterInput, HasRead, Current
  <2> QED BY <2>2, <2>3 DEF GotStands
<1>3. CASE got'[t] = got[t] /\ claim'[t] = claim[t]
  <2>1. SUFFICES ASSUME claim[t] # None, HasRead(t)' PROVE got[t] = Whole(claim[t])' \/ Spoilt(claim[t])'
    BY <1>0, <1>3 DEF GotStands, Whole, Spoilt
  <2>2. claim[t] \in Transfer /\ Over(claim[t]) BY <2>1 DEF ClaimStands, Fifo
  <2>3. size'[claim[t]] = size[claim[t]]
    <3>1. CASE EndOfInput(p)
      <4>1. claim[t] # Current(p) BY <2>2, <3>1 DEF Over, Current, EndOfInput, Working
      <4> QED BY <2>2, <3>1, <4>1 DEF EndOfInput
    <3> QED
      BY <3>1
      DEF Environment, Login, ReadLine, Overflow, Cleanup, Line, ClaimIn, OpenIn, UnlinkIn, ClaimOut, UnlinkOut,
          Mkfifo, MkfifoFails, OpenHold, OpenWrite, ReadPiece, WritePiece, EndOfLine, UnlinkNoted, Exit
  <2>4. {claim[t]} \X (1 .. size'[claim[t]]) = Whole(claim[t]) BY <2>3 DEF Whole
  <2>5. Spoilt(claim[t]) => claim[t] \in unmade' \/ pc'[claim[t][1]] = "aborted"
    BY <2>2, SpoiltKept DEF Spoilt
  <2>6. got[t] = Whole(claim[t]) \/ Spoilt(claim[t])
    <3>1. CASE HasRead(t) BY <1>0, <2>1, <3>1 DEF GotStands
    <3>2. CASE EndOfInput(p) /\ t = Current(p)
      <4>1. IsFileOf(inputFd[p], claim[t]) /\ (got[t] \union data[claim[t]] = Whole(claim[t]) \/ Spoilt(claim[t]))
        BY <2>1, <3>2 DEF InputStands, EndOfInput, Working
      <4>2. inputFd[p] = claim[t] => data[claim[t]] = {} BY <2>1, <3>2 DEF EndOfInput
      <4> QED BY <4>1, <4>2 DEF IsFileOf, Spoilt
    <3>3. HasRead(t) \/ (EndOfInput(p) /\ t = Current(p))
      <4>1. CASE \E s \in Slot : Login(p, s)
        <5>1. t = Current(t[1]) => pc[t[1]] # "new" BY <2>1 DEF ClaimStands
        <5> QED BY <1>0, <2>1, <4>1, <5>1 DEF Login, HasRead, Current
      <4>2. CASE \E f, r \in Slot \union {NoUser} : ReadLine(p, f, r)
        <5>1. t[2] <= lines[t[1]] /\ t = <<t[1], t[2]>> BY <2>1 DEF ClaimStands, Transfer
        <5>2. CASE t[1] = p
          <6>1. lines[p] \in Int /\ t[2] \in Int /\ t[2] <= lines[p] /\ pc[p] = "idle"
            BY <1>0, <4>2, <5>1, <5>2 DEF ReadLine
          <6>2. CASE t[2] < lines[p] BY <5>2, <6>2 DEF HasRead
          <6>3. CASE t[2] = lines[p] BY <5>1, <5>2, <6>1, <6>3 DEF HasRead, Current
          <6> HIDE DEF Typed, TypeOK, Clean
          <6> QED BY <6>1, <6>2, <6>3
        <5>3. CASE t[1] # p
          BY <1>0, <2>1, <4>2, <5>3 DEF ReadLine, HasRead, Current
        <5> QED BY <5>2, <5>3
      <4>3. CASE Cleanup(p) \/ Overflow(p)
        BY <1>0, <2>1, <4>3 DEF Cleanup, Overflow, HasRead, Current
      <4>4. CASE Line(p)
        <5>1. CASE lines' = lines /\ pc'[p] \notin {"write", "idle", "cleanup", "exited", "aborted"}
                   /\ \A q \in Session \ {p} : pc'[q] = pc[q]
          BY <1>0, <2>1, <5>1 DEF HasRead, Current
        <5>2. CASE lines' = lines /\ pc[p] \in {"write", "idle", "cleanup"}
                   /\ \A q \in Session \ {p} : pc'[q] = pc[q]
          BY <1>0, <2>1, <5>2 DEF HasRead, Current
        <5>3. CASE EndOfInput(p)
          BY <1>0, <2>1, <5>3 DEF EndOfInput, HasRead, Current
        <5> QED
          BY <4>4, <5>1, <5>2, <5>3
          DEF Line, ClaimIn, OpenIn, UnlinkIn, AfterInput, ClaimOut, UnlinkOut, Mkfifo, MkfifoFails, OpenHold,
              OpenWrite, ReadPiece, WritePiece, EndOfLine, UnlinkNoted, Exit
      <4> QED BY <4>1, <4>2, <4>3, <4>4 DEF Environment
    <3> QED BY <3>1, <3>2, <3>3
  <2> QED BY <1>3, <2>3, <2>4, <2>5, <2>6 DEF Whole, Spoilt
<1>4. (got'[t] = got[t] /\ claim'[t] = claim[t]) \/ (t = Current(p) /\ (ReadPiece(p) \/ ClaimIn(p)))
  BY DEF Environment, Login, ReadLine, Overflow, Cleanup, Line, ClaimIn, OpenIn, UnlinkIn, ClaimOut, UnlinkOut,
         Mkfifo, MkfifoFails, OpenHold, OpenWrite, ReadPiece, EndOfInput, WritePiece, EndOfLine, UnlinkNoted, Exit
<1> QED BY <1>1, <1>2, <1>3, <1>4

LEMMA LogoutStep ==
    ASSUME ~Overlap, Typed, Clean, NEW p \in Session, Environment(p) \/ Line(p)
    PROVE  \A q \in Session : LogoutStands(q)'
<1> USE DEF Typed, TypeOK, Goto, registry, LogoutStands, Clean
<1>0. \A q \in Session \ {p} : pc'[q] # "cleanup"
  BY OthersRest DEF Busy
<1>1. CASE Cleanup(p)
  BY <1>0, <1>1 DEF Cleanup
<1>2. CASE \E x \in Path : UnlinkNoted(p, x)
  BY <1>0, <1>2 DEF UnlinkNoted
<1>3. CASE pc'[p] # "cleanup"
  BY <1>0, <1>3
<1> QED
  BY <1>1, <1>2, <1>3
  DEF Environment, Login, ReadLine, Overflow, Line, ClaimIn, OpenIn, UnlinkIn, ClaimOut, UnlinkOut, Mkfifo,
      MkfifoFails, OpenHold, OpenWrite, ReadPiece, EndOfInput, WritePiece, EndOfLine, Exit, AfterInput

LEMMA InputStep ==
    ASSUME ~Overlap, Typed, Typed', OnePlace, Clean, NEW p \in Session, Environment(p) \/ Line(p)
    PROVE  \A q \in Session : InputStands(q)'
<1> USE NoneIsNoTransfer DEF Typed, TypeOK, Goto, registry, history, fds, Clean, IsFileOf
<1>0. \A q \in Session \ {p} : InputStands(q)'
  <2>1. \A q \in Session \ {p} : ~Busy(q)' BY OthersRest
  <2> QED BY <2>1 DEF Busy, InputStands, Output, Working, InputHalf, OutputHalf
<1>1. SUFFICES InputStands(p)'
  BY <1>0
<1> DEFINE t == Current(p)
           c == claim[t]
<1>a. \A u \in Transfer : Spoilt(u) => Spoilt(u)' BY SpoiltKept
<1>b. c # None /\ pc[p] \in Working => c \in Transfer /\ Over(c) /\ c # t
  <2>1. pc[p] \in Working => t \in Transfer
    BY DEF LineShape, Working, Current, Transfer
  <2> SUFFICES ASSUME c # None, pc[p] \in Working PROVE c \in Transfer /\ Over(c) /\ c # t
    OBVIOUS
  <2>2. c \in Transfer /\ Over(c) BY <2>1 DEF ClaimStands, Fifo
  <2>3. lines[p] \in Int /\ t[1] = p /\ t[2] = lines[p] BY DEF Current
  <2>4. c # t BY <2>2, <2>3 DEF Over
  <2> QED BY <2>2, <2>4
<1>2. CASE Environment(p)
  <2>1. CASE \E f, r \in Slot \union {NoUser} : ReadLine(p, f, r)
    <3>1. t' = <<p, lines[p] + 1>> /\ t' \in Transfer
      BY <2>1 DEF ReadLine, Current, Transfer
    <3>2. claim'[t'] = None
      BY <2>1, <3>1 DEF ReadLine, ClaimStands
    <3> QED BY <2>1, <3>2 DEF ReadLine, InputStands, Output, Working
  <2>2. CASE (\E s \in Slot : Login(p, s)) \/ Overflow(p) \/ Cleanup(p)
    BY <2>2 DEF Login, Overflow, Cleanup, InputStands, Output, Working, InputHalf, OutputHalf
  <2> QED BY <1>2, <2>1, <2>2 DEF Environment
<1>3. CASE ClaimIn(p)
  <2>1. c = None /\ inputFd[p] = None /\ got[t] = {} /\ t \in Transfer
    <3>1. t \in Transfer BY <1>3 DEF ClaimIn, LineShape, Working, InputHalf, Current, Transfer
    <3>2. c = None BY <1>3, <3>1 DEF ClaimIn, ClaimStands, Current
    <3>3. got[t] = {}
      <4>1. \A b \in got[t] : b \in Piece /\ b[1] = None BY <3>1, <3>2 DEF GotStands
      <4> QED BY <4>1 DEF Piece
    <3> QED BY <1>3, <3>1, <3>2, <3>3 DEF ClaimIn, InputStands
  <2>2. CASE /\ exists[InPath(p)] # None /\ exists' = Taken(InPath(p))
             /\ claim' = [claim EXCEPT ![Current(p)] = exists[InPath(p)]]
             /\ pc' = [pc EXCEPT ![p] = "openIn"]
    <3>1. PICK x \in Path : x = InPath(p) /\ x[2] = slot[p] /\ user[slot[p]] = p
      BY <1>3 DEF ClaimIn, LineShape, Working, InputHalf, InPath, Path
    <3>2. PICK u \in Transfer : u = exists[x] BY <2>2, <3>1 DEF Fifo
    <3>3. ~Pending(u)
      <4>1. \A q \in Session \ {p} : ~Busy(q) BY OthersRest
      <4> QED BY <1>3, <4>1 DEF ClaimIn, Pending, Busy, Output, Transfer
    <3>4. data[u] = Whole(u) \/ Spoilt(u)
      BY <2>2, <3>1, <3>2, <3>3 DEF FlagsStand, FlagStands
    <3>5. IsFileOf(file[x], u)
      <4>1. \A q \in Session : ~Behind(q, x)
        <5>1. \A q \in Session \ {p} : ~Busy(q) BY OthersRest
        <5> QED BY <1>3, <5>1 DEF Behind, Busy, ClaimIn
      <4> QED BY <3>2, <4>1 DEF FilesStand
    <3>6. /\ UNCHANGED <<file, data, got, inputFd, from, slot, lines, unmade, size>>
          /\ exists'[x] = None /\ claim'[t] = u /\ pc'[p] = "openIn" /\ InPath(p)' = x /\ t' = t
      BY <1>3, <2>1, <2>2, <3>1, <3>2 DEF ClaimIn, Taken, InPath, Current
    <3>7. Whole(u)' = Whole(u) BY <3>6 DEF Whole
    <3>8. got'[t] \union data'[u] = Whole(u)' \/ Spoilt(u)' BY <1>a, <2>1, <3>4, <3>6, <3>7
    <3> QED BY <2>1, <3>2, <3>5, <3>6, <3>8 DEF InputStands, Output
  <2>3. CASE UNCHANGED <<exists, claim>> /\ pc' = [pc EXCEPT ![p] = AfterInput(p)]
    <3>1. t' = t BY <1>3 DEF ClaimIn, Current
    <3> QED BY <1>3, <2>1, <2>3, <3>1 DEF ClaimIn, AfterInput, InputStands, Output
  <2> QED BY <1>3, <2>2, <2>3 DEF ClaimIn
<1>4. CASE ReadPiece(p)
  <2>1. t \in Transfer /\ pc[p] = "read" /\ inputFd[p] = c /\ c # None
    BY <1>4 DEF ReadPiece, InputStands, LineShape, Working, Current, Transfer
  <2>2. UNCHANGED <<pc, file, exists, from, slot, lines, inputFd, claim, size, unmade>> BY <1>4 DEF ReadPiece
  <2>3. got'[t] \union data'[c] = got[t] \union data[c]
    BY <1>4, <1>b, <2>1 DEF ReadPiece, Working
  <2>4. t' = t /\ c' = c BY <2>2 DEF Current
  <2>5. Whole(c)' = Whole(c) /\ (Spoilt(c)' <=> Spoilt(c)) BY <2>2, <2>4 DEF Whole, Spoilt
  <2>6. got[t] \union data[c] = Whole(c) \/ Spoilt(c) BY <2>1 DEF InputStands, Working
  <2> QED BY <2>1, <2>2, <2>3, <2>4, <2>5, <2>6 DEF InputStands, Output
<1>5. CASE EndOfInput(p) \/ WritePiece(p) \/ EndOfLine(p) \/ (\E x \in Path : UnlinkNoted(p, x)) \/ Exit(p)
  BY <1>5 DEF EndOfInput, WritePiece, EndOfLine, UnlinkNoted, Exit, InputStands, Output, Working, InputHalf, OutputHalf
<1>6. CASE OpenIn(p) \/ UnlinkIn(p) \/ ClaimOut(p) \/ UnlinkOut(p) \/ Mkfifo(p) \/ MkfifoFails(p) \/ OpenHold(p)
           \/ OpenWrite(p)
  <2>1. UNCHANGED <<claim, lines, from, slot, got, data, size>> /\ pc[p] \in Working \ {"write"}
    BY <1>6 DEF OpenIn, UnlinkIn, ClaimOut, UnlinkOut, Mkfifo, MkfifoFails, OpenHold, OpenWrite, Working,
                InputHalf, OutputHalf
  <2>2. t' = t /\ c' = c /\ InPath(p)' = InPath(p) BY <2>1 DEF Current, InPath
  <2>3. c # None => got'[t] \union data'[c] = Whole(c)' \/ Spoilt(c)'
    <3>1. c # None => got[t] \union data[c] = Whole(c) \/ Spoilt(c) BY <2>1 DEF InputStands
    <3>2. Whole(c)' = Whole(c) BY <2>1, <2>2 DEF Whole
    <3>3. c # None /\ Spoilt(c) => Spoilt(c)'
      <4> SUFFICES ASSUME c # None, Spoilt(c) PROVE Spoilt(c)'
        OBVIOUS
      <4>1. PICK u \in Transfer : u = c BY <1>b, <2>1
      <4>2. Spoilt(u)' BY <1>a, <4>1
      <4> QED BY <2>2, <4>1, <4>2
    <3> QED BY <2>1, <2>2, <3>1, <3>2, <3>3
  <2>4. CASE OpenIn(p)
    BY <2>1, <2>2, <2>3, <2>4 DEF OpenIn, InputStands, Output
  <2>5. CASE UnlinkIn(p)
    BY <2>1, <2>2, <2>3, <2>5 DEF UnlinkIn, AfterInput, InputStands, Output
  <2>6. CASE ClaimOut(p) \/ UnlinkOut(p) \/ Mkfifo(p) \/ MkfifoFails(p) \/ OpenHold(p) \/ OpenWrite(p)
    <3>1. UNCHANGED inputFd /\ unmade \subseteq unmade' /\ pc[p] \in {"claimOut"} \union Output
          /\ pc'[p] \in {"read"} \union Output
      BY <2>6 DEF ClaimOut, UnlinkOut, Mkfifo, MkfifoFails, OpenHold, OpenWrite, Output
    <3>2. IsFileOf(inputFd[p], c) BY <3>1 DEF InputStands
    <3> QED BY <2>1, <2>2, <2>3, <3>1, <3>2 DEF InputStands, Output
  <2> QED BY <1>6, <2>4, <2>5, <2>6
<1> QED BY <1>2, <1>3, <1>4, <1>5, <1>6 DEF Line

LEMMA OutputStep ==
    ASSUME ~Overlap, Typed, Clean, NEW p \in Session, Environment(p) \/ Line(p)
    PROVE  \A q \in Session : OutputStands(q)'
<1> USE NoneIsNoTransfer DEF Typed, TypeOK, Goto, registry, history, fds, Clean
<1>0. \A q \in Session \ {p} : OutputStands(q)'
  <2>1. \A q \in Session \ {p} : ~Busy(q)' BY OthersRest
  <2> QED BY <2>1 DEF Busy, OutputStands, Output, InputHalf, OutputHalf
<1>1. SUFFICES OutputStands(p)'
  BY <1>0
<1> USE DEF OutputStands, Output, InputHalf, OutputHalf
<1>2. CASE Environment(p)
  <2>1. CASE (\E s \in Slot : Login(p, s)) \/ Overflow(p) \/ Cleanup(p)
    BY <2>1 DEF Login, Overflow, Cleanup
  <2>2. CASE \E f, r \in Slot \union {NoUser} : ReadLine(p, f, r)
    BY <2>2 DEF ReadLine
  <2> QED BY <1>2, <2>1, <2>2 DEF Environment
<1>3. CASE ClaimIn(p) \/ OpenIn(p) \/ UnlinkIn(p)
  <2>1. outputFd[p] = None /\ outputFd' = outputFd BY <1>3 DEF ClaimIn, OpenIn, UnlinkIn
  <2>2. pc'[p] \in {"openIn", "unlinkIn", "claimOut", "read"}
    BY <1>3 DEF ClaimIn, OpenIn, UnlinkIn, AfterInput
  <2>3. Current(p) \in Transfer /\ Current(p)' = Current(p)
    BY <1>3 DEF ClaimIn, OpenIn, UnlinkIn, LineShape, Working, Current, Transfer
  <2> QED BY <2>1, <2>2, <2>3 DEF Current
<1>4. CASE ClaimOut(p)
  <2>1. OutPath(p) \in Path /\ Current(p) \in Transfer
    BY <1>4 DEF ClaimOut, LineShape, Working, OutPath, Path, Current, Transfer
  <2>2. data[Current(p)] = {}
    <3>1. ~Made(Current(p)) BY <1>4, <2>1 DEF ClaimOut, Made, Current, Early
    <3> QED BY <2>1, <3>1 DEF DataStands
  <2> QED BY <1>4, <2>1, <2>2 DEF ClaimOut, OutPath, Current
<1>5. CASE UnlinkOut(p)
  <2>1. OutPath(p) \in Path BY <1>5 DEF UnlinkOut, LineShape, Working, OutPath, Path
  <2> QED BY <1>5, <2>1 DEF UnlinkOut, Unlinked, OutPath, Current
<1>6. CASE Mkfifo(p) \/ MkfifoFails(p) \/ OpenHold(p)
  BY <1>6 DEF Mkfifo, MkfifoFails, OpenHold, OutPath, Current
<1>7. CASE OpenWrite(p)
  <2>1. OutPath(p) \in Path BY <1>7 DEF OpenWrite, LineShape, Working, OutPath, Path
  <2>2. \A q \in Session : ~Behind(q, OutPath(p))
    <3>1. \A q \in Session \ {p} : ~Busy(q) BY OthersRest
    <3> QED BY <1>7, <3>1 DEF Behind, Busy, OpenWrite
  <2>3. file[OutPath(p)] \in {None, Current(p)}
    BY <1>7, <2>1, <2>2 DEF FilesStand, IsFileOf, OpenWrite
  <2> QED BY <1>7, <2>3 DEF OpenWrite, Current
<1>8. CASE ReadPiece(p)
  <2>1. \A f \in Transfer : data[f] = {} => data'[f] = {} BY <1>8 DEF ReadPiece
  <2>2. Current(p) \in Transfer BY <1>8 DEF ReadPiece, LineShape, Working, Current, Transfer
  <2> QED BY <1>8, <2>1, <2>2 DEF ReadPiece, OutPath, Current
<1>9. CASE EndOfInput(p)
  <2>1. Current(p) \in Transfer BY <1>9 DEF EndOfInput, LineShape, Working, Current, Transfer
  <2>2. ASSUME outputFd[p] = Current(p)
        PROVE  /\ left'[p] <= size'[Current(p)] /\ data'[Current(p)] = {}
               /\ Written(Current(p), left[p])' = {}
    <3>1. PICK n \in Nat : left'[p] = n /\ size'[Current(p)] = n
      BY <1>9, <2>1, <2>2, OutputsAssumption DEF EndOfInput
    <3>2. lines' = lines BY <1>9 DEF EndOfInput
    <3>3. Written(Current(p), left[p])' = {Current(p)} \X (n + 1 .. n) BY <3>1, <3>2 DEF Written, Current
    <3>4. n + 1 .. n = {} BY <3>1
    <3>5. \A z : {z} \X {} = {} OBVIOUS
    <3> QED BY <1>9, <2>2, <3>1, <3>3, <3>4, <3>5 DEF EndOfInput
  <2>3. UNCHANGED <<outputFd, lines>> /\ pc'[p] = "write" /\ pc[p] = "read" BY <1>9 DEF EndOfInput
  <2> QED BY <2>2, <2>3 DEF Current
<1>10. CASE WritePiece(p)
  <2> DEFINE t == Current(p)
  <2>1. t \in Transfer BY <1>10 DEF WritePiece, LineShape, Working, Current, Transfer
  <2>2. /\ outputFd[p] = t /\ data[t] = {} /\ left[p] > 0 /\ pc[p] = "write"
        /\ left[p] <= size[t] /\ Written(t, left[p]) = {}
    BY <1>10 DEF WritePiece
  <2>3. PICK l \in Nat, n \in Nat : l = left[p] /\ n = size[t] BY <2>1
  <2>4. l = n
    <3>1. n > l => n \in l + 1 .. n OBVIOUS
    <3>2. \A S : \A k \in S : <<t, k>> \in {t} \X S OBVIOUS
    <3>3. {t} \X (l + 1 .. n) = {} BY <2>2, <2>3 DEF Written
    <3>4. ~(n > l) BY <3>1, <3>2, <3>3
    <3>5. l <= n BY <2>2, <2>3
    <3> HIDE DEF Typed, TypeOK, Clean
    <3> QED BY <3>4, <3>5
  <2>5. /\ UNCHANGED <<outputFd, lines, size, pc>> /\ left'[p] = left[p] - 1
        /\ data'[t] = {<<t, left[p]>>}
    BY <1>10, <2>1, <2>2 DEF WritePiece
  <2>6. t' = t BY <2>5 DEF Current
  <2>7. {t} \X ((left[p] - 1) + 1 .. size[t]) = {<<t, left[p]>>}
    <3>1. (l - 1) + 1 .. n = {l} BY <2>4
    <3>2. \A k : {t} \X {k} = {<<t, k>>} OBVIOUS
    <3> QED BY <2>3, <3>1, <3>2
  <2>8. Written(t, left[p])' = {<<t, left[p]>>} BY <2>5, <2>6, <2>7 DEF Written
  <2>9. left'[p] <= size'[t]
    <3>1. left'[p] = l - 1 /\ size'[t] = n BY <2>3, <2>5
    <3>2. l - 1 <= n BY <2>4
    <3> QED BY <3>1, <3>2
  <2> QED BY <2>2, <2>5, <2>6, <2>8, <2>9
<1>11. CASE EndOfLine(p) \/ (\E x \in Path : UnlinkNoted(p, x)) \/ Exit(p)
  BY <1>11 DEF EndOfLine, UnlinkNoted, Exit, Current
<1> QED BY <1>2, <1>3, <1>4, <1>5, <1>6, <1>7, <1>8, <1>9, <1>10, <1>11 DEF Line

LEMMA CleanStep ==
    ASSUME ~Overlap, Typed, PipesBetweenUsers, OnePlace, Clean, [Next]_vars
    PROVE  Clean'
<1>1. CASE UNCHANGED vars
  <2> USE <1>1 DEF vars, registry, fds, history, Clean
  <2>1. Alone' /\ Seated' BY DEF Alone, Busy, Seated, Online
  <2>2. FlagsStand' BY DEF FlagsStand, FlagStands, Pending, Current, Whole, Spoilt
  <2>3. FilesStand' BY DEF FilesStand, IsFileOf, Behind, InPath, OutPath
  <2>4. DataStands' /\ HoldsOwn' BY DEF DataStands, Made, HoldsOwn
  <2>5. ASSUME NEW t \in Transfer PROVE ClaimStands(t)' /\ GotStands(t)'
    BY DEF ClaimStands, GotStands, Over, Current, HasRead, Whole, Spoilt
  <2>6. ASSUME NEW p \in Session PROVE InputStands(p)' /\ OutputStands(p)' /\ LogoutStands(p)'
    <3>1. InputStands(p)' BY DEF InputStands, Current, InPath, IsFileOf, Whole, Spoilt
    <3>2. OutputStands(p)' BY DEF OutputStands, Current, OutPath, Written
    <3>3. LogoutStands(p)' BY DEF LogoutStands
    <3> QED BY <3>1, <3>2, <3>3
  <2> QED BY <2>1, <2>2, <2>3, <2>4, <2>5, <2>6
<1>2. CASE Next
  <2>1. PICK p \in Session : Environment(p) \/ Line(p) BY <1>2 DEF Next
  <2>2. Typed' BY TypeStep
  <2>3. Alone' BY <2>1, AloneStep DEF Clean
  <2>4. Seated' BY <2>1, SeatedStep DEF Clean
  <2>5. FlagsStand' BY <2>1, <2>2, FlagsStandEnvironment, FlagsStandLine
  <2>6. FilesStand' BY <2>1, FilesStandStep
  <2>7. \A q \in Session : InputStands(q)' BY <2>1, <2>2, InputStep
  <2>8. \A q \in Session : OutputStands(q)' BY <2>1, OutputStep
  <2>9. \A q \in Session : LogoutStands(q)' BY <2>1, LogoutStep
  <2>10. HoldsOwn' /\ DataStands' BY <2>1, HoldsStep, DataStep
  <2>11. \A t \in Transfer : ClaimStands(t)' /\ GotStands(t)' BY <2>1, <2>2, ClaimStep, GotStep
  <2> QED BY <2>3, <2>4, <2>5, <2>6, <2>7, <2>8, <2>9, <2>10, <2>11 DEF Clean
<1> QED BY <1>1, <1>2

\* Between polite clients a user pipe carries an output whole, to the session that was
\* named, unless its FIFO could not be made or its sender has aborted; between lines the
\* directory holds the files of the flags and no other.
THEOREM PoliteTransfersAreClean == ASSUME ~Overlap PROVE Spec => []CleanTransfers
<1>1. Clean /\ OnePlace /\ PipesBetweenUsers /\ Typed /\ [Next]_vars => Clean'
  BY CleanStep
<1>2. OnePlace /\ Typed /\ [Next]_vars => OnePlace'
  BY PlaceStep
<1>3. Clean /\ Typed => CleanTransfers
  <2> SUFFICES ASSUME Clean, Typed PROVE CleanTransfers
    OBVIOUS
  <2>1. OnlyAddresseeReads
    <3> SUFFICES ASSUME NEW t \in Transfer, NEW b \in got[t] PROVE meantFor[b[1]] = t[1]
      BY DEF OnlyAddresseeReads
    <3>1. b[1] = claim[t] /\ b[1] \in Transfer
      BY DEF Clean, GotStands, Typed, TypeOK, Piece
    <3> QED BY <3>1, NoneIsNoTransfer DEF Clean, ClaimStands
  <2>2. ReceivedWhole
    BY DEF Clean, GotStands, ReceivedWhole, Whole
  <2>3. FilesMatchFlags
    BY DEF Clean, FilesStand, IsFileOf, FilesMatchFlags, Quiet, Behind, Busy
  <2> QED BY <2>1, <2>2, <2>3 DEF CleanTransfers
<1> QED BY <1>1, <1>2, <1>3, CleanInit, PlaceInit, TypedAlways, FlagsAlways, PTL DEF Spec

-----------------------------------------------------------------------------
(***************************************************************************)
(* Refinement.                                                             *)
(***************************************************************************)

LEMMA PipesInit == Init => Pipes!Init
BY SessionAssumption DEF Init, Pipes!Init, onlineSlots, flagged, Online

LEMMA PipesStep ==
    ASSUME Typed, PipesBetweenUsers, [Next]_vars
    PROVE  [Pipes!Next]_<<onlineSlots, flagged>>
<1> USE NoneIsNoTransfer, SessionAssumption
    DEF Typed, TypeOK, registry, Goto, onlineSlots, flagged, Online
<1>0. ASSUME UNCHANGED <<user, exists>> PROVE UNCHANGED <<onlineSlots, flagged>>
  BY <1>0
<1>1. ASSUME NEW p \in Session, NEW s \in Slot, Login(p, s) PROVE Pipes!Join(s)
  BY <1>1 DEF Login, Pipes!Join
<1>2. ASSUME NEW p \in Session, Cleanup(p) PROVE slot[p] \in Slot /\ Pipes!Leave(slot[p])
  <2>1. slot[p] \in Slot /\ user[slot[p]] = p BY <1>2 DEF Cleanup, LineShape
  <2>2. onlineSlots' = onlineSlots \ {slot[p]} /\ slot[p] \in onlineSlots BY <1>2, <2>1 DEF Cleanup
  <2>3. flagged' = {x \in flagged : slot[p] # x[1] /\ slot[p] # x[2]}
    BY <1>2 DEF Cleanup, Touches
  <2> QED BY <2>1, <2>2, <2>3 DEF Pipes!Leave
<1>3. ASSUME NEW p \in Session, ClaimIn(p), exists' # exists
      PROVE  from[p] \in Slot /\ slot[p] \in Slot /\ Pipes!Receive(from[p], slot[p])
  <2>1. from[p] \in Slot /\ slot[p] \in Slot /\ InPath(p) \in Path
    BY <1>3 DEF ClaimIn, LineShape, Working, InputHalf, InPath, Path
  <2>2. exists[InPath(p)] # None /\ exists' = [exists EXCEPT ![InPath(p)] = None]
        /\ user' = user
    BY <1>3 DEF ClaimIn, Taken
  <2> QED BY <2>1, <2>2 DEF Pipes!Receive, InPath
<1>4. ASSUME NEW p \in Session, ClaimOut(p), exists' # exists
      PROVE  slot[p] \in Slot /\ to[p] \in Slot /\ Pipes!Send(slot[p], to[p])
  <2>1. /\ to[p] \in Slot /\ slot[p] \in Slot /\ user[slot[p]] = p
        /\ OutPath(p) \in Path /\ Current(p) \in Transfer
    BY <1>4 DEF ClaimOut, LineShape, Working, OutputHalf, OutPath, Path, Current, Transfer
  <2>2. /\ user[to[p]] # Nobody /\ exists[OutPath(p)] = None /\ user' = user
        /\ exists' = [exists EXCEPT ![OutPath(p)] = Current(p)]
    BY <1>4 DEF ClaimOut
  <2>3. slot[p] \in onlineSlots /\ to[p] \in onlineSlots BY <2>1, <2>2
  <2>4. <<slot[p], to[p]>> \in Path /\ <<slot[p], to[p]>> \notin flagged BY <2>1, <2>2 DEF OutPath
  <2>5. flagged' = flagged \union {<<slot[p], to[p]>>}
    <3>1. <<slot[p], to[p]>> \in flagged' BY <2>1, <2>2, <2>4 DEF OutPath
    <3>2. \A x \in Path : x # <<slot[p], to[p]>> => exists'[x] = exists[x]
      BY <2>2 DEF OutPath
    <3> QED BY <3>1, <3>2, <2>4
  <2>6. onlineSlots' = onlineSlots BY <2>2
  <2> HIDE DEF onlineSlots, flagged
  <2> QED BY <2>1, <2>3, <2>4, <2>5, <2>6 DEF Pipes!Send
<1> HIDE DEF Typed, TypeOK, registry, Goto, onlineSlots, flagged, Online
<1>5. CASE UNCHANGED vars
  BY <1>0, <1>5 DEF vars, registry
<1>6. CASE Next
  <2>1. PICK p \in Session : Environment(p) \/ Line(p) BY <1>6 DEF Next
  <2>2. CASE \E s \in Slot : Login(p, s) BY <1>1, <2>2 DEF Pipes!Next
  <2>3. CASE Cleanup(p) BY <1>2, <2>3 DEF Pipes!Next
  <2>4. CASE ClaimIn(p) /\ exists' # exists BY <1>3, <2>4 DEF Pipes!Next
  <2>5. CASE ClaimOut(p) /\ exists' # exists BY <1>4, <2>5 DEF Pipes!Next
  <2>6. CASE UNCHANGED <<user, exists>> BY <1>0, <2>6
  <2> QED
    BY <2>1, <2>2, <2>3, <2>4, <2>5, <2>6
    DEF registry, Environment, Line, ReadLine, Overflow, ClaimIn, OpenIn, UnlinkIn, ClaimOut, UnlinkOut,
        Mkfifo, MkfifoFails, OpenHold, OpenWrite, ReadPiece, EndOfInput, WritePiece, EndOfLine, UnlinkNoted,
        Exit
<1> QED BY <1>5, <1>6

\* The flags implement UserPipes, although the lines of different users overlap.
THEOREM FlagsImplementUserPipes == Spec => ImplementsUserPipes
<1>1. Typed /\ PipesBetweenUsers /\ [Next]_vars => [Pipes!Next]_<<onlineSlots, flagged>>
  BY PipesStep
<1> QED
  BY <1>1, PipesInit, TypedAlways, FlagsAlways, PTL DEF Spec, ImplementsUserPipes, Pipes!Spec

=============================================================================
