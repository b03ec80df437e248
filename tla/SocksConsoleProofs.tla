------------------------- MODULE SocksConsoleProofs -------------------------
(***************************************************************************)
(* Theorems about SocksConsole, for any number of sessions, any scripts,   *)
(* ports and, as far as said, outputs.                                     *)
(***************************************************************************)
EXTENDS SocksConsole, SequenceTheorems, TLAPS

Text == Seq(Symbol)

Where == {"resolve", "connect", "request", "reply", "read", "write", "ended"}
FarEnd == {"none", "asked", "greets", "waits", "closed", "broken"}

-----------------------------------------------------------------------------
(* Texts. *)

LEMMA Symbols ==
    /\ Prompt \in Text /\ Len(Prompt) = 2 /\ Prompt[1] = "%" /\ Prompt[2] = Space
    /\ Granted \in Text /\ Len(Granted) = 2 /\ Granted[2] = "90"
    /\ Rejected \in Text /\ Len(Rejected) = 2 /\ Rejected[2] = "91"
    /\ Exit \in Symbol /\ <<>> \in Text /\ Space # "%"
<1>1. "%" \in Symbol /\ Space \in Symbol /\ "vn" \in Symbol /\ "90" \in Symbol
      /\ "91" \in Symbol /\ "exit" \in Symbol
  BY DEF Symbol
<1>2. \A a, b \in Symbol : <<a, b>> \in Seq(Symbol) /\ Len(<<a, b>>) = 2
                         /\ <<a, b>>[1] = a /\ <<a, b>>[2] = b
  OBVIOUS
<1>3. <<>> \in Seq(Symbol) BY EmptySeq
<1>4. Space # "%" BY Zenon DEF Space
<1> QED BY <1>1, <1>2, <1>3, <1>4 DEF Prompt, Granted, Rejected, Exit, Text

LEMMA PrefixOfConcat ==
    ASSUME NEW S, NEW a \in Seq(S), NEW b \in Seq(S)
    PROVE  IsPrefix(a, a \o b)
<1>1. Len(a \o b) = Len(a) + Len(b) /\ Len(a) \in Nat /\ Len(b) \in Nat /\ a \o b \in Seq(S)
  BY ConcatProperties, LenProperties
<1>2. SubSeq(a, 1, Len(a)) = a BY SubSeqFull
<1>3. CASE Len(a) = 0
  <2>1. SubSeq(a \o b, 1, 0) = <<>> /\ SubSeq(a, 1, 0) = <<>> BY SubSeqEmpty
  <2> QED BY <1>1, <1>3, <2>1 DEF IsPrefix
<1>4. CASE Len(a) # 0
  <2>1. 1 \in 1 .. Len(a) /\ Len(a) \in 1 .. Len(a) BY <1>1, <1>4
  <2>2. SubSeq(a \o b, 1, Len(a)) = SubSeq(a, 1, Len(a)) BY <2>1, SubSeqOfConcat1
  <2> QED BY <1>1, <2>2 DEF IsPrefix
<1> QED BY <1>3, <1>4

LEMMA PrefixExtends ==
    ASSUME NEW S, NEW a \in Seq(S), NEW b \in Seq(S), NEW c \in Seq(S), IsPrefix(a, b)
    PROVE  IsPrefix(a, b \o c)
<1>1. /\ Len(b \o c) = Len(b) + Len(c) /\ Len(a) \in Nat /\ Len(b) \in Nat /\ Len(c) \in Nat
      /\ Len(a) =< Len(b)
  BY ConcatProperties, LenProperties DEF IsPrefix
<1>2. CASE Len(a) = 0
  <2>1. SubSeq(b \o c, 1, 0) = <<>> /\ SubSeq(a, 1, 0) = <<>> BY SubSeqEmpty
  <2> QED BY <1>1, <1>2, <2>1 DEF IsPrefix
<1>3. CASE Len(a) # 0
  <2>1. 1 \in 1 .. Len(b) /\ Len(a) \in 1 .. Len(b) BY <1>1, <1>3
  <2>2. SubSeq(b \o c, 1, Len(a)) = SubSeq(b, 1, Len(a)) BY <2>1, SubSeqOfConcat1
  <2> QED BY <1>1, <2>2 DEF IsPrefix
<1> QED BY <1>2, <1>3

LEMMA NothingIsPrefix == ASSUME NEW S, NEW a \in Seq(S) PROVE IsPrefix(<<>>, a)
<1>1. <<>> \in Seq(S) /\ <<>> \o a = a BY EmptySeq, ConcatEmptySeq
<1> QED BY <1>1, PrefixOfConcat

LEMMA Joined ==
    \A a, b \in Seq(Symbol) :
        /\ a \o b \in Seq(Symbol) /\ Len(a \o b) = Len(a) + Len(b)
        /\ \A i \in 1 .. Len(a) + Len(b) : (a \o b)[i] = IF i <= Len(a) THEN a[i] ELSE b[i - Len(a)]
BY ConcatProperties

LEMMA Regroup == \A a, b, c \in Seq(Symbol) : (a \o b) \o c = a \o (b \o c)
BY ConcatAssociative

(* A read takes a part and leaves the rest. *)
LEMMA Parted ==
    ASSUME NEW S, NEW t \in Seq(S), NEW n \in 1 .. Len(t)
    PROVE  /\ SubSeq(t, 1, n) \in Seq(S) /\ Len(SubSeq(t, 1, n)) = n
           /\ \A i \in 1 .. n : SubSeq(t, 1, n)[i] = t[i]
           /\ SubSeq(t, n + 1, Len(t)) \in Seq(S) /\ Len(SubSeq(t, n + 1, Len(t))) = Len(t) - n
           /\ \A i \in 1 .. Len(t) - n : SubSeq(t, n + 1, Len(t))[i] = t[n + i]
           /\ SubSeq(t, 1, n) \o SubSeq(t, n + 1, Len(t)) = t
<1>1. Len(t) \in Nat /\ n \in Int /\ \A i \in 1 .. Len(t) : t[i] \in S BY LenProperties, ElementOfSeq
<1>2. /\ SubSeq(t, 1, n) \in Seq(S) /\ Len(SubSeq(t, 1, n)) = n
      /\ \A i \in 1 .. n : SubSeq(t, 1, n)[i] = t[i]
  <2>1. \A i \in 1 .. n : t[i] \in S BY <1>1
  <2>2. /\ SubSeq(t, 1, n) \in Seq(S)
        /\ Len(SubSeq(t, 1, n)) = IF 1 =< n THEN n - 1 + 1 ELSE 0
        /\ \A i \in 1 .. n - 1 + 1 : SubSeq(t, 1, n)[i] = t[1 + i - 1]
    BY <1>1, <2>1, SubSeqProperties
  <2> QED BY <1>1, <2>2
<1>3. /\ SubSeq(t, n + 1, Len(t)) \in Seq(S) /\ Len(SubSeq(t, n + 1, Len(t))) = Len(t) - n
      /\ \A i \in 1 .. Len(t) - n : SubSeq(t, n + 1, Len(t))[i] = t[n + i]
  <2>1. n + 1 \in Int /\ Len(t) \in Int /\ \A i \in n + 1 .. Len(t) : t[i] \in S BY <1>1
  <2>2. /\ SubSeq(t, n + 1, Len(t)) \in Seq(S)
        /\ Len(SubSeq(t, n + 1, Len(t))) = IF n + 1 =< Len(t) THEN Len(t) - (n + 1) + 1 ELSE 0
        /\ \A i \in 1 .. Len(t) - (n + 1) + 1 : SubSeq(t, n + 1, Len(t))[i] = t[n + 1 + i - 1]
    BY <2>1, SubSeqProperties
  <2> QED BY <1>1, <2>2
<1>4. SubSeq(t, 1, n) \o SubSeq(t, n + 1, Len(t)) = t
  <2>1. 1 \in 1 .. Len(t) + 1 /\ n \in 0 .. Len(t) /\ Len(t) \in n .. Len(t) /\ 1 - 1 = 0 BY <1>1
  <2>2. SubSeq(t, 1, n) \o SubSeq(t, n + 1, Len(t)) = SubSeq(t, 1, Len(t))
    BY <2>1, ConcatAdjacentSubSeq
  <2> QED BY <2>2, SubSeqFull
<1> QED BY <1>2, <1>3, <1>4

-----------------------------------------------------------------------------
(* Types. *)

LEMMA Scripts ==
    ASSUME NEW s \in Session, NEW i \in 1 .. Len(Script[s])
    PROVE  Script[s] \in Seq(Symbol) /\ Len(Script[s]) \in Nat /\ Script[s][i] \in Symbol
<1>1. Script[s] \in Seq(Symbol) BY ScriptAssumption DEF Session
<1> QED BY <1>1, LenProperties, ElementOfSeq

LEMMA Starting == Init => TypeOK
<1> SUFFICES ASSUME Init PROVE TypeOK OBVIOUS
<1>1. \A s \in Session : Len(Script[s]) \in Nat BY ScriptAssumption, LenProperties DEF Session
<1>2. <<>> \in Seq(Symbol) /\ Len(<<>>) = 0 BY EmptySeq
<1>3. main \in Programs /\ up \in BOOLEAN /\ browser \in {"there", "gone"} /\ port \in [Session -> Ports]
  BY DEF Init
<1>4. /\ page \in [Session -> Seq(Symbol)] /\ toConsole \in [Session -> Seq(Symbol)]
      /\ toShell \in [Session -> Seq(Symbol)] /\ log \in [Session -> Seq(Symbol)]
      /\ tail \in [Session -> Seq(Symbol)]
  BY <1>2 DEF Init
<1>5. \A s \in Session : Len(tail[s]) =< 1 BY <1>2 DEF Init
<1>6. next \in [Session -> Nat] BY DEF Init
<1>7. \A s \in Session : next[s] \in 1 .. Len(Script[s]) + 1 BY <1>1 DEF Init
<1>8. rs \in [Session -> {"resolve", "connect", "request", "reply", "read", "write", "ended"}]
  BY DEF Init
<1>9. asked \in [Session -> PortNumber \union {NotANumber}] BY DEF Init
<1>10. shell \in [Session -> {"none", "asked", "greets", "waits", "closed", "broken"}] BY DEF Init
<1> QED BY <1>3, <1>4, <1>5, <1>6, <1>7, <1>8, <1>9, <1>10 DEF TypeOK

(* What a session has. *)
LEMMA Values ==
    ASSUME TypeOK, NEW s \in Session
    PROVE  /\ page[s] \in Text /\ toConsole[s] \in Text /\ toShell[s] \in Text /\ log[s] \in Text
           /\ tail[s] \in Text /\ Len(tail[s]) =< 1
           /\ next[s] \in Nat /\ next[s] \in 1 .. Len(Script[s]) + 1
  BY DEF TypeOK, Text

LEMMA PrintedTyped ==
    ASSUME TypeOK, NEW s \in Session, NEW text \in Text, OutputText(s, text)
    PROVE  page' \in [Session -> Seq(Symbol)] /\ up' \in BOOLEAN
<1>1. page[s] \o text \in Seq(Symbol)
  <2>1. page[s] \in Seq(Symbol) /\ text \in Seq(Symbol) BY Values DEF Text
  <2> QED BY <2>1, ConcatProperties
<1>2. page \in [Session -> Seq(Symbol)] /\ up \in BOOLEAN BY DEF TypeOK
<1> QED BY <1>1, <1>2 DEF OutputText

(* Of the port of a session, the low 16 bits are a port. *)
LEMMA SixteenBits ==
    ASSUME TypeOK, NEW s \in Session, port[s] # NotANumber
    PROVE  RequestedPort(s) \in PortNumber
<1>1. port[s] \in Nat BY PortAssumption DEF TypeOK
<1>2. \A k, m \in Nat : m > 0 => k % m \in 0 .. m - 1 OBVIOUS
<1>3. PortCount \in Nat /\ PortCount > 0 BY DEF PortCount
<1> QED BY <1>1, <1>2, <1>3 DEF RequestedPort, PortNumber

LEMMA HandlerTyped == ASSUME TypeOK, NEW s \in Session, Handler(s) PROVE TypeOK'
<1> USE DEF Goto, Waits, vars, program, remote, wires
<1>1. CASE Resolved(s) BY <1>1 DEF Resolved, TypeOK
<1>2. CASE ConnectedDirectly(s) BY <1>2 DEF ConnectedDirectly, TypeOK
<1>3. CASE ConnectedToProxy(s)
  <2>1. RequestedPort(s) \in PortNumber \union {NotANumber} BY <1>3, SixteenBits DEF ConnectedToProxy
  <2>2. asked' \in [Session -> PortNumber \union {NotANumber}]
    BY <1>3, <2>1 DEF ConnectedToProxy, TypeOK
  <2> QED BY <1>3, <2>2 DEF ConnectedToProxy, TypeOK
<1>4. CASE Throw(s) BY <1>4 DEF Throw, TypeOK
<1>5. CASE RequestSent(s) BY <1>5 DEF RequestSent, TypeOK
<1>6. CASE ReadReply(s)
  <2>1. PICK n \in WholeReply(s) :
           /\ toConsole' = [toConsole EXCEPT ![s] = SubSeq(@, n + 1, Len(@))]
           /\ Goto(s, IF toConsole[s][n] = "91" THEN "ended" ELSE "read")
    BY <1>6 DEF ReadReply
  <2>2. SubSeq(toConsole[s], n + 1, Len(toConsole[s])) \in Seq(Symbol)
    <3>1. n \in 1 .. Len(toConsole[s]) /\ toConsole[s] \in Seq(Symbol) BY Values DEF WholeReply, Text
    <3> QED BY <3>1, Parted
  <2>3. toConsole' \in [Session -> Seq(Symbol)] BY <2>1, <2>2 DEF TypeOK
  <2>4. rs' \in [Session -> Where] BY <2>1 DEF TypeOK, Where
  <2> QED BY <1>6, <2>3, <2>4 DEF ReadReply, TypeOK, Where
<1>7. CASE Read(s)
  <2>1. PICK n \in 1 .. Len(toConsole[s]) :
         LET text == SubSeq(toConsole[s], 1, n)
             combined == tail[s] \o text
         IN  /\ toConsole' = [toConsole EXCEPT ![s] = SubSeq(@, n + 1, Len(@))]
             /\ IF ~ReceivedPrompt(combined) THEN ReadOutput(s, text, LastOf(combined))
                ELSE IF HasMore(s) THEN ReadPrompt(s, text)
                ELSE ReadOutput(s, text, <<>>)
    BY <1>7 DEF Read
  <2> DEFINE text == SubSeq(toConsole[s], 1, n)
             combined == tail[s] \o text
  <2>2. /\ text \in Text /\ combined \in Text
        /\ SubSeq(toConsole[s], n + 1, Len(toConsole[s])) \in Seq(Symbol)
    <3>1. tail[s] \in Seq(Symbol) /\ toConsole[s] \in Seq(Symbol) BY Values DEF Text
    <3>2. text \in Seq(Symbol) /\ SubSeq(toConsole[s], n + 1, Len(toConsole[s])) \in Seq(Symbol)
      BY <3>1, Parted
    <3> QED BY <3>1, <3>2, ConcatProperties DEF Text
  <2>3. LastOf(combined) \in Text /\ Len(LastOf(combined)) =< 1 /\ <<>> \in Text /\ Len(<<>>) =< 1
    <3>1. combined # <<>> => Len(combined) \in 1 .. Len(combined) /\ Last(combined) \in Symbol
      BY <2>2, LenProperties, ElementOfSeq DEF Last, Text
    <3>2. \A a \in Symbol : <<a>> \in Seq(Symbol) /\ Len(<<a>>) = 1 OBVIOUS
    <3> QED BY <3>1, <3>2, EmptySeq DEF LastOf, Text
  <2>4. toConsole' \in [Session -> Seq(Symbol)] BY <2>1, <2>2 DEF TypeOK
  <2> HIDE DEF text, combined
  <2>5. ASSUME NEW end \in Text, Len(end) =< 1, ReadOutput(s, text, end) PROVE TypeOK'
    <3>1. page' \in [Session -> Seq(Symbol)] /\ up' \in BOOLEAN
      BY <2>2, <2>5, PrintedTyped DEF ReadOutput
    <3>2. tail' \in [Session -> Seq(Symbol)] /\ \A r \in Session : Len(tail'[r]) =< 1
      BY <2>5 DEF ReadOutput, TypeOK, Text
    <3> QED BY <1>7, <2>4, <2>5, <3>1, <3>2 DEF Read, ReadOutput, TypeOK
  <2>6. ASSUME HasMore(s), ReadPrompt(s, text) PROVE TypeOK'
    <3> DEFINE command == Script[s][next[s]]
    <3>1. next[s] \in 1 .. Len(Script[s]) /\ Len(Script[s]) \in Nat /\ next[s] + 1 \in 1 .. Len(Script[s]) + 1
      <4>1. Len(Script[s]) \in Nat BY ScriptAssumption, LenProperties DEF Session
      <4> QED BY <2>6, <4>1, Values DEF HasMore
    <3>2. command \in Symbol BY <3>1, Scripts
    <3> HIDE DEF command
    <3>3. text \o <<command>> \in Text /\ Append(toShell[s], command) \in Seq(Symbol)
      BY <2>2, <3>2, Values DEF Text
    <3>4. page' \in [Session -> Seq(Symbol)] /\ up' \in BOOLEAN
      BY <2>6, <3>3, PrintedTyped DEF ReadPrompt, command
    <3>5. toShell' \in [Session -> Seq(Symbol)] BY <2>6, <3>3 DEF ReadPrompt, command, TypeOK
    <3>6. next' \in [Session -> Nat] /\ \A r \in Session : next'[r] \in 1 .. Len(Script[r]) + 1
      <4>1. next' = [next EXCEPT ![s] = next[s] + 1] BY <2>6 DEF ReadPrompt
      <4>2. next \in [Session -> Nat] /\ \A r \in Session : next[r] \in 1 .. Len(Script[r]) + 1
        BY DEF TypeOK
      <4>3. next[s] + 1 \in Nat BY <4>2
      <4> QED BY <3>1, <4>1, <4>2, <4>3
    <3>7. tail' \in [Session -> Seq(Symbol)] /\ \A r \in Session : Len(tail'[r]) =< 1
      BY <2>3, <2>6 DEF ReadPrompt, TypeOK, Text
    <3> QED BY <1>7, <2>4, <2>6, <3>4, <3>5, <3>6, <3>7 DEF Read, ReadPrompt, TypeOK
  <2> QED BY <2>1, <2>3, <2>5, <2>6 DEF text, combined
<1>8. CASE Written(s) BY <1>8 DEF Written, TypeOK
<1>9. CASE Failed(s) BY <1>9 DEF Failed, TypeOK
<1> QED BY <1>1, <1>2, <1>3, <1>4, <1>5, <1>6, <1>7, <1>8, <1>9 DEF Handler

LEMMA FarTyped == ASSUME TypeOK, NEW s \in Session, Far(s) \/ Break(s) PROVE TypeOK'
<1> USE DEF vars, program, remote, wires
<1>1. CASE Reply(s)
  <2>1. toConsole' \in [Session -> Seq(Symbol)] BY <1>1, Symbols DEF Reply, TypeOK, Text
  <2> QED BY <1>1, <2>1 DEF Reply, TypeOK
<1>2. CASE Greet(s)
  <2>1. toConsole[s] \o Prompt \in Seq(Symbol) /\ log[s] \o Prompt \in Seq(Symbol)
    BY Symbols, Values, ConcatProperties DEF Text
  <2>2. toConsole' \in [Session -> Seq(Symbol)] /\ log' \in [Session -> Seq(Symbol)]
    BY <1>2, <2>1 DEF Greet, TypeOK
  <2> QED BY <1>2, <2>2 DEF Greet, TypeOK
<1>3. CASE Answer(s)
  <2>1. Tail(toShell[s]) \in Seq(Symbol) /\ Head(toShell[s]) \in Symbol
    BY <1>3, Values DEF Answer, Text
  <2>2. toShell' \in [Session -> Seq(Symbol)] BY <1>3, <2>1 DEF Answer, TypeOK
  <2>3. CASE Head(toShell[s]) = Exit
    <3>1. Append(log[s], Exit) \in Seq(Symbol)
      <4>1. log[s] \in Seq(Symbol) /\ Exit \in Symbol BY Symbols, Values DEF Text
      <4> QED BY <4>1, AppendProperties
    <3>2. log' \in [Session -> Seq(Symbol)] BY <1>3, <2>3, <3>1 DEF Answer, TypeOK
    <3> QED BY <1>3, <2>2, <2>3, <3>2 DEF Answer, TypeOK
  <2>4. CASE Head(toShell[s]) # Exit
    <3>1. PICK out \in Outputs :
             /\ toConsole' = [toConsole EXCEPT ![s] = @ \o out \o Prompt]
             /\ log' = [log EXCEPT ![s] = @ \o <<Head(toShell[s])>> \o out \o Prompt]
             /\ UNCHANGED shell
      BY <1>3, <2>4 DEF Answer
    <3>2. /\ toConsole[s] \o out \o Prompt \in Seq(Symbol)
          /\ log[s] \o <<Head(toShell[s])>> \o out \o Prompt \in Seq(Symbol)
      <4>1. out \in Seq(Symbol) /\ <<Head(toShell[s])>> \in Seq(Symbol) BY <2>1, OutputAssumption
      <4> QED BY <4>1, Symbols, Values, ConcatProperties DEF Text
    <3>3. toConsole' \in [Session -> Seq(Symbol)] /\ log' \in [Session -> Seq(Symbol)]
      BY <3>1, <3>2 DEF TypeOK
    <3> QED BY <1>3, <2>2, <3>1, <3>3 DEF Answer, TypeOK
  <2> QED BY <2>3, <2>4
<1>4. CASE Break(s)
  <2>1. \A left \in {toConsole[s], <<>>} : left \in Seq(Symbol) BY Symbols, Values DEF Text
  <2>2. toConsole' \in [Session -> Seq(Symbol)]
    <3>1. PICK left \in {toConsole[s], <<>>} : toConsole' = [toConsole EXCEPT ![s] = left]
      BY <1>4 DEF Break
    <3> QED BY <2>1, <3>1 DEF TypeOK
  <2> QED BY <1>4, <2>2 DEF Break, TypeOK
<1> QED BY <1>1, <1>2, <1>3, <1>4 DEF Far

LEMMA StepTyped == TypeOK /\ [Next]_vars => TypeOK'
<1> SUFFICES ASSUME TypeOK, [Next]_vars PROVE TypeOK' OBVIOUS
<1>1. CASE UNCHANGED vars BY <1>1 DEF vars, program, remote, wires, TypeOK
<1>2. CASE Return BY <1>2 DEF Return, remote, wires, TypeOK
<1>3. CASE LeaveBrowser BY <1>3 DEF LeaveBrowser, remote, wires, TypeOK
<1> QED BY <1>1, <1>2, <1>3, HandlerTyped, FarTyped DEF Next

(* For any parameters, every state that the program and the shells reach has its types: no *)
(* column, wire or request holds anything but symbols, next_command_ stays within the file *)
(* or just behind it, and prompt_tail_ is never longer than one character.                 *)
THEOREM TypeCorrect == Spec => []TypeOK
BY Starting, StepTyped, PTL DEF Spec

-----------------------------------------------------------------------------
(* Prompts. *)

PromptAt(u, i) == i + 1 =< Len(u) /\ u[i] = "%" /\ u[i + 1] = Space

(* A prompt is the end of what has been printed. *)
OnlyAtEnd(u) == \A i \in 1 .. Len(u) : PromptAt(u, i) => i + 1 = Len(u)

(* No shell prints a prompt in the middle of an output. *)
OutputsArePlain == \A o \in Outputs : \A i \in 1 .. Len(o) : ~PromptAt(o, i)

LEMMA PromptFound ==
    ASSUME NEW u \in Text, ReceivedPrompt(u)
    PROVE  \E i \in 1 .. Len(u) : PromptAt(u, i)
<1>1. PICK i \in 1 .. Len(u) : IsPrefix(Prompt, SubSeq(u, i, Len(u))) BY DEF ReceivedPrompt
<1> DEFINE rest == SubSeq(u, i, Len(u))
<1>2. u \in Seq(Symbol) /\ Len(u) \in Nat /\ \A j \in 1 .. Len(u) : u[j] \in Symbol
  BY LenProperties, ElementOfSeq DEF Text
<1>3. /\ rest \in Seq(Symbol) /\ Len(rest) = Len(u) - i + 1
      /\ \A j \in 1 .. Len(u) - i + 1 : rest[j] = u[i + j - 1]
  <2>1. i \in Int /\ Len(u) \in Int /\ \A j \in i .. Len(u) : u[j] \in Symbol BY <1>2
  <2>2. /\ rest \in Seq(Symbol)
        /\ Len(rest) = IF i =< Len(u) THEN Len(u) - i + 1 ELSE 0
        /\ \A j \in 1 .. Len(u) - i + 1 : rest[j] = u[i + j - 1]
    BY <2>1, SubSeqProperties
  <2> QED BY <1>2, <2>2
<1> HIDE DEF rest
<1>4. 2 =< Len(rest) /\ SubSeq(Prompt, 1, 2) = SubSeq(rest, 1, 2)
  BY <1>1, Symbols DEF IsPrefix, rest
<1>5. Prompt[1] = rest[1] /\ Prompt[2] = rest[2]
  <2>1. Prompt \in Seq(Symbol) /\ 2 \in 1 .. Len(Prompt) /\ 2 \in 1 .. Len(rest)
    BY <1>3, <1>4, <1>2, Symbols DEF Text
  <2>2. \A j \in 1 .. 2 : SubSeq(Prompt, 1, 2)[j] = Prompt[j] BY <2>1, Parted
  <2>3. \A j \in 1 .. 2 : SubSeq(rest, 1, 2)[j] = rest[j] BY <1>3, <2>1, Parted
  <2> QED BY <1>4, <2>2, <2>3
<1>6. rest[1] = u[i] /\ rest[2] = u[i + 1] /\ i + 1 =< Len(u) BY <1>2, <1>3, <1>4
<1> QED BY <1>5, <1>6, Symbols DEF PromptAt

LEMMA PlainAnswer ==
    ASSUME OutputsArePlain, NEW out \in Outputs
    PROVE  OnlyAtEnd(out \o Prompt)
<1>1. out \in Seq(Symbol) /\ Prompt \in Seq(Symbol) /\ Len(out) \in Nat /\ Len(Prompt) = 2
      /\ Prompt[1] = "%"
  BY OutputAssumption, Symbols, LenProperties DEF Text
<1>2. /\ Len(out \o Prompt) = Len(out) + 2
      /\ \A i \in 1 .. Len(out) : (out \o Prompt)[i] = out[i]
      /\ (out \o Prompt)[Len(out) + 1] = "%"
  <2>1. /\ Len(out \o Prompt) = Len(out) + Len(Prompt)
        /\ \A i \in 1 .. Len(out) + Len(Prompt) :
              (out \o Prompt)[i] = IF i <= Len(out) THEN out[i] ELSE Prompt[i - Len(out)]
    BY <1>1, Joined
  <2>2. /\ Len(out) + 1 \in 1 .. Len(out) + Len(Prompt) /\ ~(Len(out) + 1 <= Len(out))
        /\ Len(out) + 1 - Len(out) = 1
    BY <1>1
  <2>3. (out \o Prompt)[Len(out) + 1] = Prompt[1] BY <2>1, <2>2
  <2> QED BY <1>1, <2>1, <2>3
<1> SUFFICES ASSUME NEW i \in 1 .. Len(out) + 2, PromptAt(out \o Prompt, i)
             PROVE  i + 1 = Len(out) + 2
  BY <1>2 DEF OnlyAtEnd
<1>3. ~(i + 1 =< Len(out)) BY <1>1, <1>2 DEF PromptAt, OutputsArePlain
<1>4. i # Len(out) BY <1>1, <1>2, Symbols DEF PromptAt
<1> QED BY <1>1, <1>2, <1>3, <1>4 DEF PromptAt

LEMMA SuffixKeeps ==
    ASSUME NEW u \in Text, NEW v \in Text, OnlyAtEnd(u), Len(v) =< Len(u),
           \A j \in 1 .. Len(v) : v[j] = u[Len(u) - Len(v) + j]
    PROVE  OnlyAtEnd(v)
<1>1. Len(u) \in Nat /\ Len(v) \in Nat BY LenProperties DEF Text
<1> SUFFICES ASSUME NEW j \in 1 .. Len(v), PromptAt(v, j) PROVE j + 1 = Len(v) BY DEF OnlyAtEnd
<1> DEFINE i == Len(u) - Len(v) + j
<1>2. i \in 1 .. Len(u) /\ i + 1 =< Len(u) /\ u[i] = "%" /\ u[i + 1] = Space
  <2>1. j \in 1 .. Len(v) /\ j + 1 \in 1 .. Len(v) /\ v[j] = "%" /\ v[j + 1] = Space
    BY <1>1 DEF PromptAt
  <2>2. u[i + 1] = v[j + 1]
    <3>1. v[j + 1] = u[Len(u) - Len(v) + (j + 1)] BY <2>1
    <3>2. Len(u) - Len(v) + (j + 1) = i + 1 BY <1>1
    <3> QED BY <3>1, <3>2
  <2> QED BY <1>1, <2>1, <2>2
<1>3. i + 1 = Len(u) BY <1>2 DEF OnlyAtEnd, PromptAt
<1> QED BY <1>1, <1>3

(* Reading: what is kept with what is left still has its prompt at the end, and a prompt   *)
(* is found only when nothing is left.                                                     *)
LEMMA ReadKeeps ==
    ASSUME NEW kept \in Text, NEW t \in Text, OnlyAtEnd(kept \o t), NEW n \in 1 .. Len(t)
    PROVE  LET combined == kept \o SubSeq(t, 1, n)
               rest == SubSeq(t, n + 1, Len(t))
           IN  /\ OnlyAtEnd(LastOf(combined) \o rest)
               /\ ReceivedPrompt(combined) => rest = <<>> /\ SubSeq(t, 1, n) = t
<1> DEFINE text == SubSeq(t, 1, n)
           combined == kept \o text
           rest == SubSeq(t, n + 1, Len(t))
           u == kept \o t
<1>1. kept \in Seq(Symbol) /\ t \in Seq(Symbol) /\ Len(kept) \in Nat /\ Len(t) \in Nat
  BY LenProperties DEF Text
<1>2. /\ text \in Seq(Symbol) /\ Len(text) = n /\ \A i \in 1 .. n : text[i] = t[i]
      /\ rest \in Seq(Symbol) /\ Len(rest) = Len(t) - n
      /\ \A i \in 1 .. Len(t) - n : rest[i] = t[n + i]
      /\ text \o rest = t
  BY <1>1, Parted
<1> HIDE DEF text, rest
<1>3. /\ combined \in Seq(Symbol) /\ Len(combined) = Len(kept) + n
      /\ \A i \in 1 .. Len(kept) : combined[i] = kept[i]
      /\ \A i \in 1 .. n : combined[Len(kept) + i] = t[i]
  <2>1. /\ combined \in Seq(Symbol) /\ Len(combined) = Len(kept) + Len(text)
        /\ \A i \in 1 .. Len(kept) + Len(text) :
              combined[i] = IF i =< Len(kept) THEN kept[i] ELSE text[i - Len(kept)]
    BY <1>1, <1>2, Joined
  <2>2. ASSUME NEW i \in 1 .. n PROVE combined[Len(kept) + i] = t[i]
    <3>1. Len(kept) + i \in 1 .. Len(kept) + Len(text) /\ ~(Len(kept) + i =< Len(kept))
          /\ Len(kept) + i - Len(kept) = i
      BY <1>1, <1>2
    <3> QED BY <1>2, <2>1, <3>1
  <2> QED BY <1>1, <1>2, <2>1, <2>2
<1>4. /\ u \in Seq(Symbol) /\ Len(u) = Len(kept) + Len(t)
      /\ \A i \in 1 .. Len(kept) : u[i] = kept[i]
      /\ \A i \in 1 .. Len(t) : u[Len(kept) + i] = t[i]
  <2>1. /\ u \in Seq(Symbol) /\ Len(u) = Len(kept) + Len(t)
        /\ \A i \in 1 .. Len(kept) + Len(t) :
              u[i] = IF i =< Len(kept) THEN kept[i] ELSE t[i - Len(kept)]
    BY <1>1, Joined
  <2>2. ASSUME NEW i \in 1 .. Len(t) PROVE u[Len(kept) + i] = t[i]
    <3>1. Len(kept) + i \in 1 .. Len(kept) + Len(t) /\ ~(Len(kept) + i =< Len(kept))
          /\ Len(kept) + i - Len(kept) = i
      BY <1>1
    <3> QED BY <2>1, <3>1
  <2> QED BY <1>1, <2>1, <2>2
<1> HIDE DEF combined, u
<1>5. ASSUME NEW i \in 1 .. Len(combined) PROVE combined[i] = u[i]
  <2>1. CASE i =< Len(kept) BY <1>1, <1>3, <1>4, <2>1
  <2>2. CASE ~(i =< Len(kept))
    <3>1. i - Len(kept) \in 1 .. n /\ i - Len(kept) \in 1 .. Len(t) /\ Len(kept) + (i - Len(kept)) = i
      BY <1>1, <1>3, <2>2
    <3>2. combined[Len(kept) + (i - Len(kept))] = t[i - Len(kept)] BY <1>3, <3>1
    <3>3. u[Len(kept) + (i - Len(kept))] = t[i - Len(kept)] BY <1>4, <3>1
    <3> QED BY <3>1, <3>2, <3>3
  <2> QED BY <2>1, <2>2
<1>6. OnlyAtEnd(LastOf(combined) \o rest)
  <2> DEFINE last == combined[Len(combined)]
             one == <<last>>
             v == one \o rest
  <2>1. Len(combined) \in 1 .. Len(combined) /\ combined # <<>> /\ LastOf(combined) = <<last>>
    <3>1. Len(combined) \in 1 .. Len(combined) BY <1>1, <1>3
    <3>2. combined # <<>> BY <3>1, EmptySeq, <1>3
    <3> QED BY <3>1, <3>2 DEF LastOf, Last
  <2>2. last \in Symbol /\ last = u[Len(combined)] BY <1>3, <1>5, <2>1, ElementOfSeq
  <2> HIDE DEF last
  <2>3. one \in Seq(Symbol) /\ Len(one) = 1 /\ one[1] = last BY <2>2
  <2> HIDE DEF one
  <2>4. /\ v \in Seq(Symbol) /\ Len(v) = 1 + Len(rest)
        /\ \A i \in 1 .. 1 + Len(rest) : v[i] = IF i =< 1 THEN one[i] ELSE rest[i - 1]
    <3>1. /\ v \in Seq(Symbol) /\ Len(v) = Len(one) + Len(rest)
          /\ \A i \in 1 .. Len(one) + Len(rest) :
                v[i] = IF i =< Len(one) THEN one[i] ELSE rest[i - Len(one)]
      BY <1>2, <2>3, Joined
    <3> QED BY <2>3, <3>1
  <2> HIDE DEF v
  <2>5. Len(v) =< Len(u) /\ Len(u) - Len(v) + 1 = Len(combined) BY <1>1, <1>2, <1>3, <1>4, <2>4
  <2>6. ASSUME NEW j \in 1 .. Len(v) PROVE v[j] = u[Len(u) - Len(v) + j]
    <3>1. CASE j = 1
      <4>1. v[1] = one[1] BY <1>1, <1>2, <2>4
      <4> QED BY <2>2, <2>3, <2>5, <3>1, <4>1
    <3>2. CASE j # 1
      <4>1. j - 1 \in 1 .. Len(t) - n /\ ~(j =< 1) BY <1>1, <1>2, <2>4, <3>2
      <4>2. v[j] = rest[j - 1] BY <1>1, <1>2, <2>4, <4>1
      <4>3. rest[j - 1] = t[n + (j - 1)] BY <1>2, <4>1
      <4>4. n + (j - 1) \in 1 .. Len(t) BY <1>1, <4>1
      <4>5. u[Len(kept) + (n + (j - 1))] = t[n + (j - 1)] BY <1>4, <4>4
      <4>6. Len(kept) + (n + (j - 1)) = Len(u) - Len(v) + j BY <1>1, <1>2, <1>4, <2>4
      <4> QED BY <4>2, <4>3, <4>5, <4>6
    <3> QED BY <3>1, <3>2
  <2>7. OnlyAtEnd(v) BY <1>4, <2>4, <2>5, <2>6, SuffixKeeps DEF Text, u
  <2> QED BY <2>1, <2>7 DEF v, one
<1>7. ASSUME ReceivedPrompt(combined) PROVE rest = <<>> /\ text = t
  <2>1. PICK i \in 1 .. Len(combined) : PromptAt(combined, i) BY <1>3, <1>7, PromptFound DEF Text
  <2>2. i \in 1 .. Len(combined) /\ i + 1 \in 1 .. Len(combined) /\ i \in 1 .. Len(u)
    BY <1>1, <1>3, <1>4, <2>1 DEF PromptAt
  <2>3. PromptAt(u, i) BY <1>1, <1>3, <1>4, <1>5, <2>1, <2>2 DEF PromptAt
  <2>4. i + 1 = Len(u) BY <2>2, <2>3 DEF OnlyAtEnd, u
  <2>5. n = Len(t) /\ Len(rest) = 0 BY <1>1, <1>2, <1>3, <1>4, <2>2, <2>4
  <2>6. rest = <<>> BY <1>2, <2>5, EmptySeq
  <2>7. text = t BY <2>5, <1>1, SubSeqFull DEF text
  <2> QED BY <2>6, <2>7
<1> QED BY <1>6, <1>7 DEF combined, text, rest

-----------------------------------------------------------------------------
(* The dialogue of a session, stage by stage. *)

Silent(s) ==
    /\ page[s] = <<>> /\ toConsole[s] = <<>> /\ toShell[s] = <<>> /\ tail[s] = <<>> /\ log[s] = <<>>
    /\ shell[s] = "none"

(* Until the reply has been read the shell may have greeted behind it, and no more. *)
Asking(s) ==
    /\ page[s] = <<>> /\ toShell[s] = <<>> /\ tail[s] = <<>>
    /\ shell[s] \in {"asked", "greets", "waits", "closed", "broken"}
    /\ log[s] \in {<<>>, Prompt}
    /\ shell[s] \in {"asked", "greets", "closed"} => log[s] = <<>>
    /\ shell[s] = "asked" => toConsole[s] = <<>>
    /\ shell[s] \in {"greets", "waits"} => toConsole[s] = Granted \o log[s]
    /\ shell[s] = "closed" => toConsole[s] = Rejected
    /\ shell[s] = "broken" => toConsole[s] \in {<<>>, Granted \o log[s]}

(* From then on, what the column has and what is on its way to it is what the shell has    *)
(* printed and read, and the one command on its way to the shell; of a connection that     *)
(* broke the end may be missing.                                                           *)
Talking(s) ==
    /\ shell[s] \in {"greets", "waits", "closed", "broken"}
    /\ IsPrefix(page[s], log[s] \o toShell[s])
    /\ browser = "there" /\ (shell[s] # "broken" \/ toConsole[s] # <<>>) =>
         page[s] \o toConsole[s] = log[s] \o toShell[s]
    /\ toShell[s] # <<>> => toConsole[s] = <<>> /\ tail[s] = <<>> /\ Len(toShell[s]) = 1
    /\ shell[s] = "greets" =>
         toConsole[s] = <<>> /\ toShell[s] = <<>> /\ tail[s] = <<>> /\ log[s] = <<>>
    /\ OnlyAtEnd(tail[s] \o toConsole[s])

Over(s) ==
    /\ shell[s] \in {"none", "closed", "broken"}
    /\ IsPrefix(page[s], log[s] \o toShell[s])
    /\ shell[s] = "closed" /\ browser = "there" => page[s] = log[s] \o toShell[s]

Flow(s) ==
    /\ rs[s] \in {"resolve", "connect"} => Silent(s)
    /\ rs[s] \in {"request", "reply"} => Asking(s)
    /\ rs[s] \in {"read", "write"} => Talking(s)
    /\ rs[s] = "ended" => Over(s)

Flowing == TypeOK /\ \A s \in Session : Flow(s)

LEMMA FlowStarts == Init => Flowing
<1> SUFFICES ASSUME Init PROVE Flowing OBVIOUS
<1>1. TypeOK BY Starting
<1>2. ASSUME NEW s \in Session PROVE Flow(s)
  <2>1. rs[s] = "resolve" /\ Silent(s) BY DEF Init, Silent
  <2> QED BY <2>1 DEF Flow
<1> QED BY <1>1, <1>2 DEF Flowing

(* What the invariant is for. *)
LEMMA FlowSuffices == Flowing => PageInOrder
<1> SUFFICES ASSUME Flowing, NEW s \in Session
             PROVE  /\ IsPrefix(page[s], log[s] \o toShell[s])
                    /\ rs[s] = "ended" /\ shell[s] = "closed" /\ browser = "there" =>
                         page[s] = log[s] \o toShell[s]
  BY DEF PageInOrder
<1>1. TypeOK /\ Flow(s) BY DEF Flowing
<1>2. rs[s] \in Where BY <1>1 DEF TypeOK, Where
<1>3. CASE rs[s] \in {"resolve", "connect", "request", "reply"}
  <2>1. page[s] = <<>> BY <1>1, <1>3 DEF Flow, Silent, Asking
  <2>2. log[s] \o toShell[s] \in Seq(Symbol)
    <3>1. log[s] \in Seq(Symbol) /\ toShell[s] \in Seq(Symbol) BY <1>1, Values DEF Text
    <3> QED BY <3>1, ConcatProperties
  <2> QED BY <1>3, <2>1, <2>2, NothingIsPrefix
<1>4. CASE rs[s] \in {"read", "write"} BY <1>1, <1>4 DEF Flow, Talking
<1>5. CASE rs[s] = "ended" BY <1>1, <1>5 DEF Flow, Over
<1> QED BY <1>2, <1>3, <1>4, <1>5 DEF Where

(* A step of one session leaves the others alone. *)
SameFor(t) ==
    /\ page'[t] = page[t] /\ rs'[t] = rs[t] /\ tail'[t] = tail[t] /\ toConsole'[t] = toConsole[t]
    /\ toShell'[t] = toShell[t] /\ shell'[t] = shell[t] /\ log'[t] = log[t]

LEMMA Apart ==
    ASSUME TypeOK, NEW s \in Session, Handler(s) \/ Far(s) \/ Break(s)
    PROVE  browser' = browser /\ \A t \in Session \ {s} : SameFor(t)
<1> USE DEF program, remote, wires, SameFor
<1>1. CASE Resolved(s) BY <1>1 DEF Resolved, Goto, TypeOK
<1>2. CASE ConnectedDirectly(s) BY <1>2 DEF ConnectedDirectly, Goto, TypeOK
<1>3. CASE ConnectedToProxy(s) BY <1>3 DEF ConnectedToProxy, Goto, TypeOK
<1>4. CASE Throw(s) BY <1>4 DEF Throw
<1>5. CASE RequestSent(s) BY <1>5 DEF RequestSent, Goto, TypeOK
<1>6. CASE ReadReply(s) BY <1>6 DEF ReadReply, Goto, TypeOK
<1>7. CASE Read(s)
  <2>1. PICK n \in 1 .. Len(toConsole[s]) :
         LET text == SubSeq(toConsole[s], 1, n)
             combined == tail[s] \o text
         IN  /\ toConsole' = [toConsole EXCEPT ![s] = SubSeq(@, n + 1, Len(@))]
             /\ IF ~ReceivedPrompt(combined) THEN ReadOutput(s, text, LastOf(combined))
                ELSE IF HasMore(s) THEN ReadPrompt(s, text)
                ELSE ReadOutput(s, text, <<>>)
    BY <1>7 DEF Read
  <2>2. ASSUME NEW text, NEW t \in Session \ {s}, OutputText(s, text) PROVE page'[t] = page[t]
    BY <2>2 DEF OutputText, TypeOK
  <2>3. ASSUME NEW text, NEW end, ReadOutput(s, text, end), NEW t \in Session \ {s} PROVE SameFor(t)
    <3>1. page'[t] = page[t] BY <2>2, <2>3 DEF ReadOutput
    <3> QED BY <1>7, <2>1, <2>3, <3>1 DEF Read, ReadOutput, Goto, TypeOK
  <2>4. ASSUME NEW text, ReadPrompt(s, text), NEW t \in Session \ {s} PROVE SameFor(t)
    <3>1. page'[t] = page[t] BY <2>2, <2>4 DEF ReadPrompt
    <3> QED BY <1>7, <2>1, <2>4, <3>1 DEF Read, ReadPrompt, Goto, TypeOK
  <2>5. browser' = browser BY <1>7 DEF Read
  <2> QED BY <2>1, <2>3, <2>4, <2>5, Zenon
<1>8. CASE Written(s) BY <1>8 DEF Written, Goto, TypeOK
<1>9. CASE Failed(s) BY <1>9 DEF Failed, Goto, TypeOK
<1>10. CASE Reply(s) BY <1>10 DEF Reply, TypeOK
<1>11. CASE Greet(s) BY <1>11 DEF Greet, TypeOK
<1>12. CASE Answer(s) BY <1>12 DEF Answer, TypeOK
<1>13. CASE Break(s) BY <1>13 DEF Break, TypeOK
<1> QED BY <1>1, <1>2, <1>3, <1>4, <1>5, <1>6, <1>7, <1>8, <1>9, <1>10, <1>11, <1>12, <1>13
        DEF Handler, Far

(* A browser that goes only weakens what is asked. *)
LEMMA SameFlows ==
    ASSUME NEW t \in Session, Flow(t), SameFor(t), browser' \in {browser, "gone"}
    PROVE  Flow(t)'
BY DEF Flow, Silent, Asking, Talking, Over, SameFor

LEMMA Nothing ==
    /\ <<>> \in Seq(Symbol) /\ <<>> \o <<>> = <<>> /\ IsPrefix(<<>>, <<>>)
    /\ OnlyAtEnd(<<>>) /\ OnlyAtEnd(Prompt) /\ Prompt # <<>>
    /\ \A u \in Seq(Symbol) : <<>> \o u = u /\ u \o <<>> = u
<1>1. <<>> \in Seq(Symbol) /\ Len(<<>>) = 0 BY EmptySeq
<1>2. \A u \in Seq(Symbol) : <<>> \o u = u /\ u \o <<>> = u BY ConcatEmptySeq
<1>3. IsPrefix(<<>>, <<>>) BY <1>1, NothingIsPrefix
<1>4. OnlyAtEnd(<<>>) BY <1>1 DEF OnlyAtEnd
<1>5. OnlyAtEnd(Prompt) BY Symbols DEF OnlyAtEnd, PromptAt
<1>6. Prompt # <<>> BY <1>1, Symbols
<1> QED BY <1>1, <1>2, <1>3, <1>4, <1>5, <1>6

(* Connecting. *)
LEMMA ConnectFlows ==
    ASSUME Flowing, NEW s \in Session,
           Resolved(s) \/ ConnectedDirectly(s) \/ ConnectedToProxy(s) \/ RequestSent(s) \/ Written(s)
    PROVE  Flow(s)'
<1> USE DEF Goto, Waits, program, remote, wires
<1>0. TypeOK /\ Flow(s) BY DEF Flowing
<1>1. CASE Resolved(s)
  <2>1. Silent(s) /\ rs'[s] = "connect" BY <1>0, <1>1 DEF Resolved, Flow, TypeOK
  <2>2. Silent(s)' BY <1>1, <2>1 DEF Resolved, Silent
  <2> QED BY <2>1, <2>2 DEF Flow
<1>2. CASE ConnectedDirectly(s)
  <2>1. Silent(s) /\ rs'[s] = "read" /\ shell'[s] = "greets"
    BY <1>0, <1>2 DEF ConnectedDirectly, Flow, TypeOK
  <2>2. Talking(s)' BY <1>2, <2>1, Nothing DEF ConnectedDirectly, Silent, Talking
  <2> QED BY <2>1, <2>2 DEF Flow
<1>3. CASE ConnectedToProxy(s)
  <2>1. Silent(s) /\ rs'[s] = "request" /\ shell'[s] = "asked"
    BY <1>0, <1>3 DEF ConnectedToProxy, Flow, TypeOK
  <2>2. Asking(s)' BY <1>3, <2>1 DEF ConnectedToProxy, Silent, Asking
  <2> QED BY <2>1, <2>2 DEF Flow
<1>4. CASE RequestSent(s)
  <2>1. Asking(s) /\ rs'[s] = "reply" BY <1>0, <1>4 DEF RequestSent, Flow, TypeOK
  <2>2. Asking(s)' BY <1>4, <2>1 DEF RequestSent, Asking
  <2> QED BY <2>1, <2>2 DEF Flow
<1>5. CASE Written(s)
  <2>1. Talking(s) /\ rs'[s] = "read" BY <1>0, <1>5 DEF Written, Flow, TypeOK
  <2>2. Talking(s)' BY <1>5, <2>1 DEF Written, Talking
  <2> QED BY <2>1, <2>2 DEF Flow
<1> QED BY <1>1, <1>2, <1>3, <1>4, <1>5

(* The reply is taken off, all of it and nothing else. *)
LEMMA BehindReply ==
    ASSUME NEW a \in Seq(Symbol), NEW b \in Seq(Symbol)
    PROVE  SubSeq(a \o b, Len(a) + 1, Len(a \o b)) = b
<1>1. Len(a \o b) = Len(a) + Len(b) /\ Len(a) \in Nat /\ Len(b) \in Nat /\ a \o b \in Seq(Symbol)
  BY ConcatProperties, LenProperties
<1>2. CASE Len(b) = 0
  <2>1. b = <<>> BY <1>2, EmptySeq
  <2>2. Len(a) + 1 > Len(a \o b) BY <1>1, <1>2
  <2> QED BY <1>1, <2>1, <2>2, SubSeqEmpty
<1>3. CASE Len(b) # 0
  <2>1. Len(a) + 1 \in Len(a) + 1 .. Len(a) + Len(b) /\ Len(a) + Len(b) \in Len(a) + 1 .. Len(a) + Len(b)
        /\ Len(a) + 1 - Len(a) = 1 /\ Len(a) + Len(b) - Len(a) = Len(b)
    BY <1>1, <1>3
  <2>2. SubSeq(a \o b, Len(a) + 1, Len(a) + Len(b)) = SubSeq(b, 1, Len(b))
    BY <2>1, SubSeqOfConcat2
  <2> QED BY <1>1, <2>2, SubSeqFull
<1> QED BY <1>2, <1>3

LEMMA ReplyFlows == ASSUME Flowing, NEW s \in Session, ReadReply(s) PROVE Flow(s)'
<1> USE DEF Goto, Waits, program, remote, wires
<1>0. TypeOK /\ Flow(s) BY DEF Flowing
<1>1. Asking(s) BY <1>0 DEF ReadReply, Flow
<1>2. /\ 2 \in 1 .. Len(toConsole[s])
      /\ toConsole'[s] = SubSeq(toConsole[s], 2 + 1, Len(toConsole[s]))
      /\ rs'[s] = IF toConsole[s][2] = "91" THEN "ended" ELSE "read"
      /\ page' = page /\ browser' = browser /\ tail' = tail /\ toShell' = toShell
      /\ shell' = shell /\ log' = log
  BY <1>0, Symbols DEF ReadReply, WholeReply, TypeOK
<1>3. toConsole[s] # <<>> BY <1>2, EmptySeq
<1>4. \/ /\ toConsole[s] = Granted \o log[s]
         /\ shell[s] \in {"greets", "waits", "broken"}
      \/ /\ toConsole[s] = Rejected
         /\ shell[s] = "closed"
  <2>1. shell[s] \in {"asked", "greets", "waits", "closed", "broken"} /\ shell[s] # "asked"
    BY <1>1, <1>3 DEF Asking
  <2>2. shell[s] \in {"greets", "waits"} => toConsole[s] = Granted \o log[s] BY <1>1 DEF Asking
  <2>3. shell[s] = "broken" => toConsole[s] = Granted \o log[s] BY <1>1, <1>3 DEF Asking
  <2>4. shell[s] = "closed" => toConsole[s] = Rejected BY <1>1 DEF Asking
  <2>5. CASE shell[s] = "closed" BY <2>4, <2>5
  <2>6. CASE shell[s] \in {"greets", "waits", "broken"}
    <3>1. toConsole[s] = Granted \o log[s]
      <4>1. CASE shell[s] \in {"greets", "waits"} BY <2>2, <4>1, Zenon
      <4>2. CASE shell[s] = "broken" BY <2>3, <4>2, Zenon
      <4> QED BY <2>6, <4>1, <4>2
    <3> QED BY <2>6, <3>1, Zenon
  <2> QED BY <2>1, <2>5, <2>6
<1>5. CASE toConsole[s] = Granted \o log[s] /\ shell[s] \in {"greets", "waits", "broken"}
  <2>1. log[s] \in Seq(Symbol) /\ Granted \in Seq(Symbol) BY <1>0, Values, Symbols DEF Text
  <2>2. toConsole'[s] = log[s] BY <1>2, <1>5, <2>1, BehindReply, Symbols
  <2>3. (Granted \o log[s])[2] = Granted[2]
    <3>1. /\ Len(Granted \o log[s]) = Len(Granted) + Len(log[s]) /\ Len(log[s]) \in Nat
          /\ \A i \in 1 .. Len(Granted) + Len(log[s]) :
                (Granted \o log[s])[i] = IF i <= Len(Granted) THEN Granted[i] ELSE log[s][i - Len(Granted)]
      BY <2>1, ConcatProperties, LenProperties
    <3>2. 2 \in 1 .. Len(Granted) + Len(log[s]) /\ 2 <= Len(Granted) BY <3>1, Symbols
    <3> QED BY <3>1, <3>2
  <2>4. rs'[s] = "read" BY <1>2, <1>5, <2>3, Symbols
  <2>5. Talking(s)'
    <3>1. /\ page'[s] = <<>> /\ toShell'[s] = <<>> /\ tail'[s] = <<>> /\ toConsole'[s] = log[s]
          /\ log'[s] = log[s] /\ shell'[s] = shell[s] /\ shell[s] \in {"greets", "waits", "broken"}
          /\ shell[s] = "greets" => log[s] = <<>>
          /\ log[s] \in {<<>>, Prompt}
      BY <1>1, <1>2, <1>5, <2>2 DEF Asking
    <3>2. <<>> \o log[s] = log[s] /\ log[s] \o <<>> = log[s] /\ OnlyAtEnd(log[s])
      BY <2>1, <3>1, Nothing
    <3>3. IsPrefix(<<>>, log[s]) BY <2>1, NothingIsPrefix
    <3> QED BY <3>1, <3>2, <3>3 DEF Talking
  <2> QED BY <2>4, <2>5 DEF Flow
<1>6. CASE toConsole[s] = Rejected /\ shell[s] = "closed"
  <2>1. rs'[s] = "ended" BY <1>2, <1>6, Symbols
  <2>2. Over(s)' BY <1>1, <1>2, <1>6, Nothing DEF Asking, Over
  <2> QED BY <2>1, <2>2 DEF Flow
<1> QED BY <1>4, <1>5, <1>6

LEMMA FailedFlows == ASSUME Flowing, NEW s \in Session, Failed(s) PROVE Flow(s)'
<1> USE DEF Goto, program, remote, wires
<1>0. TypeOK /\ Flow(s) BY DEF Flowing
<1>1. rs'[s] = "ended" BY <1>0 DEF Failed, TypeOK
<1>2. /\ log[s] \in Seq(Symbol) /\ toShell[s] \in Seq(Symbol) /\ page[s] \in Seq(Symbol)
      /\ log[s] \o toShell[s] \in Seq(Symbol)
  <2>1. log[s] \in Seq(Symbol) /\ toShell[s] \in Seq(Symbol) /\ page[s] \in Seq(Symbol)
    BY <1>0, Values DEF Text
  <2> QED BY <2>1, ConcatProperties
<1>3. Over(s)
  <2>1. CASE rs[s] \in {"resolve", "connect"} BY <1>0, <2>1, Nothing DEF Flow, Silent, Over
  <2>2. CASE rs[s] \in {"request", "reply"}
    <3>1. Asking(s) /\ shell[s] \in {"broken", "closed"} /\ (shell[s] = "closed" => toConsole[s] = <<>>)
      BY <1>0, <2>2 DEF Failed, Flow
    <3>2. Rejected # <<>> BY Symbols, EmptySeq
    <3>3. shell[s] = "broken" BY <3>1, <3>2 DEF Asking
    <3>4. IsPrefix(<<>>, log[s] \o toShell[s]) BY <1>2, NothingIsPrefix
    <3> QED BY <3>1, <3>3, <3>4 DEF Asking, Over
  <2>3. CASE rs[s] \in {"read", "write"}
    <3>1. Talking(s) /\ shell[s] \in {"broken", "closed"} /\ (shell[s] = "closed" => toConsole[s] = <<>>)
      BY <1>0, <2>3 DEF Failed, Flow
    <3>2. page[s] \o <<>> = page[s] BY <1>2, Nothing
    <3> QED BY <3>1, <3>2 DEF Talking, Over
  <2> QED BY <2>1, <2>2, <2>3 DEF Failed
<1>4. Over(s)' BY <1>3 DEF Over, Failed
<1> QED BY <1>1, <1>4 DEF Flow

(* Reading.  With a prompt found nothing is left of what has arrived, so that the command  *)
(* is printed behind it.                                                                   *)
LEMMA ReadFlows == ASSUME Flowing, NEW s \in Session, Read(s) PROVE Flow(s)'
<1> USE DEF Waits
<1>0. TypeOK /\ Flow(s) BY DEF Flowing
<1>1. rs[s] = "read" /\ Talking(s) BY <1>0 DEF Read, Flow
<1>2. PICK n \in 1 .. Len(toConsole[s]) :
         LET text == SubSeq(toConsole[s], 1, n)
             combined == tail[s] \o text
         IN  /\ toConsole' = [toConsole EXCEPT ![s] = SubSeq(@, n + 1, Len(@))]
             /\ IF ~ReceivedPrompt(combined) THEN ReadOutput(s, text, LastOf(combined))
                ELSE IF HasMore(s) THEN ReadPrompt(s, text)
                ELSE ReadOutput(s, text, <<>>)
  BY DEF Read
<1> DEFINE text == SubSeq(toConsole[s], 1, n)
           combined == tail[s] \o text
           rest == SubSeq(toConsole[s], n + 1, Len(toConsole[s]))
           said == log[s] \o toShell[s]
<1>3. /\ page[s] \in Seq(Symbol) /\ toConsole[s] \in Seq(Symbol) /\ toShell[s] \in Seq(Symbol)
      /\ log[s] \in Seq(Symbol) /\ tail[s] \in Seq(Symbol) /\ said \in Seq(Symbol)
  <2>1. /\ page[s] \in Seq(Symbol) /\ toConsole[s] \in Seq(Symbol) /\ toShell[s] \in Seq(Symbol)
        /\ log[s] \in Seq(Symbol) /\ tail[s] \in Seq(Symbol)
    BY <1>0, Values DEF Text
  <2> QED BY <2>1, ConcatProperties
<1>4. text \in Seq(Symbol) /\ rest \in Seq(Symbol) /\ text \o rest = toConsole[s] BY <1>3, Parted
<1>5. /\ OnlyAtEnd(LastOf(combined) \o rest)
      /\ ReceivedPrompt(combined) => rest = <<>> /\ text = toConsole[s]
  BY <1>1, <1>3, ReadKeeps DEF Talking, Text
<1>6. toConsole[s] # <<>> BY <1>3, EmptySeq
<1>7. /\ toShell[s] = <<>> /\ shell[s] \in {"waits", "closed", "broken"}
      /\ IsPrefix(page[s], said)
      /\ browser = "there" => page[s] \o toConsole[s] = said
  BY <1>1, <1>6 DEF Talking
<1>8. said = log[s] BY <1>3, <1>7, Nothing
<1>9. /\ toConsole'[s] = rest /\ browser' = browser /\ shell' = shell /\ log' = log
  BY <1>0, <1>2 DEF Read, TypeOK
<1>10. \A u \in Seq(Symbol) :
          OutputText(s, u) => page'[s] = IF browser = "there" THEN page[s] \o u ELSE page[s]
  BY <1>0 DEF OutputText, TypeOK
<1> HIDE DEF text, combined, rest, said
<1>11. (page[s] \o text) \o rest = page[s] \o toConsole[s]
  <2>1. page[s] \in Seq(Symbol) /\ text \in Seq(Symbol) /\ rest \in Seq(Symbol) BY <1>3, <1>4
  <2>2. (page[s] \o text) \o rest = page[s] \o (text \o rest) BY <2>1, Regroup, Zenon
  <2> QED BY <1>4, <2>2, Zenon
<1>12. page[s] \o text \in Seq(Symbol) BY <1>3, <1>4, ConcatProperties
<1>13. ASSUME NEW end, ReadOutput(s, text, end), OnlyAtEnd(end \o rest) PROVE Flow(s)'
  <2>1. /\ rs'[s] = "read" /\ tail'[s] = end /\ toShell' = toShell
        /\ page'[s] = IF browser = "there" THEN page[s] \o text ELSE page[s]
    BY <1>0, <1>4, <1>10, <1>13 DEF ReadOutput, Goto, TypeOK
  <2>2. browser = "there" => page'[s] \o rest = said BY <1>7, <1>11, <2>1
  <2>3. IsPrefix(page'[s], said)
    <3>1. CASE browser = "there" BY <1>4, <1>12, <2>1, <2>2, <3>1, PrefixOfConcat
    <3>2. CASE browser # "there" BY <1>7, <2>1, <3>2
    <3> QED BY <3>1, <3>2
  <2>4. Talking(s)' BY <1>7, <1>9, <1>13, <2>1, <2>2, <2>3 DEF Talking, said
  <2> QED BY <2>1, <2>4 DEF Flow
<1>14. ASSUME ReceivedPrompt(combined), HasMore(s), ReadPrompt(s, text) PROVE Flow(s)'
  <2> DEFINE command == Script[s][next[s]]
  <2>1. command \in Symbol /\ <<command>> \in Seq(Symbol)
    <3>1. Len(Script[s]) \in Nat BY ScriptAssumption, LenProperties DEF Session
    <3>2. next[s] \in 1 .. Len(Script[s]) BY <1>0, <1>14, <3>1, Values DEF HasMore
    <3>3. command \in Symbol BY <3>2, Scripts
    <3> QED BY <3>3
  <2>2. /\ rs'[s] = "write" /\ tail'[s] = <<>> /\ toShell'[s] = Append(toShell[s], command)
        /\ OutputText(s, text \o <<command>>)
    BY <1>0, <1>14 DEF ReadPrompt, Goto, TypeOK
  <2> HIDE DEF command
  <2>3. toShell'[s] = <<command>> /\ Len(<<command>>) = 1
    <3>1. Append(<<>>, command) = <<>> \o <<command>> BY <2>1, Nothing, AppendIsConcat
    <3> QED BY <1>7, <2>1, <2>2, <3>1, Nothing
  <2>4. rest = <<>> /\ text = toConsole[s] BY <1>5, <1>14
  <2>5. text \o <<command>> \in Seq(Symbol) BY <1>4, <2>1, ConcatProperties
  <2>6. page'[s] = IF browser = "there" THEN page[s] \o (text \o <<command>>) ELSE page[s]
    BY <1>10, <2>2, <2>5
  <2>7. browser = "there" => page'[s] = log[s] \o <<command>>
    <3>1. page[s] \o (text \o <<command>>) = (page[s] \o text) \o <<command>>
      <4>1. page[s] \in Seq(Symbol) /\ text \in Seq(Symbol) /\ <<command>> \in Seq(Symbol)
        BY <1>3, <1>4, <2>1
      <4> QED BY <4>1, Regroup, Zenon
    <3> QED BY <1>7, <1>8, <2>4, <2>6, <3>1
  <2>8. log[s] \o <<command>> \in Seq(Symbol) /\ (log[s] \o <<command>>) \o <<>> = log[s] \o <<command>>
    BY <1>3, <2>1, ConcatProperties, Nothing
  <2>9. IsPrefix(page'[s], log[s] \o <<command>>)
    <3>1. CASE browser = "there"
      BY <2>7, <2>8, <3>1, Nothing, PrefixOfConcat
    <3>2. CASE browser # "there"
      <4>1. IsPrefix(page[s], log[s] \o <<command>>) BY <1>3, <1>7, <1>8, <2>1, PrefixExtends
      <4> QED BY <2>6, <3>2, <4>1
    <3> QED BY <3>1, <3>2
  <2>10. browser = "there" => page'[s] \o <<>> = log[s] \o <<command>> BY <2>7, <2>8
  <2>11. Talking(s)'
    BY <1>7, <1>9, <2>2, <2>3, <2>4, <2>9, <2>10, Nothing DEF Talking
  <2> QED BY <2>2, <2>11 DEF Flow
<1>15. OnlyAtEnd(<<>> \o rest) \/ ~ReceivedPrompt(combined) BY <1>5, Nothing
<1> QED BY <1>2, <1>5, <1>13, <1>14, <1>15 DEF text, combined

(* The proxy and the shells. *)
LEMMA FarFlows ==
    ASSUME OutputsArePlain, Flowing, NEW s \in Session, Far(s) \/ Break(s)
    PROVE  Flow(s)'
<1> USE DEF program, remote, wires
<1>0. TypeOK /\ Flow(s) /\ rs[s] \in Where BY DEF Flowing, TypeOK, Where
<1>1. /\ page[s] \in Seq(Symbol) /\ toConsole[s] \in Seq(Symbol) /\ toShell[s] \in Seq(Symbol)
      /\ log[s] \in Seq(Symbol) /\ Prompt \in Seq(Symbol)
  BY <1>0, Values, Symbols DEF Text
<1>2. shell[s] \in {"asked", "greets", "waits"} BY DEF Far, Reply, Greet, Answer, Break
<1>3. \/ rs[s] \in {"request", "reply"} /\ Asking(s)
      \/ rs[s] \in {"read", "write"} /\ Talking(s)
  BY <1>0, <1>2 DEF Flow, Silent, Over, Where
<1>4. rs' = rs /\ page' = page /\ tail' = tail /\ browser' = browser
  BY DEF Far, Reply, Greet, Answer, Break
<1>5. CASE Reply(s)
  <2>1. rs[s] \in {"request", "reply"} /\ Asking(s) BY <1>3, <1>5 DEF Reply, Talking
  <2>2. \/ toConsole'[s] = Granted /\ shell'[s] = "greets"
        \/ toConsole'[s] = Rejected /\ shell'[s] = "closed"
    BY <1>0, <1>5 DEF Reply, TypeOK
  <2>3. log'[s] = <<>> /\ toShell'[s] = <<>> /\ Granted \o <<>> = Granted
    BY <1>5, <2>1, Symbols, Nothing DEF Reply, Asking, Text
  <2>4. Asking(s)' BY <1>4, <2>1, <2>2, <2>3 DEF Asking
  <2> QED BY <1>4, <2>1, <2>4 DEF Flow
<1>6. CASE Greet(s)
  <2>1. /\ shell[s] = "greets" /\ shell'[s] = "waits" /\ toShell' = toShell
        /\ toConsole'[s] = toConsole[s] \o Prompt /\ log'[s] = log[s] \o Prompt
    BY <1>0, <1>6 DEF Greet, TypeOK
  <2>2. CASE rs[s] \in {"request", "reply"} /\ Asking(s)
    <3>1. log[s] = <<>> /\ toConsole[s] = Granted \o <<>> BY <2>1, <2>2 DEF Asking
    <3>2. log'[s] = Prompt /\ toConsole'[s] = Granted \o Prompt
      BY <1>1, <2>1, <3>1, Symbols, Nothing DEF Text
    <3>3. Asking(s)' BY <1>4, <2>1, <2>2, <3>2 DEF Asking
    <3> QED BY <1>4, <2>2, <3>3 DEF Flow
  <2>3. CASE rs[s] \in {"read", "write"} /\ Talking(s)
    <3>1. toConsole[s] = <<>> /\ toShell[s] = <<>> /\ tail[s] = <<>> /\ log[s] = <<>>
      BY <2>1, <2>3 DEF Talking
    <3>2. /\ toConsole'[s] = Prompt /\ log'[s] = Prompt /\ toShell'[s] = <<>> /\ tail'[s] = <<>>
          /\ Prompt \o <<>> = Prompt /\ <<>> \o Prompt = Prompt
      BY <1>1, <1>4, <2>1, <3>1, Nothing
    <3>3. page[s] = <<>> \/ browser # "there"
      <4>1. browser = "there" => page[s] \o <<>> = <<>> \o <<>> BY <2>1, <2>3, <3>1 DEF Talking
      <4> QED BY <1>1, <4>1, Nothing
    <3>4. IsPrefix(page[s], Prompt)
      <4>1. IsPrefix(page[s], <<>> \o <<>>) BY <2>3, <3>1 DEF Talking
      <4>2. IsPrefix(page[s], <<>>) BY <4>1, Nothing
      <4>3. IsPrefix(page[s], <<>> \o Prompt) BY <1>1, <4>2, Nothing, PrefixExtends
      <4> QED BY <3>2, <4>3
    <3>5. Talking(s)' BY <1>4, <2>1, <3>2, <3>3, <3>4, Nothing DEF Talking
    <3> QED BY <1>4, <2>3, <3>5 DEF Flow
  <2> QED BY <1>3, <2>2, <2>3
<1>7. CASE Break(s)
  <2>1. /\ shell[s] \in {"asked", "greets", "waits"} /\ shell'[s] = "broken" /\ toShell' = toShell /\ log' = log
        /\ toConsole'[s] \in {toConsole[s], <<>>}
    <3>1. PICK left \in {toConsole[s], <<>>} : toConsole' = [toConsole EXCEPT ![s] = left]
      BY <1>7 DEF Break
    <3> QED BY <1>0, <1>7, <3>1 DEF Break, TypeOK
  <2>2. CASE rs[s] \in {"request", "reply"} /\ Asking(s)
    <3>1. toConsole[s] \in {<<>>, Granted \o log[s]}
      <4>1. CASE shell[s] = "asked" BY <2>2, <4>1 DEF Asking
      <4>2. CASE shell[s] \in {"greets", "waits"} BY <2>2, <4>2, Zenon DEF Asking
      <4> QED BY <2>1, <4>1, <4>2
    <3>2. toConsole'[s] \in {<<>>, Granted \o log[s]} BY <2>1, <3>1, Zenon
    <3>3. Asking(s)' BY <1>4, <2>1, <2>2, <3>2 DEF Asking
    <3> QED BY <1>4, <2>2, <3>3 DEF Flow
  <2>3. CASE rs[s] \in {"read", "write"} /\ Talking(s)
    <3>1. shell[s] # "broken" BY <2>1
    <3>2. OnlyAtEnd(tail[s] \o toConsole'[s])
      <4>1. CASE toConsole'[s] = toConsole[s] BY <2>3, <4>1, Zenon DEF Talking
      <4>2. CASE toConsole'[s] = <<>>
        <5>1. tail[s] \in Seq(Symbol) /\ Len(tail[s]) =< 1 /\ Len(tail[s]) \in Nat
          BY <1>0, Values, LenProperties DEF Text
        <5>2. tail[s] \o <<>> = tail[s] BY <5>1, Nothing
        <5>3. OnlyAtEnd(tail[s]) BY <5>1 DEF OnlyAtEnd, PromptAt
        <5> QED BY <4>2, <5>2, <5>3
      <4> QED BY <2>1, <4>1, <4>2
    <3>3. Talking(s)' BY <1>4, <2>1, <2>3, <3>1, <3>2 DEF Talking
    <3> QED BY <1>4, <2>3, <3>3 DEF Flow
  <2> QED BY <1>3, <2>2, <2>3
<1>8. CASE Answer(s)
  <2> DEFINE command == Head(toShell[s])
  <2>1. rs[s] \in {"read", "write"} /\ Talking(s) BY <1>3, <1>8 DEF Answer, Asking
  <2>2. toConsole[s] = <<>> /\ tail[s] = <<>> /\ toShell[s] # <<>> /\ Len(toShell[s]) = 1
    BY <1>8, <2>1 DEF Answer, Talking
  <2>3. toShell[s] = <<command>> /\ command \in Symbol /\ toShell'[s] = <<>>
    <3>1. command \in Symbol /\ Tail(toShell[s]) \in Seq(Symbol) /\ Len(Tail(toShell[s])) = 0
      BY <1>1, <2>2, HeadTailProperties
    <3>2. Tail(toShell[s]) = <<>> BY <3>1, EmptySeq
    <3>3. toShell[s] = <<command>> BY <1>1, <2>2
    <3>4. toShell'[s] = Tail(toShell[s]) BY <1>0, <1>8 DEF Answer, TypeOK
    <3> QED BY <3>1, <3>2, <3>3, <3>4
  <2>4. shell[s] = "waits" BY <1>8 DEF Answer
  <2> HIDE DEF command
  <2> DEFINE said == log[s] \o <<command>>
  <2>5. said \in Seq(Symbol) /\ <<command>> \in Seq(Symbol)
    <3>1. <<command>> \in Seq(Symbol) BY <2>3
    <3> QED BY <1>1, <3>1, ConcatProperties
  <2>6. IsPrefix(page[s], said) /\ (browser = "there" => page[s] = said)
    <3>1. IsPrefix(page[s], said) BY <2>1, <2>3, Zenon DEF Talking
    <3>2. browser = "there" => page[s] \o <<>> = said BY <2>1, <2>2, <2>3, <2>4 DEF Talking
    <3> QED BY <1>1, <3>1, <3>2, Nothing
  <2> HIDE DEF said
  <2>7. CASE command = Exit
    <3>1. shell'[s] = "closed" /\ log'[s] = Append(log[s], Exit) /\ toConsole' = toConsole
      BY <1>0, <1>8, <2>7 DEF Answer, TypeOK, command
    <3>2. log'[s] = said
      <4>1. Append(log[s], Exit) = log[s] \o <<Exit>> BY <1>1, Symbols, AppendIsConcat
      <4> QED BY <2>7, <3>1, <4>1 DEF said
    <3>3. /\ said \o <<>> = said /\ page[s] \o <<>> = page[s] /\ toConsole'[s] = <<>>
          /\ tail'[s] = <<>>
      BY <1>1, <1>4, <2>2, <2>5, <3>1, Nothing
    <3>4. Talking(s)' BY <1>4, <2>3, <2>6, <3>1, <3>2, <3>3, Nothing DEF Talking
    <3> QED BY <1>4, <2>1, <3>4 DEF Flow
  <2>8. CASE command # Exit
    <3>1. PICK out \in Outputs :
             /\ toConsole' = [toConsole EXCEPT ![s] = @ \o out \o Prompt]
             /\ log' = [log EXCEPT ![s] = @ \o <<command>> \o out \o Prompt]
             /\ UNCHANGED shell
      BY <1>8, <2>8 DEF Answer, command
    <3> DEFINE answer == out \o Prompt
    <3>2. out \in Seq(Symbol) /\ answer \in Seq(Symbol)
      <4>1. out \in Seq(Symbol) BY OutputAssumption
      <4> QED BY <1>1, <4>1, ConcatProperties
    <3>3. toConsole'[s] = answer
      <4>1. toConsole'[s] = <<>> \o out \o Prompt BY <1>0, <2>2, <3>1 DEF TypeOK
      <4>2. <<>> \o out = out BY <3>2, Nothing
      <4> QED BY <4>1, <4>2
    <3>4. log'[s] = said \o answer
      <4>1. log'[s] = (said \o out) \o Prompt BY <1>0, <3>1 DEF TypeOK, said
      <4>2. (said \o out) \o Prompt = said \o (out \o Prompt)
        <5>1. said \in Seq(Symbol) /\ out \in Seq(Symbol) /\ Prompt \in Seq(Symbol)
          BY <1>1, <2>5, <3>2
        <5> QED BY <5>1, Regroup, Zenon
      <4> QED BY <4>1, <4>2
    <3>5. OnlyAtEnd(answer) BY PlainAnswer
    <3> HIDE DEF answer
    <3>6. /\ said \o answer \in Seq(Symbol) /\ (said \o answer) \o <<>> = said \o answer
          /\ <<>> \o answer = answer
      <4>1. said \o answer \in Seq(Symbol) BY <2>5, <3>2, ConcatProperties
      <4> QED BY <3>2, <4>1, Nothing
    <3>7. IsPrefix(page[s], said \o answer) BY <1>1, <2>5, <2>6, <3>2, PrefixExtends
    <3>8. browser = "there" => page[s] \o answer = said \o answer BY <2>6
    <3>9. shell'[s] = "waits" /\ tail'[s] = <<>> BY <1>4, <2>2, <2>4, <3>1
    <3>10. Talking(s)'
      BY <1>4, <2>3, <3>3, <3>4, <3>5, <3>6, <3>7, <3>8, <3>9 DEF Talking
    <3> QED BY <1>4, <2>1, <3>10 DEF Flow
  <2> QED BY <2>7, <2>8
<1> QED BY <1>5, <1>6, <1>7, <1>8 DEF Far

LEMMA StepFlows == OutputsArePlain /\ Flowing /\ [Next]_vars => Flowing'
<1> SUFFICES ASSUME OutputsArePlain, Flowing, [Next]_vars PROVE Flowing' OBVIOUS
<1>1. TypeOK' BY StepTyped DEF Flowing
<1> SUFFICES ASSUME NEW t \in Session PROVE Flow(t)' BY <1>1 DEF Flowing
<1>2. TypeOK /\ Flow(t) BY DEF Flowing
<1>3. CASE UNCHANGED vars \/ Return \/ LeaveBrowser
  <2>1. SameFor(t) /\ browser' \in {browser, "gone"}
    BY <1>3 DEF vars, program, remote, wires, Return, LeaveBrowser, SameFor
  <2> QED BY <1>2, <2>1, SameFlows
<1>4. ASSUME NEW s \in Session, Handler(s) \/ Far(s) \/ Break(s) PROVE Flow(t)'
  <2>1. CASE t # s
    <3>1. SameFor(t) /\ browser' = browser BY <1>2, <1>4, <2>1, Apart
    <3> QED BY <1>2, <3>1, SameFlows
  <2>2. CASE t = s
    <3>1. CASE Throw(s)
      <4>1. SameFor(s) /\ browser' = browser BY <3>1 DEF Throw, remote, wires, SameFor
      <4> QED BY <1>2, <2>2, <4>1, SameFlows
    <3> QED BY <1>4, <2>2, <3>1, ConnectFlows, ReplyFlows, ReadFlows, FailedFlows, FarFlows
            DEF Handler
  <2> QED BY <2>1, <2>2
<1> QED BY <1>3, <1>4 DEF Next

(* For any parameters: when no shell prints a prompt within an output, every column shows  *)
(* what passed at its shell's end, in order, intact and without the proxy's reply, however *)
(* reads are split, sessions interleave, connections break and the browser leaves; and a   *)
(* session that its shell ended has shown all of it.                                       *)
THEOREM ColumnsShowTheDialogue ==
    ASSUME OutputsArePlain
    PROVE  Spec => []PageInOrder
<1>1. Init => Flowing BY FlowStarts
<1>2. Flowing /\ [Next]_vars => Flowing' BY StepFlows
<1>3. Flowing => PageInOrder BY FlowSuffices
<1> QED BY <1>1, <1>2, <1>3, PTL DEF Spec

=============================================================================
