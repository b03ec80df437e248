-------------------------- MODULE CgiConsoleProofs --------------------------
(***************************************************************************)
(* Theorems about CgiConsole, for any number of sessions, any scripts and, *)
(* as far as said, outputs.                                                *)
(***************************************************************************)
EXTENDS CgiConsole, SequenceTheorems, FiniteSetTheorems, WellFoundedInduction, TLAPS

-----------------------------------------------------------------------------
(***************************************************************************)
(* Induction.  A set is a first-order object: the smallest number that is  *)
(* not in it needs no predicate to be instantiated.                        *)
(***************************************************************************)

LEMMA SetInduction ==
    ASSUME NEW S, 0 \in S, \A n \in Nat : n \in S => n + 1 \in S
    PROVE  Nat \subseteq S
<1> SUFFICES ASSUME NEW k \in Nat, k \notin S PROVE FALSE
  OBVIOUS
<1> DEFINE T == Nat \ S
<1>1. T \subseteq Nat /\ T # {} OBVIOUS
<1> HIDE DEF T
<1>2. PICK x \in T : \A y \in T : ~ (<<y, x>> \in OpToRel(<, Nat))
  BY <1>1, NatLessThanWellFounded, WFMin
<1>3. x # 0 /\ x \in Nat BY DEF T
<1>4. x - 1 \in T BY <1>3 DEF T
<1>5. <<x - 1, x>> \in Nat \X Nat BY <1>3
<1>6. <<x - 1, x>> \in OpToRel(<, Nat) BY <1>3, <1>5 DEF OpToRel
<1> QED BY <1>2, <1>4, <1>6

LEMMA UpTo ==
    ASSUME NEW n \in Nat, NEW S, 0 \in S, \A k \in 1 .. n : k - 1 \in S => k \in S
    PROVE  \A k \in 0 .. n : k \in S
<1> DEFINE T == S \union {k \in Nat : k > n}
<1>1. 0 \in T /\ \A k \in Nat : k \in T => k + 1 \in T
  <2> SUFFICES ASSUME NEW k \in Nat, k \in T PROVE k + 1 \in T
    OBVIOUS
  <2>1. CASE k + 1 > n BY <2>1
  <2>2. CASE k + 1 \in 1 .. n
    <3>1. PICK j \in 1 .. n : j = k + 1 BY <2>2
    <3>2. j - 1 \in S BY <3>1
    <3> QED BY <3>1, <3>2
  <2> QED BY <2>1, <2>2
<1> HIDE DEF T
<1>2. Nat \subseteq T BY <1>1, SetInduction
<1> QED BY <1>2 DEF T

-----------------------------------------------------------------------------
(* Texts. *)

Text == Seq(Symbol)

LEMMA Symbols ==
    /\ Prompt \in Text /\ Len(Prompt) = 2 /\ Prompt[1] = "%" /\ Prompt[2] = Space /\ Space # "%"
    /\ "%" \in Symbol /\ <<"%">> \in Text
    /\ Failure \in Text /\ Failure # <<>> /\ Garbage \in Symbol /\ <<>> \in Text
    /\ Head0 \in Items /\ Head0.id = 0 /\ Head0.text # <<>>
<1>1. "%" \in Symbol /\ Space \in Symbol /\ "head" \in Symbol /\ "failed" \in Symbol
      /\ Garbage \in Symbol
  BY DEF Symbol
<1>2. \A a \in Symbol : <<a>> \in Seq(Symbol) /\ <<a>> # <<>>
  OBVIOUS
<1>3. \A a, b \in Symbol : <<a, b>> \in Seq(Symbol) /\ Len(<<a, b>>) = 2
                         /\ <<a, b>>[1] = a /\ <<a, b>>[2] = b
  OBVIOUS
<1>4. <<>> \in Seq(Symbol) BY EmptySeq
<1>5. Space # "%" BY Zenon DEF Space
<1>6. Head0 \in Items /\ Head0.id = 0 /\ Head0.text # <<>> BY <1>1, <1>2 DEF Head0, Items
<1> QED BY <1>1, <1>2, <1>3, <1>4, <1>5, <1>6 DEF Prompt, Failure, Text

LEMMA Joined ==
    \A a, b \in Text :
        /\ a \o b \in Text /\ Len(a \o b) = Len(a) + Len(b)
        /\ \A i \in 1 .. Len(a) + Len(b) : (a \o b)[i] = IF i <= Len(a) THEN a[i] ELSE b[i - Len(a)]
BY ConcatProperties DEF Text

LEMMA Regroup == \A a, b, c \in Text : (a \o b) \o c = a \o (b \o c)
BY ConcatAssociative DEF Text

Regrouped(a, b, c, d) == (a \o b) \o (c \o d) = a \o ((b \o c) \o d)

LEMMA RegroupFour ==
    ASSUME NEW a \in Text, NEW b \in Text, NEW c \in Text, NEW d \in Text
    PROVE  Regrouped(a, b, c, d)
<1>1. (b \o c) \o d = b \o (c \o d) BY Regroup
<1>2. PICK e : e = c \o d OBVIOUS
<1>3. e \in Text BY <1>2, Joined
<1>4. (a \o b) \o e = a \o (b \o e) BY <1>3, Regroup
<1> QED BY <1>1, <1>2, <1>4, Zenon DEF Regrouped

LEMMA Empty == <<>> \in Text /\ Len(<<>>) = 0 /\ \A u \in Text : <<>> \o u = u /\ u \o <<>> = u
BY EmptySeq, ConcatEmptySeq DEF Text

-----------------------------------------------------------------------------
(***************************************************************************)
(* The text of a queue, one item at a time.                                *)
(***************************************************************************)

PartOf(s, item) == IF item.id = s THEN item.text ELSE <<>>

IsColumn(c, s, queue) ==
    c = [i \in 0 .. Len(queue) |->
            IF i = 0 THEN <<>>
            ELSE IF queue[i].id = s THEN c[i - 1] \o queue[i].text
            ELSE c[i - 1]]

LEMMA ColumnExists == ASSUME NEW s, NEW queue \in Seq(Items) PROVE \E c : IsColumn(c, s, queue)
<1> DEFINE Upto(c, k) ==
        c = [i \in 0 .. k |->
                IF i = 0 THEN <<>>
                ELSE IF queue[i].id = s THEN c[i - 1] \o queue[i].text
                ELSE c[i - 1]]
    S == {k \in 0 .. Len(queue) : \E c : Upto(c, k)}
<1>1. Len(queue) \in Nat BY LenProperties
<1>2. 0 \in S
  <2>1. PICK c : c = [i \in 0 .. 0 |-> <<>>] OBVIOUS
  <2>2. Upto(c, 0) BY <2>1
  <2> QED BY <1>1, <2>2
<1>3. ASSUME NEW k \in 1 .. Len(queue), k - 1 \in S PROVE k \in S
  <2>1. PICK c : Upto(c, k - 1) BY <1>3
  <2>2. PICK e : e = IF queue[k].id = s THEN c[k - 1] \o queue[k].text ELSE c[k - 1]
    OBVIOUS
  <2>3. PICK d : d = [i \in 0 .. k |-> IF i = k THEN e ELSE c[i]]
    OBVIOUS
  <2>4. d[k] = e /\ \A i \in 0 .. k - 1 : d[i] = c[i] BY <1>1, <2>3
  <2>5. \A i \in 0 .. k :
           d[i] = IF i = 0 THEN <<>>
                  ELSE IF queue[i].id = s THEN d[i - 1] \o queue[i].text
                  ELSE d[i - 1]
    <3> SUFFICES ASSUME NEW i \in 0 .. k
                 PROVE  d[i] = IF i = 0 THEN <<>>
                               ELSE IF queue[i].id = s THEN d[i - 1] \o queue[i].text
                               ELSE d[i - 1]
      OBVIOUS
    <3>1. CASE i = k
      <4>1. i # 0 /\ k - 1 \in 0 .. k - 1 BY <1>1, <3>1
      <4>2. d[k - 1] = c[k - 1] BY <2>4, <4>1
      <4> QED BY <2>2, <2>4, <3>1, <4>1, <4>2
    <3>2. CASE i # k
      <4>1. i \in 0 .. k - 1 /\ (i # 0 => i - 1 \in 0 .. k - 1) BY <1>1, <3>2
      <4>2. c[i] = IF i = 0 THEN <<>>
                   ELSE IF queue[i].id = s THEN c[i - 1] \o queue[i].text
                   ELSE c[i - 1]
        BY <2>1, <4>1
      <4> QED BY <2>4, <4>1, <4>2
    <3> QED BY <3>1, <3>2
  <2>6. Upto(d, k) BY <2>3, <2>5
  <2> QED BY <1>1, <1>3, <2>6
<1> HIDE DEF S
<1>4. \A k \in 1 .. Len(queue) : k - 1 \in S => k \in S BY <1>3
<1>5. \A k \in 0 .. Len(queue) : k \in S BY <1>1, <1>2, <1>4, UpTo, Zenon
<1>6. Len(queue) \in S BY <1>1, <1>5
<1> QED BY <1>6 DEF S, IsColumn

LEMMA ColumnIs ==
    ASSUME NEW s, NEW queue \in Seq(Items)
    PROVE  \E c : IsColumn(c, s, queue) /\ Column(s, queue) = c[Len(queue)]
<1>1. \E c : IsColumn(c, s, queue) BY ColumnExists
<1> QED BY <1>1 DEF Column, IsColumn

LEMMA Parts ==
    ASSUME NEW s, NEW item \in Items
    PROVE  PartOf(s, item) \in Text
BY Empty DEF PartOf, Items, Text

LEMMA ColumnSteps ==
    ASSUME NEW s, NEW queue \in Seq(Items), NEW c, IsColumn(c, s, queue)
    PROVE  /\ c[0] = <<>>
           /\ \A i \in 0 .. Len(queue) : c[i] \in Text
           /\ \A i \in 1 .. Len(queue) : c[i] = c[i - 1] \o PartOf(s, queue[i])
<1> DEFINE S == {k \in 0 .. Len(queue) : c[k] \in Text}
<1>1. Len(queue) \in Nat BY LenProperties
<1>2. c[0] = <<>> BY <1>1 DEF IsColumn
<1>3. ASSUME NEW i \in 1 .. Len(queue), c[i - 1] \in Text
      PROVE  c[i] = c[i - 1] \o PartOf(s, queue[i]) /\ c[i] \in Text
  <2>1. queue[i] \in Items /\ PartOf(s, queue[i]) \in Text BY ElementOfSeq, Parts
  <2>2. c[i] = IF queue[i].id = s THEN c[i - 1] \o queue[i].text ELSE c[i - 1]
    <3>1. i \in 0 .. Len(queue) /\ i # 0 BY <1>1
    <3> QED BY <3>1 DEF IsColumn
  <2>3. c[i] = c[i - 1] \o PartOf(s, queue[i])
    <3>1. c[i - 1] \o <<>> = c[i - 1] BY <1>3, Empty
    <3> QED BY <2>2, <3>1 DEF PartOf
  <2> QED BY <1>3, <2>1, <2>3, Joined
<1>4. 0 \in S BY <1>1, <1>2, Empty
<1>5. \A k \in 1 .. Len(queue) : k - 1 \in S => k \in S
  <2> SUFFICES ASSUME NEW k \in 1 .. Len(queue), k - 1 \in S PROVE k \in S
    OBVIOUS
  <2>1. k \in 0 .. Len(queue) BY <1>1
  <2>2. c[k] \in Text BY <1>3
  <2> QED BY <2>1, <2>2
<1> HIDE DEF S
<1>6. \A k \in 0 .. Len(queue) : k \in S BY <1>1, <1>4, <1>5, UpTo, Zenon
<1>7. \A i \in 0 .. Len(queue) : c[i] \in Text BY <1>6 DEF S
<1>8. \A i \in 1 .. Len(queue) : i - 1 \in 0 .. Len(queue) BY <1>1
<1> QED BY <1>2, <1>3, <1>7, <1>8

LEMMA ColumnTyped ==
    ASSUME NEW s, NEW queue \in Seq(Items)
    PROVE  Column(s, queue) \in Text
<1>1. PICK c : IsColumn(c, s, queue) /\ Column(s, queue) = c[Len(queue)] BY ColumnIs
<1>2. Len(queue) \in 0 .. Len(queue) BY LenProperties
<1> QED BY <1>1, <1>2, ColumnSteps

LEMMA ColumnEmpty == ASSUME NEW s PROVE Column(s, <<>>) = <<>>
<1>1. <<>> \in Seq(Items) /\ Len(<<>>) = 0 BY EmptySeq
<1>2. PICK c : IsColumn(c, s, <<>>) /\ Column(s, <<>>) = c[0] BY <1>1, ColumnIs
<1> QED BY <1>1, <1>2, ColumnSteps

(* An item that is enqueued is shown behind everything else. *)
LEMMA ColumnAppend ==
    ASSUME NEW s, NEW queue \in Seq(Items), NEW item \in Items
    PROVE  Column(s, Append(queue, item)) = Column(s, queue) \o PartOf(s, item)
<1> DEFINE n == Len(queue)
           longer == Append(queue, item)
<1>1. /\ longer \in Seq(Items) /\ Len(longer) = n + 1 /\ longer[n + 1] = item /\ n \in Nat
      /\ \A i \in 1 .. n : longer[i] = queue[i]
  BY AppendProperties, LenProperties
<1> HIDE DEF n, longer
<1>2. PICK c : IsColumn(c, s, queue) /\ Column(s, queue) = c[n] BY ColumnIs DEF n
<1>3. PICK d : IsColumn(d, s, longer) /\ Column(s, longer) = d[n + 1] BY <1>1, ColumnIs
<1>4. /\ c[0] = <<>>
      /\ \A i \in 1 .. n : c[i] = c[i - 1] \o PartOf(s, queue[i])
  BY <1>2, ColumnSteps DEF n
<1>5. /\ d[0] = <<>>
      /\ \A i \in 1 .. n + 1 : d[i] = d[i - 1] \o PartOf(s, longer[i])
  <2>1. /\ d[0] = <<>>
        /\ \A i \in 1 .. Len(longer) : d[i] = d[i - 1] \o PartOf(s, longer[i])
    BY <1>1, <1>3, ColumnSteps, Zenon
  <2> QED BY <1>1, <2>1
<1> DEFINE S == {k \in 0 .. n : d[k] = c[k]}
<1>6. 0 \in S BY <1>1, <1>4, <1>5
<1>7. \A k \in 1 .. n : k - 1 \in S => k \in S
  <2> SUFFICES ASSUME NEW k \in 1 .. n, k - 1 \in S PROVE k \in S
    OBVIOUS
  <2>1. k \in 1 .. n + 1 /\ k \in 0 .. n BY <1>1
  <2>2. c[k] = c[k - 1] \o PartOf(s, queue[k]) BY <1>4
  <2>3. d[k] = d[k - 1] \o PartOf(s, queue[k]) BY <1>1, <1>5, <2>1
  <2> QED BY <2>1, <2>2, <2>3
<1> HIDE DEF S
<1>8. \A k \in 0 .. n : k \in S BY <1>1, <1>6, <1>7, UpTo, Zenon
<1>9. d[n] = c[n] BY <1>1, <1>8 DEF S
<1>10. d[n + 1] = d[n] \o PartOf(s, item)
  <2>1. PICK m \in 1 .. n + 1 : m = n + 1 /\ m - 1 = n BY <1>1
  <2>2. d[m] = d[m - 1] \o PartOf(s, longer[m]) BY <1>5
  <2> QED BY <1>1, <2>1, <2>2
<1> QED BY <1>2, <1>3, <1>9, <1>10 DEF longer

(* The item that is written is the one that is shown first. *)
LEMMA ColumnTail ==
    ASSUME NEW s, NEW queue \in Seq(Items), queue # <<>>
    PROVE  Column(s, queue) = PartOf(s, Head(queue)) \o Column(s, Tail(queue))
<1> DEFINE n == Len(queue)
           rest == Tail(queue)
           first == PartOf(s, Head(queue))
<1>1. /\ rest \in Seq(Items) /\ Len(rest) = n - 1 /\ n \in Nat /\ n # 0
      /\ \A i \in 1 .. n - 1 : rest[i] = queue[i + 1]
      /\ Head(queue) = queue[1]
  <2>1. n \in Nat \ {0} BY EmptySeq
  <2> QED BY <2>1, HeadTailProperties
<1>2. \A i \in 1 .. n : queue[i] \in Items BY ElementOfSeq
<1>3. first \in Text
  <2>1. queue[1] \in Items BY <1>1, <1>2
  <2> QED BY <1>1, <2>1, Parts
<1>4. \A i \in 1 .. n : PartOf(s, queue[i]) \in Text BY <1>2, Parts
<1> HIDE DEF n, rest, first
<1>5. PICK c : IsColumn(c, s, queue) /\ Column(s, queue) = c[n] BY ColumnIs DEF n
<1>6. PICK d : IsColumn(d, s, rest) /\ Column(s, rest) = d[n - 1] BY <1>1, ColumnIs
<1>7. /\ c[0] = <<>>
      /\ \A i \in 1 .. n : c[i] = c[i - 1] \o PartOf(s, queue[i])
  BY <1>5, ColumnSteps DEF n
<1>8. /\ d[0] = <<>>
      /\ \A i \in 0 .. n - 1 : d[i] \in Text
      /\ \A i \in 1 .. n - 1 : d[i] = d[i - 1] \o PartOf(s, rest[i])
  <2>1. /\ d[0] = <<>>
        /\ \A i \in 0 .. Len(rest) : d[i] \in Text
        /\ \A i \in 1 .. Len(rest) : d[i] = d[i - 1] \o PartOf(s, rest[i])
    <3>1. rest \in Seq(Items) /\ IsColumn(d, s, rest) BY <1>1, <1>6
    <3> QED BY <3>1, ColumnSteps
  <2> QED BY <1>1, <2>1
<1> DEFINE S == {k \in 0 .. n - 1 : c[k + 1] = first \o d[k]}
<1>9. 0 \in S
  <2>1. c[1] = c[0] \o PartOf(s, queue[1])
    <3>1. 1 \in 1 .. n /\ 1 - 1 = 0 BY <1>1
    <3> QED BY <1>7, <3>1
  <2>2. c[1] = first BY <1>1, <1>3, <1>7, <2>1, Empty DEF first
  <2>3. first \o d[0] = first BY <1>3, <1>8, Empty
  <2> QED BY <1>1, <2>2, <2>3
<1>10. \A k \in 1 .. n - 1 : k - 1 \in S => k \in S
  <2> SUFFICES ASSUME NEW k \in 1 .. n - 1, k - 1 \in S PROVE k \in S
    OBVIOUS
  <2>1. PICK j \in 1 .. n : j = k + 1 /\ j - 1 = k BY <1>1
  <2>2. c[j] = c[k] \o PartOf(s, queue[j]) BY <1>7, <2>1
  <2>3. d[k] = d[k - 1] \o PartOf(s, queue[j])
    <3>1. rest[k] = queue[j] BY <1>1, <2>1
    <3> QED BY <1>8, <3>1
  <2>4. (first \o d[k - 1]) \o PartOf(s, queue[j]) = first \o (d[k - 1] \o PartOf(s, queue[j]))
    <3>1. k - 1 \in 0 .. n - 1 BY <1>1
    <3>2. d[k - 1] \in Text /\ PartOf(s, queue[j]) \in Text BY <1>4, <1>8, <3>1
    <3> QED BY <1>3, <3>2, Regroup
  <2>5. c[k] = first \o d[k - 1]
    <3>1. k - 1 + 1 = k BY <1>1
    <3> QED BY <3>1
  <2>6. c[k + 1] = first \o d[k] BY <2>1, <2>2, <2>3, <2>4, <2>5
  <2> QED BY <1>1, <2>6
<1> HIDE DEF S
<1>11. n - 1 \in Nat BY <1>1
<1>12. \A k \in 0 .. n - 1 : k \in S BY <1>9, <1>10, <1>11, UpTo, Zenon
<1>13. c[n] = first \o d[n - 1]
  <2>1. n - 1 \in S /\ n - 1 + 1 = n BY <1>1, <1>12
  <2> QED BY <2>1 DEF S
<1> QED BY <1>5, <1>6, <1>13 DEF first, rest

-----------------------------------------------------------------------------
(***************************************************************************)
(* The write queue.                                                        *)
(***************************************************************************)

Server == [phase : {"request", "reply"}, pending : Seq(Items), writes : Seq(Items),
           active : 0 .. MaxSessions, closing : BOOLEAN,
           socket : {"open", "closed", "failed"}]

(* The item at the head of the queue is the one that is being written, unless the browser *)
(* has gone; the socket is closed when nothing is queued and nobody can enqueue any more. *)
QueueOK(h) ==
    /\ h.pending = <<>> => h.writes = <<>>
    /\ h.writes # <<>> => h.writes = <<Head(h.pending)>>
    /\ h.socket = "open" /\ h.pending # <<>> => h.writes # <<>>
    /\ h.socket = "failed" /\ h.phase = "reply" => h.pending # <<>>
    /\ h.socket = "closed" => h.pending = <<>> /\ h.closing
    /\ h.closing => h.active = 0 /\ h.phase = "reply"
    /\ h.closing /\ h.socket = "open" => h.pending # <<>>
    /\ h.phase = "request" => h.pending = <<>> /\ h.active = 0

Sound(h) == h \in Server /\ QueueOK(h) /\ h.phase = "reply"

LEMMA WriteStarts ==
    ASSUME NEW h \in Server, h.pending # <<>>
    PROVE  DoWrite(h) = [h EXCEPT !.writes = Append(@, Head(h.pending))]
BY DEF DoWrite

LEMMA FirstWrite == ASSUME NEW item \in Items PROVE Append(<<>>, item) = <<item>> /\ <<item>> # <<>>
  /\ <<item>> \in Seq(Items) /\ Head(<<item>>) = item
OBVIOUS

LEMMA EnqueueKeeps ==
    ASSUME NEW h, Sound(h), ~h.closing, NEW item \in Items
    PROVE  /\ Sound(Enqueue(h, item)) /\ ~Enqueue(h, item).closing
           /\ Enqueue(h, item).pending = Append(h.pending, item)
           /\ Enqueue(h, item).active = h.active
<1>1. PICK q : q = [h EXCEPT !.pending = Append(@, item)] OBVIOUS
<1>2. /\ h \in Server /\ h.pending \in Seq(Items) /\ h.writes \in Seq(Items)
      /\ h.phase = "reply" /\ h.active \in 0 .. MaxSessions /\ h.socket \in {"open", "closed", "failed"}
  BY DEF Sound, Server
<1>3. Append(h.pending, item) \in Seq(Items) /\ Append(h.pending, item) # <<>>
  BY <1>2, AppendProperties
<1>4. /\ q \in Server /\ q.pending = Append(h.pending, item) /\ q.writes = h.writes
      /\ q.phase = h.phase /\ q.active = h.active /\ q.closing = h.closing /\ q.socket = h.socket
  BY <1>1, <1>2, <1>3 DEF Server
<1>5. CASE h.pending = <<>>
  <2>1. h.writes = <<>> /\ h.socket = "open" BY <1>2, <1>5 DEF Sound, QueueOK
  <2>2. Append(h.pending, item) = <<item>> /\ Head(q.pending) = item BY <1>4, <1>5, FirstWrite
  <2>3. Enqueue(h, item) = [q EXCEPT !.writes = Append(@, Head(q.pending))]
    <3>1. Enqueue(h, item) = DoWrite(q) BY <1>1, <1>5 DEF Enqueue, MustStart
    <3> QED BY <1>3, <1>4, <3>1, WriteStarts
  <2>4. PICK g : g = Enqueue(h, item) OBVIOUS
  <2>5. /\ g \in Server /\ g.pending = q.pending /\ g.writes = <<item>> /\ g.phase = q.phase
        /\ g.active = q.active /\ g.closing = q.closing /\ g.socket = q.socket
    <3>1. Append(q.writes, Head(q.pending)) = <<item>> BY <1>4, <2>1, <2>2, FirstWrite
    <3>2. g = [q EXCEPT !.writes = <<item>>] BY <2>3, <2>4, <3>1, Zenon
    <3>3. <<item>> \in Seq(Items) BY FirstWrite
    <3>4. g \in Server BY <1>4, <3>2, <3>3 DEF Server
    <3> QED BY <1>4, <3>2, <3>4 DEF Server
  <2>6. QueueOK(g) BY <1>2, <1>3, <1>4, <2>1, <2>2, <2>5, FirstWrite DEF QueueOK
  <2> QED BY <1>2, <1>4, <2>4, <2>5, <2>6 DEF Sound
<1>6. CASE h.pending # <<>>
  <2>1. Enqueue(h, item) = q BY <1>1, <1>6 DEF Enqueue, MustStart
  <2>2. Head(q.pending) = Head(h.pending) BY <1>2, <1>4, <1>6, HeadTailAppend
  <2>3. QueueOK(q) BY <1>2, <1>3, <1>4, <1>6, <2>2 DEF Sound, QueueOK
  <2> QED BY <1>2, <1>4, <2>1, <2>3 DEF Sound
<1> QED BY <1>5, <1>6

LEMMA CloseKeeps ==
    ASSUME NEW h, Sound(h), ~h.closing, h.active = 0
    PROVE  /\ Sound(CloseWhenDrained(h)) /\ CloseWhenDrained(h).pending = h.pending
           /\ CloseWhenDrained(h).active = 0
<1>1. PICK last : last = [h EXCEPT !.closing = TRUE] OBVIOUS
<1>2. /\ h \in Server /\ h.phase = "reply" /\ h.socket \in {"open", "closed", "failed"}
  BY DEF Sound, Server
<1>3. /\ last \in Server /\ last.pending = h.pending /\ last.writes = h.writes /\ last.phase = h.phase
      /\ last.active = h.active /\ last.closing /\ last.socket = h.socket
  BY <1>1, <1>2 DEF Server
<1>4. CASE h.pending = <<>>
  <2>1. PICK g : g = [last EXCEPT !.socket = "closed"] OBVIOUS
  <2>2. CloseWhenDrained(h) = g BY <1>1, <1>3, <1>4, <2>1 DEF CloseWhenDrained, DoWrite
  <2>3. /\ g \in Server /\ g.pending = h.pending /\ g.writes = h.writes /\ g.phase = h.phase
        /\ g.active = h.active /\ g.closing /\ g.socket = "closed"
    BY <1>3, <2>1 DEF Server
  <2>4. QueueOK(g) BY <1>2, <1>4, <2>3 DEF Sound, QueueOK
  <2> QED BY <1>2, <2>2, <2>3, <2>4 DEF Sound
<1>5. CASE h.pending # <<>>
  <2>1. CloseWhenDrained(h) = last BY <1>1, <1>3, <1>5 DEF CloseWhenDrained
  <2>2. QueueOK(last) BY <1>2, <1>3, <1>5 DEF Sound, QueueOK
  <2> QED BY <1>2, <1>3, <2>1, <2>2 DEF Sound
<1> QED BY <1>4, <1>5

LEMMA DoneKeeps ==
    ASSUME NEW h, Sound(h), h.active > 0
    PROVE  /\ Sound(RemoteDone(h)) /\ RemoteDone(h).pending = h.pending
           /\ RemoteDone(h).active = h.active - 1
           /\ RemoteDone(h).active > 0 => ~RemoteDone(h).closing
<1>1. PICK fewer : fewer = [h EXCEPT !.active = h.active - 1] OBVIOUS
<1>2. h \in Server /\ h.phase = "reply" /\ h.active \in 0 .. MaxSessions /\ ~h.closing
  BY DEF Sound, Server, QueueOK
<1>3. h.active - 1 \in 0 .. MaxSessions BY <1>2, SessionsAssumption
<1>4. /\ fewer \in Server /\ fewer.pending = h.pending /\ fewer.writes = h.writes
      /\ fewer.phase = h.phase /\ fewer.active = h.active - 1 /\ fewer.closing = h.closing
      /\ fewer.socket = h.socket
  BY <1>1, <1>2, <1>3 DEF Server
<1>5. Sound(fewer) /\ ~fewer.closing BY <1>2, <1>4 DEF Sound, QueueOK
<1>6. RemoteDone(h) = IF fewer.active = 0 THEN CloseWhenDrained(fewer) ELSE fewer
  <2>1. fewer = [h EXCEPT !.active = IF @ > 0 THEN @ - 1 ELSE 0] BY <1>1
  <2> QED BY <2>1 DEF RemoteDone
<1>7. CASE fewer.active = 0
  <2>1. RemoteDone(h) = CloseWhenDrained(fewer) BY <1>6, <1>7
  <2>2. Sound(CloseWhenDrained(fewer)) /\ CloseWhenDrained(fewer).pending = fewer.pending
        /\ CloseWhenDrained(fewer).active = 0
    BY <1>5, <1>7, CloseKeeps
  <2>3. fewer.pending = h.pending /\ fewer.active = h.active - 1 BY <1>4
  <2>4. h.active - 1 = 0 BY <1>7, <2>3
  <2>5. RemoteDone(h).active = 0 /\ Sound(RemoteDone(h)) /\ RemoteDone(h).pending = h.pending
    BY <2>1, <2>2, <2>3
  <2>6. ~(RemoteDone(h).active > 0) BY <2>5
  <2> QED BY <2>4, <2>5, <2>6
<1>8. CASE fewer.active # 0
  BY <1>4, <1>5, <1>6, <1>8
<1> QED BY <1>7, <1>8

-----------------------------------------------------------------------------
(***************************************************************************)
(* The loop of start_remote_sessions, one session at a time.               *)
(***************************************************************************)

IsStarted(g, h, missing) ==
    g = [s \in 0 .. MaxSessions |->
            IF s = 0 THEN h
            ELSE IF s \in missing THEN RemoteDone(Enqueue(g[s - 1], Item(s, Failure)))
            ELSE g[s - 1]]

LEMMA StartedExists == ASSUME NEW h, NEW missing PROVE \E g : IsStarted(g, h, missing)
<1> DEFINE After(k, before) == IF k \in missing THEN RemoteDone(Enqueue(before, Item(k, Failure))) ELSE before
    Until(c, k) == c = [i \in 0 .. k |-> IF i = 0 THEN h ELSE After(i, c[i - 1])]
    S == {k \in 0 .. MaxSessions : \E c : Until(c, k)}
<1>1. MaxSessions \in Nat BY SessionsAssumption
<1>2. 0 \in S
  <2>1. PICK c : c = [i \in 0 .. 0 |-> h] OBVIOUS
  <2>2. Until(c, 0) BY <2>1
  <2> QED BY <1>1, <2>2
<1>3. ASSUME NEW k \in 1 .. MaxSessions, k - 1 \in S PROVE k \in S
  <2>1. PICK c : Until(c, k - 1) BY <1>3
  <2>2. PICK e : e = After(k, c[k - 1]) OBVIOUS
  <2> HIDE DEF After
  <2>3. PICK d : d = [i \in 0 .. k |-> IF i = k THEN e ELSE c[i]]
    OBVIOUS
  <2>4. d[k] = e /\ \A i \in 0 .. k - 1 : d[i] = c[i] BY <1>1, <2>3
  <2>5. \A i \in 0 .. k : d[i] = IF i = 0 THEN h ELSE After(i, d[i - 1])
    <3> SUFFICES ASSUME NEW i \in 0 .. k
                 PROVE  d[i] = IF i = 0 THEN h ELSE After(i, d[i - 1])
      OBVIOUS
    <3>1. CASE i = k
      <4>1. i # 0 /\ k - 1 \in 0 .. k - 1 BY <1>1, <3>1
      <4>2. d[k - 1] = c[k - 1] BY <2>4, <4>1
      <4> QED BY <2>2, <2>4, <3>1, <4>1, <4>2
    <3>2. CASE i # k
      <4>1. i \in 0 .. k - 1 /\ (i # 0 => i - 1 \in 0 .. k - 1) BY <1>1, <3>2
      <4>2. c[i] = IF i = 0 THEN h ELSE After(i, c[i - 1]) BY <2>1, <4>1
      <4> QED BY <2>4, <4>1, <4>2
    <3> QED BY <3>1, <3>2
  <2>6. Until(d, k) BY <2>3, <2>5
  <2> QED BY <1>1, <1>3, <2>6
<1> HIDE DEF S
<1>4. \A k \in 1 .. MaxSessions : k - 1 \in S => k \in S BY <1>3
<1>5. \A k \in 0 .. MaxSessions : k \in S BY <1>1, <1>2, <1>4, UpTo, Zenon
<1>6. MaxSessions \in S BY <1>1, <1>5
<1> QED BY <1>6 DEF S, IsStarted

LEMMA StartedSteps ==
    ASSUME NEW h, NEW missing
    PROVE  /\ Started(h, missing)[0] = h
           /\ \A s \in 1 .. MaxSessions :
                 Started(h, missing)[s] =
                     IF s \in missing THEN RemoteDone(Enqueue(Started(h, missing)[s - 1], Item(s, Failure)))
                     ELSE Started(h, missing)[s - 1]
<1>1. \E g : IsStarted(g, h, missing) BY StartedExists
<1>2. PICK g : IsStarted(g, h, missing) /\ Started(h, missing) = g BY <1>1 DEF Started, IsStarted
<1>3. \A s \in 0 .. MaxSessions :
         g[s] = IF s = 0 THEN h
                ELSE IF s \in missing THEN RemoteDone(Enqueue(g[s - 1], Item(s, Failure)))
                ELSE g[s - 1]
  BY <1>2 DEF IsStarted
<1>4. 0 \in 0 .. MaxSessions /\ \A s \in 1 .. MaxSessions : s \in 0 .. MaxSessions /\ s # 0
  BY SessionsAssumption
<1> QED BY <1>2, <1>3, <1>4

(* The sessions of a request of n that are still to be done when the first k have started. *)
Left(n, missing, k) == (1 .. n) \ (missing \intersect (1 .. k))

LEMMA LeftCounts ==
    ASSUME NEW n \in Nat, NEW missing \in SUBSET (1 .. n)
    PROVE  /\ Left(n, missing, 0) = 1 .. n /\ Cardinality(Left(n, missing, 0)) = n
           /\ Left(n, missing, n) = (1 .. n) \ missing
<1>1. IsFiniteSet(1 .. n) /\ Cardinality(1 .. n) = n BY FS_Interval
<1>2. 1 .. 0 = {} OBVIOUS
<1>3. Left(n, missing, 0) = 1 .. n BY <1>2 DEF Left
<1>4. Left(n, missing, n) = (1 .. n) \ missing BY DEF Left
<1> QED BY <1>1, <1>3, <1>4

LEMMA LeftFewer ==
    ASSUME NEW n \in Nat, NEW missing \in SUBSET (1 .. n), NEW k \in missing
    PROVE  /\ Cardinality(Left(n, missing, k)) = Cardinality(Left(n, missing, k - 1)) - 1
           /\ Cardinality(Left(n, missing, k - 1)) > 0
<1>0. IsFiniteSet(1 .. n) /\ k \in 1 .. n BY FS_Interval
<1>1. PICK before : before = Left(n, missing, k - 1) OBVIOUS
<1>2. k \in before BY <1>0, <1>1 DEF Left
<1>3. Left(n, missing, k) = before \ {k} BY <1>0, <1>1 DEF Left
<1>4. IsFiniteSet(before) BY <1>0, <1>1, FS_Subset DEF Left
<1>5. Cardinality(before) \in Nat /\ Cardinality(before) # 0
  BY <1>2, <1>4, FS_CardinalityType, FS_EmptySet
<1>6. Cardinality(before \ {k}) = Cardinality(before) - 1 BY <1>2, <1>4, FS_RemoveElement
<1> QED BY <1>1, <1>3, <1>5, <1>6

LEMMA FailureItem ==
    ASSUME NEW s \in Session
    PROVE  /\ Item(s, Failure) \in Items
           /\ \A t : PartOf(t, Item(s, Failure)) = IF t = s THEN Failure ELSE <<>>
BY Symbols DEF Item, Items, PartOf, Text

(* What has been done to the queue when the first k sessions have started. *)
LoopAt(g, h, n, missing, k) ==
    /\ Sound(g[k]) /\ g[k].active = Cardinality(Left(n, missing, k))
    /\ g[k].active > 0 => ~g[k].closing
    /\ \A t \in Session \union {0} :
         Column(t, g[k].pending) =
             Column(t, h.pending) \o (IF t \in missing /\ t =< k THEN Failure ELSE <<>>)

LEMMA LoopKeeps ==
    ASSUME NEW n \in 1 .. MaxSessions, NEW missing \in SUBSET (1 .. n),
           NEW h, Sound(h), ~h.closing, h.active = n
    PROVE  LoopAt(Started(h, missing), h, n, missing, n)
<1>1. PICK g : g = Started(h, missing) OBVIOUS
<1>2. /\ g[0] = h
      /\ \A s \in 1 .. MaxSessions :
            g[s] = IF s \in missing THEN RemoteDone(Enqueue(g[s - 1], Item(s, Failure))) ELSE g[s - 1]
  BY <1>1, StartedSteps
<1>3. MaxSessions \in Nat /\ n \in Nat /\ h.pending \in Seq(Items) BY SessionsAssumption DEF Sound, Server
<1>0. \A t \in missing : t \in Nat /\ 1 =< t /\ t =< n OBVIOUS
<1>4. LoopAt(g, h, n, missing, 0)
  <2>1. ASSUME NEW t \in Session \union {0}
        PROVE  Column(t, h.pending) \o (IF t \in missing /\ t =< 0 THEN Failure ELSE <<>>) = Column(t, h.pending)
    <3>1. ~(t \in missing /\ t =< 0)
      <4>1. t \in missing => t \in Nat /\ 1 =< t BY <1>0, Zenon
      <4> QED BY <4>1
    <3>2. Column(t, h.pending) \in Text BY <1>3, ColumnTyped
    <3> QED BY <3>1, <3>2, Empty
  <2> QED BY <1>2, <1>3, <2>1, LeftCounts DEF LoopAt
<1>5. ASSUME NEW k \in 1 .. n, LoopAt(g, h, n, missing, k - 1) PROVE LoopAt(g, h, n, missing, k)
  <2>1. k \in 1 .. MaxSessions /\ k \in Session BY <1>3 DEF Session
  <2>2. PICK b : b = g[k - 1] OBVIOUS
  <2>3. Sound(b) /\ b.active = Cardinality(Left(n, missing, k - 1)) /\ (b.active > 0 => ~b.closing)
    BY <1>5, <2>2 DEF LoopAt
  <2>4. b.pending \in Seq(Items) BY <2>3 DEF Sound, Server
  <2>5. ASSUME NEW t \in Session \union {0}
        PROVE  Column(t, b.pending) =
                   Column(t, h.pending) \o (IF t \in missing /\ t =< k - 1 THEN Failure ELSE <<>>)
    BY <1>5, <2>2 DEF LoopAt
  <2>6. CASE k \notin missing
    <3>1. g[k] = b BY <1>2, <2>1, <2>2, <2>6
    <3>2. Left(n, missing, k) = Left(n, missing, k - 1) BY <1>3, <2>6 DEF Left
    <3>3. \A t \in Session \union {0} : (t \in missing /\ t =< k - 1) = (t \in missing /\ t =< k)
      BY <1>3, <2>6 DEF Session
    <3>4. ASSUME NEW t \in Session \union {0}
          PROVE  Column(t, b.pending) =
                     Column(t, h.pending) \o (IF t \in missing /\ t =< k THEN Failure ELSE <<>>)
      BY <2>5, <3>3
    <3> QED BY <2>3, <3>1, <3>2, <3>4 DEF LoopAt
  <2>7. CASE k \in missing
    <3>1. PICK e : e = Enqueue(b, Item(k, Failure)) OBVIOUS
    <3>2. g[k] = RemoteDone(e) BY <1>2, <2>1, <2>2, <2>7, <3>1
    <3>3. /\ Cardinality(Left(n, missing, k)) = Cardinality(Left(n, missing, k - 1)) - 1
          /\ Cardinality(Left(n, missing, k - 1)) > 0
      BY <1>3, <2>7, LeftFewer
    <3>4. Item(k, Failure) \in Items BY <2>1, FailureItem
    <3>5. b.active > 0 /\ ~b.closing BY <2>3, <3>3
    <3>6. /\ Sound(e) /\ e.pending = Append(b.pending, Item(k, Failure)) /\ e.active = b.active
      BY <2>3, <3>1, <3>4, <3>5, EnqueueKeeps
    <3>7. /\ Sound(RemoteDone(e)) /\ RemoteDone(e).pending = e.pending
          /\ RemoteDone(e).active = e.active - 1
          /\ RemoteDone(e).active > 0 => ~RemoteDone(e).closing
      BY <3>5, <3>6, DoneKeeps
    <3>8. ASSUME NEW t \in Session \union {0}
          PROVE  Column(t, RemoteDone(e).pending) =
                     Column(t, h.pending) \o (IF t \in missing /\ t =< k THEN Failure ELSE <<>>)
      <4>1. Column(t, RemoteDone(e).pending) = Column(t, b.pending) \o PartOf(t, Item(k, Failure))
        BY <2>4, <3>4, <3>6, <3>7, ColumnAppend
      <4>2. PartOf(t, Item(k, Failure)) = IF t = k THEN Failure ELSE <<>> BY <2>1, FailureItem
      <4>3. Column(t, b.pending) \in Text /\ Column(t, h.pending) \in Text BY <1>3, <2>4, ColumnTyped
      <4>4. CASE t = k
        <5>1. ~(t =< k - 1) /\ t =< k BY <4>4
        <5>2. Column(t, b.pending) = Column(t, h.pending) BY <2>5, <4>3, <5>1, Empty
        <5> QED BY <2>7, <4>1, <4>2, <4>4, <5>1, <5>2
      <4>5. CASE t # k
        <5>1. (t \in missing /\ t =< k - 1) = (t \in missing /\ t =< k)
          <6>1. t \in missing => (t =< k - 1 <=> t =< k) BY <1>0, <1>3, <4>5
          <6> QED BY <6>1
        <5>2. Column(t, RemoteDone(e).pending) = Column(t, b.pending) BY <4>1, <4>2, <4>3, <4>5, Empty
        <5> QED BY <2>5, <5>1, <5>2
      <4> QED BY <4>4, <4>5
    <3>9. RemoteDone(e).active = Cardinality(Left(n, missing, k)) BY <2>3, <3>3, <3>6, <3>7
    <3> QED BY <3>2, <3>7, <3>8, <3>9 DEF LoopAt
  <2> QED BY <2>6, <2>7
<1> DEFINE S == {k \in 0 .. n : LoopAt(g, h, n, missing, k)}
<1>6. 0 \in S BY <1>3, <1>4
<1>7. \A k \in 1 .. n : k - 1 \in S => k \in S
  <2> SUFFICES ASSUME NEW k \in 1 .. n, k - 1 \in S PROVE k \in S
    OBVIOUS
  <2>1. LoopAt(g, h, n, missing, k - 1) OBVIOUS
  <2>2. LoopAt(g, h, n, missing, k) BY <1>5, <2>1
  <2> QED BY <1>3, <2>2
<1> HIDE DEF S
<1>8. \A k \in 0 .. n : k \in S BY <1>3, <1>6, <1>7, UpTo, Zenon
<1>9. n \in S BY <1>3, <1>8
<1> QED BY <1>1, <1>9 DEF S

-----------------------------------------------------------------------------
(***************************************************************************)
(* The invariants.                                                         *)
(***************************************************************************)

(* The sessions that are at work are the ones that are counted. *)
Busy == {s \in Session : rs[s] \notin {"unused", "finished"}}

Counted ==
    /\ TypeOK /\ QueueOK(http)
    /\ http.active = Cardinality(Busy)
    /\ http.phase = "request" => \A s \in Session : rs[s] = "unused"

PromptAt(u, i) == i + 1 =< Len(u) /\ u[i] = "%" /\ u[i + 1] = Space

(* A prompt is the end of what has been printed. *)
OnlyAtEnd(u) == \A i \in 1 .. Len(u) : PromptAt(u, i) => i + 1 = Len(u)

(* No shell prints a prompt in the middle of an output. *)
OutputsArePlain == \A o \in Outputs : \A i \in 1 .. Len(o) : ~PromptAt(o, i)

(* What a read that ended with a percent sign keeps of it. *)
Kept(lastWasPercent) == IF lastWasPercent THEN <<"%">> ELSE <<>>

(* The dialogue of a session, stage by stage. *)
Silent(s) ==
    /\ Shown(s) = <<>> /\ toConsole[s] = <<>> /\ toShell[s] = <<>> /\ log[s] = <<>>
    /\ shell[s] = "none" /\ ~percent[s]

(* What is shown and what is on its way to the console is what the shell has printed and   *)
(* read, and the one command on its way to the shell; of a connection that broke the end   *)
(* may be missing.                                                                         *)
Talking(s) ==
    /\ shell[s] \in {"greets", "waits", "exited", "broken"}
    /\ IsPrefix(Shown(s), log[s] \o toShell[s])
    /\ shell[s] # "broken" \/ toConsole[s] # <<>> =>
         Shown(s) \o toConsole[s] = log[s] \o toShell[s]
    /\ toShell[s] # <<>> => toConsole[s] = <<>> /\ ~percent[s] /\ Len(toShell[s]) = 1
    /\ shell[s] = "greets" =>
         toConsole[s] = <<>> /\ toShell[s] = <<>> /\ ~percent[s] /\ log[s] = <<>>
    /\ OnlyAtEnd(Kept(percent[s]) \o toConsole[s])

Over(s) ==
    /\ shell[s] \in {"none", "waits", "exited", "broken"}
    /\ IsPrefix(Shown(s), log[s] \o toShell[s])
    /\ shell[s] # "broken" => Shown(s) = log[s] \o toShell[s]
    /\ shell[s] = "waits" => toShell[s] = <<>>

Flow(s) ==
    /\ rs[s] \in {"unused", "resolve", "connect"} => Silent(s)
    /\ rs[s] \in {"read", "write"} => Talking(s)
    /\ rs[s] = "finished" => Over(s)

HeadShown == http.phase = "reply" => Shown(0) # <<>>

Flowing == Counted /\ HeadShown /\ \A s \in Session : Flow(s)

-----------------------------------------------------------------------------
(* Types, and the count of the sessions at work. *)

LEMMA Values ==
    ASSUME TypeOK, NEW s \in Session
    PROVE  /\ page[s] \in Text /\ toConsole[s] \in Text /\ toShell[s] \in Text /\ log[s] \in Text
           /\ next[s] \in Nat /\ next[s] \in 1 .. Len(Script[s]) + 1 /\ percent[s] \in BOOLEAN
           /\ rs[s] \in Waits /\ http \in Server /\ http.pending \in Seq(Items)
BY DEF TypeOK, Text, Server

LEMMA Commands ==
    ASSUME NEW s \in Session, NEW n \in Nat
    PROVE  Command(s, n) \in Symbol /\ Sent(s, n) \subseteq Symbol /\ Len(Script[s]) \in Nat
<1>1. Script[s] \in Seq(Symbol) BY ScriptAssumption DEF Session
<1>2. Len(Script[s]) \in Nat BY <1>1, LenProperties
<1>3. DOMAIN Script[s] = 1 .. Len(Script[s]) BY <1>1, LenProperties
<1>4. ASSUME n \in DOMAIN Script[s] PROVE Script[s][n] \in Symbol
  BY <1>1, <1>3, <1>4, ElementOfSeq
<1>5. Command(s, n) \in Symbol BY <1>4, Symbols DEF Command
<1> QED BY <1>2, <1>5, Symbols DEF Sent

LEMMA TextItem ==
    ASSUME NEW s \in Session, NEW text \in Text
    PROVE  /\ Item(s, text) \in Items
           /\ \A t : PartOf(t, Item(s, text)) = IF t = s THEN text ELSE <<>>
BY DEF Item, Items, PartOf, Text

LEMMA BusyFinite == IsFiniteSet(Busy)
<1>1. IsFiniteSet(Session) BY SessionsAssumption, FS_Interval DEF Session
<1> QED BY <1>1, FS_Subset DEF Busy

(* While a session is at work the response is open. *)
LEMMA AtWork ==
    ASSUME Counted, NEW s \in Busy
    PROVE  Sound(http) /\ http.active > 0 /\ ~http.closing /\ s \in Session
<1>1. http \in Server BY DEF Counted, TypeOK, Server
<1>2. Cardinality(Busy) \in Nat /\ Cardinality(Busy) # 0
  BY BusyFinite, FS_CardinalityType, FS_EmptySet
<1>3. http.active > 0 BY <1>2 DEF Counted
<1>4. http.phase \in {"request", "reply"} BY <1>1 DEF Server
<1>5. QueueOK(http) BY DEF Counted
<1>6. http.phase # "request" /\ ~http.closing BY <1>3, <1>5 DEF QueueOK
<1> QED BY <1>1, <1>3, <1>4, <1>5, <1>6 DEF Sound, Busy

(* A session ends. *)
LEMMA Finishing ==
    ASSUME Counted, NEW s \in Busy, NEW h, Sound(h), h.active = http.active, h.closing = http.closing,
           http' = RemoteDone(h), rs' = [rs EXCEPT ![s] = "finished"]
    PROVE  /\ http' \in Server /\ QueueOK(http') /\ http'.phase = "reply"
           /\ http'.pending = h.pending
           /\ http'.active = Cardinality(Busy')
           /\ rs' \in [Session -> Waits]
<1>1. http.active > 0 /\ s \in Session BY AtWork
<1>2. Sound(RemoteDone(h)) /\ RemoteDone(h).pending = h.pending /\ RemoteDone(h).active = h.active - 1
  BY <1>1, DoneKeeps
<1>3. rs' \in [Session -> Waits] BY DEF Counted, TypeOK, Waits
<1>4. Busy' = Busy \ {s}
  <2>1. rs \in [Session -> Waits] BY DEF Counted, TypeOK
  <2>2. \A t \in Session : rs'[t] = IF t = s THEN "finished" ELSE rs[t] BY <2>1
  <2> QED BY <1>1, <2>2 DEF Busy
<1>5. Cardinality(Busy') = Cardinality(Busy) - 1 BY <1>4, BusyFinite, FS_RemoveElement
<1> QED BY <1>2, <1>3, <1>5 DEF Counted, Sound

(* A session goes on. *)
LEMMA Working ==
    ASSUME Counted, NEW s \in Busy, NEW h, Sound(h), h.active = http.active,
           http' = h, NEW w \in Waits \ {"unused", "finished"}, rs' = [rs EXCEPT ![s] = w]
    PROVE  /\ http' \in Server /\ QueueOK(http') /\ http'.phase = "reply"
           /\ http'.active = Cardinality(Busy')
           /\ rs' \in [Session -> Waits]
<1>1. s \in Session /\ rs \in [Session -> Waits] BY DEF Busy, Counted, TypeOK
<1>2. rs' \in [Session -> Waits] BY <1>1
<1>3. Busy' = Busy
  <2>1. \A t \in Session : rs'[t] = IF t = s THEN w ELSE rs[t] BY <1>1
  <2>2. rs[s] \notin {"unused", "finished"} BY DEF Busy
  <2> QED BY <1>1, <2>1, <2>2 DEF Busy
<1> QED BY <1>2, <1>3 DEF Counted, Sound

(* A read takes a part and leaves the rest. *)
LEMMA Parted ==
    ASSUME NEW S, NEW t \in Seq(S), NEW n \in 1 .. Len(t)
    PROVE  /\ SubSeq(t, 1, n) \in Seq(S) /\ Len(SubSeq(t, 1, n)) = n
           /\ \A i \in 1 .. n : SubSeq(t, 1, n)[i] = t[i]
           /\ SubSeq(t, n + 1, Len(t)) \in Seq(S) /\ Len(SubSeq(t, n + 1, Len(t))) = Len(t) - n
           /\ \A i \in 1 .. Len(t) - n : SubSeq(t, n + 1, Len(t))[i] = t[n + i]
           /\ SubSeq(t, 1, n) \o SubSeq(t, n + 1, Len(t)) = t
<1>1. Len(t) \in Nat /\ n \in Int /\ \A i \in 1 .. Len(t) : t[i] \in S BY LenProperties, ElementOfSeq
<1>2. /\ SubSeq(t, 1, n) \in Seq(S) /\ Len(SubSeq(t, 1, n)) = n
      /\ \A i \in 1 .. n : SubSeq(t, 1, n)[i] = t[i]
  <2>1. \A i \in 1 .. n : t[i] \in S BY <1>1
  <2>2. /\ SubSeq(t, 1, n) \in Seq(S)
        /\ Len(SubSeq(t, 1, n)) = IF 1 =< n THEN n - 1 + 1 ELSE 0
        /\ \A i \in 1 .. n - 1 + 1 : SubSeq(t, 1, n)[i] = t[1 + i - 1]
    BY <1>1, <2>1, SubSeqProperties
  <2> QED BY <1>1, <2>2
<1>3. /\ SubSeq(t, n + 1, Len(t)) \in Seq(S) /\ Len(SubSeq(t, n + 1, Len(t))) = Len(t) - n
      /\ \A i \in 1 .. Len(t) - n : SubSeq(t, n + 1, Len(t))[i] = t[n + i]
  <2>1. n + 1 \in Int /\ Len(t) \in Int /\ \A i \in n + 1 .. Len(t) : t[i] \in S BY <1>1
  <2>2. /\ SubSeq(t, n + 1, Len(t)) \in Seq(S)
        /\ Len(SubSeq(t, n + 1, Len(t))) = IF n + 1 =< Len(t) THEN Len(t) - (n + 1) + 1 ELSE 0
        /\ \A i \in 1 .. Len(t) - (n + 1) + 1 : SubSeq(t, n + 1, Len(t))[i] = t[n + 1 + i - 1]
    BY <2>1, SubSeqProperties
  <2> QED BY <1>1, <2>2
<1>4. SubSeq(t, 1, n) \o SubSeq(t, n + 1, Len(t)) = t
  <2>1. 1 \in 1 .. Len(t) + 1 /\ n \in 0 .. Len(t) /\ Len(t) \in n .. Len(t) /\ 1 - 1 = 0 BY <1>1
  <2>2. SubSeq(t, 1, n) \o SubSeq(t, n + 1, Len(t)) = SubSeq(t, 1, Len(t))
    BY <2>1, ConcatAdjacentSubSeq
  <2> QED BY <2>2, SubSeqFull
<1> QED BY <1>2, <1>3, <1>4

(* A read, in its parts: the text that it takes and the rest, and the server with the text *)
(* in its queue.                                                                           *)
IsRead(s, n, content, rest, h) ==
    /\ n \in 1 .. Len(toConsole[s])
    /\ content = SubSeq(toConsole[s], 1, n) /\ rest = SubSeq(toConsole[s], n + 1, Len(toConsole[s]))
    /\ content \in Text /\ Len(content) = n /\ rest \in Text /\ content \o rest = toConsole[s]
    /\ Sound(h) /\ ~h.closing /\ h.pending = Append(http.pending, Item(s, content))
    /\ h.active = http.active
    /\ toConsole' = [toConsole EXCEPT ![s] = rest]
    /\ percent' = [percent EXCEPT ![s] = Last(content) = "%"]
    /\ UNCHANGED <<page, shell, log>>

LEMMA Reading ==
    ASSUME Counted, NEW s \in Session, Read(s)
    PROVE  /\ s \in Busy /\ rs[s] = "read"
           /\ \E n, content, rest, h :
                /\ IsRead(s, n, content, rest, h)
                /\ IF HasPrompt(content, percent[s]) THEN SendNextCommand(s, h)
                   ELSE http' = h /\ UNCHANGED <<rs, next, toShell>>
<1>1. s \in Busy /\ rs[s] = "read" BY DEF Read, Busy
<1>2. PICK n \in 1 .. Len(toConsole[s]) :
         LET content == SubSeq(toConsole[s], 1, n)
             h == Enqueue(http, Item(s, content))
         IN  /\ toConsole' = [toConsole EXCEPT ![s] = SubSeq(@, n + 1, Len(@))]
             /\ percent' = [percent EXCEPT ![s] = Last(content) = "%"]
             /\ IF HasPrompt(content, percent[s])
                THEN SendNextCommand(s, h)
                ELSE http' = h /\ UNCHANGED <<rs, next, toShell>>
  BY DEF Read
<1>3. PICK content : content = SubSeq(toConsole[s], 1, n) OBVIOUS
<1>4. PICK rest : rest = SubSeq(toConsole[s], n + 1, Len(toConsole[s])) OBVIOUS
<1>5. PICK h : h = Enqueue(http, Item(s, content)) OBVIOUS
<1>6. toConsole[s] \in Seq(Symbol) BY Values DEF Counted, Text
<1>7. content \in Text /\ Len(content) = n /\ rest \in Text /\ content \o rest = toConsole[s]
  BY <1>3, <1>4, <1>6, Parted DEF Text
<1>8. Sound(http) /\ ~http.closing BY <1>1, AtWork
<1>9. Item(s, content) \in Items BY <1>7, TextItem
<1>10. Sound(h) /\ ~h.closing /\ h.pending = Append(http.pending, Item(s, content)) /\ h.active = http.active
  BY <1>5, <1>8, <1>9, EnqueueKeeps
<1>11. /\ toConsole' = [toConsole EXCEPT ![s] = rest]
       /\ percent' = [percent EXCEPT ![s] = Last(content) = "%"]
  BY <1>2, <1>3, <1>4
<1>12. IsRead(s, n, content, rest, h)
  BY <1>3, <1>4, <1>7, <1>10, <1>11 DEF IsRead, Read
<1>13. IF HasPrompt(content, percent[s]) THEN SendNextCommand(s, h)
       ELSE http' = h /\ UNCHANGED <<rs, next, toShell>>
  BY <1>2, <1>3, <1>5
<1> QED BY <1>1, <1>12, <1>13

(* The command behind the prompt, shown and sent. *)
LEMMA Sending ==
    ASSUME Counted, NEW s \in Busy, NEW h, Sound(h), ~h.closing,
           ~OutOfCommands(s), SendNextCommand(s, h)
    PROVE  /\ Sound(http') /\ ~http'.closing /\ http'.active = h.active
           /\ http'.pending = Append(h.pending, Item(s, <<Command(s, next[s])>>))
           /\ Item(s, <<Command(s, next[s])>>) \in Items
           /\ rs' = [rs EXCEPT ![s] = "write"]
           /\ next' = [next EXCEPT ![s] = @ + 1] /\ next[s] + 1 =< Len(Script[s]) + 1
           /\ \E sent \in Sent(s, next[s]) : toShell' = [toShell EXCEPT ![s] = Append(@, sent)]
<1>1. s \in Session /\ TypeOK BY DEF Busy, Counted
<1>2. next[s] \in Nat /\ next[s] \in 1 .. Len(Script[s]) + 1 BY <1>1, Values
<1>3. Command(s, next[s]) \in Symbol /\ Len(Script[s]) \in Nat BY <1>1, <1>2, Commands
<1>4. <<Command(s, next[s])>> \in Text BY <1>3 DEF Text
<1>5. Item(s, <<Command(s, next[s])>>) \in Items BY <1>1, <1>4, TextItem
<1>6. /\ http' = Enqueue(h, Item(s, <<Command(s, next[s])>>))
      /\ rs' = [rs EXCEPT ![s] = "write"]
      /\ next' = [next EXCEPT ![s] = @ + 1]
      /\ \E sent \in Sent(s, next[s]) : toShell' = [toShell EXCEPT ![s] = Append(@, sent)]
  BY DEF SendNextCommand
<1>7. next[s] + 1 =< Len(Script[s]) + 1 BY <1>2, <1>3 DEF OutOfCommands
<1>8. /\ Sound(http') /\ ~http'.closing /\ http'.active = h.active
      /\ http'.pending = Append(h.pending, Item(s, <<Command(s, next[s])>>))
  BY <1>5, <1>6, EnqueueKeeps
<1> QED BY <1>5, <1>6, <1>7, <1>8

LEMMA HandlerCounts == ASSUME Counted, NEW s \in Session, Handler(s) PROVE Counted'
<1> USE DEF vars, remotes, wires
<1>0. TypeOK /\ rs \in [Session -> Waits] BY DEF Counted, TypeOK
<1>1. ASSUME NEW w \in Waits \ {"unused", "finished"}, s \in Busy, rs' = [rs EXCEPT ![s] = w],
             UNCHANGED <<http, page, next, percent, toConsole, toShell, log>>,
             shell' \in [Session -> {"none", "greets", "waits", "exited", "broken"}]
      PROVE  Counted'
  <2>1. Sound(http) BY <1>1, AtWork
  <2>2. /\ http' \in Server /\ QueueOK(http') /\ http'.phase = "reply"
        /\ http'.active = Cardinality(Busy') /\ rs' \in [Session -> Waits]
    BY <1>1, <2>1, Working
  <2>3. TypeOK' BY <1>0, <1>1, <2>2 DEF TypeOK, Server
  <2> QED BY <2>2, <2>3 DEF Counted
<1>2. ASSUME s \in Busy, NEW h, Sound(h), h.active = http.active, h.closing = http.closing,
             http' = RemoteDone(h), rs' = [rs EXCEPT ![s] = "finished"],
             UNCHANGED <<page, next, toShell, shell>>,
             percent' \in [Session -> BOOLEAN], toConsole' \in [Session -> Seq(Symbol)],
             log' \in [Session -> Seq(Symbol)]
      PROVE  Counted'
  <2>1. /\ http' \in Server /\ QueueOK(http') /\ http'.phase = "reply"
        /\ http'.active = Cardinality(Busy') /\ rs' \in [Session -> Waits]
    BY <1>2, Finishing
  <2>2. TypeOK' BY <1>0, <1>2, <2>1 DEF TypeOK, Server
  <2> QED BY <2>1, <2>2 DEF Counted
<1>3. CASE Resolved(s)
  <2>1. s \in Busy BY <1>3 DEF Resolved, Busy
  <2>2. shell' \in [Session -> {"none", "greets", "waits", "exited", "broken"}]
    BY <1>0, <1>3 DEF Resolved, TypeOK
  <2> QED BY <1>1, <1>3, <2>1, <2>2 DEF Resolved, Waits
<1>4. CASE Connected(s)
  <2>1. s \in Busy BY <1>4 DEF Connected, Busy
  <2>2. shell' \in [Session -> {"none", "greets", "waits", "exited", "broken"}]
    BY <1>0, <1>4 DEF Connected, TypeOK
  <2> QED BY <1>1, <1>4, <2>1, <2>2 DEF Connected, Waits
<1>5. CASE Written(s)
  <2>1. s \in Busy BY <1>5 DEF Written, Busy
  <2>2. shell' \in [Session -> {"none", "greets", "waits", "exited", "broken"}]
    BY <1>0, <1>5 DEF Written, TypeOK
  <2> QED BY <1>1, <1>5, <2>1, <2>2 DEF Written, Waits
<1>6. CASE ReadFailed(s) \/ WriteToShellFailed(s)
  <2>1. s \in Busy /\ Finish(s) BY <1>6 DEF ReadFailed, WriteToShellFailed, Busy
  <2>2. Sound(http) BY <2>1, AtWork
  <2>3. /\ percent' \in [Session -> BOOLEAN] /\ toConsole' \in [Session -> Seq(Symbol)]
        /\ log' \in [Session -> Seq(Symbol)]
    BY <1>0, <2>1 DEF Finish, TypeOK
  <2> QED BY <1>2, <2>1, <2>2, <2>3 DEF Finish
<1>7. CASE Refused(s)
  <2>1. s \in Busy BY <1>7 DEF Refused, Busy
  <2>2. PICK h : h = Enqueue(http, Item(s, Failure)) OBVIOUS
  <2>3. Sound(http) /\ ~http.closing /\ Item(s, Failure) \in Items BY <2>1, AtWork, FailureItem
  <2>4. Sound(h) /\ ~h.closing /\ h.active = http.active BY <2>2, <2>3, EnqueueKeeps
  <2>5. http.closing \in BOOLEAN /\ h.closing \in BOOLEAN
    BY <2>3, <2>4 DEF Sound, Server
  <2>6. h.closing = http.closing BY <2>3, <2>4, <2>5
  <2>7. log' \in [Session -> Seq(Symbol)] BY <1>0, <1>7, Symbols DEF Refused, TypeOK, Text
  <2>8. percent' \in [Session -> BOOLEAN] /\ toConsole' \in [Session -> Seq(Symbol)]
    BY <1>0, <1>7 DEF Refused, TypeOK
  <2>9. /\ http' = RemoteDone(h) /\ rs' = [rs EXCEPT ![s] = "finished"]
        /\ UNCHANGED <<page, next, toShell, shell>>
    BY <1>7, <2>2 DEF Refused
  <2> QED BY <1>2, <2>1, <2>4, <2>6, <2>7, <2>8, <2>9
<1>8. CASE Read(s)
  <2>1. s \in Busy BY <1>8, Reading
  <2>2. PICK n, content, rest, h :
           /\ IsRead(s, n, content, rest, h)
           /\ IF HasPrompt(content, percent[s]) THEN SendNextCommand(s, h)
              ELSE http' = h /\ UNCHANGED <<rs, next, toShell>>
    BY <1>8, Reading, Zenon
  <2>3. /\ percent' \in [Session -> BOOLEAN] /\ toConsole' \in [Session -> Seq(Symbol)]
        /\ page' = page /\ shell' = shell /\ log' = log
    BY <1>0, <2>2 DEF IsRead, TypeOK, Text
  <2>4. Sound(h) /\ ~h.closing /\ h.active = http.active /\ Sound(http) /\ ~http.closing
    BY <2>1, <2>2, AtWork DEF IsRead
  <2>5. CASE ~HasPrompt(content, percent[s])
    <3>1. http' = h /\ rs' = rs /\ next' = next /\ toShell' = toShell BY <2>2, <2>5
    <3>2. rs' = [rs EXCEPT ![s] = rs[s]] /\ rs[s] \in Waits \ {"unused", "finished"}
      BY <1>0, <2>1, <3>1 DEF Busy
    <3>3. /\ http' \in Server /\ QueueOK(http') /\ http'.phase = "reply"
          /\ http'.active = Cardinality(Busy') /\ rs' \in [Session -> Waits]
      BY <2>1, <2>4, <3>1, <3>2, Working
    <3>4. TypeOK' BY <1>0, <2>3, <3>1, <3>3 DEF TypeOK, Server
    <3> QED BY <3>3, <3>4 DEF Counted
  <2>6. CASE HasPrompt(content, percent[s]) /\ OutOfCommands(s)
    <3>1. /\ http' = RemoteDone(h) /\ rs' = [rs EXCEPT ![s] = "finished"]
          /\ UNCHANGED <<next, toShell>>
      BY <2>2, <2>6 DEF SendNextCommand
    <3>2. h.closing = http.closing
      <4>1. http.closing \in BOOLEAN /\ h.closing \in BOOLEAN BY <2>4 DEF Sound, Server
      <4> QED BY <2>4, <4>1
    <3>3. log' \in [Session -> Seq(Symbol)] BY <1>0, <2>3 DEF TypeOK
    <3> QED BY <1>2, <2>1, <2>3, <2>4, <3>1, <3>2, <3>3
  <2>7. CASE HasPrompt(content, percent[s]) /\ ~OutOfCommands(s)
    <3>1. SendNextCommand(s, h) BY <2>2, <2>7
    <3>2. /\ Sound(http') /\ ~http'.closing /\ http'.active = h.active
          /\ rs' = [rs EXCEPT ![s] = "write"]
          /\ next' = [next EXCEPT ![s] = @ + 1] /\ next[s] + 1 =< Len(Script[s]) + 1
          /\ \E sent \in Sent(s, next[s]) : toShell' = [toShell EXCEPT ![s] = Append(@, sent)]
      BY <2>1, <2>4, <2>7, <3>1, Sending
    <3>3. http'.active = http.active /\ "write" \in Waits \ {"unused", "finished"}
      BY <2>4, <3>2 DEF Waits
    <3>4. /\ http' \in Server /\ QueueOK(http') /\ http'.phase = "reply"
          /\ http'.active = Cardinality(Busy') /\ rs' \in [Session -> Waits]
      <4>1. PICK g : g = http' OBVIOUS
      <4> QED BY <2>1, <3>2, <3>3, <4>1, Working
    <3>5. toShell' \in [Session -> Seq(Symbol)]
      <4>1. PICK sent \in Sent(s, next[s]) : toShell' = [toShell EXCEPT ![s] = Append(@, sent)]
        BY <3>2
      <4>2. sent \in Symbol /\ toShell[s] \in Seq(Symbol) BY <1>0, <4>1, Values, Commands DEF Text
      <4>3. Append(toShell[s], sent) \in Seq(Symbol) BY <4>2, AppendProperties
      <4> QED BY <1>0, <4>1, <4>3 DEF TypeOK
    <3>6. next' \in [Session -> Nat] /\ \A t \in Session : next'[t] \in 1 .. Len(Script[t]) + 1
      <4>1. next \in [Session -> Nat] /\ \A t \in Session : next[t] \in 1 .. Len(Script[t]) + 1
        BY <1>0 DEF TypeOK
      <4>2. next[s] + 1 \in Nat /\ next[s] + 1 \in 1 .. Len(Script[s]) + 1
        BY <3>2, <4>1, Commands
      <4> QED BY <3>2, <4>1, <4>2
    <3>7. TypeOK' BY <1>0, <2>3, <3>4, <3>5, <3>6 DEF TypeOK, Server
    <3> QED BY <3>4, <3>7 DEF Counted
  <2> QED BY <2>5, <2>6, <2>7
<1> QED BY <1>3, <1>4, <1>5, <1>6, <1>7, <1>8 DEF Handler

LEMMA FarCounts == ASSUME Counted, NEW s \in Session, Shell(s) \/ Break(s) PROVE Counted'
<1> USE DEF vars, remotes, wires
<1>0. TypeOK /\ toConsole[s] \in Seq(Symbol) /\ toShell[s] \in Seq(Symbol) /\ log[s] \in Seq(Symbol)
  BY Values DEF Counted, Text
<1>1. http' = http /\ rs' = rs /\ page' = page /\ next' = next /\ percent' = percent
  BY DEF Shell, Greet, Answer, Break
<1>2. Busy' = Busy BY <1>1 DEF Busy
<1> SUFFICES TypeOK' BY <1>1, <1>2 DEF Counted
<1>3. CASE Greet(s)
  <2>1. toConsole[s] \o Prompt \in Seq(Symbol) /\ log[s] \o Prompt \in Seq(Symbol)
    BY <1>0, Symbols, Joined DEF Text
  <2>2. toConsole' \in [Session -> Seq(Symbol)] /\ log' \in [Session -> Seq(Symbol)]
    BY <1>0, <1>3, <2>1 DEF Greet, TypeOK
  <2> QED BY <1>0, <1>1, <1>3, <2>2 DEF Greet, TypeOK
<1>4. CASE Answer(s)
  <2>1. Tail(toShell[s]) \in Seq(Symbol) /\ Head(toShell[s]) \in Symbol
    BY <1>0, <1>4 DEF Answer
  <2>2. toShell' \in [Session -> Seq(Symbol)] BY <1>0, <1>4, <2>1 DEF Answer, TypeOK
  <2>3. PICK out \in Outputs, stays \in BOOLEAN :
           LET text == IF stays THEN out \o Prompt ELSE out
           IN  /\ shell' = [shell EXCEPT ![s] = IF stays THEN "waits" ELSE "exited"]
               /\ toConsole' = [toConsole EXCEPT ![s] = @ \o text]
               /\ log' = [log EXCEPT ![s] = @ \o <<Head(toShell[s])>> \o text]
    BY <1>4 DEF Answer
  <2>4. PICK text : text = IF stays THEN out \o Prompt ELSE out OBVIOUS
  <2>5. text \in Text
    <3>1. out \in Text /\ Prompt \in Text BY OutputsAssumption, Symbols DEF Text
    <3> QED BY <2>4, <3>1, Joined
  <2>6. toConsole[s] \o text \in Seq(Symbol) /\ log[s] \o <<Head(toShell[s])>> \o text \in Seq(Symbol)
    <3>1. <<Head(toShell[s])>> \in Text /\ log[s] \in Text /\ toConsole[s] \in Text
      BY <1>0, <2>1 DEF Text
    <3>2. log[s] \o <<Head(toShell[s])>> \in Text BY <3>1, Joined
    <3> QED BY <2>5, <3>1, <3>2, Joined DEF Text
  <2>7. toConsole' \in [Session -> Seq(Symbol)] /\ log' \in [Session -> Seq(Symbol)]
    BY <1>0, <2>3, <2>4, <2>6 DEF TypeOK
  <2>8. shell' \in [Session -> {"none", "greets", "waits", "exited", "broken"}]
    BY <1>0, <2>3 DEF TypeOK
  <2> QED BY <1>0, <1>1, <2>2, <2>7, <2>8 DEF TypeOK
<1>5. CASE Break(s)
  <2>1. PICK left \in {toConsole[s], <<>>} : toConsole' = [toConsole EXCEPT ![s] = left]
    BY <1>5 DEF Break
  <2>2. left \in Seq(Symbol) BY <1>0, Empty DEF Text
  <2>3. toConsole' \in [Session -> Seq(Symbol)] BY <1>0, <2>1, <2>2 DEF TypeOK
  <2> QED BY <1>0, <1>1, <1>5, <2>3 DEF Break, TypeOK
<1> QED BY <1>3, <1>4, <1>5 DEF Shell

(* The completion of a write. *)
LEMMA WriteKeeps ==
    ASSUME NEW h \in Server, QueueOK(h), h.writes # <<>>, h.pending # <<>>, h.socket = "open",
           NEW d, d = DoWrite([h EXCEPT !.writes = Tail(@), !.pending = Tail(@)])
    PROVE  /\ d \in Server /\ QueueOK(d)
           /\ d.pending = Tail(h.pending) /\ d.active = h.active /\ d.phase = h.phase
           /\ Head(h.writes) = Head(h.pending)
<1>1. h.writes = <<Head(h.pending)>> BY DEF QueueOK
<1>2. h.pending \in Seq(Items) /\ h.closing \in BOOLEAN /\ h.writes \in Seq(Items)
      /\ h.phase \in {"request", "reply"}
  BY DEF Server
<1>3. Head(h.pending) \in Items /\ Tail(h.pending) \in Seq(Items) BY <1>2
<1>4. Head(h.writes) = Head(h.pending) /\ Tail(h.writes) = <<>> BY <1>1, <1>3
<1>5. PICK q : q = [h EXCEPT !.writes = <<>>, !.pending = Tail(h.pending)] OBVIOUS
<1>6. d = DoWrite(q)
  <2>1. q = [h EXCEPT !.writes = Tail(@), !.pending = Tail(@)] BY <1>4, <1>5
  <2> QED BY <2>1
<1>7. /\ q \in Server /\ q.pending = Tail(h.pending) /\ q.writes = <<>> /\ q.phase = h.phase
      /\ q.active = h.active /\ q.closing = h.closing /\ q.socket = "open"
  <2>1. <<>> \in Seq(Items) BY EmptySeq
  <2>2. q \in Server BY <1>3, <1>5, <2>1 DEF Server
  <2> QED BY <1>5, <2>2 DEF Server
<1>8. h.phase # "request" /\ (h.closing => h.active = 0 /\ h.phase = "reply")
  BY DEF QueueOK
<1>9. CASE q.pending # <<>>
  <2>1. d = [q EXCEPT !.writes = Append(@, Head(q.pending))] BY <1>6, <1>7, <1>9, WriteStarts
  <2>2. Head(q.pending) \in Items BY <1>3, <1>7, <1>9
  <2>3. Append(q.writes, Head(q.pending)) = <<Head(q.pending)>> BY <1>7, <2>2, FirstWrite
  <2>4. d = [q EXCEPT !.writes = <<Head(q.pending)>>] BY <2>1, <2>3, Zenon
  <2>5. <<Head(q.pending)>> \in Seq(Items) /\ <<Head(q.pending)>> # <<>> BY <2>2, FirstWrite
  <2>6. d \in Server BY <1>7, <2>4, <2>5 DEF Server
  <2>7. /\ d.pending = q.pending /\ d.writes = <<Head(q.pending)>> /\ d.phase = q.phase
        /\ d.active = q.active /\ d.closing = q.closing /\ d.socket = q.socket
    BY <1>7, <2>4 DEF Server
  <2>8. QueueOK(d) BY <1>7, <1>8, <1>9, <2>5, <2>7 DEF QueueOK
  <2> QED BY <1>4, <1>7, <2>6, <2>7, <2>8
<1>10. CASE q.pending = <<>> /\ q.closing
  <2>1. d = [q EXCEPT !.socket = "closed"] BY <1>6, <1>10 DEF DoWrite
  <2>2. d \in Server BY <1>7, <2>1 DEF Server
  <2>3. /\ d.pending = q.pending /\ d.writes = q.writes /\ d.phase = q.phase
        /\ d.active = q.active /\ d.closing = q.closing /\ d.socket = "closed"
    BY <1>7, <2>1 DEF Server
  <2>4. QueueOK(d) BY <1>7, <1>8, <1>10, <2>3 DEF QueueOK
  <2> QED BY <1>4, <1>7, <2>2, <2>3, <2>4
<1>11. CASE q.pending = <<>> /\ ~q.closing
  <2>1. d = q BY <1>6, <1>11 DEF DoWrite
  <2>2. QueueOK(d) BY <1>7, <1>8, <1>11, <2>1 DEF QueueOK
  <2> QED BY <1>4, <1>7, <2>1, <2>2
<1> QED BY <1>9, <1>10, <1>11

LEMMA WriteCounts == ASSUME Counted, Wrote \/ WriteFailed \/ RequestFailed PROVE Counted'
<1> USE DEF vars, remotes, wires
<1>0. TypeOK /\ http \in Server /\ QueueOK(http) BY DEF Counted, TypeOK, Server
<1>1. rs' = rs /\ next' = next /\ percent' = percent /\ UNCHANGED wires
  BY DEF Wrote, WriteFailed, RequestFailed
<1>2. Busy' = Busy BY <1>1 DEF Busy
<1>3. ASSUME http' \in Server, QueueOK(http'), http'.active = http.active, http'.phase = http.phase,
             page' \in [Session \union {0} -> Seq(Symbol)]
      PROVE  Counted'
  <2>1. TypeOK' BY <1>0, <1>1, <1>3 DEF TypeOK, Server
  <2> QED BY <1>1, <1>2, <1>3, <2>1 DEF Counted
<1>4. CASE Wrote
  <2>1. PICK d : d = http' OBVIOUS
  <2>2. /\ http.writes # <<>> /\ http.pending # <<>> /\ http.socket = "open"
        /\ d = DoWrite([http EXCEPT !.writes = Tail(@), !.pending = Tail(@)])
    BY <1>4, <2>1 DEF Wrote
  <2>3. d \in Server /\ QueueOK(d) /\ d.active = http.active /\ d.phase = http.phase
        /\ Head(http.writes) = Head(http.pending)
    BY <1>0, <2>2, WriteKeeps
  <2>4. PICK item : item = Head(http.pending) OBVIOUS
  <2>5. item \in Items /\ page' = [page EXCEPT ![item.id] = @ \o item.text]
    <3>1. http.pending \in Seq(Items) BY <1>0 DEF Server
    <3>2. Head(http.pending) \in Items BY <2>2, <3>1
    <3>3. page' = [page EXCEPT ![Head(http.writes).id] = @ \o Head(http.writes).text]
      BY <1>4 DEF Wrote
    <3> QED BY <2>3, <2>4, <3>2, <3>3
  <2>6. item.id \in Session \union {0} /\ item.text \in Text BY <2>5 DEF Items, Text
  <2>7. page[item.id] \o item.text \in Seq(Symbol)
    <3>1. page[item.id] \in Text BY <1>0, <2>6 DEF TypeOK, Text
    <3> QED BY <2>6, <3>1, Joined DEF Text
  <2>8. page' \in [Session \union {0} -> Seq(Symbol)] BY <1>0, <2>5, <2>7 DEF TypeOK
  <2> QED BY <1>3, <2>1, <2>3, <2>8
<1>5. CASE WriteFailed
  <2>1. http.writes # <<>> /\ http' = [http EXCEPT !.writes = Tail(@), !.socket = "failed"]
        /\ page' = page
    BY <1>5 DEF WriteFailed
  <2>2. http.pending # <<>> /\ http.writes = <<Head(http.pending)>> BY <1>0, <2>1 DEF QueueOK
  <2>3. Tail(http.writes) = <<>> /\ <<>> \in Seq(Items)
    <3>1. Head(http.pending) \in Items
      <4>1. http.pending \in Seq(Items) BY <1>0 DEF Server
      <4> QED BY <2>2, <4>1
    <3> QED BY <2>2, <3>1, EmptySeq
  <2>4. http' = [http EXCEPT !.writes = <<>>, !.socket = "failed"] BY <2>1, <2>3
  <2>5. /\ http' \in Server BY <1>0, <2>3, <2>4 DEF Server
  <2>6. /\ http'.pending = http.pending /\ http'.writes = <<>> /\ http'.phase = http.phase
        /\ http'.active = http.active /\ http'.closing = http.closing /\ http'.socket = "failed"
    BY <1>0, <2>4 DEF Server
  <2>7. QueueOK(http')
    <3>1. PICK d : d = http' OBVIOUS
    <3>2. /\ d.pending = http.pending /\ d.writes = <<>> /\ d.phase = http.phase
          /\ d.active = http.active /\ d.closing = http.closing /\ d.socket = "failed"
      BY <2>6, <3>1
    <3>3. QueueOK(d) BY <1>0, <2>2, <3>2 DEF QueueOK
    <3> QED BY <3>1, <3>3
  <2>8. page' \in [Session \union {0} -> Seq(Symbol)] BY <1>0, <2>1 DEF TypeOK
  <2> QED BY <1>3, <2>5, <2>6, <2>7, <2>8
<1>6. CASE RequestFailed
  <2>1. PICK d : d = http' OBVIOUS
  <2>2. d = [http EXCEPT !.socket = "failed"] /\ page' = page /\ http.phase = "request"
    BY <1>6, <2>1 DEF RequestFailed
  <2>3. /\ d \in Server /\ d.pending = http.pending /\ d.writes = http.writes /\ d.phase = "request"
        /\ d.active = http.active /\ d.closing = http.closing /\ d.socket = "failed"
    BY <1>0, <2>2 DEF Server
  <2>4. QueueOK(d) BY <1>0, <2>2, <2>3 DEF QueueOK
  <2>5. page' \in [Session \union {0} -> Seq(Symbol)] BY <1>0, <2>2 DEF TypeOK
  <2> QED BY <1>3, <2>1, <2>2, <2>3, <2>4, <2>5
<1> QED BY <1>4, <1>5, <1>6

(* A request is answered with the head of a page first. *)
LEMMA Opening ==
    ASSUME Counted, http.phase = "request", http.socket = "open",
           NEW first, first = Enqueue([http EXCEPT !.phase = "reply"], Head0)
    PROVE  /\ Sound(first) /\ ~first.closing /\ first.active = 0
           /\ \A t : Column(t, first.pending) = PartOf(t, Head0)
<1>1. http \in Server /\ QueueOK(http) BY DEF Counted, TypeOK, Server
<1>2. PICK h : h = [http EXCEPT !.phase = "reply"] OBVIOUS
<1>3. /\ http.pending = <<>> /\ http.active = 0 /\ http.writes = <<>> /\ ~http.closing
  BY <1>1 DEF QueueOK
<1>4. /\ h \in Server /\ h.pending = <<>> /\ h.writes = <<>> /\ h.phase = "reply"
      /\ h.active = 0 /\ h.closing = http.closing /\ h.socket = "open"
  BY <1>1, <1>2, <1>3 DEF Server
<1>5. Sound(h) /\ ~h.closing BY <1>3, <1>4 DEF Sound, QueueOK
<1>6. /\ Sound(first) /\ ~first.closing /\ first.pending = Append(<<>>, Head0) /\ first.active = 0
  BY <1>2, <1>4, <1>5, Symbols, EnqueueKeeps
<1>7. ASSUME NEW t PROVE Column(t, Append(<<>>, Head0)) = PartOf(t, Head0)
  <2>1. Column(t, Append(<<>>, Head0)) = Column(t, <<>>) \o PartOf(t, Head0)
    <3>1. <<>> \in Seq(Items) BY EmptySeq
    <3> QED BY <3>1, Symbols, ColumnAppend
  <2> QED BY <2>1, ColumnEmpty, Symbols, Parts, Empty
<1> QED BY <1>6, <1>7

LEMMA PageAnswered ==
    ASSUME Counted, DispatchPage
    PROVE  /\ Sound(http') /\ http'.active = 0
           /\ \A t : Column(t, http'.pending) = PartOf(t, Head0)
<1>1. PICK first : first = Enqueue([http EXCEPT !.phase = "reply"], Head0) OBVIOUS
<1>2. http' = CloseWhenDrained(first) /\ http.phase = "request" /\ http.socket = "open"
  BY <1>1 DEF DispatchPage
<1>3. /\ Sound(first) /\ ~first.closing /\ first.active = 0
      /\ \A t : Column(t, first.pending) = PartOf(t, Head0)
  BY <1>1, <1>2, Opening
<1>4. /\ Sound(CloseWhenDrained(first)) /\ CloseWhenDrained(first).pending = first.pending
      /\ CloseWhenDrained(first).active = 0
  BY <1>3, CloseKeeps
<1> QED BY <1>2, <1>3, <1>4

(* A request of n sessions: when its handler has returned, those whose file is missing are *)
(* done and say so in their columns.                                                       *)
LEMMA ConsoleAnswered ==
    ASSUME Counted, DispatchConsole
    PROVE  \E n \in 0 .. MaxSessions : \E missing \in SUBSET (1 .. n) :
              /\ Sound(http') /\ http'.active = Cardinality((1 .. n) \ missing)
              /\ \A t \in Session \union {0} :
                    Column(t, http'.pending) = PartOf(t, Head0) \o (IF t \in missing THEN Failure ELSE <<>>)
              /\ rs' = [s \in Session |-> IF s > n THEN "unused"
                                          ELSE IF s \in missing THEN "finished" ELSE "resolve"]
              /\ log' = [s \in Session |-> IF s \in missing THEN Failure ELSE <<>>]
<1>1. PICK first : first = Enqueue([http EXCEPT !.phase = "reply"], Head0) OBVIOUS
<1>2. http.phase = "request" /\ http.socket = "open" BY DEF DispatchConsole
<1>0. PICK n \in 0 .. MaxSessions : \E missing \in SUBSET (1 .. n) :
         /\ http' = StartRemotes(first, n, missing)
         /\ rs' = [s \in Session |-> IF s > n THEN "unused"
                                     ELSE IF s \in missing THEN "finished" ELSE "resolve"]
         /\ log' = [s \in Session |-> IF s \in missing THEN Failure ELSE <<>>]
  BY <1>1 DEF DispatchConsole
<1>3. PICK missing \in SUBSET (1 .. n) :
         /\ http' = StartRemotes(first, n, missing)
         /\ rs' = [s \in Session |-> IF s > n THEN "unused"
                                     ELSE IF s \in missing THEN "finished" ELSE "resolve"]
         /\ log' = [s \in Session |-> IF s \in missing THEN Failure ELSE <<>>]
  BY <1>0
<1>4. /\ Sound(first) /\ ~first.closing /\ first.active = 0
      /\ \A t : Column(t, first.pending) = PartOf(t, Head0)
  BY <1>1, <1>2, Opening
<1>5. PICK all : all = [first EXCEPT !.active = n] OBVIOUS
<1>6. MaxSessions \in Nat /\ n \in Nat BY SessionsAssumption
<1>7. /\ all \in Server /\ all.pending = first.pending /\ all.writes = first.writes
      /\ all.phase = "reply" /\ all.active = n /\ all.closing = first.closing
      /\ all.socket = first.socket
  BY <1>4, <1>5, <1>6 DEF Sound, Server
<1>8. Sound(all) /\ ~all.closing BY <1>4, <1>7 DEF Sound, QueueOK
<1>9. http' = IF n = 0 THEN CloseWhenDrained(all) ELSE Started(all, missing)[n]
  BY <1>3, <1>5 DEF StartRemotes
<1>10. \A t \in missing : t \in Nat /\ 1 =< t /\ t =< n OBVIOUS
<1>11. CASE n = 0
  <2>1. /\ Sound(http') /\ http'.pending = first.pending /\ http'.active = 0
    BY <1>7, <1>8, <1>9, <1>11, CloseKeeps
  <2>2. missing = {} /\ (1 .. n) \ missing = {} BY <1>11
  <2>3. Cardinality((1 .. n) \ missing) = 0 BY <2>2, FS_EmptySet
  <2>4. \A t \in Session \union {0} :
           Column(t, http'.pending) = PartOf(t, Head0) \o (IF t \in missing THEN Failure ELSE <<>>)
    BY <1>4, <2>1, <2>2, Symbols, Parts, Empty
  <2> QED BY <1>3, <2>1, <2>3, <2>4
<1>12. CASE n # 0
  <2>1. n \in 1 .. MaxSessions BY <1>6, <1>12
  <2>2. PICK g : g = Started(all, missing) OBVIOUS
  <2>3. LoopAt(g, all, n, missing, n) BY <1>7, <1>8, <2>1, <2>2, LoopKeeps
  <2>4. http' = g[n] BY <1>9, <1>12, <2>2
  <2>5. Sound(http') /\ http'.active = Cardinality((1 .. n) \ missing)
    <3>1. Left(n, missing, n) = (1 .. n) \ missing BY DEF Left
    <3> QED BY <2>3, <2>4, <3>1 DEF LoopAt
  <2>6. ASSUME NEW t \in Session \union {0}
        PROVE  Column(t, http'.pending) = PartOf(t, Head0) \o (IF t \in missing THEN Failure ELSE <<>>)
    <3>1. Column(t, http'.pending) =
             Column(t, all.pending) \o (IF t \in missing /\ t =< n THEN Failure ELSE <<>>)
      BY <2>3, <2>4 DEF LoopAt
    <3>2. t \in missing => t =< n BY <1>10, Zenon
    <3>3. Column(t, all.pending) = PartOf(t, Head0) BY <1>4, <1>7
    <3> QED BY <3>1, <3>2, <3>3
  <2> QED BY <1>3, <2>5, <2>6
<1> QED BY <1>11, <1>12

LEMMA DispatchCounts == ASSUME Counted, DispatchPage \/ DispatchConsole PROVE Counted'
<1> USE DEF vars, remotes, wires
<1>0. TypeOK /\ http.phase = "request" /\ \A s \in Session : rs[s] = "unused"
  BY DEF Counted, DispatchPage, DispatchConsole
<1>1. CASE DispatchPage
  <2>1. Sound(http') /\ http'.active = 0 BY <1>1, PageAnswered
  <2>2. UNCHANGED <<page, remotes, wires>> BY <1>1 DEF DispatchPage
  <2>3. Busy' = {} BY <1>0, <2>2 DEF Busy
  <2>4. TypeOK' BY <1>0, <2>1, <2>2 DEF TypeOK, Server, Sound
  <2> QED BY <2>1, <2>3, <2>4, FS_EmptySet DEF Counted, Sound
<1>2. CASE DispatchConsole
  <2>0. PICK n \in 0 .. MaxSessions : \E missing \in SUBSET (1 .. n) :
              /\ Sound(http') /\ http'.active = Cardinality((1 .. n) \ missing)
              /\ rs' = [s \in Session |-> IF s > n THEN "unused"
                                          ELSE IF s \in missing THEN "finished" ELSE "resolve"]
              /\ log' = [s \in Session |-> IF s \in missing THEN Failure ELSE <<>>]
    BY <1>2, ConsoleAnswered, Zenon
  <2>1. PICK missing \in SUBSET (1 .. n) :
              /\ Sound(http') /\ http'.active = Cardinality((1 .. n) \ missing)
              /\ rs' = [s \in Session |-> IF s > n THEN "unused"
                                          ELSE IF s \in missing THEN "finished" ELSE "resolve"]
              /\ log' = [s \in Session |-> IF s \in missing THEN Failure ELSE <<>>]
    BY <2>0
  <2>2. Busy' = (1 .. n) \ missing
    <3>1. \A s \in Session : s \in Busy' <=> ~(s > n) /\ s \notin missing BY <2>1 DEF Busy
    <3>2. \A s \in 1 .. n : s \in Session BY SessionsAssumption DEF Session
    <3>3. \A s \in Busy' : s \in Session BY DEF Busy
    <3>4. \A s \in Session : ~(s > n) <=> s \in 1 .. n BY SessionsAssumption DEF Session
    <3> QED BY <3>1, <3>2, <3>3, <3>4
  <2>3. rs' \in [Session -> Waits] /\ log' \in [Session -> Seq(Symbol)]
    BY <2>1, Symbols DEF Waits, Text
  <2>4. UNCHANGED <<page, next, percent, toConsole, toShell, shell>> BY <1>2 DEF DispatchConsole
  <2>5. TypeOK' BY <1>0, <2>1, <2>3, <2>4 DEF TypeOK, Server, Sound
  <2> QED BY <2>1, <2>2, <2>5 DEF Counted, Sound
<1> QED BY <1>1, <1>2

LEMMA CountedStarts == Init => Counted
<1> SUFFICES ASSUME Init PROVE Counted OBVIOUS
<1>1. <<>> \in Seq(Symbol) /\ <<>> \in Seq(Items) BY EmptySeq
<1>2. /\ http \in Server /\ http.pending = <<>> /\ http.writes = <<>> /\ http.active = 0
      /\ http.closing = FALSE /\ http.socket = "open" /\ http.phase = "request"
  BY <1>1, SessionsAssumption DEF Init, Server
<1>3. QueueOK(http) BY <1>2 DEF QueueOK
<1>4. \A s \in Session : 1 \in 1 .. Len(Script[s]) + 1
  <2>1. \A s \in Session : Len(Script[s]) \in Nat BY Commands
  <2> QED BY <2>1
<1>5. TypeOK BY <1>1, <1>2, <1>4 DEF Init, TypeOK, Server, Waits
<1>6. Busy = {} /\ \A s \in Session : rs[s] = "unused" BY DEF Busy, Init
<1> QED BY <1>2, <1>3, <1>5, <1>6, FS_EmptySet DEF Counted

LEMMA StepCounts == Counted /\ [Next]_vars => Counted'
<1> SUFFICES ASSUME Counted, [Next]_vars PROVE Counted' OBVIOUS
<1>1. CASE UNCHANGED vars BY <1>1 DEF vars, remotes, wires, Counted, TypeOK, QueueOK, Busy
<1>2. CASE Next
  BY <1>2, WriteCounts, DispatchCounts, HandlerCounts, FarCounts DEF Next
<1> QED BY <1>1, <1>2

(* For any number of sessions, scripts and outputs: the state keeps its types, however the *)
(* handlers of the sessions interleave and whatever fails; the counter of the sessions     *)
(* never passes their number and never falls below zero.                                   *)
THEOREM TypeCorrect == Spec => []TypeOK
<1>1. Init => Counted BY CountedStarts
<1>2. Counted /\ [Next]_vars => Counted' BY StepCounts
<1>3. Counted => TypeOK BY DEF Counted
<1> QED BY <1>1, <1>2, <1>3, PTL DEF Spec

-----------------------------------------------------------------------------
(* Prefixes, and prompts. *)

LEMMA PrefixOfConcat ==
    ASSUME NEW S, NEW a \in Seq(S), NEW b \in Seq(S)
    PROVE  IsPrefix(a, a \o b)
<1>1. Len(a \o b) = Len(a) + Len(b) /\ Len(a) \in Nat /\ Len(b) \in Nat /\ a \o b \in Seq(S)
  BY ConcatProperties, LenProperties
<1>2. SubSeq(a, 1, Len(a)) = a BY SubSeqFull
<1>3. CASE Len(a) = 0
  <2>1. SubSeq(a \o b, 1, 0) = <<>> /\ SubSeq(a, 1, 0) = <<>> BY SubSeqEmpty
  <2> QED BY <1>1, <1>3, <2>1 DEF IsPrefix
<1>4. CASE Len(a) # 0
  <2>1. 1 \in 1 .. Len(a) /\ Len(a) \in 1 .. Len(a) BY <1>1, <1>4
  <2>2. SubSeq(a \o b, 1, Len(a)) = SubSeq(a, 1, Len(a)) BY <2>1, SubSeqOfConcat1
  <2> QED BY <1>1, <2>2 DEF IsPrefix
<1> QED BY <1>3, <1>4

LEMMA PrefixExtends ==
    ASSUME NEW S, NEW a \in Seq(S), NEW b \in Seq(S), NEW c \in Seq(S), IsPrefix(a, b)
    PROVE  IsPrefix(a, b \o c)
<1>1. /\ Len(b \o c) = Len(b) + Len(c) /\ Len(a) \in Nat /\ Len(b) \in Nat /\ Len(c) \in Nat
      /\ Len(a) =< Len(b)
  BY ConcatProperties, LenProperties DEF IsPrefix
<1>2. CASE Len(a) = 0
  <2>1. SubSeq(b \o c, 1, 0) = <<>> /\ SubSeq(a, 1, 0) = <<>> BY SubSeqEmpty
  <2> QED BY <1>1, <1>2, <2>1 DEF IsPrefix
<1>3. CASE Len(a) # 0
  <2>1. 1 \in 1 .. Len(b) /\ Len(a) \in 1 .. Len(b) BY <1>1, <1>3
  <2>2. SubSeq(b \o c, 1, Len(a)) = SubSeq(b, 1, Len(a)) BY <2>1, SubSeqOfConcat1
  <2> QED BY <1>1, <2>2 DEF IsPrefix
<1> QED BY <1>2, <1>3

LEMMA NothingIsPrefix == ASSUME NEW S, NEW a \in Seq(S) PROVE IsPrefix(<<>>, a)
<1>1. <<>> \in Seq(S) /\ <<>> \o a = a BY EmptySeq, ConcatEmptySeq
<1> QED BY <1>1, PrefixOfConcat

LEMMA PromptFound ==
    ASSUME NEW u \in Text, Occurs(u, Prompt)
    PROVE  \E i \in 1 .. Len(u) : PromptAt(u, i)
<1>1. PICK i \in 1 .. Len(u) : IsPrefix(Prompt, SubSeq(u, i, Len(u))) BY DEF Occurs
<1> DEFINE rest == SubSeq(u, i, Len(u))
<1>2. u \in Seq(Symbol) /\ Len(u) \in Nat /\ \A j \in 1 .. Len(u) : u[j] \in Symbol
  BY LenProperties, ElementOfSeq DEF Text
<1>3. /\ rest \in Seq(Symbol) /\ Len(rest) = Len(u) - i + 1
      /\ \A j \in 1 .. Len(u) - i + 1 : rest[j] = u[i + j - 1]
  <2>1. i \in Int /\ Len(u) \in Int /\ \A j \in i .. Len(u) : u[j] \in Symbol BY <1>2
  <2>2. /\ rest \in Seq(Symbol)
        /\ Len(rest) = IF i =< Len(u) THEN Len(u) - i + 1 ELSE 0
        /\ \A j \in 1 .. Len(u) - i + 1 : rest[j] = u[i + j - 1]
    BY <2>1, SubSeqProperties
  <2> QED BY <1>2, <2>2
<1> HIDE DEF rest
<1>4. 2 =< Len(rest) /\ SubSeq(Prompt, 1, 2) = SubSeq(rest, 1, 2)
  BY <1>1, Symbols DEF IsPrefix, rest
<1>5. Prompt[1] = rest[1] /\ Prompt[2] = rest[2]
  <2>1. Prompt \in Seq(Symbol) /\ 2 \in 1 .. Len(Prompt) /\ 2 \in 1 .. Len(rest)
    BY <1>3, <1>4, <1>2, Symbols DEF Text
  <2>2. \A j \in 1 .. 2 : SubSeq(Prompt, 1, 2)[j] = Prompt[j] BY <2>1, Parted
  <2>3. \A j \in 1 .. 2 : SubSeq(rest, 1, 2)[j] = rest[j] BY <1>3, <2>1, Parted
  <2> QED BY <1>4, <2>2, <2>3
<1>6. rest[1] = u[i] /\ rest[2] = u[i + 1] /\ i + 1 =< Len(u) BY <1>2, <1>3, <1>4
<1> QED BY <1>5, <1>6, Symbols DEF PromptAt

LEMMA PlainAnswer ==
    ASSUME OutputsArePlain, NEW out \in Outputs
    PROVE  OnlyAtEnd(out \o Prompt)
<1>1. out \in Seq(Symbol) /\ Prompt \in Seq(Symbol) /\ Len(out) \in Nat /\ Len(Prompt) = 2
      /\ Prompt[1] = "%"
  BY OutputsAssumption, Symbols, LenProperties DEF Text
<1>2. /\ Len(out \o Prompt) = Len(out) + 2
      /\ \A i \in 1 .. Len(out) : (out \o Prompt)[i] = out[i]
      /\ (out \o Prompt)[Len(out) + 1] = "%"
  <2>1. /\ Len(out \o Prompt) = Len(out) + Len(Prompt)
        /\ \A i \in 1 .. Len(out) + Len(Prompt) :
              (out \o Prompt)[i] = IF i <= Len(out) THEN out[i] ELSE Prompt[i - Len(out)]
    BY <1>1, Joined DEF Text
  <2>2. /\ Len(out) + 1 \in 1 .. Len(out) + Len(Prompt) /\ ~(Len(out) + 1 <= Len(out))
        /\ Len(out) + 1 - Len(out) = 1
    BY <1>1
  <2>3. (out \o Prompt)[Len(out) + 1] = Prompt[1] BY <2>1, <2>2
  <2> QED BY <1>1, <2>1, <2>3
<1> SUFFICES ASSUME NEW i \in 1 .. Len(out) + 2, PromptAt(out \o Prompt, i)
             PROVE  i + 1 = Len(out) + 2
  BY <1>2 DEF OnlyAtEnd
<1>3. ~(i + 1 =< Len(out)) BY <1>1, <1>2 DEF PromptAt, OutputsArePlain
<1>4. i # Len(out) BY <1>1, <1>2, Symbols DEF PromptAt
<1> QED BY <1>1, <1>2, <1>3, <1>4 DEF PromptAt

LEMMA SuffixKeeps ==
    ASSUME NEW u \in Text, NEW v \in Text, OnlyAtEnd(u), Len(v) =< Len(u),
           \A j \in 1 .. Len(v) : v[j] = u[Len(u) - Len(v) + j]
    PROVE  OnlyAtEnd(v)
<1>1. Len(u) \in Nat /\ Len(v) \in Nat BY LenProperties DEF Text
<1> SUFFICES ASSUME NEW j \in 1 .. Len(v), PromptAt(v, j) PROVE j + 1 = Len(v) BY DEF OnlyAtEnd
<1> DEFINE i == Len(u) - Len(v) + j
<1>2. i \in 1 .. Len(u) /\ i + 1 =< Len(u) /\ u[i] = "%" /\ u[i + 1] = Space
  <2>1. j \in 1 .. Len(v) /\ j + 1 \in 1 .. Len(v) /\ v[j] = "%" /\ v[j + 1] = Space
    BY <1>1 DEF PromptAt
  <2>2. u[i + 1] = v[j + 1]
    <3>1. v[j + 1] = u[Len(u) - Len(v) + (j + 1)] BY <2>1
    <3>2. Len(u) - Len(v) + (j + 1) = i + 1 BY <1>1
    <3> QED BY <3>1, <3>2
  <2> QED BY <1>1, <2>1, <2>2
<1>3. i + 1 = Len(u) BY <1>2 DEF OnlyAtEnd, PromptAt
<1> QED BY <1>1, <1>3

(* Reading: what is kept with what is left still has its prompt at the end, and a prompt   *)
(* is found only when nothing is left.                                                     *)
ReadLeaves(last, t, text, rest) ==
    /\ OnlyAtEnd(Kept(Last(text) = "%") \o rest)
    /\ HasPrompt(text, last) => rest = <<>> /\ text = t /\ Last(text) # "%"

LEMMA ReadKeeps ==
    ASSUME NEW last \in BOOLEAN, NEW t \in Text, OnlyAtEnd(Kept(last) \o t), NEW n \in 1 .. Len(t)
    PROVE  ReadLeaves(last, t, SubSeq(t, 1, n), SubSeq(t, n + 1, Len(t)))
<1>1. PICK text : text = SubSeq(t, 1, n) OBVIOUS
<1>2. PICK rest : rest = SubSeq(t, n + 1, Len(t)) OBVIOUS
<1> DEFINE kept == Kept(last)
           combined == kept \o text
           u == kept \o t
<1>3. t \in Seq(Symbol) /\ Len(t) \in Nat BY LenProperties DEF Text
<1>4. kept \in Seq(Symbol) /\ Len(kept) \in Nat
      /\ (last => Len(kept) = 1 /\ kept[1] = "%")
  <2>1. CASE last BY <2>1, Symbols DEF Kept, Text
  <2>2. CASE ~last BY <2>2, Empty DEF Kept, Text
  <2> QED BY <2>1, <2>2
<1> HIDE DEF kept
<1>5. /\ text \in Seq(Symbol) /\ Len(text) = n /\ \A i \in 1 .. n : text[i] = t[i]
      /\ rest \in Seq(Symbol) /\ Len(rest) = Len(t) - n
      /\ \A i \in 1 .. Len(t) - n : rest[i] = t[n + i]
      /\ text \o rest = t /\ n \in 1 .. Len(t)
  BY <1>1, <1>3, <1>2, Parted
<1>6. /\ combined \in Seq(Symbol) /\ Len(combined) = Len(kept) + n
      /\ \A i \in 1 .. Len(kept) : combined[i] = kept[i]
      /\ \A i \in 1 .. n : combined[Len(kept) + i] = t[i]
  <2>1. /\ combined \in Seq(Symbol) /\ Len(combined) = Len(kept) + Len(text)
        /\ \A i \in 1 .. Len(kept) + Len(text) :
              combined[i] = IF i =< Len(kept) THEN kept[i] ELSE text[i - Len(kept)]
    BY <1>4, <1>5, Joined DEF Text
  <2>2. ASSUME NEW i \in 1 .. n PROVE combined[Len(kept) + i] = t[i]
    <3>1. Len(kept) + i \in 1 .. Len(kept) + Len(text) /\ ~(Len(kept) + i =< Len(kept))
          /\ Len(kept) + i - Len(kept) = i
      BY <1>3, <1>4, <1>5
    <3> QED BY <1>5, <2>1, <3>1
  <2> QED BY <1>4, <1>5, <2>1, <2>2
<1>7. /\ u \in Seq(Symbol) /\ Len(u) = Len(kept) + Len(t)
      /\ \A i \in 1 .. Len(kept) : u[i] = kept[i]
      /\ \A i \in 1 .. Len(t) : u[Len(kept) + i] = t[i]
  <2>1. /\ u \in Seq(Symbol) /\ Len(u) = Len(kept) + Len(t)
        /\ \A i \in 1 .. Len(kept) + Len(t) :
              u[i] = IF i =< Len(kept) THEN kept[i] ELSE t[i - Len(kept)]
    BY <1>3, <1>4, Joined DEF Text
  <2>2. ASSUME NEW i \in 1 .. Len(t) PROVE u[Len(kept) + i] = t[i]
    <3>1. Len(kept) + i \in 1 .. Len(kept) + Len(t) /\ ~(Len(kept) + i =< Len(kept))
          /\ Len(kept) + i - Len(kept) = i
      BY <1>3, <1>4
    <3> QED BY <2>1, <3>1
  <2> QED BY <1>3, <1>4, <2>1, <2>2
<1>8. OnlyAtEnd(u) BY DEF kept
<1> HIDE DEF combined, u
<1>9. ASSUME NEW i \in 1 .. Len(combined) PROVE combined[i] = u[i]
  <2>1. CASE i =< Len(kept) BY <1>3, <1>4, <1>6, <1>7, <2>1
  <2>2. CASE ~(i =< Len(kept))
    <3>1. i - Len(kept) \in 1 .. n /\ i - Len(kept) \in 1 .. Len(t) /\ Len(kept) + (i - Len(kept)) = i
      BY <1>3, <1>4, <1>6, <2>2
    <3>2. combined[Len(kept) + (i - Len(kept))] = t[i - Len(kept)] BY <1>6, <3>1
    <3>3. u[Len(kept) + (i - Len(kept))] = t[i - Len(kept)] BY <1>7, <3>1
    <3> QED BY <3>1, <3>2, <3>3
  <2> QED BY <2>1, <2>2
<1>10. Last(text) = t[n] /\ t[n] = u[Len(kept) + n] /\ Len(kept) + n = Len(combined)
  BY <1>3, <1>5, <1>6, <1>7 DEF Last
<1>11. OnlyAtEnd(Kept(Last(text) = "%") \o rest)
  <2>1. PICK one : one = Kept(Last(text) = "%") OBVIOUS
  <2>2. /\ one \in Seq(Symbol) /\ Len(one) \in Nat /\ Len(one) =< 1
        /\ Len(one) = 1 => Last(text) = "%" /\ one[1] = Last(text)
    <3>1. CASE Last(text) = "%" BY <2>1, <3>1, Symbols DEF Kept, Text
    <3>2. CASE Last(text) # "%" BY <2>1, <3>2, Empty DEF Kept, Text
    <3> QED BY <3>1, <3>2
  <2>3. PICK v : v = one \o rest OBVIOUS
  <2>4. /\ v \in Seq(Symbol) /\ Len(v) = Len(one) + Len(rest)
        /\ \A i \in 1 .. Len(one) + Len(rest) :
              v[i] = IF i =< Len(one) THEN one[i] ELSE rest[i - Len(one)]
    BY <1>5, <2>2, <2>3, Joined DEF Text
  <2>5. Len(v) =< Len(u) /\ Len(u) - Len(v) + Len(one) = Len(kept) + n
    <3>1. /\ Len(v) = Len(one) + (Len(t) - n) /\ Len(u) = Len(kept) + Len(t) /\ 1 =< n /\ n \in Nat
          /\ n =< Len(t) /\ Len(one) =< 1 /\ Len(one) \in Nat /\ Len(kept) \in Nat /\ Len(t) \in Nat
      BY <1>3, <1>4, <1>5, <1>7, <2>2, <2>4
    <3> QED BY <3>1
  <2>6. ASSUME NEW j \in 1 .. Len(v) PROVE v[j] = u[Len(u) - Len(v) + j]
    <3>1. CASE j =< Len(one)
      <4>1. j = 1 /\ Len(one) = 1
        <5>1. 1 =< j /\ j \in Int /\ Len(one) \in Nat /\ Len(one) =< 1 BY <2>2
        <5>2. \A a, b \in Int : 1 =< a /\ a =< b /\ b =< 1 => a = 1 /\ b = 1 OBVIOUS
        <5>3. Len(one) \in Int BY <5>1
        <5> QED BY <3>1, <5>1, <5>2, <5>3, Zenon
      <4>2. v[j] = one[1] BY <1>3, <1>5, <2>4, <3>1, <4>1
      <4>3. one[1] = u[Len(kept) + n] BY <1>10, <2>2, <4>1
      <4> QED BY <2>5, <4>1, <4>2, <4>3
    <3>2. CASE ~(j =< Len(one))
      <4>0. j \in Nat /\ Len(one) \in Nat /\ j =< Len(one) + (Len(t) - n) /\ Len(t) - n \in Nat
        BY <1>3, <1>5, <2>2, <2>4
      <4>1. PICK i \in 1 .. Len(t) - n : i = j - Len(one)
        <5>1. \A a, b, c \in Nat : ~(a =< b) /\ a =< b + c => a - b \in 1 .. c OBVIOUS
        <5>2. j - Len(one) \in 1 .. Len(t) - n BY <3>2, <4>0, <5>1, Zenon
        <5> QED BY <5>2
      <4>2. v[j] = rest[i] BY <1>3, <1>5, <2>2, <2>4, <3>2, <4>1
      <4>3. rest[i] = t[n + i] BY <1>5
      <4>4. n + i \in 1 .. Len(t) BY <1>3, <1>5
      <4>5. u[Len(kept) + (n + i)] = t[n + i] BY <1>7, <4>4
      <4>6. Len(kept) + (n + i) = Len(u) - Len(v) + j BY <1>3, <1>4, <1>5, <1>7, <2>2, <2>4, <4>1
      <4> QED BY <4>2, <4>3, <4>5, <4>6
    <3> QED BY <3>1, <3>2
  <2>7. OnlyAtEnd(v) BY <1>7, <1>8, <2>4, <2>5, <2>6, SuffixKeeps DEF Text
  <2> QED BY <2>1, <2>3, <2>7
<1>12. ASSUME HasPrompt(text, last) PROVE rest = <<>> /\ text = t /\ Last(text) # "%"
  <2>1. \E i \in 1 .. Len(combined) : PromptAt(combined, i)
    <3>1. CASE Occurs(text, Prompt)
      <4>1. PICK i \in 1 .. Len(text) : PromptAt(text, i) BY <1>5, <3>1, PromptFound DEF Text
      <4>2. i + 1 =< n /\ text[i] = "%" /\ text[i + 1] = Space BY <1>5, <4>1 DEF PromptAt
      <4>3. i \in 1 .. n /\ i + 1 \in 1 .. n BY <1>5, <4>2
      <4>4. t[i] = "%" /\ t[i + 1] = Space BY <1>5, <4>2, <4>3
      <4>5. PICK j \in 1 .. Len(combined) : j = Len(kept) + i BY <1>4, <1>6, <4>3
      <4>6. combined[j] = "%" BY <1>6, <4>3, <4>4, <4>5
      <4>7. combined[j + 1] = Space
        <5>1. combined[Len(kept) + (i + 1)] = Space BY <1>6, <4>3, <4>4
        <5>2. Len(kept) + (i + 1) = j + 1 BY <1>4, <4>5
        <5> QED BY <5>1, <5>2
      <4>8. j + 1 =< Len(combined) BY <1>4, <1>6, <4>2, <4>5
      <4> QED BY <4>6, <4>7, <4>8 DEF PromptAt
    <3>2. CASE last /\ Head(text) = Space
      <4>1. text[1] = Space /\ 1 \in 1 .. n /\ Len(kept) = 1 /\ kept[1] = "%"
        BY <1>3, <1>4, <1>5, <3>2, HeadTailProperties
      <4>2. combined[1] = "%" /\ combined[2] = Space /\ 2 =< Len(combined)
        <5>1. combined[1 + 1] = t[1] BY <1>6, <4>1
        <5>2. combined[1] = kept[1] BY <1>6, <4>1
        <5> QED BY <1>5, <1>6, <4>1, <5>1, <5>2
      <4>3. 1 \in 1 .. Len(combined) BY <1>5, <1>6, <4>1
      <4> QED BY <4>2, <4>3 DEF PromptAt
    <3> QED BY <1>12, <3>1, <3>2 DEF HasPrompt
  <2>2. PICK i \in 1 .. Len(combined) : PromptAt(combined, i) BY <2>1
  <2>3. i \in 1 .. Len(combined) /\ i + 1 \in 1 .. Len(combined) /\ i \in 1 .. Len(u)
    BY <1>3, <1>4, <1>5, <1>6, <1>7, <2>2 DEF PromptAt
  <2>4. u[i] = "%" /\ u[i + 1] = Space /\ i + 1 =< Len(u)
    BY <1>3, <1>4, <1>5, <1>6, <1>7, <1>9, <2>2, <2>3 DEF PromptAt
  <2>5. i + 1 = Len(u) BY <1>8, <2>3, <2>4 DEF OnlyAtEnd, PromptAt
  <2>6. n = Len(t) /\ Len(rest) = 0
    <3>1. /\ i + 1 =< Len(kept) + n /\ i + 1 = Len(kept) + Len(t) /\ n =< Len(t) /\ n \in Nat
          /\ Len(kept) \in Nat /\ Len(t) \in Nat /\ Len(rest) = Len(t) - n
      BY <1>3, <1>4, <1>5, <1>6, <1>7, <2>3, <2>5
    <3> QED BY <3>1
  <2>7. rest = <<>> BY <1>5, <2>6, EmptySeq
  <2>8. text = t BY <1>1, <2>6, <1>3, SubSeqFull
  <2>9. Last(text) = Space
    <3>1. Len(kept) + n = i + 1 BY <1>3, <1>4, <1>7, <2>5, <2>6
    <3> QED BY <1>10, <2>4, <3>1
  <2> QED BY <2>7, <2>8, <2>9, Symbols
<1> QED BY <1>1, <1>11, <1>12, <1>2 DEF ReadLeaves

-----------------------------------------------------------------------------
(* What is shown, step by step. *)

LEMMA Nothing ==
    /\ <<>> \in Text /\ <<>> \o <<>> = <<>> /\ IsPrefix(<<>>, <<>>)
    /\ OnlyAtEnd(<<>>) /\ OnlyAtEnd(Prompt) /\ Prompt # <<>>
    /\ OnlyAtEnd(<<"%">>) /\ Kept(FALSE) = <<>>
<1>1. <<>> \in Seq(Symbol) /\ Len(<<>>) = 0 BY EmptySeq
<1>2. IsPrefix(<<>>, <<>>) BY <1>1, NothingIsPrefix
<1>3. OnlyAtEnd(<<>>) BY <1>1 DEF OnlyAtEnd
<1>4. OnlyAtEnd(Prompt) BY Symbols DEF OnlyAtEnd, PromptAt
<1>5. Prompt # <<>> BY <1>1, Symbols
<1>6. OnlyAtEnd(<<"%">>) BY DEF OnlyAtEnd, PromptAt
<1> QED BY <1>1, <1>2, <1>3, <1>4, <1>5, <1>6, Empty DEF Text, Kept

LEMMA ShownTyped ==
    ASSUME TypeOK, NEW t \in Session \union {0}
    PROVE  Shown(t) \in Text /\ page[t] \in Text /\ Column(t, http.pending) \in Text
<1>1. page[t] \in Text /\ http.pending \in Seq(Items) BY DEF TypeOK, Text
<1>2. Column(t, http.pending) \in Text BY <1>1, ColumnTyped
<1> QED BY <1>1, <1>2, Joined DEF Shown

(* A handler of session s adds to the column of s. *)
Grows(s, text) ==
    \A t \in Session \union {0} : Shown(t)' = Shown(t) \o (IF t = s THEN text ELSE <<>>)

LEMMA GrowsByNothing ==
    ASSUME TypeOK, NEW s \in Session, page' = page, http'.pending = http.pending
    PROVE  Grows(s, <<>>)
<1>1. ASSUME NEW t \in Session \union {0} PROVE Shown(t)' = Shown(t) BY DEF Shown
<1> QED BY <1>1, ShownTyped, Empty DEF Grows

LEMMA GrowsByOne ==
    ASSUME TypeOK, NEW s \in Session, NEW text \in Text, page' = page,
           http'.pending = Append(http.pending, Item(s, text))
    PROVE  Grows(s, text)
<1> SUFFICES ASSUME NEW t \in Session \union {0}
             PROVE  Shown(t)' = Shown(t) \o (IF t = s THEN text ELSE <<>>)
  BY DEF Grows
<1>1. PICK part : part = IF t = s THEN text ELSE <<>> OBVIOUS
<1>2. Item(s, text) \in Items /\ PartOf(t, Item(s, text)) = part BY <1>1, TextItem
<1>3. http.pending \in Seq(Items) BY DEF TypeOK
<1>4. Column(t, http'.pending) = Column(t, http.pending) \o part BY <1>2, <1>3, ColumnAppend
<1>5. Shown(t)' = page[t] \o (Column(t, http.pending) \o part) BY <1>4 DEF Shown
<1>6. page[t] \in Text /\ Column(t, http.pending) \in Text /\ part \in Text
  BY <1>1, ShownTyped, Empty
<1>7. (page[t] \o Column(t, http.pending)) \o part = page[t] \o (Column(t, http.pending) \o part)
  BY <1>6, Regroup
<1> QED BY <1>1, <1>5, <1>7 DEF Shown

LEMMA GrowsByTwo ==
    ASSUME TypeOK, NEW s \in Session, NEW one \in Text, NEW two \in Text, page' = page,
           http'.pending = Append(Append(http.pending, Item(s, one)), Item(s, two))
    PROVE  Grows(s, one \o two)
<1> SUFFICES ASSUME NEW t \in Session \union {0}
             PROVE  Shown(t)' = Shown(t) \o (IF t = s THEN one \o two ELSE <<>>)
  BY DEF Grows
<1>1. PICK partOne : partOne = IF t = s THEN one ELSE <<>> OBVIOUS
<1>2. PICK partTwo : partTwo = IF t = s THEN two ELSE <<>> OBVIOUS
<1>3. /\ Item(s, one) \in Items /\ PartOf(t, Item(s, one)) = partOne
      /\ Item(s, two) \in Items /\ PartOf(t, Item(s, two)) = partTwo
  BY <1>1, <1>2, TextItem
<1>4. http.pending \in Seq(Items) BY DEF TypeOK
<1>5. Append(http.pending, Item(s, one)) \in Seq(Items) BY <1>3, <1>4, AppendProperties
<1>6. Column(t, http'.pending) = (Column(t, http.pending) \o partOne) \o partTwo
  BY <1>3, <1>4, <1>5, ColumnAppend
<1>7. PICK had : had = Column(t, http.pending) OBVIOUS
<1>8. page[t] \in Text /\ had \in Text /\ partOne \in Text /\ partTwo \in Text
  BY <1>1, <1>2, <1>7, ShownTyped, Empty
<1>9. (page[t] \o had) \o (partOne \o partTwo) = page[t] \o ((had \o partOne) \o partTwo)
  <2>1. Regrouped(page[t], had, partOne, partTwo) BY <1>8, RegroupFour
  <2> QED BY <2>1 DEF Regrouped
<1>10. partOne \o partTwo = IF t = s THEN one \o two ELSE <<>> BY <1>1, <1>2, Empty
<1>11. Shown(t)' = page[t] \o ((had \o partOne) \o partTwo) BY <1>6, <1>7 DEF Shown
<1>12. Shown(t) = page[t] \o had BY <1>7 DEF Shown
<1> QED BY <1>9, <1>10, <1>11, <1>12

LEMMA ReadGrows ==
    ASSUME Counted, NEW s \in Busy, NEW n \in Nat, NEW content, NEW rest, NEW h,
           IsRead(s, n, content, rest, h)
    PROVE  /\ http'.pending = h.pending => Grows(s, content)
           /\ SendNextCommand(s, h) /\ ~OutOfCommands(s) =>
                /\ Command(s, next[s]) \in Symbol
                /\ Grows(s, content \o <<Command(s, next[s])>>)
           /\ SendNextCommand(s, h) /\ OutOfCommands(s) => http'.pending = h.pending
<1>1. /\ TypeOK /\ s \in Session /\ content \in Text /\ page' = page
      /\ Sound(h) /\ ~h.closing /\ h.active = http.active
      /\ h.pending = Append(http.pending, Item(s, content))
  BY DEF Counted, Busy, IsRead
<1>2. ASSUME http'.pending = h.pending PROVE Grows(s, content)
  BY <1>1, <1>2, GrowsByOne
<1>3. ASSUME SendNextCommand(s, h), ~OutOfCommands(s)
      PROVE  /\ Command(s, next[s]) \in Symbol
             /\ Grows(s, content \o <<Command(s, next[s])>>)
  <2>1. http'.pending = Append(h.pending, Item(s, <<Command(s, next[s])>>))
    BY <1>1, <1>3, Sending
  <2>2. next[s] \in Nat BY <1>1, Values
  <2>3. Command(s, next[s]) \in Symbol BY <1>1, <2>2, Commands
  <2>4. <<Command(s, next[s])>> \in Text BY <2>3 DEF Text
  <2> QED BY <1>1, <2>1, <2>3, <2>4, GrowsByTwo
<1>4. ASSUME SendNextCommand(s, h), OutOfCommands(s) PROVE http'.pending = h.pending
  <2>1. http' = RemoteDone(h) BY <1>4 DEF SendNextCommand
  <2>2. h.active > 0 BY <1>1, AtWork
  <2> QED BY <1>1, <2>1, <2>2, DoneKeeps
<1> QED BY <1>2, <1>3, <1>4

(* A step of one session leaves the others alone. *)
SameFor(t) ==
    /\ Shown(t)' = Shown(t) /\ rs'[t] = rs[t] /\ percent'[t] = percent[t] /\ toConsole'[t] = toConsole[t]
    /\ toShell'[t] = toShell[t] /\ shell'[t] = shell[t] /\ log'[t] = log[t]

LEMMA SameFlows == ASSUME NEW t \in Session, Flow(t), SameFor(t) PROVE Flow(t)'
BY DEF Flow, Silent, Talking, Over, SameFor

LEMMA HandlerGrows ==
    ASSUME Counted, NEW s \in Session, Handler(s)
    PROVE  \E text \in Text : Grows(s, text)
<1>0. TypeOK /\ <<>> \in Text BY Empty DEF Counted
<1>1. CASE Resolved(s) \/ Connected(s) \/ Written(s)
  <2>1. page' = page /\ http' = http BY <1>1 DEF Resolved, Connected, Written, wires
  <2> QED BY <1>0, <2>1, GrowsByNothing
<1>2. CASE ReadFailed(s) \/ WriteToShellFailed(s)
  <2>1. s \in Busy /\ page' = page /\ http' = RemoteDone(http)
    BY <1>2 DEF ReadFailed, WriteToShellFailed, Busy, Finish
  <2>2. http'.pending = http.pending BY <2>1, AtWork, DoneKeeps
  <2> QED BY <1>0, <2>1, <2>2, GrowsByNothing
<1>3. CASE Refused(s)
  <2>1. s \in Busy /\ page' = page /\ http' = RemoteDone(Enqueue(http, Item(s, Failure)))
    BY <1>3 DEF Refused, Busy
  <2>2. PICK h : h = Enqueue(http, Item(s, Failure)) OBVIOUS
  <2>3. Sound(http) /\ ~http.closing /\ http.active > 0 /\ Item(s, Failure) \in Items
    BY <2>1, AtWork, FailureItem
  <2>4. Sound(h) /\ h.active = http.active /\ h.pending = Append(http.pending, Item(s, Failure))
    BY <2>2, <2>3, EnqueueKeeps
  <2>5. http'.pending = Append(http.pending, Item(s, Failure))
    <3>1. RemoteDone(h).pending = h.pending BY <2>3, <2>4, DoneKeeps
    <3> QED BY <2>1, <2>2, <2>4, <3>1
  <2> QED BY <1>0, <2>1, <2>5, Symbols, GrowsByOne
<1>4. CASE Read(s)
  <2>1. s \in Busy BY <1>4, Reading
  <2>2. PICK n, content, rest, h :
           /\ IsRead(s, n, content, rest, h)
           /\ IF HasPrompt(content, percent[s]) THEN SendNextCommand(s, h)
              ELSE http' = h /\ UNCHANGED <<rs, next, toShell>>
    BY <1>4, Reading, Zenon
  <2>3. n \in Nat /\ content \in Text BY <2>2 DEF IsRead
  <2>4. CASE http'.pending = h.pending BY <2>1, <2>2, <2>3, <2>4, ReadGrows
  <2>5. CASE http'.pending # h.pending
    <3>1. SendNextCommand(s, h) /\ ~OutOfCommands(s) BY <2>1, <2>2, <2>3, <2>5, ReadGrows
    <3>2. /\ Command(s, next[s]) \in Symbol
          /\ Grows(s, content \o <<Command(s, next[s])>>)
      BY <2>1, <2>2, <2>3, <3>1, ReadGrows
    <3>3. <<Command(s, next[s])>> \in Text BY <3>2 DEF Text
    <3> QED BY <2>3, <3>2, <3>3, Joined
  <2> QED BY <2>4, <2>5
<1> QED BY <1>1, <1>2, <1>3, <1>4 DEF Handler

LEMMA Apart ==
    ASSUME Counted, NEW s \in Session, Handler(s) \/ Shell(s) \/ Break(s)
    PROVE  /\ \A t \in Session \ {s} : SameFor(t)
           /\ Shown(0)' = Shown(0)
           /\ ~Handler(s) => Shown(s)' = Shown(s)
<1> USE DEF vars, remotes, wires
<1>0. TypeOK /\ 0 # s BY SessionsAssumption DEF Counted, Session
<1>1. \E text \in Text : Grows(s, text)
  <2>1. CASE Handler(s) BY <2>1, HandlerGrows
  <2>2. CASE Shell(s) \/ Break(s)
    <3>1. page' = page /\ http' = http BY <2>2 DEF Shell, Greet, Answer, Break
    <3> QED BY <1>0, <3>1, GrowsByNothing, Empty
  <2> QED BY <2>1, <2>2
<1>2. \A t \in (Session \union {0}) \ {s} : Shown(t)' = Shown(t)
  <2>1. PICK text \in Text : Grows(s, text) BY <1>1
  <2>2. \A t \in (Session \union {0}) \ {s} : Shown(t)' = Shown(t) \o <<>> BY <2>1 DEF Grows
  <2>3. \A t \in Session \union {0} : Shown(t) \in Text BY <1>0, ShownTyped
  <2> QED BY <2>2, <2>3, Empty
<1>3. ~Handler(s) => Shown(s)' = Shown(s)
  <2>1. ASSUME Shell(s) \/ Break(s) PROVE Shown(s)' = Shown(s)
    <3>1. page' = page /\ http' = http BY <2>1 DEF Shell, Greet, Answer, Break
    <3> QED BY <3>1 DEF Shown
  <2> QED BY <2>1
<1>4. \A t \in Session \ {s} : rs'[t] = rs[t] /\ percent'[t] = percent[t] /\ toConsole'[t] = toConsole[t]
                           /\ toShell'[t] = toShell[t] /\ shell'[t] = shell[t] /\ log'[t] = log[t]
  <2>1. CASE Resolved(s) BY <1>0, <2>1 DEF Resolved, TypeOK
  <2>2. CASE Refused(s) BY <1>0, <2>2 DEF Refused, TypeOK
  <2>3. CASE Connected(s) BY <1>0, <2>3 DEF Connected, TypeOK
  <2>4. CASE Read(s)
    <3>1. s \in Busy BY <2>4, Reading
    <3>2. PICK n, content, rest, h :
             /\ IsRead(s, n, content, rest, h)
             /\ IF HasPrompt(content, percent[s]) THEN SendNextCommand(s, h)
                ELSE http' = h /\ UNCHANGED <<rs, next, toShell>>
      BY <2>4, Reading, Zenon
    <3>3. ASSUME NEW t \in Session \ {s}
          PROVE  /\ percent'[t] = percent[t] /\ toConsole'[t] = toConsole[t]
                 /\ shell'[t] = shell[t] /\ log'[t] = log[t]
      BY <1>0, <3>2 DEF IsRead, TypeOK
    <3>4. ASSUME NEW t \in Session \ {s} PROVE rs'[t] = rs[t] /\ toShell'[t] = toShell[t]
      <4>1. CASE ~HasPrompt(content, percent[s]) BY <3>2, <4>1
      <4>2. CASE SendNextCommand(s, h) BY <1>0, <4>2 DEF SendNextCommand, TypeOK
      <4> QED BY <3>2, <4>1, <4>2
    <3> QED BY <3>3, <3>4
  <2>5. CASE ReadFailed(s) \/ WriteToShellFailed(s)
    BY <1>0, <2>5 DEF ReadFailed, WriteToShellFailed, Finish, TypeOK
  <2>6. CASE Written(s) BY <1>0, <2>6 DEF Written, TypeOK
  <2>7. CASE Greet(s) BY <1>0, <2>7 DEF Greet, TypeOK
  <2>8. CASE Answer(s) BY <1>0, <2>8 DEF Answer, TypeOK
  <2>9. CASE Break(s) BY <1>0, <2>9 DEF Break, TypeOK
  <2> QED BY <2>1, <2>2, <2>3, <2>4, <2>5, <2>6, <2>7, <2>8, <2>9 DEF Handler, Shell
<1> QED BY <1>0, <1>2, <1>3, <1>4 DEF SameFor

-----------------------------------------------------------------------------
(* The dialogue of a session, step by step. *)

(* What the browser has been sent is no longer in the queue, and the other way round. *)
LEMMA ServerShows ==
    ASSUME Counted, Wrote \/ WriteFailed \/ RequestFailed
    PROVE  /\ \A t \in Session \union {0} : Shown(t)' = Shown(t)
           /\ http'.phase = http.phase
<1>0. TypeOK /\ http \in Server /\ QueueOK(http) BY DEF Counted, TypeOK, Server
<1>1. CASE WriteFailed \/ RequestFailed
  <2>1. page' = page /\ http'.pending = http.pending /\ http'.phase = http.phase
    BY <1>0, <1>1 DEF WriteFailed, RequestFailed, Server
  <2> QED BY <2>1 DEF Shown
<1>2. CASE Wrote
  <2>1. PICK d : d = http' OBVIOUS
  <2>2. /\ http.writes # <<>> /\ http.pending # <<>> /\ http.socket = "open"
        /\ d = DoWrite([http EXCEPT !.writes = Tail(@), !.pending = Tail(@)])
        /\ page' = [page EXCEPT ![Head(http.writes).id] = @ \o Head(http.writes).text]
    BY <1>2, <2>1 DEF Wrote
  <2>3. d.pending = Tail(http.pending) /\ d.phase = http.phase /\ Head(http.writes) = Head(http.pending)
    BY <1>0, <2>2, WriteKeeps
  <2>4. PICK item : item = Head(http.pending) OBVIOUS
  <2>5. http.pending \in Seq(Items) /\ Tail(http.pending) \in Seq(Items) /\ item \in Items
    <3>1. http.pending \in Seq(Items) BY <1>0 DEF Server
    <3> QED BY <2>2, <2>4, <3>1
  <2>6. page' = [page EXCEPT ![item.id] = @ \o item.text] BY <2>2, <2>3, <2>4
  <2>7. ASSUME NEW t \in Session \union {0} PROVE Shown(t)' = Shown(t)
    <3>1. PICK part : part = PartOf(t, item) OBVIOUS
    <3>2. PICK left : left = Column(t, Tail(http.pending)) OBVIOUS
    <3>3. page[t] \in Text /\ part \in Text /\ left \in Text
      BY <1>0, <2>5, <3>1, <3>2, ShownTyped, Parts, ColumnTyped
    <3>4. Column(t, http.pending) = part \o left BY <2>2, <2>4, <2>5, <3>1, <3>2, ColumnTail
    <3>5. page'[t] = page[t] \o part
      <4>1. page \in [Session \union {0} -> Seq(Symbol)] BY <1>0 DEF TypeOK
      <4>2. page'[t] = IF item.id = t THEN page[t] \o item.text ELSE page[t] BY <2>6, <4>1
      <4> QED BY <3>1, <3>3, <4>2, Empty DEF PartOf
    <3>6. (page[t] \o part) \o left = page[t] \o (part \o left) BY <3>3, Regroup
    <3>7. Shown(t)' = (page[t] \o part) \o left BY <2>1, <2>3, <3>2, <3>5 DEF Shown
    <3> QED BY <3>4, <3>6, <3>7 DEF Shown
  <2> QED BY <2>1, <2>3, <2>7
<1> QED BY <1>1, <1>2

LEMMA ServerFlows == ASSUME Flowing, Wrote \/ WriteFailed \/ RequestFailed PROVE Flowing'
<1>1. Counted' BY WriteCounts DEF Flowing
<1>2. /\ \A t \in Session \union {0} : Shown(t)' = Shown(t)
      /\ http'.phase = http.phase
  BY ServerShows DEF Flowing
<1>3. UNCHANGED <<remotes, wires>> BY DEF Wrote, WriteFailed, RequestFailed
<1>4. HeadShown' BY <1>2 DEF HeadShown, Flowing
<1>5. \A t \in Session : SameFor(t) BY <1>2, <1>3 DEF SameFor, remotes, wires
<1> QED BY <1>1, <1>4, <1>5, SameFlows DEF Flowing

LEMMA NotNothing == ASSUME NEW a \in Text, NEW b \in Text, b # <<>> PROVE a \o b # <<>> /\ b \o a # <<>>
<1>1. Len(a) \in Nat /\ Len(b) \in Nat /\ Len(b) # 0 BY LenProperties, EmptySeq DEF Text
<1>2. Len(a \o b) = Len(a) + Len(b) /\ Len(b \o a) = Len(b) + Len(a) BY Joined
<1> QED BY <1>1, <1>2, Empty

(* Before the request nothing is shown; behind the head the columns have what is in the    *)
(* queue.                                                                                  *)
LEMMA DispatchFlows == ASSUME Flowing, DispatchPage \/ DispatchConsole PROVE Flowing'
<1> USE DEF remotes, wires
<1>0. /\ Counted /\ TypeOK /\ QueueOK(http) /\ http.phase = "request" /\ http.pending = <<>>
      /\ \A s \in Session : rs[s] = "unused"
  BY DEF Flowing, Counted, QueueOK, DispatchPage, DispatchConsole
<1>1. Counted' BY <1>0, DispatchCounts
<1>2. /\ page' = page /\ UNCHANGED <<percent, toConsole, toShell, shell>>
  BY DEF DispatchPage, DispatchConsole
<1>3. ASSUME NEW s \in Session
      PROVE  /\ page[s] = <<>> /\ toConsole[s] = <<>> /\ toShell[s] = <<>> /\ log[s] = <<>>
             /\ shell[s] = "none" /\ ~percent[s]
             /\ PartOf(s, Head0) = <<>>
  <2>1. Silent(s) BY <1>0 DEF Flowing, Flow
  <2>2. Shown(s) = page[s] \o <<>> BY <1>0, ColumnEmpty DEF Shown
  <2>3. page[s] \in Text BY <1>0, ShownTyped
  <2>4. page[s] = <<>> BY <2>1, <2>2, <2>3, Empty DEF Silent
  <2>5. s # 0 BY SessionsAssumption DEF Session
  <2> QED BY <2>1, <2>4, <2>5, Symbols DEF Silent, PartOf
<1>4. page[0] \in Text /\ PartOf(0, Head0) \in Text /\ PartOf(0, Head0) # <<>>
  BY <1>0, ShownTyped, Symbols, Parts DEF PartOf
<1>5. CASE DispatchPage
  <2>1. \A t : Column(t, http'.pending) = PartOf(t, Head0) BY <1>0, <1>5, PageAnswered
  <2>2. rs' = rs /\ log' = log BY <1>5 DEF DispatchPage
  <2>3. HeadShown'
    <3>1. Shown(0)' = page[0] \o PartOf(0, Head0) BY <1>2, <2>1 DEF Shown
    <3> QED BY <1>4, <3>1, NotNothing DEF HeadShown
  <2>4. ASSUME NEW s \in Session PROVE Flow(s)'
    <3>1. Shown(s)' = <<>> \o <<>> BY <1>2, <1>3, <2>1 DEF Shown
    <3>2. Silent(s)' BY <1>2, <1>3, <2>2, <3>1, Nothing DEF Silent
    <3>3. rs'[s] = "unused" BY <1>0, <2>2
    <3> QED BY <3>2, <3>3 DEF Flow
  <2> QED BY <1>1, <2>3, <2>4 DEF Flowing
<1>6. CASE DispatchConsole
  <2>1. PICK n \in 0 .. MaxSessions : \E missing \in SUBSET (1 .. n) :
              /\ Sound(http') /\ http'.active = Cardinality((1 .. n) \ missing)
              /\ \A t \in Session \union {0} :
                    Column(t, http'.pending) = PartOf(t, Head0) \o (IF t \in missing THEN Failure ELSE <<>>)
              /\ rs' = [s \in Session |-> IF s > n THEN "unused"
                                          ELSE IF s \in missing THEN "finished" ELSE "resolve"]
              /\ log' = [s \in Session |-> IF s \in missing THEN Failure ELSE <<>>]
    BY <1>0, <1>6, ConsoleAnswered, Zenon
  <2>2. PICK missing \in SUBSET (1 .. n) :
              /\ \A t \in Session \union {0} :
                    Column(t, http'.pending) = PartOf(t, Head0) \o (IF t \in missing THEN Failure ELSE <<>>)
              /\ rs' = [s \in Session |-> IF s > n THEN "unused"
                                          ELSE IF s \in missing THEN "finished" ELSE "resolve"]
              /\ log' = [s \in Session |-> IF s \in missing THEN Failure ELSE <<>>]
    BY <2>1
  <2>3. \A t \in missing : t \in Nat /\ 1 =< t /\ t =< n OBVIOUS
  <2>4. HeadShown'
    <3>1. 0 \notin missing BY <2>3
    <3>2. Column(0, http'.pending) = PartOf(0, Head0) \o <<>> BY <2>2, <3>1
    <3>3. Shown(0)' = page[0] \o PartOf(0, Head0) BY <1>2, <1>4, <3>2, Empty DEF Shown
    <3> QED BY <1>4, <3>3, NotNothing DEF HeadShown
  <2>5. ASSUME NEW s \in Session PROVE Flow(s)'
    <3>1. Column(s, http'.pending) = <<>> \o (IF s \in missing THEN Failure ELSE <<>>)
      BY <1>3, <2>2
    <3>2. Shown(s)' = IF s \in missing THEN Failure ELSE <<>>
      <4>1. \A u \in Text : <<>> \o u = u BY Empty
      <4>2. Shown(s)' = <<>> \o (<<>> \o (IF s \in missing THEN Failure ELSE <<>>))
        BY <1>2, <1>3, <3>1 DEF Shown
      <4> QED BY <4>1, <4>2, Symbols
    <3>3. CASE s \in missing
      <4>1. ~(s > n) BY <2>3, <3>3 DEF Session
      <4>2. rs'[s] = "finished" /\ log'[s] = Failure BY <2>2, <3>3, <4>1
      <4>3. Failure \o <<>> = Failure /\ Failure \in Text BY Symbols, Empty
      <4>4. IsPrefix(Failure, Failure)
        <5>1. IsPrefix(Failure, Failure \o <<>>) BY <4>3, Nothing, PrefixOfConcat DEF Text
        <5> QED BY <4>3, <5>1
      <4>5. Over(s)' BY <1>2, <1>3, <3>2, <3>3, <4>2, <4>3, <4>4 DEF Over
      <4> QED BY <4>2, <4>5 DEF Flow
    <3>4. CASE s \notin missing
      <4>1. rs'[s] \in {"unused", "resolve"} /\ log'[s] = <<>> BY <2>2, <3>4
      <4>2. Silent(s)' BY <1>2, <1>3, <3>2, <3>4, <4>1 DEF Silent
      <4> QED BY <4>1, <4>2 DEF Flow
    <3> QED BY <3>3, <3>4
  <2> QED BY <1>1, <2>4, <2>5 DEF Flowing
<1> QED BY <1>5, <1>6

(* Connecting, and failing to. *)
LEMMA ConnectFlows ==
    ASSUME Flowing, NEW s \in Session, Resolved(s) \/ Connected(s) \/ Written(s) \/ Refused(s)
    PROVE  Flow(s)'
<1> USE DEF remotes, wires
<1>0. Counted /\ TypeOK /\ Flow(s) BY DEF Flowing, Counted
<1>1. CASE Resolved(s)
  <2>1. Silent(s) /\ rs'[s] = "connect" BY <1>0, <1>1 DEF Resolved, Flow, TypeOK
  <2>2. Silent(s)' BY <1>1, <2>1 DEF Resolved, Silent, Shown
  <2> QED BY <2>1, <2>2 DEF Flow
<1>2. CASE Connected(s)
  <2>1. Silent(s) /\ rs'[s] = "read" /\ shell'[s] = "greets" BY <1>0, <1>2 DEF Connected, Flow, TypeOK
  <2>2. Shown(s)' = <<>> /\ toConsole'[s] = <<>> /\ toShell'[s] = <<>> /\ log'[s] = <<>> /\ ~percent'[s]
    BY <1>2, <2>1 DEF Connected, Silent, Shown
  <2>3. Kept(percent'[s]) = <<>> BY <2>2 DEF Kept
  <2>4. Talking(s)' BY <2>1, <2>2, <2>3, Nothing DEF Talking
  <2> QED BY <2>1, <2>4 DEF Flow
<1>3. CASE Written(s)
  <2>1. Talking(s) /\ rs'[s] = "read" BY <1>0, <1>3 DEF Written, Flow, TypeOK
  <2>2. Talking(s)' BY <1>3, <2>1 DEF Written, Talking, Shown
  <2> QED BY <2>1, <2>2 DEF Flow
<1>4. CASE Refused(s)
  <2>1. s \in Busy /\ page' = page /\ http' = RemoteDone(Enqueue(http, Item(s, Failure)))
    BY <1>4 DEF Refused, Busy
  <2>2. PICK h : h = Enqueue(http, Item(s, Failure)) OBVIOUS
  <2>3. Sound(http) /\ ~http.closing /\ http.active > 0 /\ Item(s, Failure) \in Items
    BY <1>0, <2>1, AtWork, FailureItem
  <2>4. Sound(h) /\ h.active = http.active /\ h.pending = Append(http.pending, Item(s, Failure))
    BY <2>2, <2>3, EnqueueKeeps
  <2>5. http'.pending = Append(http.pending, Item(s, Failure))
    <3>1. RemoteDone(h).pending = h.pending BY <2>3, <2>4, DoneKeeps
    <3> QED BY <2>1, <2>2, <2>4, <3>1
  <2>6. Grows(s, Failure) BY <1>0, <2>1, <2>5, Symbols, GrowsByOne
  <2>7. Silent(s) BY <1>0, <1>4 DEF Refused, Flow
  <2>8. Shown(s)' = Failure
    <3>1. Shown(s)' = <<>> \o Failure BY <2>6, <2>7 DEF Grows, Silent
    <3> QED BY <3>1, Symbols, Empty
  <2>9. /\ rs'[s] = "finished" /\ log'[s] = Failure /\ toShell'[s] = <<>> /\ shell'[s] = "none"
    BY <1>0, <1>4, <2>7 DEF Refused, Silent, TypeOK
  <2>10. Failure \o <<>> = Failure /\ Failure \in Text BY Symbols, Empty
  <2>11. IsPrefix(Failure, Failure)
    <3>1. IsPrefix(Failure, Failure \o <<>>) BY <2>10, Nothing, PrefixOfConcat DEF Text
    <3> QED BY <2>10, <3>1
  <2>12. Over(s)' BY <2>8, <2>9, <2>10, <2>11 DEF Over
  <2> QED BY <2>9, <2>12 DEF Flow
<1> QED BY <1>1, <1>2, <1>3, <1>4

LEMMA FailedFlows ==
    ASSUME Flowing, NEW s \in Session, ReadFailed(s) \/ WriteToShellFailed(s)
    PROVE  Flow(s)'
<1> USE DEF remotes, wires
<1>0. Counted /\ TypeOK /\ Flow(s) BY DEF Flowing, Counted
<1>1. /\ s \in Busy /\ Finish(s) /\ rs[s] \in {"read", "write"} /\ shell[s] \in {"exited", "broken"}
      /\ shell[s] = "exited" => toConsole[s] = <<>>
  BY DEF ReadFailed, WriteToShellFailed, Busy
<1>2. http'.pending = http.pending /\ page' = page
  <2>1. Sound(http) /\ http.active > 0 BY <1>0, <1>1, AtWork
  <2>2. http' = RemoteDone(http) /\ page' = page BY <1>1 DEF Finish
  <2> QED BY <2>1, <2>2, DoneKeeps
<1>3. Shown(s)' = Shown(s) BY <1>2 DEF Shown
<1>4. Talking(s) BY <1>0, <1>1 DEF Flow
<1>5. rs'[s] = "finished" /\ UNCHANGED wires BY <1>0, <1>1 DEF Finish, TypeOK
<1>6. Shown(s) \o <<>> = Shown(s) BY <1>0, ShownTyped, Empty
<1>7. Over(s)' BY <1>1, <1>3, <1>4, <1>5, <1>6 DEF Over, Talking
<1> QED BY <1>5, <1>7 DEF Flow

(* A read shows its text; with a prompt at the end, the next command, which is the one     *)
(* that is sent; the session ends when there is none.                                      *)
LEMMA ReadFlows ==
    ASSUME SendsWhole, Flowing, NEW s \in Session, Read(s)
    PROVE  Flow(s)'
<1>0. Counted /\ TypeOK /\ Flow(s) BY DEF Flowing, Counted
<1>1. s \in Busy /\ rs[s] = "read" BY <1>0, Reading
<1>2. PICK n, content, rest, h :
         /\ IsRead(s, n, content, rest, h)
         /\ IF HasPrompt(content, percent[s]) THEN SendNextCommand(s, h)
            ELSE http' = h /\ UNCHANGED <<rs, next, toShell>>
  BY <1>0, Reading, Zenon
<1>3. Talking(s) BY <1>0, <1>1 DEF Flow
<1>4. PICK said : said = log[s] \o toShell[s] OBVIOUS
<1>5. /\ toConsole[s] \in Text /\ toShell[s] \in Text /\ log[s] \in Text /\ said \in Text
      /\ content \in Text /\ rest \in Text /\ content \o rest = toConsole[s]
      /\ n \in 1 .. Len(toConsole[s]) /\ n \in Nat /\ Shown(s) \in Text /\ percent[s] \in BOOLEAN
  <2>1. toConsole[s] \in Text /\ toShell[s] \in Text /\ log[s] \in Text /\ percent[s] \in BOOLEAN
    BY <1>0, Values
  <2>2. content \in Text /\ rest \in Text /\ content \o rest = toConsole[s] /\ n \in 1 .. Len(toConsole[s])
    BY <1>2 DEF IsRead
  <2>3. said \in Text BY <1>4, <2>1, Joined
  <2>4. Shown(s) \in Text BY <1>0, ShownTyped
  <2> QED BY <2>1, <2>2, <2>3, <2>4
<1>6. /\ OnlyAtEnd(Kept(Last(content) = "%") \o rest)
      /\ HasPrompt(content, percent[s]) => rest = <<>> /\ content = toConsole[s] /\ Last(content) # "%"
  <2>1. OnlyAtEnd(Kept(percent[s]) \o toConsole[s]) BY <1>3 DEF Talking
  <2>2. /\ content = SubSeq(toConsole[s], 1, n)
        /\ rest = SubSeq(toConsole[s], n + 1, Len(toConsole[s]))
    BY <1>2 DEF IsRead
  <2>3. n \in 1 .. Len(toConsole[s]) /\ percent[s] \in BOOLEAN /\ toConsole[s] \in Text BY <1>5
  <2>4. ReadLeaves(percent[s], toConsole[s], SubSeq(toConsole[s], 1, n),
                   SubSeq(toConsole[s], n + 1, Len(toConsole[s])))
    BY <2>1, <2>3, ReadKeeps
  <2> QED BY <2>2, <2>4 DEF ReadLeaves
<1>7. toConsole[s] # <<>>
  <2>1. Len(toConsole[s]) # 0 BY <1>5
  <2> QED BY <2>1, EmptySeq
<1>8. /\ toShell[s] = <<>> /\ shell[s] \in {"waits", "exited", "broken"}
      /\ Shown(s) \o toConsole[s] = said
  BY <1>3, <1>4, <1>7 DEF Talking
<1>9. said = log[s] BY <1>4, <1>5, <1>8, Empty
<1>10. /\ toConsole'[s] = rest /\ percent'[s] = (Last(content) = "%") /\ shell' = shell /\ log' = log
  BY <1>0, <1>2 DEF IsRead, TypeOK
<1>11. (Shown(s) \o content) \o rest = said /\ Shown(s) \o content \in Text
  <2>1. (Shown(s) \o content) \o rest = Shown(s) \o (content \o rest) BY <1>5, Regroup
  <2>2. Shown(s) \o content \in Text BY <1>5, Joined
  <2> QED BY <1>5, <1>8, <2>1, <2>2
<1>12. IsPrefix(Shown(s) \o content, said)
  <2>1. IsPrefix(Shown(s) \o content, (Shown(s) \o content) \o rest)
    BY <1>5, <1>11, PrefixOfConcat DEF Text
  <2> QED BY <1>11, <2>1
<1>13. said \o <<>> = said BY <1>5, Empty
<1>14. CASE ~HasPrompt(content, percent[s])
  <2>1. http' = h /\ rs' = rs /\ toShell' = toShell BY <1>2, <1>14
  <2>2. Shown(s)' = Shown(s) \o content
    <3>1. Grows(s, content) BY <1>0, <1>1, <1>2, <1>5, <2>1, ReadGrows
    <3> QED BY <3>1 DEF Grows
  <2>3. OnlyAtEnd(Kept(percent'[s]) \o toConsole'[s]) BY <1>6, <1>10
  <2>4. log'[s] \o toShell'[s] = said BY <1>4, <1>10, <2>1
  <2>5. toShell'[s] = <<>> /\ shell'[s] \in {"waits", "exited", "broken"} BY <1>8, <1>10, <2>1
  <2>6. Shown(s)' \o toConsole'[s] = said /\ IsPrefix(Shown(s)', said)
    BY <1>10, <1>11, <1>12, <2>2
  <2>7. Talking(s)' BY <2>3, <2>4, <2>5, <2>6 DEF Talking
  <2> QED BY <1>1, <2>1, <2>7 DEF Flow
<1>15. CASE HasPrompt(content, percent[s]) /\ OutOfCommands(s)
  <2>1. SendNextCommand(s, h) BY <1>2, <1>15
  <2>2. rs'[s] = "finished" /\ toShell' = toShell
    BY <1>0, <1>15, <2>1 DEF SendNextCommand, TypeOK
  <2>3. Shown(s)' = Shown(s) \o content
    <3>1. http'.pending = h.pending BY <1>0, <1>1, <1>2, <1>5, <1>15, <2>1, ReadGrows
    <3>2. Grows(s, content) BY <1>0, <1>1, <1>2, <1>5, <3>1, ReadGrows
    <3> QED BY <3>2 DEF Grows
  <2>4. Shown(s)' = said
    <3>1. rest = <<>> BY <1>6, <1>15
    <3>2. (Shown(s) \o content) \o <<>> = Shown(s) \o content BY <1>11, Empty
    <3> QED BY <1>11, <2>3, <3>1, <3>2
  <2>5. IsPrefix(said, said)
    <3>1. IsPrefix(said, said \o <<>>) BY <1>5, Nothing, PrefixOfConcat DEF Text
    <3> QED BY <1>13, <3>1
  <2>6. log'[s] \o toShell'[s] = said BY <1>4, <1>10, <2>2
  <2>7. toShell'[s] = <<>> /\ shell'[s] \in {"waits", "exited", "broken"} BY <1>8, <1>10, <2>2
  <2>8. Over(s)' BY <2>4, <2>5, <2>6, <2>7 DEF Over
  <2> QED BY <2>2, <2>8 DEF Flow
<1>16. CASE HasPrompt(content, percent[s]) /\ ~OutOfCommands(s)
  <2>1. SendNextCommand(s, h) BY <1>2, <1>16
  <2>2. PICK command : command = Command(s, next[s]) OBVIOUS
  <2>3. /\ command \in Symbol /\ Grows(s, content \o <<command>>)
    BY <1>0, <1>1, <1>2, <1>5, <1>16, <2>1, <2>2, ReadGrows
  <2>4. rs'[s] = "write" /\ toShell'[s] = Append(toShell[s], command)
    <3>1. Sent(s, next[s]) = {command} BY <2>2 DEF Sent
    <3> QED BY <1>0, <1>16, <2>1, <3>1 DEF SendNextCommand, TypeOK
  <2>5. <<command>> \in Text /\ Len(<<command>>) = 1 /\ Append(<<>>, command) = <<command>>
    BY <2>3 DEF Text
  <2>6. toShell'[s] = <<command>> BY <1>8, <2>4, <2>5
  <2>7. rest = <<>> /\ content = toConsole[s] /\ Last(content) # "%" BY <1>6, <1>16
  <2>8. Shown(s)' = said \o <<command>>
    <3>1. Shown(s)' = Shown(s) \o (content \o <<command>>) BY <2>3 DEF Grows
    <3>2. (Shown(s) \o content) \o <<command>> = Shown(s) \o (content \o <<command>>)
      <4>1. PICK one : one = <<command>> OBVIOUS
      <4>2. Shown(s) \in Text /\ content \in Text /\ one \in Text BY <1>5, <2>5, <4>1
      <4>3. (Shown(s) \o content) \o one = Shown(s) \o (content \o one) BY <4>2, Regroup
      <4> QED BY <4>1, <4>3
    <3>3. Shown(s) \o content = said BY <1>8, <2>7
    <3> QED BY <3>1, <3>2, <3>3
  <2>9. PICK more : more = said \o <<command>> OBVIOUS
  <2>10. more \in Text /\ more \o <<>> = more BY <1>5, <2>5, <2>9, Joined, Empty
  <2>11. IsPrefix(more, more)
    <3>1. IsPrefix(more, more \o <<>>) BY <2>10, Nothing, PrefixOfConcat DEF Text
    <3> QED BY <2>10, <3>1
  <2>12. log'[s] \o toShell'[s] = more BY <1>9, <1>10, <2>6, <2>9
  <2>13. toConsole'[s] = <<>> /\ ~percent'[s] BY <1>10, <2>7
  <2>14. OnlyAtEnd(Kept(percent'[s]) \o toConsole'[s])
    <3>1. Kept(percent'[s]) = <<>> BY <2>13 DEF Kept
    <3> QED BY <2>13, <3>1, Nothing
  <2>15. shell'[s] \in {"waits", "exited", "broken"} BY <1>8, <1>10
  <2>16. Shown(s)' = more BY <2>8, <2>9
  <2>17. Talking(s)'
    BY <2>5, <2>6, <2>10, <2>11, <2>12, <2>13, <2>14, <2>15, <2>16 DEF Talking
  <2> QED BY <2>4, <2>17 DEF Flow
<1> QED BY <1>14, <1>15, <1>16

(* The shells: a greeting, an answer to the one command that is on its way, a connection   *)
(* that breaks.                                                                            *)
LEMMA FarFlows ==
    ASSUME OutputsArePlain, Flowing, NEW s \in Session, Shell(s) \/ Break(s)
    PROVE  Flow(s)'
<1> USE DEF remotes, wires
<1>0. Counted /\ TypeOK /\ Flow(s) BY DEF Flowing, Counted
<1>1. /\ toConsole[s] \in Text /\ toShell[s] \in Text /\ log[s] \in Text /\ Shown(s) \in Text
      /\ Prompt \in Text /\ rs[s] \in Waits
  BY <1>0, Values, ShownTyped, Symbols
<1>2. Shown(s)' = Shown(s) /\ rs' = rs /\ percent' = percent
  <2>1. page' = page /\ http' = http /\ rs' = rs /\ percent' = percent
    BY DEF Shell, Greet, Answer, Break
  <2> QED BY <2>1 DEF Shown
<1>3. CASE Greet(s)
  <2>1. /\ shell[s] = "greets" /\ shell'[s] = "waits" /\ toShell' = toShell
        /\ toConsole'[s] = toConsole[s] \o Prompt /\ log'[s] = log[s] \o Prompt
    BY <1>0, <1>3 DEF Greet, TypeOK
  <2>2. rs[s] \in {"read", "write"} /\ Talking(s)
    BY <1>0, <1>1, <2>1 DEF Flow, Silent, Over, Waits
  <2>3. /\ toConsole[s] = <<>> /\ toShell[s] = <<>> /\ log[s] = <<>> /\ ~percent[s]
        /\ Shown(s) \o toConsole[s] = log[s] \o toShell[s]
    BY <2>1, <2>2 DEF Talking
  <2>4. Shown(s) = <<>>
    <3>1. Shown(s) \o <<>> = <<>> BY <2>3, Nothing
    <3> QED BY <1>1, <3>1, Empty
  <2>5. toConsole'[s] = Prompt /\ log'[s] = Prompt /\ toShell'[s] = <<>>
    BY <1>1, <2>1, <2>3, Empty
  <2>6. <<>> \o Prompt = Prompt /\ Prompt \o <<>> = Prompt /\ IsPrefix(<<>>, Prompt)
    BY <1>1, Empty, NothingIsPrefix DEF Text
  <2>7. OnlyAtEnd(Kept(percent'[s]) \o toConsole'[s])
    <3>1. Kept(percent'[s]) = <<>> BY <1>2, <2>3 DEF Kept
    <3> QED BY <2>5, <2>6, <3>1, Nothing
  <2>8. Shown(s)' = <<>> BY <1>2, <2>4
  <2>9. Talking(s)' BY <2>1, <2>5, <2>6, <2>7, <2>8 DEF Talking
  <2> QED BY <1>2, <2>2, <2>9 DEF Flow
<1>4. CASE Answer(s)
  <2>1. shell[s] = "waits" /\ toShell[s] # <<>> BY <1>4 DEF Answer
  <2>2. rs[s] \in {"read", "write"} /\ Talking(s)
    BY <1>0, <1>1, <2>1 DEF Flow, Silent, Over, Waits
  <2>3. toConsole[s] = <<>> /\ ~percent[s] /\ Len(toShell[s]) = 1 BY <2>1, <2>2 DEF Talking
  <2>4. PICK command : command = Head(toShell[s]) OBVIOUS
  <2>5. toShell[s] = <<command>> /\ command \in Symbol /\ toShell'[s] = <<>>
    <3>1. toShell[s] \in Seq(Symbol) BY <1>1 DEF Text
    <3>2. command \in Symbol /\ Tail(toShell[s]) \in Seq(Symbol) /\ Len(Tail(toShell[s])) = 0
      BY <2>1, <2>3, <2>4, <3>1, HeadTailProperties
    <3>3. Tail(toShell[s]) = <<>> BY <3>2, EmptySeq
    <3>4. toShell[s] = <<command>> BY <2>3, <2>4, <3>1
    <3>5. toShell'[s] = Tail(toShell[s]) BY <1>0, <1>4 DEF Answer, TypeOK
    <3> QED BY <3>2, <3>3, <3>4, <3>5
  <2>6. PICK said : said = log[s] \o <<command>> OBVIOUS
  <2>7. <<command>> \in Text /\ said \in Text
    <3>1. <<command>> \in Text BY <2>5 DEF Text
    <3> QED BY <1>1, <2>6, <3>1, Joined
  <2>8. Shown(s) = said
    <3>1. Shown(s) \o <<>> = said BY <2>1, <2>2, <2>3, <2>5, <2>6 DEF Talking
    <3> QED BY <1>1, <3>1, Empty
  <2>9. PICK out \in Outputs, stays \in BOOLEAN :
           LET text == IF stays THEN out \o Prompt ELSE out
           IN  /\ shell' = [shell EXCEPT ![s] = IF stays THEN "waits" ELSE "exited"]
               /\ toConsole' = [toConsole EXCEPT ![s] = @ \o text]
               /\ log' = [log EXCEPT ![s] = @ \o <<Head(toShell[s])>> \o text]
    BY <1>4 DEF Answer
  <2>10. PICK text : text = IF stays THEN out \o Prompt ELSE out OBVIOUS
  <2>11. text \in Text /\ OnlyAtEnd(text)
    <3>1. out \in Text BY OutputsAssumption DEF Text
    <3>2. CASE stays BY <1>1, <2>10, <3>1, <3>2, Joined, PlainAnswer
    <3>3. CASE ~stays
      <4>1. OnlyAtEnd(out) BY DEF OnlyAtEnd, OutputsArePlain
      <4> QED BY <2>10, <3>1, <3>3, <4>1
    <3> QED BY <3>2, <3>3
  <2>12. /\ toConsole'[s] = <<>> \o text /\ log'[s] = said \o text
         /\ shell'[s] \in {"waits", "exited"}
    <3>1. toConsole'[s] = toConsole[s] \o text /\ shell'[s] \in {"waits", "exited"}
      BY <1>0, <2>9, <2>10 DEF TypeOK
    <3>2. log'[s] = (log[s] \o <<command>>) \o text BY <1>0, <2>4, <2>9, <2>10 DEF TypeOK
    <3> QED BY <2>3, <2>6, <3>1, <3>2
  <2>13. toConsole'[s] = text BY <2>11, <2>12, Empty
  <2>14. PICK all : all = said \o text OBVIOUS
  <2>15. /\ all \in Text /\ log'[s] \o toShell'[s] = all
    <3>1. all \in Text BY <2>7, <2>11, <2>14, Joined
    <3> QED BY <2>5, <2>12, <2>14, <3>1, Empty
  <2>16. IsPrefix(said, all) BY <2>7, <2>11, <2>14, PrefixOfConcat DEF Text
  <2>17. OnlyAtEnd(Kept(percent'[s]) \o toConsole'[s])
    <3>1. Kept(percent'[s]) = <<>> BY <1>2, <2>3 DEF Kept
    <3>2. <<>> \o text = text BY <2>11, Empty
    <3> QED BY <2>11, <2>13, <3>1, <3>2
  <2>18. Shown(s)' = said /\ Shown(s)' \o toConsole'[s] = all BY <1>2, <2>8, <2>13, <2>14
  <2>19. Talking(s)' BY <2>5, <2>12, <2>15, <2>16, <2>17, <2>18 DEF Talking
  <2> QED BY <1>2, <2>2, <2>19 DEF Flow
<1>5. CASE Break(s)
  <2>1. /\ shell[s] \in {"greets", "waits"} /\ shell'[s] = "broken" /\ rs[s] # "finished"
        /\ toConsole'[s] \in {toConsole[s], <<>>} /\ toShell' = toShell /\ log' = log
    <3>1. PICK left \in {toConsole[s], <<>>} : toConsole' = [toConsole EXCEPT ![s] = left]
      BY <1>5 DEF Break
    <3> QED BY <1>0, <1>5, <3>1 DEF Break, TypeOK
  <2>2. rs[s] \in {"read", "write"} /\ Talking(s)
    BY <1>0, <1>1, <2>1 DEF Flow, Silent, Waits
  <2>3. OnlyAtEnd(Kept(percent'[s]) \o toConsole'[s])
    <3>1. CASE toConsole'[s] = toConsole[s] BY <1>2, <2>2, <3>1, Zenon DEF Talking
    <3>2. CASE toConsole'[s] = <<>>
      <4>1. Kept(percent[s]) \in {<<>>, <<"%">>} BY DEF Kept
      <4>2. Kept(percent[s]) \o <<>> = Kept(percent[s]) BY <4>1, Symbols, Empty
      <4>3. OnlyAtEnd(Kept(percent[s])) BY <4>1, Nothing
      <4> QED BY <1>2, <3>2, <4>2, <4>3
    <3> QED BY <2>1, <3>1, <3>2
  <2>4. toShell[s] # <<>> => toConsole'[s] = <<>> BY <2>1, <2>2 DEF Talking
  <2>5. toConsole'[s] # <<>> => Shown(s) \o toConsole'[s] = log[s] \o toShell[s]
    BY <2>1, <2>2 DEF Talking
  <2>6. IsPrefix(Shown(s), log[s] \o toShell[s]) /\ (toShell[s] # <<>> => ~percent[s] /\ Len(toShell[s]) = 1)
    BY <2>2 DEF Talking
  <2>7. Talking(s)' BY <1>2, <2>1, <2>3, <2>4, <2>5, <2>6 DEF Talking
  <2> QED BY <1>2, <2>2, <2>7 DEF Flow
<1> QED BY <1>3, <1>4, <1>5 DEF Shell

LEMMA FlowStarts == Init => Flowing
<1> SUFFICES ASSUME Init PROVE Flowing OBVIOUS
<1>1. Counted BY CountedStarts
<1>2. HeadShown BY DEF Init, HeadShown
<1>3. ASSUME NEW s \in Session PROVE Flow(s)
  <2>1. page[s] = <<>> /\ http.pending = <<>> BY DEF Init
  <2>2. Shown(s) = <<>> BY <2>1, ColumnEmpty, Nothing DEF Shown
  <2>3. rs[s] = "unused" /\ Silent(s) BY <2>2 DEF Init, Silent
  <2> QED BY <2>3 DEF Flow
<1> QED BY <1>1, <1>2, <1>3 DEF Flowing

LEMMA StepFlows == ASSUME OutputsArePlain, SendsWhole PROVE Flowing /\ [Next]_vars => Flowing'
<1> SUFFICES ASSUME Flowing, [Next]_vars PROVE Flowing' OBVIOUS
<1>0. Counted /\ TypeOK BY DEF Flowing, Counted
<1>1. CASE UNCHANGED vars
  <2>1. Counted' BY <1>0, <1>1, StepCounts
  <2>2. UNCHANGED <<http, page, remotes, wires>> BY <1>1 DEF vars
  <2>3. \A t \in Session \union {0} : Shown(t)' = Shown(t) BY <2>2 DEF Shown
  <2>4. \A t \in Session : SameFor(t) BY <2>2, <2>3 DEF SameFor, remotes, wires
  <2>5. HeadShown' BY <2>2, <2>3 DEF HeadShown, Flowing
  <2> QED BY <2>1, <2>4, <2>5, SameFlows DEF Flowing
<1>2. CASE RequestFailed \/ Wrote \/ WriteFailed BY <1>2, ServerFlows
<1>3. CASE DispatchPage \/ DispatchConsole BY <1>3, DispatchFlows
<1>4. ASSUME NEW s \in Session, Handler(s) \/ Shell(s) \/ Break(s) PROVE Flowing'
  <2>1. Counted' BY <1>0, <1>4, HandlerCounts, FarCounts
  <2>2. /\ \A t \in Session \ {s} : SameFor(t)
        /\ Shown(0)' = Shown(0)
    BY <1>0, <1>4, Apart
  <2>3. Flow(s)'
    BY <1>4, ConnectFlows, FailedFlows, ReadFlows, FarFlows DEF Handler
  <2>4. ASSUME NEW t \in Session PROVE Flow(t)'
    <3>1. CASE t = s BY <2>3, <3>1
    <3>2. CASE t # s
      <4>1. SameFor(t) /\ Flow(t) BY <2>2, <3>2 DEF Flowing
      <4> QED BY <4>1, SameFlows
    <3> QED BY <3>1, <3>2
  <2>5. HeadShown'
    <3>1. http.phase = "reply" \/ http' = http
      <4>1. CASE Handler(s)
        <5>1. s \in Busy
          BY <4>1 DEF Handler, Resolved, Refused, Connected, Read, ReadFailed, Written,
                      WriteToShellFailed, Busy
        <5> QED BY <1>0, <5>1, AtWork DEF Sound
      <4>2. CASE Shell(s) \/ Break(s) BY <4>2 DEF Shell, Greet, Answer, Break
      <4> QED BY <1>4, <4>1, <4>2
    <3>2. http'.phase = "reply" => http.phase = "reply" BY <3>1
    <3> QED BY <2>2, <3>2 DEF HeadShown, Flowing
  <2> QED BY <2>1, <2>4, <2>5 DEF Flowing
<1> QED BY <1>1, <1>2, <1>3, <1>4 DEF Next

(* What the invariant is for. *)
LEMMA FlowSuffices == Flowing => PageFaithful
<1> SUFFICES ASSUME Flowing PROVE PageFaithful OBVIOUS
<1>0. Counted /\ TypeOK /\ QueueOK(http) BY DEF Flowing, Counted
<1>1. PageInOrder
  <2> SUFFICES ASSUME NEW s \in Session PROVE IsPrefix(Shown(s), log[s] \o toShell[s])
    BY DEF PageInOrder
  <2>1. Flow(s) /\ rs[s] \in Waits BY <1>0, Values DEF Flowing
  <2>2. CASE rs[s] \in {"unused", "resolve", "connect"}
    <3>1. Shown(s) = <<>> BY <2>1, <2>2 DEF Flow, Silent
    <3>2. log[s] \o toShell[s] \in Text BY <1>0, Values, Joined
    <3> QED BY <3>1, <3>2, NothingIsPrefix DEF Text
  <2>3. CASE rs[s] \in {"read", "write"} BY <2>1, <2>3 DEF Flow, Talking
  <2>4. CASE rs[s] = "finished" BY <2>1, <2>4 DEF Flow, Over
  <2> QED BY <2>1, <2>2, <2>3, <2>4 DEF Waits
<1>2. ClosedWhenComplete
  <2> SUFFICES ASSUME http.socket = "closed"
               PROVE  /\ http.pending = <<>> /\ page[0] # <<>>
                      /\ \A s \in Session : Complete(s)
    BY DEF ClosedWhenComplete
  <2>1. http.pending = <<>> /\ http.active = 0 /\ http.phase = "reply" BY <1>0 DEF QueueOK
  <2>2. \A t \in Session \union {0} : Shown(t) = page[t]
    <3>1. \A t \in Session \union {0} : page[t] \o <<>> = page[t] BY <1>0, ShownTyped, Empty
    <3> QED BY <2>1, <3>1, ColumnEmpty DEF Shown
  <2>3. page[0] # <<>> BY <2>1, <2>2 DEF HeadShown, Flowing
  <2>4. Busy = {}
    <3>1. Cardinality(Busy) = 0 BY <1>0, <2>1 DEF Counted
    <3> QED BY <3>1, BusyFinite, FS_EmptySet
  <2>5. ASSUME NEW s \in Session PROVE Complete(s)
    <3>1. Flow(s) /\ rs[s] \in {"unused", "finished"} BY <2>4 DEF Busy, Flowing
    <3>2. CASE rs[s] = "unused"
      <4>1. page[s] = <<>> /\ log[s] = <<>> /\ toShell[s] = <<>> BY <2>2, <3>1, <3>2 DEF Flow, Silent
      <4> QED BY <3>2, <4>1, Nothing DEF Complete
    <3>3. CASE rs[s] = "finished" BY <2>2, <3>1, <3>3 DEF Flow, Over, Complete
    <3> QED BY <3>1, <3>2, <3>3
  <2> QED BY <2>1, <2>3, <2>5
<1> QED BY <1>1, <1>2 DEF PageFaithful

(* When no shell prints a prompt within an output and the socket takes a command at once,  *)
(* for any number of sessions and any scripts: every column shows the dialogue as it took  *)
(* place at its shell, in order and intact, however reads are split, sessions interleave   *)
(* and connections break; and a response that is closed is complete, with the head of the  *)
(* page and the whole dialogue of every session whose connection held, although sessions   *)
(* end within the loop that starts them.                                                   *)
THEOREM PagesAreFaithful ==
    ASSUME OutputsArePlain, SendsWhole
    PROVE  Spec => []PageFaithful
<1>1. Init => Flowing BY FlowStarts
<1>2. Flowing /\ [Next]_vars => Flowing' BY StepFlows
<1>3. Flowing => PageFaithful BY FlowSuffices
<1> QED BY <1>1, <1>2, <1>3, PTL DEF Spec

=============================================================================
