----------------------------- MODULE UserPipes -----------------------------
(***************************************************************************)
(* What both RWG servers promise about user pipes: between two users there *)
(* is at most one pipe in each direction, `>N` makes it, `<N` uses it up,  *)
(* and the pipes of a user disappear with the user.                        *)
(***************************************************************************)
CONSTANT Slot

VARIABLES
    users,  \* the numbers in use
    pipes   \* <<sender, receiver>> pairs with a pipe that nobody has read

TypeOK == users \subseteq Slot /\ pipes \subseteq users \X users

Init == users = {} /\ pipes = {}

Join(u) ==
    /\ u \notin users
    /\ users' = users \union {u}
    /\ UNCHANGED pipes

Leave(u) ==
    /\ u \in users
    /\ users' = users \ {u}
    /\ pipes' = {p \in pipes : u # p[1] /\ u # p[2]}

Send(s, r) ==
    /\ s \in users /\ r \in users
    /\ <<s, r>> \notin pipes
    /\ pipes' = pipes \union {<<s, r>>}
    /\ UNCHANGED users

Receive(s, r) ==
    /\ <<s, r>> \in pipes
    /\ pipes' = pipes \ {<<s, r>>}
    /\ UNCHANGED users

Next ==
    \/ \E u \in Slot : Join(u) \/ Leave(u)
    \/ \E s, r \in Slot : Send(s, r) \/ Receive(s, r)

Spec == Init /\ [][Next]_<<users, pipes>>
=============================================================================
