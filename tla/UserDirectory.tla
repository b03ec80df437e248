--------------------------- MODULE UserDirectory ---------------------------
(***************************************************************************)
(* What both RWG servers promise about their users: a table of at most     *)
(* MaxUsers users, in which a user gets the smallest free number, nobody   *)
(* has two numbers or a number twice, and no two users carry the same      *)
(* nickname unless it is the default one.                                  *)
(***************************************************************************)
EXTENDS Integers

CONSTANTS User, Nobody, MaxUsers, Name, DefaultName

VARIABLES
    user,   \* who has a number, Nobody when it is free
    nick    \* the nickname of that user, DefaultName when it is free

Slot == 1 .. MaxUsers
Free(s) == user[s] = Nobody

Init ==
    /\ user = [s \in Slot |-> Nobody]
    /\ nick = [s \in Slot |-> DefaultName]

\* u logs in with the smallest free number and the default nickname.
Login(u, s) ==
    /\ \A t \in Slot : user[t] # u
    /\ Free(s) /\ \A t \in 1 .. s - 1 : ~Free(t)
    /\ user' = [user EXCEPT ![s] = u]
    /\ UNCHANGED nick

Logout(s) ==
    /\ ~Free(s)
    /\ user' = [user EXCEPT ![s] = Nobody]
    /\ nick' = [nick EXCEPT ![s] = DefaultName]

\* A user takes a nickname that nobody has.
Rename(s, n) ==
    /\ ~Free(s)
    /\ \A t \in Slot : ~Free(t) => nick[t] # n
    /\ nick' = [nick EXCEPT ![s] = n]
    /\ UNCHANGED user

Next ==
    \E s \in Slot :
        \/ \E u \in User : Login(u, s)
        \/ Logout(s)
        \/ \E n \in Name \ {DefaultName} : Rename(s, n)

Spec == Init /\ [][Next]_<<user, nick>>
=============================================================================
