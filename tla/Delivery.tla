------------------------------ MODULE Delivery ------------------------------
(***************************************************************************)
(* What the reliable messages promise, without identifiers, clocks or a    *)
(* network: a message posted to some clients stays outstanding for each of *)
(* them until that client has handled it, or it was written one time more  *)
(* than MaxSend, or the client is dropped.                                 *)
(***************************************************************************)
EXTENDS Integers

CONSTANTS Client, MaxSend, MaxMsg

VARIABLES
    posted,         \* number of messages posted so far
    outstanding,    \* client -> [msg, tries] it still owes an answer for
    handled         \* client -> messages it has handled

vars == <<posted, outstanding, handled>>

Init ==
    /\ posted = 0
    /\ outstanding = [c \in Client |-> {}]
    /\ handled = [c \in Client |-> {}]

Post(to) ==
    /\ posted < MaxMsg
    /\ posted' = posted + 1
    /\ outstanding' = [c \in Client |->
         IF c \in to THEN outstanding[c] \cup {[msg |-> posted + 1, tries |-> 0]}
         ELSE outstanding[c]]
    /\ UNCHANGED handled

\* Write some of the outstanding messages, forgetting the worn out ones.
Write(c, some) ==
    /\ some \subseteq outstanding[c]
    /\ outstanding' = [outstanding EXCEPT ![c] =
         (@ \ some) \cup {[o EXCEPT !.tries = @ + 1] : o \in {p \in some : p.tries < MaxSend}}]
    /\ UNCHANGED <<posted, handled>>

Confirm(c, o) ==
    /\ o \in outstanding[c]
    /\ o.msg \in handled[c]
    /\ outstanding' = [outstanding EXCEPT ![c] = @ \ {o}]
    /\ UNCHANGED <<posted, handled>>

Handle(c, m) ==
    /\ handled' = [handled EXCEPT ![c] = @ \cup {m}]
    /\ UNCHANGED <<posted, outstanding>>

Drop(c) ==
    /\ outstanding' = [outstanding EXCEPT ![c] = {}]
    /\ UNCHANGED <<posted, handled>>

\* A new process at the address of a dropped client knows nothing.
Restart(c) ==
    /\ outstanding[c] = {}
    /\ handled' = [handled EXCEPT ![c] = {}]
    /\ UNCHANGED <<posted, outstanding>>

Next ==
    \/ \E to \in SUBSET Client : Post(to)
    \/ \E c \in Client :
         \/ \E some \in SUBSET outstanding[c] : Write(c, some)
         \/ \E o \in outstanding[c] : Confirm(c, o)
         \/ \E m \in 1 .. posted : Handle(c, m)
         \/ Drop(c)
         \/ Restart(c)

Spec == Init /\ [][Next]_vars
=============================================================================
