----------------------------- MODULE CheckFront -----------------------------
(***************************************************************************)
(* Reliable messages of the game server over UDP (base/checkFront.c and    *)
(* the parts of base/serverSendMsg.c and base/proto.c that feed it).       *)
(*                                                                         *)
(* Every client the server lists has a queue of messages.  A SIMPLE        *)
(* message is written once.  A CHECK message carries an identifier of the  *)
(* shared registry, counted once per queue that holds the message; it is   *)
(* written again every Interval until the client answers "check <id>" or   *)
(* it has been written more than MaxSend times.  Datagrams may be lost,    *)
(* repeated and reordered.                                                 *)
(*                                                                         *)
(* A message is a number: messages are numbered in the order they are      *)
(* made, so the order of a queue is the order of its messages.             *)
(***************************************************************************)
EXTENDS IdManager

CONSTANTS
    Client,         \* addresses the server hears from
    NoId,           \* CHECK_FRONT_ID_NONE
    MaxSend,        \* CHECK_FRONT_MAX_COUNT_SEND
    Interval,       \* CHECK_FRONT_SEND_TIME_INTERVAL, in clock ticks
    MaxMsg,         \* bound: messages made in a behaviour
    MaxObject,      \* bound: objects alive at once
    ReuseInFlight   \* may an id be drawn while old datagrams still carry it

ASSUME CheckFrontAssumption ==
    /\ NoId \notin Id
    /\ MaxSend \in Nat /\ Interval \in Nat /\ MaxMsg \in Nat /\ MaxObject \in Nat
    /\ ReuseInFlight \in BOOLEAN
    /\ IsFiniteSet(Client)

VARIABLES
    listID,         \* the registry
    object,         \* ids held by objects of the arena (tux, shot, item)
    listSendMsg,    \* client -> queue of outgoing messages
    status,         \* client -> "none" (not listed), "ok" or "zombie"
    made,           \* number of messages made so far
    down,           \* client -> datagrams on their way to it
    up,             \* client -> ids of "check" answers on their way back
    handled         \* client -> messages its handlers have run for

vars == <<listID, object, listSendMsg, status, made, down, up, handled>>

Msg == 1 .. MaxMsg
MaxAge == Interval + 1      \* ages saturate just above the interval

Entry == [msg : Msg, id : Id \cup {NoId}, sends : 0 .. MaxSend, age : 0 .. MaxAge]
Datagram == [msg : Msg, id : Id \cup {NoId}]

TypeOK ==
    /\ listID \in [Id -> Int]
    /\ object \in SUBSET Id
    /\ listSendMsg \in [Client -> SUBSET Entry]
    /\ status \in [Client -> {"none", "ok", "zombie"}]
    /\ made \in 0 .. MaxMsg
    /\ down \in [Client -> SUBSET Datagram]
    /\ up \in [Client -> SUBSET Id]
    /\ handled \in [Client -> SUBSET Msg]

-----------------------------------------------------------------------------
Listed == {c \in Client : status[c] # "none"}
IsCheck(e) == e.id # NoId
Carries(c, i) == \E e \in listSendMsg[c] : e.id = i
Holders(i) == {c \in Client : Carries(c, i)}

InFlight == UNION {up[c] \cup {d.id : d \in down[c]} : c \in Client}

NewIds == FreeIds(listID) \ (IF ReuseInFlight THEN {} ELSE InFlight)

\* newCheck: a message that has never been written.
NewCheck(m, i) == [msg |-> m, id |-> i, sends |-> 0, age |-> 0]

\* addMsgClient: zombies get no more messages.
Receivers(targets) == {c \in targets : status[c] = "ok"}

AddMsg(targets, e) ==
    listSendMsg' = [c \in Client |->
        IF c \in Receivers(targets) THEN listSendMsg[c] \cup {e} ELSE listSendMsg[c]]

\* The targets of send_msg_to_client: one client, or the clients that have a
\* tux, or all of those but one, or those whose tux sees another.
Targets == SUBSET Listed

(***************************************************************************)
(* One call of check_front_event on a queue, entry by entry.               *)
(***************************************************************************)
Due(e) == e.sends = 0 \/ e.age > Interval
Written(q) == {e \in q : ~IsCheck(e) \/ Due(e)}

\* Mutant: the limit on the number of writes is one too small.
GivenUpEarly(q) == {e \in q : IsCheck(e) /\ Due(e) /\ e.sends + 1 >= MaxSend}

GivenUp(q) == {e \in q : IsCheck(e) /\ Due(e) /\ e.sends + 1 > MaxSend}

\* Mutant: a write is not counted.
AfterEventUncounted(q) ==
    {IF Due(e) /\ e.sends > 0 THEN [e EXCEPT !.age = 0] ELSE e :
        e \in {f \in q \ GivenUp(q) : IsCheck(f)}}

AfterEvent(q) ==
    {IF Due(e) THEN [e EXCEPT !.sends = @ + 1, !.age = 0] ELSE e :
        e \in {f \in q \ GivenUp(q) : IsCheck(f)}}

\* id_del for each entry the event gave up.
ReleaseGivenUp(q) ==
    [i \in Id |-> CountAfterDel(listID[i], Cardinality({e \in GivenUp(q) : e.id = i}))]

ToDatagram(e) == [msg |-> e.msg, id |-> e.id]
-----------------------------------------------------------------------------
Init ==
    /\ listID = NoIds
    /\ object = {}
    /\ listSendMsg = [c \in Client |-> {}]
    /\ status = [c \in Client |-> "none"]
    /\ made = 0
    /\ down = [c \in Client |-> {}]
    /\ up = [c \in Client |-> {}]
    /\ handled = [c \in Client |-> {}]

\* server_new_any_client for a new player process at this address.
Connect(c) ==
    /\ status[c] = "none"
    /\ status' = [status EXCEPT ![c] = "ok"]
    /\ listSendMsg' = [listSendMsg EXCEPT ![c] = {}]
    /\ handled' = [handled EXCEPT ![c] = {}]
    /\ UNCHANGED <<listID, object, made, down, up>>

\* An object of the arena takes an id for its lifetime and gives it back.
CreateObject ==
    /\ Cardinality(object) < MaxObject
    /\ \E i \in NewIds :
         /\ listID' = IdGetNew(listID, i)
         /\ object' = object \cup {i}
    /\ UNCHANGED <<listSendMsg, status, made, down, up, handled>>

DestroyObject(i) ==
    /\ i \in object
    /\ listID' = IdDel(listID, i)
    /\ object' = object \ {i}
    /\ UNCHANGED <<listSendMsg, status, made, down, up, handled>>

\* init, del, additem: a fresh id with count 0, incremented per receiver.
SendCheck ==
    /\ made < MaxMsg
    /\ made' = made + 1
    /\ \E targets \in Targets, i \in NewIds :
         /\ listID' = IdGetNewCount(listID, i, Cardinality(Receivers(targets)))
         /\ AddMsg(targets, NewCheck(made + 1, i))
    /\ UNCHANGED <<object, status, down, up, handled>>

\* newtux, event, kill, shot, chat, ping, end, error.
SendSimple ==
    /\ made < MaxMsg
    /\ made' = made + 1
    /\ \E targets \in Targets : AddMsg(targets, NewCheck(made + 1, NoId))
    /\ UNCHANGED <<listID, object, status, down, up, handled>>

(***************************************************************************)
(* check_front_event as porcesListClients calls it.  server_send_client    *)
(* skips a zombie; when a write fails the client becomes one, so only the  *)
(* entries before the failure leave the server.                            *)
(***************************************************************************)
CheckFrontEvent(c) ==
    /\ c \in Listed
    /\ LET q == listSendMsg[c] IN
         /\ listSendMsg' = [listSendMsg EXCEPT ![c] = AfterEvent(q)]
         /\ listID' = ReleaseGivenUp(q)
         /\ \/ /\ status[c] = "ok"
               /\ down' = [down EXCEPT ![c] = @ \cup {ToDatagram(e) : e \in Written(q)}]
               /\ UNCHANGED status
            \/ /\ status[c] = "ok"
               /\ \E failed \in Written(q) :
                    down' = [down EXCEPT ![c] = @ \cup
                        {ToDatagram(e) : e \in {f \in Written(q) : f.msg < failed.msg}}]
               /\ status' = [status EXCEPT ![c] = "zombie"]
            \/ /\ status[c] = "zombie"
               /\ UNCHANGED <<down, status>>
    /\ UNCHANGED <<object, made, up, handled>>

\* Mutant: an answer removes the head of the queue, whatever it names.
RecvCheckHead(c, i) ==
    /\ c \in Listed
    /\ i \in up[c]
    /\ \/ /\ ~Carries(c, i)
          /\ UNCHANGED <<listID, listSendMsg>>
       \/ \E e \in listSendMsg[c] :
            /\ Carries(c, i)
            /\ \A f \in listSendMsg[c] : e.msg <= f.msg
            /\ listSendMsg' = [listSendMsg EXCEPT ![c] = @ \ {e}]
            /\ listID' = IdDel(listID, i)
    /\ UNCHANGED <<object, status, made, down, up, handled>>

\* check_front_del_msg: the first entry of the queue with this id.
RecvCheck(c, i) ==
    /\ c \in Listed
    /\ i \in up[c]
    /\ \/ /\ ~Carries(c, i)
          /\ UNCHANGED <<listID, listSendMsg>>
       \/ \E e \in listSendMsg[c] :
            /\ e.id = i
            /\ \A f \in listSendMsg[c] : f.id = i => e.msg <= f.msg
            /\ listSendMsg' = [listSendMsg EXCEPT ![c] = @ \ {e}]
            /\ listID' = IdDel(listID, i)
    /\ UNCHANGED <<object, status, made, down, up, handled>>

\* "end" from the client, silence for too long, or a failed read.
BecomeZombie(c) ==
    /\ status[c] = "ok"
    /\ status' = [status EXCEPT ![c] = "zombie"]
    /\ UNCHANGED <<listID, object, listSendMsg, made, down, up, handled>>

(***************************************************************************)
(* server_udp_destroy_client: one last check_front_event (a zombie writes  *)
(* nothing), then check_front_destroy frees the entries without giving     *)
(* their ids back.                                                         *)
(***************************************************************************)
DestroyClient(c) ==
    /\ status[c] = "zombie"
    /\ listID' = ReleaseGivenUp(listSendMsg[c])
    /\ listSendMsg' = [listSendMsg EXCEPT ![c] = {}]
    /\ status' = [status EXCEPT ![c] = "none"]
    /\ UNCHANGED <<object, made, down, up, handled>>

\* A tick of the clock.
Older(e) == [e EXCEPT !.age = IF @ < MaxAge THEN @ + 1 ELSE @]

Tick ==
    /\ listSendMsg' = [c \in Client |-> {Older(e) : e \in listSendMsg[c]}]
    /\ UNCHANGED <<listID, object, status, made, down, up, handled>>

(***************************************************************************)
(* The client and the network.  The client's handlers for init, del and    *)
(* additem answer "check" every time, also for a message they have seen.   *)
(***************************************************************************)
ClientHandle(c, d) ==
    /\ d \in down[c]
    /\ handled' = [handled EXCEPT ![c] = @ \cup {d.msg}]
    /\ up' = IF d.id = NoId THEN up ELSE [up EXCEPT ![c] = @ \cup {d.id}]
    /\ UNCHANGED <<listID, object, listSendMsg, status, made, down>>

LoseDown(c, d) ==
    /\ d \in down[c]
    /\ down' = [down EXCEPT ![c] = @ \ {d}]
    /\ UNCHANGED <<listID, object, listSendMsg, status, made, up, handled>>

LoseUp(c, i) ==
    /\ i \in up[c]
    /\ up' = [up EXCEPT ![c] = @ \ {i}]
    /\ UNCHANGED <<listID, object, listSendMsg, status, made, down, handled>>

Next ==
    \/ \E c \in Client :
         \/ Connect(c)
         \/ CheckFrontEvent(c)
         \/ BecomeZombie(c)
         \/ DestroyClient(c)
         \/ \E i \in up[c] : RecvCheck(c, i) \/ LoseUp(c, i)
         \/ \E d \in down[c] : ClientHandle(c, d) \/ LoseDown(c, d)
    \/ CreateObject
    \/ \E i \in object : DestroyObject(i)
    \/ SendCheck
    \/ SendSimple
    \/ Tick

Spec == Init /\ [][Next]_vars

\* The event loop visits every listed client again and again, and time passes.
Fairness == WF_vars(Tick) /\ \A c \in Client : WF_vars(CheckFrontEvent(c))

FairSpec == Spec /\ Fairness

-----------------------------------------------------------------------------
(***************************************************************************)
(* What the registry and the queues promise each other.                    *)
(***************************************************************************)

\* A queue never holds two entries with the same id: an answer "check <id>"
\* names one message (check_front_del_msg stops at the first match).
OneEntryPerId ==
    \A c \in Client : \A e, f \in listSendMsg[c] :
        IsCheck(e) /\ e.id = f.id => e = f

\* An id is never released while a queue or an object still holds it, so the
\* assertions of id_inc and id_del cannot fail and no id means two things:
\* every holder is counted, and an object's id is nobody's message id.
HeldIdsCounted ==
    \A i \in Id :
        /\ Holders(i) # {} => listID[i] >= Cardinality(Holders(i))
        /\ i \in object => listID[i] >= 1 /\ Holders(i) = {}

\* A CHECK message leaves a queue only when the client has handled it, when it
\* was written MaxSend + 1 times, or with the whole queue of a dead client.  An
\* answer therefore never cancels a message its client has not seen.
LeavesForAReason ==
    [][\A c \in Client : \A e \in listSendMsg[c] :
        IsCheck(e) /\ ~(\E f \in listSendMsg'[c] : f.msg = e.msg) =>
            \/ e.msg \in handled[c]
            \/ e.sends = MaxSend
            \/ status'[c] = "none"]_vars

(***************************************************************************)
(* The queues seen as the outstanding messages of Delivery.                *)
(***************************************************************************)
Outstanding ==
    [c \in Client |->
        {[msg |-> e.msg, tries |-> e.sends] : e \in {f \in listSendMsg[c] : IsCheck(f)}}]

Promise == INSTANCE Delivery WITH posted <- made, outstanding <- Outstanding

\* The queues, the ids and the acknowledgements together keep the promise of
\* Delivery: every step of CheckFront is a step of it or changes nothing there.
KeepsPromise == Promise!Spec

\* No message stays in a queue for ever, whatever the network does: the client
\* answers, the server gives up, or the client is destroyed.
EveryEntryResolved ==
    \A c \in Client, m \in Msg :
        (\E e \in listSendMsg[c] : e.msg = m)
            ~> ~(\E e \in listSendMsg[c] : e.msg = m)

\* With no object and no queued message every id is free again, so findNewID
\* never aborts with "There is no free ID left" on an idle server.
IdleServerHasFreeId ==
    (object = {} /\ \A c \in Client : listSendMsg[c] = {}) => CanAllocate(listID)
=============================================================================
