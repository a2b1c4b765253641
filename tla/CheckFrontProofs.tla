-------------------------- MODULE CheckFrontProofs --------------------------
(***************************************************************************)
(* Proofs about the reliable messages, for every number of clients, ids,   *)
(* messages and resends.                                                   *)
(***************************************************************************)
EXTENDS CheckFront, FiniteSetTheorems, TLAPS

(***************************************************************************)
(* Part 1.  Ids are counted.  The inductive invariant needs all three      *)
(* conjuncts: that a queue holds an id once is what makes one id_del per   *)
(* given up entry lower the count and the number of holders together, and  *)
(* that counts are at least the holders is what makes an id drawn as free  *)
(* an id nobody holds.                                                     *)
(***************************************************************************)
IdInv == TypeOK /\ OneEntryPerId /\ HeldIdsCounted

\* The queues and objects that hold an id are finitely many.
LEMMA HoldersFinite ==
    ASSUME NEW i
    PROVE  /\ IsFiniteSet(Holders(i))
           /\ Cardinality(Holders(i)) \in Nat
    BY CheckFrontAssumption, FS_Subset, FS_CardinalityType DEF Holders

\* The fields of an entry have the types of an entry.
LEMMA EntryFields ==
    ASSUME NEW e \in Entry
    PROVE  /\ e.msg \in Msg /\ e.id \in Id \cup {NoId}
           /\ e.sends \in 0 .. MaxSend /\ e.age \in 0 .. MaxAge
           /\ e = [msg |-> e.msg, id |-> e.id, sends |-> e.sends, age |-> e.age]
    BY DEF Entry

\* Dropping one reference keeps the count above the holders that remain.
LEMMA DropReference ==
    ASSUME NEW count \in Int, NEW H, IsFiniteSet(H), NEW c \in H,
           count >= Cardinality(H)
    PROVE  /\ CountAfterDel(count, 1) \in Int
           /\ H \ {c} # {} => CountAfterDel(count, 1) >= Cardinality(H \ {c})
    <1>1. /\ Cardinality(H) \in Nat
          /\ IsFiniteSet(H \ {c})
          /\ Cardinality(H \ {c}) = Cardinality(H) - 1
          /\ Cardinality(H \ {c}) \in Nat
        BY FS_CardinalityType, FS_RemoveElement
    <1>2. H \ {c} # {} => Cardinality(H \ {c}) # 0
        BY <1>1, FS_EmptySet
    <1> QED BY <1>1, <1>2 DEF CountAfterDel, Unregistered

\* What the release of an id leaves is a number.
LEMMA DelInt ==
    ASSUME NEW count \in Int, NEW n \in Nat
    PROVE  CountAfterDel(count, n) \in Int
    BY DEF CountAfterDel, Unregistered

\* check_front_event gives back an id at most once per queue.
LEMMA ReleaseOne ==
    ASSUME TypeOK, OneEntryPerId, NEW c \in Client, NEW i \in Id
    PROVE  \/ /\ ReleaseGivenUp(listSendMsg[c])[i] = listID[i]
              /\ ~ \E e \in GivenUp(listSendMsg[c]) : e.id = i
           \/ /\ ReleaseGivenUp(listSendMsg[c])[i] = CountAfterDel(listID[i], 1)
              /\ \E e \in GivenUp(listSendMsg[c]) : e.id = i
    <1> DEFINE G == {e \in GivenUp(listSendMsg[c]) : e.id = i}
    <1>1. ReleaseGivenUp(listSendMsg[c])[i] = CountAfterDel(listID[i], Cardinality(G))
        BY DEF ReleaseGivenUp
    <1>2. CASE G = {}
        <2>1. Cardinality(G) = 0
            BY <1>2, FS_EmptySet
        <2> QED BY <1>1, <1>2, <2>1 DEF CountAfterDel
    <1>3. CASE G # {}
        <2>1. PICK e \in GivenUp(listSendMsg[c]) : e.id = i
            BY <1>3
        <2>2. \A f \in G : f = e
            BY <2>1 DEF GivenUp, OneEntryPerId
        <2>3. G = {e}
            BY <2>1, <2>2
        <2>4. Cardinality(G) = 1
            BY <2>3, FS_Singleton
        <2> QED BY <1>1, <2>1, <2>4
    <1> QED BY <1>2, <1>3

\* A release keeps the registry a registry.
LEMMA ReleaseType ==
    ASSUME TypeOK, OneEntryPerId, NEW c \in Client
    PROVE  ReleaseGivenUp(listSendMsg[c]) \in [Id -> Int]
    <1>1. \A i \in Id : ReleaseGivenUp(listSendMsg[c])[i] \in Int
        <2> TAKE i \in Id
        <2>1. listID[i] \in Int
            BY DEF TypeOK
        <2>2. CountAfterDel(listID[i], 1) \in Int
            BY <2>1, DelInt
        <2> QED BY <2>1, <2>2, ReleaseOne
    <1> QED BY <1>1 DEF ReleaseGivenUp

\* The entries that stay in a queue are well formed and keep message and id.
LEMMA AfterEventType ==
    ASSUME NEW q \in SUBSET Entry
    PROVE  /\ AfterEvent(q) \in SUBSET Entry
           /\ \A e \in AfterEvent(q) :
                \E f \in q : f.msg = e.msg /\ f.id = e.id /\ IsCheck(f) /\ f \notin GivenUp(q)
           /\ \A f \in q : IsCheck(f) /\ f \notin GivenUp(q) =>
                \E e \in AfterEvent(q) : f.msg = e.msg /\ f.id = e.id
    <1> DEFINE Aft(e) == IF Due(e) THEN [e EXCEPT !.sends = @ + 1, !.age = 0] ELSE e
    <1>1. ASSUME NEW f \in q, IsCheck(f), f \notin GivenUp(q)
          PROVE  Aft(f) \in Entry /\ Aft(f).msg = f.msg /\ Aft(f).id = f.id
        <2>1. f \in Entry
            OBVIOUS
        <2>2. CASE Due(f)
            <3>1. ~(f.sends + 1 > MaxSend)
                BY <1>1, <2>2 DEF GivenUp
            <3>2. f.sends + 1 \in 0 .. MaxSend /\ 0 \in 0 .. MaxAge
                BY <2>1, <3>1, EntryFields, CheckFrontAssumption DEF MaxAge
            <3>3. Aft(f) = [msg |-> f.msg, id |-> f.id, sends |-> f.sends + 1, age |-> 0]
                BY <2>1, <2>2 DEF Entry
            <3> QED BY <2>1, <3>2, <3>3, EntryFields DEF Entry
        <2>3. CASE ~Due(f)
            BY <2>1, <2>3
        <2> QED BY <2>2, <2>3
    <1>2. AfterEvent(q) = {Aft(e) : e \in {f \in q \ GivenUp(q) : IsCheck(f)}}
        BY DEF AfterEvent
    <1> QED BY <1>1, <1>2

---------------------------------------------------------------------------
\* Clients may only leave the holders of an id whose count stays.
LEMMA CountedKept ==
    ASSUME NEW i \in Id, TypeOK, HeldIdsCounted,
           Holders(i)' \subseteq Holders(i), listID'[i] = listID[i]
    PROVE  Holders(i)' # {} => listID'[i] >= Cardinality(Holders(i)')
    <1>1. /\ Cardinality(Holders(i)') <= Cardinality(Holders(i))
          /\ Cardinality(Holders(i)') \in Nat
        BY HoldersFinite, FS_Subset, FS_CardinalityType
    <1> QED BY <1>1, HoldersFinite DEF HeldIdsCounted, TypeOK

\* One client gave up or confirmed its entry while the count dropped by one.
LEMMA CountedDropped ==
    ASSUME NEW i \in Id, NEW c \in Holders(i), TypeOK, HeldIdsCounted,
           Holders(i)' = Holders(i) \ {c}, listID'[i] = CountAfterDel(listID[i], 1)
    PROVE  Holders(i)' # {} => listID'[i] >= Cardinality(Holders(i)')
    <1>1. listID[i] \in Int /\ listID[i] >= Cardinality(Holders(i))
        BY DEF TypeOK, HeldIdsCounted
    <1> QED BY <1>1, DropReference, HoldersFinite

\* An id drawn as free is held by nobody.
LEMMA FreshId ==
    ASSUME TypeOK, HeldIdsCounted, NEW i \in NewIds
    PROVE  i \in Id /\ listID[i] = Unregistered /\ Holders(i) = {} /\ i \notin object
    <1>1. i \in Id /\ listID[i] = Unregistered
        BY DEF NewIds, FreeIds, RegisteredIds, Registered
    <1>2. Holders(i) = {}
        BY <1>1, HoldersFinite DEF HeldIdsCounted, Unregistered
    <1>3. i \notin object
        BY <1>1 DEF HeldIdsCounted, Unregistered
    <1> QED BY <1>1, <1>2, <1>3

\* At the start nothing is registered and nothing is held.
LEMMA IdInit == Init => IdInv
    <1> SUFFICES ASSUME Init PROVE IdInv
        OBVIOUS
    <1> USE DEF Init
    <1>1. TypeOK
        BY CheckFrontAssumption DEF TypeOK, NoIds, Unregistered
    <1>2. \A i \in Id : Holders(i) = {}
        BY DEF Holders, Carries
    <1>3. OneEntryPerId /\ HeldIdsCounted
        BY <1>2 DEF OneEntryPerId, HeldIdsCounted
    <1> QED BY <1>1, <1>3 DEF IdInv

\* Steps that change neither the registry nor what the queues hold.
LEMMA SameQueues ==
    ASSUME TypeOK, OneEntryPerId, HeldIdsCounted,
           UNCHANGED <<listID, object, listSendMsg>>
    PROVE  OneEntryPerId' /\ HeldIdsCounted'
    BY DEF OneEntryPerId, HeldIdsCounted, Holders, Carries

\* A reliable message takes one count of its id for each queue it enters.
LEMMA SendCheckStep ==
    ASSUME IdInv, SendCheck
    PROVE  IdInv'
    <1> USE DEF IdInv
    <1>1. PICK targets \in Targets, i \in NewIds :
            /\ listID' = IdGetNewCount(listID, i, Cardinality(Receivers(targets)))
            /\ AddMsg(targets, NewCheck(made + 1, i))
        BY DEF SendCheck
    <1>2. i \in Id /\ listID[i] = Unregistered /\ Holders(i) = {} /\ i \notin object
        BY <1>1, FreshId
    <1> DEFINE R == Receivers(targets)
               n == NewCheck(made + 1, i)
    <1>3. R \subseteq Client /\ Cardinality(R) \in Nat
        <2>1. R \subseteq Client
            BY <1>1 DEF Receivers, Targets, Listed
        <2> QED BY <2>1, CheckFrontAssumption, FS_Subset, FS_CardinalityType
    <1>4. made + 1 \in Msg /\ n \in Entry /\ n.id = i
        BY <1>2, CheckFrontAssumption DEF SendCheck, TypeOK, NewCheck, Entry, Msg, MaxAge
    <1>5. listID' = [listID EXCEPT ![i] = Cardinality(R)]
        BY <1>1 DEF IdGetNewCount
    <1>6. listSendMsg' = [c \in Client |->
            IF c \in R THEN listSendMsg[c] \cup {n} ELSE listSendMsg[c]]
        BY <1>1 DEF AddMsg
    <1>7. TypeOK'
        <2>1. listID' \in [Id -> Int]
            BY <1>2, <1>3, <1>5 DEF TypeOK
        <2>2. listSendMsg' \in [Client -> SUBSET Entry]
            BY <1>4, <1>6 DEF TypeOK
        <2>3. made' \in 0 .. MaxMsg
            BY CheckFrontAssumption DEF SendCheck, TypeOK
        <2> QED BY <2>1, <2>2, <2>3 DEF TypeOK, SendCheck
    <1>8. \A c \in Client : ~Carries(c, i)
        BY <1>2 DEF Holders
    <1>9. OneEntryPerId'
        <2> SUFFICES ASSUME NEW c \in Client, NEW e \in listSendMsg'[c], NEW f \in listSendMsg'[c],
                            IsCheck(e), e.id = f.id
                     PROVE  e = f
            BY DEF OneEntryPerId, IsCheck
        <2>1. e \in listSendMsg[c] \cup {n} /\ f \in listSendMsg[c] \cup {n}
            BY <1>6
        <2>2. \A g \in listSendMsg[c] : g.id # i
            BY <1>8 DEF Carries
        <2> QED BY <1>4, <2>1, <2>2 DEF OneEntryPerId
    <1>10. \A j \in Id : Holders(j)' = IF j = i THEN R ELSE Holders(j)
        <2> SUFFICES ASSUME NEW j \in Id, NEW c \in Client
                     PROVE  Carries(c, j)' <=> IF j = i THEN c \in R ELSE Carries(c, j)
            BY <1>3 DEF Holders
        <2> QED BY <1>4, <1>6, <1>8 DEF Carries
    <1>11. HeldIdsCounted'
        <2> SUFFICES ASSUME NEW j \in Id
                     PROVE  /\ Holders(j)' # {} => listID'[j] >= Cardinality(Holders(j)')
                            /\ j \in object' => listID'[j] >= 1 /\ Holders(j)' = {}
            BY DEF HeldIdsCounted
        <2>1. CASE j = i
            BY <1>2, <1>3, <1>5, <1>10, <2>1 DEF TypeOK, SendCheck
        <2>2. CASE j # i
            BY <1>5, <1>10, <2>2 DEF TypeOK, SendCheck, HeldIdsCounted
        <2> QED BY <2>1, <2>2
    <1> QED BY <1>7, <1>9, <1>11

\* A message sent once takes no id.
LEMMA SendSimpleStep ==
    ASSUME IdInv, SendSimple
    PROVE  IdInv'
    <1> USE DEF IdInv
    <1>1. PICK targets \in Targets : AddMsg(targets, NewCheck(made + 1, NoId))
        BY DEF SendSimple
    <1> DEFINE n == NewCheck(made + 1, NoId)
    <1>2. made + 1 \in Msg /\ n \in Entry /\ n.id = NoId
        BY CheckFrontAssumption DEF SendSimple, TypeOK, NewCheck, Entry, Msg, MaxAge
    <1>3. listSendMsg' = [c \in Client |->
            IF c \in Receivers(targets) THEN listSendMsg[c] \cup {n} ELSE listSendMsg[c]]
        BY <1>1 DEF AddMsg
    <1>4. TypeOK'
        <2>1. listSendMsg' \in [Client -> SUBSET Entry]
            BY <1>2, <1>3 DEF TypeOK
        <2>2. made' \in 0 .. MaxMsg
            BY CheckFrontAssumption DEF SendSimple, TypeOK
        <2> QED BY <2>1, <2>2 DEF TypeOK, SendSimple
    <1>5. OneEntryPerId'
        <2> SUFFICES ASSUME NEW c \in Client, NEW e \in listSendMsg'[c], NEW f \in listSendMsg'[c],
                            IsCheck(e), e.id = f.id
                     PROVE  e = f
            BY DEF OneEntryPerId, IsCheck
        <2>1. e \in listSendMsg[c] /\ f \in listSendMsg[c]
            BY <1>2, <1>3 DEF IsCheck
        <2> QED BY <2>1 DEF OneEntryPerId
    <1>6. \A j \in Id : Holders(j)' = Holders(j)
        <2> SUFFICES ASSUME NEW j \in Id, NEW c \in Client
                     PROVE  Carries(c, j)' <=> Carries(c, j)
            BY DEF Holders
        <2> QED BY <1>2, <1>3, CheckFrontAssumption DEF Carries
    <1>7. HeldIdsCounted'
        BY <1>6 DEF HeldIdsCounted, SendSimple
    <1> QED BY <1>4, <1>5, <1>7

\* A new object draws an id nobody holds.
LEMMA CreateObjectStep ==
    ASSUME IdInv, CreateObject
    PROVE  IdInv'
    <1> USE DEF IdInv, CreateObject
    <1>1. PICK i \in NewIds : listID' = IdGetNew(listID, i) /\ object' = object \cup {i}
        OBVIOUS
    <1>2. i \in Id /\ listID[i] = Unregistered /\ Holders(i) = {} /\ i \notin object
        BY <1>1, FreshId
    <1>3. listID' = [listID EXCEPT ![i] = 1]
        BY <1>1 DEF IdGetNew, IdGetNewCount
    <1>4. TypeOK'
        BY <1>1, <1>2, <1>3 DEF TypeOK
    <1>5. OneEntryPerId'
        BY DEF OneEntryPerId
    <1>6. \A j \in Id : Holders(j)' = Holders(j)
        BY DEF Holders, Carries
    <1>7. HeldIdsCounted'
        BY <1>1, <1>2, <1>3, <1>6 DEF HeldIdsCounted, TypeOK
    <1> QED BY <1>4, <1>5, <1>7

\* A destroyed object gives its id back.
LEMMA DestroyObjectStep ==
    ASSUME IdInv, NEW i \in object, DestroyObject(i)
    PROVE  IdInv'
    <1> USE DEF IdInv, DestroyObject
    <1>1. i \in Id /\ Holders(i) = {}
        BY DEF TypeOK, HeldIdsCounted
    <1>2. listID' = [listID EXCEPT ![i] = CountAfterDel(listID[i], 1)]
        BY DEF IdDel
    <1>3. CountAfterDel(listID[i], 1) \in Int
        BY <1>1, DelInt DEF TypeOK
    <1>4. TypeOK'
        BY <1>1, <1>2, <1>3 DEF TypeOK
    <1>5. OneEntryPerId'
        BY DEF OneEntryPerId
    <1>6. \A j \in Id : Holders(j)' = Holders(j)
        BY DEF Holders, Carries
    <1>7. HeldIdsCounted'
        BY <1>1, <1>2, <1>6 DEF HeldIdsCounted, TypeOK
    <1> QED BY <1>4, <1>5, <1>7

(***************************************************************************)
(* Both ways of running check_front_event, keeping the survivors or        *)
(* throwing the queue away, on one queue.                                  *)
(***************************************************************************)
LEMMA FlushCounts ==
    ASSUME IdInv, NEW c \in Client, NEW kept \in SUBSET AfterEvent(listSendMsg[c]),
           listSendMsg' = [listSendMsg EXCEPT ![c] = kept],
           listID' = ReleaseGivenUp(listSendMsg[c]),
           object' = object
    PROVE  /\ listID' \in [Id -> Int]
           /\ listSendMsg' \in [Client -> SUBSET Entry]
           /\ OneEntryPerId'
           /\ HeldIdsCounted'
    <1> USE DEF IdInv
    <1>1. listSendMsg[c] \in SUBSET Entry
        BY DEF TypeOK
    <1>2. /\ kept \in SUBSET Entry
          /\ \A e \in kept : \E f \in listSendMsg[c] :
               /\ f.msg = e.msg /\ f.id = e.id /\ IsCheck(f)
               /\ f \notin GivenUp(listSendMsg[c])
        BY <1>1, AfterEventType
    <1>3. listID' \in [Id -> Int]
        BY ReleaseType
    <1>4. listSendMsg' \in [Client -> SUBSET Entry]
        BY <1>2 DEF TypeOK
    <1>5. \A d \in Client : listSendMsg'[d] = IF d = c THEN kept ELSE listSendMsg[d]
        BY DEF TypeOK
    <1>6. \A e, f \in AfterEvent(listSendMsg[c]) : e.id = f.id => e = f
        <2> DEFINE Aft(e) == IF Due(e) THEN [e EXCEPT !.sends = @ + 1, !.age = 0] ELSE e
        <2>1. AfterEvent(listSendMsg[c]) =
                {Aft(e) : e \in {f \in listSendMsg[c] \ GivenUp(listSendMsg[c]) : IsCheck(f)}}
            BY DEF AfterEvent
        <2>2. \A e \in listSendMsg[c] : Aft(e).id = e.id
            BY <1>1 DEF Entry
        <2> QED BY <2>1, <2>2 DEF OneEntryPerId
    <1>7. OneEntryPerId'
        BY <1>5, <1>6 DEF OneEntryPerId, IsCheck
    <1>8. ASSUME NEW j \in Id
          PROVE  /\ Holders(j)' # {} => listID'[j] >= Cardinality(Holders(j)')
                 /\ j \in object => listID'[j] >= 1 /\ Holders(j)' = {}
        <2>1. Holders(j)' \subseteq Holders(j)
            <3> SUFFICES ASSUME NEW d \in Client, Carries(d, j)'
                         PROVE  Carries(d, j)
                BY DEF Holders
            <3> QED BY <1>2, <1>5 DEF Carries
        <2>2. CASE ~ \E e \in GivenUp(listSendMsg[c]) : e.id = j
            <3>1. listID'[j] = listID[j]
                BY <2>2, ReleaseOne
            <3> QED BY <2>1, <3>1, CountedKept DEF HeldIdsCounted
        <2>3. CASE \E e \in GivenUp(listSendMsg[c]) : e.id = j
            <3>1. listID'[j] = CountAfterDel(listID[j], 1)
                BY <2>3, ReleaseOne
            <3>2. PICK e \in GivenUp(listSendMsg[c]) : e.id = j
                BY <2>3
            <3>3. c \in Holders(j)
                BY <3>2 DEF Holders, Carries, GivenUp
            <3>4. ~Carries(c, j)'
                <4> SUFFICES ASSUME NEW g \in kept, g.id = j PROVE FALSE
                    BY <1>5 DEF Carries
                <4>1. PICK f \in listSendMsg[c] :
                        f.id = j /\ IsCheck(f) /\ f \notin GivenUp(listSendMsg[c])
                    BY <1>2
                <4> QED BY <3>2, <4>1 DEF OneEntryPerId, GivenUp
            <3>5. Holders(j)' = Holders(j) \ {c}
                <4>1. \A d \in Client \ {c} : Carries(d, j)' <=> Carries(d, j)
                    BY <1>5 DEF Carries
                <4> QED BY <2>1, <3>4, <4>1 DEF Holders
            <3>6. j \notin object
                BY <3>3 DEF HeldIdsCounted
            <3> QED BY <3>1, <3>3, <3>5, <3>6, CountedDropped
        <2> QED BY <2>2, <2>3
    <1>9. HeldIdsCounted'
        BY <1>8 DEF HeldIdsCounted
    <1> QED BY <1>3, <1>4, <1>7, <1>9

\* A pass over a queue gives back exactly the entries it drops.
LEMMA CheckFrontEventStep ==
    ASSUME IdInv, NEW c \in Client, CheckFrontEvent(c)
    PROVE  IdInv'
    <1> USE DEF IdInv
    <1>1. /\ listSendMsg' = [listSendMsg EXCEPT ![c] = AfterEvent(listSendMsg[c])]
          /\ listID' = ReleaseGivenUp(listSendMsg[c])
          /\ object' = object /\ made' = made /\ up' = up /\ handled' = handled
        BY DEF CheckFrontEvent
    <1>2. /\ listID' \in [Id -> Int]
          /\ listSendMsg' \in [Client -> SUBSET Entry]
          /\ OneEntryPerId' /\ HeldIdsCounted'
        BY <1>1, FlushCounts
    <1>3. status' \in [Client -> {"none", "ok", "zombie"}]
        BY DEF CheckFrontEvent, TypeOK
    <1>4. down' \in [Client -> SUBSET Datagram]
        <2>1. \A e \in listSendMsg[c] : ToDatagram(e) \in Datagram
            BY DEF TypeOK, ToDatagram, Datagram, Entry
        <2>2. \A s \in SUBSET listSendMsg[c] :
                [down EXCEPT ![c] = @ \cup {ToDatagram(e) : e \in s}] \in [Client -> SUBSET Datagram]
            BY <2>1 DEF TypeOK
        <2>3. Written(listSendMsg[c]) \in SUBSET listSendMsg[c]
            BY DEF Written
        <2>4. \A g : {f \in Written(listSendMsg[c]) : f.msg < g.msg} \in SUBSET listSendMsg[c]
            BY <2>3
        <2> QED BY <2>2, <2>3, <2>4 DEF CheckFrontEvent, TypeOK
    <1> QED BY <1>1, <1>2, <1>3, <1>4 DEF TypeOK

\* A client that is destroyed takes its queue with it; ids stay counted.
LEMMA DestroyClientStep ==
    ASSUME IdInv, NEW c \in Client, DestroyClient(c)
    PROVE  IdInv'
    <1> USE DEF IdInv, DestroyClient
    <1>1. /\ listID' \in [Id -> Int]
          /\ listSendMsg' \in [Client -> SUBSET Entry]
          /\ OneEntryPerId' /\ HeldIdsCounted'
        BY FlushCounts, {} \in SUBSET AfterEvent(listSendMsg[c])
    <1> QED BY <1>1 DEF TypeOK

\* An answer gives back the one entry it removes.
LEMMA RecvCheckStep ==
    ASSUME IdInv, NEW c \in Client, NEW i \in up[c], RecvCheck(c, i)
    PROVE  IdInv'
    <1> USE DEF IdInv
    <1>1. i \in Id
        BY DEF TypeOK
    <1>2. CASE UNCHANGED <<listID, listSendMsg>>
        <2>1. UNCHANGED <<listID, object, listSendMsg, status, made, down, up, handled>>
            BY <1>2 DEF RecvCheck
        <2>2. OneEntryPerId' /\ HeldIdsCounted'
            BY <2>1, SameQueues
        <2> QED BY <2>1, <2>2 DEF TypeOK
    <1>3. CASE \E e \in listSendMsg[c] :
                /\ e.id = i
                /\ listSendMsg' = [listSendMsg EXCEPT ![c] = @ \ {e}]
                /\ listID' = IdDel(listID, i)
        <2>1. PICK e \in listSendMsg[c] :
                /\ e.id = i
                /\ listSendMsg' = [listSendMsg EXCEPT ![c] = @ \ {e}]
                /\ listID' = IdDel(listID, i)
            BY <1>3
        <2>2. listID' = [listID EXCEPT ![i] = CountAfterDel(listID[i], 1)]
            BY <2>1 DEF IdDel
        <2>3. CountAfterDel(listID[i], 1) \in Int
            BY <1>1, DelInt DEF TypeOK
        <2>4. UNCHANGED <<object, status, made, down, up, handled>>
            BY DEF RecvCheck
        <2>5. TypeOK'
            BY <1>1, <2>1, <2>2, <2>3, <2>4 DEF TypeOK
        <2>6. \A d \in Client :
                listSendMsg'[d] = IF d = c THEN listSendMsg[c] \ {e} ELSE listSendMsg[d]
            BY <2>1 DEF TypeOK
        <2>7. OneEntryPerId'
            BY <2>6 DEF OneEntryPerId, IsCheck
        <2>8. \A f \in listSendMsg[c] : f.id = i => f = e
            BY <1>1, <2>1, CheckFrontAssumption DEF OneEntryPerId, IsCheck
        <2>9. \A j \in Id : Holders(j)' = IF j = i THEN Holders(j) \ {c} ELSE Holders(j)
            <3> SUFFICES ASSUME NEW j \in Id, NEW d \in Client
                         PROVE  Carries(d, j)' <=> Carries(d, j) /\ ~(j = i /\ d = c)
                BY DEF Holders
            <3> QED BY <2>1, <2>6, <2>8 DEF Carries
        <2>10. c \in Holders(i)
            BY <2>1 DEF Holders, Carries
        <2>11. HeldIdsCounted'
            <3> SUFFICES ASSUME NEW j \in Id
                         PROVE  /\ Holders(j)' # {} => listID'[j] >= Cardinality(Holders(j)')
                                /\ j \in object' => listID'[j] >= 1 /\ Holders(j)' = {}
                BY DEF HeldIdsCounted
            <3>1. CASE j = i
                <4>1. listID'[i] = CountAfterDel(listID[i], 1)
                    BY <1>1, <2>2 DEF TypeOK
                <4>2. i \notin object'
                    BY <1>1, <2>4, <2>10 DEF HeldIdsCounted
                <4> QED BY <1>1, <2>9, <2>10, <3>1, <4>1, <4>2, CountedDropped
            <3>2. CASE j # i
                BY <2>2, <2>4, <2>9, <3>2 DEF TypeOK, HeldIdsCounted
            <3> QED BY <3>1, <3>2
        <2> QED BY <2>5, <2>7, <2>11
    <1> QED BY <1>2, <1>3 DEF RecvCheck

\* Time changes no id.
LEMMA TickStep ==
    ASSUME IdInv, Tick
    PROVE  IdInv'
    <1> USE DEF IdInv
    <1>1. \A e \in Entry : Older(e) \in Entry /\ Older(e).id = e.id /\ Older(e).msg = e.msg
        <2> SUFFICES ASSUME NEW e \in Entry
                     PROVE  Older(e) \in Entry /\ Older(e).id = e.id /\ Older(e).msg = e.msg
            OBVIOUS
        <2> DEFINE a == IF e.age < MaxAge THEN e.age + 1 ELSE e.age
        <2>1. a \in 0 .. MaxAge
            BY EntryFields, CheckFrontAssumption DEF MaxAge
        <2>2. Older(e) = [msg |-> e.msg, id |-> e.id, sends |-> e.sends, age |-> a]
            BY DEF Older, Entry
        <2> QED BY <2>1, <2>2, EntryFields DEF Entry
    <1>2. \A c \in Client : /\ listSendMsg'[c] = {Older(e) : e \in listSendMsg[c]}
                            /\ listSendMsg[c] \in SUBSET Entry
        BY DEF Tick, TypeOK
    <1>3. listSendMsg' \in [Client -> SUBSET Entry]
        BY <1>1, <1>2 DEF Tick
    <1>4. TypeOK'
        BY <1>3 DEF TypeOK, Tick
    <1>5. OneEntryPerId'
        BY <1>1, <1>2 DEF OneEntryPerId, IsCheck
    <1>6. \A j \in Id : Holders(j)' = Holders(j)
        <2> SUFFICES ASSUME NEW j \in Id, NEW c \in Client
                     PROVE  Carries(c, j)' <=> Carries(c, j)
            BY DEF Holders
        <2> QED BY <1>1, <1>2 DEF Carries
    <1>7. HeldIdsCounted'
        BY <1>6 DEF HeldIdsCounted, Tick
    <1> QED BY <1>4, <1>5, <1>7

\* A new client starts with an empty queue.
LEMMA ConnectStep ==
    ASSUME IdInv, NEW c \in Client, Connect(c)
    PROVE  IdInv'
    <1> USE DEF IdInv, Connect
    <1>1. TypeOK'
        BY DEF TypeOK
    <1>2. \A d \in Client : listSendMsg'[d] \subseteq listSendMsg[d]
        BY DEF TypeOK
    <1>3. OneEntryPerId'
        BY <1>2 DEF OneEntryPerId, IsCheck
    <1>4. \A j \in Id : Holders(j)' \subseteq Holders(j)
        BY <1>2 DEF Holders, Carries
    <1>5. HeldIdsCounted'
        BY <1>4, CountedKept DEF HeldIdsCounted
    <1> QED BY <1>1, <1>3, <1>5

\* Every step keeps the ids counted.
LEMMA IdStep == IdInv /\ [Next]_vars => IdInv'
    <1> SUFFICES ASSUME IdInv, [Next]_vars PROVE IdInv'
        OBVIOUS
    <1>1. ASSUME NEW c \in Client, Connect(c) PROVE IdInv'
        BY <1>1, ConnectStep
    <1>2. ASSUME NEW c \in Client, CheckFrontEvent(c) PROVE IdInv'
        BY <1>2, CheckFrontEventStep
    <1>3. ASSUME NEW c \in Client, DestroyClient(c) PROVE IdInv'
        BY <1>3, DestroyClientStep
    <1>4. ASSUME NEW c \in Client, NEW i \in up[c], RecvCheck(c, i) PROVE IdInv'
        BY <1>4, RecvCheckStep
    <1>5. CASE CreateObject
        BY <1>5, CreateObjectStep
    <1>6. ASSUME NEW i \in object, DestroyObject(i) PROVE IdInv'
        BY <1>6, DestroyObjectStep
    <1>7. CASE SendCheck
        BY <1>7, SendCheckStep
    <1>8. CASE SendSimple
        BY <1>8, SendSimpleStep
    <1>9. CASE Tick
        BY <1>9, TickStep
    <1>10. ASSUME UNCHANGED <<listID, object, listSendMsg>>, TypeOK' PROVE IdInv'
        BY <1>10, SameQueues DEF IdInv
    <1>11. ASSUME NEW c \in Client, BecomeZombie(c) PROVE IdInv'
        BY <1>10, <1>11 DEF BecomeZombie, IdInv, TypeOK
    <1>12. ASSUME NEW c \in Client, NEW i \in up[c], LoseUp(c, i) PROVE IdInv'
        BY <1>10, <1>12 DEF LoseUp, IdInv, TypeOK
    <1>13. ASSUME NEW c \in Client, NEW d \in down[c], LoseDown(c, d) PROVE IdInv'
        BY <1>10, <1>13 DEF LoseDown, IdInv, TypeOK
    <1>14. ASSUME NEW c \in Client, NEW d \in down[c], ClientHandle(c, d) PROVE IdInv'
        <2>1. d \in Datagram /\ d.msg \in Msg /\ d.id \in Id \cup {NoId}
            BY DEF IdInv, TypeOK, Datagram
        <2>2. TypeOK'
            BY <1>14, <2>1 DEF ClientHandle, IdInv, TypeOK
        <2> QED BY <1>10, <1>14, <2>2 DEF ClientHandle
    <1>15. CASE UNCHANGED vars
        BY <1>10, <1>15 DEF vars, IdInv, TypeOK
    <1> QED
        BY <1>1, <1>2, <1>3, <1>4, <1>5, <1>6, <1>7, <1>8, <1>9, <1>11, <1>12, <1>13,
           <1>14, <1>15 DEF Next

\* Every variable keeps its type.
THEOREM TypeCorrect == Spec => []TypeOK
    BY IdInit, IdStep, PTL DEF Spec, IdInv

\* No id is released while an object or a queue holds it, and a queue never
\* holds an id twice (id_inc, id_del and check_front_del_msg rely on it).
THEOREM IdsHeldAreCounted == Spec => [](OneEntryPerId /\ HeldIdsCounted)
    BY IdInit, IdStep, PTL DEF Spec, IdInv

(***************************************************************************)
(* Part 2.  Answers are sound, as long as an id is not drawn again while   *)
(* datagrams still carry it.  A datagram, an answer and a queue entry with *)
(* the same id then speak of the same message.                             *)
(***************************************************************************)
EntriesAgree ==
    /\ \A c, d \in Client : \A e \in listSendMsg[c], f \in listSendMsg[d] :
         IsCheck(e) /\ e.id = f.id => e.msg = f.msg
    /\ \A c \in Client : \A e, f \in listSendMsg[c] : e.msg = f.msg => e = f

DatagramsAgree ==
    \A c, d \in Client : \A e \in listSendMsg[c], g \in down[d] :
        IsCheck(e) /\ e.id = g.id => e.msg = g.msg

AnswersAgree ==
    \A c \in Client : \A e \in listSendMsg[c] : e.id \in up[c] => e.msg \in handled[c]

OnlyMade ==
    \A c \in Client :
        /\ \A e \in listSendMsg[c] : e.msg <= made
        /\ \A g \in down[c] : g.msg <= made

UnlistedEmpty == \A c \in Client : status[c] = "none" => listSendMsg[c] = {}

AckInv ==
    IdInv /\ EntriesAgree /\ DatagramsAgree /\ AnswersAgree /\ OnlyMade /\ UnlistedEmpty

\* At the start nothing is under way.
LEMMA AckInit == Init => AckInv
    BY IdInit DEF Init, AckInv, EntriesAgree, DatagramsAgree, AnswersAgree, OnlyMade,
                  UnlistedEmpty

\* Steps that make no message: queues only lose entries or age them, datagrams
\* copy entries, answers get lost.
LEMMA NothingNew ==
    ASSUME AckInv, made' = made,
           \A c \in Client : \A e \in listSendMsg'[c] :
               \E f \in listSendMsg[c] : f.msg = e.msg /\ f.id = e.id,
           \A c \in Client : \A e, f \in listSendMsg'[c] : e.msg = f.msg => e = f,
           \A c \in Client : \A g \in down'[c] :
               \/ g \in down[c]
               \/ \E e \in listSendMsg[c] : g.msg = e.msg /\ g.id = e.id,
           \A c \in Client : up'[c] \subseteq up[c],
           \A c \in Client : listSendMsg'[c] # {} => handled[c] \subseteq handled'[c],
           \A c \in Client : status'[c] = "none" => listSendMsg'[c] = {}
    PROVE  /\ EntriesAgree' /\ DatagramsAgree' /\ AnswersAgree'
           /\ OnlyMade' /\ UnlistedEmpty'
    <1>1. EntriesAgree'
        BY DEF AckInv, EntriesAgree, IsCheck
    <1>2. DatagramsAgree'
        <2> SUFFICES ASSUME NEW c \in Client, NEW d \in Client,
                            NEW e \in listSendMsg'[c], NEW g \in down'[d],
                            IsCheck(e), e.id = g.id
                     PROVE  e.msg = g.msg
            BY DEF DatagramsAgree, IsCheck
        <2>1. PICK f \in listSendMsg[c] : f.msg = e.msg /\ f.id = e.id
            OBVIOUS
        <2>2. CASE g \in down[d]
            BY <2>1, <2>2 DEF AckInv, DatagramsAgree, IsCheck
        <2>3. CASE \E h \in listSendMsg[d] : g.msg = h.msg /\ g.id = h.id
            BY <2>1, <2>3 DEF AckInv, EntriesAgree, IsCheck
        <2> QED BY <2>2, <2>3
    <1>3. AnswersAgree'
        BY DEF AckInv, AnswersAgree
    <1>4. OnlyMade'
        BY DEF AckInv, OnlyMade
    <1>5. UnlistedEmpty'
        BY DEF UnlistedEmpty
    <1> QED BY <1>1, <1>2, <1>3, <1>4, <1>5

\* A new message is a message no queue and no datagram has.
LEMMA NewMessage ==
    ASSUME AckInv, NEW R \in SUBSET Client, NEW n \in Entry,
           n.msg = made + 1, made' = made + 1,
           IsCheck(n) => \A c \in Client :
               /\ \A e \in listSendMsg[c] : e.id # n.id
               /\ \A g \in down[c] : g.id # n.id
               /\ n.id \notin up[c],
           \A c \in Client : listSendMsg'[c] =
               IF c \in R THEN listSendMsg[c] \cup {n} ELSE listSendMsg[c],
           \A c \in R : status[c] = "ok",
           UNCHANGED <<status, down, up, handled>>
    PROVE  /\ EntriesAgree' /\ DatagramsAgree' /\ AnswersAgree'
           /\ OnlyMade' /\ UnlistedEmpty'
    <1>1. /\ made \in Nat
          /\ \A c \in Client : /\ \A e \in listSendMsg[c] : e.msg \in Nat /\ e.msg # made + 1
                               /\ \A g \in down[c] : g.msg \in Nat
                               /\ NoId \notin up[c]
        BY CheckFrontAssumption DEF AckInv, IdInv, TypeOK, OnlyMade, Entry, Datagram, Msg
    <1>2. \A c \in Client : \A e \in listSendMsg'[c] : e \in listSendMsg[c] \/ e = n
        OBVIOUS
    <1>3. EntriesAgree'
        <2>1. ASSUME NEW c \in Client, NEW d \in Client,
                     NEW e \in listSendMsg'[c], NEW f \in listSendMsg'[d],
                     IsCheck(e), e.id = f.id
              PROVE  e.msg = f.msg
            BY <1>2, <2>1 DEF AckInv, EntriesAgree, IsCheck
        <2>2. ASSUME NEW c \in Client, NEW e \in listSendMsg'[c], NEW f \in listSendMsg'[c],
                     e.msg = f.msg
              PROVE  e = f
            BY <1>1, <1>2, <2>2 DEF AckInv, EntriesAgree
        <2> QED BY <2>1, <2>2 DEF EntriesAgree, IsCheck
    <1>4. DatagramsAgree'
        BY <1>2 DEF AckInv, DatagramsAgree, IsCheck
    <1>5. AnswersAgree'
        BY <1>1, <1>2 DEF AckInv, AnswersAgree, IsCheck
    <1>6. OnlyMade'
        BY <1>1, <1>2 DEF AckInv, OnlyMade
    <1>7. UnlistedEmpty'
        BY DEF AckInv, UnlistedEmpty
    <1> QED BY <1>3, <1>4, <1>5, <1>6, <1>7

\* Every step keeps the answers sound.
LEMMA AckStep ==
    ASSUME ReuseInFlight = FALSE, AckInv, [Next]_vars
    PROVE  AckInv'
    <1> DEFINE Others == /\ EntriesAgree' /\ DatagramsAgree' /\ AnswersAgree'
                         /\ OnlyMade' /\ UnlistedEmpty'
    <1> SUFFICES Others
        BY IdStep DEF AckInv
    <1>0. TypeOK /\ TypeOK'
        BY IdStep DEF AckInv, IdInv
    <1>same. ASSUME UNCHANGED <<listSendMsg, made>>,
                    \A c \in Client : down'[c] \subseteq down[c],
                    \A c \in Client : up'[c] \subseteq up[c],
                    \A c \in Client : listSendMsg[c] # {} => handled[c] \subseteq handled'[c],
                    \A c \in Client : status'[c] = "none" => status[c] = "none"
             PROVE  Others
        BY <1>same, NothingNew DEF AckInv, EntriesAgree, UnlistedEmpty
    <1>1. ASSUME NEW c \in Client, Connect(c) PROVE Others
        <2>1. listSendMsg[c] = {}
            BY <1>1 DEF Connect, AckInv, UnlistedEmpty
        <2>2. listSendMsg' = listSendMsg
            BY <1>0, <1>1, <2>1 DEF Connect, TypeOK
        <2>3. \A d \in Client : listSendMsg[d] # {} => handled[d] \subseteq handled'[d]
            BY <1>0, <1>1, <2>1 DEF Connect, TypeOK
        <2> QED BY <1>0, <1>1, <1>same, <2>2, <2>3 DEF Connect, TypeOK
    <1>2. ASSUME NEW c \in Client, CheckFrontEvent(c) PROVE Others
        <2> DEFINE q == listSendMsg[c]
                   Aft(e) == IF Due(e) THEN [e EXCEPT !.sends = @ + 1, !.age = 0] ELSE e
        <2>1. q \in SUBSET Entry
            BY <1>0 DEF TypeOK
        <2>2. \A e \in AfterEvent(q) : \E f \in q : f.msg = e.msg /\ f.id = e.id
            BY <2>1, AfterEventType
        <2>3. \A e, f \in AfterEvent(q) : e.msg = f.msg => e = f
            <3>1. AfterEvent(q) = {Aft(e) : e \in {f \in q \ GivenUp(q) : IsCheck(f)}}
                BY DEF AfterEvent
            <3>2. \A e \in q : Aft(e).msg = e.msg
                BY <2>1 DEF Entry
            <3> SUFFICES ASSUME NEW e \in AfterEvent(q), NEW f \in AfterEvent(q), e.msg = f.msg
                         PROVE  e = f
                OBVIOUS
            <3>3. PICK x \in q : e = Aft(x)
                BY <3>1
            <3>4. PICK y \in q : f = Aft(y)
                BY <3>1
            <3>5. x.msg = y.msg
                BY <3>2, <3>3, <3>4
            <3>6. x = y
                BY <3>5 DEF AckInv, EntriesAgree
            <3> QED BY <3>3, <3>4, <3>6
        <2>4. \A d \in Client : listSendMsg'[d] = IF d = c THEN AfterEvent(q) ELSE listSendMsg[d]
            BY <1>0, <1>2 DEF CheckFrontEvent, TypeOK
        <2>5. \A d \in Client : \A g \in down'[d] :
                 \/ g \in down[d]
                 \/ \E e \in listSendMsg[d] : g.msg = e.msg /\ g.id = e.id
            BY <1>0, <1>2 DEF CheckFrontEvent, TypeOK, ToDatagram, Written
        <2>6. \A d \in Client : status'[d] = "none" => listSendMsg'[d] = {}
            <3>1. \A d \in Client : status'[d] = "none" => status[d] = "none" /\ d # c
                BY <1>0, <1>2 DEF CheckFrontEvent, TypeOK, Listed
            <3> QED BY <2>4, <3>1 DEF AckInv, UnlistedEmpty
        <2>7. UNCHANGED <<made, up, handled>>
            BY <1>2 DEF CheckFrontEvent
        <2>8. \A d \in Client : \A e \in listSendMsg'[d] :
                \E f \in listSendMsg[d] : f.msg = e.msg /\ f.id = e.id
            BY <2>2, <2>4
        <2>9. \A d \in Client : \A e, f \in listSendMsg'[d] : e.msg = f.msg => e = f
            BY <2>3, <2>4 DEF AckInv, EntriesAgree
        <2> QED BY <2>5, <2>6, <2>7, <2>8, <2>9, NothingNew
    <1>3. ASSUME NEW c \in Client, BecomeZombie(c) PROVE Others
        BY <1>0, <1>3, <1>same DEF BecomeZombie, TypeOK
    <1>4. ASSUME NEW c \in Client, DestroyClient(c) PROVE Others
        <2>1. \A d \in Client : /\ listSendMsg'[d] \subseteq listSendMsg[d]
                                /\ status'[d] = "none" => listSendMsg'[d] = {}
            BY <1>0, <1>4 DEF DestroyClient, TypeOK, AckInv, UnlistedEmpty
        <2>2. UNCHANGED <<made, down, up, handled>>
            BY <1>4 DEF DestroyClient
        <2>3. \A d \in Client : \A e, f \in listSendMsg'[d] : e.msg = f.msg => e = f
            BY <2>1 DEF AckInv, EntriesAgree
        <2> QED BY <2>1, <2>2, <2>3, NothingNew
    <1>5. ASSUME NEW c \in Client, NEW i \in up[c], RecvCheck(c, i) PROVE Others
        <2>1. \A d \in Client : listSendMsg'[d] \subseteq listSendMsg[d]
            BY <1>0, <1>5 DEF RecvCheck, TypeOK
        <2>2. UNCHANGED <<made, down, up, handled, status>>
            BY <1>5 DEF RecvCheck
        <2>3. \A d \in Client : \A e, f \in listSendMsg'[d] : e.msg = f.msg => e = f
            BY <2>1 DEF AckInv, EntriesAgree
        <2>4. \A d \in Client : status'[d] = "none" => listSendMsg'[d] = {}
            BY <2>1, <2>2 DEF AckInv, UnlistedEmpty
        <2> QED BY <2>1, <2>2, <2>3, <2>4, NothingNew
    <1>6. ASSUME NEW c \in Client, NEW i \in up[c], LoseUp(c, i) PROVE Others
        BY <1>0, <1>6, <1>same DEF LoseUp, TypeOK
    <1>7. ASSUME NEW c \in Client, NEW d \in down[c], LoseDown(c, d) PROVE Others
        BY <1>0, <1>7, <1>same DEF LoseDown, TypeOK
    <1>8. ASSUME NEW c \in Client, NEW d \in down[c], ClientHandle(c, d) PROVE Others
        <2>1. UNCHANGED <<listSendMsg, made, status, down>>
            BY <1>8 DEF ClientHandle
        <2>2. \A b \in Client : handled[b] \subseteq handled'[b]
            BY <1>0, <1>8 DEF ClientHandle, TypeOK
        <2>3. d.msg \in handled'[c]
            BY <1>0, <1>8 DEF ClientHandle, TypeOK
        <2>4. \A b \in Client : \A i \in up'[b] : i \in up[b] \/ (b = c /\ i = d.id /\ d.id # NoId)
            BY <1>0, <1>8 DEF ClientHandle, TypeOK
        <2>5. AnswersAgree'
            <3> SUFFICES ASSUME NEW b \in Client, NEW e \in listSendMsg[b], e.id \in up'[b]
                         PROVE  e.msg \in handled'[b]
                BY <2>1 DEF AnswersAgree
            <3>1. CASE e.id \in up[b]
                BY <2>2, <3>1 DEF AckInv, AnswersAgree
            <3>2. CASE b = c /\ e.id = d.id /\ d.id # NoId
                BY <2>3, <3>2 DEF AckInv, DatagramsAgree, IsCheck
            <3> QED BY <2>4, <3>1, <3>2
        <2> QED BY <2>1, <2>5 DEF AckInv, EntriesAgree, DatagramsAgree, OnlyMade, UnlistedEmpty
    <1>9. CASE CreateObject
        BY <1>0, <1>9, <1>same DEF CreateObject, TypeOK
    <1>10. ASSUME NEW i \in object, DestroyObject(i) PROVE Others
        BY <1>0, <1>10, <1>same DEF DestroyObject, TypeOK
    <1>11. CASE SendCheck
        <2>1. PICK targets \in Targets, i \in NewIds : AddMsg(targets, NewCheck(made + 1, i))
            BY <1>11 DEF SendCheck
        <2> DEFINE n == NewCheck(made + 1, i)
        <2>2. i \in Id /\ Holders(i) = {} /\ i \notin InFlight
            BY <2>1, FreshId DEF NewIds, AckInv, IdInv
        <2>3. n \in Entry /\ n.msg = made + 1 /\ n.id = i
            BY <1>0, <1>11, <2>2, CheckFrontAssumption
            DEF SendCheck, TypeOK, NewCheck, Entry, Msg, MaxAge
        <2>4. \A c \in Client : /\ \A e \in listSendMsg[c] : e.id # i
                                /\ \A g \in down[c] : g.id # i
                                /\ i \notin up[c]
            BY <2>2 DEF Holders, Carries, InFlight
        <2>5. /\ Receivers(targets) \in SUBSET Client
              /\ \A c \in Receivers(targets) : status[c] = "ok"
            BY <2>1 DEF Receivers, Targets, Listed
        <2>6. \A c \in Client : listSendMsg'[c] =
                IF c \in Receivers(targets) THEN listSendMsg[c] \cup {n} ELSE listSendMsg[c]
            BY <2>1 DEF AddMsg
        <2>7. made' = made + 1 /\ UNCHANGED <<status, down, up, handled>>
            BY <1>11 DEF SendCheck
        <2>8. IsCheck(n) => \A c \in Client :
                /\ \A e \in listSendMsg[c] : e.id # n.id
                /\ \A g \in down[c] : g.id # n.id
                /\ n.id \notin up[c]
            BY <2>3, <2>4
        <2> HIDE DEF n
        <2> QED BY <2>3, <2>5, <2>6, <2>7, <2>8, NewMessage
    <1>12. CASE SendSimple
        <2>1. PICK targets \in Targets : AddMsg(targets, NewCheck(made + 1, NoId))
            BY <1>12 DEF SendSimple
        <2> DEFINE n == NewCheck(made + 1, NoId)
        <2>2. n \in Entry /\ n.msg = made + 1 /\ ~IsCheck(n)
            BY <1>0, <1>12, CheckFrontAssumption
            DEF SendSimple, TypeOK, NewCheck, Entry, Msg, MaxAge, IsCheck
        <2>3. /\ Receivers(targets) \in SUBSET Client
              /\ \A c \in Receivers(targets) : status[c] = "ok"
            BY <2>1 DEF Receivers, Targets, Listed
        <2>4. \A c \in Client : listSendMsg'[c] =
                IF c \in Receivers(targets) THEN listSendMsg[c] \cup {n} ELSE listSendMsg[c]
            BY <2>1 DEF AddMsg
        <2>5. made' = made + 1 /\ UNCHANGED <<status, down, up, handled>>
            BY <1>12 DEF SendSimple
        <2> QED BY <2>2, <2>3, <2>4, <2>5, NewMessage
    <1>13. CASE Tick
        <2>1. \A c \in Client : /\ listSendMsg'[c] = {Older(e) : e \in listSendMsg[c]}
                                /\ listSendMsg[c] \in SUBSET Entry
            BY <1>0, <1>13 DEF Tick, TypeOK
        <2>2. \A e \in Entry : Older(e).msg = e.msg /\ Older(e).id = e.id
            BY DEF Older, Entry
        <2>3. \A c \in Client : \A e, f \in listSendMsg'[c] : e.msg = f.msg => e = f
            BY <2>1, <2>2 DEF AckInv, EntriesAgree
        <2>4. \A c \in Client : status'[c] = "none" => listSendMsg'[c] = {}
            BY <1>13, <2>1 DEF Tick, AckInv, UnlistedEmpty
        <2>5. \A c \in Client : \A e \in listSendMsg'[c] :
                \E f \in listSendMsg[c] : f.msg = e.msg /\ f.id = e.id
            BY <2>1, <2>2
        <2>6. UNCHANGED <<made, down, up, handled>>
            BY <1>13 DEF Tick
        <2> QED BY <2>3, <2>4, <2>5, <2>6, NothingNew
    <1>14. CASE UNCHANGED vars
        BY <1>14, <1>same DEF vars
    <1> QED
        BY <1>1, <1>2, <1>3, <1>4, <1>5, <1>6, <1>7, <1>8, <1>9, <1>10, <1>11, <1>12,
           <1>13, <1>14 DEF Next

\* Every entry of the queue that leaves it does so for one of three reasons.
LEMMA LeaveStep ==
    ASSUME AckInv, [Next]_vars, NEW c \in Client, NEW e \in listSendMsg[c], IsCheck(e),
           ~ \E f \in listSendMsg'[c] : f.msg = e.msg
    PROVE  e.msg \in handled[c] \/ e.sends = MaxSend \/ status'[c] = "none"
    <1> DEFINE Reason == e.msg \in handled[c] \/ e.sends = MaxSend \/ status'[c] = "none"
    <1> SUFFICES Reason
        OBVIOUS
    <1>0. TypeOK /\ e \in Entry
        BY DEF AckInv, IdInv, TypeOK
    <1>1. ASSUME NEW d \in Client, Connect(d) PROVE Reason
        BY <1>0, <1>1 DEF Connect, AckInv, UnlistedEmpty, TypeOK
    <1>2. ASSUME NEW d \in Client, CheckFrontEvent(d) PROVE Reason
        <2>1. d = c
            BY <1>0, <1>2 DEF CheckFrontEvent, TypeOK
        <2>2. listSendMsg'[c] = AfterEvent(listSendMsg[c]) /\ listSendMsg[c] \in SUBSET Entry
            BY <1>0, <1>2, <2>1 DEF CheckFrontEvent, TypeOK
        <2>3. e \in GivenUp(listSendMsg[c])
            BY <2>2, AfterEventType
        <2>4. e.sends + 1 > MaxSend
            BY <2>3 DEF GivenUp
        <2> QED BY <1>0, <2>4, EntryFields, CheckFrontAssumption
    <1>3. ASSUME NEW d \in Client, DestroyClient(d) PROVE Reason
        BY <1>0, <1>3 DEF DestroyClient, TypeOK
    <1>4. ASSUME NEW d \in Client, NEW i \in up[d], RecvCheck(d, i) PROVE Reason
        <2>1. d = c /\ i = e.id
            BY <1>0, <1>4 DEF RecvCheck, TypeOK
        <2> QED BY <2>1 DEF AckInv, AnswersAgree
    <1>5. CASE SendCheck \/ SendSimple
        BY <1>5 DEF SendCheck, SendSimple, AddMsg
    <1>6. CASE Tick
        <2>1. Older(e) \in listSendMsg'[c]
            BY <1>0, <1>6 DEF Tick, TypeOK
        <2>2. Older(e).msg = e.msg
            BY <1>0 DEF Older, Entry
        <2> QED BY <2>1, <2>2
    <1>7. CASE UNCHANGED listSendMsg
        BY <1>7
    <1> QED
        BY <1>1, <1>2, <1>3, <1>4, <1>5, <1>6, <1>7
        DEF Next, vars, CreateObject, DestroyObject, BecomeZombie, LoseUp, LoseDown,
            ClientHandle

\* An answer never cancels a message the client has not handled.
THEOREM AnswersAreSound ==
    ASSUME ReuseInFlight = FALSE
    PROVE  Spec => LeavesForAReason
    <1>1. Init => AckInv
        BY AckInit
    <1>2. AckInv /\ [Next]_vars => AckInv'
        BY AckStep
    <1>3. AckInv /\ [Next]_vars =>
            [\A c \in Client : \A e \in listSendMsg[c] :
                IsCheck(e) /\ ~(\E f \in listSendMsg'[c] : f.msg = e.msg) =>
                    \/ e.msg \in handled[c]
                    \/ e.sends = MaxSend
                    \/ status'[c] = "none"]_vars
        BY LeaveStep
    <1> QED BY <1>1, <1>2, <1>3, PTL DEF Spec, LeavesForAReason

(***************************************************************************)
(* Part 3.  The queues implement Delivery.                                 *)
(***************************************************************************)
Seen(e) == [msg |-> e.msg, tries |-> e.sends]
SeenIn(q) == {Seen(e) : e \in {f \in q : IsCheck(f)}}

\* What is outstanding is what the queues hold,
LEMMA OutstandingIs == Outstanding = [c \in Client |-> SeenIn(listSendMsg[c])]
    BY DEF Outstanding, SeenIn, Seen

\* now and after the step.
LEMMA OutstandingWillBe == Outstanding' = [c \in Client |-> SeenIn(listSendMsg'[c])]
    BY DEF Outstanding, SeenIn, Seen, IsCheck

\* The initial states map to initial states of the delivery.
LEMMA PromiseInit == Init => Promise!Init
    BY DEF Init, Promise!Init, Outstanding

\* check_front_event writes the due entries and forgets the worn out ones.
LEMMA WriteStep ==
    ASSUME AckInv, NEW c \in Client, CheckFrontEvent(c)
    PROVE  Promise!Next
    <1> DEFINE q == listSendMsg[c]
               some == {Seen(e) : e \in {f \in q : IsCheck(f) /\ Due(f)}}
               Aft(e) == IF Due(e) THEN [e EXCEPT !.sends = @ + 1, !.age = 0] ELSE e
               More(o) == [o EXCEPT !.tries = @ + 1]
               kept == (SeenIn(q) \ some) \cup {More(o) : o \in {p \in some : p.tries < MaxSend}}
    <1>1. q \in SUBSET Entry /\ \A e \in q : e.sends \in 0 .. MaxSend
        BY DEF AckInv, IdInv, TypeOK, Entry
    <1>2. \A e, f \in q : Seen(e) = Seen(f) => e = f
        BY DEF Seen, AckInv, EntriesAgree
    <1>3. \A e \in q : /\ IsCheck(Aft(e)) <=> IsCheck(e)
                       /\ Due(e) => Seen(Aft(e)) = More(Seen(e))
                       /\ ~Due(e) => Aft(e) = e
        BY <1>1 DEF Seen, IsCheck, Entry
    <1>4. AfterEvent(q) = {Aft(e) : e \in {f \in q \ GivenUp(q) : IsCheck(f)}}
        BY DEF AfterEvent
    <1>5. \A e \in q : IsCheck(e) /\ Due(e) => (e \in GivenUp(q) <=> ~(e.sends < MaxSend))
        BY <1>1, CheckFrontAssumption DEF GivenUp
    <1>6. \A e \in q : ~Due(e) => e \notin GivenUp(q)
        BY DEF GivenUp
    <1>7. SeenIn(AfterEvent(q)) = kept
        <2>1. ASSUME NEW o \in SeenIn(AfterEvent(q)) PROVE o \in kept
            <3>1. PICK e \in q : IsCheck(e) /\ e \notin GivenUp(q) /\ o = Seen(Aft(e))
                BY <1>4 DEF SeenIn
            <3>2. CASE Due(e)
                <4>1. Seen(e) \in some /\ Seen(e).tries < MaxSend
                    BY <1>5, <3>1, <3>2 DEF Seen
                <4> QED BY <1>3, <3>1, <3>2, <4>1
            <3>3. CASE ~Due(e)
                <4>1. o = Seen(e) /\ o \in SeenIn(q)
                    BY <1>3, <3>1, <3>3 DEF SeenIn
                <4>2. o \notin some
                    BY <1>2, <3>3, <4>1
                <4> QED BY <4>1, <4>2
            <3> QED BY <3>2, <3>3
        <2>2. ASSUME NEW o \in kept PROVE o \in SeenIn(AfterEvent(q))
            <3>1. CASE o \in SeenIn(q) \ some
                <4>1. PICK e \in q : IsCheck(e) /\ o = Seen(e)
                    BY <3>1 DEF SeenIn
                <4>2. ~Due(e)
                    BY <3>1, <4>1
                <4>3. e \in AfterEvent(q)
                    BY <1>3, <1>4, <1>6, <4>1, <4>2
                <4> QED BY <4>1, <4>3 DEF SeenIn
            <3>2. CASE o \in {More(p) : p \in {r \in some : r.tries < MaxSend}}
                <4>1. PICK e \in q : IsCheck(e) /\ Due(e) /\ Seen(e).tries < MaxSend
                                     /\ o = More(Seen(e))
                    BY <3>2
                <4>2. e \notin GivenUp(q)
                    BY <1>5, <4>1 DEF Seen
                <4>3. Aft(e) \in AfterEvent(q) /\ IsCheck(Aft(e))
                    BY <1>3, <1>4, <4>1, <4>2
                <4>4. o = Seen(Aft(e))
                    BY <1>3, <4>1
                <4> HIDE DEF Aft
                <4> QED BY <4>3, <4>4 DEF SeenIn
            <3> QED BY <3>1, <3>2
        <2> QED BY <2>1, <2>2
    <1>8. some \in SUBSET Outstanding[c]
        BY OutstandingIs DEF SeenIn
    <1>9. listSendMsg' = [listSendMsg EXCEPT ![c] = AfterEvent(q)]
          /\ UNCHANGED <<made, handled>>
        BY DEF CheckFrontEvent
    <1>10. Outstanding' = [Outstanding EXCEPT ![c] = kept]
        <2>1. \A d \in Client : SeenIn(listSendMsg'[d]) =
                IF d = c THEN kept ELSE SeenIn(listSendMsg[d])
            BY <1>7, <1>9 DEF AckInv, IdInv, TypeOK
        <2> HIDE DEF kept
        <2> QED BY <2>1, OutstandingIs, OutstandingWillBe
    <1>11. Outstanding[c] = SeenIn(q)
        BY OutstandingIs
    <1>12. Promise!Write(c, some)
        BY <1>8, <1>9, <1>10, <1>11 DEF Promise!Write
    <1> HIDE DEF some
    <1> QED BY <1>8, <1>12 DEF Promise!Next

\* Every step maps to a step of the delivery, or to none.
LEMMA PromiseStep ==
    ASSUME ReuseInFlight = FALSE, AckInv, [Next]_vars
    PROVE  [Promise!Next]_Promise!vars
    <1>0. TypeOK
        BY DEF AckInv, IdInv
    <1>same. ASSUME UNCHANGED <<listSendMsg, made, handled>>
             PROVE  UNCHANGED Promise!vars
        BY <1>same, OutstandingIs, OutstandingWillBe DEF Promise!vars
    <1>1. ASSUME NEW c \in Client, Connect(c) PROVE Promise!Next
        <2>1. listSendMsg[c] = {}
            BY <1>1 DEF Connect, AckInv, UnlistedEmpty
        <2>2. listSendMsg' = listSendMsg
            BY <1>0, <1>1, <2>1 DEF Connect, TypeOK
        <2>3. Outstanding' = Outstanding /\ Outstanding[c] = {}
            BY <2>1, <2>2, OutstandingIs, OutstandingWillBe DEF SeenIn
        <2>4. Promise!Restart(c)
            BY <1>1, <2>3 DEF Promise!Restart, Connect
        <2> QED BY <2>4 DEF Promise!Next
    <1>2. ASSUME NEW c \in Client, CheckFrontEvent(c) PROVE Promise!Next
        BY <1>2, WriteStep
    <1>3. ASSUME NEW c \in Client, DestroyClient(c) PROVE Promise!Next
        <2>1. \A d \in Client : SeenIn(listSendMsg'[d]) =
                IF d = c THEN {} ELSE SeenIn(listSendMsg[d])
            BY <1>0, <1>3 DEF DestroyClient, TypeOK, SeenIn
        <2>2. Outstanding' = [Outstanding EXCEPT ![c] = {}]
            BY <2>1, OutstandingIs, OutstandingWillBe
        <2>3. Promise!Drop(c)
            BY <1>3, <2>2 DEF Promise!Drop, DestroyClient
        <2> QED BY <2>3 DEF Promise!Next
    <1>4. ASSUME NEW c \in Client, NEW i \in up[c], RecvCheck(c, i)
          PROVE  Promise!Next \/ UNCHANGED Promise!vars
        <2>1. CASE UNCHANGED <<listID, listSendMsg>>
            BY <1>4, <1>same, <2>1 DEF RecvCheck
        <2>2. CASE \E e \in listSendMsg[c] :
                     e.id = i /\ listSendMsg' = [listSendMsg EXCEPT ![c] = @ \ {e}]
            <3>1. PICK e \in listSendMsg[c] :
                     e.id = i /\ listSendMsg' = [listSendMsg EXCEPT ![c] = @ \ {e}]
                BY <2>2
            <3>2. IsCheck(e) /\ e.msg \in handled[c]
                BY <1>0, <3>1, CheckFrontAssumption DEF IsCheck, TypeOK, AckInv, AnswersAgree
            <3>3. Seen(e) \in SeenIn(listSendMsg[c]) /\ Seen(e).msg = e.msg
                BY <3>2 DEF SeenIn, Seen
            <3>4. SeenIn(listSendMsg[c] \ {e}) = SeenIn(listSendMsg[c]) \ {Seen(e)}
                <4>1. \A f \in listSendMsg[c] : Seen(f) = Seen(e) => f = e
                    BY DEF Seen, AckInv, EntriesAgree
                <4> QED BY <4>1 DEF SeenIn
            <3>5. \A d \in Client : SeenIn(listSendMsg'[d]) =
                    IF d = c THEN SeenIn(listSendMsg[c]) \ {Seen(e)} ELSE SeenIn(listSendMsg[d])
                BY <1>0, <3>1, <3>4 DEF TypeOK
            <3>6. Outstanding' = [Outstanding EXCEPT ![c] = @ \ {Seen(e)}]
                BY <3>5, OutstandingIs, OutstandingWillBe
            <3>7. Seen(e) \in Outstanding[c]
                BY <3>3, OutstandingIs
            <3>8. Promise!Confirm(c, Seen(e))
                BY <1>4, <3>2, <3>3, <3>6, <3>7 DEF Promise!Confirm, RecvCheck
            <3> QED BY <3>7, <3>8 DEF Promise!Next
        <2> QED BY <1>4, <2>1, <2>2 DEF RecvCheck
    <1>5. ASSUME NEW c \in Client, NEW d \in down[c], ClientHandle(c, d) PROVE Promise!Next
        <2>1. d.msg \in 1 .. made
            BY <1>0 DEF AckInv, OnlyMade, TypeOK, Datagram, Msg
        <2>2. Outstanding' = Outstanding
            BY <1>5, OutstandingIs, OutstandingWillBe DEF ClientHandle
        <2>3. Promise!Handle(c, d.msg)
            BY <1>5, <2>2 DEF Promise!Handle, ClientHandle
        <2> QED BY <2>1, <2>3 DEF Promise!Next
    <1>6. CASE SendCheck
        <2>1. PICK targets \in Targets, i \in NewIds : AddMsg(targets, NewCheck(made + 1, i))
            BY <1>6 DEF SendCheck
        <2> DEFINE n == NewCheck(made + 1, i)
                   R == Receivers(targets)
        <2>2. R \in SUBSET Client
            BY <2>1 DEF Receivers, Targets, Listed
        <2>3. IsCheck(n) /\ Seen(n) = [msg |-> made + 1, tries |-> 0]
            BY <2>1, CheckFrontAssumption DEF NewCheck, IsCheck, Seen, NewIds, FreeIds
        <2>4. \A c \in Client : SeenIn(listSendMsg'[c]) =
                IF c \in R THEN SeenIn(listSendMsg[c]) \cup {Seen(n)} ELSE SeenIn(listSendMsg[c])
            <3>1. \A c \in Client : listSendMsg'[c] =
                    IF c \in R THEN listSendMsg[c] \cup {n} ELSE listSendMsg[c]
                BY <2>1 DEF AddMsg
            <3>2. \A s : SeenIn(s \cup {n}) = SeenIn(s) \cup {Seen(n)}
                BY <2>3 DEF SeenIn
            <3> QED BY <3>1, <3>2
        <2>5. Outstanding' = [c \in Client |->
                IF c \in R THEN Outstanding[c] \cup {Seen(n)} ELSE Outstanding[c]]
            <3> HIDE DEF n, R
            <3> QED BY <2>4, OutstandingIs, OutstandingWillBe
        <2>6. Promise!Post(R)
            BY <1>6, <2>3, <2>5 DEF Promise!Post, SendCheck
        <2> QED BY <2>2, <2>6 DEF Promise!Next
    <1>7. CASE SendSimple
        <2>1. PICK targets \in Targets : AddMsg(targets, NewCheck(made + 1, NoId))
            BY <1>7 DEF SendSimple
        <2>2. ~IsCheck(NewCheck(made + 1, NoId))
            BY DEF NewCheck, IsCheck
        <2>3. \A c \in Client : SeenIn(listSendMsg'[c]) = SeenIn(listSendMsg[c])
            BY <2>1, <2>2 DEF AddMsg, SeenIn
        <2>4. Outstanding' = [c \in Client |->
                IF c \in {} THEN Outstanding[c] \cup {[msg |-> made + 1, tries |-> 0]}
                ELSE Outstanding[c]]
            BY <2>3, OutstandingIs, OutstandingWillBe
        <2>5. Promise!Post({})
            BY <1>7, <2>4 DEF Promise!Post, SendSimple
        <2> QED BY <2>5 DEF Promise!Next
    <1>8. CASE Tick
        <2>1. \A c \in Client : /\ listSendMsg'[c] = {Older(e) : e \in listSendMsg[c]}
                                /\ listSendMsg[c] \in SUBSET Entry
            BY <1>0, <1>8 DEF Tick, TypeOK
        <2>2. \A e \in Entry : Seen(Older(e)) = Seen(e) /\ (IsCheck(Older(e)) <=> IsCheck(e))
            BY DEF Older, Entry, Seen, IsCheck
        <2>3. \A c \in Client : SeenIn(listSendMsg'[c]) = SeenIn(listSendMsg[c])
            BY <2>1, <2>2 DEF SeenIn
        <2>4. Outstanding' = Outstanding
            BY <2>3, OutstandingIs, OutstandingWillBe
        <2> QED BY <1>8, <2>4 DEF Tick, Promise!vars
    <1>9. CASE UNCHANGED <<listSendMsg, made, handled>>
        BY <1>9, <1>same
    <1> QED
        BY <1>1, <1>2, <1>3, <1>4, <1>5, <1>6, <1>7, <1>8, <1>9
        DEF Next, vars, CreateObject, DestroyObject, BecomeZombie, LoseUp, LoseDown

\* The resend queues implement the delivery promise.
THEOREM ImplementsDelivery ==
    ASSUME ReuseInFlight = FALSE
    PROVE  Spec => KeepsPromise
    <1>1. Init => AckInv /\ Promise!Init
        BY AckInit, PromiseInit
    <1>2. AckInv /\ [Next]_vars => AckInv'
        BY AckStep
    <1>3. AckInv /\ [Next]_vars => [Promise!Next]_Promise!vars
        BY PromiseStep
    <1> QED BY <1>1, <1>2, <1>3, PTL DEF Spec, KeepsPromise, Promise!Spec

(***************************************************************************)
(* Part 4.  Entries wear out: what EveryEntryResolved owes to the queues   *)
(* rather than to fairness, and here without asking what ids are drawn.    *)
(***************************************************************************)
Numbered ==
    \A c \in Client : \A e \in listSendMsg[c] :
        /\ e.msg <= made
        /\ \A f \in listSendMsg[c] : e.msg = f.msg => e = f

\* What check_front_event makes of an entry that stays,
Rewritten(e) == IF Due(e) THEN [e EXCEPT !.sends = @ + 1, !.age = 0] ELSE e

\* and what it does to its fields.
LEMMA RewrittenFields ==
    ASSUME NEW e \in Entry
    PROVE  LET f == Rewritten(e) IN
           /\ f.msg = e.msg /\ f.id = e.id
           /\ Due(e) => f.sends = e.sends + 1
           /\ ~Due(e) => f = e
    <1>1. CASE Due(e)
        <2>1. Rewritten(e) = [msg |-> e.msg, id |-> e.id, sends |-> e.sends + 1, age |-> 0]
            BY <1>1 DEF Rewritten, Entry
        <2> QED BY <1>1, <2>1
    <1>2. CASE ~Due(e)
        BY <1>2 DEF Rewritten
    <1> QED BY <1>1, <1>2

\* A tick makes an entry older, up to where it is due.
LEMMA OlderFields ==
    ASSUME NEW e \in Entry
    PROVE  LET f == Older(e) IN
           /\ f.msg = e.msg /\ f.id = e.id /\ f.sends = e.sends
           /\ f.age = IF e.age < MaxAge THEN e.age + 1 ELSE e.age
    BY DEF Older, Entry

\* The four things a step can do to a queue.
LEMMA QueueStep ==
    ASSUME IdInv, [Next]_vars, NEW c \in Client
    PROVE  \/ listSendMsg'[c] \subseteq listSendMsg[c] /\ made' \in {made, made + 1}
           \/ /\ made' = made + 1
              /\ \E i : listSendMsg'[c] = listSendMsg[c] \cup {NewCheck(made + 1, i)}
           \/ /\ made' = made
              /\ listSendMsg'[c] = {Rewritten(e) : e \in
                                        {f \in listSendMsg[c] \ GivenUp(listSendMsg[c]) : IsCheck(f)}}
           \/ made' = made /\ listSendMsg'[c] = {Older(e) : e \in listSendMsg[c]}
    <1> DEFINE Goal ==
           \/ listSendMsg'[c] \subseteq listSendMsg[c] /\ made' \in {made, made + 1}
           \/ /\ made' = made + 1
              /\ \E i : listSendMsg'[c] = listSendMsg[c] \cup {NewCheck(made + 1, i)}
           \/ /\ made' = made
              /\ listSendMsg'[c] = {Rewritten(e) : e \in
                                        {f \in listSendMsg[c] \ GivenUp(listSendMsg[c]) : IsCheck(f)}}
           \/ made' = made /\ listSendMsg'[c] = {Older(e) : e \in listSendMsg[c]}
    <1> SUFFICES Goal
        OBVIOUS
    <1>0. TypeOK
        BY DEF IdInv
    <1>1. ASSUME NEW d \in Client, Connect(d) PROVE Goal
        BY <1>0, <1>1 DEF Connect, TypeOK
    <1>2. ASSUME NEW d \in Client, CheckFrontEvent(d) PROVE Goal
        <2>1. CASE d = c
            <3>1. listSendMsg'[c] = AfterEvent(listSendMsg[c]) /\ made' = made
                BY <1>0, <1>2, <2>1 DEF CheckFrontEvent, TypeOK
            <3> QED BY <3>1 DEF AfterEvent, Rewritten
        <2>2. CASE d # c
            BY <1>0, <1>2, <2>2 DEF CheckFrontEvent, TypeOK
        <2> QED BY <2>1, <2>2
    <1>3. ASSUME NEW d \in Client, DestroyClient(d) PROVE Goal
        BY <1>0, <1>3 DEF DestroyClient, TypeOK
    <1>4. ASSUME NEW d \in Client, NEW i \in up[d], RecvCheck(d, i) PROVE Goal
        BY <1>0, <1>4 DEF RecvCheck, TypeOK
    <1>5. CASE SendCheck
        <2>1. PICK targets, i : AddMsg(targets, NewCheck(made + 1, i))
            BY <1>5 DEF SendCheck
        <2>2. \/ listSendMsg'[c] = listSendMsg[c]
              \/ listSendMsg'[c] = listSendMsg[c] \cup {NewCheck(made + 1, i)}
            BY <2>1 DEF AddMsg
        <2>3. made' = made + 1
            BY <1>5 DEF SendCheck
        <2> QED BY <2>2, <2>3
    <1>6. CASE SendSimple
        <2>1. PICK targets : AddMsg(targets, NewCheck(made + 1, NoId))
            BY <1>6 DEF SendSimple
        <2>2. \/ listSendMsg'[c] = listSendMsg[c]
              \/ listSendMsg'[c] = listSendMsg[c] \cup {NewCheck(made + 1, NoId)}
            BY <2>1 DEF AddMsg
        <2>3. made' = made + 1
            BY <1>6 DEF SendSimple
        <2> QED BY <2>2, <2>3
    <1>7. CASE Tick
        BY <1>7 DEF Tick
    <1>8. CASE UNCHANGED <<listSendMsg, made>>
        BY <1>8
    <1> QED
        BY <1>1, <1>2, <1>3, <1>4, <1>5, <1>6, <1>7, <1>8
        DEF Next, vars, CreateObject, DestroyObject, BecomeZombie, LoseUp, LoseDown,
            ClientHandle

\* Messages keep their numbers apart.
LEMMA NumberedStep == IdInv /\ Numbered /\ [Next]_vars => Numbered'
    <1> SUFFICES ASSUME IdInv, Numbered, [Next]_vars, NEW c \in Client
                 PROVE  \A e \in listSendMsg'[c] :
                            /\ e.msg <= made'
                            /\ \A f \in listSendMsg'[c] : e.msg = f.msg => e = f
        BY DEF Numbered
    <1>0. made \in Nat /\ \A e \in listSendMsg[c] : e \in Entry /\ e.msg \in Nat
        BY CheckFrontAssumption, EntryFields DEF IdInv, TypeOK, Msg
    <1>1. CASE listSendMsg'[c] \subseteq listSendMsg[c] /\ made' \in {made, made + 1}
        BY <1>0, <1>1 DEF Numbered
    <1>2. CASE made' = made + 1 /\ \E i : listSendMsg'[c] = listSendMsg[c] \cup {NewCheck(made + 1, i)}
        <2>1. PICK n : n.msg = made + 1 /\ listSendMsg'[c] = listSendMsg[c] \cup {n}
            BY <1>2 DEF NewCheck
        <2>2. \A e \in listSendMsg[c] : e.msg <= made /\ e.msg # n.msg
            BY <1>0, <2>1 DEF Numbered
        <2>3. \A e, f \in listSendMsg'[c] : e.msg = f.msg => e = f
            BY <2>1, <2>2 DEF Numbered
        <2>4. \A e \in listSendMsg'[c] : e.msg <= made'
            BY <1>0, <1>2, <2>1, <2>2
        <2> QED BY <2>3, <2>4
    <1>3. ASSUME NEW changed, made' = made,
                 \A e \in listSendMsg'[c] : \E x \in listSendMsg[c] : e = changed[x],
                 \A x \in listSendMsg[c] : changed[x].msg = x.msg
          PROVE  \A e \in listSendMsg'[c] :
                     /\ e.msg <= made'
                     /\ \A f \in listSendMsg'[c] : e.msg = f.msg => e = f
        <2> SUFFICES ASSUME NEW e \in listSendMsg'[c], NEW f \in listSendMsg'[c]
                     PROVE  e.msg <= made' /\ (e.msg = f.msg => e = f)
            OBVIOUS
        <2>1. PICK x \in listSendMsg[c] : e = changed[x]
            BY <1>3
        <2>2. PICK y \in listSendMsg[c] : f = changed[y]
            BY <1>3
        <2>3. e.msg = x.msg /\ f.msg = y.msg
            BY <1>3, <2>1, <2>2
        <2>4. x.msg <= made /\ (x.msg = y.msg => x = y)
            BY DEF Numbered
        <2> QED BY <1>3, <2>1, <2>2, <2>3, <2>4
    <1>4. CASE made' = made /\ listSendMsg'[c] = {Rewritten(e) : e \in
                  {f \in listSendMsg[c] \ GivenUp(listSendMsg[c]) : IsCheck(f)}}
        <2> DEFINE changed == [x \in listSendMsg[c] |-> Rewritten(x)]
        <2>1. \A x \in listSendMsg[c] : changed[x].msg = x.msg
            BY <1>0, RewrittenFields
        <2>2. \A e \in listSendMsg'[c] : \E x \in listSendMsg[c] : e = changed[x]
            BY <1>4
        <2> HIDE DEF changed
        <2> QED BY <1>3, <1>4, <2>1, <2>2
    <1>5. CASE made' = made /\ listSendMsg'[c] = {Older(e) : e \in listSendMsg[c]}
        <2> DEFINE changed == [x \in listSendMsg[c] |-> Older(x)]
        <2>1. \A x \in listSendMsg[c] : changed[x].msg = x.msg
            BY <1>0, OlderFields
        <2>2. \A e \in listSendMsg'[c] : \E x \in listSendMsg[c] : e = changed[x]
            BY <1>5
        <2> HIDE DEF changed
        <2> QED BY <1>3, <1>5, <2>1, <2>2
    <1> QED BY <1>1, <1>2, <1>4, <1>5, QueueStep

\* As long as an entry stays in its queue it is written more often or gets older,
\* each tick makes it older or finds it due, check_front_event finds no
\* SIMPLE one and no due one left as it was, and none is written a time more than
\* MaxSend says.  Ticks and calls that never end, which is what the fairness says,
\* then empty the queue: EveryEntryResolved.
THEOREM EntriesWearOut ==
    Spec => [][\A c \in Client : \A e \in listSendMsg[c], f \in listSendMsg'[c] :
                 e.msg = f.msg =>
                   /\ e.id = f.id /\ f.sends <= MaxSend /\ f.age <= MaxAge
                   /\ f.sends > e.sends \/ (f.sends = e.sends /\ f.age >= e.age)
                   /\ Tick => f.age = e.age + 1 \/ Due(f)
                   /\ CheckFrontEvent(c) =>
                        IsCheck(e) /\ (Due(e) => f.sends = e.sends + 1)]_vars
    <1> DEFINE Goal(c, e, f) ==
           /\ e.id = f.id /\ f.sends <= MaxSend /\ f.age <= MaxAge
           /\ f.sends > e.sends \/ (f.sends = e.sends /\ f.age >= e.age)
           /\ Tick => f.age = e.age + 1 \/ Due(f)
           /\ CheckFrontEvent(c) => IsCheck(e) /\ (Due(e) => f.sends = e.sends + 1)
    <1>1. Init => Numbered
        BY DEF Init, Numbered
    <1>2. IdInv /\ IdInv' /\ Numbered /\ [Next]_vars =>
            [\A c \in Client : \A e \in listSendMsg[c], f \in listSendMsg'[c] :
                e.msg = f.msg => Goal(c, e, f)]_vars
        <2> SUFFICES ASSUME IdInv, IdInv', Numbered, [Next]_vars, NEW c \in Client,
                            NEW e \in listSendMsg[c], NEW f \in listSendMsg'[c], e.msg = f.msg
                     PROVE  Goal(c, e, f)
            OBVIOUS
        <2>0. /\ e \in Entry /\ f \in Entry /\ made \in Nat
              /\ \A x \in listSendMsg[c] : x \in Entry
            BY DEF IdInv, TypeOK
        <2>1. /\ e.sends \in Nat /\ f.sends \in Nat /\ e.age \in Nat /\ f.age \in Nat
              /\ f.sends <= MaxSend /\ f.age <= MaxAge /\ e.age <= MaxAge
            BY <2>0, EntryFields, CheckFrontAssumption DEF MaxAge
        <2>2. \A x \in listSendMsg[c] : x.msg = e.msg => x = e
            BY DEF Numbered
        <2>3. /\ e.id = f.id
              /\ f.sends > e.sends \/ (f.sends = e.sends /\ f.age >= e.age)
            <3>1. CASE listSendMsg'[c] \subseteq listSendMsg[c]
                <4>1. f = e
                    BY <2>2, <3>1
                <4> QED BY <2>1, <4>1
            <3>2. CASE \E i : listSendMsg'[c] = listSendMsg[c] \cup {NewCheck(made + 1, i)}
                <4>1. PICK n : n.msg = made + 1 /\ listSendMsg'[c] = listSendMsg[c] \cup {n}
                    BY <3>2 DEF NewCheck
                <4>2. e.msg <= made /\ e.msg \in Nat
                    BY <2>0, EntryFields, CheckFrontAssumption DEF Numbered, Msg
                <4>3. f # n
                    BY <2>0, <4>1, <4>2
                <4>4. f = e
                    BY <2>2, <4>1, <4>3
                <4> QED BY <2>1, <4>4
            <3>3. CASE \E x \in listSendMsg[c] : f = Rewritten(x)
                <4>1. PICK x \in listSendMsg[c] : f = Rewritten(x)
                    BY <3>3
                <4>2. x = e
                    BY <2>0, <2>2, <4>1, RewrittenFields
                <4>3. /\ f.id = e.id /\ (Due(e) => f.sends = e.sends + 1)
                      /\ ~Due(e) => f = e
                    BY <2>0, <4>1, <4>2, RewrittenFields
                <4> QED BY <2>1, <4>3
            <3>4. CASE \E x \in listSendMsg[c] : f = Older(x)
                <4>1. PICK x \in listSendMsg[c] : f = Older(x)
                    BY <3>4
                <4>2. x = e
                    BY <2>0, <2>2, <4>1, OlderFields
                <4>3. /\ f.id = e.id /\ f.sends = e.sends
                      /\ f.age = IF e.age < MaxAge THEN e.age + 1 ELSE e.age
                    BY <2>0, <4>1, <4>2, OlderFields
                <4> QED BY <2>1, <4>3
            <3> QED BY <3>1, <3>2, <3>3, <3>4, QueueStep
        <2>4. ASSUME Tick PROVE f.age = e.age + 1 \/ Due(f)
            <3>1. listSendMsg'[c] = {Older(x) : x \in listSendMsg[c]}
                BY <2>4 DEF Tick
            <3>2. PICK x \in listSendMsg[c] : f = Older(x)
                BY <3>1
            <3>3. x = e
                BY <2>0, <2>2, <3>2, OlderFields
            <3>4. f.age = IF e.age < MaxAge THEN e.age + 1 ELSE e.age
                BY <2>0, <3>2, <3>3, OlderFields
            <3>5. MaxAge = Interval + 1 /\ Interval \in Nat
                BY CheckFrontAssumption DEF MaxAge
            <3> QED BY <2>1, <3>4, <3>5 DEF Due
        <2>5. ASSUME CheckFrontEvent(c)
              PROVE  IsCheck(e) /\ (Due(e) => f.sends = e.sends + 1)
            <3>1. listSendMsg'[c] = AfterEvent(listSendMsg[c])
                BY <2>5 DEF CheckFrontEvent, IdInv, TypeOK
            <3>2. PICK x \in listSendMsg[c] : IsCheck(x) /\ f = Rewritten(x)
                BY <3>1 DEF AfterEvent, Rewritten
            <3>3. x = e
                BY <2>0, <2>2, <3>2, RewrittenFields
            <3> QED BY <2>0, <3>2, <3>3, RewrittenFields
        <2> QED BY <2>1, <2>3, <2>4, <2>5
    <1> HIDE DEF Goal
    <1>3. Spec => [][\A c \in Client : \A e \in listSendMsg[c], f \in listSendMsg'[c] :
                        e.msg = f.msg => Goal(c, e, f)]_vars
        BY <1>1, <1>2, IdInit, IdStep, NumberedStep, PTL DEF Spec
    <1> QED BY <1>3 DEF Goal
=============================================================================
