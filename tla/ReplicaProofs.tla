---------------------------- MODULE ReplicaProofs ----------------------------
(***************************************************************************)
(* Proofs about Replica.  The server's steps are brought into one form     *)
(* (Tells): a sequence of datagrams is appended, and what they say is true *)
(* of the server.  Then the invariant is shown for that form once, and for *)
(* each handler of the client.                                             *)
(***************************************************************************)
EXTENDS Replica, SequenceTheorems, FiniteSetTheorems, TLAPS

Msgs == Reliable \cup Simple

\* The places of the "kill"s in a sequence of datagrams, and their number.
KillsIn(q) == {i \in DOMAIN q : q[i].cmd = "kill"}
Kills(q) == Cardinality(KillsIn(q))

-----------------------------------------------------------------------------
(* Sequences.                                                               *)

LEMMA KillsFinite ==
  ASSUME NEW q \in Seq(Msgs)
  PROVE  IsFiniteSet(KillsIn(q)) /\ Kills(q) \in Nat
<1>1. IsFiniteSet(1 .. Len(q))  BY LenProperties, FS_Interval
<1>2. KillsIn(q) \in SUBSET (1 .. Len(q))  BY LenProperties DEF KillsIn
<1>3. IsFiniteSet(KillsIn(q))  BY <1>1, <1>2, FS_Subset
<1> QED  BY <1>3, FS_CardinalityType DEF Kills

\* What is appended comes after what was there.
LEMMA Appended ==
  ASSUME NEW q \in Seq(Msgs), NEW p \in Seq(Msgs)
  PROVE  /\ q \o p \in Seq(Msgs)
         /\ DOMAIN (q \o p) = 1 .. (Len(q) + Len(p))
         /\ DOMAIN q = 1 .. Len(q) /\ DOMAIN p = 1 .. Len(p)
         /\ Len(q) \in Nat /\ Len(p) \in Nat
         /\ \A i \in DOMAIN (q \o p) : i <= Len(q) => i \in DOMAIN q /\ (q \o p)[i] = q[i]
         /\ \A i \in DOMAIN (q \o p) :
              i > Len(q) => i - Len(q) \in DOMAIN p /\ (q \o p)[i] = p[i - Len(q)]
<1>1. /\ q \o p \in Seq(Msgs)
      /\ Len(q \o p) = Len(q) + Len(p)
      /\ \A i \in 1 .. Len(q) + Len(p) :
           (q \o p)[i] = IF i <= Len(q) THEN q[i] ELSE p[i - Len(q)]
  BY ConcatProperties
<1>2. Len(q) \in Nat /\ Len(p) \in Nat /\ DOMAIN q = 1 .. Len(q) /\ DOMAIN p = 1 .. Len(p)
  BY LenProperties
<1>3. DOMAIN (q \o p) = 1 .. (Len(q) + Len(p))  BY <1>1, LenProperties
<1>4. \A i \in DOMAIN (q \o p) : i <= Len(q) => i \in DOMAIN q /\ (q \o p)[i] = q[i]
  BY <1>1, <1>2, <1>3
<1>5. \A i \in DOMAIN (q \o p) :
        i > Len(q) => i - Len(q) \in DOMAIN p /\ (q \o p)[i] = p[i - Len(q)]
  BY <1>1, <1>2, <1>3
<1> QED  BY <1>1, <1>2, <1>3, <1>4, <1>5

\* What is left when a datagram is taken keeps its order.
LEMMA Removed ==
  ASSUME NEW q \in Seq(Msgs), NEW k \in DOMAIN q
  PROVE  /\ RemoveAt(q, k) \in Seq(Msgs)
         /\ DOMAIN RemoveAt(q, k) = 1 .. (Len(q) - 1)
         /\ DOMAIN q = 1 .. Len(q) /\ Len(q) \in Nat
         /\ \A i \in DOMAIN RemoveAt(q, k) :
              /\ i < k => i \in DOMAIN q /\ RemoveAt(q, k)[i] = q[i]
              /\ i >= k => i + 1 \in DOMAIN q /\ RemoveAt(q, k)[i] = q[i + 1]
<1> DEFINE a == SubSeq(q, 1, k - 1)
           b == SubSeq(q, k + 1, Len(q))
           n == Len(q)
<1>1. n \in Nat /\ DOMAIN q = 1 .. n /\ k \in 1 .. n  BY LenProperties
<1>2. \A i \in 1 .. n : q[i] \in Msgs  BY ElementOfSeq
<1>3. a \in Seq(Msgs) /\ Len(a) = k - 1 /\ \A i \in 1 .. k - 1 : a[i] = q[i]
  <2>1. 1 \in Int /\ k - 1 \in Int  BY <1>1
  <2>2. \A i \in 1 .. k - 1 : q[i] \in Msgs  BY <1>1, <1>2
  <2>3. /\ a \in Seq(Msgs)
        /\ Len(a) = IF 1 <= k - 1 THEN k - 1 - 1 + 1 ELSE 0
        /\ \A i \in 1 .. k - 1 - 1 + 1 : a[i] = q[1 + i - 1]
    BY <2>1, <2>2, SubSeqProperties
  <2> HIDE DEF a
  <2> QED  BY <2>3, <1>1
<1>4. b \in Seq(Msgs) /\ Len(b) = n - k /\ \A i \in 1 .. n - k : b[i] = q[k + i]
  <2>1. k + 1 \in Int /\ n \in Int  BY <1>1
  <2>2. \A i \in k + 1 .. n : q[i] \in Msgs  BY <1>1, <1>2
  <2>3. /\ b \in Seq(Msgs)
        /\ Len(b) = IF k + 1 <= n THEN n - (k + 1) + 1 ELSE 0
        /\ \A i \in 1 .. n - (k + 1) + 1 : b[i] = q[k + 1 + i - 1]
    BY <2>1, <2>2, SubSeqProperties
  <2> HIDE DEF b, n
  <2>4. Len(b) = n - k  BY <2>3, <1>1
  <2>5. ASSUME NEW i \in 1 .. n - k  PROVE b[i] = q[k + i]
    <3>1. i \in 1 .. n - (k + 1) + 1 /\ k + 1 + i - 1 = k + i  BY <1>1
    <3> QED  BY <3>1, <2>3
  <2> QED  BY <2>3, <2>4, <2>5
<1>5. RemoveAt(q, k) = a \o b  BY DEF RemoveAt
<1> HIDE DEF a, b, n
<1>6. /\ a \o b \in Seq(Msgs)
      /\ DOMAIN (a \o b) = 1 .. (Len(a) + Len(b))
      /\ \A i \in DOMAIN (a \o b) : i <= Len(a) => (a \o b)[i] = a[i]
      /\ \A i \in DOMAIN (a \o b) : i > Len(a) => (a \o b)[i] = b[i - Len(a)]
  BY <1>3, <1>4, Appended
<1>7. DOMAIN (a \o b) = 1 .. (n - 1)  
  <2>1. Len(a) + Len(b) = n - 1  BY <1>1, <1>3, <1>4
  <2> QED  BY <1>6, <2>1
<1>8. ASSUME NEW i \in DOMAIN (a \o b), i < k
      PROVE  i \in DOMAIN q /\ (a \o b)[i] = q[i]
  <2>1. i \in 1 .. k - 1 /\ i <= Len(a) /\ i \in 1 .. n  BY <1>1, <1>3, <1>7, <1>8
  <2> QED  BY <2>1, <1>1, <1>3, <1>6
<1>9. ASSUME NEW i \in DOMAIN (a \o b), i >= k
      PROVE  i + 1 \in DOMAIN q /\ (a \o b)[i] = q[i + 1]
  <2>1. i \in 1 .. n - 1 /\ i > Len(a)  BY <1>1, <1>3, <1>7, <1>9
  <2>2. (a \o b)[i] = b[i - (k - 1)]  BY <1>3, <1>6, <2>1
  <2>3. i - (k - 1) \in 1 .. n - k  BY <2>1, <1>1, <1>9
  <2>4. k + (i - (k - 1)) = i + 1 /\ i + 1 \in 1 .. n  BY <2>1, <1>1
  <2>5. b[i - (k - 1)] = q[k + (i - (k - 1))]  BY <1>4, <2>3
  <2> QED  BY <2>2, <2>4, <2>5, <1>1
<1>10. n = Len(q)  BY DEF n
<1> QED  BY <1>1, <1>5, <1>6, <1>7, <1>8, <1>9, <1>10

\* The two sequences together carry no more kills than each by itself.
LEMMA KillsOfAppended ==
  ASSUME NEW q \in Seq(Msgs), NEW p \in Seq(Msgs)
  PROVE  Kills(q \o p) <= Kills(q) + Kills(p)
<1> DEFINE late == {i \in KillsIn(q \o p) : i > Len(q)}
           f == [i \in late |-> i - Len(q)]
<1>1. IsFiniteSet(KillsIn(q)) /\ IsFiniteSet(KillsIn(p)) /\ Kills(q) \in Nat /\ Kills(p) \in Nat
  BY KillsFinite
<1>2. f \in [late -> KillsIn(p)]  BY Appended DEF KillsIn
<1>3. \A i, j \in late : f[i] = f[j] => i = j  BY Appended DEF KillsIn
<1>4. f \in Injection(late, KillsIn(p))  BY <1>2, <1>3 DEF Injection, IsInjective
<1>5. IsFiniteSet(late) /\ Cardinality(late) <= Kills(p)
  BY <1>1, <1>4, FS_Injection DEF Kills
<1>6. KillsIn(q \o p) \in SUBSET (KillsIn(q) \cup late)
  BY Appended DEF KillsIn
<1>7. /\ IsFiniteSet(KillsIn(q) \cup late)
      /\ Cardinality(KillsIn(q) \cup late) =
           Cardinality(KillsIn(q)) + Cardinality(late) - Cardinality(KillsIn(q) \cap late)
  BY <1>1, <1>5, FS_Union
<1>8. Cardinality(KillsIn(q) \cap late) \in Nat
  <2>1. KillsIn(q) \cap late \in SUBSET late  OBVIOUS
  <2>2. IsFiniteSet(KillsIn(q) \cap late)  BY <1>5, <2>1, FS_Subset
  <2> QED  BY <2>2, FS_CardinalityType
<1>9. Kills(q \o p) <= Cardinality(KillsIn(q) \cup late)
  BY <1>6, <1>7, FS_Subset DEF Kills
<1>10. Cardinality(late) \in Nat /\ Kills(q \o p) \in Nat
  BY <1>5, Appended, KillsFinite, FS_CardinalityType
<1> HIDE DEF late
<1> QED  BY <1>1, <1>5, <1>7, <1>8, <1>9, <1>10 DEF Kills

\* Who takes a kill leaves one less.
LEMMA KillsOfRemoved ==
  ASSUME NEW q \in Seq(Msgs), NEW k \in DOMAIN q
  PROVE  /\ Kills(RemoveAt(q, k)) <= Kills(q)
         /\ q[k].cmd = "kill" => Kills(RemoveAt(q, k)) <= Kills(q) - 1
<1> DEFINE r == RemoveAt(q, k)
           rest == KillsIn(q) \ {k}
           f == [i \in KillsIn(r) |-> IF i < k THEN i ELSE i + 1]
<1>1. IsFiniteSet(KillsIn(q)) /\ Kills(q) \in Nat  BY KillsFinite
<1>2. /\ IsFiniteSet(rest)
      /\ Cardinality(rest) = IF k \in KillsIn(q) THEN Kills(q) - 1 ELSE Kills(q)
  BY <1>1, FS_RemoveElement DEF Kills
<1>3. /\ DOMAIN r = 1 .. (Len(q) - 1) /\ DOMAIN q = 1 .. Len(q) /\ Len(q) \in Nat
      /\ \A i \in DOMAIN r :
           /\ i < k => i \in DOMAIN q /\ r[i] = q[i]
           /\ i >= k => i + 1 \in DOMAIN q /\ r[i] = q[i + 1]
  BY Removed
<1> HIDE DEF r
<1>4. \A i \in KillsIn(r) : f[i] \in rest
  BY <1>3 DEF KillsIn
<1>5. \A i, j \in KillsIn(r) : f[i] = f[j] => i = j
  BY <1>3 DEF KillsIn
<1>6. f \in Injection(KillsIn(r), rest)
  <2>1. f \in [KillsIn(r) -> rest]  BY <1>4
  <2> QED  BY <2>1, <1>5 DEF Injection, IsInjective
<1>7. Cardinality(KillsIn(r)) <= Cardinality(rest)  BY <1>2, <1>6, FS_Injection
<1>8. Kills(r) \in Nat  BY Removed, KillsFinite DEF r
<1>9. q[k].cmd = "kill" => k \in KillsIn(q)  BY DEF KillsIn
<1> QED  BY <1>1, <1>2, <1>7, <1>8, <1>9 DEF Kills, r
-----------------------------------------------------------------------------
(* Messages.                                                                *)

LEMMA MsgFields ==
  ASSUME NEW m \in Msgs
  PROVE  \/ m.cmd = "init"
         \/ m.cmd = "newtux" /\ m.obj \in Tuxes /\ m.kind \in Looks
         \/ m.cmd \in {"kill", "event"} /\ m.obj \in Tuxes
         \/ m.cmd = "del" /\ m.obj \in Objects /\ m = Del(m.obj) /\ m \in Reliable
         \/ m.cmd = "additem" /\ m.obj \in AllItems /\ m = Additem(m.obj) /\ m \in Reliable
         \/ m.cmd = "shot" /\ m.obj \in Shots /\ m.kind \in Guns
<1>1. CASE m \in Reliable
  <2>1. m = InitMsg \/ (\E o \in Objects : m = Del(o)) \/ (\E i \in AllItems : m = Additem(i))
    BY <1>1, Zenon DEF Reliable
  <2>2. CASE m = InitMsg  BY <2>2 DEF InitMsg, Msg
  <2>3. ASSUME NEW o \in Objects, m = Del(o)
        PROVE  m.cmd = "del" /\ m.obj \in Objects /\ m = Del(m.obj)
    BY <2>3 DEF Del, Msg
  <2>4. ASSUME NEW i \in AllItems, m = Additem(i)
        PROVE  m.cmd = "additem" /\ m.obj \in AllItems /\ m = Additem(m.obj)
    BY <2>4 DEF Additem, Msg
  <2> QED  BY <1>1, <2>1, <2>2, <2>3, <2>4
<1>2. CASE m \in Simple
  BY <1>2 DEF Simple
<1> QED  BY <1>1, <1>2 DEF Msgs

\* What is true of the server.  A "kill" says nothing that could be untrue.
Truths == {m \in Msgs : /\ m.cmd = "newtux" => srv[m.obj] = "here"
                        /\ m.cmd = "del" => srv[m.obj] = "gone"}
Deathless == {m \in Msgs : m.cmd # "kill"}

\* SetToSeq numbers the elements of a finite set.
LEMMA SetToSeqNumbers ==
  ASSUME NEW S, IsFiniteSet(S)
  PROVE  /\ Cardinality(S) \in Nat
         /\ SetToSeq(S) \in [1 .. Cardinality(S) -> S]
         /\ \A x \in S : \E k \in DOMAIN SetToSeq(S) : SetToSeq(S)[k] = x
<1>1. Cardinality(S) \in Nat /\ ExistsBijection(1 .. Cardinality(S), S)  BY FS_CardinalityType
<1> DEFINE n == Cardinality(S)
           Fits(g) == g \in [1 .. n -> S] /\ IsInjective(g)
<1>2. \E g : Fits(g)
  <2>1. PICK f \in Bijection(1 .. n, S) : TRUE  BY <1>1, Zenon DEF ExistsBijection
  <2>2. f \in Injection(1 .. n, S)  BY <2>1 DEF Bijection
  <2> QED  BY <2>2 DEF Injection
<1>3. Fits(CHOOSE g : Fits(g))
  <2> HIDE DEF Fits
  <2> QED  BY <1>2, Zenon
<1>4. SetToSeq(S) = CHOOSE g : Fits(g)  BY Zenon DEF SetToSeq
<1>5. Fits(SetToSeq(S))  BY <1>3, <1>4
<1> DEFINE s == SetToSeq(S)
<1>6. s \in Injection(1 .. n, S)  BY <1>5 DEF Injection
<1>7. IsFiniteSet(1 .. n) /\ Cardinality(1 .. n) = n  BY <1>1, FS_Interval
<1> HIDE DEF s
<1>8. s \in Surjection(1 .. n, S)
  <2> HIDE DEF n
  <2> QED  BY <1>6, <1>7, FS_Injection DEF n
<1>9. \A x \in S : \E k \in DOMAIN s : s[k] = x  BY <1>8 DEF Surjection
<1> QED  BY <1>1, <1>5, <1>9 DEF s

LEMMA SetToSeqType ==
  ASSUME NEW S, IsFiniteSet(S), NEW T, S \subseteq T
  PROVE  SetToSeq(S) \in Seq(T)
<1>1. Cardinality(S) \in Nat /\ SetToSeq(S) \in [1 .. Cardinality(S) -> S]  BY SetToSeqNumbers
<1>2. SetToSeq(S) \in [1 .. Cardinality(S) -> T]  BY <1>1
<1> QED  BY <1>1, <1>2, SeqDef

LEMMA NoKills ==
  ASSUME NEW p \in Seq(Deathless)
  PROVE  p \in Seq(Msgs) /\ Kills(p) = 0
<1>1. DOMAIN p = 1 .. Len(p) /\ \A i \in 1 .. Len(p) : p[i] \in Deathless
  BY LenProperties, ElementOfSeq
<1>2. KillsIn(p) = {}  BY <1>1 DEF KillsIn, Deathless
<1>3. Deathless \subseteq Msgs  BY DEF Deathless
<1>4. p \in Seq(Msgs)  BY <1>3
<1> QED  BY <1>2, <1>4, FS_EmptySet DEF Kills

LEMMA OneMessage ==
  ASSUME NEW T, NEW m \in T
  PROVE  <<m>> \in Seq(T) /\ DOMAIN <<m>> = {1} /\ <<m>>[1] = m
OBVIOUS

LEMMA KillsOfOne ==
  ASSUME NEW m \in Msgs
  PROVE  Kills(<<m>>) \in Nat /\ Kills(<<m>>) <= 1
<1>1. IsFiniteSet({1}) /\ Cardinality({1}) = 1  BY FS_Singleton
<1>2. KillsIn(<<m>>) \in SUBSET {1}  BY OneMessage DEF KillsIn
<1>3. Cardinality(KillsIn(<<m>>)) <= 1  BY <1>1, <1>2, FS_Subset
<1>4. <<m>> \in Seq(Msgs)  BY OneMessage
<1> QED  BY <1>3, <1>4, KillsFinite DEF Kills

LEMMA MsgsOf ==
  /\ \A t \in Tuxes, l \in Looks :
       Msg("newtux", t, l) \in Msgs /\ Msg("newtux", t, l).cmd = "newtux"
       /\ Msg("newtux", t, l).obj = t
  /\ \A t \in Tuxes : Msg("kill", t, "") \in Msgs /\ Msg("event", t, "") \in Msgs
       /\ Msg("kill", t, "").cmd = "kill" /\ Msg("event", t, "").cmd = "event"
  /\ \A s \in Shots, g \in Guns : Msg("shot", s, g) \in Msgs /\ Msg("shot", s, g).cmd = "shot"
  /\ \A o \in Objects : Del(o) \in Reliable /\ Del(o).cmd = "del" /\ Del(o).obj = o
  /\ \A i \in AllItems : Additem(i) \in Reliable /\ Additem(i).cmd = "additem"
  /\ InitMsg \in Reliable /\ InitMsg.cmd = "init"
  /\ Reliable \subseteq Msgs
  /\ \A m \in Reliable : m.cmd \notin {"kill", "newtux"}
<1>1. ASSUME NEW t \in Tuxes, NEW l \in Looks  PROVE Msg("newtux", t, l) \in Simple
  BY DEF Simple, Msg
<1>2. ASSUME NEW t \in Tuxes
      PROVE  Msg("kill", t, "") \in Simple /\ Msg("event", t, "") \in Simple
  BY DEF Simple, Msg
<1>3. ASSUME NEW s \in Shots, NEW g \in Guns  PROVE Msg("shot", s, g) \in Simple
  BY DEF Simple, Msg
<1>4. \A o \in Objects : Del(o) \in Reliable  BY DEF Reliable
<1>5. \A i \in AllItems : Additem(i) \in Reliable  BY DEF Reliable
<1>6. InitMsg \in Reliable  BY DEF Reliable
<1>7. \A c, o, k : Msg(c, o, k).cmd = c /\ Msg(c, o, k).obj = o  BY DEF Msg
<1>8. \A o : Del(o).cmd = "del" /\ Del(o).obj = o  BY <1>7 DEF Del
<1>9. \A o : Additem(o).cmd = "additem"  BY <1>7 DEF Additem
<1>10. InitMsg.cmd = "init"  BY <1>7 DEF InitMsg
<1>11. \A m \in Reliable : m.cmd \notin {"kill", "newtux"}
  BY <1>8, <1>9, <1>10 DEF Reliable
<1>12. Reliable \subseteq Msgs /\ Simple \subseteq Msgs  BY DEF Msgs
<1>13. \A t \in Tuxes, l \in Looks :
         Msg("newtux", t, l) \in Msgs /\ Msg("newtux", t, l).cmd = "newtux"
         /\ Msg("newtux", t, l).obj = t
  BY <1>1, <1>7, <1>12
<1>14. \A t \in Tuxes : Msg("kill", t, "") \in Msgs /\ Msg("event", t, "") \in Msgs
         /\ Msg("kill", t, "").cmd = "kill" /\ Msg("event", t, "").cmd = "event"
  BY <1>2, <1>7, <1>12
<1>15. \A s \in Shots, g \in Guns : Msg("shot", s, g) \in Msgs /\ Msg("shot", s, g).cmd = "shot"
  BY <1>3, <1>7, <1>12
<1> QED  BY <1>4, <1>5, <1>6, <1>8, <1>9, <1>10, <1>11, <1>12, <1>13, <1>14, <1>15, Zenon
-----------------------------------------------------------------------------
(* The steps of the server.                                                 *)

ServerTyped ==
    /\ srv \in [Objects -> {"no", "here", "gone"}] /\ look \in [Tuxes -> Looks]
    /\ deaths \in 0 .. MaxRound /\ changes \in Nat /\ gun \in [Shots -> Guns]
QueueTyped ==
    /\ left \in [Reliable -> Nat] /\ given \subseteq Reliable
    /\ ordered \in BOOLEAN /\ down \in Seq(Msgs) /\ up \subseteq Reliable

\* p is said, and nothing of it is untrue after the step.
Tells(p) ==
    /\ p \in Seq(Truths')
    /\ down' = down \o p
    /\ left' \in [Reliable -> Nat] /\ given' \subseteq Reliable
    /\ \A o \in Objects : left'[Del(o)] > 0 => left[Del(o)] > 0 \/ srv'[o] = "gone"
    /\ up' \subseteq up
    /\ UNCHANGED <<ordered, client>>

\* Who is gone stays gone, and the deaths do not become less.
Goes ==
    /\ ServerTyped'
    /\ deaths <= deaths'
    /\ \A o \in Objects : srv[o] = "gone" => srv'[o] = "gone"

\* A death that is told of has been counted, as long as the match lasts.
Counted(p) == deaths' = MaxRound \/ deaths + Kills(p) <= deaths'

Step == Goes /\ \E p \in Seq(Msgs) : Tells(p) /\ Counted(p)

LEMMA TruthsAreMsgs == Truths' \subseteq Msgs
BY DEF Truths, Msgs, Reliable, Simple, Del, Additem, InitMsg, Msg, Looks, Guns,
       Objects, AllItems, Tuxes

LEMMA SendTells ==
  ASSUME ServerTyped, QueueTyped, Goes, NEW p \in Seq(Truths'), Send(p)
  PROVE  \E s \in {p, <<>>} : Tells(s)
<1>1. CASE Joined
  <2>1. \A m \in ToSet(p) : m \in Truths'
    <3>1. DOMAIN p = 1 .. Len(p) /\ \A i \in 1 .. Len(p) : p[i] \in Truths'
      BY LenProperties, ElementOfSeq
    <3> QED  BY <3>1, Zenon DEF ToSet
  <2>2. left' = [m \in Reliable |-> IF m \in ToSet(p) THEN MaxSend ELSE left[m]]
    BY <1>1 DEF Send
  <2>3. left' \in [Reliable -> Nat]  BY <2>2, ReplicaAssumption DEF QueueTyped
  <2>4. ASSUME NEW o \in Objects, left'[Del(o)] > 0
        PROVE  left[Del(o)] > 0 \/ srv'[o] = "gone"
    <3>1. Del(o) \in Reliable /\ Del(o).cmd = "del" /\ Del(o).obj = o  BY MsgsOf
    <3>2. CASE Del(o) \in ToSet(p)
      <4>1. Del(o) \in Truths'  BY <2>1, <3>2
      <4> QED  BY <4>1, <3>1 DEF Truths
    <3>3. CASE Del(o) \notin ToSet(p)  BY <2>2, <2>4, <3>1, <3>3
    <3> QED  BY <3>2, <3>3
  <2>5. down' = down \o p /\ UNCHANGED <<ordered, up, client>>  BY <1>1 DEF Send
  <2>6. given' \subseteq Reliable
    <3>1. given' = given \cup {m \in ToSet(p) \cap Reliable : MaxSend = 0}  BY <1>1 DEF Send
    <3> QED  BY <3>1 DEF QueueTyped
  <2> QED  BY <2>3, <2>4, <2>5, <2>6 DEF Tells
<1>2. CASE ~Joined
  <2>1. UNCHANGED <<queue, network, client>>  BY <1>2 DEF Send
  <2>2. down \o <<>> = down  BY ConcatEmptySeq DEF QueueTyped
  <2>3. <<>> \in Seq(Truths')  BY EmptySeq
  <2> QED  BY <2>1, <2>2, <2>3 DEF Tells, QueueTyped, queue, network
<1> QED  BY <1>1, <1>2

LEMMA SilenceTells ==
  ASSUME QueueTyped, UNCHANGED <<queue, network, client>>
  PROVE  Tells(<<>>)
<1>1. down \o <<>> = down  BY ConcatEmptySeq DEF QueueTyped
<1>2. <<>> \in Seq(Truths')  BY EmptySeq
<1> QED  BY <1>1, <1>2 DEF Tells, QueueTyped, queue, network

\* A sequence without kills, sent or kept back, is a step.
LEMMA SendsStep ==
  ASSUME ServerTyped, QueueTyped, Goes, NEW p \in Seq(Truths'),
         p \in Seq(Deathless), \E s \in {p, <<>>} : Tells(s)
  PROVE  Step
<1>1. <<>> \in Seq(Deathless)  BY EmptySeq
<1>2. PICK s \in {p, <<>>} : Tells(s)  OBVIOUS
<1>3. s \in Seq(Msgs) /\ Kills(s) = 0  BY <1>1, NoKills
<1>4. deaths \in Nat /\ deaths' \in Nat /\ deaths <= deaths'
  BY ReplicaAssumption DEF Goes, ServerTyped
<1>5. Counted(s)  BY <1>3, <1>4 DEF Counted
<1> QED  BY <1>2, <1>3, <1>5 DEF Step

LEMMA ImageFinite ==
  ASSUME NEW S, IsFiniteSet(S), NEW T, NEW f \in [S -> T]
  PROVE  IsFiniteSet({f[x] : x \in S})
<1>1. f \in Surjection(S, {f[x] : x \in S})  BY DEF Surjection
<1> QED  BY <1>1, FS_Surjection

LEMMA ManyTuxes ==
  ASSUME ServerTyped, NEW S \in SUBSET Tuxes, \A t \in S : srv'[t] = "here"
  PROVE  SetToSeq({Newtux(t) : t \in S}) \in Seq(Truths' \cap Deathless)
<1> DEFINE f == [t \in S |-> Newtux(t)]
<1>1. IsFiniteSet(S)
  <2>1. S \in SUBSET Objects  BY DEF Objects
  <2> QED  BY <2>1, ReplicaAssumption, FS_Subset
<1>2. ASSUME NEW t \in S  PROVE Newtux(t) \in Truths' \cap Deathless
  <2>1. look[t] \in Looks /\ t \in Tuxes  BY DEF ServerTyped
  <2>2. Newtux(t) \in Msgs /\ Newtux(t).cmd = "newtux" /\ Newtux(t).obj = t
    BY <2>1, MsgsOf DEF Newtux
  <2> QED  BY <2>2 DEF Truths, Deathless
<1>3. f \in [S -> Truths' \cap Deathless]  BY <1>2
<1>4. {Newtux(t) : t \in S} = {f[t] : t \in S}  OBVIOUS
<1>5. IsFiniteSet({Newtux(t) : t \in S})
  <2>1. IsFiniteSet({f[x] : x \in S})
    <3> HIDE DEF f
    <3> QED  BY <1>1, <1>3, ImageFinite
  <2> QED  BY <1>4, <2>1, Zenon
<1>6. {Newtux(t) : t \in S} \subseteq Truths' \cap Deathless  BY <1>2
<1> QED  BY <1>5, <1>6, SetToSeqType

LEMMA ManyItems ==
  ASSUME NEW S \in SUBSET AllItems
  PROVE  SetToSeq({Additem(i) : i \in S}) \in Seq(Truths' \cap Deathless)
<1> DEFINE f == [i \in S |-> Additem(i)]
<1>1. IsFiniteSet(S)
  <2>1. S \in SUBSET Objects  BY DEF Objects
  <2> QED  BY <2>1, ReplicaAssumption, FS_Subset
<1>2. \A i \in S : Additem(i) \in Truths' \cap Deathless
  BY MsgsOf DEF Truths, Deathless
<1>3. f \in [S -> Truths' \cap Deathless]  BY <1>2
<1>4. {Additem(i) : i \in S} = {f[i] : i \in S}  OBVIOUS
<1>5. IsFiniteSet({Additem(i) : i \in S})
  <2>1. IsFiniteSet({f[x] : x \in S})
    <3> HIDE DEF f
    <3> QED  BY <1>1, <1>3, ImageFinite
  <2> QED  BY <1>4, <2>1, Zenon
<1>6. {Additem(i) : i \in S} \subseteq Truths' \cap Deathless  BY <1>2
<1> QED  BY <1>5, <1>6, SetToSeqType

LEMMA BothTypes ==
  ASSUME NEW p \in Seq(Truths' \cap Deathless)
  PROVE  p \in Seq(Truths') /\ p \in Seq(Deathless)
<1>1. Truths' \cap Deathless \subseteq Truths' /\ Truths' \cap Deathless \subseteq Deathless
  OBVIOUS
<1> QED  BY <1>1

LEMMA AllOfItems ==
  ASSUME NEW S \in SUBSET AllItems, NEW i \in S
  PROVE  \E k \in DOMAIN SetToSeq({Additem(j) : j \in S}) :
           SetToSeq({Additem(j) : j \in S})[k] = Additem(i)
<1> DEFINE f == [j \in S |-> Additem(j)]
<1>1. IsFiniteSet(S)
  <2>1. S \in SUBSET Objects  BY DEF Objects
  <2> QED  BY <2>1, ReplicaAssumption, FS_Subset
<1>2. f \in [S -> Reliable]  BY MsgsOf
<1>3. {Additem(j) : j \in S} = {f[j] : j \in S}  OBVIOUS
<1>4. IsFiniteSet({Additem(j) : j \in S})
  <2>1. IsFiniteSet({f[x] : x \in S})
    <3> HIDE DEF f
    <3> QED  BY <1>1, <1>2, ImageFinite
  <2> QED  BY <1>3, <2>1, Zenon
<1>5. Additem(i) \in {Additem(j) : j \in S}  OBVIOUS
<1> QED  BY <1>4, <1>5, SetToSeqNumbers
\* What is written again was true when it was written first.
OnceTrue == \A o \in Objects : left[Del(o)] > 0 => srv[o] = "gone"

LEMMA OneIsBoth ==
  ASSUME NEW m \in Truths', m.cmd # "kill"
  PROVE  <<m>> \in Seq(Truths') /\ <<m>> \in Seq(Deathless)
<1>1. m \in Msgs  BY TruthsAreMsgs
<1>2. m \in Deathless  BY <1>1 DEF Deathless
<1> QED  BY <1>2, OneMessage

\* Sending one message that is no kill.
LEMMA SendsOne ==
  ASSUME ServerTyped, QueueTyped, Goes, NEW m \in Truths', m.cmd # "kill", Send(<<m>>)
  PROVE  Step
<1>1. <<m>> \in Seq(Truths') /\ <<m>> \in Seq(Deathless)  BY OneIsBoth
<1>2. \E s \in {<<m>>, <<>>} : Tells(s)  BY <1>1, SendTells
<1> QED  BY <1>1, <1>2, SendsStep

LEMMA KeepsSilent ==
  ASSUME ServerTyped, QueueTyped, Goes, UNCHANGED <<queue, network, client>>
  PROVE  Step
<1>1. <<>> \in Seq(Truths') /\ <<>> \in Seq(Deathless)  BY EmptySeq
<1>2. \E s \in {<<>>, <<>>} : Tells(s)  BY SilenceTells
<1> QED  BY <1>1, <1>2, SendsStep

\* An object that comes or goes, all else being as it was.
LEMMA OneGoes ==
  ASSUME ServerTyped, NEW o \in Objects, NEW v \in {"here", "gone"}, srv[o] # "gone",
         srv' = [srv EXCEPT ![o] = v], UNCHANGED <<look, deaths, changes, gun>>
  PROVE  Goes /\ srv'[o] = v /\ \A a \in Objects \ {o} : srv'[a] = srv[a]
<1>1. srv' \in [Objects -> {"no", "here", "gone"}] /\ srv'[o] = v
      /\ \A a \in Objects \ {o} : srv'[a] = srv[a]
  BY DEF ServerTyped
<1>2. ServerTyped'  BY <1>1 DEF ServerTyped
<1>3. deaths <= deaths'  BY ReplicaAssumption DEF ServerTyped
<1> QED  BY <1>1, <1>2, <1>3 DEF Goes

LEMMA NothingGoes ==
  ASSUME ServerTyped, UNCHANGED server
  PROVE  Goes
<1>1. ServerTyped'  BY DEF ServerTyped, server
<1>2. deaths <= deaths'  BY ReplicaAssumption DEF ServerTyped, server
<1> QED  BY <1>1, <1>2 DEF Goes, server

LEMMA AcceptStep ==
  ASSUME ServerTyped, QueueTyped, Accept
  PROVE  Step
<1> DEFINE tuxes == {t \in Tuxes : srv'[t] = "here"}
           lying == {i \in AllItems : Here(i)}
           ts == SetToSeq({Newtux(t) : t \in tuxes})
           is == SetToSeq({Additem(i) : i \in lying})
           msgs == <<InitMsg>> \o ts \o is
           Both == Truths' \cap Deathless
<1>1. Me \in Objects  BY DEF Objects, Tuxes
<1>2. Goes  BY <1>1, OneGoes DEF Accept
<1>3. /\ down' = down \o msgs
      /\ left' = [m \in Reliable |-> IF m \in ToSet(msgs) THEN MaxSend ELSE left[m]]
      /\ given' = given \cup {m \in ToSet(msgs) \cap Reliable : MaxSend = 0}
      /\ UNCHANGED <<ordered, up, client>>
  BY DEF Accept
<1>4. ts \in Seq(Both)  BY ManyTuxes
<1>5. is \in Seq(Both)  BY ManyItems
<1>6. <<InitMsg>> \in Seq(Both)  BY MsgsOf, OneMessage DEF Truths, Deathless
<1>7. msgs \in Seq(Both)
  <2> HIDE DEF ts, is, Both
  <2>1. <<InitMsg>> \o ts \in Seq(Both)  BY <1>4, <1>6, ConcatProperties
  <2> QED  BY <1>5, <2>1, ConcatProperties
<1> HIDE DEF msgs
<1>8. msgs \in Seq(Truths') /\ msgs \in Seq(Deathless)  BY <1>7, BothTypes
<1>9. \A m \in ToSet(msgs) : m \in Truths'
  <2>1. DOMAIN msgs = 1 .. Len(msgs) /\ \A i \in 1 .. Len(msgs) : msgs[i] \in Truths'
    BY <1>8, LenProperties, ElementOfSeq
  <2> QED  BY <2>1, Zenon DEF ToSet
<1>10. left' \in [Reliable -> Nat]  BY <1>3, ReplicaAssumption DEF QueueTyped
<1>11. ASSUME NEW o \in Objects, left'[Del(o)] > 0
       PROVE  left[Del(o)] > 0 \/ srv'[o] = "gone"
  <2>1. Del(o) \in Reliable /\ Del(o).cmd = "del" /\ Del(o).obj = o  BY MsgsOf
  <2>2. CASE Del(o) \in ToSet(msgs)
    <3>1. Del(o) \in Truths'  BY <1>9, <2>2
    <3> QED  BY <3>1, <2>1 DEF Truths
  <2>3. CASE Del(o) \notin ToSet(msgs)  BY <1>3, <1>11, <2>1, <2>3
  <2> QED  BY <2>2, <2>3
<1>12. given' \subseteq Reliable  BY <1>3 DEF QueueTyped
<1>13. Tells(msgs)  BY <1>3, <1>8, <1>10, <1>11, <1>12 DEF Tells
<1> QED  BY <1>2, <1>8, <1>13, SendsStep

LEMMA DieStep ==
  ASSUME ServerTyped, QueueTyped, NEW t \in Tuxes, Die(t)
  PROVE  Step
<1>1. /\ look' = [look EXCEPT ![t] = "dead"] /\ changes' = changes + 1
      /\ deaths' = IF deaths < MaxRound THEN deaths + 1 ELSE deaths
      /\ UNCHANGED <<srv, gun>>
  BY DEF Die, Changes
<1>2. Goes
  <2>1. look' \in [Tuxes -> Looks]  BY <1>1 DEF ServerTyped, Looks
  <2>2. deaths' \in 0 .. MaxRound /\ deaths <= deaths' /\ changes' \in Nat
    BY <1>1, ReplicaAssumption DEF ServerTyped
  <2> QED  BY <1>1, <2>1, <2>2 DEF Goes, ServerTyped
<1>3. PICK scored \in {<<>>} \cup {<<Newtux(a)>> : a \in {b \in Tuxes : Here(b)}} :
         Send(scored \o <<Msg("kill", t, "")>>)
  BY DEF Die
<1> DEFINE k == Msg("kill", t, "")
<1>4. k \in Msgs /\ k \in Truths' /\ k.cmd = "kill"  BY MsgsOf DEF Truths
<1>5. scored \in Seq(Truths') /\ scored \in Seq(Deathless)
  <2>1. CASE scored = <<>>  BY <2>1, EmptySeq
  <2>2. ASSUME NEW a \in Tuxes, Here(a), scored = <<Newtux(a)>>  PROVE <1>5!1 /\ <1>5!2
    <3>1. look[a] \in Looks /\ srv'[a] = "here"  BY <1>1, <2>2 DEF ServerTyped, Here
    <3>2. Newtux(a) \in Simple /\ Newtux(a).cmd = "newtux" /\ Newtux(a).obj = a
      BY <3>1 DEF Newtux, Msg, Simple
    <3>3. Newtux(a) \in Truths'
      BY <3>1, <3>2 DEF Truths, Msgs
    <3> QED  BY <2>2, <3>2, <3>3, OneIsBoth
  <2> QED  BY <2>1, <2>2
<1>6. <<k>> \in Seq(Truths') /\ <<k>> \in Seq(Msgs)  BY <1>4, OneMessage
<1> DEFINE p == scored \o <<k>>
<1>7. p \in Seq(Truths')  BY <1>5, <1>6, ConcatProperties
<1>8. scored \in Seq(Msgs) /\ Kills(scored) = 0  BY <1>5, NoKills
<1>9. p \in Seq(Msgs) /\ Kills(p) \in Nat /\ Kills(p) <= 1
  <2>1. p \in Seq(Msgs)  BY <1>6, <1>8, ConcatProperties
  <2>2. Kills(p) <= Kills(scored) + Kills(<<k>>)  BY <1>6, <1>8, KillsOfAppended
  <2>3. Kills(<<k>>) \in Nat /\ Kills(<<k>>) <= 1  BY <1>4, KillsOfOne
  <2>4. Kills(p) \in Nat  BY <2>1, KillsFinite
  <2> HIDE DEF p, k
  <2> QED  BY <1>8, <2>1, <2>2, <2>3, <2>4
<1> HIDE DEF p
<1>10. PICK s \in {p, <<>>} : Tells(s)  BY <1>2, <1>3, <1>7, SendTells DEF p
<1>11. s \in Seq(Msgs) /\ Kills(s) \in Nat /\ Kills(s) <= 1
  <2>1. <<>> \in Seq(Deathless)  BY EmptySeq
  <2>2. <<>> \in Seq(Msgs) /\ Kills(<<>>) = 0  BY <2>1, NoKills
  <2>3. CASE s = p  BY <1>9, <2>3
  <2>4. CASE s = <<>>
    <3>1. Kills(s) = 0 /\ s \in Seq(Msgs)  BY <2>2, <2>4, Zenon
    <3> QED  BY <3>1
  <2> QED  BY <2>3, <2>4
<1>12. Counted(s)
  <2>1. deaths \in 0 .. MaxRound  BY DEF ServerTyped
  <2> QED  BY <1>1, <1>11, <2>1, ReplicaAssumption DEF Counted
<1> QED  BY <1>2, <1>10, <1>11, <1>12 DEF Step

LEMMA ServerStepTells ==
  ASSUME ServerTyped, QueueTyped, OnceTrue, ServerStep
  PROVE  Step
<1>1. CASE Accept  BY <1>1, AcceptStep
<1>2. ASSUME NEW t \in Tuxes, Join(t)  PROVE Step
  <2>1. t \in Objects /\ Goes /\ srv'[t] = "here"
    BY <1>2, OneGoes DEF Join, Objects
  <2>2. look[t] \in Looks  BY DEF ServerTyped
  <2>3. Newtux(t) \in Truths' /\ Newtux(t).cmd # "kill"
    BY <2>1, <2>2, MsgsOf DEF Newtux, Truths
  <2> QED  BY <1>2, <2>1, <2>3, SendsOne DEF Join
<1>3. ASSUME NEW t \in Tuxes, Leave(t)  PROVE Step
  <2>1. t \in Objects /\ Goes /\ srv'[t] = "gone"
    BY <1>3, OneGoes DEF Leave, Objects, Here
  <2>2. Del(t) \in Truths' /\ Del(t).cmd # "kill"  BY <2>1, MsgsOf DEF Truths
  <2> QED  BY <1>3, <2>1, <2>2, SendsOne DEF Leave
<1>4. ASSUME NEW t \in Tuxes, Die(t)  PROVE Step
  BY <1>4, DieStep
<1>5. ASSUME NEW t \in Tuxes, Appears(t)  PROVE Step
  <2>1. PICK l \in {"alive", "hidden"} : Changes(t, l)  BY <1>5 DEF Appears
  <2>2. /\ look' = [look EXCEPT ![t] = l] /\ changes' = changes + 1
        /\ srv[t] = "here" /\ UNCHANGED <<srv, gun, deaths>>
    BY <1>5, <2>1 DEF Changes, Appears, Here
  <2>3. look' \in [Tuxes -> Looks] /\ look'[t] = l  BY <2>2 DEF ServerTyped, Looks
  <2>4. changes' \in Nat /\ deaths <= deaths'  BY <2>2, ReplicaAssumption DEF ServerTyped
  <2>5. Goes  BY <2>2, <2>3, <2>4 DEF Goes, ServerTyped
  <2> DEFINE m == Msg("newtux", t, look'[t])
  <2>6. m \in Truths' /\ m.cmd # "kill"
    <3>1. look'[t] \in Looks /\ srv'[t] = "here"  BY <2>2, <2>3
    <3>2. m \in Msgs /\ m.cmd = "newtux" /\ m.obj = t  BY <3>1, MsgsOf
    <3> HIDE DEF m
    <3> QED  BY <3>1, <3>2 DEF Truths
  <2>7. Send(<<m>>)  BY <1>5 DEF Appears
  <2> HIDE DEF m
  <2> QED  BY <2>5, <2>6, <2>7, SendsOne
<1>6. ASSUME NEW t \in Tuxes, Acts(t)  PROVE Step
  <2>1. Goes  BY <1>6, NothingGoes DEF Acts
  <2>2. Msg("event", t, "") \in Truths' /\ Msg("event", t, "").cmd # "kill"
    BY MsgsOf DEF Truths
  <2>3. Send(<<Msg("event", t, "")>>)  BY <1>6 DEF Acts
  <2> QED  BY <2>1, <2>2, <2>3, SendsOne
<1>7. ASSUME NEW near \in SUBSET Others, PeriodicSync(near)  PROVE Step
  <2>1. Goes  BY <1>7, NothingGoes DEF PeriodicSync
  <2>2. near \in SUBSET Tuxes /\ \A t \in near : srv'[t] = "here"
    BY <1>7 DEF PeriodicSync, Tuxes, Here, server
  <2> DEFINE p == SetToSeq({Newtux(t) : t \in near})
  <2>3. p \in Seq(Truths') /\ p \in Seq(Deathless)
    <3>1. p \in Seq(Truths' \cap Deathless)  BY <2>2, ManyTuxes
    <3> QED  BY <3>1, BothTypes
  <2>4. Send(p)  BY <1>7 DEF PeriodicSync
  <2> HIDE DEF p
  <2>5. \E s \in {p, <<>>} : Tells(s)  BY <2>1, <2>3, <2>4, SendTells
  <2> QED  BY <2>1, <2>3, <2>5, SendsStep
<1>8. ASSUME NEW i \in AllItems, AddItem(i)  PROVE Step
  <2>1. i \in Objects /\ Goes  BY <1>8, OneGoes DEF AddItem, Objects
  <2>2. Additem(i) \in Truths' /\ Additem(i).cmd # "kill"  BY MsgsOf DEF Truths
  <2> QED  BY <1>8, <2>1, <2>2, SendsOne DEF AddItem
<1>9. ASSUME NEW i \in AllItems, DelItem(i)  PROVE Step
  <2>1. i \in Objects /\ Goes /\ srv'[i] = "gone"
    BY <1>9, OneGoes DEF DelItem, Objects, Here
  <2>2. Del(i) \in Truths' /\ Del(i).cmd # "kill"  BY <2>1, MsgsOf DEF Truths
  <2> QED  BY <1>9, <2>1, <2>2, SendsOne DEF DelItem
<1>10. ASSUME NEW s \in Shots, Fire(s)  PROVE Step
  <2>1. Goes  BY <1>10, OneGoes DEF Fire, Objects
  <2> QED  BY <1>10, <2>1, KeepsSilent DEF Fire
<1>11. ASSUME NEW s \in Shots, ShowShot(s)  PROVE Step
  <2>1. Goes  BY <1>11, NothingGoes DEF ShowShot
  <2>2. gun[s] \in Guns  BY DEF ServerTyped
  <2> DEFINE m == Msg("shot", s, gun[s])
  <2>3. m \in Truths' /\ m.cmd # "kill"  BY <2>2, MsgsOf DEF Truths
  <2>4. Send(<<m>>)  BY <1>11 DEF ShowShot
  <2> HIDE DEF m
  <2> QED  BY <2>1, <2>3, <2>4, SendsOne
<1>12. ASSUME NEW s \in Shots, DelShot(s)  PROVE Step
  <2>1. s \in Objects /\ Goes /\ srv'[s] = "gone"
    BY <1>12, OneGoes DEF DelShot, Objects, Here
  <2>2. Del(s) \in Truths' /\ Del(s).cmd # "kill"  BY <2>1, MsgsOf DEF Truths
  <2> QED  BY <1>12, <2>1, <2>2, SendsOne DEF DelShot
<1>13. ASSUME NEW o \in Objects, EndsUntold(o)  PROVE Step
  <2>1. Goes  BY <1>13, OneGoes DEF EndsUntold, Here
  <2> QED  BY <1>13, <2>1, KeepsSilent DEF EndsUntold
<1>14. ASSUME NEW m \in Reliable, WriteAgain(m)  PROVE Step
  <2>1. Goes  BY <1>14, NothingGoes DEF WriteAgain
  <2>2. UNCHANGED <<srv, ordered, up, client>>  BY <1>14 DEF WriteAgain, server
  <2>3. m \in Msgs /\ m.cmd \notin {"kill", "newtux"}  BY MsgsOf
  <2>4. m.cmd = "del" => m.obj \in Objects /\ m = Del(m.obj)
    BY <2>3, MsgFields
  <2>5. m \in Truths'
    BY <1>14, <2>2, <2>3, <2>4 DEF Truths, WriteAgain, OnceTrue
  <2>6. <<m>> \in Seq(Truths') /\ <<m>> \in Seq(Deathless)  BY <2>3, <2>5, OneIsBoth
  <2>7. down' = down \o <<m>>
    BY <1>14, <2>3, AppendIsConcat DEF WriteAgain, QueueTyped
  <2>8. left' \in [Reliable -> Nat] /\ \A o \in Objects : left'[Del(o)] > 0 => left[Del(o)] > 0
    <3>1. left' = [left EXCEPT ![m] = left[m] - 1] /\ left[m] > 0  BY <1>14 DEF WriteAgain
    <3>2. \A o \in Objects : Del(o) \in Reliable  BY MsgsOf
    <3> QED  BY <3>1, <3>2 DEF QueueTyped
  <2>9. given' \subseteq Reliable  BY <1>14 DEF WriteAgain, QueueTyped
  <2>10. Tells(<<m>>)  BY <2>2, <2>6, <2>7, <2>8, <2>9 DEF Tells
  <2> QED  BY <2>1, <2>6, <2>10, SendsStep
<1>15. ASSUME NEW m \in Reliable, RecvCheck(m)  PROVE Step
  <2>1. Goes  BY <1>15, NothingGoes DEF RecvCheck
  <2>2. left' \in [Reliable -> Nat] /\ \A o \in Objects : left'[Del(o)] > 0 => left[Del(o)] > 0
    <3>1. left' = [left EXCEPT ![m] = 0]  BY <1>15 DEF RecvCheck
    <3>2. \A o \in Objects : Del(o) \in Reliable  BY MsgsOf
    <3> QED  BY <3>1, <3>2 DEF QueueTyped
  <2>3. <<>> \in Seq(Truths') /\ <<>> \in Seq(Deathless)  BY EmptySeq
  <2>4. down' = down \o <<>>  BY <1>15, ConcatEmptySeq DEF RecvCheck, QueueTyped
  <2>5. up' \subseteq up /\ given' \subseteq Reliable /\ UNCHANGED <<ordered, client>>
    BY <1>15 DEF RecvCheck, QueueTyped
  <2>6. Tells(<<>>)  BY <2>2, <2>3, <2>4, <2>5 DEF Tells
  <2>7. \E s \in {<<>>, <<>>} : Tells(s)  BY <2>6
  <2> QED  BY <2>1, <2>3, <2>7, SendsStep
<1> QED
  BY <1>1, <1>2, <1>3, <1>4, <1>5, <1>6, <1>7, <1>8, <1>9, <1>10, <1>11, <1>12, <1>13,
     <1>14, <1>15 DEF ServerStep

-----------------------------------------------------------------------------
(* The handlers of the client.                                              *)

ClientTyped ==
    /\ arena \in BOOLEAN
    /\ DOMAIN tux \subseteq Tuxes /\ \A t \in DOMAIN tux : tux[t] \in Looks
    /\ items \subseteq AllItems /\ shots \subseteq Shots /\ going \subseteq Shots
    /\ radar \subseteq Objects /\ ids \subseteq Objects /\ told \subseteq Objects
    /\ rounds \in 0 .. MaxRound /\ crashed \in {"no", "no arena", "no author", "id_replace"}

\* An explosion ends without a word, so it must not be on the radar; and there
\* is nothing to know before there is an arena.
Agrees ==
    /\ ReplicaSound
    /\ radar \cap Explosions = {}
    /\ ~arena => Knows = {} /\ told = {}

Handled(m) ==
    /\ ClientTyped' /\ Agrees'
    /\ up' \subseteq Reliable
    /\ rounds' = rounds \/ (m.cmd = "kill" /\ rounds' = rounds + 1)
    /\ told' = told \/ (m.cmd = "del" /\ told' = told \cup {m.obj})
    /\ (told \cap DOMAIN tux = {} /\ (m.cmd = "newtux" => m.obj \notin told)) =>
         told' \cap DOMAIN tux' = {}

LEMMA Apart ==
  /\ \A t \in Tuxes : t \notin AllItems /\ t \notin Shots /\ t \in Objects
  /\ \A i \in AllItems : i \notin Tuxes /\ i \notin Shots /\ i \in Objects
  /\ \A s \in Shots : s \notin Tuxes /\ s \notin AllItems /\ s \in Objects
  /\ Me \in Tuxes /\ Explosions \subseteq AllItems
BY ReplicaAssumption DEF Objects, Tuxes, AllItems

LEMMA Unmoved ==
  ASSUME ClientTyped, Agrees, NEW m, UNCHANGED client, up' \subseteq Reliable
  PROVE  Handled(m)
BY DEF Handled, ClientTyped, Agrees, ReplicaSound, Knows, client

LEMMA Stopped ==
  ASSUME ClientTyped, Agrees, NEW m, NEW why \in {"no arena", "no author"}, Stops(why),
         up' \subseteq Reliable
  PROVE  Handled(m)
BY DEF Handled, ClientTyped, Agrees, ReplicaSound, Knows, Stops

LEMMA InitHandled ==
  ASSUME ClientTyped, Agrees, crashed = "no", up \subseteq Reliable, RecvInit,
         NEW m, m.cmd = "init"
  PROVE  Handled(m)
<1>1. up' \subseteq Reliable  BY MsgsOf DEF RecvInit, Answers
<1>2. CASE arena  BY <1>1, <1>2, Unmoved DEF RecvInit, Ignores
<1>3. CASE ~arena
  <2>1. /\ arena' = TRUE /\ tux' = [t \in {Me} |-> "alive"]
        /\ ids' = ids \cup {Me} /\ crashed' = IF Me \in ids THEN "id_replace" ELSE "no"
        /\ UNCHANGED <<items, shots, going, radar, rounds, told>>
    BY <1>3 DEF RecvInit, Registers
  <2>2. DOMAIN tux' = {Me} /\ tux'[Me] = "alive"  BY <2>1
  <2>3. ids = {} /\ items = {} /\ shots = {} /\ radar = {} /\ told = {}
    BY <1>3 DEF Agrees, ReplicaSound, Knows
  <2>4. ClientTyped'  BY <2>1, <2>2, <2>3, Apart DEF ClientTyped, Looks
  <2>5. Agrees'  BY <2>1, <2>2, <2>3 DEF Agrees, ReplicaSound, Knows
  <2> QED  BY <1>1, <2>1, <2>3, <2>4, <2>5 DEF Handled
<1> QED  BY <1>2, <1>3

LEMMA NewtuxHandled ==
  ASSUME ClientTyped, Agrees, crashed = "no", up \subseteq Reliable,
         NEW m, m.cmd = "newtux", m.obj \in Tuxes, m.kind \in Looks, RecvNewtux(m.obj, m.kind)
  PROVE  Handled(m)
<1> DEFINE t == m.obj
           l == m.kind
<1>1. up' \subseteq Reliable  BY DEF RecvNewtux, AnswersNothing
<1>2. CASE ~arena  BY <1>1, <1>2, Unmoved DEF RecvNewtux, Ignores
<1>3. CASE arena
  <2>1. /\ tux' = Seen(t, l)
        /\ (radar' = radar \ {t} \/ radar' = radar \cup Point(t))
        /\ IF t \in DOMAIN tux THEN UNCHANGED <<ids, crashed>>
           ELSE /\ ids' = ids \cup {t}
                /\ crashed' = IF t \in ids THEN "id_replace" ELSE "no"
        /\ UNCHANGED <<arena, items, shots, going, rounds, told>>
    BY <1>3 DEF RecvNewtux, Registers
  <2>2. /\ DOMAIN tux' = {t} \cup DOMAIN tux
        /\ \A a \in DOMAIN tux' : tux'[a] = IF a = t THEN l ELSE tux[a]
    BY <2>1 DEF Seen
  <2>3. /\ t \in Objects /\ t \notin AllItems /\ t \notin Shots /\ t \notin Explosions
    BY Apart
  <2> HIDE DEF t, l
  <2>4. t \in ids <=> t \in DOMAIN tux
    BY <2>3 DEF Agrees, ReplicaSound, Knows, ClientTyped
  <2>5. ids' = ids \cup {t} /\ crashed' = "no"
    BY <2>1, <2>4
  <2>6. radar' \subseteq radar \cup {t}  BY <2>1 DEF Point
  <2>7. ClientTyped'
    <3>1. t \in Tuxes /\ l \in Looks  BY DEF t, l
    <3> QED  BY <2>1, <2>2, <2>3, <2>5, <2>6, <3>1 DEF ClientTyped
  <2>8. Agrees'
    BY <1>3, <2>1, <2>2, <2>3, <2>5, <2>6 DEF Agrees, ReplicaSound, Knows
  <2>9. told \cap DOMAIN tux = {} /\ t \notin told => told' \cap DOMAIN tux' = {}
    BY <2>1, <2>2
  <2> QED  BY <1>1, <2>1, <2>7, <2>8, <2>9 DEF Handled, t
<1> QED  BY <1>2, <1>3 DEF ClientTyped

LEMMA EventHandled ==
  ASSUME ClientTyped, Agrees, crashed = "no", up \subseteq Reliable,
         NEW m, m.cmd = "event", m.obj \in Tuxes, RecvEvent(m.obj)
  PROVE  Handled(m)
<1>1. up' \subseteq Reliable  BY DEF RecvEvent, AnswersNothing
<1>2. CASE Early  BY <1>1, <1>2, Stopped DEF Early
<1>3. CASE Ignores  BY <1>1, <1>3, Unmoved DEF Ignores
<1>4. CASE /\ arena /\ m.obj \in DOMAIN tux
           /\ radar' = radar \cup Point(m.obj)
           /\ UNCHANGED <<arena, tux, items, shots, going, ids, rounds, told, crashed>>
  <2>1. m.obj \in Objects /\ m.obj \notin Shots /\ m.obj \notin Explosions  BY Apart
  <2>2. radar' \subseteq radar \cup {m.obj}  BY <1>4 DEF Point
  <2>3. ClientTyped'  BY <1>4, <2>1, <2>2 DEF ClientTyped
  <2>4. Agrees'  BY <1>4, <2>1, <2>2 DEF Agrees, ReplicaSound, Knows
  <2> QED  BY <1>1, <1>4, <2>3, <2>4 DEF Handled
<1> QED  BY <1>2, <1>3, <1>4 DEF RecvEvent

LEMMA KillHandled ==
  ASSUME ClientTyped, Agrees, crashed = "no", up \subseteq Reliable,
         NEW m, m.cmd = "kill", m.obj \in Tuxes, RecvKill(m.obj)
  PROVE  Handled(m)
<1>1. up' \subseteq Reliable  BY DEF RecvKill, AnswersNothing
<1>2. CASE Early  BY <1>1, <1>2, Stopped DEF Early
<1>3. CASE Ignores  BY <1>1, <1>3, Unmoved DEF Ignores
<1>4. CASE /\ arena /\ m.obj \in DOMAIN tux
           /\ tux' = [tux EXCEPT ![m.obj] = "dead"]
           /\ rounds' = IF rounds < MaxRound THEN rounds + 1 ELSE rounds
           /\ UNCHANGED <<arena, items, shots, going, radar, ids, told, crashed>>
  <2>1. DOMAIN tux' = DOMAIN tux /\ \A a \in DOMAIN tux : tux'[a] \in {tux[a], "dead"}
    BY <1>4
  <2>2. rounds' \in 0 .. MaxRound  BY <1>4, ReplicaAssumption DEF ClientTyped
  <2>3. ClientTyped'  BY <1>4, <2>1, <2>2 DEF ClientTyped, Looks
  <2>4. Agrees'  BY <1>4, <2>1 DEF Agrees, ReplicaSound, Knows
  <2>5. rounds' = rounds \/ rounds' = rounds + 1  BY <1>4
  <2> QED  BY <1>1, <1>4, <2>1, <2>3, <2>4, <2>5 DEF Handled
<1> QED  BY <1>2, <1>3, <1>4 DEF RecvKill

LEMMA DelHandled ==
  ASSUME ClientTyped, Agrees, crashed = "no", up \subseteq Reliable,
         NEW m, m.cmd = "del", m.obj \in Objects, RecvDel(m.obj)
  PROVE  Handled(m)
<1> DEFINE o == m.obj
<1>1. up' \subseteq Reliable
  <2>1. Del(o) \in Reliable  BY DEF Reliable
  <2> QED  BY <2>1 DEF RecvDel, Answers
<1>2. CASE Early  BY <1>1, <1>2, Stopped DEF Early
<1>3. CASE ~Early
  <2>1. /\ arena
        /\ told' = told \cup {o}
        /\ tux' = [t \in DOMAIN tux \ {o} |-> tux[t]]
        /\ items' = items \ {o}
        /\ going' = IF o \in shots THEN going \cup {o} ELSE going
        /\ radar' = IF o \in DOMAIN tux \cup items THEN radar \ {o} ELSE radar
        /\ ids' = IF o \in DOMAIN tux \cup items THEN ids \ {o} ELSE ids
        /\ UNCHANGED <<arena, shots, rounds, crashed>>
    BY <1>3 DEF RecvDel
  <2> HIDE DEF o
  <2>2. DOMAIN tux' = DOMAIN tux \ {o} /\ \A t \in DOMAIN tux' : tux'[t] = tux[t]
    BY <2>1
  <2>3. o \in Objects  BY DEF o
  <2>4. ClientTyped'  BY <2>1, <2>2, <2>3 DEF ClientTyped
  <2>5. o \in DOMAIN tux \cup items => o \notin shots  BY Apart DEF ClientTyped
  <2>6. ids' = Knows'
    <3>1. ids = DOMAIN tux \cup items \cup shots  BY DEF Agrees, ReplicaSound, Knows
    <3> QED  BY <2>1, <2>2, <2>5, <3>1 DEF Knows
  <2>7. radar' \subseteq Knows' \ Shots
    <3>1. radar \subseteq (DOMAIN tux \cup items \cup shots) \ Shots
      BY DEF Agrees, ReplicaSound, Knows
    <3>2. CASE o \in DOMAIN tux \cup items  BY <2>1, <2>2, <3>1, <3>2 DEF Knows
    <3>3. CASE o \notin DOMAIN tux \cup items  BY <2>1, <2>2, <3>1, <3>3 DEF Knows
    <3> QED  BY <3>2, <3>3
  <2>8. Agrees'  BY <2>1, <2>6, <2>7 DEF Agrees, ReplicaSound
  <2>9. told \cap DOMAIN tux = {} => told' \cap DOMAIN tux' = {}  BY <2>1, <2>2
  <2> QED  BY <1>1, <2>1, <2>4, <2>8, <2>9 DEF Handled, o
<1> QED  BY <1>2, <1>3

LEMMA AdditemHandled ==
  ASSUME ClientTyped, Agrees, crashed = "no", up \subseteq Reliable,
         NEW m, m.cmd = "additem", m.obj \in AllItems, RecvAdditem(m.obj)
  PROVE  Handled(m)
<1> DEFINE i == m.obj
<1>1. up' \subseteq Reliable
  <2>1. Additem(i) \in Reliable  BY MsgsOf
  <2>2. up' = up \/ up' = up \cup {Additem(i)}
    BY DEF RecvAdditem, Answers, AnswersNothing
  <2> QED  BY <2>1, <2>2
<1>2. CASE ~arena \/ i \in items  BY <1>1, <1>2, Unmoved DEF RecvAdditem, Ignores
<1>3. CASE arena /\ i \notin items
  <2>1. /\ items' = items \cup {i}
        /\ radar' = IF i \in Explosions THEN radar ELSE radar \cup {i}
        /\ ids' = ids \cup {i} /\ crashed' = IF i \in ids THEN "id_replace" ELSE "no"
        /\ UNCHANGED <<arena, tux, shots, going, rounds, told>>
    BY <1>3 DEF RecvAdditem, Registers
  <2>2. i \in AllItems /\ i \in Objects /\ i \notin Tuxes /\ i \notin Shots  BY Apart
  <2> HIDE DEF i
  <2>3. i \notin ids  BY <1>3, <2>2 DEF Agrees, ReplicaSound, Knows, ClientTyped
  <2>4. ClientTyped'  BY <2>1, <2>2, <2>3 DEF ClientTyped
  <2>5. Agrees'  BY <1>3, <2>1, <2>2, <2>3 DEF Agrees, ReplicaSound, Knows
  <2> QED  BY <1>1, <2>1, <2>4, <2>5 DEF Handled
<1> QED  BY <1>2, <1>3 DEF ClientTyped

LEMMA ShotHandled ==
  ASSUME ClientTyped, Agrees, crashed = "no", up \subseteq Reliable,
         NEW m, m.cmd = "shot", m.obj \in Shots, RecvShot(m.obj, m.kind)
  PROVE  Handled(m)
<1> DEFINE s == m.obj
<1>1. up' \subseteq Reliable  BY DEF RecvShot, AnswersNothing
<1>2. CASE Early  BY <1>1, <1>2, Stopped DEF Early
<1>3. CASE Stops("no author")  BY <1>1, <1>3, Stopped
<1>4. CASE /\ arena
           /\ shots' = shots \cup {s}
           /\ Registers(s, ids \ {s})
           /\ UNCHANGED <<arena, tux, items, going, radar, rounds, told>>
  <2>1. ids' = ids \cup {s} /\ crashed' = "no"  BY <1>4 DEF Registers
  <2>2. s \in Objects /\ s \in Shots  BY Apart
  <2> HIDE DEF s
  <2>3. ClientTyped'  BY <1>4, <2>1, <2>2 DEF ClientTyped
  <2>4. Agrees'  BY <1>4, <2>1, <2>2 DEF Agrees, ReplicaSound, Knows
  <2> QED  BY <1>1, <1>4, <2>3, <2>4 DEF Handled
<1> QED  BY <1>2, <1>3, <1>4 DEF RecvShot

LEMMA AllHandled ==
  ASSUME ClientTyped, Agrees, crashed = "no", up \subseteq Reliable,
         NEW m \in Msgs, Handles(m)
  PROVE  Handled(m)
BY MsgFields, InitHandled, NewtuxHandled, EventHandled, KillHandled, DelHandled,
   AdditemHandled, ShotHandled DEF Handles

-----------------------------------------------------------------------------
(* The inductive invariant.                                                 *)

\* A "kill" on its way is a death that the client has not counted.
Behind == deaths = MaxRound \/ rounds + Kills(down) <= deaths

DelsTrue == \A i \in DOMAIN down : down[i].cmd = "del" => srv[down[i].obj] = "gone"
ToldTrue == \A o \in told : srv[o] = "gone"

\* Over an orderly network nothing of a tux follows his "del".
InOrder ==
    ordered => \A i, j \in DOMAIN down :
        i < j /\ down[i].cmd = "del" /\ down[j].cmd = "newtux" => down[i].obj # down[j].obj
NotAfter == ordered => \A j \in DOMAIN down : down[j].cmd = "newtux" => down[j].obj \notin told

Typed == ServerTyped /\ QueueTyped /\ ClientTyped
Orderly == OnceTrue /\ DelsTrue /\ ToldTrue /\ InOrder /\ NotAfter /\ GoneStayGone
IInv == Typed /\ Agrees /\ Behind /\ Orderly

LEMMA Counts == 0 \in 0 .. MaxRound /\ \A n \in 0 .. MaxRound : n \in Nat
BY ReplicaAssumption

LEMMA InitIInv == Init => IInv
<1> SUFFICES ASSUME Init  PROVE IInv
  OBVIOUS
<1>1. ServerTyped
  BY ReplicaAssumption DEF Init, ServerTyped, Looks
<1>2. QueueTyped  BY EmptySeq DEF Init, QueueTyped
<1>3. DOMAIN tux = {} /\ DOMAIN down = {}  BY DEF Init
<1>4. ClientTyped
  <2>1. /\ arena = FALSE /\ items = {} /\ shots = {} /\ going = {} /\ radar = {} /\ ids = {}
        /\ told = {} /\ rounds = 0 /\ crashed = "no"
    BY DEF Init
  <2> QED  BY <1>3, <2>1, Counts DEF ClientTyped
<1>5. Agrees  BY <1>3 DEF Init, Agrees, ReplicaSound, Knows
<1>6. Behind
  <2>1. <<>> \in Seq(Deathless)  BY EmptySeq
  <2>2. Kills(<<>>) = 0  BY <2>1, NoKills
  <2>3. down = <<>> /\ rounds = 0 /\ deaths = 0  BY DEF Init
  <2>4. Kills(down) = 0  BY <2>2, <2>3
  <2> QED  BY <2>3, <2>4 DEF Behind
<1>7. OnceTrue
  <2>1. left = [m \in Reliable |-> 0]  BY DEF Init
  <2>2. \A o \in Objects : Del(o) \in Reliable  BY MsgsOf
  <2>3. \A o \in Objects : left[Del(o)] = 0  BY <2>1, <2>2
  <2> QED  BY <2>3 DEF OnceTrue
<1>8. DelsTrue /\ ToldTrue /\ InOrder /\ NotAfter /\ GoneStayGone
  BY <1>3 DEF Init, DelsTrue, ToldTrue, InOrder, NotAfter, GoneStayGone
<1> QED  BY <1>1, <1>2, <1>4, <1>5, <1>6, <1>7, <1>8 DEF IInv, Typed, Orderly

LEMMA ServerStepKeeps ==
  ASSUME IInv, ServerStep
  PROVE  IInv'
<1> USE DEF IInv, Typed, Orderly
<1>1. Step  BY ServerStepTells
<1>2. PICK p \in Seq(Msgs) : Tells(p) /\ Counted(p)  BY <1>1 DEF Step
<1>3. Goes  BY <1>1 DEF Step
<1>4. down \in Seq(Msgs) /\ down' = down \o p /\ UNCHANGED <<ordered, client>>
  BY <1>2 DEF Tells, QueueTyped
<1>5. ServerTyped'  BY <1>3 DEF Goes
<1>6. QueueTyped'
  <2>1. down' \in Seq(Msgs)  BY <1>4, ConcatProperties
  <2> QED  BY <1>2, <2>1 DEF Tells, QueueTyped
<1>7. ClientTyped' /\ Agrees'
  BY <1>4 DEF ClientTyped, Agrees, ReplicaSound, Knows, client
<1>8. Behind'
  <2>1. deaths \in 0 .. MaxRound /\ deaths' \in 0 .. MaxRound /\ deaths <= deaths'
    BY <1>3 DEF Goes, ServerTyped
  <2>2. Kills(down) \in Nat /\ Kills(p) \in Nat /\ Kills(down') \in Nat
    BY <1>4, <1>6, KillsFinite DEF QueueTyped
  <2>3. Kills(down') <= Kills(down) + Kills(p)  BY <1>4, KillsOfAppended
  <2>4. rounds' = rounds /\ rounds \in Nat
    <3>1. rounds \in 0 .. MaxRound  BY DEF ClientTyped
    <3> QED  BY <1>4, <3>1, Counts DEF client
  <2> QED  BY <1>2, <2>1, <2>2, <2>3, <2>4, ReplicaAssumption DEF Behind, Counted
<1>9. \A i \in DOMAIN down' :
        \/ i <= Len(down) /\ i \in DOMAIN down /\ down'[i] = down[i]
        \/ i > Len(down) /\ down'[i] \in Truths'
  <2>1. \A k \in DOMAIN p : p[k] \in Truths'
    <3>1. p \in Seq(Truths')  BY <1>2 DEF Tells
    <3> QED  BY <3>1, LenProperties, ElementOfSeq
  <2> QED  BY <1>4, <2>1, Appended
<1>10. \A i \in DOMAIN down : down[i] \in Msgs
  BY <1>4, LenProperties, ElementOfSeq
<1>11. \A i \in DOMAIN down : down[i].cmd = "del" => down[i].obj \in Objects
  BY <1>10, MsgFields
<1>12. OnceTrue'
  BY <1>2, <1>3 DEF OnceTrue, Tells, Goes
<1>13. DelsTrue'
  BY <1>3, <1>9, <1>11 DEF DelsTrue, Goes, Truths
<1>14. ToldTrue'
  BY <1>3, <1>4 DEF ToldTrue, ClientTyped, Goes, client
<1>15. InOrder'
  <2> SUFFICES ASSUME ordered', NEW i \in DOMAIN down', NEW j \in DOMAIN down', i < j,
                      down'[i].cmd = "del", down'[j].cmd = "newtux"
               PROVE  down'[i].obj # down'[j].obj
    BY DEF InOrder
  <2>1. srv'[down'[i].obj] = "gone"  BY <1>13 DEF DelsTrue
  <2>2. CASE j > Len(down) /\ down'[j] \in Truths'
    <3>1. srv'[down'[j].obj] = "here"  BY <2>2 DEF Truths
    <3> QED  BY <2>1, <3>1
  <2>3. CASE j <= Len(down) /\ j \in DOMAIN down /\ down'[j] = down[j]
    <3>1. i \in Nat /\ j \in Nat /\ Len(down) \in Nat
      BY <1>4, <1>6, LenProperties DEF QueueTyped
    <3>2. i \in DOMAIN down /\ down'[i] = down[i]  BY <1>9, <2>3, <3>1
    <3> QED  BY <1>4, <2>3, <3>2 DEF InOrder
  <2> QED  BY <1>9, <2>2, <2>3
<1>16. NotAfter'
  <2> SUFFICES ASSUME ordered', NEW j \in DOMAIN down', down'[j].cmd = "newtux"
               PROVE  down'[j].obj \notin told'
    BY DEF NotAfter
  <2>1. CASE down'[j] \in Truths'
    <3>1. srv'[down'[j].obj] = "here"  BY <2>1 DEF Truths
    <3> QED  BY <1>14, <3>1 DEF ToldTrue
  <2>2. CASE j \in DOMAIN down /\ down'[j] = down[j]
    BY <1>4, <2>2 DEF NotAfter, client
  <2> QED  BY <1>9, <2>1, <2>2
<1>17. GoneStayGone'  BY <1>4 DEF GoneStayGone, client
<1> QED  BY <1>5, <1>6, <1>7, <1>8, <1>12, <1>13, <1>14, <1>15, <1>16, <1>17

\* What leaves the network leaves the rest as it was.
LEMMA TakesKeeps ==
  ASSUME QueueTyped, NEW i \in DOMAIN down, Arrives(i), Takes(i)
  PROVE  /\ down' \in Seq(Msgs) /\ Kills(down') \in Nat /\ Kills(down) \in Nat
         /\ Kills(down') <= Kills(down)
         /\ down[i].cmd = "kill" => Kills(down') <= Kills(down) - 1
         /\ \A j \in DOMAIN down' : \E k \in DOMAIN down : k >= j /\ k <= j + 1 /\ down'[j] = down[k]
                                       /\ (j < i => k = j) /\ (j >= i => k = j + 1)
         /\ DOMAIN down' \subseteq Nat /\ i \in Nat
         /\ down[i] \in Msgs
<1>1. down \in Seq(Msgs) /\ down' = RemoveAt(down, i)  BY DEF QueueTyped, Takes
<1>2. /\ down' \in Seq(Msgs) /\ DOMAIN down' = 1 .. (Len(down) - 1) /\ Len(down) \in Nat
      /\ DOMAIN down = 1 .. Len(down)
      /\ \A j \in DOMAIN down' :
              /\ j < i => j \in DOMAIN down /\ down'[j] = down[j]
              /\ j >= i => j + 1 \in DOMAIN down /\ down'[j] = down[j + 1]
  BY <1>1, Removed
<1>3. Kills(down') \in Nat /\ Kills(down) \in Nat  BY <1>1, <1>2, KillsFinite
<1>4. /\ Kills(down') <= Kills(down)
      /\ down[i].cmd = "kill" => Kills(down') <= Kills(down) - 1
  BY <1>1, KillsOfRemoved
<1>5. down[i] \in Msgs  BY <1>1, <1>2, ElementOfSeq
<1>6. ASSUME NEW j \in DOMAIN down'
      PROVE  \E k \in DOMAIN down : k >= j /\ k <= j + 1 /\ down'[j] = down[k]
                                      /\ (j < i => k = j) /\ (j >= i => k = j + 1)
  <2>1. j \in Nat /\ i \in Nat  BY <1>2
  <2>2. CASE j < i  BY <1>2, <2>1, <2>2
  <2>3. CASE j >= i  BY <1>2, <2>1, <2>3
  <2> QED  BY <2>1, <2>2, <2>3
<1> QED  BY <1>2, <1>3, <1>4, <1>5, <1>6

\* The parts of the invariant that speak of what is on its way.
LEMMA TakesOrderly ==
  ASSUME QueueTyped, Orderly, NEW i \in DOMAIN down, Arrives(i), Takes(i),
         UNCHANGED <<srv, ordered, left>>
  PROVE  OnceTrue' /\ DelsTrue' /\ InOrder'
<1>1. OnceTrue'  BY DEF Orderly, OnceTrue
<1>2. DelsTrue'  BY TakesKeeps DEF Orderly, DelsTrue
<1>3. InOrder'
  <2> SUFFICES ASSUME ordered', NEW a \in DOMAIN down', NEW b \in DOMAIN down', a < b,
                      down'[a].cmd = "del", down'[b].cmd = "newtux"
               PROVE  down'[a].obj # down'[b].obj
    BY DEF InOrder
  <2>1. PICK j \in DOMAIN down : j >= a /\ j <= a + 1 /\ down'[a] = down[j]
                                   /\ (a < i => j = a) /\ (a >= i => j = a + 1)
    BY TakesKeeps
  <2>2. PICK k \in DOMAIN down : k >= b /\ k <= b + 1 /\ down'[b] = down[k]
                                   /\ (b < i => k = b) /\ (b >= i => k = b + 1)
    BY TakesKeeps
  <2>3. a \in Nat /\ b \in Nat /\ i \in Nat  BY TakesKeeps
  <2>4. j < k  BY <2>1, <2>2, <2>3
  <2> QED  BY <2>1, <2>2, <2>4 DEF Orderly, InOrder
<1> QED  BY <1>1, <1>2, <1>3

LEMMA LoseKeeps ==
  ASSUME IInv, NEW i \in DOMAIN down, Lose(i)
  PROVE  IInv'
<1> USE DEF IInv, Typed
<1>1. Arrives(i) /\ Takes(i) /\ UNCHANGED <<server, queue, ordered, up, client>>  BY DEF Lose
<1>2. OnceTrue' /\ DelsTrue' /\ InOrder'  BY <1>1, TakesOrderly DEF server, queue
<1>3. ServerTyped' /\ ClientTyped' /\ Agrees' /\ ToldTrue' /\ GoneStayGone'
  BY <1>1 DEF ServerTyped, ClientTyped, Agrees, ReplicaSound, Knows, ToldTrue, GoneStayGone,
              Orderly, server, client
<1>4. QueueTyped'  BY <1>1, TakesKeeps DEF QueueTyped, queue
<1>5. NotAfter'
  BY <1>1, TakesKeeps DEF Orderly, NotAfter, client
<1>6. Behind'
  <2>1. Kills(down') \in Nat /\ Kills(down) \in Nat /\ Kills(down') <= Kills(down)
    BY <1>1, TakesKeeps
  <2>2. rounds' = rounds /\ deaths' = deaths /\ rounds \in Nat /\ deaths \in Nat
    <3>1. deaths' = deaths /\ deaths \in 0 .. MaxRound  BY <1>1 DEF server, ServerTyped
    <3>2. rounds' = rounds /\ rounds \in 0 .. MaxRound  BY <1>1 DEF client, ClientTyped
    <3> QED  BY <3>1, <3>2, Counts
  <2> QED  BY <2>1, <2>2 DEF Behind
<1> QED  BY <1>2, <1>3, <1>4, <1>5, <1>6 DEF Orderly

LEMMA RecvKeeps ==
  ASSUME IInv, NEW i \in DOMAIN down, Recv(i)
  PROVE  IInv'
<1> USE DEF IInv, Typed
<1> DEFINE m == down[i]
<1>1. /\ Arrives(i) /\ Takes(i) /\ UNCHANGED <<server, queue, ordered>>
      /\ crashed = "no" /\ Handles(m)
  BY DEF Recv, Runs
<1>2. m \in Msgs  BY <1>1, TakesKeeps
<1> HIDE DEF m
<1>3. Handled(m)  BY <1>1, <1>2, AllHandled DEF QueueTyped
<1>4. OnceTrue' /\ DelsTrue' /\ InOrder'  BY <1>1, TakesOrderly DEF server, queue
<1>5. ServerTyped'  BY <1>1 DEF ServerTyped, server
<1>6. ClientTyped' /\ Agrees'  BY <1>3 DEF Handled
<1>7. QueueTyped'  BY <1>1, <1>3, TakesKeeps DEF QueueTyped, Handled, queue
<1>8. told' = told \/ (m.cmd = "del" /\ told' = told \cup {m.obj})  BY <1>3 DEF Handled
<1>9. ToldTrue'
  <2>1. m.cmd = "del" => srv[m.obj] = "gone"  BY DEF Orderly, DelsTrue, m
  <2> QED  BY <1>1, <1>8, <2>1 DEF Orderly, ToldTrue, server
<1>10. NotAfter'
  <2> SUFFICES ASSUME ordered', NEW j \in DOMAIN down', down'[j].cmd = "newtux"
               PROVE  down'[j].obj \notin told'
    BY DEF NotAfter
  <2>1. ordered /\ i = 1  BY <1>1 DEF Arrives
  <2>2. PICK k \in DOMAIN down : /\ k >= j /\ k <= j + 1 /\ down'[j] = down[k]
                                 /\ (j < i => k = j) /\ (j >= i => k = j + 1)
    BY <1>1, TakesKeeps
  <2>3. down[k].obj \notin told  BY <2>1, <2>2 DEF Orderly, NotAfter
  <2>4. j \in Nat /\ j >= 1
    <3>1. down' \in Seq(Msgs)  BY <1>1, TakesKeeps
    <3> QED  BY <3>1, LenProperties
  <2>5. i < k  BY <2>1, <2>2, <2>4
  <2>6. m.cmd = "del" => m.obj # down[k].obj  BY <2>1, <2>2, <2>5 DEF Orderly, InOrder, m
  <2> QED  BY <1>8, <2>2, <2>3, <2>6
<1>11. GoneStayGone'
  <2> SUFFICES ASSUME ordered'  PROVE told' \cap DOMAIN tux' = {}
    BY DEF GoneStayGone
  <2>1. told \cap DOMAIN tux = {}  BY <1>1 DEF Orderly, GoneStayGone
  <2>2. m.cmd = "newtux" => m.obj \notin told  BY <1>1 DEF Orderly, NotAfter, m
  <2> QED  BY <1>3, <2>1, <2>2 DEF Handled
<1>12. Behind'
  <2>1. /\ Kills(down') \in Nat /\ Kills(down) \in Nat /\ Kills(down') <= Kills(down)
        /\ m.cmd = "kill" => Kills(down') <= Kills(down) - 1
    BY <1>1, TakesKeeps DEF m
  <2>2. deaths' = deaths /\ deaths \in Nat /\ rounds \in Nat /\ rounds' \in Nat
    <3>1. deaths' = deaths /\ deaths \in 0 .. MaxRound  BY <1>1 DEF server, ServerTyped
    <3>2. rounds \in 0 .. MaxRound /\ rounds' \in 0 .. MaxRound  BY <1>6 DEF ClientTyped
    <3> QED  BY <3>1, <3>2, Counts
  <2>3. rounds' = rounds \/ (m.cmd = "kill" /\ rounds' = rounds + 1)  BY <1>3 DEF Handled
  <2> QED  BY <2>1, <2>2, <2>3 DEF Behind
<1> QED  BY <1>4, <1>5, <1>6, <1>7, <1>9, <1>10, <1>11, <1>12 DEF Orderly

\* Shots and explosions that end on the client.
LEMMA EndsKeeps ==
  ASSUME IInv, (\E s \in Shots : TimerDelShot(s)) \/ (\E o \in Objects : EndsHere(o))
  PROVE  IInv'
<1> USE DEF IInv, Typed
<1>1. UNCHANGED <<server, queue, network, arena, tux, radar, rounds, told, crashed>>
  BY DEF TimerDelShot, EndsHere
<1>2. /\ shots' \subseteq shots /\ items' \subseteq items /\ going' \subseteq going
      /\ ids' = Knows' /\ radar' \subseteq Knows' \ Shots
  <2>1. ids = DOMAIN tux \cup items \cup shots
        /\ radar \subseteq (DOMAIN tux \cup items \cup shots) \ Shots
    BY DEF Agrees, ReplicaSound, Knows
  <2>2. ASSUME NEW s \in Shots, TimerDelShot(s)  PROVE <1>2
    <3>1. s \notin DOMAIN tux /\ s \notin items  BY Apart DEF ClientTyped
    <3>2. /\ shots' = shots \ {s} /\ going' = going \ {s} /\ ids' = ids \ ({s} \cap shots)
          /\ UNCHANGED <<tux, items, radar>>
      BY <2>2 DEF TimerDelShot
    <3> QED  BY <2>1, <3>1, <3>2 DEF Knows
  <2>3. ASSUME NEW o \in Objects, EndsHere(o)  PROVE <1>2
    <3>1. /\ shots' = shots \ {o} /\ items' = items \ {o} /\ ids' = ids \ {o}
          /\ o \in shots \cup (items \cap Explosions) /\ UNCHANGED <<tux, radar, going>>
      BY <2>3 DEF EndsHere
    <3>2. o \notin DOMAIN tux /\ (o \in Shots \/ o \in Explosions)
      BY <3>1, Apart DEF ClientTyped
    <3>3. o \notin radar  BY <2>1, <3>2 DEF Agrees
    <3> QED  BY <2>1, <3>1, <3>2, <3>3 DEF Knows
  <2> QED  BY <2>2, <2>3
<1>3. ClientTyped'
  <2>1. ids' \subseteq Objects  BY <1>1, <1>2, Apart DEF ClientTyped, Knows
  <2> QED  BY <1>1, <1>2, <2>1 DEF ClientTyped
<1>4. Agrees'
  <2>1. Knows' \subseteq Knows  BY <1>1, <1>2 DEF Knows
  <2> QED  BY <1>1, <1>2, <2>1 DEF Agrees, ReplicaSound
<1>5. ServerTyped' /\ QueueTyped' /\ Behind'
  BY <1>1 DEF ServerTyped, QueueTyped, Behind, server, queue, network
<1>6. Orderly'
  BY <1>1 DEF Orderly, OnceTrue, DelsTrue, ToldTrue, InOrder, NotAfter, GoneStayGone,
              server, queue, network
<1> QED  BY <1>3, <1>4, <1>5, <1>6

LEMMA IdleKeeps ==
  ASSUME IInv, UNCHANGED vars \/ \E m \in Reliable : LoseAnswer(m)
  PROVE  IInv'
<1> USE DEF IInv, Typed
<1>1. UNCHANGED <<server, queue, ordered, down, client>> /\ up' \subseteq up
  BY DEF LoseAnswer, vars, network
<1>2. ServerTyped' /\ QueueTyped' /\ ClientTyped' /\ Behind'
  BY <1>1 DEF ServerTyped, QueueTyped, ClientTyped, Behind, server, queue, client
<1>3. Agrees'  BY <1>1 DEF Agrees, ReplicaSound, Knows, client
<1>4. Orderly'
  BY <1>1 DEF Orderly, OnceTrue, DelsTrue, ToldTrue, InOrder, NotAfter, GoneStayGone,
              server, queue, client
<1> QED  BY <1>2, <1>3, <1>4

LEMMA NextIInv == IInv /\ [Next]_vars => IInv'
BY ServerStepKeeps, RecvKeeps, LoseKeeps, EndsKeeps, IdleKeeps DEF Next, ClientStep

\* The invariant holds for any number of objects, on any network.
THEOREM Inductive == Spec => []IInv
BY InitIInv, NextIInv, PTL DEF Spec

-----------------------------------------------------------------------------
(* What the server still owes the client.                                   *)

\* It will be written again, or was given up.
Owed(m) == left[m] > 0 \/ m \in given

\* Who has not joined is told nothing.
OnlyJoined == ~Joined => down = <<>> /\ ~arena /\ \A m \in Reliable : left[m] = 0

\* A step of the server forgets nothing that was not answered, and owes what it
\* brings and what it takes away.
Owes ==
    /\ \A m \in Reliable : Owed(m) => Owed(m)' \/ m \in up
    /\ \A i \in Items : Joined' /\ Here(i)' => (Joined /\ Here(i)) \/ Owed(Additem(i))'
    /\ \A t \in Tuxes : srv'[t] = "gone" =>
         \/ srv[t] = "gone"
         \/ t # Me /\ (Joined => Owed(Del(t))')
    /\ \A o \in Objects : srv'[o] = "no" => srv[o] = "no"
    /\ ~Joined' => UNCHANGED <<left, down>>

LEMMA SendOwes ==
  ASSUME QueueTyped, NEW p, Send(p), Joined
  PROVE  /\ \A m \in Reliable : Owed(m) => Owed(m)'
         /\ \A m \in ToSet(p) \cap Reliable : Owed(m)'
<1>1. /\ left' = [m \in Reliable |-> IF m \in ToSet(p) THEN MaxSend ELSE left[m]]
      /\ given' = given \cup {m \in ToSet(p) \cap Reliable : MaxSend = 0}
  BY DEF Send
<1>2. MaxSend \in Nat  BY ReplicaAssumption
<1>3. ASSUME NEW m \in ToSet(p) \cap Reliable  PROVE Owed(m)'
  <2>1. left'[m] = MaxSend /\ (MaxSend = 0 => m \in given')  BY <1>1
  <2> QED  BY <1>2, <2>1 DEF Owed
<1>4. ASSUME NEW m \in Reliable, Owed(m)  PROVE Owed(m)'
  <2>1. CASE m \in ToSet(p)  BY <1>3, <2>1
  <2>2. CASE m \notin ToSet(p)  BY <1>1, <1>4, <2>2 DEF Owed
  <2> QED  BY <2>1, <2>2
<1> QED  BY <1>3, <1>4

\* Nobody joins or leaves, and no item comes or goes.
LEMMA SendsOnly ==
  ASSUME ServerTyped, QueueTyped, NEW p, Send(p), UNCHANGED srv
  PROVE  Owes
<1>1. CASE Joined
  <2>1. Joined'  BY <1>1 DEF Joined
  <2> QED  BY <1>1, <2>1, SendOwes DEF Owes, Joined, Here
<1>2. CASE ~Joined
  <2>1. UNCHANGED <<queue, network>> /\ ~Joined'  BY <1>2 DEF Send, Joined
  <2> QED  BY <2>1 DEF Owes, Joined, Here, Owed, queue, network
<1> QED  BY <1>1, <1>2

\* The message of what came or went is owed.
LEMMA SendsNews ==
  ASSUME ServerTyped, QueueTyped, NEW m, Send(<<m>>),
         NEW o \in Objects \ {Me}, NEW v \in {"here", "gone"}, srv[o] # "gone",
         srv' = [srv EXCEPT ![o] = v],
         o \in Items /\ v = "here" => m = Additem(o),
         o \in Tuxes /\ v = "gone" => m = Del(o)
  PROVE  Owes
<1>1. Me \in Objects  BY Apart
<1>2. /\ srv'[o] = v /\ \A a \in Objects \ {o} : srv'[a] = srv[a]
      /\ Joined' <=> Joined
  BY <1>1 DEF ServerTyped, Joined
<1>3. Items \subseteq Objects /\ Tuxes \subseteq Objects  BY DEF Objects, AllItems
<1>4. CASE Joined
  <2>1. /\ \A a \in Reliable : Owed(a) => Owed(a)'
        /\ m \in Reliable => Owed(m)'
    <3>1. DOMAIN <<m>> = {1} /\ <<m>>[1] = m
      <4>1. m \in {m}  OBVIOUS
      <4> QED  BY <4>1, OneMessage
    <3>2. m \in ToSet(<<m>>)  BY <3>1, Zenon DEF ToSet
    <3> QED  BY <1>4, <3>2, SendOwes
  <2>2. ASSUME NEW i \in Items, Here(i)'  PROVE Here(i) \/ Owed(Additem(i))'
    <3>1. CASE i = o
      <4>1. v = "here"  BY <1>2, <2>2, <3>1 DEF Here
      <4>2. m = Additem(i)  BY <3>1, <4>1
      <4>3. Additem(i) \in Reliable  BY MsgsOf DEF AllItems
      <4> QED  BY <2>1, <4>2, <4>3
    <3>2. CASE i # o  BY <1>2, <1>3, <2>2, <3>2 DEF Here
    <3> QED  BY <3>1, <3>2
  <2>3. ASSUME NEW t \in Tuxes, srv'[t] = "gone", srv[t] # "gone"
        PROVE  t # Me /\ Owed(Del(t))'
    <3>1. t = o  BY <1>2, <1>3, <2>3
    <3>2. m = Del(t)  BY <1>2, <2>3, <3>1
    <3>3. Del(t) \in Reliable  BY <1>3, MsgsOf
    <3> QED  BY <2>1, <3>1, <3>2, <3>3
  <2> QED  BY <1>2, <1>4, <2>1, <2>2, <2>3 DEF Owes
<1>5. CASE ~Joined
  <2>1. UNCHANGED <<queue, network>>  BY <1>5 DEF Send
  <2>2. \A a : Owed(a) => Owed(a)'  BY <2>1 DEF Owed, queue
  <2>3. \A t \in Tuxes : srv'[t] = "gone" => srv[t] = "gone" \/ t # Me
    BY <1>2, <1>3
  <2> QED  BY <1>2, <1>5, <2>1, <2>2, <2>3 DEF Owes, queue, network
<1> QED  BY <1>4, <1>5

LEMMA KeepsOwing ==
  ASSUME ServerTyped, UNCHANGED <<queue, network>>, NEW o \in Objects \ {Me},
         NEW v \in {"here", "gone"}, srv' = [srv EXCEPT ![o] = v],
         o \notin Items \cup Tuxes
  PROVE  Owes
<1>1. Me \in Objects  BY Apart
<1>2. srv'[o] = v /\ \A a \in Objects \ {o} : srv'[a] = srv[a]  BY DEF ServerTyped
<1>3. Joined' <=> Joined  BY <1>1, <1>2 DEF Joined
<1>4. \A a : Owed(a) => Owed(a)'  BY DEF Owed, queue
<1>5. \A i \in Items \cup Tuxes : srv'[i] = srv[i]
  BY <1>2 DEF Objects, AllItems
<1> QED  BY <1>2, <1>3, <1>4, <1>5 DEF Owes, Here, queue, network

LEMMA AcceptOwes ==
  ASSUME ServerTyped, QueueTyped, Accept
  PROVE  Owes
<1> DEFINE tuxes == {t \in Tuxes : srv'[t] = "here"}
           lying == {i \in AllItems : Here(i)}
           ts == SetToSeq({Newtux(t) : t \in tuxes})
           is == SetToSeq({Additem(i) : i \in lying})
           msgs == <<InitMsg>> \o ts \o is
<1>1. Me \in Objects /\ \A i \in AllItems : i # Me /\ i \in Objects  BY Apart
<1>2. /\ srv[Me] = "no" /\ srv' = [srv EXCEPT ![Me] = "here"]
      /\ left' = [m \in Reliable |-> IF m \in ToSet(msgs) THEN MaxSend ELSE left[m]]
      /\ given' = given \cup {m \in ToSet(msgs) \cap Reliable : MaxSend = 0}
  BY DEF Accept
<1>3. srv'[Me] = "here" /\ \A a \in Objects \ {Me} : srv'[a] = srv[a]
  BY <1>1, <1>2 DEF ServerTyped
<1>4. Joined'  BY <1>3 DEF Joined
<1>5. \A i \in lying : Additem(i) \in ToSet(msgs)
  <2>1. ts \in Seq(Msgs) /\ is \in Seq(Msgs) /\ <<InitMsg>> \in Seq(Msgs)
    <3>1. ts \in Seq(Truths' \cap Deathless) /\ is \in Seq(Truths' \cap Deathless)
      BY ManyTuxes, ManyItems
    <3>2. Truths' \cap Deathless \subseteq Msgs  BY TruthsAreMsgs
    <3> HIDE DEF ts, is
    <3>3. ts \in Seq(Msgs) /\ is \in Seq(Msgs)  BY <3>1, <3>2
    <3> QED  BY <3>3, MsgsOf, OneMessage
  <2>2. ASSUME NEW i \in lying  PROVE \E k \in DOMAIN is : is[k] = Additem(i)
    BY <2>2, AllOfItems
  <2> HIDE DEF ts, is
  <2>3. <<InitMsg>> \o ts \in Seq(Msgs)  BY <2>1, ConcatProperties
  <2>4. ASSUME NEW k \in DOMAIN is  PROVE is[k] \in ToSet(msgs)
    <3> DEFINE q == <<InitMsg>> \o ts
    <3>1. q \in Seq(Msgs) /\ msgs = q \o is  BY <2>3
    <3> HIDE DEF q
    <3>2. k \in 1 .. Len(is) /\ Len(is) \in Nat /\ Len(q) \in Nat
      BY <2>1, <3>1, LenProperties
    <3>3. DOMAIN (q \o is) = 1 .. (Len(q) + Len(is))  BY <2>1, <3>1, Appended
    <3>4. Len(q) + k \in DOMAIN (q \o is) /\ Len(q) + k > Len(q) /\ Len(q) + k - Len(q) = k
      BY <3>2, <3>3
    <3>5. (q \o is)[Len(q) + k] = is[k]  BY <2>1, <3>1, <3>4, Appended
    <3> QED  BY <3>1, <3>4, <3>5, Zenon DEF ToSet
  <2> QED  BY <2>2, <2>4
<1> HIDE DEF msgs
<1>6. ASSUME NEW m \in ToSet(msgs) \cap Reliable  PROVE Owed(m)'
  <2>1. left'[m] = MaxSend /\ (MaxSend = 0 => m \in given')  BY <1>2
  <2> QED  BY <2>1, ReplicaAssumption DEF Owed
<1>7. ASSUME NEW m \in Reliable, Owed(m)  PROVE Owed(m)'
  <2>1. CASE m \in ToSet(msgs)  BY <1>6, <2>1
  <2>2. CASE m \notin ToSet(msgs)  BY <1>2, <1>7, <2>2 DEF Owed
  <2> QED  BY <2>1, <2>2
<1>8. ASSUME NEW i \in Items, Here(i)'  PROVE Owed(Additem(i))'
  <2>1. i \in AllItems /\ i \in lying  BY <1>1, <1>3, <1>8 DEF AllItems, Here
  <2>2. Additem(i) \in Reliable  BY <2>1, MsgsOf
  <2> QED  BY <1>5, <1>6, <2>1, <2>2
<1>9. \A t \in Tuxes : srv'[t] = "gone" => srv[t] = "gone"
  BY <1>3 DEF Objects
<1>10. \A o \in Objects : srv'[o] = "no" => srv[o] = "no"  BY <1>3
<1> QED  BY <1>4, <1>7, <1>8, <1>9, <1>10 DEF Owes

LEMMA ServerStepOwes ==
  ASSUME ServerTyped, QueueTyped, OnlyJoined, ServerStep
  PROVE  Owes
<1> USE DEF server
<1>1. CASE Accept  BY <1>1, AcceptOwes
<1>2. ASSUME NEW t \in Tuxes, Join(t)  PROVE Owes
  <2>1. /\ t \in Objects \ {Me} /\ t \notin Items /\ srv[t] = "no"
        /\ srv' = [srv EXCEPT ![t] = "here"] /\ Send(<<Newtux(t)>>)
    BY <1>2, Apart, ReplicaAssumption DEF Join, AllItems
  <2> QED  BY <2>1, SendsNews
<1>3. ASSUME NEW t \in Tuxes, Leave(t)  PROVE Owes
  <2>1. /\ t \in Objects \ {Me} /\ srv[t] = "here"
        /\ srv' = [srv EXCEPT ![t] = "gone"] /\ Send(<<Del(t)>>)
    BY <1>3, Apart, ReplicaAssumption DEF Leave, Here
  <2> QED  BY <2>1, SendsNews
<1>4. ASSUME NEW t \in Tuxes, Die(t)  PROVE Owes
  BY <1>4, SendsOnly DEF Die, Changes
<1>5. ASSUME NEW t \in Tuxes, Appears(t)  PROVE Owes
  BY <1>5, SendsOnly DEF Appears, Changes
<1>6. ASSUME NEW t \in Tuxes, Acts(t)  PROVE Owes
  BY <1>6, SendsOnly DEF Acts
<1>7. ASSUME NEW near \in SUBSET Others, PeriodicSync(near)  PROVE Owes
  BY <1>7, SendsOnly DEF PeriodicSync
<1>8. ASSUME NEW i \in AllItems, AddItem(i)  PROVE Owes
  <2>1. /\ i \in Objects \ {Me} /\ i \notin Tuxes /\ srv[i] = "no"
        /\ srv' = [srv EXCEPT ![i] = "here"] /\ Send(<<Additem(i)>>)
    BY <1>8, Apart DEF AddItem
  <2> QED  BY <2>1, SendsNews
<1>9. ASSUME NEW i \in AllItems, DelItem(i)  PROVE Owes
  <2>1. /\ i \in Objects \ {Me} /\ srv[i] = "here"
        /\ srv' = [srv EXCEPT ![i] = "gone"] /\ Send(<<Del(i)>>)
    BY <1>9, Apart DEF DelItem, Here
  <2> QED  BY <2>1, SendsNews
<1>10. ASSUME NEW s \in Shots, Fire(s)  PROVE Owes
  <2>1. /\ s \in Objects \ {Me} /\ s \notin Items \cup Tuxes
        /\ srv' = [srv EXCEPT ![s] = "here"] /\ UNCHANGED <<queue, network>>
    BY <1>10, Apart DEF Fire, AllItems
  <2> QED  BY <2>1, KeepsOwing
<1>11. ASSUME NEW s \in Shots, ShowShot(s)  PROVE Owes
  BY <1>11, SendsOnly DEF ShowShot
<1>12. ASSUME NEW s \in Shots, DelShot(s)  PROVE Owes
  <2>1. /\ s \in Objects \ {Me} /\ s \notin Items /\ s \notin Tuxes /\ srv[s] = "here"
        /\ srv' = [srv EXCEPT ![s] = "gone"] /\ Send(<<Del(s)>>)
    BY <1>12, Apart DEF DelShot, Here, AllItems
  <2> QED  BY <2>1, SendsNews
<1>13. ASSUME NEW o \in Objects, EndsUntold(o)  PROVE Owes
  <2>1. /\ o \in Objects \ {Me} /\ o \notin Items \cup Tuxes
        /\ srv' = [srv EXCEPT ![o] = "gone"] /\ UNCHANGED <<queue, network>>
    BY <1>13, Apart, ReplicaAssumption DEF EndsUntold, AllItems
  <2> QED  BY <2>1, KeepsOwing
<1>14. ASSUME NEW m \in Reliable, WriteAgain(m)  PROVE Owes
  <2>1. /\ left' = [left EXCEPT ![m] = left[m] - 1] /\ left[m] > 0
        /\ given' = IF left[m] = 1 THEN given \cup {m} ELSE given
        /\ srv' = srv
    BY <1>14 DEF WriteAgain
  <2>2. \A a \in Reliable : Owed(a) => Owed(a)'  BY <2>1 DEF Owed, QueueTyped
  <2>3. Joined /\ Joined'  BY <1>14, <2>1 DEF Joined, OnlyJoined
  <2> QED  BY <2>1, <2>2, <2>3 DEF Owes, Here
<1>15. ASSUME NEW m \in Reliable, RecvCheck(m)  PROVE Owes
  <2>1. m \in up /\ left' = [left EXCEPT ![m] = 0] /\ UNCHANGED <<given, srv, down>>
    BY <1>15 DEF RecvCheck
  <2>2. \A a \in Reliable : Owed(a) => Owed(a)' \/ a \in up
    BY <2>1 DEF Owed, QueueTyped
  <2>3. ~Joined' => UNCHANGED <<left, down>>
    BY <1>15, <2>1 DEF Joined, OnlyJoined, QueueTyped
  <2> QED  BY <2>1, <2>2, <2>3 DEF Owes, Here, Joined
<1> QED
  BY <1>1, <1>2, <1>3, <1>4, <1>5, <1>6, <1>7, <1>8, <1>9, <1>10, <1>11, <1>12, <1>13,
     <1>14, <1>15 DEF ServerStep

\* What a handler does to what the server owes.
Heeds(m) ==
    /\ \A i \in Items : i \in items => i \in items' \/ m = Del(i)
    /\ \A i \in Items : Additem(i) \in up' => Additem(i) \in up \/ i \in items'
    /\ \A o \in Objects : Del(o) \in up' => Del(o) \in up \/ o \in told' \/ crashed' # "no"
    /\ told \subseteq told'
    /\ DOMAIN tux' \subseteq DOMAIN tux \cup {t \in Tuxes : m.cmd = "newtux" /\ t = m.obj}
                                        \cup {t \in Tuxes : m.cmd = "init" /\ t = Me}

LEMMA AnswersApart ==
  /\ \A o, a : Del(o) # Additem(a) /\ Del(o) # InitMsg /\ Additem(o) # InitMsg
  /\ \A o, a : Del(o) = Del(a) => o = a
  /\ \A o, a : Additem(o) = Additem(a) => o = a
BY DEF Del, Additem, InitMsg, Msg

LEMMA AllHeeded ==
  ASSUME ClientTyped, NEW m \in Msgs, Handles(m)
  PROVE  Heeds(m)
<1>1. CASE m.cmd = "init" /\ RecvInit
  <2>1. up' = up \cup {InitMsg} /\ UNCHANGED <<items, told>>
    BY <1>1 DEF RecvInit, Answers, Ignores, client
  <2>2. DOMAIN tux' \subseteq DOMAIN tux \cup {Me}
    BY <1>1 DEF RecvInit, Ignores, client
  <2> QED  BY <1>1, <2>1, <2>2, AnswersApart, Apart DEF Heeds
<1>2. CASE m.cmd = "newtux" /\ m.obj \in Tuxes /\ RecvNewtux(m.obj, m.kind)
  <2>1. UNCHANGED <<up, items, told>>
    BY <1>2 DEF RecvNewtux, AnswersNothing, Ignores, client
  <2>2. DOMAIN tux' \subseteq DOMAIN tux \cup {m.obj}
    BY <1>2 DEF RecvNewtux, Ignores, client, Seen
  <2> QED  BY <1>2, <2>1, <2>2 DEF Heeds
<1>3. CASE RecvEvent(m.obj)
  <2>1. UNCHANGED <<up, items, told, tux>>
    BY <1>3 DEF RecvEvent, AnswersNothing, Early, Stops, Ignores, client
  <2> QED  BY <2>1 DEF Heeds
<1>4. CASE RecvKill(m.obj)
  <2>1. UNCHANGED <<up, items, told>> /\ DOMAIN tux' = DOMAIN tux
    BY <1>4 DEF RecvKill, AnswersNothing, Early, Stops, Ignores, client
  <2> QED  BY <2>1 DEF Heeds
<1>5. CASE m = Del(m.obj) /\ RecvDel(m.obj)
  <2>1. up' = up \cup {m}  BY <1>5 DEF RecvDel, Answers
  <2>2. \/ UNCHANGED <<items, told, tux>> /\ crashed' # "no"
        \/ /\ items' = items \ {m.obj} /\ told' = told \cup {m.obj}
           /\ DOMAIN tux' \subseteq DOMAIN tux
    BY <1>5 DEF RecvDel, Early, Stops
  <2> QED  BY <1>5, <2>1, <2>2, AnswersApart DEF Heeds
<1>6. CASE m = Additem(m.obj) /\ RecvAdditem(m.obj)
  <2>1. \/ up' = up /\ items' = items
        \/ up' = up \cup {m} /\ items' = items \cup {m.obj}
    BY <1>6 DEF RecvAdditem, Answers, AnswersNothing, Ignores, client
  <2>2. UNCHANGED <<told, tux>>  BY <1>6 DEF RecvAdditem, Ignores, client
  <2> QED  BY <1>6, <2>1, <2>2, AnswersApart DEF Heeds
<1>7. CASE RecvShot(m.obj, m.kind)
  <2>1. UNCHANGED <<up, items, told, tux>>
    BY <1>7 DEF RecvShot, AnswersNothing, Early, Stops
  <2> QED  BY <2>1 DEF Heeds
<1> QED  BY <1>1, <1>2, <1>3, <1>4, <1>5, <1>6, <1>7, MsgFields DEF Handles

\* Whom the client knows or will know.
Heard(t) == t \in DOMAIN tux \/ \E j \in DOMAIN down : down[j].cmd = "newtux" /\ down[j].obj = t

\* Each thing the client has not got is owed, and so is each leave it has not
\* been told of.
ItemsOwed == \A i \in Items : Joined /\ Here(i) => Owed(Additem(i)) \/ i \in items
ItemsAnswered == \A i \in Items : Additem(i) \in up => i \in items \/ srv[i] = "gone"
LeavesOwed ==
    \A t \in Tuxes : Heard(t) /\ srv[t] = "gone" => Owed(Del(t)) \/ t \in told \/ crashed # "no"
LeavesAnswered == \A o \in Objects : Del(o) \in up => o \in told \/ crashed # "no"
HeardJoined == \A t \in Tuxes : Heard(t) => srv[t] # "no"
MeStays == srv[Me] # "gone"
Owing == ItemsOwed /\ ItemsAnswered /\ LeavesOwed /\ LeavesAnswered /\ HeardJoined /\ MeStays
         /\ OnlyJoined

LEMMA InitOwing == Init => Owing
<1> SUFFICES ASSUME Init  PROVE Owing
  OBVIOUS
<1>1. DOMAIN tux = {} /\ DOMAIN down = {} /\ up = {} /\ srv[Me] = "no"  BY DEF Init
<1>2. left = [m \in Reliable |-> 0] /\ down = <<>> /\ arena = FALSE  BY DEF Init
<1> QED
  BY <1>1, <1>2 DEF Owing, ItemsOwed, ItemsAnswered, LeavesOwed, LeavesAnswered, HeardJoined,
                    MeStays, OnlyJoined, Heard, Joined

LEMMA ServerStepOwing ==
  ASSUME IInv, Owing, ServerStep
  PROVE  Owing'
<1> USE DEF IInv, Typed, Owing
<1>1. Owes  BY ServerStepOwes
<1>2. Step  BY ServerStepTells DEF Orderly
<1>3. PICK p \in Seq(Msgs) : Tells(p)  BY <1>2 DEF Step
<1>4. UNCHANGED <<arena, tux, items, told, crashed>> /\ up' \subseteq up /\ up \subseteq Reliable
  BY <1>3 DEF Tells, client, QueueTyped
<1>5. \A o \in Objects : srv[o] = "gone" => srv'[o] = "gone"  BY <1>2 DEF Step, Goes
<1>6. Items \subseteq Objects /\ Tuxes \subseteq Objects /\ Me \in Tuxes
  BY Apart DEF Objects, AllItems
<1>7. ASSUME NEW t \in Tuxes, Heard(t)'  PROVE Heard(t) \/ srv'[t] = "here"
  <2>1. CASE t \in DOMAIN tux'  BY <1>4, <2>1 DEF Heard
  <2>2. ASSUME NEW j \in DOMAIN down', down'[j].cmd = "newtux", down'[j].obj = t
        PROVE  Heard(t) \/ srv'[t] = "here"
    <3>1. down' = down \o p /\ p \in Seq(Truths') /\ down \in Seq(Msgs)
      BY <1>3 DEF Tells, QueueTyped
    <3>2. \A k \in DOMAIN p : p[k] \in Truths'  BY <3>1, LenProperties, ElementOfSeq
    <3>3. \/ j \in DOMAIN down /\ down'[j] = down[j]
          \/ down'[j] \in Truths'
      BY <3>1, <3>2, Appended
    <3> QED  BY <2>2, <3>3 DEF Heard, Truths
  <2> QED  BY <1>7, <2>1, <2>2 DEF Heard
<1>8. ItemsOwed'
  <2> SUFFICES ASSUME NEW i \in Items, Joined', Here(i)'
               PROVE  Owed(Additem(i))' \/ i \in items'
    BY DEF ItemsOwed
  <2>1. Additem(i) \in Reliable  BY MsgsOf DEF AllItems
  <2>2. Owed(Additem(i))' \/ (Joined /\ Here(i))  BY <1>1 DEF Owes
  <2>3. CASE Joined /\ Here(i)
    <3>1. Owed(Additem(i)) \/ i \in items  BY <2>3 DEF ItemsOwed
    <3>2. Owed(Additem(i)) => Owed(Additem(i))' \/ Additem(i) \in up  BY <1>1, <2>1 DEF Owes
    <3>3. Additem(i) \in up => i \in items  BY <2>3 DEF ItemsAnswered, Here
    <3> QED  BY <1>4, <3>1, <3>2, <3>3
  <2> QED  BY <2>2, <2>3
<1>9. ItemsAnswered'  BY <1>4, <1>5, <1>6 DEF ItemsAnswered
<1>10. LeavesOwed'
  <2> SUFFICES ASSUME NEW t \in Tuxes, Heard(t)', srv'[t] = "gone"
               PROVE  Owed(Del(t))' \/ t \in told' \/ crashed' # "no"
    BY DEF LeavesOwed
  <2>1. Heard(t) /\ Del(t) \in Reliable  BY <1>6, <1>7, MsgsOf
  <2>2. Joined
    <3>1. arena \/ DOMAIN down # {}
      BY <2>1 DEF Heard, Agrees, Knows
    <3>2. DOMAIN <<>> = {}  OBVIOUS
    <3> QED  BY <3>1, <3>2 DEF OnlyJoined
  <2>3. CASE srv[t] = "gone"
    <3>1. Owed(Del(t)) \/ t \in told \/ crashed # "no"  BY <2>1, <2>3 DEF LeavesOwed
    <3>2. Owed(Del(t)) => Owed(Del(t))' \/ Del(t) \in up  BY <1>1, <2>1 DEF Owes
    <3>3. Del(t) \in up => t \in told \/ crashed # "no"  BY <1>6 DEF LeavesAnswered
    <3> QED  BY <1>4, <3>1, <3>2, <3>3
  <2>4. CASE srv[t] # "gone"  BY <1>1, <2>2, <2>4 DEF Owes
  <2> QED  BY <2>3, <2>4
<1>11. LeavesAnswered'  BY <1>4 DEF LeavesAnswered
<1>12. HeardJoined'
  <2> SUFFICES ASSUME NEW t \in Tuxes, Heard(t)'  PROVE srv'[t] # "no"
    BY DEF HeardJoined
  <2> QED  BY <1>1, <1>6, <1>7 DEF HeardJoined, Owes
<1>13. MeStays'  BY <1>1, <1>6 DEF MeStays, Owes
<1>14. OnlyJoined'
  <2>1. ~Joined' => ~Joined  BY <1>1, <1>6, <1>13 DEF Owes, Joined, MeStays
  <2> QED  BY <1>1, <1>4, <2>1 DEF OnlyJoined, Owes
<1> QED  BY <1>8, <1>9, <1>10, <1>11, <1>12, <1>13, <1>14

\* The queue of the server is left alone by the rest.
LEMMA ClientOwing ==
  ASSUME IInv, Owing, UNCHANGED <<server, queue>>,
         \A i \in Items : i \in items => i \in items' \/ srv[i] = "gone",
         \A i \in Items : Additem(i) \in up' => Additem(i) \in up \/ i \in items',
         \A o \in Objects : Del(o) \in up' => Del(o) \in up \/ o \in told' \/ crashed' # "no",
         told \subseteq told', crashed # "no" => crashed' # "no",
         \A t \in Tuxes : Heard(t)' => Heard(t) \/ (t = Me /\ Joined),
         ~Joined => UNCHANGED <<down, arena>>
  PROVE  Owing'
<1> USE DEF Owing
<1>1. /\ srv' = srv /\ left' = left /\ given' = given
      /\ (Joined' <=> Joined) /\ \A o : Here(o)' <=> Here(o)
      /\ \A m : Owed(m)' <=> Owed(m)
  BY DEF server, queue, Joined, Here, Owed
<1>2. ItemsOwed' /\ ItemsAnswered'
  BY <1>1 DEF ItemsOwed, ItemsAnswered, Here
<1>3. HeardJoined' /\ MeStays' /\ OnlyJoined'
  BY <1>1 DEF HeardJoined, MeStays, OnlyJoined, Joined
<1>4. LeavesAnswered'  BY <1>1 DEF LeavesAnswered
<1>5. LeavesOwed'
  <2> SUFFICES ASSUME NEW t \in Tuxes, Heard(t)', srv'[t] = "gone"
               PROVE  Owed(Del(t))' \/ t \in told' \/ crashed' # "no"
    BY DEF LeavesOwed
  <2>1. Heard(t)  BY <1>1 DEF MeStays
  <2>2. Owed(Del(t)) \/ t \in told \/ crashed # "no"  BY <1>1, <2>1 DEF LeavesOwed
  <2> QED  BY <1>1, <2>2
<1> QED  BY <1>2, <1>3, <1>4, <1>5

LEMMA NotJoinedEmpty ==
  ASSUME OnlyJoined, NEW i \in DOMAIN down
  PROVE  Joined
<1>1. DOMAIN <<>> = {}  OBVIOUS
<1> QED  BY <1>1 DEF OnlyJoined

LEMMA TakesHeard ==
  ASSUME QueueTyped, NEW i \in DOMAIN down, Arrives(i), Takes(i), NEW t,
         \E j \in DOMAIN down' : down'[j].cmd = "newtux" /\ down'[j].obj = t
  PROVE  Heard(t)
BY TakesKeeps DEF Heard

LEMMA RecvOwing ==
  ASSUME IInv, Owing, NEW i \in DOMAIN down, Recv(i)
  PROVE  Owing'
<1> USE DEF IInv, Typed, Owing
<1> DEFINE m == down[i]
<1>1. /\ Arrives(i) /\ Takes(i) /\ UNCHANGED <<server, queue, ordered>>
      /\ crashed = "no" /\ Handles(m)
  BY DEF Recv, Runs
<1>2. m \in Msgs  BY <1>1, TakesKeeps
<1>3. Joined  BY NotJoinedEmpty
<1>4. Heeds(m)
  <2> HIDE DEF m
  <2> QED  BY <1>1, <1>2, AllHeeded
<1>5. ASSUME NEW o \in Items, m = Del(o)  PROVE srv[o] = "gone"
  <2>1. o \in Objects  BY DEF Objects, AllItems
  <2>2. m.cmd = "del" /\ m.obj = o
    <3> HIDE DEF m
    <3> QED  BY <1>5 DEF Del, Msg
  <2> QED  BY <2>2 DEF Orderly, DelsTrue
<1>6. ASSUME NEW t \in Tuxes, Heard(t)'  PROVE Heard(t) \/ t = Me
  <2>1. CASE t \in DOMAIN tux'
    <3>1. t \in DOMAIN tux \/ (m.cmd = "newtux" /\ t = m.obj) \/ t = Me
      BY <1>4, <2>1 DEF Heeds
    <3> QED  BY <3>1 DEF Heard
  <2>2. CASE \E j \in DOMAIN down' : down'[j].cmd = "newtux" /\ down'[j].obj = t
    BY <1>1, <2>2, TakesHeard
  <2> QED  BY <1>6, <2>1, <2>2 DEF Heard
<1>7. \A o \in Items : o \in items => o \in items' \/ srv[o] = "gone"
  BY <1>4, <1>5 DEF Heeds
<1> HIDE DEF m
<1>8. /\ \A o \in Items : Additem(o) \in up' => Additem(o) \in up \/ o \in items'
      /\ \A o \in Objects : Del(o) \in up' => Del(o) \in up \/ o \in told' \/ crashed' # "no"
      /\ told \subseteq told'
  BY <1>4 DEF Heeds
<1> QED  BY <1>1, <1>3, <1>6, <1>7, <1>8, ClientOwing

LEMMA RestOwing ==
  ASSUME IInv, Owing,
         \/ \E i \in DOMAIN down : Lose(i)
         \/ \E s \in Shots : TimerDelShot(s)
         \/ \E o \in Objects : EndsHere(o)
         \/ \E m \in Reliable : LoseAnswer(m)
         \/ UNCHANGED vars
  PROVE  Owing'
<1> USE DEF IInv, Typed, Owing
<1>1. ASSUME NEW i \in DOMAIN down, Lose(i)  PROVE Owing'
  <2>1. Arrives(i) /\ Takes(i) /\ UNCHANGED <<server, queue, up, client>>  BY <1>1 DEF Lose
  <2>2. \A t \in Tuxes : Heard(t)' => Heard(t)
    <3> SUFFICES ASSUME NEW t \in Tuxes, Heard(t)'  PROVE Heard(t)
      OBVIOUS
    <3>1. CASE t \in DOMAIN tux'  BY <2>1, <3>1 DEF Heard, client
    <3>2. CASE \E j \in DOMAIN down' : down'[j].cmd = "newtux" /\ down'[j].obj = t
      BY <2>1, <3>2, TakesHeard
    <3> QED  BY <3>1, <3>2 DEF Heard
  <2>3. Joined  BY NotJoinedEmpty
  <2>4. UNCHANGED <<items, told, crashed>>  BY <2>1 DEF client
  <2> QED  BY <2>1, <2>2, <2>3, <2>4, ClientOwing
<1>2. ASSUME \/ \E s \in Shots : TimerDelShot(s)
             \/ \E o \in Objects : EndsHere(o)
             \/ \E m \in Reliable : LoseAnswer(m)
             \/ UNCHANGED vars
      PROVE  Owing'
  <2>1. UNCHANGED <<server, queue, down, arena, tux, told, crashed>> /\ up' \subseteq up
    BY <1>2 DEF TimerDelShot, EndsHere, LoseAnswer, network, client, vars
  <2>2. \A o \in Items : o \in items => o \in items'
    <3>1. \A o \in Items : o \notin Shots /\ o \notin Explosions
      BY Apart, ReplicaAssumption DEF AllItems
    <3> QED
      BY <1>2, <3>1 DEF TimerDelShot, EndsHere, LoseAnswer, client, vars, ClientTyped
  <2>3. \A t : Heard(t)' => Heard(t)  BY <2>1 DEF Heard
  <2> QED  BY <2>1, <2>2, <2>3, ClientOwing
<1> QED  BY <1>1, <1>2

LEMMA NextOwing == IInv /\ Owing /\ [Next]_vars => Owing'
BY ServerStepOwing, RecvOwing, RestOwing DEF Next, ClientStep

-----------------------------------------------------------------------------
(* What it is for.                                                          *)

\* The state's types, for any number of objects and any network.
THEOREM TypeCorrect == Spec => []TypeOK
<1>1. IInv => TypeOK
  <2> SUFFICES ASSUME IInv  PROVE TypeOK
    OBVIOUS
  <2>1. deaths \in Nat /\ rounds \in Nat
    BY Counts DEF IInv, Typed, ServerTyped, ClientTyped
  <2> QED
    BY <2>1, Zenon DEF IInv, Typed, ServerTyped, QueueTyped, ClientTyped, TypeOK, Msgs
<1> QED  BY <1>1, Inductive, PTL

\* The register of ids agrees with the arena whatever is lost, repeated and
\* overtaken, so the assertion of id_replace never stops the client.
THEOREM AlwaysSound == Spec => []ReplicaSound
<1>1. IInv => ReplicaSound  BY DEF IInv, Agrees
<1> QED  BY <1>1, Inductive, PTL

\* The client never counts more deaths than the server.
THEOREM NeverAhead == Spec => []RoundsNotAhead
<1>1. ASSUME IInv  PROVE RoundsNotAhead
  <2>1. rounds \in 0 .. MaxRound /\ deaths \in 0 .. MaxRound
    BY <1>1 DEF IInv, Typed, ClientTyped, ServerTyped
  <2>2. Kills(down) \in Nat  BY <1>1, KillsFinite DEF IInv, Typed, QueueTyped
  <2> QED  BY <1>1, <2>1, <2>2, ReplicaAssumption DEF IInv, Behind, RoundsNotAhead
<1> QED  BY <1>1, Inductive, PTL

\* Over an orderly network nobody comes back after his "del".
THEOREM NobodyReturns == Spec => []GoneStayGone
<1>1. IInv => GoneStayGone  BY DEF IInv, Orderly
<1> QED  BY <1>1, Inductive, PTL

\* When nothing is on its way or given up the client has what lies in the arena of
\* the server and, over an orderly network, nobody who has left.
THEOREM AlwaysQuietAgrees == Spec => []QuietAgrees
<1>1. Spec => [](IInv /\ Owing)
  BY InitIInv, InitOwing, NextIInv, NextOwing, PTL DEF Spec
<1>2. ASSUME IInv, Owing  PROVE QuietAgrees
  <2> SUFFICES ASSUME arena, crashed = "no", down = <<>>, given = {},
                      \A m \in Reliable : left[m] = 0
               PROVE  /\ \A i \in Items : Here(i) => i \in items
                      /\ ordered => \A t \in DOMAIN tux : Here(t)
    BY DEF QuietAgrees
  <2>1. \A m \in Reliable : ~Owed(m)  BY DEF Owed
  <2>2. Joined  BY <1>2 DEF Owing, OnlyJoined
  <2>3. ASSUME NEW i \in Items, Here(i)  PROVE i \in items
    <3>1. Additem(i) \in Reliable  BY MsgsOf DEF AllItems
    <3> QED  BY <1>2, <2>1, <2>2, <2>3, <3>1 DEF Owing, ItemsOwed
  <2>4. ASSUME ordered, NEW t \in DOMAIN tux  PROVE Here(t)
    <3>1. t \in Tuxes /\ t \in Objects  BY <1>2, Apart DEF IInv, Typed, ClientTyped
    <3>2. Heard(t)  BY DEF Heard
    <3>3. t \notin told  BY <1>2, <2>4 DEF IInv, Orderly, GoneStayGone
    <3>4. Del(t) \in Reliable  BY <3>1, MsgsOf
    <3>5. srv[t] # "gone"
      BY <1>2, <2>1, <3>1, <3>2, <3>3, <3>4 DEF Owing, LeavesOwed
    <3>6. srv[t] # "no"  BY <1>2, <3>1, <3>2 DEF Owing, HeardJoined
    <3>7. srv[t] \in {"no", "here", "gone"}  BY <1>2, <3>1 DEF IInv, Typed, ServerTyped
    <3> QED  BY <3>5, <3>6, <3>7 DEF Here
  <2> QED  BY <2>3, <2>4
<1> QED  BY <1>1, <1>2, PTL
=============================================================================
