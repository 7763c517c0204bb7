-------------------------- MODULE MeshQueueProofs ---------------------------
(***************************************************************************)
(* Proofs about MeshQueue, for any blocks, neighbours, threads and number  *)
(* of changes: the references are exact, acknowledgements are kept, nobody *)
(* sleeps over work, and the meshes shown are current.                     *)
(***************************************************************************)
EXTENDS MeshQueue, FiniteSetTheorems, SequenceTheorems, TLAPS

Busy(w) == pc[w] \in {"fill", "put", "done"}

\* A position has one entry.
OneEntry == \A i, j \in DOMAIN queue : queue[i].p = queue[j].p => i = j
-----------------------------------------------------------------------------
(***************************************************************************)
(* How the holders of a block in a list change with the list.              *)
(***************************************************************************)
Holders(s, b) == {i \in DOMAIN s : b \in s[i].blocks}
One(b, blocks) == IF b \in blocks THEN 1 ELSE 0

\* What a list may hold.
LEMMA ElementsOf ==
    ASSUME NEW E, NEW s \in Seq(E)
    PROVE  /\ Len(s) \in Nat /\ DOMAIN s = 1 .. Len(s)
           /\ \A i \in 1 .. Len(s) : s[i] \in E
OBVIOUS

LEMMA HoldersFinite ==
    ASSUME NEW s \in Seq(Entries), NEW b
    PROVE  IsFiniteSet(Holders(s, b)) /\ HoldersIn(s, b) \in Nat
<1>1. Len(s) \in Nat /\ DOMAIN s = 1 .. Len(s)
  BY ElementsOf
<1>2. IsFiniteSet(1 .. Len(s)) /\ Holders(s, b) \in SUBSET (1 .. Len(s))
  BY <1>1, FS_Interval DEF Holders
<1>3. IsFiniteSet(Holders(s, b))
  BY <1>2, FS_Subset
<1>4. QED
  BY <1>3, FS_CardinalityType DEF Holders, HoldersIn

\* An entry more at the end.
LEMMA HoldersAppend ==
    ASSUME NEW s \in Seq(Entries), NEW e \in Entries, NEW b
    PROVE  HoldersIn(Append(s, e), b) = HoldersIn(s, b) + One(b, e.blocks)
<1> DEFINE t == Append(s, e)
<1>1. /\ Len(s) \in Nat /\ DOMAIN s = 1 .. Len(s) /\ DOMAIN t = 1 .. Len(s) + 1
      /\ t[Len(s) + 1] = e /\ \A i \in 1 .. Len(s) : t[i] = s[i]
  BY ElementsOf
<1>2. Len(s) + 1 \notin Holders(s, b)
  BY <1>1 DEF Holders
<1>3. Holders(t, b) = IF b \in e.blocks THEN Holders(s, b) \cup {Len(s) + 1} ELSE Holders(s, b)
  BY <1>1 DEF Holders
<1>4. Cardinality(Holders(s, b) \cup {Len(s) + 1}) = Cardinality(Holders(s, b)) + 1
  BY <1>2, HoldersFinite, FS_AddElement
<1>5. HoldersIn(t, b) = Cardinality(Holders(t, b)) /\ HoldersIn(s, b) = Cardinality(Holders(s, b))
  BY DEF HoldersIn, Holders
<1>6. HoldersIn(s, b) \in Nat
  BY HoldersFinite
<1> QED BY <1>3, <1>4, <1>5, <1>6 DEF One

\* The list t is s without its element i.
Shorter(t, s, i) ==
    /\ i \in 1 .. Len(s) /\ Len(t) = Len(s) - 1
    /\ \A j \in 1 .. Len(t) : t[j] = s[IF j < i THEN j ELSE j + 1]

LEMMA HoldersShorter ==
    ASSUME NEW s \in Seq(Entries), NEW t \in Seq(Entries), NEW i, Shorter(t, s, i), NEW b
    PROVE  HoldersIn(s, b) = HoldersIn(t, b) + One(b, s[i].blocks)
<1> DEFINE f == [j \in Holders(t, b) |-> IF j < i THEN j ELSE j + 1]
<1> DEFINE R == Holders(s, b) \ {i}
<1>1. /\ Len(s) \in Nat /\ DOMAIN s = 1 .. Len(s) /\ Len(t) \in Nat /\ DOMAIN t = 1 .. Len(t)
      /\ i \in 1 .. Len(s) /\ Len(t) = Len(s) - 1
      /\ \A j \in 1 .. Len(t) : t[j] = s[IF j < i THEN j ELSE j + 1]
  BY ElementsOf DEF Shorter
<1>2. \A j \in Holders(t, b) : j \in 1 .. Len(t) /\ b \in t[j].blocks
  BY <1>1 DEF Holders
<1>3. f \in [Holders(t, b) -> R]
  <2>1. \A j \in Holders(t, b) : f[j] \in R
    BY <1>1, <1>2 DEF Holders
  <2>2. f = [j \in Holders(t, b) |-> f[j]]
    OBVIOUS
  <2> QED BY <2>1, <2>2
<1>4. \A j, k \in Holders(t, b) : f[j] = f[k] => j = k
  BY <1>1, <1>2
<1>5. ASSUME NEW k \in R
      PROVE  \E j \in Holders(t, b) : f[j] = k
  <2>1. k \in 1 .. Len(s) /\ k # i /\ b \in s[k].blocks
    BY <1>1 DEF Holders
  <2>2. CASE k < i
    <3>1. k \in 1 .. Len(t) /\ t[k] = s[k]
      BY <1>1, <2>1, <2>2
    <3>2. k \in Holders(t, b)
      BY <1>1, <2>1, <3>1 DEF Holders
    <3> QED BY <2>2, <3>2
  <2>3. CASE k > i
    <3>1. k - 1 \in 1 .. Len(t) /\ ~ (k - 1 < i) /\ t[k - 1] = s[k]
      BY <1>1, <2>1, <2>3
    <3>2. k - 1 \in Holders(t, b)
      BY <1>1, <2>1, <3>1 DEF Holders
    <3>3. f[k - 1] = (k - 1) + 1 /\ (k - 1) + 1 = k
      BY <2>1, <3>1, <3>2
    <3> QED BY <3>2, <3>3
  <2>4. k < i \/ k > i
    BY <1>1, <2>1
  <2> HIDE DEF f
  <2> QED BY <2>2, <2>3, <2>4
<1>6. f \in Bijection(Holders(t, b), R)
  <2> HIDE DEF f, R
  <2> QED BY <1>3, <1>4, <1>5 DEF Bijection, Injection, Surjection, IsInjective
<1>7. ExistsBijection(Holders(t, b), R)
  BY <1>6 DEF ExistsBijection
<1>8. Cardinality(R) = Cardinality(Holders(t, b))
  BY <1>7, HoldersFinite, FS_Bijection
<1>9. /\ IsFiniteSet(Holders(s, b)) /\ Cardinality(Holders(s, b)) \in Nat
  BY HoldersFinite, FS_CardinalityType
<1>10. Cardinality(R) = IF i \in Holders(s, b) THEN Cardinality(Holders(s, b)) - 1
                                               ELSE Cardinality(Holders(s, b))
  BY <1>9, FS_RemoveElement
<1>11. i \in Holders(s, b) <=> b \in s[i].blocks
  BY <1>1 DEF Holders
<1>12. HoldersIn(t, b) = Cardinality(Holders(t, b)) /\ HoldersIn(s, b) = Cardinality(Holders(s, b))
  BY DEF HoldersIn, Holders
<1> HIDE DEF f, R
<1>13. CASE b \in s[i].blocks
  <2>1. HoldersIn(t, b) = HoldersIn(s, b) - 1 /\ HoldersIn(s, b) \in Nat
    BY <1>8, <1>9, <1>10, <1>11, <1>12, <1>13
  <2> QED BY <2>1, <1>13 DEF One
<1>14. CASE b \notin s[i].blocks
  <2>1. HoldersIn(t, b) = HoldersIn(s, b) /\ HoldersIn(s, b) \in Nat
    BY <1>8, <1>9, <1>10, <1>11, <1>12, <1>14
  <2> QED BY <2>1, <1>14 DEF One
<1> QED BY <1>13, <1>14

\* One entry has got more blocks.
LEMMA HoldersRefreshed ==
    ASSUME NEW s \in Seq(Entries), NEW t \in Seq(Entries), NEW i \in 1 .. Len(s), NEW b,
           Len(t) = Len(s), \A j \in (1 .. Len(s)) \ {i} : t[j] = s[j],
           s[i].blocks \subseteq t[i].blocks
    PROVE  HoldersIn(t, b) = HoldersIn(s, b) + One(b, t[i].blocks \ s[i].blocks)
<1>1. Len(s) \in Nat /\ DOMAIN s = 1 .. Len(s) /\ DOMAIN t = 1 .. Len(s)
  BY ElementsOf
<1>2. i \in Holders(s, b) <=> b \in s[i].blocks
  BY <1>1 DEF Holders
<1>3. Holders(t, b) = IF b \in t[i].blocks THEN Holders(s, b) \cup {i} ELSE Holders(s, b)
  BY <1>1 DEF Holders
<1>4. IsFiniteSet(Holders(s, b)) /\ Cardinality(Holders(s, b)) \in Nat
  BY HoldersFinite, FS_CardinalityType
<1>5. Cardinality(Holders(s, b) \cup {i}) =
        IF i \in Holders(s, b) THEN Cardinality(Holders(s, b)) ELSE Cardinality(Holders(s, b)) + 1
  BY <1>4, FS_AddElement
<1>6. HoldersIn(t, b) = Cardinality(Holders(t, b)) /\ HoldersIn(s, b) = Cardinality(Holders(s, b))
  BY DEF HoldersIn, Holders
<1> QED BY <1>2, <1>3, <1>4, <1>5, <1>6 DEF One

\* The lists the code shortens.
LEMMA TailIsShorter ==
    ASSUME NEW E, NEW s \in Seq(E), s # <<>>
    PROVE  Tail(s) \in Seq(E) /\ Shorter(Tail(s), s, 1) /\ Head(s) = s[1] /\ Head(s) \in E
<1>1. /\ Len(s) \in Nat \ {0} /\ Head(s) = s[1] /\ s[1] \in E
  OBVIOUS
<1>2. /\ Tail(s) \in Seq(E) /\ Len(Tail(s)) = Len(s) - 1
      /\ \A j \in 1 .. Len(s) - 1 : Tail(s)[j] = s[j + 1]
  OBVIOUS
<1> QED BY <1>1, <1>2 DEF Shorter

LEMMA RemoveAtIsShorter ==
    ASSUME NEW E, NEW s \in Seq(E), NEW i \in 1 .. Len(s)
    PROVE  RemoveAt(s, i) \in Seq(E) /\ Shorter(RemoveAt(s, i), s, i)
<1> DEFINE u == SubSeq(s, 1, i - 1)
<1> DEFINE v == SubSeq(s, i + 1, Len(s))
<1>1. /\ Len(s) \in Nat /\ i \in Nat /\ 1 <= i /\ i <= Len(s)
      /\ \A k \in 1 .. Len(s) : s[k] \in E
  BY ElementsOf
<1>2. /\ u \in Seq(E) /\ Len(u) = i - 1
      /\ \A k \in 1 .. i - 1 : u[k] = s[k]
  BY <1>1
<1>3. /\ v \in Seq(E) /\ Len(v) = Len(s) - i
      /\ \A k \in 1 .. Len(s) - i : v[k] = s[i + k]
  BY <1>1
<1>4. RemoveAt(s, i) = u \o v
  BY DEF RemoveAt
<1> HIDE DEF u, v
<1>5. /\ u \o v \in Seq(E) /\ Len(u \o v) = Len(s) - 1
      /\ \A k \in 1 .. Len(s) - 1 : (u \o v)[k] = IF k <= i - 1 THEN u[k] ELSE v[k - (i - 1)]
  <2>1. /\ u \o v \in Seq(E) /\ Len(u \o v) = Len(u) + Len(v)
        /\ \A k \in 1 .. Len(u) + Len(v) : (u \o v)[k] = IF k <= Len(u) THEN u[k] ELSE v[k - Len(u)]
    BY <1>2, <1>3, ConcatProperties
  <2>2. Len(u) + Len(v) = Len(s) - 1
    BY <1>1, <1>2, <1>3
  <2> QED BY <1>2, <2>1, <2>2
<1>6. ASSUME NEW k \in 1 .. Len(s) - 1
      PROVE  (u \o v)[k] = s[IF k < i THEN k ELSE k + 1]
  <2>1. CASE k < i
    BY <1>1, <1>2, <1>5, <2>1
  <2>2. CASE ~ (k < i)
    <3>1. k - (i - 1) \in 1 .. Len(s) - i /\ i + (k - (i - 1)) = k + 1
      BY <1>1, <2>2
    <3> QED BY <1>1, <1>3, <1>5, <2>2, <3>1
  <2> QED BY <2>1, <2>2
<1> QED BY <1>4, <1>5, <1>6 DEF Shorter
-----------------------------------------------------------------------------
(***************************************************************************)
(* The calls that follow a change: the block, then its neighbours, which   *)
(* are not acknowledged.                                                   *)
(***************************************************************************)
LEMMA SetToSeqType ==
    ASSUME NEW S, IsFiniteSet(S)
    PROVE  SetToSeq(S) \in Seq(S)
<1>1. Cardinality(S) \in Nat /\ ExistsBijection(1 .. Cardinality(S), S)
  BY FS_CardinalityType
<1>2. \E f \in [1 .. Cardinality(S) -> S] : IsInjective(f)
  BY <1>1 DEF ExistsBijection, Bijection, Injection
<1>3. SetToSeq(S) \in [1 .. Cardinality(S) -> S]
  BY <1>2 DEF SetToSeq
<1> QED BY <1>1, <1>3

LEMMA CallsOfChange ==
    ASSUME NEW b \in Blocks, NEW ack \in BOOLEAN, NEW urgent \in BOOLEAN,
           UpdateBlock(b, ack, urgent)
    PROVE  /\ calls' \in Seq(Calls) /\ calls' # <<>> /\ defer'
           /\ \A i \in DOMAIN calls' : calls'[i].ack => calls'[i].p = b
           /\ calls'[1] = Call(b, ack, urgent) /\ 1 \in DOMAIN calls'
<1> DEFINE N == Near[b] \ {b}
<1> DEFINE S == {Call(n, FALSE, urgent) : n \in N}
<1> DEFINE f == [n \in N |-> Call(n, FALSE, urgent)]
<1>1. IsFiniteSet(N) /\ N \subseteq Blocks
  BY MeshAssumption, FS_Subset
<1>2. f \in Surjection(N, S)
  BY DEF Surjection
<1>3. IsFiniteSet(S)
  BY <1>1, <1>2, FS_Surjection
<1>4. S \subseteq Calls /\ \A c \in S : c.ack = FALSE
  <2>1. \A n \in N : Call(n, FALSE, urgent) \in Calls /\ Call(n, FALSE, urgent).ack = FALSE
    BY <1>1 DEF Calls, Call
  <2> QED BY <2>1
<1>5. calls' = <<Call(b, ack, urgent)>> \o SetToSeq(S) /\ defer' = TRUE
  BY DEF UpdateBlock
<1>6. SetToSeq(S) \in Seq(S)
  BY <1>3, SetToSeqType
<1> DEFINE s == SetToSeq(S)
<1> DEFINE one == <<Call(b, ack, urgent)>>
<1> HIDE DEF S
<1>7. s \in Seq(Calls) /\ Len(s) \in Nat /\ \A i \in 1 .. Len(s) : ~ s[i].ack
  BY <1>4, <1>6, ElementOfSeq, SeqMonotonic
<1>8. /\ one \in Seq(Calls) /\ Len(one) = 1 /\ one[1] = Call(b, ack, urgent)
      /\ Call(b, ack, urgent).p = b
  BY DEF Calls, Call
<1> HIDE DEF s, one
<1>9. /\ one \o s \in Seq(Calls) /\ Len(one \o s) = 1 + Len(s)
      /\ \A i \in 1 .. 1 + Len(s) : (one \o s)[i] = IF i <= 1 THEN one[i] ELSE s[i - 1]
  <2>1. /\ one \o s \in Seq(Calls) /\ Len(one \o s) = Len(one) + Len(s)
        /\ \A i \in 1 .. Len(one) + Len(s) :
                (one \o s)[i] = IF i <= Len(one) THEN one[i] ELSE s[i - Len(one)]
    BY <1>7, <1>8, ConcatProperties
  <2> QED BY <1>8, <2>1
<1>10. DOMAIN (one \o s) = 1 .. 1 + Len(s)
  BY <1>9, LenProperties
<1>11. (one \o s)[1] = Call(b, ack, urgent)
  BY <1>7, <1>8, <1>9
<1>12. ASSUME NEW i \in DOMAIN (one \o s), (one \o s)[i].ack
       PROVE  (one \o s)[i].p = b
  <2>1. CASE i = 1
    BY <1>8, <1>11, <2>1
  <2>2. CASE i # 1
    <3>1. i - 1 \in 1 .. Len(s) /\ (one \o s)[i] = s[i - 1]
      BY <1>7, <1>9, <1>10, <2>2
    <3> QED BY <1>7, <1>12, <3>1
  <2> QED BY <2>1, <2>2
<1>13. 1 \in DOMAIN (one \o s) /\ one \o s # <<>>
  BY <1>7, <1>9, <1>10
<1>14. calls' = one \o s /\ defer'
  BY <1>5 DEF one, s, S
<1> QED BY <1>9, <1>11, <1>12, <1>13, <1>14
-----------------------------------------------------------------------------
(***************************************************************************)
(* Types.                                                                  *)
(***************************************************************************)
LEMMA InitType == Init => TypeOK
<1> SUFFICES ASSUME Init PROVE TypeOK
  OBVIOUS
<1>1. NoData \in Data /\ NoData \in [Blocks -> Nat]
  BY MeshAssumption DEF NoData, Data
<1>2. results \in [Kinds -> Seq(Entries)]
  BY EmptySeq DEF Init
<1>3. calls \in Seq(Calls) /\ queue \in Seq(Entries)
  BY EmptySeq DEF Init
<1>4. /\ mesh \in [Blocks -> Data] /\ shown \in [Blocks -> Data]
      /\ content \in [Blocks -> Nat] /\ refs \in [Blocks -> Int]
  BY <1>1 DEF Init
<1>5. /\ task \in [Workers -> Entries \union {NoTask}]
      /\ \A w \in Workers : pc[w] = "test"
      /\ pc \in [Workers -> {"test", "wait", "check", "pop", "fill", "put", "done", "end"}]
      /\ sem \in [Workers -> BOOLEAN]
  BY DEF Init
<1>6. /\ there = {} /\ writing = {} /\ defer = FALSE /\ urgents = {} /\ inflight = {}
      /\ owed = {} /\ stop = "no"
  BY DEF Init
<1> QED BY <1>2, <1>3, <1>4, <1>5, <1>6 DEF TypeOK

LEMMA WriteType ==
    ASSUME TypeOK, NEW b \in Blocks, NEW ack \in BOOLEAN, NEW urgent \in BOOLEAN,
           Write(b, ack, urgent), there' \subseteq Blocks, owed' \subseteq Blocks
    PROVE  TypeOK'
<1>1. calls' \in Seq(Calls) /\ defer' \in BOOLEAN
  BY CallsOfChange DEF Write, UpdateBlock
<1>2. content' \in [Blocks -> Nat] /\ writing' \subseteq Blocks
  BY DEF Write, TypeOK
<1> QED BY <1>1, <1>2 DEF Write, workVars, TypeOK

\* What addBlock makes of a call.
LEMMA EntryType ==
    ASSUME TypeOK, NEW c \in Calls
    PROVE  /\ Entry(c) \in Entries /\ Entry(c).p = c.p /\ Entry(c).ack = c.ack
           /\ Entry(c).blocks = Around(c.p) \cap there
           /\ \A q \in Entries :
                /\ Refreshed(q, c) \in Entries
                /\ Refreshed(q, c).p = q.p
                /\ Refreshed(q, c).ack = (q.ack \/ c.ack)
                /\ Refreshed(q, c).blocks = q.blocks \cup (Around(c.p) \cap there)
<1>1. NoData \in Data
  BY MeshAssumption DEF NoData, Data
<1>2. Around(c.p) \cap there \subseteq Blocks
  BY DEF TypeOK
<1>3. Entry(c) = [p |-> c.p, ack |-> c.ack, urgent |-> c.urgent,
                  blocks |-> Around(c.p) \cap there, data |-> NoData]
  BY DEF Entry
<1>4. Entry(c) \in Entries
  <2>1. c.p \in Blocks /\ c.ack \in BOOLEAN /\ c.urgent \in BOOLEAN
    BY DEF Calls
  <2> QED BY <1>1, <1>2, <1>3, <2>1 DEF Entries
<1>5. ASSUME NEW q \in Entries
      PROVE  /\ Refreshed(q, c) \in Entries
             /\ Refreshed(q, c).p = q.p
             /\ Refreshed(q, c).ack = (q.ack \/ c.ack)
             /\ Refreshed(q, c).blocks = q.blocks \cup (Around(c.p) \cap there)
  <2> DEFINE urgent == q.urgent \/ c.urgent
  <2> DEFINE ack == q.ack \/ c.ack
  <2> DEFINE blocks == q.blocks \cup (Around(c.p) \cap there)
  <2>1. urgent \in BOOLEAN /\ ack \in BOOLEAN
    BY Zenon
  <2>2. blocks \in SUBSET Blocks
    BY <1>2 DEF Entries
  <2>3. Refreshed(q, c) = [q EXCEPT !.urgent = urgent, !.ack = ack, !.blocks = blocks]
    BY DEF Refreshed
  <2> HIDE DEF urgent, ack, blocks
  <2>4. [q EXCEPT !.urgent = urgent, !.ack = ack, !.blocks = blocks] \in Entries
    BY <2>1, <2>2 DEF Entries
  <2>5. [q EXCEPT !.urgent = urgent, !.ack = ack, !.blocks = blocks].p = q.p
    BY DEF Entries
  <2>6. [q EXCEPT !.urgent = urgent, !.ack = ack, !.blocks = blocks].ack = ack
    BY <2>1 DEF Entries
  <2>7. [q EXCEPT !.urgent = urgent, !.ack = ack, !.blocks = blocks].blocks = blocks
    BY DEF Entries
  <2>8. /\ Refreshed(q, c) \in Entries /\ Refreshed(q, c).p = q.p
        /\ Refreshed(q, c).ack = ack /\ Refreshed(q, c).blocks = blocks
    BY <2>3, <2>4, <2>5, <2>6, <2>7, Zenon
  <2> QED BY <2>8 DEF ack, blocks
<1> QED BY <1>3, <1>4, <1>5

\* The queue after addBlock, when the block is there.
QueueAfter(c) ==
    IF c.p \in Queued
    THEN [i \in DOMAIN queue |-> IF queue[i].p = c.p THEN Refreshed(queue[i], c) ELSE queue[i]]
    ELSE Append(queue, Entry(c))

LEMMA QueueAfterType ==
    ASSUME TypeOK, NEW c \in Calls
    PROVE  QueueAfter(c) \in Seq(Entries)
<1>1. /\ queue \in Seq(Entries) /\ Len(queue) \in Nat /\ DOMAIN queue = 1 .. Len(queue)
      /\ \A i \in 1 .. Len(queue) : queue[i] \in Entries
  BY ElementsOf DEF TypeOK
<1>2. Append(queue, Entry(c)) \in Seq(Entries)
  BY <1>1, EntryType
<1>3. [i \in DOMAIN queue |-> IF queue[i].p = c.p THEN Refreshed(queue[i], c) ELSE queue[i]]
        \in [1 .. Len(queue) -> Entries]
  BY <1>1, EntryType
<1> QED BY <1>1, <1>2, <1>3 DEF QueueAfter

LEMMA HeadCall ==
    ASSUME TypeOK, calls # <<>>
    PROVE  /\ Head(calls) \in Calls /\ Head(calls) = calls[1] /\ Shorter(Tail(calls), calls, 1)
           /\ Tail(calls) \in Seq(Calls)
BY TailIsShorter DEF TypeOK

LEMMA AddBlockType ==
    ASSUME TypeOK, AddBlock
    PROVE  TypeOK'
<1> DEFINE c == Head(calls)
<1>1. c \in Calls /\ c.p \in Blocks /\ calls' \in Seq(Calls)
  BY HeadCall DEF AddBlock, Calls
<1>2. /\ queue' \in Seq(Entries) /\ urgents' \subseteq Blocks /\ refs' \in [Blocks -> Int]
  <2>1. CASE c.p \notin there
    BY <2>1 DEF AddBlock, TypeOK
  <2>2. CASE c.p \in there
    <3>1. queue' = QueueAfter(c)
      BY <2>2 DEF AddBlock, QueueAfter
    <3>2. urgents' \subseteq Blocks
      BY <1>1, <2>2 DEF AddBlock, TypeOK
    <3>3. \A bs : Grab(bs) \in [Blocks -> Int]
      BY DEF Grab, TypeOK
    <3>4. refs' \in [Blocks -> Int]
      BY <2>2, <3>3 DEF AddBlock
    <3> QED BY <1>1, <3>1, <3>2, <3>4, QueueAfterType
  <2> QED BY <2>1, <2>2
<1>3. writing' \subseteq Blocks
  BY DEF AddBlock
<1> QED BY <1>1, <1>2, <1>3 DEF AddBlock, TypeOK

\* The result that is applied next.
LEMMA HeadResult ==
    ASSUME TypeOK, results[NextKind] # <<>>
    PROVE  /\ NextKind \in Kinds /\ results[NextKind] \in Seq(Entries)
           /\ Head(results[NextKind]) = results[NextKind][1]
           /\ Head(results[NextKind]) \in Entries
           /\ Tail(results[NextKind]) \in Seq(Entries)
           /\ Shorter(Tail(results[NextKind]), results[NextKind], 1)
<1>1. NextKind \in Kinds
  BY DEF NextKind, Kinds
<1>2. results[NextKind] \in Seq(Entries)
  BY <1>1 DEF TypeOK
<1> QED BY <1>1, <1>2, TailIsShorter

LEMMA ApplyResultType ==
    ASSUME TypeOK, ApplyResult
    PROVE  TypeOK'
<1> DEFINE r == Head(results[NextKind])
<1>1. r \in Entries /\ NextKind \in Kinds /\ Tail(results[NextKind]) \in Seq(Entries)
  BY HeadResult DEF ApplyResult
<1>2. r.p \in Blocks /\ r.data \in Data
  BY <1>1 DEF Entries
<1>3. results' \in [Kinds -> Seq(Entries)]
  BY <1>1 DEF ApplyResult, TypeOK
<1>4. mesh' \in [Blocks -> Data] /\ shown' \in [Blocks -> Data] /\ owed' \subseteq Blocks
  BY <1>1, <1>2 DEF ApplyResult, TypeOK
<1>5. refs' \in [Blocks -> Int]
  BY DEF ApplyResult, Drop, TypeOK
<1> QED BY <1>3, <1>4, <1>5 DEF ApplyResult, workVars, TypeOK

LEMMA MainType ==
    ASSUME TypeOK, \/ DeferUpdate \/ Nudge \/ Join \/ RequestStop
                   \/ \E b \in Blocks : ReceiveBlock(b) \/ ChangeNode(b) \/ Unload(b)
    PROVE  TypeOK'
<1>1. CASE DeferUpdate
  BY <1>1 DEF DeferUpdate, workVars, TypeOK
<1>2. CASE Nudge
  BY <1>2 DEF Nudge, workVars, TypeOK
<1>3. CASE RequestStop
  BY <1>3 DEF RequestStop, workVars, TypeOK
<1>4. CASE Join
  <2>1. \A b \in Blocks : HeldByResults(b) \in Nat /\ HoldersIn(queue, b) \in Nat
    BY HoldersFinite DEF HeldByResults, TypeOK, Kinds
  <2>2. refs' \in [Blocks -> Int]
    BY <1>4, <2>1 DEF Join, TypeOK
  <2>3. queue' \in Seq(Entries) /\ results' \in [Kinds -> Seq(Entries)]
    BY <1>4, EmptySeq DEF Join
  <2> QED BY <1>4, <2>2, <2>3 DEF Join, TypeOK
<1>5. ASSUME NEW b \in Blocks, ReceiveBlock(b)
      PROVE  TypeOK'
  BY <1>5, WriteType DEF ReceiveBlock, TypeOK
<1>6. ASSUME NEW b \in Blocks, ChangeNode(b)
      PROVE  TypeOK'
  BY <1>6, WriteType DEF ChangeNode, TypeOK
<1>7. ASSUME NEW b \in Blocks, Unload(b)
      PROVE  TypeOK'
  <2>1. NoData \in Data
    BY MeshAssumption DEF NoData, Data
  <2>2. mesh' \in [Blocks -> Data] /\ shown' \in [Blocks -> Data] /\ there' \subseteq Blocks
    BY <1>7, <2>1 DEF Unload, TypeOK
  <2> QED BY <1>7, <2>2 DEF Unload, workVars, TypeOK
<1> QED BY <1>1, <1>2, <1>3, <1>4, <1>5, <1>6, <1>7

\* The entry a worker takes.
LEMMA Taken ==
    ASSUME TypeOK, NEW i \in Takeable
    PROVE  /\ i \in 1 .. Len(queue) /\ queue[i] \in Entries /\ queue[i].p \in Blocks
           /\ queue[i].p \notin inflight
           /\ RemoveAt(queue, i) \in Seq(Entries) /\ Shorter(RemoveAt(queue, i), queue, i)
<1>1. i \in 1 .. Len(queue) /\ queue[i] \in Entries /\ queue[i].p \notin inflight
  BY ElementsOf DEF TypeOK, Takeable
<1>2. queue \in Seq(Entries)
  BY DEF TypeOK
<1> QED BY <1>1, <1>2, RemoveAtIsShorter DEF Entries

LEMMA WorkType ==
    ASSUME TypeOK, NEW w \in Workers, Work(w)
    PROVE  TypeOK'
<1>1. CASE Test(w) \/ Check(w) \/ PopNothing(w)
  BY <1>1 DEF Test, Check, PopNothing, Goto, mainVars, TypeOK
<1>2. CASE Wait(w)
  BY <1>2 DEF Wait, Goto, mainVars, TypeOK
<1>3. CASE Pop(w)
  <2>1. PICK i \in Takeable : /\ queue' = RemoveAt(queue, i)
                              /\ urgents' = ErasedFrom(urgents, queue[i].p)
                              /\ inflight' = inflight \union {queue[i].p}
                              /\ task' = [task EXCEPT ![w] = queue[i]]
    BY <1>3 DEF Pop
  <2>2. queue' \in Seq(Entries) /\ urgents' \subseteq Blocks /\ inflight' \subseteq Blocks
    BY <2>1, Taken DEF ErasedFrom, TypeOK
  <2>3. /\ task' \in [Workers -> Entries \union {NoTask}]
        /\ pc' = [pc EXCEPT ![w] = "fill"] /\ task'[w] \in Entries
        /\ \A v \in Workers \ {w} : task'[v] = task[v]
    BY <1>3, <2>1, Taken DEF Pop, Goto, TypeOK
  <2>4. \A v \in Workers : pc'[v] \in {"fill", "put", "done"} => task'[v] \in Entries
    BY <2>3 DEF TypeOK
  <2> QED BY <1>3, <2>2, <2>3, <2>4 DEF Pop, mainVars, TypeOK
<1>4. CASE Fill(w)
  <2>1. PICK d \in Data : task' = [task EXCEPT ![w].data = d]
    BY <1>4 DEF Fill, Data
  <2>2. task[w] \in Entries /\ pc' = [pc EXCEPT ![w] = "put"]
    BY <1>4 DEF Fill, Goto, TypeOK
  <2>3. [task[w] EXCEPT !.data = d] \in Entries
    BY <2>2 DEF Entries
  <2>4. task' = [task EXCEPT ![w] = [task[w] EXCEPT !.data = d]]
    BY <2>1 DEF TypeOK
  <2>5. /\ task' \in [Workers -> Entries \union {NoTask}]
        /\ \A v \in Workers : pc'[v] \in {"fill", "put", "done"} => task'[v] \in Entries
    BY <2>2, <2>3, <2>4 DEF TypeOK
  <2> QED BY <1>4, <2>2, <2>5 DEF Fill, mainVars, TypeOK
<1>5. CASE PutResult(w)
  <2>1. task[w] \in Entries /\ KindOf(task[w]) \in Kinds
    BY <1>5 DEF PutResult, Goto, TypeOK, KindOf, Kinds
  <2>2. results' \in [Kinds -> Seq(Entries)]
    BY <1>5, <2>1 DEF PutResult, TypeOK
  <2> QED BY <1>5, <2>2 DEF PutResult, Goto, mainVars, TypeOK
<1>6. CASE Done(w)
  BY <1>6 DEF Done, Goto, mainVars, TypeOK
<1> QED BY <1>1, <1>2, <1>3, <1>4, <1>5, <1>6 DEF Work

\* Every step stays in the types.
LEMMA StepType ==
    ASSUME TypeOK, [Next]_vars
    PROVE  TypeOK'
<1>1. CASE UNCHANGED vars
  BY <1>1 DEF vars, TypeOK
<1>2. CASE Next
  BY <1>2, AddBlockType, ApplyResultType, MainType, WorkType DEF Next, MainStep
<1> QED BY <1>1, <1>2

\* The state stays in its types.
THEOREM TypeCorrect == Spec => []TypeOK
BY InitType, StepType, PTL DEF Spec
-----------------------------------------------------------------------------
(***************************************************************************)
(* A position has one entry.                                               *)
(***************************************************************************)
LEMMA QueueDomain ==
    ASSUME TypeOK
    PROVE  /\ queue \in Seq(Entries) /\ Len(queue) \in Nat /\ DOMAIN queue = 1 .. Len(queue)
           /\ \A i \in 1 .. Len(queue) : queue[i] \in Entries /\ queue[i].p \in Blocks
<1>1. queue \in Seq(Entries) /\ \A q \in Entries : q.p \in Blocks
  BY DEF TypeOK, Entries
<1> QED BY <1>1, ElementsOf

\* addBlock refreshes the entry of the position, or appends one.
LEMMA RefreshedOne ==
    ASSUME TypeOK, OneEntry, NEW c \in Calls, NEW i \in 1 .. Len(queue), queue[i].p = c.p
    PROVE  /\ Len(QueueAfter(c)) = Len(queue) /\ DOMAIN QueueAfter(c) = 1 .. Len(queue)
           /\ QueueAfter(c)[i] = Refreshed(queue[i], c)
           /\ \A j \in (1 .. Len(queue)) \ {i} : QueueAfter(c)[j] = queue[j]
           /\ HeldFor(c.p) = queue[i].blocks
<1>1. c.p \in Queued
  BY QueueDomain DEF Queued
<1>2. QueueAfter(c) =
        [j \in 1 .. Len(queue) |-> IF queue[j].p = c.p THEN Refreshed(queue[j], c) ELSE queue[j]]
  BY <1>1, QueueDomain DEF QueueAfter
<1>3. \A j \in (1 .. Len(queue)) \ {i} : queue[j].p # c.p
  BY QueueDomain DEF OneEntry
<1>4. {j \in DOMAIN queue : queue[j].p = c.p} = {i}
  BY <1>3, QueueDomain
<1>5. HeldFor(c.p) = queue[i].blocks
  BY <1>4 DEF HeldFor
<1>6. Len(QueueAfter(c)) = Len(queue)
  BY <1>2, QueueAfterType, QueueDomain, LenProperties
<1> QED BY <1>2, <1>3, <1>5, <1>6

LEMMA AppendedOne ==
    ASSUME TypeOK, NEW c \in Calls, c.p \notin Queued
    PROVE  /\ QueueAfter(c) = Append(queue, Entry(c))
           /\ Len(QueueAfter(c)) = Len(queue) + 1 /\ DOMAIN QueueAfter(c) = 1 .. Len(queue) + 1
           /\ QueueAfter(c)[Len(queue) + 1] = Entry(c)
           /\ \A j \in 1 .. Len(queue) : QueueAfter(c)[j] = queue[j] /\ queue[j].p # c.p
           /\ HeldFor(c.p) = {}
<1>1. \A j \in 1 .. Len(queue) : queue[j].p # c.p
  BY QueueDomain DEF Queued
<1>2. {j \in DOMAIN queue : queue[j].p = c.p} = {}
  BY <1>1, QueueDomain
<1>3. HeldFor(c.p) = {}
  BY <1>2 DEF HeldFor
<1>4. QueueAfter(c) = Append(queue, Entry(c))
  BY DEF QueueAfter
<1> QED BY <1>1, <1>3, <1>4, QueueDomain, EntryType

LEMMA ShorterDiffers ==
    ASSUME NEW s \in Seq(Entries), NEW t \in Seq(Entries), NEW k, Shorter(t, s, k),
           \A i, j \in DOMAIN s : s[i].p = s[j].p => i = j
    PROVE  \A i, j \in DOMAIN t : t[i].p = t[j].p => i = j
<1> DEFINE g(j) == IF j < k THEN j ELSE j + 1
<1>1. /\ Len(s) \in Nat /\ DOMAIN s = 1 .. Len(s) /\ DOMAIN t = 1 .. Len(t)
      /\ k \in 1 .. Len(s) /\ Len(t) = Len(s) - 1
      /\ \A j \in 1 .. Len(t) : t[j] = s[g(j)]
  BY ElementsOf DEF Shorter
<1>2. \A j \in 1 .. Len(t) : g(j) \in 1 .. Len(s)
  BY <1>1
<1>3. \A i, j \in 1 .. Len(t) : g(i) = g(j) => i = j
  BY <1>1
<1> HIDE DEF g
<1>4. ASSUME NEW i \in DOMAIN t, NEW j \in DOMAIN t, t[i].p = t[j].p
      PROVE  i = j
  <2>1. /\ t[i] = s[g(i)] /\ g(i) \in DOMAIN s
        /\ t[j] = s[g(j)] /\ g(j) \in DOMAIN s
    BY <1>1, <1>2
  <2>2. g(i) = g(j)
    BY <1>4, <2>1
  <2> QED BY <1>1, <1>3, <2>2
<1> QED BY <1>4

LEMMA StepOneEntry ==
    ASSUME TypeOK, OneEntry, [Next]_vars
    PROVE  OneEntry'
<1>1. CASE queue' = queue
  BY <1>1 DEF OneEntry
<1>2. CASE AddBlock
  <2> DEFINE c == Head(calls)
  <2>1. c \in Calls
    BY <1>2, HeadCall DEF AddBlock
  <2>2. queue' = QueueAfter(c) \/ queue' = queue
    BY <1>2 DEF AddBlock, QueueAfter
  <2> HIDE DEF c
  <2>3. CASE queue' = QueueAfter(c) /\ c.p \in Queued
    <3>1. PICK i \in 1 .. Len(queue) : queue[i].p = c.p
      BY <2>3, QueueDomain DEF Queued
    <3>2. \A j \in 1 .. Len(queue) : QueueAfter(c)[j].p = queue[j].p
      BY <2>1, <3>1, RefreshedOne, EntryType, QueueDomain
    <3> QED BY <2>1, <2>3, <3>1, <3>2, RefreshedOne, QueueDomain DEF OneEntry
  <2>4. CASE queue' = QueueAfter(c) /\ c.p \notin Queued
    <3>1. \A i \in 1 .. Len(queue) + 1 : QueueAfter(c)[i].p =
              IF i = Len(queue) + 1 THEN c.p ELSE queue[i].p
      BY <2>1, <2>4, AppendedOne, EntryType, QueueDomain
    <3>2. \A i \in 1 .. Len(queue) : queue[i].p # c.p
      BY <2>1, <2>4, AppendedOne
    <3>3. DOMAIN QueueAfter(c) = 1 .. Len(queue) + 1
      BY <2>1, <2>4, AppendedOne
    <3> QED BY <2>4, <3>1, <3>2, <3>3, QueueDomain DEF OneEntry
  <2> QED BY <1>1, <2>2, <2>3, <2>4
<1>3. ASSUME NEW w \in Workers, Pop(w)
      PROVE  OneEntry'
  <2>1. PICK i \in Takeable : queue' = RemoveAt(queue, i)
    BY <1>3 DEF Pop
  <2> QED BY <2>1, Taken, QueueDomain, ShorterDiffers DEF OneEntry
<1>4. CASE Join
  BY <1>4 DEF Join, OneEntry
<1> QED BY <1>1, <1>2, <1>3, <1>4
    DEF Next, vars, MainStep, DeferUpdate, ApplyResult, Nudge, RequestStop, ReceiveBlock,
        ChangeNode, Unload, Write, Work, Test, Wait, Check, PopNothing, Fill, PutResult, Done,
        workVars
-----------------------------------------------------------------------------
(***************************************************************************)
(* The references.                                                         *)
(***************************************************************************)
Tasks(b) == {w \in Holding : b \in task[w].blocks}

RefsInv == TypeOK /\ OneEntry /\ RefsExact

LEMMA TasksFinite ==
    ASSUME NEW b
    PROVE  IsFiniteSet(Tasks(b)) /\ Cardinality(Tasks(b)) \in Nat
<1>1. Tasks(b) \in SUBSET Workers
  BY DEF Tasks, Holding
<1> QED BY <1>1, MeshAssumption, FS_Subset, FS_CardinalityType

LEMMA Counts ==
    ASSUME TypeOK, NEW b
    PROVE  /\ HoldersIn(queue, b) \in Nat /\ Cardinality(Tasks(b)) \in Nat
           /\ HoldersIn(results["urgent"], b) \in Nat /\ HoldersIn(results["normal"], b) \in Nat
           /\ HeldByResults(b) = HoldersIn(results["urgent"], b) + HoldersIn(results["normal"], b)
BY HoldersFinite, TasksFinite DEF TypeOK, Kinds, HeldByResults

LEMMA RefsKnown ==
    ASSUME RefsInv, NEW b \in Blocks
    PROVE  /\ refs[b] \in Int
           /\ refs[b] = HoldersIn(queue, b) + HeldByResults(b) + Cardinality(Tasks(b))
           /\ refs[b] > 0 => b \in there
BY DEF RefsInv, RefsExact, TypeOK, Tasks

\* The workers that hold on to blocks, and what they hold, stay the same.
LEMMA RefsStay ==
    ASSUME RefsInv, UNCHANGED <<refs, queue, results>>, \A b \in Blocks : Tasks(b)' = Tasks(b),
           \A b \in there : refs[b] > 0 => b \in there'
    PROVE  RefsExact'
BY DEF RefsInv, RefsExact, HeldByResults, HoldersIn, Tasks

LEMMA AddBlockRefs ==
    ASSUME RefsInv, AddBlock
    PROVE  RefsExact'
<1> DEFINE c == Head(calls)
<1>1. c \in Calls /\ TypeOK /\ OneEntry /\ RefsExact
  BY HeadCall DEF AddBlock, RefsInv
<1>2. UNCHANGED <<results, there, pc, task>>
  BY DEF AddBlock
<1>3. \A b \in Blocks : Tasks(b)' = Tasks(b) /\ HeldByResults(b)' = HeldByResults(b)
  BY <1>2 DEF Tasks, Holding, HeldByResults, HoldersIn
<1>4. CASE c.p \notin there
  BY <1>1, <1>2, <1>3, <1>4, RefsStay DEF AddBlock, RefsExact
<1>5. CASE c.p \in there
  <2> DEFINE new == (Around(c.p) \cap there) \ HeldFor(c.p)
  <2>1. queue' = QueueAfter(c) /\ refs' = Grab(new)
    BY <1>5 DEF AddBlock, QueueAfter
  <2>2. ASSUME NEW b \in Blocks
        PROVE  HoldersIn(QueueAfter(c), b) = HoldersIn(queue, b) + One(b, new)
    <3>1. CASE c.p \in Queued
      <4>1. PICK i \in 1 .. Len(queue) : queue[i].p = c.p
        BY <1>1, <3>1, QueueDomain DEF Queued
      <4> HIDE DEF c
      <4>2. QueueAfter(c)[i].blocks = queue[i].blocks \cup (Around(c.p) \cap there)
        BY <1>1, <4>1, RefreshedOne, EntryType, QueueDomain
      <4>3. HoldersIn(QueueAfter(c), b)
              = HoldersIn(queue, b) + One(b, QueueAfter(c)[i].blocks \ queue[i].blocks)
        BY <1>1, <4>1, <4>2, RefreshedOne, QueueAfterType, QueueDomain, HoldersRefreshed
      <4>4. QueueAfter(c)[i].blocks \ queue[i].blocks = new
        BY <1>1, <4>1, <4>2, RefreshedOne
      <4> QED BY <4>3, <4>4
    <3>2. CASE c.p \notin Queued
      <4> HIDE DEF c
      <4>1. new = Entry(c).blocks /\ Entry(c) \in Entries
        BY <1>1, <3>2, AppendedOne, EntryType
      <4>2. HoldersIn(Append(queue, Entry(c)), b) = HoldersIn(queue, b) + One(b, Entry(c).blocks)
        BY <1>1, <4>1, HoldersAppend, QueueDomain
      <4>3. QueueAfter(c) = Append(queue, Entry(c))
        BY <1>1, <3>2, AppendedOne
      <4> QED BY <4>1, <4>2, <4>3
    <3> QED BY <3>1, <3>2
  <2>3. ASSUME NEW b \in Blocks
        PROVE  refs'[b] = refs[b] + One(b, new) /\ refs[b] \in Int
    BY <1>1, <2>1 DEF Grab, One, TypeOK
  <2>4. \A b : HoldersIn(queue, b)' = HoldersIn(QueueAfter(c), b)
    BY <2>1 DEF HoldersIn
  <2> HIDE DEF new
  <2>5. ASSUME NEW b \in Blocks
        PROVE  refs'[b] = HoldersIn(queue, b)' + HeldByResults(b)' + Cardinality(Tasks(b)')
    <3>1. refs[b] = HoldersIn(queue, b) + HeldByResults(b) + Cardinality(Tasks(b))
      BY <1>1 DEF RefsExact, Tasks
    <3>2. /\ HoldersIn(queue, b) \in Nat /\ HeldByResults(b) \in Nat
          /\ Cardinality(Tasks(b)) \in Nat /\ One(b, new) \in Nat
      BY <1>1, Counts DEF One
    <3> QED BY <1>3, <2>2, <2>3, <2>4, <3>1, <3>2
  <2>6. ASSUME NEW b \in Blocks, refs'[b] > 0
        PROVE  b \in there
    <3>1. CASE b \in new
      BY <3>1 DEF new
    <3>2. CASE b \notin new
      <4>1. refs'[b] = refs[b]
        BY <2>3, <3>2 DEF One
      <4> QED BY <2>6, <4>1, RefsKnown
    <3> QED BY <3>1, <3>2
  <2> QED BY <1>2, <2>5, <2>6 DEF RefsExact, Tasks
<1> QED BY <1>4, <1>5

LEMMA ApplyResultRefs ==
    ASSUME RefsInv, ApplyResult
    PROVE  RefsExact'
<1> DEFINE k == NextKind
<1> DEFINE r == Head(results[k])
<1>1. /\ k \in Kinds /\ r \in Entries /\ r = results[k][1] /\ results[k] \in Seq(Entries)
      /\ Tail(results[k]) \in Seq(Entries) /\ Shorter(Tail(results[k]), results[k], 1)
      /\ TypeOK /\ RefsExact
  BY HeadResult DEF ApplyResult, RefsInv
<1>2. /\ results' = [results EXCEPT ![k] = Tail(@)] /\ refs' = Drop(r.blocks)
      /\ UNCHANGED <<queue, there, pc, task>>
  BY DEF ApplyResult, workVars
<1> HIDE DEF k, r
<1>3. /\ results'[k] = Tail(results[k])
      /\ \A l \in Kinds \ {k} : results'[l] = results[l]
  BY <1>1, <1>2 DEF TypeOK
<1>4. ASSUME NEW b \in Blocks
      PROVE  /\ refs'[b] = HoldersIn(queue, b)' + HeldByResults(b)' + Cardinality(Tasks(b)')
             /\ refs'[b] <= refs[b] /\ refs[b] \in Int
  <2>1. HoldersIn(results[k], b) = HoldersIn(Tail(results[k]), b) + One(b, r.blocks)
    <3>1. /\ results[k] \in Seq(Entries) /\ Tail(results[k]) \in Seq(Entries)
          /\ Shorter(Tail(results[k]), results[k], 1)
      BY <1>1
    <3>2. HoldersIn(results[k], b) = HoldersIn(Tail(results[k]), b) + One(b, results[k][1].blocks)
      BY <3>1, HoldersShorter
    <3> QED BY <1>1, <3>2
  <2>2. HoldersIn(Tail(results[k]), b) \in Nat /\ One(b, r.blocks) \in {0, 1}
    BY <1>1, HoldersFinite DEF One
  <2>3. HeldByResults(b)' = HeldByResults(b) - One(b, r.blocks)
    <3>1. HeldByResults(b)' = HoldersIn(results'["urgent"], b) + HoldersIn(results'["normal"], b)
      BY DEF HeldByResults, HoldersIn
    <3>2. CASE k = "urgent"
      BY <1>1, <1>3, <2>1, <2>2, <3>1, <3>2, Counts DEF Kinds
    <3>3. CASE k = "normal"
      BY <1>1, <1>3, <2>1, <2>2, <3>1, <3>3, Counts DEF Kinds
    <3> QED BY <1>1, <3>2, <3>3 DEF Kinds
  <2>4. refs'[b] = refs[b] - One(b, r.blocks) /\ refs[b] \in Int
    BY <1>1, <1>2 DEF Drop, One, TypeOK
  <2>5. refs[b] = HoldersIn(queue, b) + HeldByResults(b) + Cardinality(Tasks(b))
    BY <1>1 DEF RefsExact, Tasks
  <2>6. HoldersIn(queue, b)' = HoldersIn(queue, b) /\ Tasks(b)' = Tasks(b)
    BY <1>2 DEF HoldersIn, Tasks, Holding
  <2>7. /\ HoldersIn(queue, b) \in Nat /\ HeldByResults(b) \in Nat /\ Cardinality(Tasks(b)) \in Nat
    BY <1>1, Counts
  <2> QED BY <2>2, <2>3, <2>4, <2>5, <2>6, <2>7
<1>5. \A b \in Blocks : refs'[b] > 0 => b \in there
  <2> SUFFICES ASSUME NEW b \in Blocks, refs'[b] > 0 PROVE b \in there
    OBVIOUS
  <2>1. refs'[b] \in Int
    BY <1>2 DEF Drop, RefsInv, TypeOK
  <2>2. refs[b] > 0
    BY <1>4, <2>1
  <2> QED BY <2>2, RefsKnown
<1> QED BY <1>2, <1>4, <1>5 DEF RefsExact, Tasks

LEMMA JoinRefs ==
    ASSUME RefsInv, Join
    PROVE  RefsExact'
<1>1. Holding = {} /\ Holding' = {} /\ UNCHANGED <<there, task>>
  BY DEF Join, Holding
<1>2. ASSUME NEW b \in Blocks
      PROVE  refs'[b] = 0
  <2>1. Tasks(b) = {}
    BY <1>1 DEF Tasks
  <2>2. refs[b] = HoldersIn(queue, b) + HeldByResults(b) + Cardinality(Tasks(b))
    BY DEF RefsInv, RefsExact, Tasks
  <2>3. HoldersIn(queue, b) \in Nat /\ HeldByResults(b) \in Nat /\ Cardinality(Tasks(b)) = 0
    BY <2>1, Counts, FS_EmptySet DEF RefsInv
  <2>4. refs'[b] = refs[b] - HeldByResults(b) - HoldersIn(queue, b)
    BY DEF Join
  <2> QED BY <2>2, <2>3, <2>4
<1>3. ASSUME NEW b
      PROVE  HoldersIn(<<>>, b) = 0
  <2>1. {i \in DOMAIN <<>> : b \in <<>>[i].blocks} = {}
    OBVIOUS
  <2> QED BY <2>1, FS_EmptySet DEF HoldersIn
<1>4. queue' = <<>> /\ results'["urgent"] = <<>> /\ results'["normal"] = <<>>
  BY DEF Join, Kinds
<1>5. ASSUME NEW b \in Blocks
      PROVE  HoldersIn(queue, b)' = 0 /\ HeldByResults(b)' = 0 /\ Cardinality(Tasks(b)') = 0
  <2>1. Tasks(b)' = {}
    BY <1>1 DEF Tasks
  <2>2. HeldByResults(b)' = HoldersIn(results'["urgent"], b) + HoldersIn(results'["normal"], b)
    BY DEF HeldByResults, HoldersIn
  <2>3. HoldersIn(queue, b)' = HoldersIn(queue', b)
    BY DEF HoldersIn
  <2> QED BY <1>3, <1>4, <2>1, <2>2, <2>3, FS_EmptySet
<1> QED BY <1>2, <1>5 DEF RefsExact, Tasks

LEMMA WorkRefs ==
    ASSUME RefsInv, NEW w \in Workers, Work(w)
    PROVE  RefsExact'
<1>1. TypeOK /\ RefsExact /\ UNCHANGED <<refs, there>>
  BY DEF RefsInv, Work, Test, Wait, Check, Pop, PopNothing, Fill, PutResult, Done, mainVars
<1>2. \A b \in Blocks : refs'[b] > 0 => b \in there'
  BY <1>1, RefsKnown
\* Only what a worker holds matters of its place and of its task.
<1>3. ASSUME UNCHANGED <<queue, results>>, Busy(w) => pc'[w] # "pop" \/ pc[w] = "done",
             pc' = [pc EXCEPT ![w] = pc'[w]],
             pc[w] \in {"fill", "put"} <=> pc'[w] \in {"fill", "put"},
             \A v \in Workers : pc[v] \in {"fill", "put"} => task'[v].blocks = task[v].blocks
      PROVE  RefsExact'
  <2>1. \A v \in Workers : v \in Holding' <=> v \in Holding
    BY <1>1, <1>3 DEF Holding, TypeOK
  <2>2. \A b \in Blocks : Tasks(b)' = Tasks(b)
    BY <1>3, <2>1 DEF Tasks, Holding
  <2> QED BY <1>1, <1>2, <1>3, <2>2, RefsStay, RefsKnown
<1>4. CASE Test(w) \/ Wait(w) \/ Check(w) \/ PopNothing(w)
  BY <1>1, <1>3, <1>4 DEF Test, Wait, Check, PopNothing, Goto, mainVars, TypeOK, Busy
<1>5. CASE Fill(w)
  <2>1. PICK d \in Data : task' = [task EXCEPT ![w].data = d]
    BY <1>5 DEF Fill, Data
  <2>2. task[w] \in Entries
    BY <1>1, <1>5 DEF Fill, Goto, TypeOK
  <2>3. \A v \in Workers : task'[v].blocks = task[v].blocks
    BY <1>1, <2>1, <2>2 DEF TypeOK, Entries
  <2> QED BY <1>1, <1>3, <1>5, <2>3 DEF Fill, Goto, TypeOK, Busy
<1>6. CASE Done(w)
  <2>1. \A v \in Workers \ {w} : task'[v] = task[v]
    BY <1>1, <1>6 DEF Done, TypeOK
  <2> QED BY <1>1, <1>3, <1>6, <2>1 DEF Done, Goto, mainVars, TypeOK, Busy
<1>7. CASE Pop(w)
  <2>1. PICK i \in Takeable : /\ queue' = RemoveAt(queue, i)
                              /\ task' = [task EXCEPT ![w] = queue[i]]
    BY <1>7 DEF Pop
  <2>2. /\ i \in 1 .. Len(queue) /\ queue[i] \in Entries
        /\ RemoveAt(queue, i) \in Seq(Entries) /\ Shorter(RemoveAt(queue, i), queue, i)
    BY <1>1, <2>1, Taken
  <2>3. /\ pc[w] = "pop" /\ pc' = [pc EXCEPT ![w] = "fill"] /\ results' = results
        /\ task'[w] = queue[i] /\ \A v \in Workers \ {w} : task'[v] = task[v]
    BY <1>1, <1>7, <2>1 DEF Pop, Goto, TypeOK
  <2>4. Holding' = Holding \cup {w} /\ w \notin Holding
    BY <1>1, <2>3 DEF Holding, TypeOK
  <2>5. ASSUME NEW b \in Blocks
        PROVE  refs'[b] = HoldersIn(queue, b)' + HeldByResults(b)' + Cardinality(Tasks(b)')
    <3>1. Tasks(b)' = IF b \in queue[i].blocks THEN Tasks(b) \cup {w} ELSE Tasks(b)
      <4>1. Tasks(b)' = {v \in Holding \cup {w} : b \in task'[v].blocks}
        BY <2>4 DEF Tasks
      <4>2. \A v \in Holding : task'[v] = task[v]
        BY <2>3, <2>4 DEF Holding
      <4>3. b \in task'[w].blocks <=> b \in queue[i].blocks
        BY <2>3
      <4> QED BY <4>1, <4>2, <4>3 DEF Tasks
    <3>2. w \notin Tasks(b)
      BY <2>4 DEF Tasks
    <3>3. Cardinality(Tasks(b) \cup {w}) = Cardinality(Tasks(b)) + 1
      BY <3>2, TasksFinite, FS_AddElement
    <3>4. Cardinality(Tasks(b)') = Cardinality(Tasks(b)) + One(b, queue[i].blocks)
      BY <3>1, <3>3, TasksFinite DEF One
    <3>5. HoldersIn(queue, b) = HoldersIn(RemoveAt(queue, i), b) + One(b, queue[i].blocks)
      BY <1>1, <2>2, HoldersShorter DEF TypeOK
    <3>6. HoldersIn(queue, b)' = HoldersIn(RemoveAt(queue, i), b)
      BY <2>1 DEF HoldersIn
    <3>7. HeldByResults(b)' = HeldByResults(b)
      BY <2>3 DEF HeldByResults, HoldersIn
    <3>8. /\ HoldersIn(queue, b) \in Nat /\ Cardinality(Tasks(b)) \in Nat /\ HeldByResults(b) \in Nat
          /\ HoldersIn(RemoveAt(queue, i), b) \in Nat /\ One(b, queue[i].blocks) \in Nat
      BY <1>1, <2>2, Counts, HoldersFinite DEF One
    <3>9. refs'[b] = HoldersIn(queue, b) + HeldByResults(b) + Cardinality(Tasks(b))
      BY <1>1, RefsKnown
    <3> QED BY <3>4, <3>5, <3>6, <3>7, <3>8, <3>9
  <2> QED BY <1>2, <2>5 DEF RefsExact, Tasks
<1>8. CASE PutResult(w)
  <2> DEFINE k == KindOf(task[w])
  <2>1. /\ task[w] \in Entries /\ k \in Kinds
        /\ pc[w] = "put" /\ pc' = [pc EXCEPT ![w] = "done"] /\ UNCHANGED <<queue, task>>
    BY <1>1, <1>8 DEF PutResult, Goto, TypeOK, KindOf, Kinds
  <2>2. /\ results[k] \in Seq(Entries) /\ results'[k] = Append(results[k], task[w])
        /\ \A l \in Kinds \ {k} : results'[l] = results[l]
    BY <1>1, <1>8, <2>1 DEF PutResult, TypeOK
  <2> HIDE DEF k
  <2>3. Holding' = Holding \ {w} /\ w \in Holding
    BY <1>1, <2>1 DEF Holding, TypeOK
  <2>4. ASSUME NEW b \in Blocks
        PROVE  refs'[b] = HoldersIn(queue, b)' + HeldByResults(b)' + Cardinality(Tasks(b)')
    <3>1. Tasks(b)' = Tasks(b) \ {w} /\ (w \in Tasks(b) <=> b \in task[w].blocks)
      BY <2>1, <2>3 DEF Tasks
    <3>2. Cardinality(Tasks(b) \ {w}) =
            IF w \in Tasks(b) THEN Cardinality(Tasks(b)) - 1 ELSE Cardinality(Tasks(b))
      BY TasksFinite, FS_RemoveElement
    <3>3. Cardinality(Tasks(b)') = Cardinality(Tasks(b)) - One(b, task[w].blocks)
      BY <3>1, <3>2, TasksFinite DEF One
    <3>4. HoldersIn(Append(results[k], task[w]), b) = HoldersIn(results[k], b) + One(b, task[w].blocks)
      BY <2>1, <2>2, HoldersAppend
    <3>11. HoldersIn(results'[k], b) = HoldersIn(results[k], b) + One(b, task[w].blocks)
      BY <2>2, <3>4
    <3>12. /\ HoldersIn(results["urgent"], b) \in Nat /\ HoldersIn(results["normal"], b) \in Nat
           /\ HeldByResults(b) = HoldersIn(results["urgent"], b) + HoldersIn(results["normal"], b)
      BY <1>1, Counts
    <3>5. HeldByResults(b)' = HoldersIn(results'["urgent"], b) + HoldersIn(results'["normal"], b)
      BY DEF HeldByResults, HoldersIn
    <3>6. One(b, task[w].blocks) \in Nat
      BY DEF One
    <3>7. HeldByResults(b)' = HeldByResults(b) + One(b, task[w].blocks)
      <4>1. CASE k = "urgent"
        <5>1. results'["normal"] = results["normal"]
          BY <2>2, <4>1 DEF Kinds
        <5> QED BY <3>11, <3>12, <3>5, <3>6, <4>1, <5>1
      <4>2. CASE k = "normal"
        <5>1. results'["urgent"] = results["urgent"]
          BY <2>2, <4>2 DEF Kinds
        <5> QED BY <3>11, <3>12, <3>5, <3>6, <4>2, <5>1
      <4> QED BY <2>1, <4>1, <4>2 DEF Kinds
    <3>8. HoldersIn(queue, b)' = HoldersIn(queue, b)
      BY <2>1 DEF HoldersIn
    <3>9. /\ HoldersIn(queue, b) \in Nat /\ Cardinality(Tasks(b)) \in Nat /\ HeldByResults(b) \in Nat
      BY <1>1, Counts
    <3>10. refs'[b] = HoldersIn(queue, b) + HeldByResults(b) + Cardinality(Tasks(b))
      BY <1>1, RefsKnown
    <3> QED BY <3>3, <3>6, <3>7, <3>8, <3>9, <3>10
  <2> QED BY <1>2, <2>4 DEF RefsExact, Tasks
<1> QED BY <1>4, <1>5, <1>6, <1>7, <1>8 DEF Work

LEMMA StepRefs ==
    ASSUME RefsInv, [Next]_vars
    PROVE  RefsExact'
<1>1. ASSUME UNCHANGED <<refs, queue, results, pc, task>>,
             \A b \in there : refs[b] > 0 => b \in there'
      PROVE  RefsExact'
  <2>1. \A b \in Blocks : Tasks(b)' = Tasks(b)
    BY <1>1 DEF Tasks, Holding
  <2> QED BY <1>1, <2>1, RefsStay
<1>2. ASSUME NEW b \in Blocks, ReceiveBlock(b) \/ ChangeNode(b) \/ Unload(b)
      PROVE  RefsExact'
  <2>1. UNCHANGED <<refs, queue, results, pc, task>>
    BY <1>2 DEF ReceiveBlock, ChangeNode, Unload, Write, workVars
  <2>2. \A a \in there : refs[a] > 0 => a \in there'
    <3>1. CASE ReceiveBlock(b) \/ ChangeNode(b)
      BY <3>1 DEF ReceiveBlock, ChangeNode
    <3>2. CASE Unload(b)
      <4>1. there' = there \ {b} /\ refs[b] = 0
        BY <3>2 DEF Unload
      <4> QED BY <4>1
    <3> QED BY <1>2, <3>1, <3>2
  <2> QED BY <1>1, <2>1, <2>2
<1>3. CASE DeferUpdate \/ Nudge \/ RequestStop \/ UNCHANGED vars
  BY <1>1, <1>3 DEF DeferUpdate, Nudge, RequestStop, vars, workVars
<1> QED BY <1>2, <1>3, AddBlockRefs, ApplyResultRefs, JoinRefs, WorkRefs DEF Next, MainStep

LEMMA InitRefs == Init => OneEntry /\ RefsExact
<1> SUFFICES ASSUME Init PROVE OneEntry /\ RefsExact
  OBVIOUS
<1>1. OneEntry
  BY DEF Init, OneEntry
<1>2. Holding = {} /\ \A b \in Blocks : {w \in Holding : b \in task[w].blocks} = {}
  BY DEF Init, Holding
<1>3. ASSUME NEW b
      PROVE  HoldersIn(<<>>, b) = 0
  <2>1. {i \in DOMAIN <<>> : b \in <<>>[i].blocks} = {}
    OBVIOUS
  <2> QED BY <2>1, FS_EmptySet DEF HoldersIn
<1>4. queue = <<>> /\ results["urgent"] = <<>> /\ results["normal"] = <<>>
  BY DEF Init, Kinds
<1>5. \A b \in Blocks : refs[b] = 0
  BY DEF Init
<1>6. \A b \in Blocks : HoldersIn(queue, b) = 0 /\ HeldByResults(b) = 0
  BY <1>3, <1>4 DEF HeldByResults
<1> QED BY <1>1, <1>2, <1>5, <1>6, FS_EmptySet DEF RefsExact

\* The count of references of a block is the number of entries, tasks and
\* results that hold on to it, and what they hold is in memory: no worker reads
\* a block that was unloaded, and no block is held for ever.
THEOREM ReferencesAreExact == Spec => []RefsExact
<1>1. Init => RefsInv
  BY InitType, InitRefs DEF RefsInv
<1>2. RefsInv /\ [Next]_vars => RefsInv'
  BY StepType, StepOneEntry, StepRefs DEF RefsInv
<1>3. RefsInv => RefsExact
  BY DEF RefsInv
<1> QED BY <1>1, <1>2, <1>3, PTL DEF Spec
-----------------------------------------------------------------------------
(***************************************************************************)
(* Nobody sleeps over work.                                                *)
(***************************************************************************)

\* An element other than the one that was taken out is still there.
LEMMA StillThere ==
    ASSUME NEW s \in Seq(Entries) \cup Seq(Calls), NEW t \in Seq(Entries) \cup Seq(Calls),
           NEW i, Shorter(t, s, i), NEW j \in 1 .. Len(s), j # i
    PROVE  \E k \in DOMAIN t : t[k] = s[j]
<1>1. /\ Len(s) \in Nat /\ Len(t) \in Nat /\ DOMAIN t = 1 .. Len(t)
      /\ i \in 1 .. Len(s) /\ Len(t) = Len(s) - 1
      /\ \A k \in 1 .. Len(t) : t[k] = s[IF k < i THEN k ELSE k + 1]
  BY ElementsOf DEF Shorter
<1>2. CASE j < i
  <2>1. j \in 1 .. Len(t) /\ t[j] = s[j]
    BY <1>1, <1>2
  <2> QED BY <1>1, <2>1
<1>3. CASE ~ (j < i)
  <2>1. j - 1 \in 1 .. Len(t) /\ ~ (j - 1 < i) /\ (j - 1) + 1 = j
    BY <1>1, <1>3
  <2>2. t[j - 1] = s[j]
    BY <1>1, <2>1
  <2> QED BY <1>1, <2>1, <2>2
<1> QED BY <1>2, <1>3

\* addBlock takes no position out of the queue.
LEMMA QueuedAfter ==
    ASSUME TypeOK, NEW c \in Calls
    PROVE  \A p \in Queued \cup {c.p} : \E i \in DOMAIN QueueAfter(c) : QueueAfter(c)[i].p = p
<1>1. CASE c.p \in Queued
  <2>1. QueueAfter(c) =
          [j \in 1 .. Len(queue) |-> IF queue[j].p = c.p THEN Refreshed(queue[j], c) ELSE queue[j]]
    BY <1>1, QueueDomain DEF QueueAfter
  <2>2. \A j \in 1 .. Len(queue) : QueueAfter(c)[j].p = queue[j].p
    BY <2>1, QueueDomain, EntryType
  <2> QED BY <1>1, <2>1, <2>2, QueueDomain DEF Queued
<1>2. CASE c.p \notin Queued
  <2>1. /\ DOMAIN QueueAfter(c) = 1 .. Len(queue) + 1
        /\ QueueAfter(c)[Len(queue) + 1].p = c.p
        /\ \A j \in 1 .. Len(queue) : QueueAfter(c)[j] = queue[j]
    BY <1>2, AppendedOne, EntryType
  <2>2. Len(queue) \in Nat /\ DOMAIN queue = 1 .. Len(queue)
    BY QueueDomain
  <2> QED BY <2>1, <2>2 DEF Queued
<1> QED BY <1>1, <1>2

\* Calls are followed by deferUpdate; urgent positions have an entry, also when
\* results go first; a position in flight has a worker; and no worker has ended
\* before it was asked to.
CallsArePosted == calls # <<>> => defer
UrgentsAreQueued == stop # "joined" => urgents \subseteq Queued
InflightIsWorkedAt == \A p \in inflight : \E w \in Workers : Busy(w) /\ task[w].p = p
NoneEnded == stop = "no" => \A w \in Workers : pc[w] # "end"
WakeInv ==
    /\ TypeOK /\ CallsArePosted /\ UrgentsAreQueued /\ InflightIsWorkedAt /\ NoneEnded
    /\ NobodySleepsOverWork

\* A worker that finds nothing to take leaves another one at work, or no entry.
LEMMA NothingMeansBusy ==
    ASSUME WakeInv, stop = "no", queue # <<>>, Takeable = {}
    PROVE  \E w \in Workers : Busy(w)
<1>1. 1 \in DOMAIN queue
  BY QueueDomain DEF WakeInv
<1>2. CASE urgents = {}
  <2>1. queue[1].p \in inflight
    BY <1>1, <1>2 DEF Takeable
  <2> QED BY <2>1 DEF WakeInv, InflightIsWorkedAt
<1>3. CASE urgents # {}
  <2>1. PICK p \in urgents : TRUE
    BY <1>3
  <2>2. PICK i \in DOMAIN queue : queue[i].p = p
    BY <2>1 DEF WakeInv, UrgentsAreQueued, Queued
  <2>3. p \in inflight
    BY <2>1, <2>2 DEF Takeable
  <2> QED BY <2>3 DEF WakeInv, InflightIsWorkedAt
<1> QED BY <1>2, <1>3

LEMMA StepUrgents ==
    ASSUME TypeOK, UrgentsAreQueued, [Next]_vars
    PROVE  UrgentsAreQueued'
<1>1. CASE UNCHANGED <<queue, urgents>> /\ (stop = "joined" => stop' = "joined")
  BY <1>1 DEF UrgentsAreQueued, Queued
<1>2. CASE AddBlock
  <2> DEFINE c == Head(calls)
  <2>1. c \in Calls /\ stop' = stop
    BY <1>2, HeadCall DEF AddBlock
  <2>2. CASE c.p \in there
    <3>1. queue' = QueueAfter(c) /\ urgents' \subseteq urgents \cup {c.p}
      BY <1>2, <2>2 DEF AddBlock, QueueAfter
    <3>2. Queued' = {QueueAfter(c)[i].p : i \in DOMAIN QueueAfter(c)}
      BY <3>1 DEF Queued
    <3> HIDE DEF c
    <3>3. \A p \in Queued \cup {c.p} : p \in Queued'
      BY <2>1, <3>2, QueuedAfter
    <3> QED BY <2>1, <3>1, <3>3 DEF UrgentsAreQueued
  <2>3. CASE c.p \notin there
    BY <1>1, <1>2, <2>3 DEF AddBlock
  <2> QED BY <2>2, <2>3
<1>3. ASSUME NEW w \in Workers, Pop(w)
      PROVE  UrgentsAreQueued'
  <2>1. PICK i \in Takeable : /\ queue' = RemoveAt(queue, i)
                              /\ urgents' = ErasedFrom(urgents, queue[i].p)
    BY <1>3 DEF Pop
  <2>2. queue' \in Seq(Entries) /\ Shorter(queue', queue, i) /\ stop' = stop
    BY <1>3, <2>1, Taken DEF Pop, mainVars
  <2>3. ASSUME NEW p \in urgents', stop # "joined"
        PROVE  p \in Queued'
    <3>1. p \in Queued /\ p # queue[i].p
      BY <2>1, <2>3 DEF UrgentsAreQueued, ErasedFrom
    <3>2. PICK j \in 1 .. Len(queue) : queue[j].p = p
      BY <3>1, QueueDomain DEF Queued
    <3>3. \E k \in DOMAIN queue' : queue'[k] = queue[j]
      BY <2>2, <3>1, <3>2, StillThere, QueueDomain
    <3> QED BY <3>2, <3>3 DEF Queued
  <2> QED BY <2>2, <2>3 DEF UrgentsAreQueued
<1>4. CASE Join
  BY <1>4 DEF Join, UrgentsAreQueued
<1>5. CASE \E w \in Workers : Work(w) /\ ~ Pop(w)
  BY <1>1, <1>5 DEF Work, Test, Wait, Check, PopNothing, Fill, PutResult, Done, mainVars
<1>6. CASE \E b \in Blocks : ReceiveBlock(b) \/ ChangeNode(b) \/ Unload(b)
  BY <1>1, <1>6 DEF ReceiveBlock, ChangeNode, Unload, Write, workVars
<1>7. CASE DeferUpdate \/ ApplyResult \/ Nudge \/ RequestStop \/ UNCHANGED vars
  BY <1>1, <1>7 DEF DeferUpdate, ApplyResult, Nudge, RequestStop, Idle, workVars, vars
<1> QED BY <1>2, <1>3, <1>4, <1>5, <1>6, <1>7 DEF Next, MainStep

LEMMA StepInflight ==
    ASSUME TypeOK, InflightIsWorkedAt, [Next]_vars
    PROVE  InflightIsWorkedAt'
<1>1. CASE UNCHANGED <<inflight, pc, task>>
  BY <1>1 DEF InflightIsWorkedAt, Busy
\* Places move, but nobody starts or ends a task.
<1>2. ASSUME UNCHANGED inflight,
             \A v \in Workers : Busy(v) => Busy(v)' /\ task'[v].p = task[v].p
      PROVE  InflightIsWorkedAt'
  <2>1. ASSUME NEW p \in inflight'
        PROVE  \E v \in Workers : Busy(v)' /\ task'[v].p = p
    <3>1. PICK v \in Workers : Busy(v) /\ task[v].p = p
      BY <1>2, <2>1 DEF InflightIsWorkedAt
    <3> QED BY <1>2, <3>1
  <2> QED BY <2>1 DEF InflightIsWorkedAt
<1>3. ASSUME NEW w \in Workers, Work(w)
      PROVE  InflightIsWorkedAt'
  <2>1. CASE Test(w) \/ Wait(w) \/ Check(w) \/ PopNothing(w) \/ PutResult(w)
    <3>1. /\ UNCHANGED <<inflight, task>> /\ \A v \in Workers \ {w} : pc'[v] = pc[v]
          /\ Busy(w) => Busy(w)'
      BY <2>1 DEF Test, Wait, Check, PopNothing, PutResult, Goto, Busy, TypeOK
    <3>2. \A v \in Workers : Busy(v) => Busy(v)'
      BY <3>1 DEF Busy
    <3> QED BY <1>2, <3>1, <3>2
  <2>2. CASE Fill(w)
    <3>1. PICK d \in Data : task' = [task EXCEPT ![w].data = d]
      BY <2>2 DEF Fill, Data
    <3>2. task[w] \in Entries /\ pc[w] = "fill" /\ pc' = [pc EXCEPT ![w] = "put"]
          /\ inflight' = inflight
      BY <2>2 DEF Fill, Goto, TypeOK
    <3>3. \A v \in Workers : task'[v].p = task[v].p
      BY <3>1, <3>2 DEF TypeOK, Entries
    <3>4. \A v \in Workers : Busy(v) => Busy(v)'
      BY <3>2 DEF Busy, TypeOK
    <3> QED BY <1>2, <3>2, <3>3, <3>4
  <2>3. CASE Pop(w)
    <3>1. PICK i \in Takeable : /\ inflight' = inflight \cup {queue[i].p}
                                /\ task' = [task EXCEPT ![w] = queue[i]]
      BY <2>3 DEF Pop
    <3>2. pc[w] = "pop" /\ pc' = [pc EXCEPT ![w] = "fill"]
      BY <2>3 DEF Pop, Goto
    <3>3. Busy(w)' /\ task'[w] = queue[i]
      BY <3>1, <3>2 DEF Busy, TypeOK
    <3>4. \A v \in Workers : Busy(v) => Busy(v)' /\ task'[v] = task[v]
      BY <3>1, <3>2 DEF Busy, TypeOK
    <3> QED BY <3>1, <3>3, <3>4 DEF InflightIsWorkedAt
  <2>4. CASE Done(w)
    <3>1. inflight' = inflight \ {task[w].p}
      BY <2>4 DEF Done
    <3>2. \A v \in Workers \ {w} : task'[v] = task[v] /\ (Busy(v) => Busy(v)')
      BY <2>4 DEF Done, Goto, Busy, TypeOK
    <3> QED BY <3>1, <3>2 DEF InflightIsWorkedAt
  <2> QED BY <1>3, <2>1, <2>2, <2>3, <2>4 DEF Work
<1> QED BY <1>1, <1>3
    DEF Next, vars, MainStep, AddBlock, DeferUpdate, ApplyResult, Join, Nudge, RequestStop,
        ReceiveBlock, ChangeNode, Unload, Write, workVars

\* A step keeps the calls posted, and no worker ends unasked.
LEMMA StepPosted ==
    ASSUME TypeOK, CallsArePosted, NoneEnded, [Next]_vars
    PROVE  CallsArePosted' /\ NoneEnded'
<1>1. ASSUME NEW b \in Blocks, ReceiveBlock(b) \/ ChangeNode(b) \/ Unload(b)
      PROVE  CallsArePosted' /\ NoneEnded'
  <2>1. UNCHANGED <<pc, stop>>
    BY <1>1 DEF ReceiveBlock, ChangeNode, Unload, Write, workVars
  <2>2. defer' = TRUE \/ UNCHANGED <<calls, defer>>
    BY <1>1 DEF ReceiveBlock, ChangeNode, Unload, Write, UpdateBlock
  <2> QED BY <2>1, <2>2 DEF CallsArePosted, NoneEnded
<1>2. CASE AddBlock
  BY <1>2 DEF AddBlock, CallsArePosted, NoneEnded
<1>3. CASE DeferUpdate \/ ApplyResult \/ Nudge \/ Join \/ RequestStop \/ UNCHANGED vars
  BY <1>3 DEF DeferUpdate, ApplyResult, Nudge, Join, RequestStop, Idle, workVars, vars,
              CallsArePosted, NoneEnded
<1>4. ASSUME NEW w \in Workers, Work(w)
      PROVE  CallsArePosted' /\ NoneEnded'
  <2>1. UNCHANGED <<calls, defer, stop>>
    BY <1>4 DEF Work, Test, Wait, Check, Pop, PopNothing, Fill, PutResult, Done, mainVars
  <2>2. /\ \A v \in Workers \ {w} : pc'[v] = pc[v]
        /\ stop = "no" => pc'[w] # "end"
    BY <1>4 DEF Work, Test, Wait, Check, Pop, PopNothing, Fill, PutResult, Done, Goto, TypeOK
  <2> QED BY <2>1, <2>2 DEF CallsArePosted, NoneEnded
<1> QED BY <1>1, <1>2, <1>3, <1>4 DEF Next, MainStep

LEMMA StepAwake ==
    ASSUME WakeInv, [Next]_vars
    PROVE  NobodySleepsOverWork'
<1>1. CASE UNCHANGED <<queue, defer, pc, sem, stop>>
  BY <1>1 DEF WakeInv, NobodySleepsOverWork, Awake
<1>2. ASSUME NEW b \in Blocks, ReceiveBlock(b) \/ ChangeNode(b) \/ Unload(b)
      PROVE  NobodySleepsOverWork'
  <2>1. UNCHANGED <<queue, pc, sem, stop>> /\ (defer' = TRUE \/ defer' = defer)
    BY <1>2 DEF ReceiveBlock, ChangeNode, Unload, Write, UpdateBlock, workVars
  <2> QED BY <2>1 DEF WakeInv, NobodySleepsOverWork, Awake
<1>3. CASE AddBlock
  <2>1. defer /\ UNCHANGED <<defer, pc, sem, stop>>
    BY <1>3 DEF AddBlock, WakeInv, CallsArePosted
  <2> QED BY <2>1 DEF WakeInv, NobodySleepsOverWork
<1>4. CASE DeferUpdate
  <2>1. UNCHANGED <<pc, stop>> /\ \A w \in Workers : sem'[w]
    BY <1>4 DEF DeferUpdate, workVars
  <2>2. PICK w \in Workers : TRUE
    BY MeshAssumption
  <2>3. stop' = "no" => Awake(w)'
    BY <2>1 DEF WakeInv, NoneEnded, Awake
  <2> QED BY <2>1, <2>3 DEF NobodySleepsOverWork
<1>5. CASE ApplyResult \/ UNCHANGED vars
  BY <1>1, <1>5 DEF ApplyResult, workVars, vars
<1>6. CASE Nudge
  BY <1>6 DEF Nudge, NobodySleepsOverWork
<1>7. CASE Join \/ RequestStop
  BY <1>7 DEF Join, RequestStop, NobodySleepsOverWork
<1>8. ASSUME NEW w \in Workers, Work(w)
      PROVE  NobodySleepsOverWork'
  <2>1. UNCHANGED <<defer, stop>> /\ \A v \in Workers \ {w} : pc'[v] = pc[v] /\ sem'[v] = sem[v]
    BY <1>8 DEF Work, Test, Wait, Check, Pop, PopNothing, Fill, PutResult, Done, mainVars,
                Goto, WakeInv, TypeOK
  <2>2. \A v \in Workers \ {w} : Awake(v) => Awake(v)'
    BY <2>1 DEF Awake
  <2>3. stop = "nudged" => (pc'[w] = "wait" => sem'[w])
    BY <1>8 DEF Work, Test, Wait, Check, Pop, PopNothing, Fill, PutResult, Done, Goto,
                WakeInv, TypeOK
  <2>4. stop = "nudged" => \A v \in Workers : pc'[v] = "wait" => sem'[v]
    BY <2>1, <2>3 DEF WakeInv, NobodySleepsOverWork
  <2>5. CASE Pop(w) \/ Fill(w) \/ PutResult(w) \/ Done(w) \/ Wait(w)
    <3>1. Awake(w)'
      BY <2>5 DEF Pop, Fill, PutResult, Done, Wait, Goto, Awake, WakeInv, TypeOK
    <3> QED BY <2>1, <2>4, <3>1 DEF NobodySleepsOverWork
  <2>6. CASE Test(w) \/ Check(w)
    <3>1. queue' = queue /\ (stop = "no" /\ Awake(w) => Awake(w)')
      BY <2>6 DEF Test, Check, Goto, Awake, WakeInv, TypeOK
    <3> QED BY <2>1, <2>2, <2>4, <3>1 DEF NobodySleepsOverWork, WakeInv
  <2>7. CASE PopNothing(w)
    <3>1. queue' = queue /\ Takeable = {} /\ ~ Busy(w)
      BY <2>7 DEF PopNothing, Goto, Busy
    <3>2. ASSUME stop = "no", queue # <<>>
          PROVE  \E v \in Workers : Awake(v)'
      <4>1. PICK v \in Workers : Busy(v)
        BY <3>1, <3>2, NothingMeansBusy
      <4>2. Awake(v)
        BY <4>1 DEF Busy, Awake
      <4> QED BY <2>2, <3>1, <4>1, <4>2
    <3> QED BY <2>1, <2>4, <3>1, <3>2 DEF NobodySleepsOverWork
  <2> QED BY <1>8, <2>5, <2>6, <2>7 DEF Work
<1> QED BY <1>2, <1>3, <1>4, <1>5, <1>6, <1>7, <1>8 DEF Next, MainStep

LEMMA InitWake == Init => WakeInv
<1> SUFFICES ASSUME Init PROVE WakeInv
  OBVIOUS
<1>1. NobodySleepsOverWork /\ CallsArePosted /\ UrgentsAreQueued /\ InflightIsWorkedAt /\ NoneEnded
  BY DEF Init, NobodySleepsOverWork, CallsArePosted, UrgentsAreQueued, InflightIsWorkedAt, NoneEnded
<1> QED BY <1>1, InitType DEF WakeInv

\* Entries that wait have a worker that will look for them, for any number of
\* workers, though workers go to sleep when all they may take is in the making;
\* and no worker sleeps through the end of the client.
THEOREM WorkWakesSomebody == Spec => []NobodySleepsOverWork
<1>1. Init => WakeInv
  BY InitWake
<1>2. WakeInv /\ [Next]_vars => WakeInv'
  BY StepType, StepPosted, StepUrgents, StepInflight, StepAwake DEF WakeInv
<1>3. WakeInv => NobodySleepsOverWork
  BY DEF WakeInv
<1> QED BY <1>1, <1>2, <1>3, PTL DEF Spec
-----------------------------------------------------------------------------
(***************************************************************************)
(* Acknowledgements are kept.                                              *)
(***************************************************************************)
HasAck(s, b) == \E i \in DOMAIN s : s[i].p = b /\ s[i].ack
ResultHasAck(b) == HasAck(results["urgent"], b) \/ HasAck(results["normal"], b)
WorkerHasAck(b) == \E w \in Holding : task[w].p = b /\ task[w].ack

LEMMA PromisedIs ==
    ASSUME NEW b
    PROVE  Promised(b) <=> \/ HasAck(calls, b) \/ HasAck(queue, b) \/ ResultHasAck(b)
                           \/ WorkerHasAck(b)
BY DEF Promised, HasAck, ResultHasAck, WorkerHasAck, Kinds

LEMMA PromisedIsNext ==
    ASSUME NEW b
    PROVE  Promised(b)' <=> \/ HasAck(calls', b) \/ HasAck(queue', b)
                            \/ HasAck(results'["urgent"], b) \/ HasAck(results'["normal"], b)
                            \/ WorkerHasAck(b)'
BY DEF Promised, HasAck, WorkerHasAck, Kinds

\* What is acknowledged is in memory, as addBlock does nothing for other blocks.
CallsAreHere == \A i \in DOMAIN calls : calls[i].ack => calls[i].p \in there
AckInv == TypeOK /\ CallsAreHere /\ AcksAreKept

\* An acknowledgement stays in a list but for the element that is taken out.
LEMMA AckShorter ==
    ASSUME NEW s \in Seq(Entries) \cup Seq(Calls), NEW t \in Seq(Entries) \cup Seq(Calls),
           NEW i, Shorter(t, s, i), NEW b, HasAck(s, b), s[i].p # b \/ ~ s[i].ack
    PROVE  HasAck(t, b)
<1>1. PICK j \in 1 .. Len(s) : s[j].p = b /\ s[j].ack
  BY ElementsOf DEF HasAck
<1>2. \E k \in DOMAIN t : t[k] = s[j]
  BY <1>1, StillThere
<1> QED BY <1>1, <1>2 DEF HasAck

LEMMA AckAppended ==
    ASSUME NEW s \in Seq(Entries), NEW e \in Entries, NEW b,
           HasAck(s, b) \/ (e.p = b /\ e.ack)
    PROVE  HasAck(Append(s, e), b)
<1>1. /\ Len(s) \in Nat /\ DOMAIN s = 1 .. Len(s)
      /\ DOMAIN Append(s, e) = 1 .. Len(s) + 1
      /\ Append(s, e)[Len(s) + 1] = e
      /\ \A j \in 1 .. Len(s) : Append(s, e)[j] = s[j]
  BY ElementsOf
<1> QED BY <1>1 DEF HasAck

\* addBlock keeps the acknowledgements of the entries and adds that of the call.
LEMMA AckAdded ==
    ASSUME TypeOK, NEW c \in Calls, NEW b, HasAck(queue, b) \/ (c.p = b /\ c.ack)
    PROVE  HasAck(QueueAfter(c), b)
<1>1. CASE c.p \in Queued
  <2>1. QueueAfter(c) =
          [j \in 1 .. Len(queue) |-> IF queue[j].p = c.p THEN Refreshed(queue[j], c) ELSE queue[j]]
    BY <1>1, QueueDomain DEF QueueAfter
  <2>2. \A j \in 1 .. Len(queue) :
          /\ QueueAfter(c)[j].p = queue[j].p
          /\ queue[j].ack => QueueAfter(c)[j].ack
          /\ queue[j].p = c.p /\ c.ack => QueueAfter(c)[j].ack
    <3> TAKE j \in 1 .. Len(queue)
    <3>1. queue[j] \in Entries /\ Refreshed(queue[j], c).p = queue[j].p
      BY QueueDomain, EntryType
    <3>2. Refreshed(queue[j], c).ack = (queue[j].ack \/ c.ack)
      BY <3>1, EntryType, Zenon
    <3>3. QueueAfter(c)[j] = IF queue[j].p = c.p THEN Refreshed(queue[j], c) ELSE queue[j]
      BY <2>1
    <3> QED BY <3>1, <3>2, <3>3, Zenon
  <2>3. \E j \in 1 .. Len(queue) : queue[j].p = c.p
    BY <1>1, QueueDomain DEF Queued
  <2>4. DOMAIN queue = 1 .. Len(queue) /\ DOMAIN QueueAfter(c) = 1 .. Len(queue)
    BY <2>1, QueueDomain
  <2> QED BY <2>2, <2>3, <2>4 DEF HasAck
<1>2. CASE c.p \notin Queued
  <2>1. QueueAfter(c) = Append(queue, Entry(c)) /\ queue \in Seq(Entries)
    BY <1>2, AppendedOne, QueueDomain
  <2>2. Entry(c) \in Entries /\ Entry(c).p = c.p /\ Entry(c).ack = c.ack
    BY EntryType
  <2> QED BY <2>1, <2>2, AckAppended
<1> QED BY <1>1, <1>2

LEMMA StepAcks ==
    ASSUME AckInv, [Next]_vars
    PROVE  AcksAreKept'
<1> USE DEF AckInv
<1>1. CASE UNCHANGED <<calls, queue, results, pc, task, owed>> /\ (stop = "joined" => stop' = "joined")
  BY <1>1 DEF AcksAreKept, Promised, Holding
<1>2. ASSUME NEW b \in Blocks, ReceiveBlock(b) \/ ChangeNode(b)
      PROVE  AcksAreKept'
  <2>1. UNCHANGED <<queue, results, pc, task, stop>> /\ calls = <<>> /\ stop = "no"
    BY <1>2 DEF ReceiveBlock, ChangeNode, Write, Idle, workVars
  <2>2. ASSUME NEW a \in owed
        PROVE  Promised(a)'
    <3>1. ~ HasAck(calls, a)
      BY <2>1 DEF HasAck
    <3>2. Promised(a)
      BY <2>1, <2>2 DEF AcksAreKept
    <3>3. WorkerHasAck(a)' <=> WorkerHasAck(a)
      BY <2>1 DEF WorkerHasAck, Holding
    <3> QED BY <2>1, <3>1, <3>2, <3>3, PromisedIs, PromisedIsNext DEF ResultHasAck
  <2>3. CASE ReceiveBlock(b)
    <3>1. calls'[1] = Call(b, TRUE, FALSE) /\ 1 \in DOMAIN calls' /\ owed' = owed \cup {b}
      BY <2>3, CallsOfChange DEF ReceiveBlock, Write
    <3>2. HasAck(calls', b)
      BY <3>1 DEF HasAck, Call
    <3> QED BY <2>2, <3>1, <3>2, PromisedIsNext DEF AcksAreKept
  <2>4. CASE ChangeNode(b)
    BY <2>2, <2>4 DEF ChangeNode, AcksAreKept
  <2> QED BY <1>2, <2>3, <2>4
<1>3. CASE AddBlock
  <2> DEFINE c == Head(calls)
  <2>1. /\ c \in Calls /\ c = calls[1] /\ Shorter(calls', calls, 1)
        /\ calls' \in Seq(Calls) /\ calls \in Seq(Calls) /\ 1 \in DOMAIN calls
    BY <1>3, HeadCall DEF AddBlock, TypeOK
  <2>2. UNCHANGED <<results, pc, task, owed, stop>>
    BY <1>3 DEF AddBlock
  <2>3. queue' = IF c.p \in there THEN QueueAfter(c) ELSE queue
    BY <1>3 DEF AddBlock, QueueAfter
  <2>4. c.ack => c.p \in there
    BY <2>1 DEF CallsAreHere
  <2> HIDE DEF c
  <2>5. ASSUME NEW a \in owed, stop # "joined"
        PROVE  Promised(a)'
    <3>1. Promised(a)
      BY <2>5 DEF AcksAreKept
    <3>2. HasAck(calls, a) => HasAck(calls', a) \/ (c.p = a /\ c.ack)
      BY <2>1, AckShorter
    <3>3. HasAck(queue, a) \/ (c.p = a /\ c.ack) => HasAck(queue', a)
      BY <2>1, <2>3, <2>4, AckAdded
    <3>4. WorkerHasAck(a)' <=> WorkerHasAck(a)
      BY <2>2 DEF WorkerHasAck, Holding
    <3> QED BY <2>2, <3>1, <3>2, <3>3, <3>4, PromisedIs, PromisedIsNext DEF ResultHasAck
  <2> QED BY <2>2, <2>5 DEF AcksAreKept
<1>4. CASE ApplyResult
  <2> DEFINE k == NextKind
  <2> DEFINE r == Head(results[k])
  <2>1. /\ k \in Kinds /\ results[k] \in Seq(Entries) /\ r = results[k][1]
        /\ Tail(results[k]) \in Seq(Entries) /\ Shorter(Tail(results[k]), results[k], 1)
    BY <1>4, HeadResult DEF ApplyResult
  <2>2. /\ results'[k] = Tail(results[k]) /\ \A l \in Kinds \ {k} : results'[l] = results[l]
        /\ owed' = (IF r.ack THEN owed \ {r.p} ELSE owed)
        /\ UNCHANGED <<calls, queue, pc, task, stop>>
    BY <1>4, <2>1 DEF ApplyResult, workVars, TypeOK
  <2> HIDE DEF k, r
  <2>3. ASSUME NEW a \in owed', stop # "joined"
        PROVE  Promised(a)'
    <3>1. Promised(a)
      BY <2>2, <2>3 DEF AcksAreKept
    <3>2. r.p # a \/ ~ r.ack
      BY <2>2, <2>3
    <3>3. HasAck(results[k], a) => HasAck(results'[k], a)
      BY <2>1, <2>2, <3>2, AckShorter
    <3>4. \A l \in Kinds : HasAck(results[l], a) => HasAck(results'[l], a)
      BY <2>2, <3>3
    <3>5. WorkerHasAck(a)' <=> WorkerHasAck(a)
      BY <2>2 DEF WorkerHasAck, Holding
    <3> QED BY <2>2, <3>1, <3>4, <3>5, PromisedIs, PromisedIsNext DEF ResultHasAck, Kinds
  <2> QED BY <2>2, <2>3 DEF AcksAreKept
<1>5. CASE Join
  BY <1>5 DEF Join, AcksAreKept
<1>6. ASSUME NEW w \in Workers, Work(w)
      PROVE  AcksAreKept'
  <2>1. UNCHANGED <<calls, owed, stop>> /\ \A v \in Workers \ {w} : pc'[v] = pc[v]
    BY <1>6 DEF Work, Test, Wait, Check, Pop, PopNothing, Fill, PutResult, Done, mainVars, Goto,
                TypeOK
  <2>2. ASSUME \A a \in owed : Promised(a) => Promised(a)'
        PROVE  AcksAreKept'
    BY <2>1, <2>2 DEF AcksAreKept
  <2>3. CASE Test(w) \/ Wait(w) \/ Check(w) \/ PopNothing(w) \/ Done(w)
    <3>1. UNCHANGED <<queue, results>> /\ w \notin Holding
          /\ \A v \in Workers \ {w} : task'[v] = task[v]
      BY <2>3 DEF Test, Wait, Check, PopNothing, Done, Goto, Holding, TypeOK
    <3>2. \A v \in Holding : v \in Holding' /\ task'[v] = task[v]
      BY <2>1, <3>1 DEF Holding
    <3>3. \A a \in owed : WorkerHasAck(a) => WorkerHasAck(a)'
      BY <3>2 DEF WorkerHasAck
    <3> QED BY <2>1, <2>2, <3>1, <3>3, PromisedIs, PromisedIsNext DEF ResultHasAck
  <2>4. CASE Pop(w)
    <3>1. PICK i \in Takeable : /\ queue' = RemoveAt(queue, i)
                                /\ task' = [task EXCEPT ![w] = queue[i]]
      BY <2>4 DEF Pop
    <3>2. pc[w] = "pop" /\ pc'[w] = "fill" /\ results' = results
      BY <2>4 DEF Pop, Goto, TypeOK
    <3>3. /\ queue' \in Seq(Entries) /\ queue \in Seq(Entries) /\ Shorter(queue', queue, i)
      BY <3>1, Taken, QueueDomain
    <3>4. w \in Holding' /\ task'[w] = queue[i]
          /\ \A v \in Holding : v \in Holding' /\ task'[v] = task[v]
      BY <2>1, <3>1, <3>2 DEF Holding, TypeOK
    <3>5. ASSUME NEW a
          PROVE  /\ HasAck(queue, a) => HasAck(queue', a) \/ WorkerHasAck(a)'
                 /\ WorkerHasAck(a) => WorkerHasAck(a)'
      BY <3>3, <3>4, AckShorter DEF WorkerHasAck
    <3> QED BY <2>1, <2>2, <3>2, <3>5, PromisedIs, PromisedIsNext DEF ResultHasAck
  <2>5. CASE Fill(w)
    <3>1. PICK d \in Data : task' = [task EXCEPT ![w].data = d]
      BY <2>5 DEF Fill, Data
    <3>2. task[w] \in Entries /\ pc'[w] = "put" /\ UNCHANGED <<queue, results>>
      BY <2>5 DEF Fill, Goto, TypeOK
    <3>3. \A v \in Workers : task'[v].p = task[v].p /\ task'[v].ack = task[v].ack
      BY <3>1, <3>2 DEF TypeOK, Entries
    <3>4. \A v \in Holding : v \in Holding'
      BY <2>1, <3>2 DEF Holding
    <3>5. \A a \in owed : WorkerHasAck(a) => WorkerHasAck(a)'
      BY <3>3, <3>4 DEF WorkerHasAck, Holding
    <3> QED BY <2>1, <2>2, <3>2, <3>5, PromisedIs, PromisedIsNext DEF ResultHasAck
  <2>6. CASE PutResult(w)
    <3> DEFINE k == KindOf(task[w])
    <3>1. task[w] \in Entries /\ k \in Kinds /\ pc[w] = "put"
      BY <2>6 DEF PutResult, Goto, TypeOK, KindOf, Kinds
    <3>2. /\ results[k] \in Seq(Entries) /\ results'[k] = Append(results[k], task[w])
          /\ \A l \in Kinds \ {k} : results'[l] = results[l]
          /\ UNCHANGED <<queue, task>>
      BY <2>6, <3>1 DEF PutResult, TypeOK
    <3> HIDE DEF k
    <3>3. \A v \in Holding \ {w} : v \in Holding'
      BY <2>1 DEF Holding
    <3>4. ASSUME NEW a
          PROVE  /\ \A l \in Kinds : HasAck(results[l], a) => HasAck(results'[l], a)
                 /\ WorkerHasAck(a) => WorkerHasAck(a)' \/ HasAck(results'[k], a)
      <4>1. HasAck(results[k], a) \/ (task[w].p = a /\ task[w].ack) => HasAck(results'[k], a)
        BY <3>1, <3>2, AckAppended
      <4>2. WorkerHasAck(a) => WorkerHasAck(a)' \/ (task[w].p = a /\ task[w].ack)
        BY <3>2, <3>3 DEF WorkerHasAck
      <4> QED BY <3>2, <4>1, <4>2
    <3>5. \A a \in owed : Promised(a) => Promised(a)'
      BY <2>1, <3>1, <3>2, <3>4, PromisedIs, PromisedIsNext DEF ResultHasAck, Kinds
    <3> QED BY <2>2, <3>5
  <2> QED BY <1>6, <2>3, <2>4, <2>5, <2>6 DEF Work
<1>7. CASE \E b \in Blocks : Unload(b)
  BY <1>1, <1>7 DEF Unload, workVars
<1>8. CASE DeferUpdate \/ Nudge \/ RequestStop \/ UNCHANGED vars
  BY <1>1, <1>8 DEF DeferUpdate, Nudge, RequestStop, Idle, workVars, vars
<1> QED BY <1>2, <1>3, <1>4, <1>5, <1>6, <1>7, <1>8 DEF Next, MainStep

LEMMA StepHere ==
    ASSUME TypeOK, CallsAreHere, [Next]_vars
    PROVE  CallsAreHere'
<1>1. CASE UNCHANGED <<calls, there>>
  BY <1>1 DEF CallsAreHere
<1>2. ASSUME NEW b \in Blocks, ReceiveBlock(b)
      PROVE  CallsAreHere'
  <2>1. b \in there' /\ \A i \in DOMAIN calls' : calls'[i].ack => calls'[i].p = b
    BY <1>2, CallsOfChange DEF ReceiveBlock, Write
  <2> QED BY <2>1 DEF CallsAreHere
<1>3. ASSUME NEW b \in Blocks, ChangeNode(b)
      PROVE  CallsAreHere'
  <2>1. b \in there' /\ \A i \in DOMAIN calls' : calls'[i].ack => calls'[i].p = b
    BY <1>3, CallsOfChange DEF ChangeNode, Write
  <2> QED BY <2>1 DEF CallsAreHere
<1>4. CASE \E b \in Blocks : Unload(b)
  BY <1>4 DEF Unload, Idle, CallsAreHere
<1>5. CASE AddBlock
  <2>1. calls \in Seq(Calls) /\ calls' \in Seq(Calls) /\ Shorter(calls', calls, 1) /\ there' = there
    BY <1>5, HeadCall DEF AddBlock, TypeOK
  <2>2. ASSUME NEW j \in DOMAIN calls'
        PROVE  \E i \in DOMAIN calls : calls'[j] = calls[i]
    <3>1. /\ Len(calls) \in Nat /\ DOMAIN calls = 1 .. Len(calls)
          /\ DOMAIN calls' = 1 .. Len(calls) - 1
      BY <2>1, ElementsOf DEF Shorter
    <3>2. calls'[j] = calls[j + 1] /\ j + 1 \in 1 .. Len(calls)
      BY <2>1, <2>2, <3>1 DEF Shorter
    <3> QED BY <3>1, <3>2
  <2> QED BY <2>1, <2>2 DEF CallsAreHere
<1>6. CASE \E w \in Workers : Work(w)
  BY <1>1, <1>6 DEF Work, Test, Wait, Check, Pop, PopNothing, Fill, PutResult, Done, mainVars
<1>7. CASE DeferUpdate \/ ApplyResult \/ Nudge \/ Join \/ RequestStop \/ UNCHANGED vars
  BY <1>1, <1>7 DEF DeferUpdate, ApplyResult, Nudge, Join, RequestStop, vars
<1> QED BY <1>2, <1>3, <1>4, <1>5, <1>6, <1>7 DEF Next, MainStep

LEMMA InitAcks == Init => AckInv
<1>1. Init => CallsAreHere /\ AcksAreKept
  BY DEF Init, CallsAreHere, AcksAreKept
<1> QED BY <1>1, InitType DEF AckInv

\* The acknowledgement of a block that was received is in a call, an entry, a
\* task or a result until it goes to the server, also when the entry it comes
\* to waits already.
THEOREM AcknowledgementsAreKept == Spec => []AcksAreKept
<1>1. Init => AckInv
  BY InitAcks
<1>2. AckInv /\ [Next]_vars => AckInv'
  BY StepType, StepHere, StepAcks DEF AckInv
<1>3. AckInv => AcksAreKept
  BY DEF AckInv
<1> QED BY <1>1, <1>2, <1>3, PTL DEF Spec

-----------------------------------------------------------------------------
(***************************************************************************)
(* What follows a change.                                                  *)
(***************************************************************************)
LEMMA SetToSeqCovers ==
    ASSUME NEW S, IsFiniteSet(S)
    PROVE  /\ SetToSeq(S) \in Seq(S)
           /\ \A x \in S : \E i \in 1 .. Len(SetToSeq(S)) : SetToSeq(S)[i] = x
<1> DEFINE n == Cardinality(S)
<1> DEFINE s == SetToSeq(S)
<1>1. n \in Nat /\ ExistsBijection(1 .. n, S)
  BY FS_CardinalityType
<1>2. \E f \in [1 .. n -> S] : IsInjective(f)
  BY <1>1 DEF ExistsBijection, Bijection, Injection
<1>3. s \in [1 .. n -> S] /\ IsInjective(s)
  BY <1>2 DEF SetToSeq
<1>4. s \in Injection(1 .. n, S)
  BY <1>3 DEF Injection
<1>5. IsFiniteSet(1 .. n) /\ Cardinality(1 .. n) = n
  BY <1>1, FS_Interval
<1> HIDE DEF n, s
<1>6. s \in Surjection(1 .. n, S)
  BY <1>4, <1>5, FS_Injection DEF n
<1>7. s \in Seq(S) /\ Len(s) = n
  BY <1>1, <1>3
<1>8. \A x \in S : \E i \in 1 .. n : s[i] = x
  BY <1>6 DEF Surjection
<1> QED BY <1>7, <1>8 DEF s

Called(b) == \E i \in DOMAIN calls : calls[i].p = b

\* The block and its neighbours are queued after a change.
LEMMA ChangeCalls ==
    ASSUME NEW b \in Blocks, NEW ack \in BOOLEAN, NEW urgent \in BOOLEAN,
           UpdateBlock(b, ack, urgent)
    PROVE  \A n \in Around(b) : Called(n)'
<1> DEFINE N   == Near[b] \ {b}
           S   == {Call(n, FALSE, urgent) : n \in N}
           f   == [n \in N |-> Call(n, FALSE, urgent)]
           s   == SetToSeq(S)
           one == <<Call(b, ack, urgent)>>
<1>1. IsFiniteSet(N)
  BY MeshAssumption, FS_Subset
<1>2. f \in Surjection(N, S)
  BY DEF Surjection
<1>3. IsFiniteSet(S)
  BY <1>1, <1>2, FS_Surjection
<1>4. calls' = one \o s
  BY DEF UpdateBlock
<1>5. \A n \in N : Call(n, FALSE, urgent) \in S
  OBVIOUS
<1> HIDE DEF S
<1>6. s \in Seq(S) /\ \A x \in S : \E i \in 1 .. Len(s) : s[i] = x
  BY <1>3, SetToSeqCovers
<1>7. one \in Seq({Call(b, ack, urgent)}) /\ Len(one) = 1 /\ one[1] = Call(b, ack, urgent)
  OBVIOUS
<1>8. \A c, d \in BOOLEAN : \A n : Call(n, c, d).p = n
  BY DEF Call
<1> HIDE DEF s, one, N
<1>9. /\ Len(s) \in Nat
      /\ DOMAIN (one \o s) = 1 .. 1 + Len(s)
      /\ \A i \in 1 .. 1 + Len(s) : (one \o s)[i] = IF i <= 1 THEN one[i] ELSE s[i - 1]
  <2> DEFINE E == S \cup {Call(b, ack, urgent)}
  <2>1. s \in Seq(E) /\ one \in Seq(E)
    BY <1>6, <1>7, SeqMonotonic
  <2>2. /\ one \o s \in Seq(E) /\ Len(one \o s) = Len(one) + Len(s)
        /\ \A i \in 1 .. Len(one) + Len(s) :
                (one \o s)[i] = IF i <= Len(one) THEN one[i] ELSE s[i - Len(one)]
    BY <2>1, ConcatProperties
  <2>3. Len(s) \in Nat
    BY <2>1
  <2> QED BY <1>7, <2>2, <2>3, LenProperties
<1>10. Called(b)'
  <2>1. (one \o s)[1] = Call(b, ack, urgent) /\ 1 \in DOMAIN (one \o s)
    BY <1>7, <1>9
  <2> QED BY <1>4, <1>8, <2>1 DEF Called
<1>11. ASSUME NEW n \in N
       PROVE  Called(n)'
  <2>1. PICK i \in 1 .. Len(s) : s[i] = Call(n, FALSE, urgent)
    BY <1>5, <1>6
  <2>2. i + 1 \in DOMAIN (one \o s) /\ (one \o s)[i + 1] = s[i]
    <3>1. i + 1 \in 1 .. 1 + Len(s) /\ ~ (i + 1 <= 1) /\ (i + 1) - 1 = i
      BY <1>9
    <3> QED BY <1>9, <3>1
  <2>3. calls'[i + 1].p = n
    BY <1>4, <1>8, <2>1, <2>2
  <2> QED BY <1>4, <2>2, <2>3 DEF Called
<1> QED BY <1>10, <1>11 DEF Around, N
-----------------------------------------------------------------------------
(***************************************************************************)
(* Meshes are current.                                                     *)
(***************************************************************************)
Waits(b) == \E i \in DOMAIN queue : queue[i].p = b
Made(b)  == \E w \in Holding : task[w].p = b

\* The list has nothing for b; or the last thing it has shows v of a.
NoneOf(s, b)    == \A i \in DOMAIN s : s[i].p # b
LastShows(s, b, a, v) ==
    \E i \in DOMAIN s : /\ s[i].p = b /\ s[i].data[a] = v
                        /\ \A j \in DOMAIN s : j > i => s[j].p # b

\* What was made of b last shows a as it is.  If it is in the list of urgent
\* results, or was the last urgent one shown, older normal ones may follow it.
Latest(b, a) ==
    \/ LastShows(results["normal"], b, a, content[a])
    \/ LastShows(results["urgent"], b, a, content[a])
    \/ shown[b][a] = content[a] /\ NoneOf(results["urgent"], b)
    \/ mesh[b][a] = content[a] /\ NoneOf(results["urgent"], b) /\ NoneOf(results["normal"], b)

\* The mesh of b will show a: b is still to be queued, or is queued with a, or
\* its mesh is in the making, or was made.
Fresh(b, a) ==
    \/ Called(b)
    \/ \E i \in DOMAIN queue : queue[i].p = b /\ a \in queue[i].blocks
    \/ /\ ~Waits(b)
       /\ \E w \in Holding :
            /\ task[w].p = b
            /\ pc[w] = "fill" => a \in task[w].blocks
            /\ pc[w] = "put" => task[w].data[a] = content[a]
    \/ ~Waits(b) /\ ~Made(b) /\ Latest(b, a)

FreshInv == stop = "no" => \A b \in there : \A a \in Around(b) \cap there : Fresh(b, a)

\* A block is being written only before the first call that follows.
WritingIsCalled == \A a \in writing : \A b \in Around(a) : Called(b)

\* A position has one worker.
OneWorker ==
    /\ \A w \in Workers : Busy(w) => task[w].p \in inflight
    /\ \A v, w \in Workers : Busy(v) /\ Busy(w) /\ task[v].p = task[w].p => v = w

KindsMatch ==
    /\ \A i \in DOMAIN results["urgent"] : results["urgent"][i].urgent
    /\ \A i \in DOMAIN results["normal"] : ~results["normal"][i].urgent

\* Nobody knows of a change before it is made.
NothingAhead ==
    \A a \in Blocks :
        /\ \A b \in Blocks : mesh[b][a] <= content[a]
        /\ \A w \in Workers : pc[w] = "put" => task[w].data[a] <= content[a]
        /\ \A k \in Kinds : \A i \in DOMAIN results[k] : results[k][i].data[a] <= content[a]

CurrentInv ==
    /\ TypeOK /\ OneEntry /\ WritingIsCalled /\ OneWorker /\ KindsMatch /\ NothingAhead
    /\ FreshInv

\* Neighbours are each other's.
LEMMA AroundEachOther ==
    ASSUME NEW a \in Blocks, NEW b \in Blocks, a \in Around(b)
    PROVE  b \in Around(a)
BY MeshAssumption DEF Around

\* What is last in a list after a result more, and after the first is taken.
LEMMA LastAppended ==
    ASSUME NEW s \in Seq(Entries), NEW e \in Entries, NEW b, NEW a, NEW v
    PROVE  /\ e.p = b /\ e.data[a] = v => LastShows(Append(s, e), b, a, v)
           /\ e.p # b /\ LastShows(s, b, a, v) => LastShows(Append(s, e), b, a, v)
           /\ e.p # b /\ NoneOf(s, b) => NoneOf(Append(s, e), b)
<1>1. /\ Len(s) \in Nat /\ DOMAIN s = 1 .. Len(s)
      /\ DOMAIN Append(s, e) = 1 .. Len(s) + 1
      /\ Append(s, e)[Len(s) + 1] = e
      /\ \A j \in 1 .. Len(s) : Append(s, e)[j] = s[j]
  BY ElementsOf
<1> DEFINE t == Append(s, e)
<1> HIDE DEF t
<1>2. /\ DOMAIN t = 1 .. Len(s) + 1 /\ t[Len(s) + 1] = e
      /\ \A j \in 1 .. Len(s) : t[j] = s[j]
  BY <1>1 DEF t
<1>3. ASSUME e.p = b, e.data[a] = v
      PROVE  LastShows(t, b, a, v)
  BY <1>1, <1>2, <1>3 DEF LastShows
<1>4. ASSUME e.p # b, LastShows(s, b, a, v)
      PROVE  LastShows(t, b, a, v)
  <2>1. PICK i \in 1 .. Len(s) : /\ s[i].p = b /\ s[i].data[a] = v
                                 /\ \A j \in 1 .. Len(s) : j > i => s[j].p # b
    BY <1>1, <1>4 DEF LastShows
  <2>2. i \in DOMAIN t /\ t[i] = s[i]
    BY <1>1, <1>2
  <2>3. \A j \in DOMAIN t : j > i => t[j].p # b
    BY <1>1, <1>2, <1>4, <2>1
  <2> QED BY <2>1, <2>2, <2>3 DEF LastShows
<1>5. e.p # b /\ NoneOf(s, b) => NoneOf(t, b)
  BY <1>1, <1>2 DEF NoneOf
<1> QED BY <1>3, <1>4, <1>5 DEF t

LEMMA LastOfTail ==
    ASSUME NEW s \in Seq(Entries), NEW t \in Seq(Entries), Shorter(t, s, 1),
           NEW b, NEW a, NEW v
    PROVE  /\ LastShows(s, b, a, v) => \/ LastShows(t, b, a, v)
                                       \/ s[1].p = b /\ s[1].data[a] = v /\ NoneOf(t, b)
           /\ NoneOf(s, b) => s[1].p # b /\ NoneOf(t, b)
<1>1. /\ Len(s) \in Nat /\ DOMAIN s = 1 .. Len(s) /\ 1 \in 1 .. Len(s)
      /\ DOMAIN t = 1 .. Len(s) - 1
      /\ \A j \in 1 .. Len(s) - 1 : t[j] = s[j + 1] /\ j + 1 \in 1 .. Len(s)
  BY ElementsOf DEF Shorter
<1>2. NoneOf(s, b) => s[1].p # b /\ NoneOf(t, b)
  BY <1>1 DEF NoneOf
<1>3. ASSUME LastShows(s, b, a, v)
      PROVE  \/ LastShows(t, b, a, v)
             \/ s[1].p = b /\ s[1].data[a] = v /\ NoneOf(t, b)
  <2>1. PICK i \in 1 .. Len(s) : /\ s[i].p = b /\ s[i].data[a] = v
                                 /\ \A j \in 1 .. Len(s) : j > i => s[j].p # b
    BY <1>1, <1>3 DEF LastShows
  <2>2. CASE i = 1
    BY <1>1, <2>1, <2>2 DEF NoneOf
  <2>3. CASE i # 1
    <3>1. i - 1 \in 1 .. Len(s) - 1 /\ t[i - 1] = s[i]
      BY <1>1, <2>3
    <3>2. \A j \in 1 .. Len(s) - 1 : j > i - 1 => t[j].p # b
      BY <1>1, <2>1
    <3> QED BY <1>1, <2>1, <3>1, <3>2 DEF LastShows
  <2> QED BY <2>2, <2>3
<1> QED BY <1>2, <1>3

\* Steps after which a mesh is where it was in the making.
LEMMA FreshStays ==
    ASSUME NEW b, NEW a, Fresh(b, a), UNCHANGED <<calls, queue, results>>,
           Holding' = Holding,
           \A v \in Holding : pc'[v] = pc[v] /\ task'[v] = task[v],
           content'[a] = content[a], mesh'[b] = mesh[b], shown'[b] = shown[b]
    PROVE  Fresh(b, a)'
<1>1. /\ Called(b)' <=> Called(b)
      /\ Waits(b)' <=> Waits(b)
      /\ Made(b)' <=> Made(b)
      /\ Latest(b, a)' <=> Latest(b, a)
  BY DEF Called, Waits, Made, Latest
<1> QED BY <1>1 DEF Fresh

\* addBlock makes an entry of what is there, and leaves those of other blocks.
LEMMA QueueOf ==
    ASSUME TypeOK, OneEntry, NEW c \in Calls
    PROVE  /\ \A i \in DOMAIN queue : queue[i].p # c.p =>
                i \in DOMAIN QueueAfter(c) /\ QueueAfter(c)[i] = queue[i]
           /\ \A i \in DOMAIN QueueAfter(c) : QueueAfter(c)[i].p # c.p =>
                i \in DOMAIN queue /\ QueueAfter(c)[i] = queue[i]
           /\ \E i \in DOMAIN QueueAfter(c) :
                /\ QueueAfter(c)[i].p = c.p
                /\ Around(c.p) \cap there \subseteq QueueAfter(c)[i].blocks
<1>1. CASE c.p \in Queued
  <2>1. PICK i \in 1 .. Len(queue) : queue[i].p = c.p
    BY <1>1, QueueDomain DEF Queued
  <2>2. /\ DOMAIN QueueAfter(c) = 1 .. Len(queue)
        /\ QueueAfter(c)[i] = Refreshed(queue[i], c)
        /\ \A j \in (1 .. Len(queue)) \ {i} : QueueAfter(c)[j] = queue[j]
    BY <2>1, RefreshedOne
  <2>3. /\ Refreshed(queue[i], c).p = c.p
        /\ Around(c.p) \cap there \subseteq Refreshed(queue[i], c).blocks
    <3>1. queue[i] \in Entries
      BY QueueDomain
    <3>2. /\ Refreshed(queue[i], c).p = queue[i].p
          /\ Refreshed(queue[i], c).blocks = queue[i].blocks \cup (Around(c.p) \cap there)
      BY <3>1, EntryType
    <3> QED BY <2>1, <3>2
  <2> QED BY <2>1, <2>2, <2>3, QueueDomain
<1>2. CASE c.p \notin Queued
  <2>1. /\ DOMAIN QueueAfter(c) = 1 .. Len(queue) + 1
        /\ QueueAfter(c)[Len(queue) + 1] = Entry(c)
        /\ \A j \in 1 .. Len(queue) : QueueAfter(c)[j] = queue[j] /\ queue[j].p # c.p
    BY <1>2, AppendedOne
  <2>2. Entry(c).p = c.p /\ Entry(c).blocks = Around(c.p) \cap there
    BY EntryType
  <2>3. Len(queue) \in Nat /\ DOMAIN queue = 1 .. Len(queue)
    BY QueueDomain
  <2> QED BY <2>1, <2>2, <2>3
<1> QED BY <1>1, <1>2

LEMMA StepWriting ==
    ASSUME TypeOK, WritingIsCalled, [Next]_vars
    PROVE  WritingIsCalled'
<1>1. CASE UNCHANGED <<calls, writing>>
  BY <1>1 DEF WritingIsCalled, Called
<1>2. ASSUME NEW b \in Blocks, ReceiveBlock(b) \/ ChangeNode(b)
      PROVE  WritingIsCalled'
  <2>1. writing' = {b} /\ \E ack, urgent \in BOOLEAN : UpdateBlock(b, ack, urgent)
    BY <1>2 DEF ReceiveBlock, ChangeNode, Write
  <2>2. \A n \in Around(b) : Called(n)'
    BY <2>1, ChangeCalls
  <2> QED BY <2>1, <2>2 DEF WritingIsCalled
<1>3. CASE AddBlock
  BY <1>3 DEF AddBlock, WritingIsCalled
<1> QED BY <1>1, <1>2, <1>3
    DEF Next, vars, MainStep, DeferUpdate, ApplyResult, Nudge, RequestStop, Join, Unload,
        Work, Test, Wait, Check, Pop, PopNothing, Fill, PutResult, Done, mainVars

LEMMA StepOneWorker ==
    ASSUME TypeOK, OneWorker, [Next]_vars
    PROVE  OneWorker'
<1>1. CASE UNCHANGED <<inflight, pc, task>>
  BY <1>1 DEF OneWorker, Busy
\* Places move, but nobody starts a task.
<1>2. ASSUME NEW w \in Workers, UNCHANGED inflight,
             \A v \in Workers : Busy(v)' => Busy(v) /\ task'[v].p = task[v].p
      PROVE  OneWorker'
  BY <1>2 DEF OneWorker
<1>3. ASSUME NEW w \in Workers, Work(w)
      PROVE  OneWorker'
  <2>1. CASE Test(w) \/ Wait(w) \/ Check(w) \/ PopNothing(w) \/ PutResult(w)
    <3>1. /\ UNCHANGED <<inflight, task>> /\ \A v \in Workers \ {w} : pc'[v] = pc[v]
          /\ Busy(w)' => Busy(w)
      BY <2>1 DEF Test, Wait, Check, PopNothing, PutResult, Goto, Busy, TypeOK
    <3>2. \A v \in Workers : Busy(v)' => Busy(v)
      BY <3>1 DEF Busy
    <3> QED BY <1>2, <3>1, <3>2
  <2>2. CASE Fill(w)
    <3>1. PICK d \in Data : task' = [task EXCEPT ![w].data = d]
      BY <2>2 DEF Fill, Data
    <3>2. task[w] \in Entries /\ pc[w] = "fill" /\ pc' = [pc EXCEPT ![w] = "put"]
          /\ inflight' = inflight
      BY <2>2 DEF Fill, Goto, TypeOK
    <3>3. \A v \in Workers : task'[v].p = task[v].p
      BY <3>1, <3>2 DEF TypeOK, Entries
    <3>4. \A v \in Workers : Busy(v)' => Busy(v)
      BY <3>2 DEF Busy, TypeOK
    <3> QED BY <1>2, <3>2, <3>3, <3>4
  <2>3. CASE Pop(w)
    <3>1. PICK i \in Takeable : /\ inflight' = inflight \cup {queue[i].p}
                                /\ task' = [task EXCEPT ![w] = queue[i]]
      BY <2>3 DEF Pop
    <3>2. pc' = [pc EXCEPT ![w] = "fill"]
      BY <2>3 DEF Pop, Goto
    <3>3. task'[w] = queue[i] /\ queue[i].p \notin inflight
      BY <3>1, Taken DEF TypeOK
    <3>4. \A v \in Workers \ {w} : task'[v] = task[v] /\ (Busy(v)' <=> Busy(v))
      BY <3>1, <3>2 DEF Busy, TypeOK
    <3>5. \A v \in Workers \ {w} : Busy(v)' => task'[v].p # task'[w].p /\ task'[v].p \in inflight
      BY <3>3, <3>4 DEF OneWorker
    <3> QED BY <3>1, <3>3, <3>4, <3>5 DEF OneWorker
  <2>4. CASE Done(w)
    <3>1. inflight' = inflight \ {task[w].p} /\ pc[w] = "done" /\ pc' = [pc EXCEPT ![w] = "pop"]
          /\ task' = [task EXCEPT ![w] = NoTask]
      BY <2>4 DEF Done, Goto
    <3>2. Busy(w) /\ ~ Busy(w)'
          /\ \A v \in Workers \ {w} : task'[v] = task[v] /\ (Busy(v)' <=> Busy(v))
      BY <3>1 DEF Busy, TypeOK
    <3>3. \A v \in Workers : Busy(v)' => task[v].p # task[w].p
      BY <3>2 DEF OneWorker
    <3>4. \A v \in Workers : Busy(v)' => v # w /\ Busy(v)
      BY <3>2
    <3> QED BY <3>1, <3>2, <3>3, <3>4 DEF OneWorker
  <2> QED BY <1>3, <2>1, <2>2, <2>3, <2>4 DEF Work
<1> QED BY <1>1, <1>3
    DEF Next, vars, MainStep, AddBlock, DeferUpdate, ApplyResult, Join, Nudge, RequestStop,
        ReceiveBlock, ChangeNode, Unload, Write, workVars

\* Results go to the list of their urgency.
LEMMA PutKind ==
    ASSUME TypeOK, NEW w \in Workers, PutResult(w)
    PROVE  LET k == KindOf(task[w]) IN
           /\ k \in Kinds /\ task[w] \in Entries /\ pc[w] = "put"
           /\ results[k] \in Seq(Entries) /\ results'[k] = Append(results[k], task[w])
           /\ \A l \in Kinds \ {k} : results'[l] = results[l]
           /\ k = "urgent" <=> task[w].urgent
<1> DEFINE k == KindOf(task[w])
<1>1. k \in Kinds /\ task[w] \in Entries /\ pc[w] = "put" /\ (k = "urgent" <=> task[w].urgent)
  BY DEF PutResult, Goto, TypeOK, KindOf, Kinds
<1>2. results' = [results EXCEPT ![k] = Append(@, task[w])] /\ results \in [Kinds -> Seq(Entries)]
  BY DEF PutResult, TypeOK
<1> HIDE DEF k
<1>3. /\ results[k] \in Seq(Entries) /\ results'[k] = Append(results[k], task[w])
      /\ \A l \in Kinds \ {k} : results'[l] = results[l]
  BY <1>1, <1>2
<1> QED BY <1>1, <1>3 DEF k

\* A fact about all results is kept by those that are made and applied.
LEMMA ResultsKeep ==
    ASSUME TypeOK, [Next]_vars, NEW k \in Kinds
    PROVE  \A j \in DOMAIN results'[k] :
                \/ \E i \in DOMAIN results[k] : results'[k][j] = results[k][i]
                \/ \E w \in Workers : /\ pc[w] = "put" /\ k = KindOf(task[w])
                                      /\ results'[k][j] = task[w] /\ PutResult(w)
<1>1. CASE results' = results
  BY <1>1
<1>2. CASE ApplyResult
  <2> DEFINE n == NextKind
  <2>1. /\ n \in Kinds /\ results[n] \in Seq(Entries)
        /\ Tail(results[n]) \in Seq(Entries) /\ Shorter(Tail(results[n]), results[n], 1)
    BY <1>2, HeadResult DEF ApplyResult
  <2>2. results' = [results EXCEPT ![n] = Tail(@)] /\ results \in [Kinds -> Seq(Entries)]
    BY <1>2 DEF ApplyResult, TypeOK
  <2> HIDE DEF n
  <2>3. results'[n] = Tail(results[n]) /\ \A l \in Kinds \ {n} : results'[l] = results[l]
    BY <2>1, <2>2
  <2>4. /\ Len(results[n]) \in Nat /\ DOMAIN results[n] = 1 .. Len(results[n])
        /\ DOMAIN results'[n] = 1 .. Len(results[n]) - 1
        /\ \A j \in 1 .. Len(results[n]) - 1 : /\ results'[n][j] = results[n][j + 1]
                                               /\ j + 1 \in 1 .. Len(results[n])
    <3> DEFINE s == results[n]
               t == Tail(results[n])
    <3>1. s \in Seq(Entries) /\ t \in Seq(Entries) /\ Shorter(t, s, 1)
      BY <2>1
    <3> HIDE DEF s, t
    <3>2. /\ Len(s) \in Nat /\ DOMAIN s = 1 .. Len(s) /\ DOMAIN t = 1 .. Len(s) - 1
          /\ \A j \in 1 .. Len(s) - 1 : t[j] = s[j + 1] /\ j + 1 \in 1 .. Len(s)
      BY <3>1, ElementsOf DEF Shorter
    <3> QED BY <2>3, <3>2 DEF s, t
  <2> QED BY <2>3, <2>4
<1>3. ASSUME NEW w \in Workers, PutResult(w)
      PROVE  \A j \in DOMAIN results'[k] :
                \/ \E i \in DOMAIN results[k] : results'[k][j] = results[k][i]
                \/ pc[w] = "put" /\ k = KindOf(task[w]) /\ results'[k][j] = task[w]
  <2> DEFINE n == KindOf(task[w])
  <2>1. /\ results[n] \in Seq(Entries) /\ results'[n] = Append(results[n], task[w])
        /\ \A l \in Kinds \ {n} : results'[l] = results[l]
        /\ pc[w] = "put"
    BY <1>3, PutKind
  <2> HIDE DEF n
  <2>2. /\ Len(results[n]) \in Nat /\ DOMAIN results[n] = 1 .. Len(results[n])
        /\ DOMAIN results'[n] = 1 .. Len(results[n]) + 1
        /\ results'[n][Len(results[n]) + 1] = task[w]
        /\ \A j \in 1 .. Len(results[n]) : results'[n][j] = results[n][j]
    BY <2>1, ElementsOf
  <2>3. CASE k = n
    <3>1. k = KindOf(task[w])
      BY <2>3 DEF n
    <3>2. \A j \in DOMAIN results'[n] :
             \/ \E i \in DOMAIN results[n] : results'[n][j] = results[n][i]
             \/ results'[n][j] = task[w]
      BY <2>2
    <3> QED BY <2>1, <2>3, <3>1, <3>2
  <2>4. CASE k # n
    BY <2>1, <2>4
  <2> QED BY <2>3, <2>4
<1>4. CASE Join
  <2>1. results'[k] = <<>>
    BY <1>4 DEF Join
  <2> QED BY <2>1
<1> QED BY <1>1, <1>2, <1>3, <1>4
    DEF Next, vars, MainStep, AddBlock, DeferUpdate, Nudge, RequestStop,
        ReceiveBlock, ChangeNode, Unload, Write, Work, Test, Wait, Check, Pop, PopNothing, Fill,
        Done, workVars

LEMMA StepKinds ==
    ASSUME TypeOK, KindsMatch, [Next]_vars
    PROVE  KindsMatch'
<1>1. /\ "urgent" \in Kinds /\ "normal" \in Kinds
      /\ \A w \in Workers : "urgent" = KindOf(task[w]) <=> task[w].urgent
  BY DEF Kinds, KindOf
<1>2. \A w \in Workers : "normal" = KindOf(task[w]) => ~task[w].urgent
  BY DEF KindOf
<1>3. \A i \in DOMAIN results'["urgent"] : results'["urgent"][i].urgent
  BY <1>1, ResultsKeep DEF KindsMatch
<1>4. \A i \in DOMAIN results'["normal"] : ~results'["normal"][i].urgent
  BY <1>1, <1>2, ResultsKeep DEF KindsMatch
<1> QED BY <1>3, <1>4 DEF KindsMatch

\* Content grows, and what a worker copies is at most that.
LEMMA StepAhead ==
    ASSUME TypeOK, NothingAhead, [Next]_vars
    PROVE  NothingAhead'
<1> SUFFICES ASSUME NEW a \in Blocks
             PROVE  /\ \A b \in Blocks : mesh'[b][a] <= content'[a]
                    /\ \A w \in Workers : pc'[w] = "put" => task'[w].data[a] <= content'[a]
                    /\ \A k \in Kinds : \A i \in DOMAIN results'[k] :
                            results'[k][i].data[a] <= content'[a]
  BY DEF NothingAhead
<1>1. /\ \A b \in Blocks : mesh[b][a] <= content[a] /\ mesh[b][a] \in Nat
      /\ \A w \in Workers : pc[w] = "put" =>
            task[w].data[a] <= content[a] /\ task[w].data[a] \in Nat
      /\ \A k \in Kinds : \A i \in DOMAIN results[k] :
            results[k][i].data[a] <= content[a] /\ results[k][i].data[a] \in Nat
      /\ content[a] \in Nat
  <2>1. \A k \in Kinds : \A i \in DOMAIN results[k] : results[k][i] \in Entries
    BY ElementsOf DEF TypeOK
  <2>2. \A e \in Entries : e.data[a] \in Nat
    BY MeshAssumption DEF Entries, Data
  <2>3. \A b \in Blocks : mesh[b][a] \in Nat
    BY MeshAssumption DEF TypeOK, Data
  <2> QED BY <2>1, <2>2, <2>3 DEF TypeOK, NothingAhead
<1>2. content'[a] \in Nat /\ content[a] <= content'[a]
  <2>1. CASE content' = content
    BY <1>1, <2>1
  <2>2. ASSUME NEW b \in Blocks, content' = [content EXCEPT ![b] = @ + 1]
        PROVE  content'[a] \in Nat /\ content[a] <= content'[a]
    BY <2>2 DEF TypeOK
  <2> QED BY <2>1, <2>2
      DEF Next, vars, MainStep, AddBlock, DeferUpdate, ApplyResult, Nudge, RequestStop, Join,
          ReceiveBlock, ChangeNode, Unload, Write, Work, Test, Wait, Check, Pop, PopNothing,
          Fill, PutResult, Done, mainVars
<1>3. \A k \in Kinds : \A i \in DOMAIN results'[k] : results'[k][i].data[a] <= content'[a]
  <2>1. \A k \in Kinds : \A i \in DOMAIN results'[k] :
            results'[k][i].data[a] <= content[a] /\ results'[k][i].data[a] \in Nat
    BY <1>1, ResultsKeep
  <2> QED BY <1>1, <1>2, <2>1
<1>4. \A b \in Blocks : mesh'[b][a] <= content'[a]
  <2>1. CASE mesh' = mesh
    BY <1>1, <1>2, <2>1
  <2>2. ASSUME NEW b \in Blocks, Unload(b)
        PROVE  \A d \in Blocks : mesh'[d][a] <= content'[a]
    <3>1. \A d \in Blocks : mesh'[d] = (IF d = b THEN NoData ELSE mesh[d]) /\ NoData[a] = 0
      BY <2>2 DEF Unload, TypeOK, NoData
    <3> QED BY <1>1, <1>2, <3>1
  <2>3. CASE ApplyResult
    <3> DEFINE r == Head(results[NextKind])
    <3>1. NextKind \in Kinds /\ r = results[NextKind][1] /\ 1 \in DOMAIN results[NextKind]
      BY <2>3, HeadResult, ElementsOf DEF ApplyResult, Shorter
    <3>2. r.data[a] <= content[a] /\ r.data[a] \in Nat
      BY <1>1, <3>1
    <3>3. mesh' = [mesh EXCEPT ![r.p] = r.data]
      BY <2>3 DEF ApplyResult
    <3> HIDE DEF r
    <3>4. \A d \in Blocks : mesh'[d] = IF d = r.p THEN r.data ELSE mesh[d]
      BY <3>3 DEF TypeOK
    <3> QED BY <1>1, <1>2, <3>2, <3>4
  <2> QED BY <2>1, <2>2, <2>3
      DEF Next, vars, MainStep, AddBlock, DeferUpdate, Nudge, RequestStop, Join,
          ReceiveBlock, ChangeNode, Write, Work, Test, Wait, Check, Pop, PopNothing,
          Fill, PutResult, Done, mainVars
<1>5. \A w \in Workers : pc'[w] = "put" => task'[w].data[a] <= content'[a]
  <2>1. CASE UNCHANGED <<pc, task>>
    BY <1>1, <1>2, <2>1
  <2>2. ASSUME NEW w \in Workers, Work(w), ~ Fill(w)
        PROVE  \A v \in Workers : pc'[v] = "put" => task'[v].data[a] <= content'[a]
    <3>1. /\ pc'[w] # "put"
          /\ \A v \in Workers \ {w} : pc'[v] = pc[v] /\ task'[v] = task[v]
      BY <2>2 DEF Work, Test, Wait, Check, Pop, PopNothing, PutResult, Done, Goto, TypeOK
    <3> QED BY <1>1, <1>2, <3>1
  <2>3. ASSUME NEW w \in Workers, Fill(w)
        PROVE  \A v \in Workers : pc'[v] = "put" => task'[v].data[a] <= content'[a]
    <3>1. PICK d \in Data :
            /\ \A b \in Blocks : IF b \in task[w].blocks THEN d[b] \in Readable(b) ELSE d[b] = 0
            /\ task' = [task EXCEPT ![w].data = d]
      BY <2>3 DEF Fill, Data
    <3>2. d[a] <= content[a] /\ d[a] \in Nat
      BY <1>1, <3>1, MeshAssumption DEF Readable, Data
    <3>3. task[w] \in Entries /\ \A v \in Workers \ {w} : pc'[v] = pc[v] /\ task'[v] = task[v]
      BY <2>3, <3>1 DEF Fill, Goto, TypeOK
    <3>4. task'[w].data = d
      BY <3>1, <3>3 DEF TypeOK, Entries
    <3> QED BY <1>1, <1>2, <3>2, <3>3, <3>4
  <2> QED BY <2>1, <2>2, <2>3
      DEF Next, vars, MainStep, AddBlock, DeferUpdate, ApplyResult, Nudge, RequestStop, Join,
          ReceiveBlock, ChangeNode, Unload, Write, workVars
<1> QED BY <1>3, <1>4, <1>5

\* A change is followed by calls for the block and its neighbours; what else is
\* on its way stays so.
LEMMA ChangeFresh ==
    ASSUME CurrentInv, NEW x \in Blocks, ReceiveBlock(x) \/ ChangeNode(x)
    PROVE  FreshInv'
<1> USE DEF CurrentInv
<1>1. /\ stop = "no" /\ content' = [content EXCEPT ![x] = @ + 1]
      /\ \E ack, urgent \in BOOLEAN : UpdateBlock(x, ack, urgent)
      /\ UNCHANGED <<queue, pc, task, results, mesh, shown>>
      /\ calls = <<>> /\ there \subseteq there' /\ there' \subseteq there \cup {x}
      /\ there \subseteq Blocks
  BY DEF ReceiveBlock, ChangeNode, Write, Idle, workVars, TypeOK
<1>2. \A b \in Around(x) : Called(b)'
  BY <1>1, ChangeCalls
<1> SUFFICES ASSUME NEW b \in there', NEW a \in Around(b) \cap there'
             PROVE  Fresh(b, a)'
  BY DEF FreshInv
<1>3. CASE b \in Around(x)
  BY <1>2, <1>3 DEF Fresh
<1>4. CASE b \notin Around(x)
  <2>1. b # x /\ a # x /\ b \in there /\ a \in there
    BY <1>1, <1>4, AroundEachOther DEF Around
  <2>2. Fresh(b, a) /\ ~Called(b)
    BY <1>1, <2>1 DEF FreshInv, Called
  <2>3. content'[a] = content[a] /\ Holding' = Holding
    BY <1>1, <2>1 DEF TypeOK, Holding
  <2>4. /\ Waits(b)' <=> Waits(b)
        /\ Made(b)' <=> Made(b)
        /\ Latest(b, a)' <=> Latest(b, a)
    BY <1>1, <2>3 DEF Waits, Made, Latest
  <2> QED BY <1>1, <2>2, <2>3, <2>4 DEF Fresh
<1> QED BY <1>3, <1>4

\* A call becomes an entry of all neighbours that are there.
LEMMA AddBlockFresh == ASSUME CurrentInv, AddBlock PROVE FreshInv'
<1> USE DEF CurrentInv
<1> DEFINE c == Head(calls)
<1>1. /\ c \in Calls /\ c = calls[1] /\ Shorter(calls', calls, 1)
      /\ calls \in Seq(Calls) /\ calls' \in Seq(Calls)
  BY HeadCall DEF AddBlock, TypeOK
<1>2. /\ UNCHANGED <<there, content, pc, task, results, mesh, shown, stop>>
      /\ queue' = (IF c.p \in there THEN QueueAfter(c) ELSE queue)
  BY DEF AddBlock, QueueAfter
<1> HIDE DEF c
<1> SUFFICES ASSUME stop = "no", NEW b \in there, NEW a \in Around(b) \cap there
             PROVE  Fresh(b, a)'
  BY <1>2 DEF FreshInv
<1>3. CASE b = c.p
  <2>1. \E i \in DOMAIN queue' : queue'[i].p = b /\ a \in queue'[i].blocks
    BY <1>1, <1>2, <1>3, QueueOf
  <2> QED BY <2>1 DEF Fresh
<1>4. CASE b # c.p
  <2>1. /\ \A i \in DOMAIN queue : queue[i].p = b => i \in DOMAIN queue' /\ queue'[i] = queue[i]
        /\ \A i \in DOMAIN queue' : queue'[i].p = b => i \in DOMAIN queue /\ queue'[i] = queue[i]
    BY <1>1, <1>2, <1>4, QueueOf
  <2>2. Waits(b)' <=> Waits(b)
    BY <2>1 DEF Waits
  <2>3. Called(b) => Called(b)'
    <3> SUFFICES ASSUME Called(b) PROVE Called(b)'
      OBVIOUS
    <3>1. PICK i \in 1 .. Len(calls) : calls[i].p = b
      BY <1>1, ElementsOf DEF Called
    <3>2. i # 1
      BY <1>1, <1>4, <3>1
    <3>3. \E k \in DOMAIN calls' : calls'[k] = calls[i]
      BY <1>1, <3>2, StillThere
    <3> QED BY <3>1, <3>3 DEF Called
  <2>4. Holding' = Holding /\ (Made(b)' <=> Made(b)) /\ (Latest(b, a)' <=> Latest(b, a))
    BY <1>2 DEF Holding, Made, Latest
  <2>5. Fresh(b, a)
    BY DEF FreshInv
  <2> QED BY <1>2, <2>1, <2>2, <2>3, <2>4, <2>5 DEF Fresh
<1> QED BY <1>3, <1>4

\* The result that is applied shows its block, or an urgent one was shown
\* before it.
LEMMA ApplyFresh == ASSUME CurrentInv, ApplyResult PROVE FreshInv'
<1> USE DEF CurrentInv
<1> DEFINE k == NextKind
           r == Head(results[k])
<1>1. /\ k \in Kinds /\ results[k] \in Seq(Entries) /\ r = results[k][1] /\ r \in Entries
      /\ Tail(results[k]) \in Seq(Entries) /\ Shorter(Tail(results[k]), results[k], 1)
  BY HeadResult DEF ApplyResult
<1>2. /\ results' = [results EXCEPT ![k] = Tail(@)]
      /\ mesh' = [mesh EXCEPT ![r.p] = r.data]
      /\ shown' = (IF r.urgent THEN [shown EXCEPT ![r.p] = r.data] ELSE shown)
      /\ UNCHANGED <<there, content, calls, queue, pc, task, stop>>
  BY DEF ApplyResult, workVars
<1>3. /\ k = "normal" => results["urgent"] = <<>>
      /\ k \in {"urgent", "normal"}
      /\ r.urgent <=> k = "urgent"
  <2>1. 1 \in DOMAIN results[k]
    BY <1>1, ElementsOf DEF Shorter
  <2> QED BY <1>1, <2>1 DEF NextKind, KindsMatch, Kinds
<1> HIDE DEF k, r
<1>4. /\ results'[k] = Tail(results[k]) /\ \A l \in Kinds \ {k} : results'[l] = results[l]
      /\ \A d \in Blocks : mesh'[d] = IF d = r.p THEN r.data ELSE mesh[d]
      /\ \A d \in Blocks : shown'[d] = IF r.urgent /\ d = r.p THEN r.data ELSE shown[d]
      /\ "urgent" \in Kinds /\ "normal" \in Kinds
  BY <1>1, <1>2 DEF TypeOK, Kinds
<1> SUFFICES ASSUME stop = "no", NEW b \in there, NEW a \in Around(b) \cap there
             PROVE  Fresh(b, a)'
  BY <1>2 DEF FreshInv
<1>5. b \in Blocks /\ Fresh(b, a)
  BY DEF FreshInv, TypeOK
<1>6. Holding' = Holding /\ (Waits(b)' <=> Waits(b)) /\ (Called(b)' <=> Called(b))
      /\ (Made(b)' <=> Made(b))
  BY <1>2 DEF Holding, Waits, Called, Made
<1>7. \A v : LastShows(results[k], b, a, v) =>
            \/ LastShows(results'[k], b, a, v)
            \/ r.p = b /\ r.data[a] = v /\ NoneOf(results'[k], b)
  <2> DEFINE s == results[k]
             t == results'[k]
  <2>1. s \in Seq(Entries) /\ t \in Seq(Entries) /\ Shorter(t, s, 1) /\ r = s[1]
    BY <1>1, <1>4
  <2> HIDE DEF s, t
  <2>2. ASSUME NEW v, LastShows(s, b, a, v)
        PROVE  LastShows(t, b, a, v) \/ (r.p = b /\ r.data[a] = v /\ NoneOf(t, b))
    BY <2>1, <2>2, LastOfTail
  <2> QED BY <2>2 DEF s, t
<1>8. NoneOf(results[k], b) => r.p # b /\ NoneOf(results'[k], b)
  <2> DEFINE s == results[k]
             t == results'[k]
  <2>1. s \in Seq(Entries) /\ t \in Seq(Entries) /\ Shorter(t, s, 1) /\ r = s[1]
    BY <1>1, <1>4
  <2> HIDE DEF s, t
  <2>2. NoneOf(s, b) => r.p # b /\ NoneOf(t, b)
    BY <2>1, LastOfTail
  <2> QED BY <2>2 DEF s, t
<1>9. NoneOf(<<>>, b)
  BY DEF NoneOf
<1>10. ASSUME Latest(b, a)
       PROVE  Latest(b, a)'
  <2> DEFINE v == content[a]
  <2> SUFFICES \/ LastShows(results'["normal"], b, a, v)
               \/ LastShows(results'["urgent"], b, a, v)
               \/ shown'[b][a] = v /\ NoneOf(results'["urgent"], b)
               \/ /\ mesh'[b][a] = v
                  /\ NoneOf(results'["urgent"], b) /\ NoneOf(results'["normal"], b)
    BY <1>2 DEF Latest
  <2> HIDE DEF v
  <2>1. CASE LastShows(results["normal"], b, a, v)
    <3>1. CASE k = "urgent"
      BY <1>4, <2>1, <3>1
    <3>2. CASE k = "normal"
      BY <1>3, <1>4, <1>5, <1>7, <1>9, <2>1, <3>2
    <3> QED BY <1>3, <3>1, <3>2
  <2>2. CASE LastShows(results["urgent"], b, a, v)
    <3>1. k = "urgent"
      BY <1>3, <2>2 DEF LastShows
    <3> QED BY <1>3, <1>4, <1>5, <1>7, <2>2, <3>1
  <2>3. CASE shown[b][a] = v /\ NoneOf(results["urgent"], b)
    <3>1. CASE k = "urgent"
      BY <1>4, <1>5, <1>8, <2>3, <3>1
    <3>2. CASE k = "normal"
      BY <1>3, <1>4, <1>5, <2>3, <3>2
    <3> QED BY <1>3, <3>1, <3>2
  <2>4. CASE mesh[b][a] = v /\ NoneOf(results["urgent"], b) /\ NoneOf(results["normal"], b)
    BY <1>3, <1>4, <1>5, <1>8, <2>4
  <2> QED BY <1>10, <2>1, <2>2, <2>3, <2>4 DEF Latest, v
<1> QED BY <1>2, <1>5, <1>6, <1>10 DEF Fresh

\* The entry that was queued becomes the task of a worker.
LEMMA PopFresh == ASSUME CurrentInv, NEW w \in Workers, Pop(w) PROVE FreshInv'
<1> USE DEF CurrentInv
<1>1. PICK i \in Takeable : /\ queue' = RemoveAt(queue, i)
                            /\ task' = [task EXCEPT ![w] = queue[i]]
  BY DEF Pop
<1>2. /\ pc[w] = "pop" /\ pc' = [pc EXCEPT ![w] = "fill"]
      /\ UNCHANGED <<there, content, calls, results, mesh, shown, stop>>
  BY DEF Pop, Goto, mainVars
<1>3. /\ i \in 1 .. Len(queue) /\ queue \in Seq(Entries) /\ DOMAIN queue = 1 .. Len(queue)
      /\ queue' \in Seq(Entries) /\ Shorter(queue', queue, i)
  BY <1>1, Taken, QueueDomain
<1>4. /\ Holding' = Holding \cup {w} /\ w \notin Holding
      /\ task'[w] = queue[i] /\ pc'[w] = "fill"
      /\ \A v \in Holding : pc'[v] = pc[v] /\ task'[v] = task[v]
  BY <1>1, <1>2 DEF Holding, TypeOK
<1>5. /\ \A j \in DOMAIN queue : j # i =>
            \E l \in DOMAIN queue' : queue'[l] = queue[j]
      /\ \A l \in DOMAIN queue' : \E j \in DOMAIN queue : j # i /\ queue'[l] = queue[j]
  <2>1. \A j \in DOMAIN queue : j # i => \E l \in DOMAIN queue' : queue'[l] = queue[j]
    BY <1>3, StillThere
  <2>2. /\ Len(queue) \in Nat /\ DOMAIN queue' = 1 .. Len(queue) - 1
        /\ \A l \in 1 .. Len(queue) - 1 : queue'[l] = queue[IF l < i THEN l ELSE l + 1]
    BY <1>3, ElementsOf DEF Shorter
  <2>3. ASSUME NEW l \in DOMAIN queue'
        PROVE  \E j \in DOMAIN queue : j # i /\ queue'[l] = queue[j]
    <3>1. (IF l < i THEN l ELSE l + 1) \in DOMAIN queue /\ (IF l < i THEN l ELSE l + 1) # i
      BY <1>3, <2>2, <2>3
    <3> QED BY <2>2, <2>3, <3>1
  <2> QED BY <2>1, <2>3
<1> SUFFICES ASSUME stop = "no", NEW b \in there, NEW a \in Around(b) \cap there
             PROVE  Fresh(b, a)'
  BY <1>2 DEF FreshInv
<1>6. Fresh(b, a) /\ (Called(b)' <=> Called(b)) /\ (Latest(b, a)' <=> Latest(b, a))
  BY <1>2 DEF FreshInv, Called, Latest
<1>7. CASE b = queue[i].p
  <2>1. ~Waits(b)'
    BY <1>3, <1>5, <1>7 DEF Waits, OneEntry
  <2>2. Waits(b)
    BY <1>3, <1>7 DEF Waits
  <2>3. Called(b) \/ a \in queue[i].blocks
    BY <1>3, <1>6, <1>7, <2>2 DEF Fresh, OneEntry
  <2>4. w \in Holding' /\ task'[w].p = b /\ pc'[w] # "put"
    BY <1>4, <1>7
  <2> QED BY <1>4, <1>6, <2>1, <2>3, <2>4 DEF Fresh
<1>8. CASE b # queue[i].p
  <2>1. Waits(b)' <=> Waits(b)
    BY <1>5, <1>8 DEF Waits
  <2>2. Made(b)' <=> Made(b)
    BY <1>4, <1>8 DEF Made
  <2>3. CASE \E j \in DOMAIN queue : queue[j].p = b /\ a \in queue[j].blocks
    BY <1>5, <1>8, <2>3 DEF Fresh
  <2>4. CASE \E v \in Holding : /\ task[v].p = b
                                /\ pc[v] = "fill" => a \in task[v].blocks
                                /\ pc[v] = "put" => task[v].data[a] = content[a]
    <3>1. \E v \in Holding' : /\ task'[v].p = b
                              /\ pc'[v] = "fill" => a \in task'[v].blocks
                              /\ pc'[v] = "put" => task'[v].data[a] = content'[a]
      BY <1>2, <1>4, <2>4
    <3>2. CASE Waits(b)
      BY <1>6, <2>3, <3>2 DEF Fresh
    <3> QED BY <2>1, <3>1, <3>2 DEF Fresh
  <2>5. CASE Called(b) \/ (~Waits(b) /\ ~Made(b) /\ Latest(b, a))
    BY <1>6, <2>1, <2>2, <2>5 DEF Fresh
  <2> QED BY <1>6, <2>3, <2>4, <2>5 DEF Fresh
<1> QED BY <1>7, <1>8

\* The copy has what the block holds, unless it is being written, and then a
\* call follows.
LEMMA FillFresh == ASSUME CurrentInv, NEW w \in Workers, Fill(w) PROVE FreshInv'
<1> USE DEF CurrentInv
<1>1. PICK d \in Data :
        /\ \A b \in Blocks : IF b \in task[w].blocks THEN d[b] \in Readable(b) ELSE d[b] = 0
        /\ task' = [task EXCEPT ![w].data = d]
  BY DEF Fill, Data
<1>2. /\ task[w] \in Entries /\ pc[w] = "fill" /\ pc' = [pc EXCEPT ![w] = "put"]
      /\ UNCHANGED <<there, content, writing, calls, queue, results, mesh, shown, stop>>
  BY DEF Fill, Goto, TypeOK, mainVars
<1>3. /\ Holding' = Holding /\ w \in Holding /\ pc'[w] = "put"
      /\ task'[w].data = d /\ task'[w].p = task[w].p
      /\ \A v \in Holding \ {w} : pc'[v] = pc[v] /\ task'[v] = task[v]
  BY <1>1, <1>2 DEF Holding, TypeOK, Entries
<1> SUFFICES ASSUME stop = "no", NEW b \in there, NEW a \in Around(b) \cap there
             PROVE  Fresh(b, a)'
  BY <1>2 DEF FreshInv
<1>4. /\ Fresh(b, a) /\ (Called(b)' <=> Called(b)) /\ (Latest(b, a)' <=> Latest(b, a))
      /\ (Waits(b)' <=> Waits(b)) /\ (Made(b)' <=> Made(b))
  BY <1>2, <1>3 DEF FreshInv, Called, Latest, Waits, Made
<1>5. CASE Called(b) \/ (\E i \in DOMAIN queue : queue[i].p = b /\ a \in queue[i].blocks)
           \/ (~Waits(b) /\ ~Made(b) /\ Latest(b, a))
  BY <1>2, <1>4, <1>5 DEF Fresh
<1>6. ASSUME ~Called(b), ~Waits(b), NEW v \in Holding, task[v].p = b,
             pc[v] = "fill" => a \in task[v].blocks,
             pc[v] = "put" => task[v].data[a] = content[a]
      PROVE  Fresh(b, a)'
  <2>1. CASE v # w
    BY <1>2, <1>3, <1>4, <1>6, <2>1 DEF Fresh
  <2>2. CASE v = w
    <3>1. a \in Blocks /\ b \in Blocks
      BY DEF TypeOK
    <3>2. a \notin writing
      BY <1>6, <3>1, AroundEachOther DEF WritingIsCalled
    <3>3. d[a] = content[a]
      BY <1>1, <1>2, <1>6, <2>2, <3>1, <3>2 DEF Readable
    <3> QED BY <1>2, <1>3, <1>4, <1>6, <2>2, <3>3 DEF Fresh
  <2> QED BY <2>1, <2>2
<1> QED BY <1>4, <1>5, <1>6 DEF Fresh

\* The result comes last in its list.
LEMMA PutFresh == ASSUME CurrentInv, NEW w \in Workers, PutResult(w) PROVE FreshInv'
<1> USE DEF CurrentInv
<1> DEFINE k == KindOf(task[w])
<1>1. /\ k \in Kinds /\ task[w] \in Entries /\ pc[w] = "put"
      /\ results[k] \in Seq(Entries) /\ results'[k] = Append(results[k], task[w])
      /\ \A l \in Kinds \ {k} : results'[l] = results[l]
  BY PutKind
<1>2. /\ pc' = [pc EXCEPT ![w] = "done"]
      /\ UNCHANGED <<there, content, calls, queue, task, mesh, shown, stop>>
  BY DEF PutResult, Goto, mainVars
<1> HIDE DEF k
<1>3. /\ Holding' = Holding \ {w} /\ w \in Holding
      /\ \A v \in Holding \ {w} : pc'[v] = pc[v]
  BY <1>1, <1>2 DEF Holding, TypeOK
<1>4. \A v \in Holding : task[v].p = task[w].p => v = w
  BY <1>3 DEF OneWorker, Holding, Busy
<1> SUFFICES ASSUME stop = "no", NEW b \in there, NEW a \in Around(b) \cap there
             PROVE  Fresh(b, a)'
  BY <1>2 DEF FreshInv
<1>5. Fresh(b, a) /\ (Called(b)' <=> Called(b)) /\ (Waits(b)' <=> Waits(b))
  BY <1>2 DEF FreshInv, Called, Waits
<1>6. CASE Called(b) \/ \E i \in DOMAIN queue : queue[i].p = b /\ a \in queue[i].blocks
  BY <1>2, <1>5, <1>6 DEF Fresh
<1>7. CASE task[w].p = b /\ ~Called(b) /\ ~Waits(b)
  <2>1. ~Made(b)'
    BY <1>2, <1>3, <1>4, <1>7 DEF Made
  <2>2. task[w].data[a] = content[a]
    BY <1>1, <1>3, <1>4, <1>5, <1>7 DEF Fresh, Waits, Made
  <2>3. LastShows(results'[k], b, a, content[a])
    BY <1>1, <1>7, <2>2, LastAppended
  <2>4. Latest(b, a)'
    BY <1>1, <1>2, <2>3 DEF Latest, Kinds
  <2> QED BY <1>5, <1>7, <2>1, <2>4 DEF Fresh
<1>8. CASE task[w].p # b /\ ~Called(b) /\ ~Waits(b)
  <2>1. Made(b)' <=> Made(b)
    BY <1>2, <1>3, <1>8 DEF Made
  <2>2. Latest(b, a) => Latest(b, a)'
    <3>1. \A l \in Kinds :
            /\ LastShows(results[l], b, a, content[a]) => LastShows(results'[l], b, a, content[a])
            /\ NoneOf(results[l], b) => NoneOf(results'[l], b)
      <4> DEFINE s == results[k]
                 t == results'[k]
                 e == task[w]
      <4>1. /\ s \in Seq(Entries) /\ e \in Entries /\ e.p # b /\ t = Append(s, e)
        BY <1>1, <1>8
      <4> HIDE DEF s, t, e
      <4>2. /\ LastShows(s, b, a, content[a]) => LastShows(t, b, a, content[a])
            /\ NoneOf(s, b) => NoneOf(t, b)
        BY <4>1, LastAppended
      <4> QED BY <1>1, <4>2 DEF s, t
    <3> QED BY <1>2, <3>1 DEF Latest, Kinds
  <2>3. CASE Made(b)
    <3>1. PICK v \in Holding : /\ task[v].p = b
                               /\ pc[v] = "fill" => a \in task[v].blocks
                               /\ pc[v] = "put" => task[v].data[a] = content[a]
      BY <1>5, <1>8, <2>3 DEF Fresh, Waits
    <3> QED BY <1>2, <1>3, <1>5, <1>8, <3>1 DEF Fresh
  <2>4. CASE ~Made(b)
    <3>1. Latest(b, a)
      BY <1>5, <1>8, <2>4 DEF Fresh, Waits, Made
    <3> QED BY <1>5, <1>8, <2>1, <2>2, <2>4, <3>1 DEF Fresh
  <2> QED BY <2>3, <2>4
<1> QED BY <1>5, <1>6, <1>7, <1>8 DEF Fresh, Waits

LEMMA StepFresh == ASSUME CurrentInv, [Next]_vars PROVE FreshInv'
<1> USE DEF CurrentInv
\* Steps after which everything is where it was in the making.
<1>1. ASSUME UNCHANGED <<calls, queue, results, content>>, Holding' = Holding,
             \A v \in Holding : pc'[v] = pc[v] /\ task'[v] = task[v],
             there' \subseteq there, stop' = "no" => stop = "no",
             \A b \in there' : mesh'[b] = mesh[b] /\ shown'[b] = shown[b]
      PROVE  FreshInv'
  BY <1>1, FreshStays DEF FreshInv
<1>2. ASSUME NEW x \in Blocks, Unload(x)
      PROVE  FreshInv'
  <2>1. /\ UNCHANGED <<calls, queue, results, content, pc, task, stop>>
        /\ there' = there \ {x} /\ there \subseteq Blocks
        /\ \A b \in there' : mesh'[b] = mesh[b] /\ shown'[b] = shown[b]
    BY <1>2 DEF Unload, workVars, TypeOK
  <2> QED BY <1>1, <2>1 DEF Holding
<1>3. ASSUME NEW w \in Workers,
             Test(w) \/ Wait(w) \/ Check(w) \/ PopNothing(w) \/ Done(w)
      PROVE  FreshInv'
  <2>1. UNCHANGED <<calls, queue, results, content, there, stop, mesh, shown>>
    BY <1>3 DEF Test, Wait, Check, PopNothing, Done, mainVars
  <2>2. /\ pc[w] \notin {"fill", "put"} /\ pc'[w] \notin {"fill", "put"}
        /\ \A v \in Workers \ {w} : pc'[v] = pc[v] /\ task'[v] = task[v]
    BY <1>3 DEF Test, Wait, Check, PopNothing, Done, Goto, TypeOK
  <2>3. Holding' = Holding /\ \A v \in Holding : pc'[v] = pc[v] /\ task'[v] = task[v]
    BY <2>2 DEF Holding
  <2> QED BY <1>1, <2>1, <2>3
<1>4. CASE DeferUpdate
  BY <1>1, <1>4 DEF DeferUpdate, workVars, Holding
<1>5. CASE Nudge \/ RequestStop \/ Join
  BY <1>5 DEF Nudge, RequestStop, Join, FreshInv
<1>6. CASE UNCHANGED vars
  BY <1>1, <1>6 DEF vars, Holding
<1>7. ASSUME NEW w \in Workers, Work(w)
      PROVE  FreshInv'
  BY <1>3, <1>7, PopFresh, FillFresh, PutFresh DEF Work
<1>8. ASSUME NEW x \in Blocks, ReceiveBlock(x) \/ ChangeNode(x)
      PROVE  FreshInv'
  BY <1>8, ChangeFresh
<1> QED BY <1>2, <1>4, <1>5, <1>6, <1>7, <1>8, AddBlockFresh, ApplyFresh DEF Next, MainStep

LEMMA InitCurrent == Init => CurrentInv
<1> SUFFICES ASSUME Init PROVE CurrentInv
  OBVIOUS
<1>1. /\ there = {} /\ writing = {} /\ \A w \in Workers : pc[w] = "test"
      /\ DOMAIN queue = {} /\ \A k \in Kinds : DOMAIN results[k] = {}
      /\ \A a, b \in Blocks : mesh[b][a] = 0 /\ content[a] = 0
  BY DEF Init, NoData
<1>2. OneEntry /\ WritingIsCalled /\ FreshInv
  BY <1>1 DEF OneEntry, WritingIsCalled, FreshInv
<1>3. OneWorker /\ KindsMatch /\ NothingAhead
  BY <1>1 DEF OneWorker, KindsMatch, NothingAhead, Busy, Kinds
<1> QED BY <1>2, <1>3, InitType DEF CurrentInv

\* When nothing is under way for a block, its mesh shows what it and its
\* neighbours hold, however changes, copies and results cross each other,
\* unless an urgent mesh went past an older one.
THEOREM MeshesAreCurrent == Spec => []MeshIsCurrent
<1>1. Init => CurrentInv
  BY InitCurrent
<1>2. CurrentInv /\ [Next]_vars => CurrentInv'
  BY StepType, StepOneEntry, StepWriting, StepOneWorker, StepKinds, StepAhead, StepFresh
     DEF CurrentInv
<1>3. CurrentInv => MeshIsCurrent
  <2> SUFFICES ASSUME CurrentInv, NEW b \in there, stop = "no", Settled(b), ~Overtaken(b),
                      NEW a \in Around(b) \cap there
               PROVE  mesh[b][a] = content[a]
    BY DEF MeshIsCurrent
  <2>1. b \in Blocks /\ a \in Blocks /\ Fresh(b, a)
    BY DEF CurrentInv, FreshInv, TypeOK
  <2>2. ~Called(b) /\ ~Waits(b)
    BY DEF Settled, Called, Waits, Queued
  <2>3. ~Made(b)
    BY DEF Settled, Made, Holding, CurrentInv, OneWorker, Busy
  <2>4. NoneOf(results["urgent"], b) /\ NoneOf(results["normal"], b)
    BY DEF Settled, NoneOf, Kinds
  <2>5. Latest(b, a)
    BY <2>1, <2>2, <2>3 DEF Fresh, Made, Waits
  <2>6. shown[b][a] = content[a] \/ mesh[b][a] = content[a]
    BY <2>4, <2>5 DEF Latest, LastShows, NoneOf
  <2>7. mesh[b][a] <= content[a] /\ ~ (mesh[b][a] < shown[b][a])
    BY <2>1 DEF CurrentInv, NothingAhead, Overtaken
  <2>8. mesh[b][a] \in Nat /\ content[a] \in Nat
    BY <2>1, MeshAssumption DEF CurrentInv, TypeOK, Data
  <2> QED BY <2>6, <2>7, <2>8
<1> QED BY <1>1, <1>2, <1>3, PTL DEF Spec
=============================================================================
