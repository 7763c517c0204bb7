------------------------ MODULE BlockTransferProofs --------------------------
(***************************************************************************)
(* Proofs about BlockTransfer, for any blocks, distances, limits and       *)
(* numbers of edits.  SentReaches is inductive next to the types.  For     *)
(* CurrentUnlessCrossed the invariant Inv adds what the packets under way  *)
(* will leave the client with: the last packet about a block, if there is  *)
(* one, is the present content.                                            *)
(***************************************************************************)
EXTENDS BlockTransfer, FiniteSetTheorems, SequenceTheorems, WellFoundedInduction, TLAPS

RemoteClients ==
    [sent : SUBSET Blocks, sending : SUBSET Blocks, modified : SUBSET Blocks,
     culled : SUBSET Blocks, nearest : 0 .. FullD, paused : BOOLEAN]

\* A set of numbers that is not empty has a smallest one.
LEMMA MinOfNat ==
    ASSUME NEW S \in SUBSET Nat, S # {}
    PROVE  MinOf(S) \in S /\ \A y \in S : MinOf(S) <= y
<1>1. PICK x \in S : \A y \in S : ~ (<<y, x>> \in OpToRel(<, Nat))
    BY NatLessThanWellFounded, WFMin
<1>2. \A y \in S : x <= y
  <2> TAKE y \in S
  <2>1. ~ (y < x)
    BY <1>1 DEF OpToRel
  <2> QED BY <2>1
<1> QED BY <1>2 DEF MinOf

\* What the search leaves of a RemoteClient is one; sent and sending stay.
LEMMA SearchedType ==
    ASSUME NEW r \in RemoteClients, NEW start \in 0 .. FullD, NEW end \in Nat,
           NEW emerged \in SUBSET Seen(start), NEW chosen \in SUBSET Seen(start)
    PROVE  /\ Searched(r, start, end, emerged, chosen) \in RemoteClients
           /\ Searched(r, start, end, emerged, chosen).sent = r.sent
           /\ Searched(r, start, end, emerged, chosen).sending = r.sending
<1> USE TransferAssumption
<1>1. \A i \in Seen(start) : Order[i] \in Blocks /\ Dist[Order[i]] \in 0 .. FullD
    BY DEF Seen
<1>2. \A S \in SUBSET Seen(start) : S # {} => Dist[Order[MinOf(S)]] \in 0 .. FullD
  <2> TAKE S \in SUBSET Seen(start)
  <2> SUFFICES ASSUME S # {} PROVE Dist[Order[MinOf(S)]] \in 0 .. FullD
    OBVIOUS
  <2>1. S \in SUBSET Nat
    BY DEF Seen
  <2>2. MinOf(S) \in Seen(start)
    BY <2>1, MinOfNat
  <2> QED BY <2>2, <1>1
<1>3. LastD(start) \in 0 .. FullD
    BY DEF LastD
<1> DEFINE nearest == NextNearest(r, start, end, emerged, chosen)
           done    == Done(r, start, end, emerged)
<1>4. nearest \in 0 .. FullD
  <2>1. EndD(start, end) \in 0 .. FullD + 1 /\ EndD(start, end) \in Nat
    BY <1>1, <1>3 DEF EndD
  <2>2. GaveUp(r, start, end) => EndD(start, end) \in 0 .. FullD
    BY <1>1 DEF GaveUp, EndD
  <2>3. emerged = {} /\ ~GaveUp(r, start, end) /\ ~done
          => EndD(start, end) \in 0 .. FullD
    BY <2>1 DEF Done
  <2> QED BY <2>2, <2>3, <1>2 DEF NextNearest
<1>5. done \in BOOLEAN
    BY DEF Done
<1>6. Occluded(r, start, end) \subseteq Blocks
    BY <1>1 DEF Before, Open, Occluded
<1> DEFINE culled == IF nearest # start THEN {} ELSE r.culled \cup Occluded(r, start, end)
<1>7. culled \subseteq Blocks
    BY <1>6 DEF RemoteClients
<1>8. Searched(r, start, end, emerged, chosen) =
        [r EXCEPT !.modified = {}, !.nearest = nearest, !.paused = done,
                  !.culled = culled]
    BY DEF Searched, RemoteClients
<1> HIDE DEF nearest, done, culled
<1> QED BY <1>4, <1>5, <1>7, <1>8 DEF RemoteClients

\* The operations on a RemoteClient give one again, and change sent and
\* sending as they should.
LEMMA NotSentOperation ==
    ASSUME NEW r \in RemoteClients, NEW bs \in SUBSET Blocks
    PROVE  /\ SetBlocksNotSent(r, bs) \in RemoteClients
           /\ SetBlocksNotSent(r, bs).sent = r.sent \ bs
           /\ SetBlocksNotSent(r, bs).sending = r.sending \ bs
<1> DEFINE m == r.modified \cup (bs \cap (r.sending \cup r.sent))
<1>1. SetBlocksNotSent(r, bs) =
        [r EXCEPT !.paused = FALSE, !.sending = r.sending \ bs,
                  !.sent = r.sent \ bs, !.modified = m]
    BY DEF SetBlocksNotSent, RemoteClients
<1>2. m \in SUBSET Blocks
    BY DEF RemoteClients
<1> HIDE DEF m
<1> QED BY <1>1, <1>2 DEF RemoteClients

\* So do the others: GotBlock moves a block from sending to sent or does nothing.
LEMMA ClientOperations ==
    ASSUME NEW r \in RemoteClients, NEW bs \in SUBSET Blocks, NEW b \in Blocks
    PROVE  /\ SentBlocks(r, bs) \in RemoteClients
           /\ SentBlocks(r, bs).sent = r.sent
           /\ SentBlocks(r, bs).sending = r.sending \cup bs
           /\ GotBlock(r, b) \in RemoteClients
           /\ b \in r.sending => /\ GotBlock(r, b).sent = r.sent \cup {b}
                                 /\ GotBlock(r, b).sending = r.sending \ {b}
           /\ b \notin r.sending => GotBlock(r, b) = r
           /\ ResendBlockIfOnWire(r, b) \in RemoteClients
           /\ ResendBlockIfOnWire(r, b).sending = r.sending \ {b}
           /\ ResendBlockIfOnWire(r, b).sent
                = r.sent \ (IF b \in r.sending THEN {b} ELSE {})
<1>1. /\ SetBlocksNotSent(r, {b}) \in RemoteClients
      /\ SetBlocksNotSent(r, {b}).sent = r.sent \ {b}
      /\ SetBlocksNotSent(r, {b}).sending = r.sending \ {b}
    BY NotSentOperation
<1>2. /\ SentBlocks(r, bs) \in RemoteClients
      /\ SentBlocks(r, bs).sent = r.sent
      /\ SentBlocks(r, bs).sending = r.sending \cup bs
    BY DEF SentBlocks, RemoteClients
<1>3. CASE b \in r.sending
    BY <1>1, <1>2, <1>3 DEF GotBlock, ResendBlockIfOnWire, RemoteClients
<1>4. CASE b \notin r.sending
    BY <1>2, <1>4 DEF GotBlock, ResendBlockIfOnWire, RemoteClients
<1> QED BY <1>3, <1>4

\* A search starts within the range.
LEMMA StartType ==
    ASSUME NEW r \in RemoteClients
    PROVE  Start(r) \in 0 .. FullD
<1> DEFINE D == {r.nearest} \cup {Dist[b] : b \in r.modified}
<1>1. D \subseteq 0 .. FullD /\ D # {}
    BY TransferAssumption DEF RemoteClients
<1>2. Start(r) = IF r.nearest = 0 THEN 0 ELSE MinOf(D)
    BY DEF Start, D
<1> HIDE DEF D
<1>3. FullD \in Nat
    BY TransferAssumption
<1>4. D \in SUBSET Nat
    BY <1>1, <1>3
<1>5. MinOf(D) \in D
    BY <1>1, <1>4, MinOfNat
<1>6. MinOf(D) \in 0 .. FullD
    BY <1>1, <1>5
<1> QED BY <1>2, <1>3, <1>6

\* What SendBlocks does: it sends blocks that are neither sent nor sending.
LEMMA SendBlocksEffect ==
    ASSUME TypeOK, NEW accepts \in SUBSET (Blocks \ generated), SendBlocks(accepts)
    PROVE  /\ rc' \in RemoteClients /\ rc'.sent = rc.sent
           /\ asked' \subseteq Blocks
           /\ \E out \in SUBSET Blocks :
                /\ out \cap (rc.sent \cup rc.sending) = {}
                /\ rc'.sending = rc.sending \cup out
                /\ SendBlockNoLock(out)
           /\ UNCHANGED <<content, generated, hidden, edits, nodeChanges, answers,
                          interacts, copy, unacked, used>>
<1>1. rc \in RemoteClients
    BY DEF TypeOK, RemoteClients
<1>2. PICK start \in {Start(rc)}, end \in 1 .. Len(Order) + 1 :
        LET ready   == Before(Ready(rc, start), end)
            emerged == Before(Wanted(rc, start), end) \ ready
            out     == Picked(rc, ready)
        IN  /\ rc' = SentBlocks(Searched(rc, start, end, emerged, ready), out)
            /\ asked' = asked \cup {Order[i] : i \in emerged}
            /\ SendBlockNoLock(out)
    BY DEF SendBlocks
<1> DEFINE ready   == Before(Ready(rc, start), end)
           emerged == Before(Wanted(rc, start), end) \ ready
           out     == Picked(rc, ready)
           found   == Searched(rc, start, end, emerged, ready)
<1>3. /\ rc' = SentBlocks(found, out)
      /\ asked' = asked \cup {Order[i] : i \in emerged}
      /\ SendBlockNoLock(out)
    BY <1>2
<1>4. start \in 0 .. FullD /\ end \in Nat
    BY <1>1, StartType, TransferAssumption
<1>5. ready \subseteq Open(rc, start) /\ emerged \subseteq Seen(start)
    BY DEF Before, Ready, Wanted, Open
<1>6. ready \in SUBSET Seen(start) /\ emerged \in SUBSET Seen(start)
    BY <1>5 DEF Open
<1>7. /\ found \in RemoteClients /\ found.sent = rc.sent /\ found.sending = rc.sending
  <2> HIDE DEF ready, emerged
  <2> QED BY <1>1, <1>4, <1>6, SearchedType DEF found
<1>8. \A i \in Seen(start) : Order[i] \in Blocks
    BY TransferAssumption DEF Seen
<1>9. out \in SUBSET Blocks /\ out \cap (rc.sent \cup rc.sending) = {}
  <2>1. \A b \in out : \E i \in ready : b = Order[i]
    BY DEF Picked
  <2> HIDE DEF ready, out
  <2> QED BY <2>1, <1>5, <1>6, <1>8 DEF Open
<1>10. rc' \in RemoteClients /\ rc'.sent = rc.sent /\ rc'.sending = rc.sending \cup out
  <2> HIDE DEF found, out
  <2>1. /\ SentBlocks(found, out) \in RemoteClients
        /\ SentBlocks(found, out).sent = found.sent
        /\ SentBlocks(found, out).sending = found.sending \cup out
    BY <1>7, <1>9 DEF SentBlocks, RemoteClients
  <2> QED BY <2>1, <1>3, <1>7
<1>11. asked' \subseteq Blocks
  <2> HIDE DEF emerged
  <2> QED BY <1>3, <1>6, <1>8 DEF TypeOK
<1>12. UNCHANGED <<content, generated, hidden, edits, nodeChanges, answers,
                   interacts, copy, unacked, used>>
    BY DEF SendBlocks, clientVars
<1> HIDE DEF out, found, ready, emerged
<1> QED BY <1>3, <1>9, <1>10, <1>11, <1>12
-----------------------------------------------------------------------------
\* Appending to a channel and receiving from it keep the type of what it carries.
LEMMA QueueTypes ==
    ASSUME NEW T, NEW s \in Seq(T), NEW x \in T
    PROVE  /\ Append(s, x) \in Seq(T) /\ Append(s, x) # <<>>
           /\ s # <<>> => Head(s) \in T /\ Tail(s) \in Seq(T)
<1>1. Append(s, x) \in Seq(T)
    OBVIOUS
<1>2. Append(s, x) # <<>>
  <2>1. Len(Append(s, x)) = Len(s) + 1 /\ Len(s) \in Nat
    OBVIOUS
  <2> QED BY <2>1
<1>3. s # <<>> => Head(s) \in T /\ Tail(s) \in Seq(T)
    OBVIOUS
<1> QED BY <1>1, <1>2, <1>3

\* The deletions among answers, when one is added and when one is taken.
LEMMA Deletions ==
    ASSUME NEW s \in Seq({"got", "deleted"}), NEW x \in {"got", "deleted"}
    PROVE  LET Has(q) == \E i \in DOMAIN q : q[i] = "deleted"
           IN  /\ Has(Append(s, x)) <=> Has(s) \/ x = "deleted"
               /\ s # <<>> /\ Head(s) = "got" => (Has(Tail(s)) <=> Has(s))
<1> DEFINE Has(q) == \E i \in DOMAIN q : q[i] = "deleted"
<1>1. Has(s) => Has(Append(s, x))
  <2>1. \A i \in DOMAIN s : i \in DOMAIN Append(s, x) /\ Append(s, x)[i] = s[i]
    OBVIOUS
  <2> QED BY <2>1
<1>2. x = "deleted" => Has(Append(s, x))
  <2>1. Len(s) + 1 \in DOMAIN Append(s, x) /\ Append(s, x)[Len(s) + 1] = x
    OBVIOUS
  <2> QED BY <2>1
<1>3. Has(Append(s, x)) => Has(s) \/ x = "deleted"
  <2>1. \A i \in DOMAIN Append(s, x) :
          \/ i \in DOMAIN s /\ Append(s, x)[i] = s[i]
          \/ i = Len(s) + 1 /\ Append(s, x)[i] = x
    OBVIOUS
  <2> QED BY <2>1
<1>4. ASSUME s # <<>>, Head(s) = "got" PROVE Has(s) => Has(Tail(s))
  <2>1. \A i \in DOMAIN s :
          \/ i = 1
          \/ i - 1 \in DOMAIN Tail(s) /\ Tail(s)[i - 1] = s[i]
    BY <1>4
  <2>2. s[1] = "got"
    BY <1>4
  <2> QED BY <2>1, <2>2
<1>5. ASSUME s # <<>> PROVE Has(Tail(s)) => Has(s)
  <2>1. \A i \in DOMAIN Tail(s) : i + 1 \in DOMAIN s /\ Tail(s)[i] = s[i + 1]
    BY <1>5
  <2> QED BY <2>1
<1> QED BY <1>1, <1>2, <1>3, <1>4, <1>5

\* The edits sent as single nodes come first among the edits of the block, and
\* when they are all of them the block is one the client was sent.
LEMMA SinglesType ==
    ASSUME TypeOK, NEW b \in Blocks
    PROVE  /\ Singles(b) \in Seq(Edits)
           /\ Len(Singles(b)) <= Len(edits[b])
           /\ Len(Singles(b)) = Len(edits[b]) =>
                /\ Singles(b) = edits[b]
                /\ edits[b] # <<>> => b \in rc.sent
<1> DEFINE first == {i \in DOMAIN edits[b] : \A j \in 1 .. i : edits[b][j] # Other}
           n     == Len(edits[b])
           k     == Cardinality(first)
<1>1. edits[b] \in Seq(0 .. MaxEvents) /\ n \in Nat /\ DOMAIN edits[b] = 1 .. n
    BY DEF TypeOK
<1>2. IsFiniteSet(1 .. n) /\ Cardinality(1 .. n) = n
    BY <1>1, FS_Interval
<1>3. first \in SUBSET (1 .. n)
    BY <1>1
<1>4. k \in Nat /\ k <= n /\ (k = n => first = 1 .. n)
  <2> HIDE DEF first, n
  <2> QED BY <1>2, <1>3, FS_Subset, FS_CardinalityType
<1>5. \A i \in 1 .. k : edits[b][i] \in Edits
  <2> HIDE DEF k, n
  <2>1. \A i \in first : i \in 1 .. n /\ \A j \in 1 .. i : j \in first
    BY <1>1
  <2>2. \A i \in 1 .. n : i \in first => edits[b][i] \in Edits
    <3>1. \A i \in 1 .. n : edits[b][i] \in 0 .. MaxEvents
      BY <1>1, ElementOfSeq DEF n
    <3>2. \A i \in 1 .. n : i \in first => edits[b][i] # 0
      <4> SUFFICES ASSUME NEW i \in 1 .. n, i \in first PROVE edits[b][i] # 0
        OBVIOUS
      <4>1. i \in 1 .. i
        BY <1>1
      <4> QED BY <4>1 DEF Other
    <3> QED BY <3>1, <3>2, TransferAssumption DEF Edits
  <2> HIDE DEF first
  <2>3. ASSUME NEW i \in 1 .. k, i \notin first PROVE FALSE
    <3>1. i \in Nat /\ i >= 1 /\ i <= k
      BY <1>4
    <3>2. \A m \in first : m < i
      BY <2>1, <2>3, <3>1, <1>1
    <3>3. first \in SUBSET (1 .. i - 1)
      BY <2>1, <3>1, <3>2, <1>1
    <3>4. IsFiniteSet(1 .. i - 1) /\ Cardinality(1 .. i - 1) = i - 1
      BY <3>1, FS_Interval
    <3>5. k <= i - 1
      BY <3>3, <3>4, FS_Subset DEF k
    <3> QED BY <3>1, <3>5, <1>4
  <2> QED BY <2>2, <2>3, <1>4, <1>1
<1>6. Singles(b) = IF b \in rc.sent /\ Near(b) THEN SubSeq(edits[b], 1, k) ELSE <<>>
    BY DEF Singles
<1> HIDE DEF k, n
<1>7. SubSeq(edits[b], 1, k) \in Seq(Edits) /\ Len(SubSeq(edits[b], 1, k)) = k
    BY <1>1, <1>4, <1>5 DEF n
<1>8. k = n => SubSeq(edits[b], 1, k) = edits[b]
    BY <1>1, <1>4 DEF n
<1>9. CASE b \in rc.sent /\ Near(b)
    BY <1>1, <1>4, <1>6, <1>7, <1>8, <1>9 DEF n
<1>10. CASE ~(b \in rc.sent /\ Near(b))
  <2>1. Singles(b) = <<>> /\ Len(<<>>) = 0 /\ <<>> \in Seq(Edits)
    BY <1>6, <1>10
  <2>2. Len(edits[b]) = 0 => edits[b] = <<>>
    BY <1>1
  <2> QED BY <2>1, <2>2, <1>1 DEF n
<1> QED BY <1>9, <1>10
-----------------------------------------------------------------------------
\* Every step keeps the types.
LEMMA TypeStep ==
    ASSUME TypeOK, [Next]_vars
    PROVE  TypeOK'
<1>1. /\ rc \in RemoteClients /\ rc.sent \subseteq Blocks /\ rc.sending \subseteq Blocks
      /\ MaxEvents \in Nat /\ rc.sent \cap rc.sending = {}
    BY TransferAssumption DEF TypeOK, RemoteClients
<1>2. TypeOK' <=>
        /\ content' \in [Blocks -> 0 .. MaxEvents] /\ used' \in 0 .. MaxEvents
        /\ generated' \subseteq Blocks /\ asked' \subseteq Blocks
        /\ hidden' \subseteq Blocks /\ crossed' \subseteq Blocks
        /\ rc' \in RemoteClients /\ rc'.sent \cap rc'.sending = {}
        /\ edits' \in [Blocks -> Seq(0 .. MaxEvents)]
        /\ blockData' \in [Blocks -> Seq(0 .. MaxEvents)]
        /\ nodeChanges' \in [Blocks -> Seq(Edits)]
        /\ interacts' \in [Blocks -> Seq(Edits)]
        /\ answers' \in [Blocks -> Seq({"got", "deleted"})]
        /\ copy' \in [Blocks -> {Missing} \cup 0 .. MaxEvents]
        /\ unacked' \in [Blocks -> Nat]
    BY DEF TypeOK, RemoteClients
<1>3. \A bs \in SUBSET Blocks : SendBlockNoLock(bs) =>
        blockData' \in [Blocks -> Seq(0 .. MaxEvents)] /\ crossed' \subseteq Blocks
  <2> TAKE bs \in SUBSET Blocks
  <2>1. \A b \in Blocks : Append(blockData[b], content[b]) \in Seq(0 .. MaxEvents)
    BY QueueTypes DEF TypeOK
  <2> QED BY <2>1 DEF SendBlockNoLock, TypeOK
<1>4. ASSUME NEW accepts \in SUBSET (Blocks \ generated), SendBlocks(accepts)
      PROVE  TypeOK'
  <2>1. PICK out \in SUBSET Blocks :
          /\ out \cap (rc.sent \cup rc.sending) = {}
          /\ rc'.sending = rc.sending \cup out
          /\ SendBlockNoLock(out)
    BY <1>4, SendBlocksEffect
  <2>2. rc'.sent \cap rc'.sending = {}
    BY <2>1, <1>4, SendBlocksEffect DEF TypeOK
  <2> QED BY <1>2, <1>3, <1>4, <2>1, <2>2, SendBlocksEffect DEF TypeOK
<1>5. CASE PauseEnds
    BY <1>1, <1>2, <1>5 DEF PauseEnds, TypeOK, serverVars, channels, clientVars, RemoteClients
<1>6. CASE Turn
  <2>1. used' \in 0 .. MaxEvents /\ hidden' \subseteq Blocks
    BY <1>1, <1>6 DEF Turn, Event, TypeOK
  <2>2. PICK n \in {0, rc.nearest} : rc' = [rc EXCEPT !.nearest = n]
    BY <1>6 DEF Turn
  <2>3. n \in 0 .. FullD
    BY <1>1, TransferAssumption DEF RemoteClients
  <2>4. rc' \in RemoteClients /\ rc'.sent \cap rc'.sending = {}
    BY <1>1, <2>2, <2>3 DEF RemoteClients
  <2> QED BY <1>2, <1>6, <2>1, <2>4 DEF Turn, TypeOK, channels, clientVars
<1>7. CASE SendEdits
  <2>1. \A b \in Blocks : nodeChanges[b] \o Singles(b) \in Seq(Edits)
    BY SinglesType DEF TypeOK
  <2>2. rc' \in RemoteClients /\ rc'.sent \cap rc'.sending = {}
    <3> DEFINE bs == {b \in Blocks : Len(Singles(b)) < Len(edits[b])}
    <3>1. rc' = rc \/ rc' = SetBlocksNotSent(rc, bs)
      BY <1>7 DEF SendEdits
    <3> QED BY <1>1, <3>1, NotSentOperation
  <2>3. nodeChanges' \in [Blocks -> Seq(Edits)] /\ edits' \in [Blocks -> Seq(0 .. MaxEvents)]
    <3>1. nodeChanges' = [b \in Blocks |-> nodeChanges[b] \o Singles(b)]
      BY <1>7 DEF SendEdits
    <3>2. edits' = [b \in Blocks |-> <<>>] /\ <<>> \in Seq(0 .. MaxEvents)
      BY <1>7 DEF SendEdits
    <3> QED BY <2>1, <3>1, <3>2
  <2>4. crossed' \subseteq Blocks
    BY <1>7 DEF SendEdits, TypeOK
  <2> QED BY <1>2, <1>7, <2>2, <2>3, <2>4 DEF SendEdits, TypeOK, clientVars
<1>8. ASSUME NEW b \in Blocks, EmergeFinished(b) PROVE TypeOK'
  <2>1. Append(edits[b], Other) \in Seq(0 .. MaxEvents)
    BY <1>1, QueueTypes DEF TypeOK, Other
  <2> QED BY <1>1, <1>2, <1>8, <2>1 DEF EmergeFinished, TypeOK, channels, clientVars
<1>9. ASSUME NEW b \in Blocks, ReceiveAnswer(b) PROVE TypeOK'
  <2>1. Tail(answers[b]) \in Seq({"got", "deleted"})
    BY <1>9, QueueTypes DEF ReceiveAnswer, TypeOK
  <2>2. rc' \in RemoteClients /\ rc'.sent \cap rc'.sending = {}
    <3>1. CASE Head(answers[b]) = "got"
      BY <1>1, <1>9, <3>1, ClientOperations DEF ReceiveAnswer
    <3>2. CASE Head(answers[b]) # "got"
      <4>1. {b} \in SUBSET Blocks /\ rc' = SetBlocksNotSent(rc, {b})
        BY <1>9, <3>2 DEF ReceiveAnswer
      <4> QED BY <1>1, <4>1, NotSentOperation
    <3> QED BY <3>1, <3>2
  <2> QED BY <1>2, <1>9, <2>1, <2>2 DEF ReceiveAnswer, TypeOK, serverVars, clientVars
<1>10. ASSUME NEW b \in Blocks, AcceptDig(b) PROVE TypeOK'
  <2>1. Head(interacts[b]) \in Edits /\ Tail(interacts[b]) \in Seq(Edits)
    BY <1>10, QueueTypes DEF AcceptDig, TypeOK
  <2>2. Head(interacts[b]) \in 0 .. MaxEvents
    BY <2>1, <1>1 DEF Edits
  <2>3. Append(edits[b], Head(interacts[b])) \in Seq(0 .. MaxEvents)
    BY <2>2, QueueTypes DEF TypeOK
  <2>4. rc' \in RemoteClients /\ rc'.sent \cap rc'.sending = {}
    BY <1>1, <1>10, ClientOperations, NotSentOperation DEF AcceptDig
  <2> QED BY <1>2, <1>10, <2>1, <2>2, <2>3, <2>4 DEF AcceptDig, TypeOK, clientVars
<1>11. ASSUME NEW b \in Blocks, RefuseDig(b) PROVE TypeOK'
  <2>1. Tail(interacts[b]) \in Seq(Edits)
    BY <1>11, QueueTypes DEF RefuseDig, TypeOK
  <2>2. rc' \in RemoteClients /\ rc'.sent \cap rc'.sending = {}
    BY <1>1, <1>11, ClientOperations, NotSentOperation DEF RefuseDig
  <2> QED BY <1>2, <1>11, <2>1, <2>2 DEF RefuseDig, TypeOK, serverVars, clientVars
<1>12. ASSUME NEW b \in Blocks, ReceiveBlock(b) PROVE TypeOK'
  <2>1. Head(blockData[b]) \in 0 .. MaxEvents /\ Tail(blockData[b]) \in Seq(0 .. MaxEvents)
    BY <1>12, QueueTypes DEF ReceiveBlock, TypeOK
  <2>2. /\ blockData' \in [Blocks -> Seq(0 .. MaxEvents)]
        /\ copy' \in [Blocks -> {Missing} \cup 0 .. MaxEvents]
        /\ unacked' \in [Blocks -> Nat]
    BY <1>12, <2>1 DEF ReceiveBlock, TypeOK
  <2> QED BY <1>1, <1>2, <1>12, <2>2 DEF ReceiveBlock, TypeOK, serverVars
<1>13. ASSUME NEW b \in Blocks, ReceiveNode(b) PROVE TypeOK'
  <2>1. Head(nodeChanges[b]) \in Edits /\ Tail(nodeChanges[b]) \in Seq(Edits)
    BY <1>13, QueueTypes DEF ReceiveNode, TypeOK
  <2>2. Head(nodeChanges[b]) \in 0 .. MaxEvents
    BY <2>1, <1>1 DEF Edits
  <2> QED BY <1>1, <1>2, <1>13, <2>1, <2>2 DEF ReceiveNode, TypeOK, serverVars
<1>14. ASSUME NEW b \in Blocks, Acknowledge(b) PROVE TypeOK'
  <2>1. Append(answers[b], "got") \in Seq({"got", "deleted"})
    BY QueueTypes DEF TypeOK
  <2>2. unacked[b] - 1 \in Nat
    BY <1>14 DEF Acknowledge, TypeOK
  <2> QED BY <1>1, <1>2, <1>14, <2>1, <2>2 DEF Acknowledge, TypeOK, serverVars
<1>15. ASSUME NEW b \in Blocks, SendBlock(b) PROVE TypeOK'
  <2>1. SendBlockNoLock({b}) /\ used' \in 0 .. MaxEvents
    BY <1>1, <1>15 DEF SendBlock, Event, TypeOK
  <2> QED BY <1>1, <1>2, <1>3, <1>15, <2>1 DEF SendBlock, TypeOK, serverVars, clientVars
<1>16. ASSUME NEW b \in Blocks, NEW whole \in BOOLEAN, Edit(b, whole) PROVE TypeOK'
  <2>1. used' \in 0 .. MaxEvents /\ Other \in 0 .. MaxEvents
    BY <1>1, <1>16 DEF Edit, Event, TypeOK, Other
  <2>2. Append(edits[b], IF whole THEN Other ELSE used') \in Seq(0 .. MaxEvents)
    BY <2>1, QueueTypes DEF TypeOK
  <2> QED BY <1>1, <1>2, <1>16, <2>1, <2>2 DEF Edit, TypeOK, channels, clientVars
<1>17. ASSUME NEW b \in Blocks, Unload(b) PROVE TypeOK'
  <2>1. Append(answers[b], "deleted") \in Seq({"got", "deleted"})
    BY QueueTypes DEF TypeOK
  <2>2. used' \in 0 .. MaxEvents
    BY <1>1, <1>17 DEF Unload, Event, TypeOK
  <2> QED BY <1>1, <1>2, <1>17, <2>1, <2>2 DEF Unload, TypeOK, serverVars
<1>18. ASSUME NEW b \in Blocks, Dig(b) PROVE TypeOK'
  <2>1. used' \in 0 .. MaxEvents /\ used' \in Edits
    BY <1>1, <1>18 DEF Dig, Event, TypeOK, Edits
  <2>2. Append(interacts[b], used') \in Seq(Edits)
    BY <2>1, QueueTypes DEF TypeOK
  <2> QED BY <1>1, <1>2, <1>18, <2>1, <2>2 DEF Dig, TypeOK, serverVars
<1>19. CASE UNCHANGED vars
    BY <1>19 DEF vars, serverVars, channels, clientVars, TypeOK
<1> QED BY <1>4, <1>5, <1>6, <1>7, <1>8, <1>9, <1>10, <1>11, <1>12, <1>13, <1>14,
           <1>15, <1>16, <1>17, <1>18, <1>19 DEF Next, BlockStep
-----------------------------------------------------------------------------
(***************************************************************************)
(* The inductive invariant.                                                *)
(***************************************************************************)
LastOf(s) == s[Len(s)]

\* What the client will have of b when all packets about it have arrived, if
\* they are on one channel.
FinalCopy(b) ==
    IF blockData[b] # <<>> THEN LastOf(blockData[b])
    ELSE IF nodeChanges[b] # <<>> THEN LastOf(nodeChanges[b])
    ELSE copy[b]

\* No edit of b, dig of b or deletion of b is still to be dealt with.
Settled(b) == edits[b] = <<>> /\ interacts[b] = <<>> /\ ~DeletionOnItsWay(b)

\* The parts of the invariant, for one block.
Arrives(b) ==
    b \in rc.sent \cup rc.sending =>
        copy[b] # Missing \/ blockData[b] # <<>> \/ DeletionOnItsWay(b)
Answered(b) ==
    b \in rc.sending =>
        blockData[b] # <<>> \/ unacked[b] > 0 \/ answers[b] # <<>>
OneChannel(b) ==
    b \notin crossed => blockData[b] = <<>> \/ nodeChanges[b] = <<>>
LastEdit(b) ==
    edits[b] # <<>> => LastOf(edits[b]) \in {Other, content[b]}
FinalIsCurrent(b) ==
    b \in (rc.sent \cup rc.sending) \ crossed /\ Settled(b) =>
        FinalCopy(b) = content[b]

BlockInv(b) ==
    Arrives(b) /\ Answered(b) /\ OneChannel(b) /\ LastEdit(b) /\ FinalIsCurrent(b)

Inv == TypeOK /\ \A b \in Blocks : BlockInv(b)

\* Inv implies the properties.
LEMMA InvImplies == Inv => TypeOK /\ SentReaches /\ CurrentUnlessCrossed
<1> SUFFICES ASSUME Inv PROVE SentReaches /\ CurrentUnlessCrossed
    BY DEF Inv
<1>1. rc.sent \subseteq Blocks /\ rc.sending \subseteq Blocks
    BY DEF Inv, TypeOK
<1>2. SentReaches
    BY <1>1 DEF Inv, BlockInv, Arrives, Answered, SentReaches
<1>3. CurrentUnlessCrossed
    BY <1>1 DEF Inv, BlockInv, FinalIsCurrent, CurrentUnlessCrossed, Quiet, Settled,
                FinalCopy
<1> QED BY <1>2, <1>3

\* It holds at the start, when nothing was sent.
LEMMA InitInv == Init => Inv
<1> SUFFICES ASSUME Init PROVE Inv
    OBVIOUS
<1> USE TransferAssumption
<1>1. TypeOK
    BY DEF Init, TypeOK, Missing
<1>2. rc.sent = {} /\ rc.sending = {}
    BY DEF Init
<1>3. ASSUME NEW b \in Blocks PROVE BlockInv(b)
  <2>1. edits[b] = <<>> /\ blockData[b] = <<>>
    BY DEF Init
  <2>2. b \notin rc.sent /\ b \notin rc.sending
    BY <1>2
  <2> QED BY <2>1, <2>2 DEF BlockInv, Arrives, Answered, OneChannel, LastEdit, FinalIsCurrent
<1> QED BY <1>1, <1>3 DEF Inv

\* The last element of a channel when one is sent ...
LEMMA AppendLast ==
    ASSUME NEW T, NEW s \in Seq(T), NEW x \in T
    PROVE  Append(s, x) # <<>> /\ LastOf(Append(s, x)) = x
<1>1. LastOf(Append(s, x)) = x
    BY DEF LastOf
<1> QED BY <1>1, QueueTypes

\* ... and when one is received, or some are sent.
LEMMA LastOfQueue ==
    ASSUME NEW T, NEW s \in Seq(T), NEW q \in Seq(T)
    PROVE  /\ s # <<>> => IF Tail(s) = <<>> THEN Head(s) = LastOf(s)
                          ELSE LastOf(Tail(s)) = LastOf(s)
           /\ q # <<>> => s \o q # <<>> /\ LastOf(s \o q) = LastOf(q)
<1>2. ASSUME s # <<>>
      PROVE  Len(Tail(s)) = Len(s) - 1 /\ Tail(s) \in Seq(T) /\ Len(s) \in Nat \ {0}
    BY <1>2
<1>3. ASSUME s # <<>>, Tail(s) # <<>> PROVE LastOf(Tail(s)) = LastOf(s)
  <2>1. Len(Tail(s)) >= 1
    BY <1>2, <1>3
  <2> QED BY <1>2, <1>3, <2>1 DEF LastOf
<1>4. ASSUME s # <<>>, Tail(s) = <<>> PROVE Head(s) = LastOf(s)
  <2>1. Len(Tail(s)) = 0
    BY <1>2, <1>4, EmptySeq
  <2>2. Len(s) = 1
    BY <1>2, <1>4, <2>1
  <2> QED BY <1>4, <2>2 DEF LastOf
<1>5. ASSUME q # <<>> PROVE s \o q # <<>> /\ LastOf(s \o q) = LastOf(q)
  <2>1. /\ Len(s) \in Nat /\ Len(q) \in Nat \ {0} /\ Len(s \o q) = Len(s) + Len(q)
    BY <1>5
  <2>2. (s \o q)[Len(s) + Len(q)] = q[Len(q)]
    BY <2>1
  <2>3. s \o q # <<>>
    BY <2>1
  <2> QED BY <2>1, <2>2, <2>3 DEF LastOf
<1> QED BY <1>3, <1>4, <1>5

\* A block nothing of which changes keeps its part of the invariant, also when
\* it is not sent any more.
Unchanged(b) ==
    /\ content'[b] = content[b] /\ edits'[b] = edits[b]
    /\ blockData'[b] = blockData[b] /\ nodeChanges'[b] = nodeChanges[b]
    /\ answers'[b] = answers[b] /\ interacts'[b] = interacts[b]
    /\ copy'[b] = copy[b] /\ unacked'[b] = unacked[b]
    /\ b \in crossed' <=> b \in crossed
    /\ b \in rc'.sent \cup rc'.sending => b \in rc.sent \cup rc.sending
    /\ b \in rc'.sending => b \in rc.sending

\* Such a block keeps its part of the invariant.
LEMMA UnchangedKeeps ==
    ASSUME NEW b \in Blocks, BlockInv(b), Unchanged(b)
    PROVE  BlockInv(b)'
BY DEF Unchanged, BlockInv, Arrives, Answered, OneChannel, LastEdit, FinalIsCurrent,
       Settled, FinalCopy, DeletionOnItsWay

\* The channels and the RemoteClient, as the leaves below need them.
LEMMA BlockTypes ==
    ASSUME Inv, NEW b \in Blocks
    PROVE  /\ BlockInv(b) /\ TypeOK
           /\ rc \in RemoteClients /\ rc.sent \cap rc.sending = {}
           /\ rc.sent \subseteq Blocks /\ rc.sending \subseteq Blocks
           /\ content \in [Blocks -> 0 .. MaxEvents] /\ content[b] \in 0 .. MaxEvents
           /\ edits \in [Blocks -> Seq(0 .. MaxEvents)]
           /\ edits[b] \in Seq(0 .. MaxEvents)
           /\ blockData \in [Blocks -> Seq(0 .. MaxEvents)]
           /\ blockData[b] \in Seq(0 .. MaxEvents)
           /\ nodeChanges \in [Blocks -> Seq(Edits)] /\ nodeChanges[b] \in Seq(Edits)
           /\ interacts \in [Blocks -> Seq(Edits)] /\ interacts[b] \in Seq(Edits)
           /\ answers \in [Blocks -> Seq({"got", "deleted"})]
           /\ answers[b] \in Seq({"got", "deleted"})
           /\ copy \in [Blocks -> {Missing} \cup 0 .. MaxEvents]
           /\ unacked \in [Blocks -> Nat] /\ unacked[b] \in Nat
           /\ Edits \subseteq 0 .. MaxEvents /\ MaxEvents \in Nat
<1>1. /\ TypeOK /\ BlockInv(b)
    BY DEF Inv
<1>2. MaxEvents \in Nat /\ Edits \subseteq 0 .. MaxEvents
    BY TransferAssumption DEF Edits
<1>3. rc \in RemoteClients /\ rc.sent \subseteq Blocks /\ rc.sending \subseteq Blocks
    BY <1>1 DEF TypeOK, RemoteClients
<1> QED BY <1>1, <1>2, <1>3 DEF TypeOK

\* A block that is neither sent nor on its way has only these parts to keep ...
LEMMA Forgotten ==
    ASSUME NEW b \in Blocks, (OneChannel(b) /\ LastEdit(b))',
           b \notin rc'.sent /\ b \notin rc'.sending
    PROVE  BlockInv(b)'
BY DEF BlockInv, Arrives, Answered, FinalIsCurrent

\* ... and one with a dig, an edit or a deletion still to be dealt with keeps the
\* invariant without FinalIsCurrent.
LEMMA Unsettled ==
    ASSUME NEW b \in Blocks,
           (Arrives(b) /\ Answered(b) /\ OneChannel(b) /\ LastEdit(b))',
           ~Settled(b)'
    PROVE  BlockInv(b)'
BY DEF BlockInv, FinalIsCurrent
-----------------------------------------------------------------------------
(***************************************************************************)
(* Each action keeps the invariant of a block.                             *)
(***************************************************************************)
\* GetNextBlocks and SendBlocks: what was sent is the present content.
LEMMA SendBlocksKeeps ==
    ASSUME Inv, NEW accepts \in SUBSET (Blocks \ generated), SendBlocks(accepts),
           NEW c \in Blocks
    PROVE  BlockInv(c)'
<1>1. TypeOK
    BY DEF Inv
<1>2. PICK out \in SUBSET Blocks :
        /\ out \cap (rc.sent \cup rc.sending) = {}
        /\ rc'.sending = rc.sending \cup out
        /\ SendBlockNoLock(out)
    BY <1>1, SendBlocksEffect
<1>3. /\ rc'.sent = rc.sent
      /\ UNCHANGED <<content, edits, nodeChanges, answers, interacts, copy, unacked>>
    BY <1>1, SendBlocksEffect
<1>4. CASE c \notin out
    BY <1>2, <1>3, <1>4, BlockTypes, UnchangedKeeps DEF Unchanged, SendBlockNoLock
<1>5. CASE c \in out
  <2>1. /\ blockData'[c] = Append(blockData[c], content[c])
        /\ c \in crossed' <=> nodeChanges[c] # <<>>
    BY <1>2, <1>5, BlockTypes DEF SendBlockNoLock
  <2>2. blockData'[c] # <<>> /\ LastOf(blockData'[c]) = content[c]
    <3>1. blockData[c] \in Seq(0 .. MaxEvents) /\ content[c] \in 0 .. MaxEvents
      BY BlockTypes
    <3>2. /\ Append(blockData[c], content[c]) # <<>>
          /\ LastOf(Append(blockData[c], content[c])) = content[c]
      BY <3>1, AppendLast
    <3> QED BY <2>1, <3>2
  <2>3. (Arrives(c) /\ Answered(c) /\ OneChannel(c) /\ LastEdit(c))'
    BY <1>3, <2>1, <2>2, BlockTypes DEF BlockInv, Arrives, Answered, OneChannel, LastEdit
  <2>4. FinalIsCurrent(c)'
    BY <1>3, <2>2 DEF FinalIsCurrent, FinalCopy
  <2> QED BY <2>3, <2>4 DEF BlockInv
<1> QED BY <1>4, <1>5

\* A block sent for a script, too, is the present content.
LEMMA SendBlockKeeps ==
    ASSUME Inv, NEW b \in Blocks, SendBlock(b), NEW c \in Blocks
    PROVE  BlockInv(c)'
<1>1. /\ SendBlockNoLock({b})
      /\ UNCHANGED <<content, edits, rc, nodeChanges, answers, interacts, copy, unacked>>
    BY DEF SendBlock, serverVars, clientVars
<1>2. CASE c # b
    BY <1>1, <1>2, BlockTypes, UnchangedKeeps DEF Unchanged, SendBlockNoLock
<1>3. CASE c = b
  <2>1. /\ blockData'[c] = Append(blockData[c], content[c])
        /\ c \in crossed' <=> nodeChanges[c] # <<>>
    BY <1>1, <1>3, BlockTypes DEF SendBlockNoLock
  <2>2. blockData'[c] # <<>> /\ LastOf(blockData'[c]) = content[c]
    <3>1. blockData[c] \in Seq(0 .. MaxEvents) /\ content[c] \in 0 .. MaxEvents
      BY BlockTypes
    <3>2. /\ Append(blockData[c], content[c]) # <<>>
          /\ LastOf(Append(blockData[c], content[c])) = content[c]
      BY <3>1, AppendLast
    <3> QED BY <2>1, <3>2
  <2>3. (Arrives(c) /\ Answered(c) /\ OneChannel(c) /\ LastEdit(c))'
    BY <1>1, <2>1, <2>2, BlockTypes DEF BlockInv, Arrives, Answered, OneChannel, LastEdit
  <2>4. FinalIsCurrent(c)'
    BY <1>1, <2>2 DEF FinalIsCurrent, FinalCopy
  <2> QED BY <2>3, <2>4 DEF BlockInv
<1> QED BY <1>2, <1>3

\* The map edits: a block is either not sent any more, or gets all of its
\* edits as single nodes, the last of which made the present content.
LEMMA SendEditsKeeps ==
    ASSUME Inv, SendEdits, NEW c \in Blocks
    PROVE  BlockInv(c)'
<1> DEFINE bs == {b \in Blocks : Len(Singles(b)) < Len(edits[b])}
<1>1. /\ edits'[c] = <<>> /\ nodeChanges'[c] = nodeChanges[c] \o Singles(c)
      /\ c \in crossed' <=> c \in crossed \/ (Singles(c) # <<>> /\ blockData[c] # <<>>)
      /\ UNCHANGED <<content, blockData, answers, interacts, copy, unacked>>
    BY DEF SendEdits, clientVars
<1>2. /\ rc'.sent = rc.sent \ bs /\ rc'.sending = rc.sending \ bs
  <2>1. rc' = IF bs = {} THEN rc ELSE SetBlocksNotSent(rc, bs)
    BY DEF SendEdits
  <2>2. /\ SetBlocksNotSent(rc, bs).sent = rc.sent \ bs
        /\ SetBlocksNotSent(rc, bs).sending = rc.sending \ bs
    <3> HIDE DEF bs
    <3>1. bs \in SUBSET Blocks
      BY DEF bs
    <3> QED BY <3>1, BlockTypes, NotSentOperation
  <2> HIDE DEF bs
  <2> QED BY <2>1, <2>2
<1>3. Singles(c) \in Seq(Edits)
    BY BlockTypes, SinglesType
<1>4. OneChannel(c)'
  <2> SUFFICES ASSUME c \notin crossed', blockData[c] # <<>> PROVE nodeChanges'[c] = <<>>
    BY <1>1 DEF OneChannel
  <2>1. nodeChanges[c] = <<>> /\ Singles(c) = <<>>
    BY <1>1, BlockTypes DEF BlockInv, OneChannel
  <2> QED BY <1>1, <2>1
<1>5. LastEdit(c)'
    BY <1>1 DEF LastEdit
<1>6. CASE c \in bs
    BY <1>2, <1>4, <1>5, <1>6, Forgotten
<1>7. CASE c \notin bs
  <2>1. Len(Singles(c)) = Len(edits[c])
    BY <1>7, BlockTypes, SinglesType, <1>3
  <2>2. Singles(c) = edits[c] /\ (edits[c] # <<>> => c \in rc.sent)
    BY <2>1, BlockTypes, SinglesType
  <2>3. Arrives(c)' /\ Answered(c)'
    BY <1>1, <1>2, <1>7, BlockTypes DEF BlockInv, Arrives, Answered, DeletionOnItsWay
  <2>4. CASE edits[c] = <<>>
    <3>1. nodeChanges'[c] = nodeChanges[c]
      BY <1>1, <2>2, <2>4, BlockTypes
    <3>2. Unchanged(c)
      BY <1>1, <1>2, <2>2, <2>4, <3>1 DEF Unchanged
    <3> QED BY <3>2, UnchangedKeeps, BlockTypes
  <2>5. CASE edits[c] # <<>>
    <3>1. nodeChanges'[c] # <<>> /\ LastOf(nodeChanges'[c]) = LastOf(edits[c])
      <4>1. nodeChanges'[c] = nodeChanges[c] \o Singles(c)
        BY <1>1
      <4>2. nodeChanges[c] \in Seq(Edits)
        BY BlockTypes
      <4>3. Singles(c) # <<>> =>
              /\ nodeChanges[c] \o Singles(c) # <<>>
              /\ LastOf(nodeChanges[c] \o Singles(c)) = LastOf(Singles(c))
        BY <1>3, <4>2, LastOfQueue
      <4> QED BY <4>1, <4>3, <2>2, <2>5
    <3>2. LastOf(edits[c]) = content[c]
      <4>1. LastOf(Singles(c)) \in Edits
        BY <1>3, <2>2, <2>5 DEF LastOf
      <4>2. Other \notin Edits
        BY BlockTypes DEF Edits, Other
      <4> QED BY <4>1, <4>2, <2>2, <2>5, BlockTypes DEF BlockInv, LastEdit
    <3>3. FinalIsCurrent(c)'
      <4> SUFFICES ASSUME c \notin crossed' PROVE FinalCopy(c)' = content'[c]
        BY DEF FinalIsCurrent
      <4>1. blockData'[c] = <<>>
        BY <1>1, <2>2, <2>5
      <4> QED BY <4>1, <3>1, <3>2, <1>1 DEF FinalCopy
    <3> QED BY <2>3, <1>4, <1>5, <3>3 DEF BlockInv
  <2> QED BY <2>4, <2>5
<1> QED BY <1>6, <1>7

\* An edit by an EmergeThread, by a script or by a dig is in the queue, and
\* the last one is the present content or concerns the whole block.
LEMMA EditsKeep ==
    ASSUME Inv, NEW b \in Blocks, NEW c \in Blocks,
           EmergeFinished(b) \/ (\E whole \in BOOLEAN : Edit(b, whole)) \/ AcceptDig(b)
    PROVE  BlockInv(c)'
<1> DEFINE Same == UNCHANGED <<blockData, nodeChanges, answers, copy, unacked, crossed>>
<1>1. \E e \in 0 .. MaxEvents :
        /\ edits' = [edits EXCEPT ![b] = Append(edits[b], e)]
        /\ e \in {Other, content'[b]}
  <2>1. CASE EmergeFinished(b)
    <3>1. Other \in 0 .. MaxEvents
      BY BlockTypes DEF Other
    <3> QED BY <2>1, <3>1 DEF EmergeFinished
  <2>2. ASSUME NEW whole \in BOOLEAN, Edit(b, whole)
        PROVE  \E e \in 0 .. MaxEvents :
                /\ edits' = [edits EXCEPT ![b] = Append(edits[b], e)]
                /\ e \in {Other, content'[b]}
    <3>1. Other \in 0 .. MaxEvents /\ used' \in 0 .. MaxEvents
      <4>1. TypeOK /\ MaxEvents \in Nat
        BY BlockTypes
      <4> QED BY <2>2, <4>1 DEF Other, Edit, Event, TypeOK
    <3>2. content'[b] = used'
      BY <2>2, BlockTypes DEF Edit
    <3> QED BY <2>2, <3>1, <3>2 DEF Edit
  <2>3. CASE AcceptDig(b)
    <3>1. Head(interacts[b]) \in 0 .. MaxEvents
      BY <2>3, BlockTypes, QueueTypes DEF AcceptDig
    <3>2. content'[b] = Head(interacts[b])
      BY <2>3, BlockTypes DEF AcceptDig
    <3> QED BY <2>3, <3>1, <3>2 DEF AcceptDig
  <2> QED BY <2>1, <2>2, <2>3
<1>2. /\ Same /\ \A d \in Blocks \ {b} : content'[d] = content[d] /\ interacts'[d] = interacts[d]
      /\ rc'.sent \subseteq rc.sent /\ rc'.sending \subseteq rc.sending
  <2>1. CASE EmergeFinished(b)
    BY <2>1 DEF EmergeFinished, channels, clientVars
  <2>2. ASSUME NEW whole \in BOOLEAN, Edit(b, whole)
        PROVE  /\ Same
               /\ \A d \in Blocks \ {b} : content'[d] = content[d] /\ interacts'[d] = interacts[d]
               /\ rc' = rc
    BY <2>2, BlockTypes DEF Edit, channels, clientVars
  <2>3. CASE AcceptDig(b)
    <3>1. /\ rc'.sending = rc.sending \ {b}
          /\ rc'.sent = rc.sent \ (IF b \in rc.sending THEN {b} ELSE {})
      BY <2>3, BlockTypes, ClientOperations DEF AcceptDig
    <3> QED BY <2>3, <3>1, BlockTypes DEF AcceptDig, clientVars
  <2> QED BY <2>1, <2>2, <2>3
<1> HIDE DEF Same
<1>3. CASE c # b
    BY <1>1, <1>2, <1>3, BlockTypes, UnchangedKeeps DEF Unchanged, Same
<1>4. CASE c = b
  <2>1. PICK e \in 0 .. MaxEvents :
          edits'[c] = Append(edits[c], e) /\ e \in {Other, content'[c]}
    BY <1>1, <1>4, BlockTypes
  <2>2. edits'[c] # <<>> /\ LastOf(edits'[c]) = e
    <3>1. edits[c] \in Seq(0 .. MaxEvents)
      BY BlockTypes
    <3>2. /\ Append(edits[c], e) # <<>>
          /\ LastOf(Append(edits[c], e)) = e
      BY <3>1, AppendLast
    <3> QED BY <2>1, <3>2
  <2>3. (Arrives(c) /\ Answered(c) /\ OneChannel(c))'
    BY <1>2, BlockTypes DEF BlockInv, Arrives, Answered, OneChannel, Same, DeletionOnItsWay
  <2> QED BY <2>1, <2>2, <2>3, Unsettled DEF LastEdit, Settled
<1> QED BY <1>3, <1>4

\* GOTBLOCKS leaves the union of sent and sending, DELETEDBLOCKS takes the
\* block out of both.
LEMMA ReceiveAnswerKeeps ==
    ASSUME Inv, NEW b \in Blocks, ReceiveAnswer(b), NEW c \in Blocks
    PROVE  BlockInv(c)'
<1>1. /\ answers[b] # <<>> /\ answers' = [answers EXCEPT ![b] = Tail(@)]
      /\ UNCHANGED <<content, edits, blockData, nodeChanges, interacts, copy, unacked,
                     crossed>>
    BY DEF ReceiveAnswer, serverVars, clientVars
<1>2. Head(answers[b]) \in {"got", "deleted"}
    BY <1>1, BlockTypes, QueueTypes
<1>3. CASE Head(answers[b]) = "deleted"
  <2>1. rc'.sent = rc.sent \ {b} /\ rc'.sending = rc.sending \ {b}
    <3>1. rc' = SetBlocksNotSent(rc, {b}) /\ {b} \in SUBSET Blocks
      BY <1>3 DEF ReceiveAnswer
    <3> QED BY <3>1, BlockTypes, NotSentOperation
  <2>2. CASE c # b
    BY <1>1, <2>1, <2>2, BlockTypes, UnchangedKeeps DEF Unchanged
  <2>3. CASE c = b
    <3>1. OneChannel(c)' /\ LastEdit(c)'
      BY <1>1, BlockTypes DEF BlockInv, OneChannel, LastEdit
    <3> QED BY <2>1, <2>3, <3>1, Forgotten
  <2> QED BY <2>2, <2>3
<1>4. CASE Head(answers[b]) = "got"
  <2>1. rc' = GotBlock(rc, b)
    BY <1>4 DEF ReceiveAnswer
  <2>2. /\ rc'.sent \cup rc'.sending = rc.sent \cup rc.sending
        /\ rc'.sending = rc.sending \ {b}
    <3>1. /\ b \in rc.sending => /\ GotBlock(rc, b).sent = rc.sent \cup {b}
                                 /\ GotBlock(rc, b).sending = rc.sending \ {b}
          /\ b \notin rc.sending => GotBlock(rc, b) = rc
      BY BlockTypes, ClientOperations
    <3>2. CASE b \in rc.sending
      BY <2>1, <3>1, <3>2
    <3>3. CASE b \notin rc.sending
      BY <2>1, <3>1, <3>3
    <3> QED BY <3>2, <3>3
  <2>3. CASE c # b
    BY <1>1, <2>2, <2>3, BlockTypes, UnchangedKeeps DEF Unchanged
  <2>4. CASE c = b
    <3>1. DeletionOnItsWay(c)' <=> DeletionOnItsWay(c)
      <4>1. answers[c] \in Seq({"got", "deleted"}) /\ answers'[c] = Tail(answers[c])
        BY <1>1, <2>4, BlockTypes
      <4>2. (\E i \in DOMAIN Tail(answers[c]) : Tail(answers[c])[i] = "deleted")
              <=> (\E i \in DOMAIN answers[c] : answers[c][i] = "deleted")
        BY <1>1, <1>4, <2>4, <4>1, Deletions
      <4> QED BY <4>1, <4>2 DEF DeletionOnItsWay
    <3>2. /\ c \in rc'.sent \cup rc'.sending <=> c \in rc.sent \cup rc.sending
          /\ c \notin rc'.sending
      BY <2>2, <2>4
    <3>3. (Arrives(c) /\ Answered(c) /\ OneChannel(c) /\ LastEdit(c))'
      BY <1>1, <3>1, <3>2, BlockTypes DEF BlockInv, Arrives, Answered, OneChannel, LastEdit
    <3>4. FinalIsCurrent(c)'
      BY <1>1, <3>1, <3>2, BlockTypes DEF BlockInv, FinalIsCurrent, FinalCopy, Settled
    <3> QED BY <3>3, <3>4 DEF BlockInv
  <2> QED BY <2>3, <2>4
<1> QED BY <1>2, <1>3, <1>4

\* A dig that is refused takes the block out of sent and sending.
LEMMA RefuseDigKeeps ==
    ASSUME Inv, NEW b \in Blocks, RefuseDig(b), NEW c \in Blocks
    PROVE  BlockInv(c)'
<1>1. /\ interacts' = [interacts EXCEPT ![b] = Tail(@)]
      /\ UNCHANGED <<content, edits, blockData, nodeChanges, answers, copy, unacked,
                     crossed>>
    BY DEF RefuseDig, serverVars, clientVars
<1>2. rc'.sent = rc.sent \ {b} /\ rc'.sending = rc.sending \ {b}
  <2>1. rc' = SetBlocksNotSent(rc, {b}) /\ {b} \in SUBSET Blocks
    BY DEF RefuseDig
  <2> QED BY <2>1, BlockTypes, NotSentOperation
<1>3. CASE c # b
    BY <1>1, <1>2, <1>3, BlockTypes, UnchangedKeeps DEF Unchanged
<1>4. CASE c = b
  <2>1. OneChannel(c)' /\ LastEdit(c)'
    BY <1>1, BlockTypes DEF BlockInv, OneChannel, LastEdit
  <2> QED BY <1>2, <1>4, <2>1, Forgotten
<1> QED BY <1>3, <1>4

\* What the client takes from a channel is what FinalCopy already counted on.
LEMMA ReceiveBlockKeeps ==
    ASSUME Inv, NEW b \in Blocks, ReceiveBlock(b), NEW c \in Blocks
    PROVE  BlockInv(c)'
<1>1. /\ blockData[b] # <<>> /\ blockData' = [blockData EXCEPT ![b] = Tail(@)]
      /\ copy' = [copy EXCEPT ![b] = Head(blockData[b])]
      /\ unacked' = [unacked EXCEPT ![b] = @ + 1]
      /\ UNCHANGED <<content, edits, rc, nodeChanges, answers, interacts, crossed>>
    BY DEF ReceiveBlock, serverVars
<1>2. CASE c # b
    BY <1>1, <1>2, BlockTypes, UnchangedKeeps DEF Unchanged
<1>3. CASE c = b
  <2>1. /\ blockData[c] \in Seq(0 .. MaxEvents) /\ unacked'[c] > 0
        /\ blockData'[c] = Tail(blockData[c]) /\ copy'[c] = Head(blockData[c])
    BY <1>1, <1>3, BlockTypes
  <2>2. copy'[c] # Missing
    <3>1. Head(blockData[c]) \in 0 .. MaxEvents
      <4>1. blockData[c] # <<>>
        BY <1>1, <1>3
      <4>2. blockData[c] \in Seq(0 .. MaxEvents) /\ 0 \in 0 .. MaxEvents
        BY BlockTypes
      <4> QED BY <4>1, <4>2, QueueTypes
    <3> QED BY <2>1, <3>1, BlockTypes DEF Missing
  <2>3. IF blockData'[c] = <<>> THEN copy'[c] = LastOf(blockData[c])
        ELSE LastOf(blockData'[c]) = LastOf(blockData[c])
    BY <1>1, <1>3, <2>1, LastOfQueue
  <2>4. (Arrives(c) /\ Answered(c) /\ OneChannel(c) /\ LastEdit(c))'
    BY <1>1, <1>3, <2>1, <2>2, BlockTypes DEF BlockInv, Arrives, Answered, OneChannel, LastEdit
  <2>5. c \notin crossed => FinalCopy(c)' = FinalCopy(c)
    BY <1>1, <1>3, <2>3, BlockTypes DEF BlockInv, OneChannel, FinalCopy
  <2>6. FinalIsCurrent(c)'
    BY <1>1, <2>5, BlockTypes DEF BlockInv, FinalIsCurrent, Settled, DeletionOnItsWay
  <2> QED BY <2>4, <2>6 DEF BlockInv
<1> QED BY <1>2, <1>3

\* So is a single node, as the client has the block unless a packet on the
\* other channel is on its way.
LEMMA ReceiveNodeKeeps ==
    ASSUME Inv, NEW b \in Blocks, ReceiveNode(b), NEW c \in Blocks
    PROVE  BlockInv(c)'
<1>1. /\ nodeChanges[b] # <<>> /\ nodeChanges' = [nodeChanges EXCEPT ![b] = Tail(@)]
      /\ copy' = [copy EXCEPT ![b] = IF copy[b] = Missing THEN copy[b]
                                     ELSE Head(nodeChanges[b])]
      /\ UNCHANGED <<content, edits, rc, blockData, answers, interacts, unacked, crossed>>
    BY DEF ReceiveNode, serverVars
<1>2. CASE c # b
    BY <1>1, <1>2, BlockTypes, UnchangedKeeps DEF Unchanged
<1>3. CASE c = b
  <2>1. /\ nodeChanges[c] \in Seq(Edits) /\ nodeChanges'[c] = Tail(nodeChanges[c])
        /\ copy'[c] = IF copy[c] = Missing THEN Missing ELSE Head(nodeChanges[c])
    BY <1>1, <1>3, BlockTypes
  <2>2. Head(nodeChanges[c]) # Missing
    <3>1. Head(nodeChanges[c]) \in Edits
      BY <1>1, <1>3, <2>1, QueueTypes
    <3> QED BY <3>1, BlockTypes DEF Missing
  <2>3. IF nodeChanges'[c] = <<>> THEN Head(nodeChanges[c]) = LastOf(nodeChanges[c])
        ELSE LastOf(nodeChanges'[c]) = LastOf(nodeChanges[c])
    BY <1>1, <1>3, <2>1, LastOfQueue
  <2>4. (Arrives(c) /\ Answered(c) /\ OneChannel(c) /\ LastEdit(c))'
    BY <1>1, <1>3, <2>1, <2>2, BlockTypes DEF BlockInv, Arrives, Answered, OneChannel, LastEdit,
       DeletionOnItsWay
  <2>5. FinalIsCurrent(c)'
    <3> SUFFICES ASSUME c \in (rc.sent \cup rc.sending) \ crossed, Settled(c)
                 PROVE  FinalCopy(c)' = content[c]
      BY <1>1 DEF FinalIsCurrent, Settled, DeletionOnItsWay
    <3>1. blockData[c] = <<>> /\ ~DeletionOnItsWay(c)
      BY <1>1, <1>3, BlockTypes DEF BlockInv, OneChannel, Settled
    <3>2. copy[c] # Missing
      BY <3>1, BlockTypes DEF BlockInv, Arrives
    <3>3. FinalCopy(c) = content[c] /\ FinalCopy(c) = LastOf(nodeChanges[c])
      BY <1>1, <1>3, <3>1, BlockTypes DEF BlockInv, FinalIsCurrent, FinalCopy
    <3> QED BY <1>1, <2>1, <2>3, <3>1, <3>2, <3>3 DEF FinalCopy
  <2> QED BY <2>4, <2>5 DEF BlockInv
<1> QED BY <1>2, <1>3

\* A confirmation says nothing of what the client has.
LEMMA AcknowledgeKeeps ==
    ASSUME Inv, NEW b \in Blocks, Acknowledge(b), NEW c \in Blocks
    PROVE  BlockInv(c)'
<1>1. /\ answers' = [answers EXCEPT ![b] = Append(@, "got")]
      /\ unacked' = [unacked EXCEPT ![b] = @ - 1]
      /\ UNCHANGED <<content, edits, rc, blockData, nodeChanges, interacts, copy, crossed>>
    BY DEF Acknowledge, serverVars
<1>2. CASE c # b
    BY <1>1, <1>2, BlockTypes, UnchangedKeeps DEF Unchanged
<1>3. CASE c = b
  <2>1. answers[c] \in Seq({"got", "deleted"}) /\ answers'[c] = Append(answers[c], "got")
    BY <1>1, <1>3, BlockTypes
  <2>2. answers'[c] # <<>>
    BY <2>1, QueueTypes
  <2>3. DeletionOnItsWay(c)' <=> DeletionOnItsWay(c)
    <3>1. (\E i \in DOMAIN Append(answers[c], "got") :
              Append(answers[c], "got")[i] = "deleted")
            <=> (\E i \in DOMAIN answers[c] : answers[c][i] = "deleted")
      BY <2>1, Deletions
    <3> QED BY <2>1, <3>1 DEF DeletionOnItsWay
  <2>4. (Arrives(c) /\ Answered(c) /\ OneChannel(c) /\ LastEdit(c))'
    BY <1>1, <2>2, <2>3, BlockTypes DEF BlockInv, Arrives, Answered, OneChannel, LastEdit
  <2>5. FinalIsCurrent(c)'
    BY <1>1, <2>3, BlockTypes DEF BlockInv, FinalIsCurrent, FinalCopy, Settled
  <2> QED BY <2>4, <2>5 DEF BlockInv
<1> QED BY <1>2, <1>3

\* An unloaded block is announced.
LEMMA UnloadKeeps ==
    ASSUME Inv, NEW b \in Blocks, Unload(b), NEW c \in Blocks
    PROVE  BlockInv(c)'
<1>1. /\ answers' = [answers EXCEPT ![b] = Append(@, "deleted")]
      /\ copy' = [copy EXCEPT ![b] = Missing]
      /\ UNCHANGED <<content, edits, rc, blockData, nodeChanges, interacts, unacked, crossed>>
    BY DEF Unload, serverVars
<1>2. CASE c # b
    BY <1>1, <1>2, BlockTypes, UnchangedKeeps DEF Unchanged
<1>3. CASE c = b
  <2>1. answers[c] \in Seq({"got", "deleted"}) /\ answers'[c] = Append(answers[c], "deleted")
    BY <1>1, <1>3, BlockTypes
  <2>2. answers'[c] # <<>>
    BY <2>1, QueueTypes
  <2>3. DeletionOnItsWay(c)'
    <3>1. \E i \in DOMAIN Append(answers[c], "deleted") :
              Append(answers[c], "deleted")[i] = "deleted"
      BY <2>1, Deletions
    <3> QED BY <2>1, <3>1 DEF DeletionOnItsWay
  <2>4. (Arrives(c) /\ Answered(c) /\ OneChannel(c) /\ LastEdit(c))'
    BY <1>1, <2>2, <2>3, BlockTypes DEF BlockInv, Arrives, Answered, OneChannel, LastEdit
  <2> QED BY <2>3, <2>4, Unsettled DEF Settled
<1> QED BY <1>2, <1>3

\* A predicted dig is asked for.
LEMMA DigKeeps ==
    ASSUME Inv, NEW b \in Blocks, Dig(b), NEW c \in Blocks
    PROVE  BlockInv(c)'
<1>1. /\ copy' = [copy EXCEPT ![b] = used']
      /\ interacts' = [interacts EXCEPT ![b] = Append(@, used')]
      /\ UNCHANGED <<content, edits, rc, blockData, nodeChanges, answers, unacked, crossed>>
    BY DEF Dig, serverVars
<1>2. CASE c # b
    BY <1>1, <1>2, BlockTypes, UnchangedKeeps DEF Unchanged
<1>3. CASE c = b
  <2>1. used' \in Edits
    <3>1. used \in Nat /\ used < MaxEvents /\ used' = used + 1 /\ MaxEvents \in Nat
      BY BlockTypes DEF Dig, Event, TypeOK
    <3> QED BY <3>1 DEF Edits
  <2>2. used' # Missing /\ copy'[c] = used'
    BY <1>1, <1>3, <2>1, BlockTypes DEF Edits, Missing
  <2>3. interacts'[c] # <<>>
    <3>1. interacts[c] \in Seq(Edits) /\ interacts'[c] = Append(interacts[c], used')
      BY <1>1, <1>3, BlockTypes
    <3> QED BY <2>1, <3>1, QueueTypes
  <2>4. (Arrives(c) /\ Answered(c) /\ OneChannel(c) /\ LastEdit(c))'
    BY <1>1, <2>2, BlockTypes DEF BlockInv, Arrives, Answered, OneChannel, LastEdit
  <2> QED BY <2>3, <2>4, Unsettled DEF Settled
<1> QED BY <1>2, <1>3
-----------------------------------------------------------------------------
(***************************************************************************)
(* The theorems.                                                           *)
(***************************************************************************)
\* Every step keeps the invariant.
LEMMA InvStep ==
    ASSUME Inv, [Next]_vars
    PROVE  Inv'
<1>1. TypeOK'
    BY TypeStep DEF Inv
<1>2. ASSUME NEW c \in Blocks PROVE BlockInv(c)'
  <2>1. BlockInv(c)
    BY DEF Inv
  <2>2. CASE PauseEnds \/ Turn \/ UNCHANGED vars
    <3>1. /\ UNCHANGED <<content, edits, channels, clientVars, crossed>>
          /\ rc'.sent = rc.sent /\ rc'.sending = rc.sending
      BY <2>2, BlockTypes DEF PauseEnds, Turn, vars, serverVars, RemoteClients
    <3> QED BY <2>1, <3>1, UnchangedKeeps DEF Unchanged, channels, clientVars
  <2>3. CASE \E accepts \in SUBSET (Blocks \ generated) : SendBlocks(accepts)
    BY <2>3, SendBlocksKeeps
  <2>4. CASE SendEdits
    BY <2>4, SendEditsKeeps
  <2>5. ASSUME NEW b \in Blocks,
               \/ BlockStep(b) \/ SendBlock(b)
               \/ \E whole \in BOOLEAN : Edit(b, whole)
               \/ Unload(b) \/ Dig(b)
        PROVE  BlockInv(c)'
    BY <2>5, SendBlockKeeps, EditsKeep, ReceiveAnswerKeeps, RefuseDigKeeps,
       ReceiveBlockKeeps, ReceiveNodeKeeps, AcknowledgeKeeps, UnloadKeeps, DigKeeps
       DEF BlockStep
  <2> QED BY <2>2, <2>3, <2>4, <2>5 DEF Next
<1> QED BY <1>1, <1>2 DEF Inv

\* Inv is an invariant of the specification.
LEMMA Invariance == Spec => []Inv
<1>1. Inv /\ [Next]_vars => Inv'
    BY InvStep
<1> QED BY <1>1, InitInv, PTL DEF Spec

\* The types of the state, for any number of blocks and of edits.
THEOREM TypeCorrect == Spec => []TypeOK
BY Invariance, InvImplies, PTL

\* No block is lost on its way to the client: one marked as sent or sending
\* is there, on its way, or announced as unloaded, however blocks, edits,
\* confirmations and deletions interleave.
THEOREM NoBlockLost == Spec => []SentReaches
BY Invariance, InvImplies, PTL

\* What the server takes for sent is what the client has, once nothing is on
\* its way, unless packets about the block crossed on the two channels.
THEOREM SentIsCurrentTheorem == Spec => []CurrentUnlessCrossed
BY Invariance, InvImplies, PTL
=============================================================================
