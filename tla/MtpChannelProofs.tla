-------------------------- MODULE MtpChannelProofs --------------------------
(***************************************************************************)
(* Proofs about SeqNum, ReliableBuffer and MtpChannel, for every width of  *)
(* the sequence numbers, any messages and any windows.  The numbers are    *)
(* told apart and sorted as long as what they belong to fits MaxWindow,    *)
(* wherever they wrap; and as long as the windows and the queue leave room *)
(* for that, the channel forgets nothing, acknowledges only what it holds, *)
(* and delivers every message once and in order.                           *)
(***************************************************************************)
EXTENDS MtpChannel, FiniteSetTheorems, SequenceTheorems, WellFoundedInduction, TLAPS

(***************************************************************************)
(* The numbers.                                                            *)
(***************************************************************************)

\* How a remainder moves: d places further it has grown by d, or wrapped once.
LEMMA ModShift ==
    ASSUME NEW a \in Int, NEW S \in Nat \ {0}, NEW d \in 0 .. S - 1
    PROVE  /\ a % S \in 0 .. S - 1
           /\ (a + d) % S = IF (a % S) + d < S THEN (a % S) + d ELSE (a % S) + d - S
<1> DEFINE q == a \div S
           p == (a + d) \div S
           x == a % S
           y == (a + d) % S
<1>1. /\ p \in Int /\ q \in Int /\ a = S * q + x /\ a + d = S * p + y
      /\ x \in 0 .. S - 1 /\ y \in 0 .. S - 1
  OBVIOUS
<1> HIDE DEF p, q, x, y
<1>2. S * (p - q) = x + d - y
  <2>1. S * (p - q) = S * p - S * q
    BY <1>1
  <2>2. S * p \in Int /\ S * q \in Int
    BY <1>1
  <2>3. QED
    BY <1>1, <2>1, <2>2
<1>3. p - q < 2
  <2>1. p - q >= 2 => S * (p - q) >= 2 * S
    BY <1>1
  <2>2. QED
    BY <1>1, <1>2, <2>1
<1>4. p - q > -1
  <2>1. p - q <= -1 => S * (p - q) <= - S
    BY <1>1
  <2>2. QED
    BY <1>1, <1>2, <2>1
<1>5. CASE p - q = 0
  BY <1>1, <1>2, <1>5 DEF x, y
<1>6. CASE p - q = 1
  BY <1>1, <1>2, <1>6 DEF x, y
<1>7. QED
  BY <1>1, <1>3, <1>4, <1>5, <1>6

\* SEQNUM_MAX / 2 is one less than the largest window.
LEMMA HalfIsWindow == HalfMax = MaxWindow - 1
BY SeqAssumption DEF HalfMax

\* The number of a place d further on.
LEMMA SeqNumShift ==
    ASSUME NEW n \in Int, NEW d \in 0 .. SeqSpace - 1
    PROVE  /\ SeqNumOf(n) \in SeqNums
           /\ SeqNumOf(n + d) = IF SeqNumOf(n) + d < SeqSpace
                                THEN SeqNumOf(n) + d ELSE SeqNumOf(n) + d - SeqSpace
<1>1. SeqSpace \in Nat \ {0} /\ SeqInit \in Int
  BY SeqAssumption
<1>2. SeqInit + (n + d) = (SeqInit + n) + d /\ SeqInit + n \in Int
  BY <1>1
<1>3. /\ (SeqInit + n) % SeqSpace \in 0 .. SeqSpace - 1
      /\ ((SeqInit + n) + d) % SeqSpace =
            IF ((SeqInit + n) % SeqSpace) + d < SeqSpace
            THEN ((SeqInit + n) % SeqSpace) + d ELSE ((SeqInit + n) % SeqSpace) + d - SeqSpace
  BY <1>1, <1>2, ModShift, Zenon
<1>4. QED
  BY <1>2, <1>3, Zenon DEF SeqNumOf, SeqNums

\* The window of MaxWindow numbers that starts at x.
LEMMA WindowOf ==
    ASSUME NEW x \in SeqNums, NEW s \in SeqNums
    PROVE  seqnum_in_window(s, x, MaxWindow) <=>
               IF x < MaxWindow THEN x <= s /\ s < x + MaxWindow
                                ELSE s < x - MaxWindow \/ x <= s
<1>1. /\ SeqSpace \in Nat \ {0} /\ MaxWindow \in 1 .. SeqSpace - 1
      /\ SeqSpace = 2 * MaxWindow /\ x \in 0 .. SeqSpace - 1 /\ s \in 0 .. SeqSpace - 1
  BY SeqAssumption DEF SeqNums
<1>2. x % SeqSpace = x
  BY <1>1
<1>3. (x + MaxWindow) % SeqSpace =
        IF x + MaxWindow < SeqSpace THEN x + MaxWindow ELSE x + MaxWindow - SeqSpace
  <2>1. x \in Int /\ MaxWindow \in 0 .. SeqSpace - 1
    BY <1>1
  <2>2. (x + MaxWindow) % SeqSpace =
            IF (x % SeqSpace) + MaxWindow < SeqSpace
            THEN (x % SeqSpace) + MaxWindow ELSE (x % SeqSpace) + MaxWindow - SeqSpace
    BY <1>1, <2>1, ModShift, Zenon
  <2>3. QED
    BY <1>2, <2>2, Zenon
<1>4. QED
  BY <1>1, <1>3 DEF seqnum_in_window

\* The verdict of handlePacketType_Reliable on the packet at place n, when
\* the packet at place m is expected, by their distance.
THEOREM VerdictByDistance == \A n, m \in Int : ClassifiedByDistance(n, m)
<1> SUFFICES ASSUME NEW n \in Int, NEW m \in Int
             PROVE  ClassifiedByDistance(n, m)
  OBVIOUS
<1>0. SeqSpace = 2 * MaxWindow /\ MaxWindow \in Nat \ {0} /\ SeqSpace \in Nat \ {0}
  BY SeqAssumption
<1> DEFINE s == SeqNumOf(n)
           x == SeqNumOf(m)
<1>1. s \in 0 .. SeqSpace - 1 /\ x \in 0 .. SeqSpace - 1
  <2>1. 0 \in 0 .. SeqSpace - 1
    BY <1>0
  <2>2. QED
    BY <2>1, SeqNumShift, Zenon DEF SeqNums
<1>2. ASSUME n - m \in 0 .. MaxWindow
      PROVE  s = IF x + (n - m) < SeqSpace THEN x + (n - m) ELSE x + (n - m) - SeqSpace
  <2>1. n = m + (n - m) /\ n - m \in 0 .. SeqSpace - 1
    BY <1>0, <1>2
  <2>2. QED
    BY <2>1, SeqNumShift
<1>3. ASSUME m - n \in 0 .. MaxWindow
      PROVE  x = IF s + (m - n) < SeqSpace THEN s + (m - n) ELSE s + (m - n) - SeqSpace
  <2>1. m = n + (m - n) /\ m - n \in 0 .. SeqSpace - 1
    BY <1>0, <1>3
  <2>2. QED
    BY <2>1, SeqNumShift
<1>4. seqnum_in_window(s, x, MaxWindow) <=>
          IF x < MaxWindow THEN x <= s /\ s < x + MaxWindow ELSE s < x - MaxWindow \/ x <= s
  BY <1>1, WindowOf DEF SeqNums
<1>5. /\ seqnum_higher(s, x) <=> IF s > x THEN s - x <= MaxWindow - 1 ELSE x - s > MaxWindow - 1
      /\ seqnum_higher(x, s) <=> IF x > s THEN x - s <= MaxWindow - 1 ELSE s - x > MaxWindow - 1
  BY HalfIsWindow DEF seqnum_higher
<1>6. Classify(s, x) = IF seqnum_in_window(s, x, MaxWindow) THEN "window"
                       ELSE IF seqnum_higher(s, x) THEN "future"
                       ELSE IF seqnum_higher(x, s) THEN "old" ELSE "window"
  BY DEF Classify
<1> HIDE DEF s, x
<1>7. n - m \in 0 .. MaxWindow - 1 => Classify(s, x) = "window"
  BY <1>0, <1>1, <1>2, <1>4, <1>6
<1>8. m - n \in 1 .. MaxWindow - 1 => Classify(s, x) = "old"
  BY <1>0, <1>1, <1>3, <1>4, <1>5, <1>6
<1>9. n - m = MaxWindow => Classify(s, x) \in {"old", "future"}
  BY <1>0, <1>1, <1>2, <1>4, <1>5, <1>6
<1>10. m - n = MaxWindow => Classify(s, x) \in {"old", "future"}
  BY <1>0, <1>1, <1>3, <1>4, <1>5, <1>6
<1>11. QED
  BY <1>0, <1>7, <1>8, <1>9, <1>10 DEF ClassifiedByDistance, s, x

\* Two places less than SeqSpace apart have different numbers.
LEMMA SameNumber ==
    ASSUME NEW a \in Int, NEW b \in Int, a - b \in 1 - SeqSpace .. SeqSpace - 1
    PROVE  SeqNumOf(a) = SeqNumOf(b) <=> a = b
<1>0. SeqSpace \in Nat \ {0}
  BY SeqAssumption
<1>1. ASSUME NEW c \in Int, NEW e \in Int, c - e \in 1 .. SeqSpace - 1
      PROVE  SeqNumOf(c) # SeqNumOf(e)
  <2>1. c = e + (c - e) /\ c - e \in 0 .. SeqSpace - 1
    BY <1>0, <1>1
  <2>2. /\ SeqNumOf(e) \in 0 .. SeqSpace - 1
        /\ SeqNumOf(c) = IF SeqNumOf(e) + (c - e) < SeqSpace
                         THEN SeqNumOf(e) + (c - e) ELSE SeqNumOf(e) + (c - e) - SeqSpace
    BY <2>1, SeqNumShift DEF SeqNums
  <2> QED BY <1>0, <1>1, <2>2
<1>2. CASE a = b
  BY <1>2
<1>3. CASE a - b \in 1 .. SeqSpace - 1
  BY <1>0, <1>1, <1>3
<1>4. CASE b - a \in 1 .. SeqSpace - 1
  BY <1>0, <1>1, <1>4
<1> QED BY <1>0, <1>2, <1>3, <1>4

\* Where the numbers at the end of the span of a sender begin.
LEMMA SpanStart ==
    ASSUME NEW n \in Int
    PROVE  (SeqNumOf(n) - MaxWindow) % SeqSpace = SeqNumOf(n - MaxWindow)
<1>0. /\ SeqSpace \in Nat \ {0} /\ MaxWindow \in Nat /\ MaxWindow \in 0 .. SeqSpace - 1
      /\ SeqSpace = 2 * MaxWindow
  BY SeqAssumption
<1> DEFINE x == SeqNumOf(n - MaxWindow)
           y == SeqNumOf(n)
<1>1. n = (n - MaxWindow) + MaxWindow /\ n - MaxWindow \in Int
  BY <1>0
<1>2. /\ x \in 0 .. SeqSpace - 1
      /\ y = IF x + MaxWindow < SeqSpace THEN x + MaxWindow ELSE x + MaxWindow - SeqSpace
  BY <1>0, <1>1, SeqNumShift DEF SeqNums
<1> HIDE DEF x, y
<1>3. y - MaxWindow = x \/ y - MaxWindow = x - SeqSpace
  BY <1>0, <1>2
<1>4. x % SeqSpace = x
  BY <1>0, <1>2
<1>5. (x - SeqSpace) % SeqSpace = x
  <2>1. /\ (x - SeqSpace) % SeqSpace \in 0 .. SeqSpace - 1
        /\ ((x - SeqSpace) + 0) % SeqSpace = (x - SeqSpace) % SeqSpace
    BY <1>0, <1>2
  <2> DEFINE q == (x - SeqSpace) \div SeqSpace
             r == (x - SeqSpace) % SeqSpace
  <2>2. q \in Int /\ x - SeqSpace = SeqSpace * q + r /\ r \in 0 .. SeqSpace - 1
    BY <1>0, <1>2
  <2> HIDE DEF q, r
  <2>3. SeqSpace * (q + 1) = x - r
    <3>1. SeqSpace * (q + 1) = SeqSpace * q + SeqSpace
      BY <1>0, <2>2
    <3> QED BY <1>0, <1>2, <2>2, <3>1
  <2>4. q + 1 < 1
    <3>1. q + 1 >= 1 => SeqSpace * (q + 1) >= SeqSpace
      BY <1>0, <2>2
    <3> QED BY <1>0, <1>2, <2>2, <2>3, <3>1
  <2>5. q + 1 > -1
    <3>1. q + 1 <= -1 => SeqSpace * (q + 1) <= - SeqSpace
      BY <1>0, <2>2
    <3> QED BY <1>0, <1>2, <2>2, <2>3, <3>1
  <2>6. q + 1 = 0
    BY <2>2, <2>4, <2>5
  <2>7. x = r
    BY <1>0, <1>2, <2>2, <2>3, <2>6
  <2> QED BY <2>7 DEF r
<1> QED BY <1>3, <1>4, <1>5 DEF x, y
-----------------------------------------------------------------------------
(***************************************************************************)
(* The lists of packets.  The circular order that starts at next_expected  *)
(* is the order of the places, for packets in MaxWindow places from there. *)
(***************************************************************************)

LEMMA OrderOfPlaces ==
    ASSUME NEW base \in Int, NEW m \in Int, NEW n \in Int,
           m - base \in 0 .. SeqSpace - 1, n - base \in 0 .. SeqSpace - 1
    PROVE  Precedes(SeqNumOf(m), SeqNumOf(n), SeqNumOf(base)) <=> m < n
<1>0. SeqSpace \in Nat \ {0}
  BY SeqAssumption
<1> DEFINE x == SeqNumOf(base)
<1>1. x \in 0 .. SeqSpace - 1
  BY <1>0, SeqNumShift DEF SeqNums
<1>2. ASSUME NEW c \in Int, c - base \in 0 .. SeqSpace - 1
      PROVE  SeqNumOf(c) = IF x + (c - base) < SeqSpace THEN x + (c - base)
                                                        ELSE x + (c - base) - SeqSpace
  <2>1. c = base + (c - base)
    BY <1>2
  <2> QED BY <1>2, <2>1, SeqNumShift
<1> HIDE DEF x
<1> QED BY <1>0, <1>1, <1>2 DEF Precedes, x

LEMMA AcceptsNear ==
    ASSUME NEW base \in Int, NEW n \in Int, n - base \in 1 .. MaxWindow - 1
    PROVE  Accepts(SeqNumOf(n), SeqNumOf(base))
<1>0. SeqSpace \in Nat \ {0} /\ SeqSpace = 2 * MaxWindow /\ MaxWindow \in Nat
  BY SeqAssumption
<1> DEFINE x == SeqNumOf(base)
           s == SeqNumOf(n)
<1>1. x \in 0 .. SeqSpace - 1 /\ s \in 0 .. SeqSpace - 1
  <2>1. 0 \in 0 .. SeqSpace - 1
    BY <1>0
  <2> QED BY <2>1, SeqNumShift DEF SeqNums
<1>2. s = IF x + (n - base) < SeqSpace THEN x + (n - base) ELSE x + (n - base) - SeqSpace
  <2>1. n = base + (n - base) /\ n - base \in 0 .. SeqSpace - 1
    BY <1>0
  <2> QED BY <2>1, SeqNumShift
<1>3. seqnum_in_window(s, x, MaxWindow) <=>
          IF x < MaxWindow THEN x <= s /\ s < x + MaxWindow ELSE s < x - MaxWindow \/ x <= s
  BY <1>1, WindowOf DEF SeqNums
<1> HIDE DEF x, s
<1> QED BY <1>0, <1>1, <1>2, <1>3 DEF Accepts, x, s

LEMMA ElementsOf ==
    ASSUME NEW E, NEW s \in Seq(E)
    PROVE  /\ Len(s) \in Nat /\ DOMAIN s = 1 .. Len(s)
           /\ \A i \in 1 .. Len(s) : s[i] \in E
           /\ s # <<>> => Len(s) > 0 /\ Head(s) = s[1]
OBVIOUS

\* Two lists, one after the other.
LEMMA ConcatElements ==
    ASSUME NEW E, NEW u \in Seq(E), NEW v \in Seq(E)
    PROVE  /\ u \o v \in Seq(E) /\ Len(u \o v) = Len(u) + Len(v)
           /\ DOMAIN (u \o v) = 1 .. Len(u) + Len(v)
           /\ \A i \in 1 .. Len(u) + Len(v) :
                 (u \o v)[i] = IF i <= Len(u) THEN u[i] ELSE v[i - Len(u)]
BY ConcatProperties

\* A part of a list.
LEMMA PartOf ==
    ASSUME NEW E, NEW s \in Seq(E), NEW a \in 1 .. Len(s) + 1, NEW b \in 0 .. Len(s), a <= b + 1
    PROVE  /\ SubSeq(s, a, b) \in Seq(E) /\ Len(SubSeq(s, a, b)) = b + 1 - a
           /\ \A i \in 1 .. b + 1 - a : SubSeq(s, a, b)[i] = s[a + i - 1]
<1>1. Len(s) \in Nat /\ \A i \in 1 .. Len(s) : s[i] \in E
  BY ElementsOf
<1> QED BY <1>1

LEMMA InsertAtElements ==
    ASSUME NEW E, NEW s \in Seq(E), NEW e \in E, NEW p \in 1 .. Len(s) + 1
    PROVE  /\ InsertAt(s, p, e) \in Seq(E) /\ Len(InsertAt(s, p, e)) = Len(s) + 1
           /\ DOMAIN InsertAt(s, p, e) = 1 .. Len(s) + 1
           /\ \A i \in 1 .. Len(s) + 1 :
                 InsertAt(s, p, e)[i] = IF i < p THEN s[i] ELSE IF i = p THEN e ELSE s[i - 1]
<1> DEFINE u == SubSeq(s, 1, p - 1)
           v == SubSeq(s, p, Len(s))
           x == u \o <<e>>
<1>0. Len(s) \in Nat
  BY ElementsOf
<1>1. u \in Seq(E) /\ Len(u) = p - 1 /\ \A i \in 1 .. p - 1 : u[i] = s[i]
  <2>1. /\ u \in Seq(E) /\ Len(u) = (p - 1) + 1 - 1
        /\ \A i \in 1 .. (p - 1) + 1 - 1 : u[i] = s[1 + i - 1]
    BY <1>0, PartOf
  <2> HIDE DEF u
  <2> QED BY <1>0, <2>1
<1>2. v \in Seq(E) /\ Len(v) = Len(s) + 1 - p /\ \A i \in 1 .. Len(s) + 1 - p : v[i] = s[p + i - 1]
  BY <1>0, PartOf
<1>3. InsertAt(s, p, e) = x \o v
  BY DEF InsertAt
<1> HIDE DEF u, v
<1>4. <<e>> \in Seq(E) /\ Len(<<e>>) = 1 /\ <<e>>[1] = e
  OBVIOUS
<1>5. /\ x \in Seq(E) /\ Len(x) = p
      /\ \A i \in 1 .. p : x[i] = IF i < p THEN s[i] ELSE e
  <2> DEFINE w == <<e>>
  <2> HIDE DEF w
  <2>1. w \in Seq(E) /\ Len(w) = 1 /\ w[1] = e
    BY <1>4 DEF w
  <2>2. /\ u \o w \in Seq(E) /\ Len(u \o w) = Len(u) + Len(w)
        /\ \A i \in 1 .. Len(u) + Len(w) :
              (u \o w)[i] = IF i <= Len(u) THEN u[i] ELSE w[i - Len(u)]
    BY <1>1, <2>1, ConcatElements
  <2>3. Len(u) + Len(w) = p /\ \A i \in 1 .. p : i <= Len(u) \/ i - Len(u) = 1
    BY <1>0, <1>1, <2>1
  <2>4. u \o w = x
    BY DEF w
  <2> HIDE DEF x
  <2> QED BY <1>0, <1>1, <2>1, <2>2, <2>3, <2>4
<1> HIDE DEF x
<1>6. /\ x \o v \in Seq(E) /\ Len(x \o v) = Len(s) + 1 /\ DOMAIN (x \o v) = 1 .. Len(s) + 1
      /\ \A i \in 1 .. Len(s) + 1 : (x \o v)[i] = IF i <= p THEN x[i] ELSE v[i - p]
  <2>1. /\ x \o v \in Seq(E) /\ Len(x \o v) = Len(x) + Len(v)
        /\ DOMAIN (x \o v) = 1 .. Len(x) + Len(v)
        /\ \A i \in 1 .. Len(x) + Len(v) :
              (x \o v)[i] = IF i <= Len(x) THEN x[i] ELSE v[i - Len(x)]
    BY <1>2, <1>5, ConcatElements
  <2>2. Len(x) = p /\ Len(x) + Len(v) = Len(s) + 1
    BY <1>0, <1>2, <1>5
  <2> QED BY <2>1, <2>2
<1>7. ASSUME NEW i \in 1 .. Len(s) + 1
      PROVE  (x \o v)[i] = IF i < p THEN s[i] ELSE IF i = p THEN e ELSE s[i - 1]
  <2>1. CASE i <= p
    BY <1>0, <1>5, <1>6, <2>1
  <2>2. CASE i > p
    <3>1. i - p \in 1 .. Len(s) + 1 - p /\ p + (i - p) - 1 = i - 1
      BY <1>0, <2>2
    <3> QED BY <1>0, <1>2, <1>6, <2>2, <3>1
  <2>3. i <= p \/ i > p
    BY <1>0
  <2> QED BY <2>1, <2>2, <2>3, Zenon
<1> QED BY <1>3, <1>6, <1>7

LEMMA RemoveAtElements ==
    ASSUME NEW E, NEW s \in Seq(E), NEW p \in 1 .. Len(s)
    PROVE  /\ RemoveAt(s, p) \in Seq(E) /\ Len(RemoveAt(s, p)) = Len(s) - 1
           /\ DOMAIN RemoveAt(s, p) = 1 .. Len(s) - 1
           /\ \A i \in 1 .. Len(s) - 1 : RemoveAt(s, p)[i] = IF i < p THEN s[i] ELSE s[i + 1]
<1> DEFINE u == SubSeq(s, 1, p - 1)
           v == SubSeq(s, p + 1, Len(s))
<1>0. Len(s) \in Nat
  BY ElementsOf
<1>1. u \in Seq(E) /\ Len(u) = p - 1 /\ \A i \in 1 .. p - 1 : u[i] = s[i]
  <2>1. /\ u \in Seq(E) /\ Len(u) = (p - 1) + 1 - 1
        /\ \A i \in 1 .. (p - 1) + 1 - 1 : u[i] = s[1 + i - 1]
    BY <1>0, PartOf
  <2> HIDE DEF u
  <2> QED BY <1>0, <2>1
<1>2. v \in Seq(E) /\ Len(v) = Len(s) - p /\ \A i \in 1 .. Len(s) - p : v[i] = s[p + i]
  <2>1. /\ v \in Seq(E) /\ Len(v) = Len(s) + 1 - (p + 1)
        /\ \A i \in 1 .. Len(s) + 1 - (p + 1) : v[i] = s[(p + 1) + i - 1]
    BY <1>0, PartOf
  <2> HIDE DEF v
  <2> QED BY <1>0, <2>1
<1>3. RemoveAt(s, p) = u \o v
  BY DEF RemoveAt
<1> HIDE DEF u, v
<1>4. /\ u \o v \in Seq(E) /\ Len(u \o v) = Len(s) - 1 /\ DOMAIN (u \o v) = 1 .. Len(s) - 1
      /\ \A i \in 1 .. Len(s) - 1 : (u \o v)[i] = IF i <= p - 1 THEN u[i] ELSE v[i - (p - 1)]
  <2>1. /\ u \o v \in Seq(E) /\ Len(u \o v) = Len(u) + Len(v)
        /\ DOMAIN (u \o v) = 1 .. Len(u) + Len(v)
        /\ \A i \in 1 .. Len(u) + Len(v) :
              (u \o v)[i] = IF i <= Len(u) THEN u[i] ELSE v[i - Len(u)]
    BY <1>1, <1>2, ConcatElements
  <2>2. Len(u) = p - 1 /\ Len(u) + Len(v) = Len(s) - 1
    BY <1>0, <1>1, <1>2
  <2> QED BY <2>1, <2>2
<1>5. ASSUME NEW i \in 1 .. Len(s) - 1
      PROVE  (u \o v)[i] = IF i < p THEN s[i] ELSE s[i + 1]
  <2>1. CASE i < p
    BY <1>0, <1>1, <1>4, <2>1
  <2>2. CASE i >= p
    <3>1. i - (p - 1) \in 1 .. Len(s) - p /\ p + (i - (p - 1)) = i + 1
      BY <1>0, <2>2
    <3>2. v[i - (p - 1)] = s[i + 1]
      BY <1>2, <3>1
    <3>3. (u \o v)[i] = v[i - (p - 1)]
      <4>1. ~ (i <= p - 1)
        BY <2>2
      <4> QED BY <1>4, <4>1
    <3>4. ~ (i < p)
      BY <2>2
    <3> QED BY <3>2, <3>3, <3>4
  <2>3. i < p \/ i >= p
    BY <1>0
  <2> QED BY <2>1, <2>2, <2>3, Zenon
<1> QED BY <1>3, <1>4, <1>5

LEMMA TailElements ==
    ASSUME NEW E, NEW s \in Seq(E), s # <<>>
    PROVE  /\ Tail(s) \in Seq(E) /\ Len(Tail(s)) = Len(s) - 1
           /\ DOMAIN Tail(s) = 1 .. Len(s) - 1
           /\ \A i \in 1 .. Len(s) - 1 : Tail(s)[i] = s[i + 1]
OBVIOUS

LEMMA NatIsWellFounded ==
    \E R : IsWellFoundedOn(R, Nat) /\ \A m, n \in Nat : m < n => <<m, n>> \in R
BY NatLessThanWellFounded DEF OpToRel

\* The least element of a set of naturals.
LEMMA MinOf ==
    ASSUME NEW S, S \subseteq Nat, S # {}
    PROVE  Min(S) \in S /\ \A y \in S : Min(S) <= y
<1>1. PICK R : IsWellFoundedOn(R, Nat) /\ \A m, n \in Nat : m < n => <<m, n>> \in R
  BY NatIsWellFounded
<1>2. IsWellFoundedOn(R, Nat)
  BY <1>1
<1>3. \E m \in S : \A n \in S : ~ (<<n, m>> \in R)
  BY <1>2, WFMin
<1>4. PICK m \in S : \A n \in S : ~ (<<n, m>> \in R)
  BY <1>3
<1>5. m \in Nat /\ \A n \in S : n \in Nat /\ ~ (n < m)
  BY <1>1, <1>4
<1>6. \A n \in S : m <= n
  BY <1>5
<1> QED BY <1>6 DEF Min

LEMMA InList ==
    ASSUME NEW E, NEW s \in Seq(E), NEW x
    PROVE  x \in ToSet(s) <=> \E i \in 1 .. Len(s) : s[i] = x
BY ElementsOf DEF ToSet

\* A packet put into a list keeps it sorted, and a copy is not put in again.
LEMMA Inserted ==
    ASSUME NEW E, E \subseteq Int, NEW s \in Seq(E), NEW n \in Int, n \in E,
           NEW base \in Int, Ordered(s),
           \A i \in DOMAIN s : s[i] - base \in 0 .. MaxWindow - 1,
           n - base \in 1 .. MaxWindow - 1
    PROVE  /\ insert(s, n, SeqNumOf(base)) \in Seq(E)
           /\ Ordered(insert(s, n, SeqNumOf(base)))
           /\ \A m : m \in ToSet(insert(s, n, SeqNumOf(base))) <=> m \in ToSet(s) \/ m = n
<1>0. SeqSpace \in Nat /\ SeqSpace = 2 * MaxWindow /\ MaxWindow \in Nat
  BY SeqAssumption
<1>1. /\ Len(s) \in Nat /\ DOMAIN s = 1 .. Len(s) /\ n \in Int
      /\ \A i \in 1 .. Len(s) : s[i] \in E /\ s[i] \in Int
  BY ElementsOf
<1>11. \A i, j \in 1 .. Len(s) : i < j => s[i] < s[j]
  BY <1>1 DEF Ordered
<1> DEFINE behind == {Len(s) + 1} \cup
                     {i \in DOMAIN s : ~ Precedes(SeqNumOf(s[i]), SeqNumOf(n), SeqNumOf(base))}
           place  == Min(behind)
<1>2. \A i \in 1 .. Len(s) : Precedes(SeqNumOf(s[i]), SeqNumOf(n), SeqNumOf(base)) <=> s[i] < n
  <2> SUFFICES ASSUME NEW i \in 1 .. Len(s)
               PROVE  Precedes(SeqNumOf(s[i]), SeqNumOf(n), SeqNumOf(base)) <=> s[i] < n
    OBVIOUS
  <2>1. s[i] \in Int /\ s[i] - base \in 0 .. MaxWindow - 1
    BY <1>1
  <2>2. s[i] - base \in 0 .. SeqSpace - 1 /\ n - base \in 0 .. SeqSpace - 1
    BY <1>0, <2>1
  <2> QED BY <1>1, <2>1, <2>2, OrderOfPlaces
<1>3. behind = {Len(s) + 1} \cup {i \in 1 .. Len(s) : s[i] >= n}
  BY <1>1, <1>2
<1>4. place \in behind /\ \A i \in behind : place <= i
  <2>1. behind \subseteq Nat /\ behind # {}
    BY <1>1, <1>3
  <2> HIDE DEF behind
  <2> QED BY <2>1, MinOf
<1> HIDE DEF behind, place
<1>5. /\ place \in 1 .. Len(s) + 1
      /\ \A i \in 1 .. Len(s) : i < place => s[i] < n
      /\ place <= Len(s) => s[place] >= n
  BY <1>1, <1>3, <1>4
<1>6. place <= Len(s) => (SeqNumOf(s[place]) = SeqNumOf(n) <=> s[place] = n)
  <2> HAVE place <= Len(s)
  <2>1. place \in 1 .. Len(s) /\ place \in DOMAIN s
    BY <1>1, <1>5
  <2>2. s[place] \in Int /\ s[place] - base \in 0 .. MaxWindow - 1
    BY <1>1, <2>1
  <2>3. s[place] - n \in 1 - SeqSpace .. SeqSpace - 1
    BY <1>0, <1>1, <2>2
  <2> QED BY <1>1, <2>2, <2>3, SameNumber
<1>7. Accepts(SeqNumOf(n), SeqNumOf(base))
  BY <1>1, AcceptsNear
<1>8. insert(s, n, SeqNumOf(base)) =
        IF place <= Len(s) /\ s[place] = n THEN s ELSE InsertAt(s, place, n)
  BY <1>6, <1>7, <1>5 DEF insert, place, behind
<1>9. CASE place <= Len(s) /\ s[place] = n
  BY <1>1, <1>5, <1>8, <1>9 DEF ToSet
<1>10. CASE ~ (place <= Len(s) /\ s[place] = n)
  <2> DEFINE t == InsertAt(s, place, n)
  <2>1. /\ t \in Seq(E) /\ DOMAIN t = 1 .. Len(s) + 1
        /\ \A i \in 1 .. Len(s) + 1 :
              t[i] = IF i < place THEN s[i] ELSE IF i = place THEN n ELSE s[i - 1]
    BY <1>5, InsertAtElements
  <2> HIDE DEF t
  <2>2. \A i \in 1 .. Len(s) : i >= place => s[i] > n
    <3>1. place <= Len(s) => s[place] > n
      BY <1>1, <1>5, <1>10
    <3>2. ASSUME NEW i \in 1 .. Len(s), i > place PROVE s[i] > n
      <4>1. place \in 1 .. Len(s)
        BY <1>1, <1>5, <3>2
      <4>2. s[place] < s[i]
        BY <1>11, <3>2, <4>1
      <4> QED BY <1>1, <3>1, <4>1, <4>2
    <3> QED BY <1>1, <1>5, <3>1, <3>2
  <2>3. Ordered(t)
    <3> SUFFICES ASSUME NEW i \in 1 .. Len(s) + 1, NEW j \in 1 .. Len(s) + 1, i < j
                 PROVE  t[i] < t[j]
      BY <2>1 DEF Ordered
    <3>1. CASE j < place
      <4>1. i \in 1 .. Len(s) /\ j \in 1 .. Len(s) /\ i < place
        BY <1>1, <1>5, <3>1
      <4> QED BY <1>11, <2>1, <3>1, <4>1
    <3>2. CASE j = place
      BY <1>1, <1>5, <2>1, <3>2
    <3>3. CASE j > place /\ i < place
      <4>1. j - 1 \in 1 .. Len(s) /\ j - 1 >= place /\ i \in 1 .. Len(s)
        BY <1>1, <1>5, <3>3
      <4>2. s[i] < n /\ n < s[j - 1] /\ s[i] \in Int /\ s[j - 1] \in Int
        BY <1>1, <1>5, <2>2, <3>3, <4>1
      <4>3. t[i] = s[i] /\ t[j] = s[j - 1]
        BY <1>1, <1>5, <2>1, <3>3
      <4> QED BY <1>1, <4>2, <4>3
    <3>4. CASE j > place /\ i = place
      <4>1. j - 1 \in 1 .. Len(s) /\ j - 1 >= place
        BY <1>1, <1>5, <3>4
      <4> QED BY <1>1, <1>5, <2>1, <2>2, <3>4, <4>1
    <3>5. CASE i > place
      <4>1. j - 1 \in 1 .. Len(s) /\ i - 1 \in 1 .. Len(s) /\ i - 1 < j - 1 /\ j > place
        BY <1>1, <1>5, <3>5
      <4>2. s[i - 1] < s[j - 1]
        BY <1>11, <4>1
      <4> QED BY <1>1, <1>5, <2>1, <3>5, <4>1, <4>2
    <3> QED BY <1>1, <1>5, <3>1, <3>2, <3>3, <3>4, <3>5
  <2>4. ToSet(t) = ToSet(s) \cup {n}
    <3>1. ASSUME NEW i \in 1 .. Len(s) + 1 PROVE t[i] \in ToSet(s) \cup {n}
      <4>1. i < place => i \in 1 .. Len(s)
        BY <1>1, <1>5
      <4>2. i > place => i - 1 \in 1 .. Len(s)
        BY <1>1, <1>5
      <4>3. t[i] = n \/ \E k \in 1 .. Len(s) : s[k] = t[i]
        BY <1>1, <1>5, <2>1, <4>1, <4>2
      <4> QED BY <4>3, InList
    <3>2. t[place] = n /\ place \in 1 .. Len(s) + 1
      BY <1>5, <2>1
    <3>3. ASSUME NEW i \in 1 .. Len(s) PROVE \E j \in 1 .. Len(s) + 1 : s[i] = t[j]
      <4>1. CASE i < place
        BY <1>1, <1>5, <2>1, <4>1
      <4>2. CASE i >= place
        <5>1. i + 1 \in 1 .. Len(s) + 1 /\ ~ (i + 1 < place) /\ i + 1 # place /\ (i + 1) - 1 = i
          BY <1>1, <1>5, <4>2
        <5>2. t[i + 1] = s[i]
          BY <2>1, <5>1
        <5> QED BY <5>1, <5>2
      <4>3. i < place \/ i >= place
        BY <1>1, <1>5
      <4> QED BY <4>1, <4>2, <4>3, Zenon
    <3>4. Len(t) = Len(s) + 1
      BY <1>5, InsertAtElements DEF t
    <3>5. \A x : x \in ToSet(t) <=> \E i \in 1 .. Len(s) + 1 : t[i] = x
      BY <2>1, <3>4, InList
    <3>6. \A x : x \in ToSet(s) <=> \E i \in 1 .. Len(s) : s[i] = x
      BY InList
    <3>7. \A x : x \in ToSet(t) <=> x \in ToSet(s) \cup {n}
      BY <3>1, <3>2, <3>3, <3>5, <3>6
    <3> QED BY <3>7
  <2>5. insert(s, n, SeqNumOf(base)) = t
    BY <1>8, <1>10 DEF t
  <2> QED BY <2>1, <2>3, <2>4, <2>5
<1> QED BY <1>9, <1>10

\* An acknowledged number takes its packet, and no other, from the list.
LEMMA Popped ==
    ASSUME NEW E, E \subseteq Int, NEW s \in Seq(E), NEW n \in Int, Ordered(s),
           \A i \in DOMAIN s : s[i] - n \in 1 - SeqSpace .. SeqSpace - 1
    PROVE  /\ popSeqnum(s, SeqNumOf(n)) \in Seq(E)
           /\ Ordered(popSeqnum(s, SeqNumOf(n)))
           /\ ToSet(popSeqnum(s, SeqNumOf(n))) = ToSet(s) \ {n}
<1>1. /\ Len(s) \in Nat /\ DOMAIN s = 1 .. Len(s)
      /\ \A i \in 1 .. Len(s) : s[i] \in E /\ s[i] \in Int
  BY ElementsOf
<1>2. \A i \in 1 .. Len(s) : SeqNumOf(s[i]) = SeqNumOf(n) <=> s[i] = n
  BY <1>1, SameNumber
<1> DEFINE t == popSeqnum(s, SeqNumOf(n))
           hits == {i \in 1 .. Len(s) : SeqNumOf(s[i]) = SeqNumOf(n)}
<1>3. t = IF \E i \in 1 .. Len(s) : SeqNumOf(s[i]) = SeqNumOf(n)
          THEN RemoveAt(s, IF hits # {} THEN Min(hits) ELSE 0) ELSE s
  BY DEF popSeqnum, RemoveFirstMatch, SelectInSeq
<1> HIDE DEF t
<1>4. CASE \E i \in 1 .. Len(s) : s[i] = n
  <2> DEFINE p == Min(hits)
  <2>1. hits \subseteq Nat /\ hits # {}
    BY <1>1, <1>2, <1>4
  <2>2. p \in hits
    <3> HIDE DEF hits
    <3> QED BY <2>1, MinOf
  <2>3. t = RemoveAt(s, p)
    BY <1>2, <1>3, <1>4, <2>1
  <2>4. p \in 1 .. Len(s) /\ s[p] = n
    BY <1>2, <2>2
  <2> HIDE DEF p, hits
  <2>5. /\ t \in Seq(E) /\ DOMAIN t = 1 .. Len(s) - 1
        /\ \A i \in 1 .. Len(s) - 1 : t[i] = IF i < p THEN s[i] ELSE s[i + 1]
    BY <2>3, <2>4, RemoveAtElements
  <2>6. Ordered(t)
    <3> SUFFICES ASSUME NEW i \in 1 .. Len(s) - 1, NEW j \in 1 .. Len(s) - 1, i < j
                 PROVE  t[i] < t[j]
      BY <2>5 DEF Ordered
    <3>1. /\ i \in 1 .. Len(s) /\ i + 1 \in 1 .. Len(s)
          /\ j \in 1 .. Len(s) /\ j + 1 \in 1 .. Len(s)
          /\ i < j + 1 /\ i + 1 < j + 1
      BY <1>1
    <3>2. s[i] < s[j] /\ s[i] < s[j + 1] /\ s[i + 1] < s[j + 1]
      BY <1>1, <3>1 DEF Ordered
    <3>3. j < p => i < p
      BY <1>1, <2>4
    <3> QED BY <2>5, <3>2, <3>3
  <2>7. \A i \in 1 .. Len(s) : s[i] = n => i = p
    BY <1>1, <2>4 DEF Ordered
  <2>8. ASSUME NEW i \in 1 .. Len(s) - 1 PROVE t[i] \in ToSet(s) \ {n}
    <3>1. /\ i \in 1 .. Len(s) /\ i + 1 \in 1 .. Len(s)
          /\ ~ (i < p) => i + 1 # p
          /\ i < p => i # p
      BY <1>1, <2>4
    <3>2. \E k \in 1 .. Len(s) : s[k] = t[i] /\ k # p
      BY <2>5, <3>1
    <3> QED BY <2>7, <3>2, InList
  <2>9. ASSUME NEW i \in 1 .. Len(s), s[i] # n PROVE \E j \in 1 .. Len(s) - 1 : s[i] = t[j]
    <3>1. CASE i < p
      <4>1. i \in 1 .. Len(s) - 1
        BY <1>1, <2>4, <3>1
      <4> QED BY <2>5, <3>1, <4>1
    <3>2. CASE i > p
      <4>1. i - 1 \in 1 .. Len(s) - 1 /\ ~ (i - 1 < p) /\ (i - 1) + 1 = i
        BY <1>1, <2>4, <3>2
      <4> QED BY <2>5, <4>1
    <3> QED BY <1>1, <2>4, <2>9, <3>1, <3>2
  <2>10. ToSet(t) = ToSet(s) \ {n}
    <3>1. Len(t) = Len(s) - 1
      BY <2>3, <2>4, RemoveAtElements
    <3>2. \A x : x \in ToSet(t) <=> \E i \in 1 .. Len(s) - 1 : t[i] = x
      BY <2>5, <3>1, InList
    <3>3. \A x : x \in ToSet(s) <=> \E i \in 1 .. Len(s) : s[i] = x
      BY InList
    <3>4. \A x : x \in ToSet(t) <=> x \in ToSet(s) \ {n}
      BY <2>8, <2>9, <3>2, <3>3
    <3> QED BY <3>4
  <2> QED BY <2>5, <2>6, <2>10 DEF t
<1>5. CASE ~ \E i \in 1 .. Len(s) : s[i] = n
  <2>1. t = s
    BY <1>2, <1>3, <1>5
  <2>2. n \notin ToSet(s)
    BY <1>1, <1>5 DEF ToSet
  <2> QED BY <2>1, <2>2 DEF t
<1> QED BY <1>4, <1>5

\* The list without its head, and with a last element more.
LEMMA Shortened ==
    ASSUME NEW E, E \subseteq Int, NEW s \in Seq(E), s # <<>>, Ordered(s)
    PROVE  /\ Tail(s) \in Seq(E) /\ Ordered(Tail(s)) /\ Len(Tail(s)) = Len(s) - 1
           /\ Head(s) \in E /\ Head(s) \in ToSet(s) /\ ToSet(Tail(s)) = ToSet(s) \ {Head(s)}
           /\ \A m \in ToSet(s) : Head(s) <= m
<1>1. /\ Len(s) \in Nat /\ Len(s) > 0 /\ DOMAIN s = 1 .. Len(s) /\ Head(s) = s[1]
      /\ \A i \in 1 .. Len(s) : s[i] \in E /\ s[i] \in Int
  BY ElementsOf
<1> DEFINE t == Tail(s)
<1>2. /\ t \in Seq(E) /\ Len(t) = Len(s) - 1 /\ DOMAIN t = 1 .. Len(s) - 1
      /\ \A i \in 1 .. Len(s) - 1 : t[i] = s[i + 1]
  BY TailElements
<1> HIDE DEF t
<1>3. \A i \in 1 .. Len(s) - 1 : i + 1 \in 1 .. Len(s)
  BY <1>1
<1>4. Ordered(t)
  <2> SUFFICES ASSUME NEW i \in 1 .. Len(s) - 1, NEW j \in 1 .. Len(s) - 1, i < j
               PROVE  t[i] < t[j]
    BY <1>2 DEF Ordered
  <2>1. i + 1 < j + 1
    OBVIOUS
  <2> QED BY <1>1, <1>2, <1>3, <2>1 DEF Ordered
<1>5. \A i \in 1 .. Len(s) : i # 1 => s[1] < s[i] /\ i - 1 \in 1 .. Len(s) - 1 /\ (i - 1) + 1 = i
  BY <1>1 DEF Ordered
<1>6. \A m \in ToSet(s) : Head(s) <= m
  BY <1>1, <1>5 DEF ToSet
<1>7. ASSUME NEW i \in 1 .. Len(s) - 1 PROVE t[i] \in ToSet(s) \ {Head(s)}
  <2>1. i + 1 # 1
    OBVIOUS
  <2>2. t[i] = s[i + 1] /\ s[1] < s[i + 1] /\ s[1] \in Int /\ s[i + 1] \in Int
    BY <1>1, <1>2, <1>3, <1>5, <2>1
  <2> QED BY <1>1, <1>3, <2>2, InList
<1>8. ASSUME NEW i \in 1 .. Len(s), s[i] # s[1] PROVE \E j \in 1 .. Len(s) - 1 : s[i] = t[j]
  <2>1. i # 1
    BY <1>8
  <2> QED BY <1>2, <1>5, <2>1
<1>9. ToSet(t) = ToSet(s) \ {Head(s)}
  <2>1. \A x : x \in ToSet(t) <=> \E i \in 1 .. Len(s) - 1 : t[i] = x
    BY <1>2, InList
  <2>2. \A x : x \in ToSet(s) <=> \E i \in 1 .. Len(s) : s[i] = x
    BY InList
  <2>3. \A x : x \in ToSet(t) <=> x \in ToSet(s) \ {Head(s)}
    BY <1>1, <1>7, <1>8, <2>1, <2>2
  <2> QED BY <2>3
<1> QED BY <1>1, <1>2, <1>4, <1>6, <1>9 DEF t, ToSet

LEMMA Lengthened ==
    ASSUME NEW E, E \subseteq Int, NEW s \in Seq(E), NEW u \in Seq(E), Ordered(s), Ordered(u),
           \A m \in ToSet(s), n \in ToSet(u) : m < n
    PROVE  /\ s \o u \in Seq(E) /\ Ordered(s \o u) /\ Len(s \o u) = Len(s) + Len(u)
           /\ ToSet(s \o u) = ToSet(s) \cup ToSet(u)
<1>1. /\ Len(s) \in Nat /\ DOMAIN s = 1 .. Len(s)
      /\ Len(u) \in Nat /\ DOMAIN u = 1 .. Len(u)
      /\ \A i \in 1 .. Len(s) : s[i] \in E /\ s[i] \in Int
      /\ \A i \in 1 .. Len(u) : u[i] \in E /\ u[i] \in Int
  BY ElementsOf
<1> DEFINE t == s \o u
<1>2. /\ t \in Seq(E) /\ Len(t) = Len(s) + Len(u) /\ DOMAIN t = 1 .. Len(s) + Len(u)
      /\ \A i \in 1 .. Len(s) + Len(u) : t[i] = IF i <= Len(s) THEN s[i] ELSE u[i - Len(s)]
  BY ConcatElements
<1> HIDE DEF t
<1>3. \A i \in 1 .. Len(s) + Len(u) : \/ i \in 1 .. Len(s) /\ t[i] = s[i]
                                      \/ i - Len(s) \in 1 .. Len(u) /\ t[i] = u[i - Len(s)]
  BY <1>1, <1>2
<1>4. Ordered(t)
  <2> SUFFICES ASSUME NEW i \in 1 .. Len(s) + Len(u), NEW j \in 1 .. Len(s) + Len(u), i < j
               PROVE  t[i] < t[j]
    BY <1>2 DEF Ordered
  <2>1. CASE j <= Len(s)
    <3>1. i \in 1 .. Len(s) /\ j \in 1 .. Len(s) /\ i <= Len(s)
      BY <1>1, <2>1
    <3> QED BY <1>1, <1>2, <2>1, <3>1 DEF Ordered
  <2>2. CASE i > Len(s)
    <3>1. i - Len(s) \in 1 .. Len(u) /\ j - Len(s) \in 1 .. Len(u) /\ i - Len(s) < j - Len(s)
          /\ ~ (i <= Len(s)) /\ ~ (j <= Len(s))
      BY <1>1, <2>2
    <3> QED BY <1>1, <1>2, <3>1 DEF Ordered
  <2>3. CASE i <= Len(s) /\ j > Len(s)
    <3>1. i \in 1 .. Len(s) /\ j - Len(s) \in 1 .. Len(u) /\ ~ (j <= Len(s))
      BY <1>1, <2>3
    <3>2. t[i] \in ToSet(s) /\ t[j] \in ToSet(u)
      BY <1>1, <1>2, <2>3, <3>1 DEF ToSet
    <3> QED BY <3>2
  <2> QED BY <1>1, <2>1, <2>2, <2>3
<1>5. \A i \in 1 .. Len(s) : i \in 1 .. Len(s) + Len(u) /\ t[i] = s[i]
  BY <1>1, <1>2
<1>6. ASSUME NEW i \in 1 .. Len(u) PROVE \E j \in 1 .. Len(s) + Len(u) : t[j] = u[i]
  <2>1. /\ Len(s) + i \in 1 .. Len(s) + Len(u) /\ (Len(s) + i) - Len(s) = i
        /\ ~ (Len(s) + i <= Len(s))
    BY <1>1
  <2>2. t[Len(s) + i] = u[i]
    BY <1>2, <2>1
  <2> QED BY <2>1, <2>2
<1>7. ToSet(t) = ToSet(s) \cup ToSet(u)
  <2>1. \A x : x \in ToSet(t) <=> \E i \in 1 .. Len(s) + Len(u) : t[i] = x
    BY <1>2, InList
  <2>2. \A x : /\ x \in ToSet(s) <=> \E i \in 1 .. Len(s) : s[i] = x
               /\ x \in ToSet(u) <=> \E i \in 1 .. Len(u) : u[i] = x
    BY InList
  <2>3. ASSUME NEW x PROVE x \in ToSet(s) \/ x \in ToSet(u) => x \in ToSet(t)
    <3>1. CASE x \in ToSet(s)
      BY <1>5, <2>1, <2>2, <3>1
    <3>2. CASE x \in ToSet(u)
      BY <1>6, <2>1, <2>2, <3>2
    <3> QED BY <3>1, <3>2
  <2>4. ASSUME NEW x PROVE x \in ToSet(t) => x \in ToSet(s) \/ x \in ToSet(u)
    <3> SUFFICES ASSUME x \in ToSet(t) PROVE x \in ToSet(s) \/ x \in ToSet(u)
      OBVIOUS
    <3>1. PICK i \in 1 .. Len(s) + Len(u) : t[i] = x
      BY <2>1
    <3>2. CASE i \in 1 .. Len(s) /\ t[i] = s[i]
      BY <2>2, <3>1, <3>2
    <3>3. CASE i - Len(s) \in 1 .. Len(u) /\ t[i] = u[i - Len(s)]
      BY <2>2, <3>1, <3>3
    <3> QED BY <1>3, <3>2, <3>3
  <2> QED BY <2>3, <2>4
<1> QED BY <1>2, <1>4, <1>7 DEF t
-----------------------------------------------------------------------------
(***************************************************************************)
(* What the sender may have numbered and what the receiver may hold, as    *)
(* long as there is room for it in the numbers.                            *)
(***************************************************************************)

\* A window, and what may wait for it, stay below the largest window.
Room == /\ \A w \in Windows : w + 2 <= MaxWindow
        /\ \A m \in 1 .. NumMessages :
              /\ MaxRequeued + Chunks[m] + MaxPings <= MaxWindow
              /\ \A w \in Windows : w \div 2 + Chunks[m] + MaxPings <= MaxWindow
        /\ MaxPings < MaxWindow

Sorted == Ordered(sent) /\ Ordered(queuedReliables) /\ Ordered(incoming)

\* Nothing that is sent, waits or is held is far from the number that decides
\* its order there.  The gaps in the queue are pings.
SentFits == \A n \in ToSet(sent) : nextOut - n <= MaxWindow
QueueFits ==
    /\ \A n \in ToSet(queuedReliables) : nextOut - n + (MaxPings - pings) < MaxWindow
    /\ queuedReliables # <<>> =>
            nextOut - Head(queuedReliables) <= Len(queuedReliables) + pings
IncomingFits == \A n \in ToSet(incoming) : nextIn <= n /\ n - nextIn < MaxWindow

NumbersInv == /\ Sorted /\ SentFits /\ QueueFits /\ IncomingFits
              /\ nextIn <= nextOut /\ AckedIsHeld /\ NoPacketForgotten

ChannelInv == TypeOK /\ NumbersInv

\* The places given out so far.
LEMMA PlacesAre ==
    ASSUME TypeOK
    PROVE  /\ nextOut \in Nat /\ nextIn \in Nat /\ DOMAIN numbered = 0 .. nextOut - 1
           /\ 0 .. nextOut - 1 \subseteq Int
           /\ sent \in Seq(0 .. nextOut - 1) /\ queuedReliables \in Seq(0 .. nextOut - 1)
           /\ incoming \in Seq(0 .. nextOut - 1)
           /\ wire \subseteq 0 .. nextOut - 1 /\ acks \subseteq 0 .. nextOut - 1
           /\ \A n \in 0 .. nextOut - 1 : numbered[n] \in Payloads
           /\ window \in Windows /\ window \in 1 .. MaxWindow /\ pings \in 0 .. MaxPings
           /\ accepted \in 0 .. NumMessages
           /\ MaxPings \in Nat /\ NumMessages \in Nat /\ MaxRequeued \in Nat \ {0}
           /\ MaxWindow \in Nat \ {0} /\ SeqSpace = 2 * MaxWindow
BY SeqAssumption, ChannelAssumption DEF TypeOK

LEMMA ListPlaces ==
    ASSUME TypeOK
    PROVE  /\ \A a \in ToSet(sent) : a \in 0 .. nextOut - 1
           /\ \A a \in ToSet(queuedReliables) : a \in 0 .. nextOut - 1
           /\ \A a \in ToSet(incoming) : a \in 0 .. nextOut - 1
<1>1. ASSUME NEW E, NEW s \in Seq(E) PROVE \A a \in ToSet(s) : a \in E
  BY InList, ElementsOf
<1> QED BY <1>1, PlacesAre

LEMMA MorePlaces ==
    ASSUME NEW A, NEW B, A \subseteq B, NEW s \in Seq(A)
    PROVE  s \in Seq(B)
BY ElementsOf, SeqDef

\* A packet that fits the window is at most a place further than it says.
LEMMA WindowFits ==
    ASSUME TypeOK, NEW n \in Nat, sent # <<>>, n - Head(sent) \in 0 .. SeqSpace - 1,
           window < SeqSpace - 1, HasSequenceNumber(n)
    PROVE  n - Head(sent) <= window + 1
<1> DEFINE h == Head(sent)
           x == SeqNumOf(h)
           y == SeqNumOf(n)
<1>1. /\ h \in Int /\ window \in Nat /\ SeqSpace \in Nat \ {0} /\ SeqSpace = 2 * MaxWindow
  <2>1. sent \in Seq(0 .. nextOut - 1) /\ nextOut \in Nat
    BY PlacesAre
  <2>2. sent[1] \in 0 .. nextOut - 1 /\ h = sent[1]
    BY <2>1, ElementsOf
  <2>3. /\ window \in 1 .. MaxWindow /\ MaxWindow \in Nat \ {0} /\ SeqSpace = 2 * MaxWindow
    BY PlacesAre
  <2> HIDE DEF h
  <2> QED BY <2>1, <2>2, <2>3
<1>2. n = h + (n - h)
  BY <1>1
<1>3. /\ x \in 0 .. SeqSpace - 1
      /\ y = IF x + (n - h) < SeqSpace THEN x + (n - h) ELSE x + (n - h) - SeqSpace
  BY <1>1, <1>2, SeqNumShift DEF SeqNums
<1>4. IF x < y THEN y - x <= window ELSE y + (SeqSpace - 1 - x) <= window
  BY DEF HasSequenceNumber
<1> HIDE DEF x, y
<1>5. n - h \in 0 .. SeqSpace - 1
  OBVIOUS
<1> HIDE DEF h
<1>6. n - h <= window + 1
  <2> DEFINE d == n - h
  <2>1. d \in 0 .. SeqSpace - 1 /\ x \in Int /\ window \in Nat /\ SeqSpace \in Nat
    BY <1>1, <1>3, <1>5
  <2>2. y = IF x + d < SeqSpace THEN x + d ELSE x + d - SeqSpace
    BY <1>3
  <2> HIDE DEF d
  <2>3. CASE x + d < SeqSpace
    <3>1. y = x + d
      BY <2>2, <2>3
    <3> QED BY <1>4, <2>1, <3>1 DEF d
  <2>4. CASE ~ (x + d < SeqSpace)
    <3>1. y = x + d - SeqSpace
      BY <2>2, <2>4
    <3>2. ~ (x < y)
      BY <2>1, <3>1
    <3>3. y + (SeqSpace - 1 - x) <= window
      BY <1>4, <3>2
    <3>4. y + (SeqSpace - 1 - x) = d - 1
      BY <2>1, <3>1
    <3>5. d <= window + 1
      BY <2>1, <3>3, <3>4
    <3> QED BY <3>5 DEF d
  <2> QED BY <2>3, <2>4
<1> QED BY <1>6 DEF h

\* Numbers for several packets: none leaves the window of the sent ones.
LEMMA NumbersFit ==
    ASSUME Room, ChannelInv, NEW c \in Nat \ {0},
           \A i \in 0 .. c - 1 : HasSequenceNumber(nextOut + i)
    PROVE  \A n \in ToSet(sent) : nextOut + c - n <= MaxWindow
<1>0. /\ nextOut \in Nat /\ window \in Nat /\ window + 2 <= MaxWindow /\ MaxWindow \in Nat
      /\ SeqSpace = 2 * MaxWindow
  BY PlacesAre DEF Room, ChannelInv
<1>1. CASE sent = <<>>
  BY <1>1, ElementsOf DEF ToSet
<1>2. CASE sent # <<>>
  <2> DEFINE h == Head(sent)
  <2>1. /\ h \in 0 .. nextOut - 1 /\ h \in ToSet(sent) /\ \A n \in ToSet(sent) : h <= n
    <3>1. /\ sent \in Seq(0 .. nextOut - 1) /\ 0 .. nextOut - 1 \subseteq Int /\ Ordered(sent)
      BY PlacesAre DEF ChannelInv, NumbersInv, Sorted
    <3> QED BY <1>2, <3>1, Shortened
  <2>2. nextOut - h <= MaxWindow
    BY <2>1 DEF ChannelInv, NumbersInv, SentFits
  <2>3. ToSet(sent) \subseteq Int
    <3>1. \A n \in ToSet(sent) : n \in 0 .. nextOut - 1
      BY ListPlaces DEF ChannelInv
    <3> QED BY <1>0, <3>1
  <2> HIDE DEF h
  <2>4. ASSUME NEW i \in 0 .. c - 1, nextOut + i - h < SeqSpace PROVE nextOut + i - h <= window + 1
    <3> DEFINE n == nextOut + i
    <3>1. n \in Nat /\ n - h \in 0 .. SeqSpace - 1 /\ window < SeqSpace - 1
      BY <1>0, <2>1, <2>4
    <3>2. HasSequenceNumber(n)
      BY <2>4
    <3> HIDE DEF n
    <3>3. n - Head(sent) \in 0 .. SeqSpace - 1 /\ TypeOK
      BY <3>1 DEF h, ChannelInv
    <3>4. n - Head(sent) <= window + 1
      BY <1>2, <3>1, <3>2, <3>3, WindowFits
    <3>5. n - h <= window + 1 /\ n = nextOut + i
      BY <3>4 DEF h, n
    <3> QED BY <1>0, <2>1, <3>1, <3>5
  <2>5. nextOut - h <= window + 1
    BY <1>0, <2>1, <2>2, <2>4
  <2>6. c - 1 < window + 2 - (nextOut - h)
    <3> DEFINE i == window + 2 - (nextOut - h)
    <3>1. i \in Nat /\ nextOut + i - h = window + 2
      BY <1>0, <2>1, <2>5
    <3> HIDE DEF i
    <3>3. window + 2 < SeqSpace /\ ~ (window + 2 <= window + 1)
      BY <1>0, <2>1
    <3>2. ~ (i \in 0 .. c - 1)
      BY <2>4, <3>1, <3>3
    <3> QED BY <3>1, <3>2 DEF i
  <2>7. nextOut + c - h <= MaxWindow
    BY <1>0, <2>1, <2>6
  <2> QED BY <1>0, <2>1, <2>3, <2>7
<1> QED BY <1>1, <1>2

\* When the receive thread reads the socket, the packet it expects is one the
\* sender still has, so that nothing is too far from it.
LEMMA Frontier ==
    ASSUME Room, ChannelInv, ~ Drainable
    PROVE  nextOut - nextIn <= MaxWindow
<1>0. /\ nextOut \in Nat /\ nextIn \in Nat /\ nextIn <= nextOut /\ MaxWindow \in Nat
      /\ pings \in 0 .. MaxPings /\ MaxPings \in Nat
  BY PlacesAre DEF ChannelInv, NumbersInv
<1>1. nextIn \notin ToSet(incoming)
  <2> SUFFICES ASSUME nextIn \in ToSet(incoming)
               PROVE  FALSE
    OBVIOUS
  <2>1. /\ incoming \in Seq(0 .. nextOut - 1) /\ 0 .. nextOut - 1 \subseteq Int
        /\ Ordered(incoming)
    BY PlacesAre DEF ChannelInv, NumbersInv, Sorted
  <2>2. incoming # <<>>
    BY <2>1, ElementsOf DEF ToSet
  <2>3. Head(incoming) \in ToSet(incoming) /\ Head(incoming) <= nextIn /\ Head(incoming) \in Int
    BY <2>1, <2>2, Shortened
  <2>4. Head(incoming) = nextIn
    BY <1>0, <2>3 DEF ChannelInv, NumbersInv, IncomingFits
  <2> QED BY <2>2, <2>4 DEF Drainable, FirstIs
<1>2. CASE nextIn < nextOut
  <2>1. nextIn \in ToSet(sent) \cup ToSet(queuedReliables)
    <3>1. nextIn \in 0 .. nextOut - 1 /\ ~ (nextIn < nextIn)
      BY <1>0, <1>2
    <3> QED BY <1>1, <3>1 DEF ChannelInv, NumbersInv, NoPacketForgotten
  <2> QED BY <1>0, <2>1 DEF ChannelInv, NumbersInv, SentFits, QueueFits
<1> QED BY <1>0, <1>2

\* A packet that arrives is less than MaxWindow places ahead, and its number
\* tells the expected one from all others.
LEMMA Arrived ==
    ASSUME Room, ChannelInv, NEW n, Arrives(n)
    PROVE  /\ n \in 0 .. nextOut - 1
           /\ n - nextIn < MaxWindow /\ nextIn - n <= MaxWindow
           /\ SeqNumOf(n) = SeqNumOf(nextIn) <=> n = nextIn
           /\ Classify(SeqNumOf(n), SeqNumOf(nextIn)) = "window" => nextIn <= n
           /\ Classify(SeqNumOf(n), SeqNumOf(nextIn)) = "old" => n < nextIn
<1>1. /\ n \in 0 .. nextOut - 1 /\ nextOut \in Nat /\ nextIn \in Nat /\ nextIn - n <= MaxWindow
      /\ MaxWindow \in Nat \ {0} /\ SeqSpace = 2 * MaxWindow
  BY PlacesAre DEF Arrives, ChannelInv
<1>2. nextOut - nextIn <= MaxWindow
  BY Frontier DEF Arrives
<1>3. n - nextIn < MaxWindow
  BY <1>1, <1>2
<1>4. SeqNumOf(n) = SeqNumOf(nextIn) <=> n = nextIn
  <2>1. n - nextIn \in 1 - SeqSpace .. SeqSpace - 1
    BY <1>1, <1>3
  <2> QED BY <1>1, <2>1, SameNumber
<1>5. ClassifiedByDistance(n, nextIn)
  BY <1>1, VerdictByDistance
<1> DEFINE verdict == Classify(SeqNumOf(n), SeqNumOf(nextIn))
<1>6. /\ n - nextIn \in 0 .. MaxWindow - 1 => verdict = "window"
      /\ nextIn - n \in 1 .. MaxWindow - 1 => verdict = "old"
      /\ n - nextIn \in {MaxWindow, - MaxWindow} => verdict \in {"old", "future"}
  BY <1>5 DEF ClassifiedByDistance
<1> HIDE DEF verdict
<1>7. verdict = "window" => nextIn <= n
  BY <1>1, <1>6
<1>8. verdict = "old" => n < nextIn
  BY <1>1, <1>3, <1>6
<1> QED BY <1>1, <1>3, <1>4, <1>7, <1>8 DEF verdict
-----------------------------------------------------------------------------
(***************************************************************************)
(* The steps of the sender.                                                *)
(***************************************************************************)

\* The part of the types that is about places.
PlacesOK == /\ nextOut \in Nat /\ nextIn \in Nat
            /\ numbered \in [0 .. nextOut - 1 -> Payloads]
            /\ queuedReliables \in Seq(DOMAIN numbered)
            /\ sent \in Seq(DOMAIN numbered)
            /\ incoming \in Seq(DOMAIN numbered)
            /\ wire \subseteq DOMAIN numbered
            /\ acks \subseteq DOMAIN numbered

LEMMA Assigned ==
    ASSUME TypeOK, NEW ps \in Seq(Payloads), AssignNumbers(ps)
    PROVE  /\ nextOut' = nextOut + Len(ps) /\ nextOut' \in Nat /\ Len(ps) \in Nat
           /\ numbered' \in [0 .. nextOut' - 1 -> Payloads]
           /\ \A n \in 0 .. nextOut - 1 : numbered'[n] = numbered[n]
           /\ \A i \in 1 .. Len(ps) : numbered'[nextOut + (i - 1)] = ps[i]
<1>1. /\ Len(ps) \in Nat /\ nextOut \in Nat /\ DOMAIN numbered = 0 .. nextOut - 1
      /\ \A i \in 1 .. Len(ps) : ps[i] \in Payloads
      /\ \A n \in 0 .. nextOut - 1 : numbered[n] \in Payloads
  BY PlacesAre, ElementsOf
<1>2. /\ nextOut' = nextOut + Len(ps)
      /\ numbered' = [n \in DOMAIN numbered \cup nextOut .. nextOut + Len(ps) - 1 |->
                        IF n < nextOut THEN numbered[n] ELSE ps[n - nextOut + 1]]
  BY DEF AssignNumbers
<1>3. DOMAIN numbered \cup nextOut .. nextOut + Len(ps) - 1 = 0 .. nextOut' - 1
  BY <1>1, <1>2
<1>4. \A n \in 0 .. nextOut' - 1 :
            numbered'[n] = IF n < nextOut THEN numbered[n] ELSE ps[n - nextOut + 1]
  BY <1>2, <1>3
<1>5. \A n \in 0 .. nextOut' - 1 : n >= nextOut => n - nextOut + 1 \in 1 .. Len(ps)
  BY <1>1, <1>2
<1>6. \A n \in 0 .. nextOut' - 1 : numbered'[n] \in Payloads
  BY <1>1, <1>4, <1>5
<1>7. \A i \in 1 .. Len(ps) : /\ nextOut + (i - 1) \in 0 .. nextOut' - 1
                              /\ ~ (nextOut + (i - 1) < nextOut)
                              /\ (nextOut + (i - 1)) - nextOut + 1 = i
  BY <1>1, <1>2
<1>8. \A i \in 1 .. Len(ps) : numbered'[nextOut + (i - 1)] = ps[i]
  BY <1>4, <1>7
<1>9. \A n \in 0 .. nextOut - 1 : numbered'[n] = numbered[n]
  BY <1>1, <1>2, <1>4
<1> QED BY <1>1, <1>2, <1>3, <1>6, <1>8, <1>9

\* The packets of a message, and the places they get.
ChunksOf(m) == [i \in 1 .. Chunks[m] |-> [msg |-> m, chunk |-> i]]
PlacesFrom(n, c) == [i \in 1 .. c |-> n + i - 1]

LEMMA ChunksAre ==
    ASSUME NEW m \in 1 .. NumMessages
    PROVE  /\ Chunks[m] \in Nat \ {0} /\ ChunksOf(m) \in Seq(Payloads)
           /\ Len(ChunksOf(m)) = Chunks[m]
           /\ \A i \in 1 .. Chunks[m] : ChunksOf(m)[i] = [msg |-> m, chunk |-> i]
<1>1. Chunks[m] \in Nat \ {0}
  BY ChannelAssumption
<1>2. \A i \in 1 .. Chunks[m] : [msg |-> m, chunk |-> i] \in Payloads
  BY DEF Payloads
<1> QED BY <1>1, <1>2 DEF ChunksOf

LEMMA PlacesOfChunks ==
    ASSUME NEW n \in Nat, NEW c \in Nat \ {0}
    PROVE  /\ PlacesFrom(n, c) \in Seq(0 .. n + c - 1) /\ Len(PlacesFrom(n, c)) = c
           /\ Ordered(PlacesFrom(n, c)) /\ PlacesFrom(n, c)[1] = n
           /\ \A k : k \in ToSet(PlacesFrom(n, c)) <=> k \in n .. n + c - 1
<1> DEFINE u == PlacesFrom(n, c)
<1>1. /\ Len(u) = c /\ DOMAIN u = 1 .. c /\ \A i \in 1 .. c : u[i] = n + i - 1
      /\ \A i \in 1 .. c : n + i - 1 \in 0 .. n + c - 1
      /\ u \in Seq(0 .. n + c - 1)
  BY DEF PlacesFrom
<1> HIDE DEF u
<1>2. Ordered(u)
  BY <1>1 DEF Ordered
<1>3. \A k : k \in ToSet(u) <=> \E i \in 1 .. c : u[i] = k
  BY <1>1, InList
<1>4. ASSUME NEW k, k \in ToSet(u) PROVE k \in n .. n + c - 1
  BY <1>1, <1>3, <1>4
<1>5. ASSUME NEW k \in n .. n + c - 1 PROVE k \in ToSet(u)
  <2>1. k - n + 1 \in 1 .. c /\ n + (k - n + 1) - 1 = k
    OBVIOUS
  <2> QED BY <1>1, <1>3, <2>1
<1>6. u[1] = n
  BY <1>1
<1> QED BY <1>1, <1>2, <1>4, <1>5, <1>6 DEF u

\* A sequence of what was numbered is one of what is numbered now.
LEMMA PlacesGrow ==
    ASSUME TypeOK, NEW c \in Nat, nextOut' = nextOut + c
    PROVE  /\ 0 .. nextOut - 1 \subseteq 0 .. nextOut' - 1
           /\ \A s \in Seq(0 .. nextOut - 1) : s \in Seq(0 .. nextOut' - 1)
<1> DEFINE A == 0 .. nextOut - 1
           B == 0 .. nextOut' - 1
<1>1. A \subseteq B
  <2>1. nextOut \in Nat
    BY PlacesAre
  <2> QED BY <2>1
<1> HIDE DEF A, B
<1>2. \A s \in Seq(A) : s \in Seq(B)
  BY <1>1, MorePlaces
<1> QED BY <1>1, <1>2 DEF A, B

\* A message whose packets all get numbers.
LEMMA ProcessKeeps ==
    ASSUME Room, ChannelInv, NEW m \in 1 .. NumMessages, Process(m),
           Len(queuedReliables) + Chunks[m] + MaxPings < MaxWindow,
           UNCHANGED <<sent, pings, wire, acks, nextIn, incoming>>
    PROVE  PlacesOK' /\ NumbersInv'
<1> DEFINE c == Chunks[m]
           q == queuedReliables
           u == PlacesFrom(nextOut, c)
<1>0. TypeOK /\ NumbersInv
  BY DEF ChannelInv
<1>1. /\ c \in Nat \ {0} /\ ChunksOf(m) \in Seq(Payloads) /\ Len(ChunksOf(m)) = c
  BY ChunksAre
<1>2. /\ AssignNumbers(ChunksOf(m)) /\ queuedReliables' = q \o u
      /\ \A i \in 0 .. c - 1 : HasSequenceNumber(nextOut + i)
  BY DEF Process, CanProcess, ChunksOf, PlacesFrom
<1>3. /\ nextOut' = nextOut + c /\ nextOut' \in Nat
      /\ numbered' \in [0 .. nextOut' - 1 -> Payloads] /\ DOMAIN numbered' = 0 .. nextOut' - 1
  BY <1>0, <1>1, <1>2, Assigned
<1>4. /\ nextOut \in Nat /\ nextIn \in Nat /\ q \in Seq(0 .. nextOut - 1)
      /\ sent \in Seq(0 .. nextOut - 1) /\ incoming \in Seq(0 .. nextOut - 1)
      /\ wire \subseteq 0 .. nextOut - 1 /\ acks \subseteq 0 .. nextOut - 1
      /\ pings \in 0 .. MaxPings /\ MaxPings \in Nat /\ MaxWindow \in Nat
  BY <1>0, PlacesAre
<1>5. /\ u \in Seq(0 .. nextOut' - 1) /\ Len(u) = c /\ Ordered(u) /\ u[1] = nextOut
      /\ \A k : k \in ToSet(u) <=> k \in nextOut .. nextOut' - 1
  <2>1. nextOut + c - 1 = nextOut' - 1
    BY <1>1, <1>3, <1>4
  <2>2. /\ u \in Seq(0 .. nextOut + c - 1) /\ Len(u) = c /\ Ordered(u) /\ u[1] = nextOut
        /\ \A k : k \in ToSet(u) <=> k \in nextOut .. nextOut + c - 1
    BY <1>1, <1>4, PlacesOfChunks
  <2> HIDE DEF u, c
  <2> QED BY <2>1, <2>2
<1>6. /\ 0 .. nextOut - 1 \subseteq 0 .. nextOut' - 1
      /\ q \in Seq(0 .. nextOut' - 1) /\ sent \in Seq(0 .. nextOut' - 1)
      /\ incoming \in Seq(0 .. nextOut' - 1)
  BY <1>0, <1>1, <1>3, <1>4, PlacesGrow
<1>7. \A n \in ToSet(q) : n \in 0 .. nextOut - 1
  BY <1>4, InList, ElementsOf
<1> HIDE DEF c, q, u
<1>8. /\ q \o u \in Seq(0 .. nextOut' - 1) /\ Ordered(q \o u) /\ Len(q \o u) = Len(q) + c
      /\ ToSet(q \o u) = ToSet(q) \cup ToSet(u)
  <2>1. \A a \in ToSet(q), b \in ToSet(u) : a < b
    BY <1>4, <1>5, <1>7
  <2>2. Ordered(q) /\ 0 .. nextOut' - 1 \subseteq Int
    BY <1>0 DEF NumbersInv, Sorted, q
  <2> DEFINE E == 0 .. nextOut' - 1
  <2>3. q \in Seq(E) /\ u \in Seq(E) /\ Ordered(u) /\ E \subseteq Int /\ Ordered(q)
    BY <1>5, <1>6, <2>2
  <2> HIDE DEF E
  <2>4. /\ q \o u \in Seq(E) /\ Ordered(q \o u) /\ Len(q \o u) = Len(q) + Len(u)
        /\ ToSet(q \o u) = ToSet(q) \cup ToSet(u)
    BY <2>1, <2>3, Lengthened, ZenonT(40)
  <2> QED BY <1>5, <2>4 DEF E
<1>9. PlacesOK'
  BY <1>2, <1>3, <1>4, <1>6, <1>8 DEF PlacesOK
<1>10. Sorted'
  BY <1>0, <1>2, <1>8 DEF NumbersInv, Sorted
<1>11. SentFits'
  <2>1. \A n \in ToSet(sent) : nextOut + c - n <= MaxWindow
    BY <1>1, <1>2, NumbersFit DEF c
  <2>2. \A n \in ToSet(sent) : n \in Int
    BY <1>4, InList, ElementsOf
  <2> QED BY <1>1, <1>3, <1>4, <2>1, <2>2 DEF SentFits
<1>12. QueueFits'
  <2>1. Len(q) \in Nat /\ Len(q) + c + MaxPings < MaxWindow
    BY <1>4, ElementsOf DEF c, q
  <2>2. CASE q # <<>>
    <3>1. /\ q[1] \in ToSet(q) /\ Head(q) = q[1] /\ Len(q) > 0
          /\ nextOut - q[1] <= Len(q) + pings /\ \A n \in ToSet(q) : q[1] <= n
      <4>1. 0 .. nextOut - 1 \subseteq Int /\ Ordered(q)
        BY <1>0 DEF NumbersInv, Sorted, q
      <4>2. Head(q) \in ToSet(q) /\ Head(q) = q[1] /\ Len(q) > 0 /\ \A n \in ToSet(q) : Head(q) <= n
        BY <1>4, <2>2, <4>1, Shortened, ElementsOf
      <4> QED BY <1>0, <2>2, <4>2 DEF NumbersInv, QueueFits, q
    <3>2. (q \o u)[1] = q[1] /\ q \o u # <<>> /\ Head(q \o u) = (q \o u)[1]
      <4>1. (q \o u)[1] = q[1]
        BY <1>4, <1>5, <1>6, <3>1, <2>1, <1>1, ConcatElements
      <4>2. q \o u # <<>>
        BY <1>8, <1>1, <2>1
      <4> QED BY <1>8, <4>1, <4>2, ElementsOf
    <3>3. ASSUME NEW n \in ToSet(q \o u) PROVE nextOut' - n + (MaxPings - pings) < MaxWindow
      <4>1. n \in Int /\ q[1] \in Int /\ q[1] <= n
        BY <1>4, <1>5, <1>7, <1>8, <3>1
      <4> QED BY <1>1, <1>3, <1>4, <2>1, <3>1, <4>1
    <3>4. nextOut' - Head(q \o u) <= Len(q \o u) + pings
      <4>1. q[1] \in Int /\ Head(q \o u) = q[1] /\ Len(q \o u) = Len(q) + c
        BY <1>4, <1>7, <1>8, <3>1, <3>2
      <4>2. /\ nextOut \in Int /\ c \in Int /\ pings \in Int /\ Len(q) \in Int
            /\ nextOut' = nextOut + c /\ nextOut - q[1] <= Len(q) + pings
        BY <1>1, <1>3, <1>4, <2>1, <3>1
      <4> DEFINE L == Len(q)
                 h == q[1]
      <4>3. /\ nextOut \in Int /\ c \in Int /\ pings \in Int /\ L \in Int /\ h \in Int
            /\ nextOut' = nextOut + c /\ nextOut - h <= L + pings
        BY <4>1, <4>2
      <4> HIDE DEF L, h
      <4>4. nextOut' - h <= (L + c) + pings
        BY <4>3
      <4> QED BY <4>1, <4>4 DEF L, h
    <3> QED BY <1>2, <1>4, <3>3, <3>4 DEF QueueFits
  <2>3. CASE q = <<>>
    <3>1. q \o u = u /\ Head(u) = nextOut /\ u # <<>> /\ Len(q) = 0
      BY <1>1, <1>5, <2>3, ElementsOf
    <3>2. \A n \in ToSet(u) : nextOut' - n + (MaxPings - pings) < MaxWindow
      BY <1>1, <1>3, <1>4, <1>5, <2>1, <3>1
    <3>3. nextOut' - Head(u) <= Len(u) + pings
      BY <1>1, <1>3, <1>4, <1>5, <3>1
    <3> QED BY <1>2, <1>4, <3>1, <3>2, <3>3 DEF QueueFits
  <2> QED BY <2>2, <2>3
<1>13. IncomingFits' /\ nextIn' <= nextOut' /\ AckedIsHeld'
  BY <1>0, <1>1, <1>3, <1>4 DEF NumbersInv, IncomingFits, AckedIsHeld
<1>14. NoPacketForgotten'
  <2> SUFFICES ASSUME NEW n \in 0 .. nextOut' - 1, ~ (n < nextIn), n \notin ToSet(incoming)
               PROVE  n \in ToSet(sent) \cup ToSet(q \o u)
    BY <1>2 DEF NoPacketForgotten
  <2>1. CASE n < nextOut
    <3>1. n \in 0 .. nextOut - 1
      BY <1>4, <2>1
    <3> QED BY <1>0, <1>8, <3>1 DEF NumbersInv, NoPacketForgotten, q
  <2>2. CASE n >= nextOut
    <3>1. n \in nextOut .. nextOut' - 1
      BY <1>3, <1>4, <2>2
    <3> QED BY <1>5, <1>8, <3>1
  <2> QED BY <1>4, <2>1, <2>2
<1> QED BY <1>9, <1>10, <1>11, <1>12, <1>13, <1>14 DEF NumbersInv

LEMMA Appended ==
    ASSUME NEW E, E \subseteq Int, NEW s \in Seq(E), NEW n \in Int, n \in E, Ordered(s),
           \A m \in ToSet(s) : m < n
    PROVE  /\ Append(s, n) \in Seq(E) /\ Ordered(Append(s, n))
           /\ Len(Append(s, n)) = Len(s) + 1 /\ Append(s, n) # <<>>
           /\ \A m : m \in ToSet(Append(s, n)) <=> m \in ToSet(s) \/ m = n
           /\ Head(Append(s, n)) = IF s = <<>> THEN n ELSE Head(s)
<1> DEFINE u == <<n>>
<1>1. u \in Seq(E) /\ Len(u) = 1 /\ u[1] = n /\ DOMAIN u = 1 .. 1
  OBVIOUS
<1>2. Append(s, n) = s \o u
  OBVIOUS
<1> HIDE DEF u
<1>3. Ordered(u)
  BY <1>1 DEF Ordered
<1>4. ToSet(u) = {n}
  BY <1>1 DEF ToSet
<1>5. \A a \in ToSet(s), b \in ToSet(u) : a < b
  BY <1>4
<1>6. /\ s \o u \in Seq(E) /\ Ordered(s \o u) /\ Len(s \o u) = Len(s) + 1
      /\ ToSet(s \o u) = ToSet(s) \cup {n}
  <2>1. /\ s \o u \in Seq(E) /\ Ordered(s \o u) /\ Len(s \o u) = Len(s) + Len(u)
        /\ ToSet(s \o u) = ToSet(s) \cup ToSet(u)
    BY <1>1, <1>3, <1>5, Lengthened
  <2> QED BY <1>1, <1>4, <2>1
<1>7. Append(s, n) # <<>> /\ Head(Append(s, n)) = IF s = <<>> THEN n ELSE Head(s)
  <2> DEFINE t == Append(s, n)
  <2>1. Len(t) = Len(s) + 1 /\ t[1] = (IF Len(s) = 0 THEN n ELSE s[1]) /\ Len(s) \in Nat
    OBVIOUS
  <2>2. t \in Seq(E)
    OBVIOUS
  <2> HIDE DEF t
  <2>3. t # <<>> /\ Head(t) = t[1]
    BY <2>1, <2>2, ElementsOf
  <2>4. s = <<>> \/ (Len(s) > 0 /\ Head(s) = s[1])
    BY ElementsOf
  <2> QED BY <2>1, <2>3, <2>4 DEF t
<1> QED BY <1>2, <1>6, <1>7

\* What the sender does to the packets decides about the numbers.
LEMMA SendDirectlyKeeps == ASSUME Room, ChannelInv, SendDirectly PROVE ChannelInv'
<1> DEFINE m == accepted + 1
<1>1. /\ m \in 1 .. NumMessages /\ accepted' = m /\ Process(m)
      /\ Len(queuedReliables) + 1 < window \div 2
      /\ UNCHANGED <<queuedCommands, sent, window, pings, wire, acks, receiverVars>>
  <2>1. accepted \in 0 .. NumMessages /\ NumMessages \in Nat
    BY PlacesAre DEF ChannelInv
  <2> QED BY <2>1 DEF SendDirectly, Direct
<1>2. Len(queuedReliables) + Chunks[m] + MaxPings < MaxWindow
  <2>1. /\ Len(queuedReliables) \in Nat /\ MaxPings \in Nat /\ window \in Windows
        /\ window \in 1 .. MaxWindow /\ MaxWindow \in Nat
    BY PlacesAre, ElementsOf DEF ChannelInv
  <2>2. Chunks[m] \in Nat /\ window \div 2 \in Nat
    BY <1>1, <2>1, ChunksAre
  <2>3. window \div 2 + Chunks[m] + MaxPings <= MaxWindow
    BY <1>1, <2>1 DEF Room
  <2> HIDE DEF m
  <2> QED BY <1>1, <2>1, <2>2, <2>3
<1> HIDE DEF m
<1>3. PlacesOK' /\ NumbersInv'
  BY <1>1, <1>2, ProcessKeeps DEF receiverVars
<1>4. TypeOK'
  <2>1. /\ accepted' \in 0 .. NumMessages /\ queuedCommands' \in Seq(1 .. NumMessages)
        /\ window' \in Windows /\ pings' \in 0 .. MaxPings
        /\ splits' \subseteq Payloads /\ delivered' \in Seq(1 .. NumMessages)
    BY <1>1, ChannelAssumption DEF ChannelInv, TypeOK, receiverVars
  <2> QED BY <1>3, <2>1 DEF TypeOK, PlacesOK
<1> QED BY <1>3, <1>4 DEF ChannelInv

LEMMA RunCommandQueuesKeeps == ASSUME Room, ChannelInv, RunCommandQueues PROVE ChannelInv'
<1> DEFINE m == Head(queuedCommands)
<1>1. /\ queuedCommands # <<>> /\ Process(m) /\ queuedCommands' = Tail(queuedCommands)
      /\ Len(queuedReliables) < MaxRequeued
      /\ UNCHANGED <<accepted, sent, window, pings, wire, acks, receiverVars>>
  BY DEF RunCommandQueues
<1>2. m \in 1 .. NumMessages /\ queuedCommands' \in Seq(1 .. NumMessages)
  <2>1. queuedCommands \in Seq(1 .. NumMessages)
    BY DEF ChannelInv, TypeOK
  <2>2. Head(queuedCommands) \in 1 .. NumMessages /\ Tail(queuedCommands) \in Seq(1 .. NumMessages)
    <3>1. \A i \in 1 .. Len(queuedCommands) : queuedCommands[i] \in 1 .. NumMessages
      BY <2>1, ElementsOf
    <3>2. Head(queuedCommands) = queuedCommands[1] /\ 1 \in 1 .. Len(queuedCommands)
      BY <1>1, <2>1, ElementsOf
    <3> QED BY <1>1, <2>1, <3>1, <3>2, TailElements
  <2> QED BY <1>1, <2>2
<1>3. Len(queuedReliables) + Chunks[m] + MaxPings < MaxWindow
  <2>1. /\ Len(queuedReliables) \in Nat /\ MaxPings \in Nat /\ MaxRequeued \in Nat
        /\ MaxWindow \in Nat
    BY PlacesAre, ElementsOf DEF ChannelInv
  <2>2. Chunks[m] \in Nat
    BY <1>2, ChunksAre
  <2>3. MaxRequeued + Chunks[m] + MaxPings <= MaxWindow
    BY <1>2 DEF Room
  <2> HIDE DEF m
  <2> QED BY <1>1, <2>1, <2>2, <2>3
<1> HIDE DEF m
<1>4. PlacesOK' /\ NumbersInv'
  BY <1>1, <1>2, <1>3, ProcessKeeps DEF receiverVars
<1>5. TypeOK'
  <2>1. /\ accepted' \in 0 .. NumMessages /\ queuedCommands' \in Seq(1 .. NumMessages)
        /\ window' \in Windows /\ pings' \in 0 .. MaxPings
        /\ splits' \subseteq Payloads /\ delivered' \in Seq(1 .. NumMessages)
    BY <1>1, <1>2 DEF ChannelInv, TypeOK, receiverVars
  <2> QED BY <1>4, <2>1 DEF TypeOK, PlacesOK
<1> QED BY <1>4, <1>5 DEF ChannelInv

LEMMA SendLaterKeeps == ASSUME ChannelInv, SendLater PROVE ChannelInv'
<1>1. /\ accepted' = accepted + 1 /\ accepted + 1 \in 1 .. NumMessages
      /\ queuedCommands' = Append(queuedCommands, accepted + 1)
      /\ UNCHANGED <<queuedReliables, sent, nextOut, window, pings, numbered, wire, acks,
                     receiverVars>>
  <2>1. accepted \in 0 .. NumMessages /\ NumMessages \in Nat
    BY PlacesAre DEF ChannelInv
  <2> QED BY <2>1 DEF SendLater
<1>2. queuedCommands' \in Seq(1 .. NumMessages) /\ accepted' \in 0 .. NumMessages
  BY <1>1 DEF ChannelInv, TypeOK
<1>3. TypeOK'
  BY <1>1, <1>2 DEF ChannelInv, TypeOK, receiverVars
<1>4. NumbersInv'
  BY <1>1 DEF ChannelInv, NumbersInv, Sorted, SentFits, QueueFits, IncomingFits, AckedIsHeld,
              NoPacketForgotten, receiverVars
<1> QED BY <1>3, <1>4 DEF ChannelInv

LEMMA SendQueuedKeeps == ASSUME Room, ChannelInv, SendQueued PROVE ChannelInv'
<1> DEFINE q == queuedReliables
           n == Head(q)
           E == 0 .. nextOut - 1
           base == nextOut - MaxWindow
<1>0. TypeOK /\ NumbersInv
  BY DEF ChannelInv
<1>1. /\ nextOut \in Nat /\ nextIn \in Nat /\ q \in Seq(E) /\ sent \in Seq(E)
      /\ E \subseteq Int /\ DOMAIN numbered = E
      /\ pings \in 0 .. MaxPings /\ MaxPings \in Nat /\ MaxWindow \in Nat \ {0}
      /\ wire \subseteq E
  BY <1>0, PlacesAre
<1>2. /\ q # <<>> /\ queuedReliables' = Tail(q) /\ wire' = wire \cup {n}
      /\ sent' = insert(sent, n, (SeqNumOf(nextOut) - MaxWindow) % SeqSpace)
      /\ UNCHANGED <<accepted, queuedCommands, nextOut, window, pings, numbered, acks,
                     receiverVars>>
  BY DEF SendQueued, sendAsPacketReliable
<1>3. (SeqNumOf(nextOut) - MaxWindow) % SeqSpace = SeqNumOf(base)
  BY <1>1, SpanStart
<1>4. Ordered(q) /\ Ordered(sent)
  BY <1>0 DEF NumbersInv, Sorted
<1> HIDE DEF q, E, n, base
<1>5. /\ Tail(q) \in Seq(E) /\ Ordered(Tail(q)) /\ Len(Tail(q)) = Len(q) - 1
      /\ n \in E /\ n \in ToSet(q) /\ ToSet(Tail(q)) = ToSet(q) \ {n}
      /\ \A a \in ToSet(q) : n <= a
  BY <1>1, <1>2, <1>4, Shortened DEF n
<1>6. n \in 0 .. nextOut - 1 /\ n - base \in 1 .. MaxWindow - 1 /\ base \in Int
  <2>1. n \in 0 .. nextOut - 1 /\ nextOut - n + (MaxPings - pings) < MaxWindow
    BY <1>0, <1>5 DEF NumbersInv, QueueFits, q, E
  <2> QED BY <1>1, <2>1 DEF base
<1>7. \A i \in DOMAIN sent : sent[i] - base \in 0 .. MaxWindow - 1
  <2> SUFFICES ASSUME NEW i \in DOMAIN sent
               PROVE  sent[i] - base \in 0 .. MaxWindow - 1
    OBVIOUS
  <2>1. sent[i] \in ToSet(sent) /\ sent[i] \in 0 .. nextOut - 1
    BY <1>1, ElementsOf DEF ToSet, E
  <2>2. nextOut - sent[i] <= MaxWindow
    BY <1>0, <2>1 DEF NumbersInv, SentFits
  <2> QED BY <1>1, <2>1, <2>2 DEF base
<1>8. sent' \in Seq(E) /\ Ordered(sent') /\ ToSet(sent') = ToSet(sent) \cup {n}
  <2>1. sent' = insert(sent, n, SeqNumOf(base))
    BY <1>2, <1>3
  <2>2. /\ E \subseteq Int /\ sent \in Seq(E) /\ n \in E /\ base \in Int /\ Ordered(sent)
        /\ \A i \in DOMAIN sent : sent[i] - base \in 0 .. MaxWindow - 1
        /\ n - base \in 1 .. MaxWindow - 1
    BY <1>1, <1>4, <1>5, <1>6, <1>7
  <2>3. /\ insert(sent, n, SeqNumOf(base)) \in Seq(E)
        /\ Ordered(insert(sent, n, SeqNumOf(base)))
        /\ \A m : m \in ToSet(insert(sent, n, SeqNumOf(base))) <=> m \in ToSet(sent) \/ m = n
    BY <1>6, <2>2, Inserted
  <2> QED BY <2>1, <2>3
<1>9. TypeOK'
  BY <1>0, <1>1, <1>2, <1>5, <1>8 DEF TypeOK, receiverVars
<1>10. Sorted'
  BY <1>0, <1>2, <1>5, <1>8 DEF NumbersInv, Sorted, receiverVars
<1>11. SentFits'
  <2>1. nextOut - n <= MaxWindow
    BY <1>1, <1>6 DEF base
  <2> QED BY <1>0, <1>2, <1>8, <2>1 DEF NumbersInv, SentFits
<1>12. QueueFits'
  <2>1. \A a \in ToSet(Tail(q)) : nextOut - a + (MaxPings - pings) < MaxWindow
    BY <1>0, <1>5 DEF NumbersInv, QueueFits, q
  <2>2. Tail(q) # <<>> => nextOut - Head(Tail(q)) <= Len(Tail(q)) + pings
    <3> SUFFICES ASSUME Tail(q) # <<>>
                 PROVE  nextOut - Head(Tail(q)) <= Len(Tail(q)) + pings
      OBVIOUS
    <3> DEFINE b == Head(Tail(q))
    <3>1. b \in ToSet(Tail(q)) /\ b \in E
      BY <1>1, <1>5, Shortened
    <3>2. n < b
      BY <1>1, <1>5, <3>1
    <3>3. nextOut - n <= Len(q) + pings /\ Len(q) \in Nat
      BY <1>0, <1>1, <1>2, ElementsOf DEF NumbersInv, QueueFits, q, n
    <3> HIDE DEF b
    <3>4. nextOut - b <= Len(Tail(q)) + pings
      <4>1. b \in Int /\ n \in Int
        BY <1>1, <1>5, <3>1
      <4> QED BY <1>1, <1>5, <3>2, <3>3, <4>1
    <3> QED BY <3>4 DEF b
  <2> QED BY <1>2, <2>1, <2>2 DEF QueueFits
<1>13. IncomingFits' /\ nextIn' <= nextOut' /\ AckedIsHeld'
  BY <1>0, <1>2 DEF NumbersInv, IncomingFits, AckedIsHeld, receiverVars
<1>14. NoPacketForgotten'
  BY <1>0, <1>2, <1>5, <1>8 DEF NumbersInv, NoPacketForgotten, receiverVars, q
<1> QED BY <1>9, <1>10, <1>11, <1>12, <1>13, <1>14 DEF ChannelInv, NumbersInv

LEMMA SendPingKeeps == ASSUME Room, ChannelInv, SendPing PROVE ChannelInv'
<1> DEFINE q == queuedReliables
           E == 0 .. nextOut
           base == nextOut + 1 - MaxWindow
<1>0. TypeOK /\ NumbersInv
  BY DEF ChannelInv
<1>1. /\ nextOut \in Nat /\ nextIn \in Nat /\ E \subseteq Int
      /\ pings \in 0 .. MaxPings /\ MaxPings \in Nat /\ MaxWindow \in Nat \ {0}
      /\ wire \subseteq 0 .. nextOut - 1 /\ acks \subseteq 0 .. nextOut - 1
      /\ window \in 1 .. MaxWindow /\ window + 2 <= MaxWindow
  BY <1>0, PlacesAre DEF Room
<1>2. /\ pings < MaxPings /\ pings' = pings + 1 /\ HasSequenceNumber(nextOut)
      /\ AssignNumbers(<<Ping>>)
      /\ \/ /\ sent' = insert(sent, nextOut, (SeqNumOf(nextOut + 1) - MaxWindow) % SeqSpace)
            /\ wire' = wire \cup {nextOut} /\ queuedReliables' = q
         \/ queuedReliables' = Append(q, nextOut) /\ sent' = sent /\ wire' = wire
      /\ UNCHANGED <<accepted, queuedCommands, window, acks, receiverVars>>
  BY DEF SendPing, sendAsPacketReliable
<1>3. /\ nextOut' = nextOut + 1
      /\ numbered' \in [0 .. nextOut' - 1 -> Payloads] /\ DOMAIN numbered' = E
  <2> DEFINE ps == <<Ping>>
  <2>1. ps \in Seq(Payloads) /\ Len(ps) = 1
    BY DEF Payloads
  <2> HIDE DEF ps
  <2>2. nextOut' = nextOut + Len(ps) /\ numbered' \in [0 .. nextOut' - 1 -> Payloads]
    BY <1>0, <1>2, <2>1, Assigned DEF ps
  <2> QED BY <1>1, <2>1, <2>2
<1>4. sent \in Seq(E) /\ q \in Seq(E) /\ incoming \in Seq(E)
  <2>1. 0 .. nextOut - 1 \subseteq E
    BY <1>1
  <2>2. /\ sent \in Seq(0 .. nextOut - 1) /\ q \in Seq(0 .. nextOut - 1)
        /\ incoming \in Seq(0 .. nextOut - 1)
    BY <1>0, PlacesAre
  <2> HIDE DEF E, q
  <2> QED BY <2>1, <2>2, MorePlaces
<1>5. \A a \in ToSet(sent) : a \in 0 .. nextOut - 1 /\ nextOut + 1 - a <= MaxWindow
  <2>1. \A i \in 0 .. 1 - 1 : HasSequenceNumber(nextOut + i)
    BY <1>1, <1>2
  <2>2. \A a \in ToSet(sent) : nextOut + 1 - a <= MaxWindow
    BY <2>1, NumbersFit
  <2> QED BY <1>0, <2>2, ListPlaces
<1>6. \A a \in ToSet(q) : /\ a \in 0 .. nextOut - 1
                          /\ nextOut - a + (MaxPings - pings) < MaxWindow
  BY <1>0, ListPlaces DEF NumbersInv, QueueFits
<1>7. Ordered(q) /\ Ordered(sent) /\ Ordered(incoming)
  BY <1>0 DEF NumbersInv, Sorted
<1>8. q # <<>> => nextOut - Head(q) <= Len(q) + pings /\ Head(q) \in 0 .. nextOut - 1
  <2>1. q \in Seq(0 .. nextOut - 1) /\ 0 .. nextOut - 1 \subseteq Int /\ Ordered(q)
    BY <1>0, <1>7, PlacesAre
  <2>2. q # <<>> => Head(q) \in 0 .. nextOut - 1
    BY <2>1, Shortened
  <2> QED BY <1>0, <2>2 DEF NumbersInv, QueueFits
<1> HIDE DEF q, E
<1>9. /\ sent' \in Seq(E) /\ Ordered(sent')
      /\ ToSet(sent') \in {ToSet(sent), ToSet(sent) \cup {nextOut}}
      /\ queuedReliables' \in Seq(E) /\ Ordered(queuedReliables')
      /\ ToSet(queuedReliables') \in {ToSet(q), ToSet(q) \cup {nextOut}}
      /\ ToSet(sent') \cup ToSet(queuedReliables') = ToSet(sent) \cup ToSet(q) \cup {nextOut}
      /\ \/ queuedReliables' = q
         \/ /\ Len(queuedReliables') = Len(q) + 1
            /\ Head(queuedReliables') = IF q = <<>> THEN nextOut ELSE Head(q)
      /\ wire' \subseteq E
  <2>1. CASE /\ sent' = insert(sent, nextOut, (SeqNumOf(nextOut + 1) - MaxWindow) % SeqSpace)
             /\ wire' = wire \cup {nextOut} /\ queuedReliables' = q
    <3>1. (SeqNumOf(nextOut + 1) - MaxWindow) % SeqSpace = SeqNumOf(base)
      BY <1>1, SpanStart
    <3>2. base \in Int /\ nextOut - base \in 1 .. MaxWindow - 1 /\ nextOut \in E
      BY <1>1 DEF E
    <3>3. \A i \in DOMAIN sent : sent[i] - base \in 0 .. MaxWindow - 1
      BY <1>1, <1>5 DEF ToSet
    <3> HIDE DEF base
    <3>4. sent' \in Seq(E) /\ Ordered(sent') /\ ToSet(sent') = ToSet(sent) \cup {nextOut}
      <4>1. sent' = insert(sent, nextOut, SeqNumOf(base))
        BY <2>1, <3>1
      <4>2. /\ E \subseteq Int /\ sent \in Seq(E) /\ nextOut \in E /\ base \in Int
            /\ Ordered(sent) /\ \A i \in DOMAIN sent : sent[i] - base \in 0 .. MaxWindow - 1
            /\ nextOut - base \in 1 .. MaxWindow - 1
        BY <1>1, <1>4, <1>7, <3>2, <3>3
      <4>3. /\ insert(sent, nextOut, SeqNumOf(base)) \in Seq(E)
            /\ Ordered(insert(sent, nextOut, SeqNumOf(base)))
            /\ \A m : m \in ToSet(insert(sent, nextOut, SeqNumOf(base)))
                      <=> m \in ToSet(sent) \/ m = nextOut
        BY <1>1, <4>2, Inserted
      <4> QED BY <4>1, <4>3
    <3>5. wire' \subseteq E
      BY <1>1, <2>1 DEF E
    <3> QED BY <1>4, <1>7, <2>1, <3>4, <3>5
  <2>2. CASE queuedReliables' = Append(q, nextOut) /\ sent' = sent /\ wire' = wire
    <3>1. nextOut \in E /\ wire \subseteq E /\ \A a \in ToSet(q) : a < nextOut
      BY <1>1, <1>6 DEF E
    <3>2. /\ Append(q, nextOut) \in Seq(E) /\ Ordered(Append(q, nextOut))
          /\ Len(Append(q, nextOut)) = Len(q) + 1
          /\ \A m : m \in ToSet(Append(q, nextOut)) <=> m \in ToSet(q) \/ m = nextOut
          /\ Head(Append(q, nextOut)) = IF q = <<>> THEN nextOut ELSE Head(q)
      <4>1. /\ E \subseteq Int /\ q \in Seq(E) /\ nextOut \in E /\ Ordered(q)
            /\ \A a \in ToSet(q) : a < nextOut
        BY <1>1, <1>4, <1>7, <3>1
      <4>2. nextOut \in Int
        BY <1>1
      <4> HIDE DEF E, q
      <4>3. /\ Append(q, nextOut) \in Seq(E) /\ Ordered(Append(q, nextOut))
            /\ Len(Append(q, nextOut)) = Len(q) + 1 /\ Append(q, nextOut) # <<>>
            /\ \A m : m \in ToSet(Append(q, nextOut)) <=> m \in ToSet(q) \/ m = nextOut
            /\ Head(Append(q, nextOut)) = IF q = <<>> THEN nextOut ELSE Head(q)
        BY <4>1, <4>2, Appended, ZenonT(40)
      <4> QED BY <4>3
    <3> QED BY <1>4, <1>7, <2>2, <3>1, <3>2
  <2> QED BY <1>2, <2>1, <2>2
<1>10. TypeOK'
  <2>1. /\ nextOut' \in Nat /\ pings' \in 0 .. MaxPings /\ acks' \subseteq E /\ DOMAIN numbered' = E
    BY <1>1, <1>2, <1>3 DEF E
  <2>2. /\ accepted' \in 0 .. NumMessages /\ queuedCommands' \in Seq(1 .. NumMessages)
        /\ window' \in Windows /\ splits' \subseteq Payloads /\ delivered' \in Seq(1 .. NumMessages)
        /\ nextIn' \in Nat /\ incoming' \in Seq(E)
    BY <1>0, <1>2, <1>4 DEF TypeOK, receiverVars
  <2> QED BY <1>3, <1>9, <2>1, <2>2 DEF TypeOK
<1>11. Sorted'
  BY <1>2, <1>7, <1>9 DEF Sorted, receiverVars
<1>12. SentFits'
  BY <1>1, <1>3, <1>5, <1>9 DEF SentFits
<1>13. QueueFits'
  <2>1. \A a \in ToSet(queuedReliables') : nextOut' - a + (MaxPings - pings') < MaxWindow
    <3> SUFFICES ASSUME NEW a \in ToSet(queuedReliables')
                 PROVE  nextOut' - a + (MaxPings - pings') < MaxWindow
      OBVIOUS
    <3>1. CASE a \in ToSet(q)
      BY <1>1, <1>2, <1>3, <1>6, <3>1
    <3>2. CASE a = nextOut
      <4>1. MaxPings < MaxWindow
        BY DEF Room
      <4> QED BY <1>1, <1>2, <1>3, <3>2, <4>1
    <3> QED BY <1>9, <3>1, <3>2
  <2>2. Len(q) \in Nat
    BY <1>4, ElementsOf
  <2>3. queuedReliables' # <<>> =>
            nextOut' - Head(queuedReliables') <= Len(queuedReliables') + pings'
    <3>1. CASE queuedReliables' = q
      BY <1>1, <1>2, <1>3, <1>8, <2>2, <3>1
    <3>2. CASE /\ Len(queuedReliables') = Len(q) + 1
               /\ Head(queuedReliables') = IF q = <<>> THEN nextOut ELSE Head(q)
      BY <1>1, <1>2, <1>3, <1>8, <2>2, <3>2
    <3> QED BY <1>9, <3>1, <3>2
  <2> QED BY <2>1, <2>3 DEF QueueFits
<1>14. IncomingFits' /\ nextIn' <= nextOut' /\ AckedIsHeld'
  BY <1>0, <1>1, <1>2, <1>3 DEF NumbersInv, IncomingFits, AckedIsHeld, receiverVars
<1>15. NoPacketForgotten'
  <2> SUFFICES ASSUME NEW a \in 0 .. nextOut' - 1, ~ (a < nextIn), a \notin ToSet(incoming)
               PROVE  a \in ToSet(sent') \cup ToSet(queuedReliables')
    BY <1>2 DEF NoPacketForgotten, receiverVars
  <2>1. a = nextOut \/ a \in 0 .. nextOut - 1
    BY <1>1, <1>3
  <2>2. CASE a = nextOut
    BY <1>9, <2>2
  <2>3. CASE a \in 0 .. nextOut - 1
    BY <1>0, <1>9, <2>3 DEF NumbersInv, NoPacketForgotten, q
  <2> QED BY <2>1, <2>2, <2>3
<1> QED BY <1>10, <1>11, <1>12, <1>13, <1>14, <1>15 DEF ChannelInv, NumbersInv

LEMMA ReceiveAckKeeps == ASSUME Room, ChannelInv, NEW n, ReceiveAck(n) PROVE ChannelInv'
<1> DEFINE E == 0 .. nextOut - 1
<1>0. TypeOK /\ NumbersInv
  BY DEF ChannelInv
<1>1. /\ nextOut \in Nat /\ sent \in Seq(E) /\ E \subseteq Int /\ DOMAIN numbered = E
      /\ acks \subseteq E /\ MaxWindow \in Nat \ {0} /\ SeqSpace = 2 * MaxWindow
  BY <1>0, PlacesAre
<1>2. /\ n \in acks /\ nextOut - n <= SeqSpace /\ acks' \subseteq acks
      /\ sent' = popSeqnum(sent, SeqNumOf(n))
      /\ UNCHANGED <<accepted, queuedCommands, queuedReliables, nextOut, window, pings, numbered,
                     wire, receiverVars>>
  BY DEF ReceiveAck
<1>3. \A i \in DOMAIN sent : sent[i] - n \in 1 - SeqSpace .. SeqSpace - 1
  <2> SUFFICES ASSUME NEW i \in DOMAIN sent
               PROVE  sent[i] - n \in 1 - SeqSpace .. SeqSpace - 1
    OBVIOUS
  <2>1. sent[i] \in ToSet(sent) /\ sent[i] \in 0 .. nextOut - 1
    BY <1>1, ElementsOf DEF ToSet
  <2>2. nextOut - sent[i] <= MaxWindow
    BY <1>0, <2>1 DEF NumbersInv, SentFits
  <2>3. n \in 0 .. nextOut - 1
    BY <1>1, <1>2
  <2> QED BY <1>1, <1>2, <2>1, <2>2, <2>3
<1>4. Ordered(sent) /\ n \in Int
  BY <1>0, <1>1, <1>2 DEF NumbersInv, Sorted
<1> HIDE DEF E
<1>5. sent' \in Seq(E) /\ Ordered(sent') /\ ToSet(sent') = ToSet(sent) \ {n}
  BY <1>1, <1>2, <1>3, <1>4, Popped
<1>6. TypeOK'
  BY <1>0, <1>1, <1>2, <1>5 DEF TypeOK, receiverVars
<1>7. Sorted' /\ SentFits' /\ QueueFits' /\ IncomingFits' /\ nextIn' <= nextOut'
  BY <1>0, <1>2, <1>5 DEF NumbersInv, Sorted, SentFits, QueueFits, IncomingFits, receiverVars
<1>8. AckedIsHeld'
  BY <1>0, <1>2 DEF NumbersInv, AckedIsHeld, receiverVars
<1>9. NoPacketForgotten'
  BY <1>0, <1>2, <1>5 DEF NumbersInv, NoPacketForgotten, AckedIsHeld, receiverVars
<1> QED BY <1>6, <1>7, <1>8, <1>9 DEF ChannelInv, NumbersInv
-----------------------------------------------------------------------------
(***************************************************************************)
(* The steps of the network and of the receiver.                           *)
(***************************************************************************)

LEMMA NetworkKeeps ==
    ASSUME ChannelInv,
           \/ UpdateTimers \/ \E n \in ToSet(sent) : Resend(n)
           \/ \E n \in wire : LosePacket(n)
           \/ \E n \in acks : LoseAck(n)
    PROVE  ChannelInv'
<1>1. /\ UNCHANGED <<accepted, queuedCommands, queuedReliables, sent, nextOut, pings, numbered,
                     receiverVars>>
      /\ window' \in Windows
      /\ wire' \subseteq DOMAIN numbered /\ acks' \subseteq acks
  <2>1. /\ wire \subseteq DOMAIN numbered /\ ToSet(sent) \subseteq DOMAIN numbered
        /\ window \in Windows
    BY PlacesAre, ListPlaces DEF ChannelInv
  <2>2. CASE UpdateTimers
    BY <2>1, <2>2 DEF UpdateTimers
  <2>3. ASSUME NEW n \in ToSet(sent), Resend(n)
        PROVE  /\ UNCHANGED <<senderVars, receiverVars>>
               /\ wire' \subseteq DOMAIN numbered /\ acks' \subseteq acks
    BY <2>1, <2>3 DEF Resend
  <2>4. ASSUME NEW n \in wire, LosePacket(n)
        PROVE  /\ UNCHANGED <<senderVars, receiverVars>>
               /\ wire' \subseteq DOMAIN numbered /\ acks' \subseteq acks
    BY <2>1, <2>4 DEF LosePacket
  <2>5. ASSUME NEW n \in acks, LoseAck(n)
        PROVE  /\ UNCHANGED <<senderVars, receiverVars>>
               /\ wire' \subseteq DOMAIN numbered /\ acks' \subseteq acks
    BY <2>1, <2>5 DEF LoseAck
  <2> QED BY <2>1, <2>2, <2>3, <2>4, <2>5 DEF senderVars
<1>2. TypeOK'
  BY <1>1 DEF ChannelInv, TypeOK, receiverVars
<1>3. NumbersInv'
  BY <1>1 DEF ChannelInv, NumbersInv, Sorted, SentFits, QueueFits, IncomingFits, AckedIsHeld,
              NoPacketForgotten, receiverVars
<1> QED BY <1>2, <1>3 DEF ChannelInv

\* What is made of the payload of a packet keeps its types.
LEMMA ProcessType ==
    ASSUME TypeOK, NEW p \in Payloads, ProcessPayload(p)
    PROVE  splits' \subseteq Payloads /\ delivered' \in Seq(1 .. NumMessages)
<1>1. p # Ping => p.msg \in 1 .. NumMessages
  BY DEF Payloads, Ping
<1>2. splits \subseteq Payloads /\ delivered \in Seq(1 .. NumMessages)
  BY DEF TypeOK
<1> DEFINE parts == splits \cup {p}
           have  == {q \in parts : q.msg = p.msg}
<1>3. \/ splits' = splits /\ delivered' = delivered
      \/ p # Ping /\ delivered' = Append(delivered, p.msg) /\ splits' = parts \ have
      \/ splits' = parts /\ delivered' = delivered
  BY DEF ProcessPayload
<1>4. parts \subseteq Payloads /\ parts \ have \subseteq Payloads
  BY <1>2
<1>5. p # Ping => Append(delivered, p.msg) \in Seq(1 .. NumMessages)
  BY <1>1, <1>2
<1> HIDE DEF parts, have
<1> QED BY <1>2, <1>3, <1>4, <1>5

\* A packet that is not the expected one, and stays unprocessed.
LEMMA ReceiveAheadKeeps == ASSUME Room, ChannelInv, NEW n, ReceiveAhead(n) PROVE ChannelInv'
<1> DEFINE E == 0 .. nextOut - 1
<1>0. TypeOK /\ NumbersInv
  BY DEF ChannelInv
<1>1. /\ nextOut \in Nat /\ nextIn \in Nat /\ incoming \in Seq(E) /\ E \subseteq Int
      /\ DOMAIN numbered = E /\ acks \subseteq E /\ wire \subseteq E /\ MaxWindow \in Nat
  BY <1>0, PlacesAre
<1>2. /\ Arrives(n) /\ wire' \subseteq wire /\ acks' = acks \cup {n}
      /\ incoming' = insert(incoming, n, SeqNumOf(nextIn))
      /\ UNCHANGED <<senderVars, nextIn, splits, delivered>>
      /\ SeqNumOf(n) # SeqNumOf(nextIn)
      /\ Classify(SeqNumOf(n), SeqNumOf(nextIn)) = "window"
  BY DEF ReceiveAhead, Arrives
<1>3. n \in 0 .. nextOut - 1 /\ n - nextIn < MaxWindow /\ nextIn < n
  <2>1. /\ n \in 0 .. nextOut - 1 /\ n - nextIn < MaxWindow /\ nextIn <= n /\ n # nextIn
    BY <1>2, Arrived
  <2> QED BY <1>1, <2>1
<1>4. /\ n \in Int /\ n \in E /\ n - nextIn \in 1 .. MaxWindow - 1 /\ nextIn \in Int
      /\ Ordered(incoming)
  BY <1>0, <1>1, <1>3 DEF NumbersInv, Sorted
<1>5. \A i \in DOMAIN incoming : incoming[i] - nextIn \in 0 .. MaxWindow - 1
  <2> SUFFICES ASSUME NEW i \in DOMAIN incoming
               PROVE  incoming[i] - nextIn \in 0 .. MaxWindow - 1
    OBVIOUS
  <2>1. incoming[i] \in ToSet(incoming) /\ incoming[i] \in 0 .. nextOut - 1
    BY <1>1, ElementsOf DEF ToSet
  <2>2. nextIn <= incoming[i] /\ incoming[i] - nextIn < MaxWindow
    BY <1>0, <2>1 DEF NumbersInv, IncomingFits
  <2> QED BY <1>1, <2>1, <2>2
<1> HIDE DEF E
<1>6. /\ insert(incoming, n, SeqNumOf(nextIn)) \in Seq(E)
      /\ Ordered(insert(incoming, n, SeqNumOf(nextIn)))
      /\ \A m : m \in ToSet(insert(incoming, n, SeqNumOf(nextIn)))
                <=> m \in ToSet(incoming) \/ m = n
  BY <1>1, <1>4, <1>5, Inserted
<1>7. /\ incoming' \in Seq(E) /\ Ordered(incoming')
      /\ \A m : m \in ToSet(incoming') <=> m \in ToSet(incoming) \/ m = n
  BY <1>2, <1>6
<1>8. TypeOK'
  BY <1>0, <1>1, <1>2, <1>4, <1>7 DEF TypeOK, senderVars
<1>9. Sorted' /\ SentFits' /\ QueueFits' /\ nextIn' <= nextOut'
  BY <1>0, <1>2, <1>7 DEF NumbersInv, Sorted, SentFits, QueueFits, senderVars
<1>10. IncomingFits'
  BY <1>0, <1>2, <1>3, <1>1, <1>7 DEF NumbersInv, IncomingFits
<1>11. AckedIsHeld' /\ NoPacketForgotten'
  BY <1>0, <1>2, <1>7 DEF NumbersInv, AckedIsHeld, NoPacketForgotten, senderVars
<1> QED BY <1>8, <1>9, <1>10, <1>11 DEF ChannelInv, NumbersInv

LEMMA ReceiveNothingKeeps ==
    ASSUME Room, ChannelInv, NEW n, ReceiveFuture(n) \/ ReceiveOld(n)
    PROVE  ChannelInv'
<1>0. TypeOK /\ NumbersInv
  BY DEF ChannelInv
<1>1. /\ wire' \subseteq wire /\ UNCHANGED <<senderVars, receiverVars>>
      /\ acks' = acks \/ (acks' = acks \cup {n} /\ n < nextIn /\ n \in 0 .. nextOut - 1)
  <2>1. CASE ReceiveFuture(n)
    BY <2>1 DEF ReceiveFuture, Arrives
  <2>2. CASE ReceiveOld(n)
    BY <2>2, Arrived DEF ReceiveOld, Arrives
  <2> QED BY <2>1, <2>2
<1>2. TypeOK'
  BY <1>0, <1>1, PlacesAre DEF TypeOK, senderVars, receiverVars
<1>3. NumbersInv'
  BY <1>0, <1>1 DEF NumbersInv, Sorted, SentFits, QueueFits, IncomingFits, AckedIsHeld,
                    NoPacketForgotten, senderVars, receiverVars
<1> QED BY <1>2, <1>3 DEF ChannelInv

\* The packet whose turn has come, out of the socket or out of the buffer.
LEMMA ReceiveNextIs ==
    ASSUME Room, ChannelInv, NEW n, ReceiveNext(n)
    PROVE  /\ n = nextIn /\ nextIn \in 0 .. nextOut - 1
           /\ ProcessPayload(numbered[nextIn])
           /\ nextIn' = nextIn + 1 /\ wire' \subseteq wire /\ acks' = acks \cup {nextIn}
           /\ incoming' = incoming /\ UNCHANGED senderVars
<1>1. n \in 0 .. nextOut - 1 /\ n = nextIn
  BY Arrived DEF ReceiveNext
<1>2. ~ FirstIs(incoming, SeqNumOf(n))
  BY <1>1 DEF ReceiveNext, Arrives, Drainable
<1> QED BY <1>1, <1>2 DEF ReceiveNext, Arrives

LEMMA DrainIs ==
    ASSUME Room, ChannelInv, Drain
    PROVE  /\ incoming # <<>> /\ Head(incoming) = nextIn /\ nextIn \in 0 .. nextOut - 1
           /\ ProcessPayload(numbered[nextIn])
           /\ nextIn' = nextIn + 1 /\ incoming' = Tail(incoming)
           /\ UNCHANGED <<senderVars, wire, acks>>
<1> DEFINE h == Head(incoming)
<1>0. TypeOK /\ NumbersInv
  BY DEF ChannelInv
<1>1. /\ incoming # <<>> /\ SeqNumOf(h) = SeqNumOf(nextIn) /\ ProcessPayload(numbered[h])
      /\ nextIn' = nextIn + 1 /\ incoming' = Tail(incoming)
      /\ UNCHANGED <<senderVars, wire, acks>>
  BY DEF Drain, Drainable, FirstIs
<1>2. h \in 0 .. nextOut - 1 /\ h \in ToSet(incoming)
  <2>1. /\ incoming \in Seq(0 .. nextOut - 1) /\ 0 .. nextOut - 1 \subseteq Int
        /\ Ordered(incoming)
    BY <1>0, PlacesAre DEF NumbersInv, Sorted
  <2> QED BY <1>1, <2>1, Shortened
<1>3. nextIn <= h /\ h - nextIn < MaxWindow
  BY <1>0, <1>2 DEF NumbersInv, IncomingFits
<1> HIDE DEF h
<1>4. h = nextIn
  <2>1. /\ nextOut \in Nat /\ nextIn \in Nat /\ MaxWindow \in Nat \ {0}
        /\ SeqSpace = 2 * MaxWindow
    BY <1>0, PlacesAre
  <2>2. h \in Int /\ nextIn \in Int /\ h - nextIn \in 1 - SeqSpace .. SeqSpace - 1
    BY <1>2, <1>3, <2>1
  <2> QED BY <1>1, <2>2, SameNumber
<1> QED BY <1>1, <1>2, <1>4 DEF h

LEMMA ReceiveNextKeeps == ASSUME Room, ChannelInv, NEW n, ReceiveNext(n) PROVE ChannelInv'
<1>0. TypeOK /\ NumbersInv
  BY DEF ChannelInv
<1>1. /\ nextIn \in 0 .. nextOut - 1 /\ ProcessPayload(numbered[nextIn])
      /\ nextIn' = nextIn + 1 /\ wire' \subseteq wire /\ acks' = acks \cup {nextIn}
      /\ incoming' = incoming /\ UNCHANGED senderVars /\ ~ Drainable
  BY ReceiveNextIs DEF ReceiveNext, Arrives
<1>2. /\ nextOut \in Nat /\ nextIn \in Nat /\ DOMAIN numbered = 0 .. nextOut - 1
      /\ numbered[nextIn] \in Payloads /\ MaxWindow \in Nat
      /\ \A a \in ToSet(incoming) : a \in 0 .. nextOut - 1
  BY <1>0, <1>1, PlacesAre, ListPlaces
<1>3. splits' \subseteq Payloads /\ delivered' \in Seq(1 .. NumMessages)
  BY <1>0, <1>1, <1>2, ProcessType
<1>4. TypeOK'
  BY <1>0, <1>1, <1>2, <1>3 DEF TypeOK, senderVars
<1>5. Sorted' /\ SentFits' /\ QueueFits' /\ nextIn' <= nextOut'
  BY <1>0, <1>1, <1>2 DEF NumbersInv, Sorted, SentFits, QueueFits, senderVars
<1>6. IncomingFits'
  <2>1. nextIn \notin ToSet(incoming)
    <3> SUFFICES ASSUME nextIn \in ToSet(incoming)
                 PROVE  FALSE
      OBVIOUS
    <3>1. /\ incoming \in Seq(0 .. nextOut - 1) /\ 0 .. nextOut - 1 \subseteq Int
          /\ Ordered(incoming)
      BY <1>0, PlacesAre DEF NumbersInv, Sorted
    <3>2. incoming # <<>>
      BY <3>1, ElementsOf DEF ToSet
    <3>3. Head(incoming) \in ToSet(incoming) /\ Head(incoming) <= nextIn /\ Head(incoming) \in Int
      BY <3>1, <3>2, Shortened
    <3>4. Head(incoming) = nextIn
      BY <1>0, <1>2, <3>3 DEF NumbersInv, IncomingFits
    <3> QED BY <1>1, <3>2, <3>4 DEF Drainable, FirstIs
  <2> QED BY <1>0, <1>1, <1>2, <2>1 DEF NumbersInv, IncomingFits
<1>7. AckedIsHeld'
  <2>1. \A a \in acks : a \in Int
    BY <1>0, PlacesAre
  <2> QED BY <1>0, <1>1, <1>2, <2>1 DEF NumbersInv, AckedIsHeld
<1>8. NoPacketForgotten'
  BY <1>0, <1>1, <1>2 DEF NumbersInv, NoPacketForgotten, senderVars
<1> QED BY <1>4, <1>5, <1>6, <1>7, <1>8 DEF ChannelInv, NumbersInv

LEMMA DrainKeeps == ASSUME Room, ChannelInv, Drain PROVE ChannelInv'
<1> DEFINE E == 0 .. nextOut - 1
<1>0. TypeOK /\ NumbersInv
  BY DEF ChannelInv
<1>1. /\ incoming # <<>> /\ Head(incoming) = nextIn /\ nextIn \in 0 .. nextOut - 1
      /\ ProcessPayload(numbered[nextIn])
      /\ nextIn' = nextIn + 1 /\ incoming' = Tail(incoming)
      /\ UNCHANGED <<senderVars, wire, acks>>
  BY DrainIs
<1>2. /\ nextOut \in Nat /\ nextIn \in Nat /\ DOMAIN numbered = E /\ E \subseteq Int
      /\ numbered[nextIn] \in Payloads /\ incoming \in Seq(E) /\ MaxWindow \in Nat
      /\ \A a \in ToSet(incoming) : a \in Int
      /\ \A a \in acks : a \in Int
  BY <1>0, <1>1, PlacesAre, ListPlaces
<1>3. splits' \subseteq Payloads /\ delivered' \in Seq(1 .. NumMessages)
  BY <1>0, <1>1, <1>2, ProcessType
<1>4. Ordered(incoming)
  BY <1>0 DEF NumbersInv, Sorted
<1> HIDE DEF E
<1>5. /\ Tail(incoming) \in Seq(E) /\ Ordered(Tail(incoming))
      /\ ToSet(Tail(incoming)) = ToSet(incoming) \ {Head(incoming)}
  BY <1>1, <1>2, <1>4, Shortened
<1>6. incoming' \in Seq(E) /\ Ordered(incoming') /\ ToSet(incoming') = ToSet(incoming) \ {nextIn}
  BY <1>1, <1>5
<1>7. TypeOK'
  BY <1>0, <1>1, <1>2, <1>3, <1>6 DEF TypeOK, senderVars
<1>8. Sorted' /\ SentFits' /\ QueueFits' /\ nextIn' <= nextOut'
  BY <1>0, <1>1, <1>2, <1>6 DEF NumbersInv, Sorted, SentFits, QueueFits, senderVars, E
<1>9. IncomingFits'
  BY <1>0, <1>1, <1>2, <1>6 DEF NumbersInv, IncomingFits
<1>10. AckedIsHeld'
  BY <1>0, <1>1, <1>2, <1>6 DEF NumbersInv, AckedIsHeld
<1>11. NoPacketForgotten'
  BY <1>0, <1>1, <1>2, <1>6 DEF NumbersInv, NoPacketForgotten, senderVars
<1> QED BY <1>7, <1>8, <1>9, <1>10, <1>11 DEF ChannelInv, NumbersInv

LEMMA InitChannel == ASSUME Room, Init PROVE ChannelInv
<1>1. /\ accepted = 0 /\ queuedCommands = <<>> /\ queuedReliables = <<>> /\ sent = <<>>
      /\ nextOut = 0 /\ window = StartWindow /\ pings = 0 /\ numbered = <<>> /\ wire = {}
      /\ acks = {} /\ nextIn = 0 /\ incoming = <<>> /\ splits = {} /\ delivered = <<>>
  BY DEF Init
<1>2. numbered \in [0 .. nextOut - 1 -> Payloads]
  BY <1>1
<1>3. TypeOK
  BY <1>1, <1>2, ChannelAssumption DEF TypeOK
<1>4. ToSet(sent) = {} /\ ToSet(queuedReliables) = {} /\ ToSet(incoming) = {}
  BY <1>1 DEF ToSet
<1>5. Sorted
  BY <1>1 DEF Sorted, Ordered
<1>6. NumbersInv
  BY <1>1, <1>4, <1>5 DEF NumbersInv, SentFits, QueueFits, IncomingFits, AckedIsHeld,
                          NoPacketForgotten
<1> QED BY <1>3, <1>6 DEF ChannelInv

LEMMA StepChannel == ASSUME Room, ChannelInv, [Next]_vars PROVE ChannelInv'
<1>1. CASE UNCHANGED vars
  <2>1. TypeOK'
    BY <1>1 DEF ChannelInv, TypeOK, vars, senderVars, receiverVars
  <2>2. NumbersInv'
    BY <1>1 DEF ChannelInv, NumbersInv, Sorted, SentFits, QueueFits, IncomingFits, AckedIsHeld,
                NoPacketForgotten, vars, senderVars, receiverVars
  <2> QED BY <2>1, <2>2 DEF ChannelInv
<1>2. ASSUME NEW n \in wire, Receive(n) PROVE ChannelInv'
  BY <1>2, ReceiveNextKeeps, ReceiveAheadKeeps, ReceiveNothingKeeps DEF Receive
<1>3. ASSUME NEW n \in acks, ReceiveAck(n) PROVE ChannelInv'
  BY <1>3, ReceiveAckKeeps
<1> QED BY <1>1, <1>2, <1>3, SendDirectlyKeeps, SendLaterKeeps, RunCommandQueuesKeeps,
           SendQueuedKeeps, SendPingKeeps, NetworkKeeps, DrainKeeps DEF Next
-----------------------------------------------------------------------------
(***************************************************************************)
(* The safety properties of the channel.                                   *)
(***************************************************************************)

\* Every behaviour stays within what may be numbered and held.
THEOREM ChannelIsSafe == ASSUME Room PROVE Spec => []ChannelInv
<1>1. Init => ChannelInv
  BY InitChannel
<1>2. ChannelInv /\ [Next]_vars => ChannelInv'
  BY StepChannel
<1> QED BY <1>1, <1>2, PTL DEF Spec

\* The state of the channel has its types: a place that is queued, resent, in
\* flight, acknowledged or buffered was given out.
THEOREM TypeCorrect == ASSUME Room PROVE Spec => []TypeOK
<1>1. ChannelInv => TypeOK
  BY DEF ChannelInv
<1> QED BY <1>1, ChannelIsSafe, PTL

\* The receiver holds, or has processed, every packet that it acknowledged.
THEOREM AcksAreHonest == ASSUME Room PROVE Spec => []AckedIsHeld
<1>1. ChannelInv => AckedIsHeld
  BY DEF ChannelInv, NumbersInv
<1> QED BY <1>1, ChannelIsSafe, PTL

\* No number given out is lost between the queue, the sent list and the receiver.
THEOREM NumbersAreAnswered == ASSUME Room PROVE Spec => []NoPacketForgotten
<1>1. ChannelInv => NoPacketForgotten
  BY DEF ChannelInv, NumbersInv
<1> QED BY <1>1, ChannelIsSafe, PTL

\* When the receive thread reads the socket, no packet is taken for an old one
\* because it is too new.
THEOREM NewIsNotOld == ASSUME Room PROVE Spec => []NothingTooNew
<1>1. ASSUME ChannelInv PROVE NothingTooNew
  <2> SUFFICES ASSUME ~ Drainable, NEW n \in ToSet(sent) \cup wire
               PROVE  n - nextIn < MaxWindow
    BY DEF NothingTooNew
  <2>1. nextOut - nextIn <= MaxWindow
    BY <1>1, Frontier
  <2>2. /\ n \in 0 .. nextOut - 1 /\ nextOut \in Nat /\ nextIn \in Nat /\ MaxWindow \in Nat
    BY <1>1, PlacesAre, ListPlaces DEF ChannelInv
  <2> QED BY <2>1, <2>2
<1> QED BY <1>1, ChannelIsSafe, PTL

\* Both lists stay sorted by place, also where the numbers wrap, and the
\* receiver keeps nothing whose turn has passed.
THEOREM BuffersAreSorted == ASSUME Room PROVE Spec => []ListsAreOrdered
<1>1. ASSUME ChannelInv PROVE ListsAreOrdered
  <2>1. \A i \in DOMAIN incoming : incoming[i] \in ToSet(incoming)
    BY DEF ToSet
  <2> QED BY <1>1, <2>1 DEF ListsAreOrdered, ChannelInv, NumbersInv, Sorted, IncomingFits
<1> QED BY <1>1, ChannelIsSafe, PTL
-----------------------------------------------------------------------------
(***************************************************************************)
(* The payloads: their order among the numbers, and what becomes of them.  *)
(***************************************************************************)

Parts == Payloads \ {Ping}
PartsOf(m) == {p \in Parts : p.msg = m}
Before(p, q) == p.msg < q.msg \/ (p.msg = q.msg /\ p.chunk < q.chunk)

\* The messages that have their numbers; the commands that wait follow them.
Numbered == accepted - Len(queuedCommands)
CommandsFollow == /\ Len(queuedCommands) <= accepted
                  /\ \A i \in 1 .. Len(queuedCommands) : queuedCommands[i] = Numbered + i
AllNumbered == \A p \in Parts :
                   p.msg <= Numbered <=> \E a \in 0 .. nextOut - 1 : numbered[a] = p
InOrder == \A a, b \in 0 .. nextOut - 1 :
               /\ a < b
               /\ numbered[a] \in Parts
               /\ numbered[b] \in Parts
               => Before(numbered[a], numbered[b])

\* What the receiver processed is what it delivered and a part of the message
\* after that, never all of it.
Processed(p) == \E a \in 0 .. nextIn - 1 : numbered[a] = p
DeliveredInOrder == \A i \in 1 .. Len(delivered) : delivered[i] = i
SplitsOfNext ==
    /\ splits \subseteq PartsOf(Len(delivered) + 1)
    /\ Len(delivered) < NumMessages => \E p \in PartsOf(Len(delivered) + 1) : p \notin splits
AllProcessed == \A p \in Parts : Processed(p) <=> p.msg <= Len(delivered) \/ p \in splits

OrderInv    == CommandsFollow /\ AllNumbered /\ InOrder
ReceivedInv == DeliveredInOrder /\ SplitsOfNext /\ AllProcessed

LEMMA PartsAre ==
    /\ Payloads = Parts \cup {Ping} /\ Ping \notin Parts
    /\ NumMessages \in Nat
    /\ \A m \in 1 .. NumMessages : Chunks[m] \in Nat \ {0}
    /\ \A p \in Parts : /\ p.msg \in 1 .. NumMessages /\ p.chunk \in 1 .. Chunks[p.msg]
                        /\ p = [msg |-> p.msg, chunk |-> p.chunk]
    /\ \A m \in 1 .. NumMessages : \A i \in 1 .. Chunks[m] : [msg |-> m, chunk |-> i] \in Parts
<1>1. NumMessages \in Nat /\ \A m \in 1 .. NumMessages : Chunks[m] \in Nat \ {0}
  BY ChannelAssumption
<1>2. Payloads = Parts \cup {Ping} /\ Ping \notin Parts
  BY DEF Parts, Payloads
<1>3. ASSUME NEW p \in Parts
      PROVE  /\ p.msg \in 1 .. NumMessages /\ p.chunk \in 1 .. Chunks[p.msg]
             /\ p = [msg |-> p.msg, chunk |-> p.chunk]
  <2>1. PICK m \in 1 .. NumMessages : \E i \in 1 .. Chunks[m] : p = [msg |-> m, chunk |-> i]
    BY DEF Parts, Payloads
  <2>2. PICK i \in 1 .. Chunks[m] : p = [msg |-> m, chunk |-> i]
    BY <2>1
  <2> QED BY <2>2
<1>4. ASSUME NEW m \in 1 .. NumMessages, NEW i \in 1 .. Chunks[m]
      PROVE  [msg |-> m, chunk |-> i] \in Parts
  <2>1. [msg |-> m, chunk |-> i] \in Payloads
    BY DEF Payloads
  <2>2. [msg |-> m, chunk |-> i] # Ping
    <3>1. m # 0 /\ [msg |-> m, chunk |-> i].msg = m /\ Ping.msg = 0
      BY <1>1 DEF Ping
    <3> QED BY <3>1
  <2> QED BY <2>1, <2>2 DEF Parts
<1> QED BY <1>1, <1>2, <1>3, <1>4

\* A message has as many parts as chunks.
LEMMA CountParts ==
    ASSUME NEW m \in 1 .. NumMessages
    PROVE  IsFiniteSet(PartsOf(m)) /\ Cardinality(PartsOf(m)) = Chunks[m]
<1> DEFINE c == Chunks[m]
           f == [i \in 1 .. c |-> [msg |-> m, chunk |-> i]]
<1>1. c \in Nat
  BY PartsAre
<1>2. \A i \in 1 .. c : f[i] \in PartsOf(m) /\ f[i].chunk = i
  BY PartsAre DEF PartsOf
<1>3. \A p \in PartsOf(m) : p.chunk \in 1 .. c /\ f[p.chunk] = p
  BY PartsAre DEF PartsOf
<1>4. f \in Bijection(1 .. c, PartsOf(m))
  <2>1. f \in [1 .. c -> PartsOf(m)]
    BY <1>2
  <2>2. \A i, j \in 1 .. c : f[i] = f[j] => i = j
    BY <1>2
  <2>3. \A p \in PartsOf(m) : \E i \in 1 .. c : f[i] = p
    BY <1>3
  <2> HIDE DEF f, c
  <2> QED BY <2>1, <2>2, <2>3 DEF Bijection, Injection, IsInjective, Surjection
<1> HIDE DEF f, c
<1>5. IsFiniteSet(PartsOf(m)) /\ Cardinality(PartsOf(m)) = c
  <2>1. ExistsBijection(1 .. c, PartsOf(m))
    BY <1>4 DEF ExistsBijection
  <2> QED BY <1>1, <2>1, FS_CountingElements, FS_NatBijection
<1> QED BY <1>5 DEF c

\* The next packet carries a part that is missing of the message whose turn it is.
LEMMA NextPart ==
    ASSUME ChannelInv, OrderInv, ReceivedInv, nextIn \in 0 .. nextOut - 1,
           numbered[nextIn] \in Parts
    PROVE  /\ numbered[nextIn].msg = Len(delivered) + 1
           /\ numbered[nextIn] \notin splits
           /\ numbered[nextIn].msg <= Numbered
<1> DEFINE p == numbered[nextIn]
           k == Len(delivered)
<1>1. p \in Parts /\ nextOut \in Nat /\ nextIn \in Nat /\ nextIn < nextOut
  BY PlacesAre DEF ChannelInv
<1>2. k \in Nat
  <2>1. delivered \in Seq(1 .. NumMessages)
    BY DEF ChannelInv, TypeOK
  <2> QED BY <2>1
<1>3. \A a, b \in 0 .. nextOut - 1 :
          (a < b /\ numbered[a] \in Parts /\ numbered[b] \in Parts) =>
              \/ numbered[a].msg < numbered[b].msg
              \/ (numbered[a].msg = numbered[b].msg /\ numbered[a].chunk < numbered[b].chunk)
  BY DEF OrderInv, InOrder, Before
<1>4. p.msg <= Numbered
  BY <1>1 DEF OrderInv, AllNumbered
<1>5. \A q \in Parts : q.msg \in Int /\ q.chunk \in Int /\ q.msg <= NumMessages
  BY PartsAre
<1>6. ~ Processed(p)
  <2> SUFFICES ASSUME NEW a \in 0 .. nextIn - 1, numbered[a] = p PROVE FALSE
    BY DEF Processed
  <2>1. a \in 0 .. nextOut - 1 /\ a < nextIn
    BY <1>1
  <2> QED BY <1>1, <1>3, <1>5, <2>1
<1>7. ~ (p.msg <= k) /\ p \notin splits
  BY <1>1, <1>6 DEF ReceivedInv, AllProcessed
<1>8. ~ (p.msg > k + 1)
  <2> SUFFICES ASSUME p.msg > k + 1 PROVE FALSE
    OBVIOUS
  <2>1. k < NumMessages
    BY <1>1, <1>2, <1>5, PartsAre
  <2>2. PICK q \in PartsOf(k + 1) : q \notin splits
    BY <2>1 DEF ReceivedInv, SplitsOfNext
  <2>3. q \in Parts /\ q.msg = k + 1 /\ ~ Processed(q)
    <3>1. q \in Parts /\ q.msg = k + 1
      BY DEF PartsOf
    <3> HIDE DEF k
    <3>2. ~ (q.msg <= k)
      BY <1>2, <3>1
    <3> QED BY <2>2, <3>1, <3>2 DEF ReceivedInv, AllProcessed, k
  <2>4. q.msg <= Numbered
    <3>1. Numbered \in Int
      <4>1. accepted \in Int /\ Len(queuedCommands) \in Nat
        BY PlacesAre DEF ChannelInv, TypeOK
      <4> QED BY <4>1 DEF Numbered
    <3> HIDE DEF p, k
    <3> QED BY <1>1, <1>2, <1>4, <1>5, <2>3, <3>1
  <2>5. PICK b \in 0 .. nextOut - 1 : numbered[b] = q
    BY <2>3, <2>4 DEF OrderInv, AllNumbered
  <2>6. ~ (b < nextIn)
    BY <1>1, <2>3, <2>5 DEF Processed
  <2>7. b # nextIn
    BY <1>2, <2>3, <2>5
  <2>8. nextIn < b
    BY <1>1, <2>6, <2>7
  <2>9. p.msg <= q.msg
    BY <1>1, <1>3, <1>5, <2>3, <2>5, <2>8
  <2> HIDE DEF p, k
  <2> QED BY <1>1, <1>2, <1>5, <2>3, <2>9
<1> HIDE DEF p, k
<1>9. p.msg = k + 1
  BY <1>1, <1>2, <1>5, <1>7, <1>8
<1> QED BY <1>4, <1>7, <1>9 DEF p, k

\* What is made of the next packet.
LEMMA Handled ==
    ASSUME ChannelInv, OrderInv, ReceivedInv, nextIn \in 0 .. nextOut - 1,
           ProcessPayload(numbered[nextIn]), nextIn' = nextIn + 1,
           UNCHANGED <<numbered, accepted>>
    PROVE  /\ ReceivedInv'
           /\ \/ delivered' = delivered
              \/ /\ delivered' = Append(delivered, Len(delivered) + 1)
                 /\ Len(delivered) < accepted
<1> DEFINE p == numbered[nextIn]
           k == Len(delivered)
           parts == splits \cup {p}
<1>1. /\ nextOut \in Nat /\ nextIn \in Nat /\ nextIn < nextOut /\ p \in Payloads
      /\ delivered \in Seq(1 .. NumMessages) /\ k \in Nat
      /\ accepted \in Nat /\ Len(queuedCommands) \in Nat
  <2>1. delivered \in Seq(1 .. NumMessages) /\ queuedCommands \in Seq(1 .. NumMessages)
    BY DEF ChannelInv, TypeOK
  <2>2. /\ nextOut \in Nat /\ nextIn \in Nat /\ accepted \in Nat
        /\ \A n \in 0 .. nextOut - 1 : numbered[n] \in Payloads
    BY PlacesAre DEF ChannelInv
  <2>3. k \in Nat /\ Len(queuedCommands) \in Nat
    BY <2>1
  <2> QED BY <2>1, <2>2, <2>3
<1>2. \A q \in Parts : Processed(q)' <=> Processed(q) \/ q = p
  <2>1. ASSUME NEW q
        PROVE  Processed(q)' <=> \E a \in 0 .. nextIn : numbered[a] = q
    <3>1. Processed(q)' <=> \E a \in 0 .. nextIn' - 1 : numbered'[a] = q
      BY DEF Processed
    <3>2. nextIn' - 1 = nextIn
      BY <1>1
    <3> QED BY <3>1, <3>2
  <2>2. 0 .. nextIn = 0 .. nextIn - 1 \cup {nextIn}
    BY <1>1
  <2>3. ASSUME NEW q
        PROVE  (\E a \in 0 .. nextIn : numbered[a] = q) <=> (Processed(q) \/ q = p)
    BY <2>2 DEF Processed
  <2> QED BY <2>1, <2>3
<1>3. CASE p = Ping
  <2>1. UNCHANGED <<splits, delivered>>
    BY <1>3 DEF ProcessPayload
  <2>2. \A q \in Parts : Processed(q)' <=> Processed(q)
    BY <1>2, <1>3, PartsAre
  <2>3. DeliveredInOrder' /\ SplitsOfNext'
    BY <2>1 DEF ReceivedInv, DeliveredInOrder, SplitsOfNext
  <2>4. AllProcessed'
    BY <2>1, <2>2 DEF ReceivedInv, AllProcessed
  <2> QED BY <2>1, <2>3, <2>4 DEF ReceivedInv
<1>4. CASE p # Ping
  <2>1. p \in Parts /\ p.msg = k + 1 /\ p \notin splits /\ p.msg <= Numbered
    <3>1. p \in Parts
      BY <1>1, <1>4, PartsAre
    <3> QED BY <3>1, NextPart
  <2>2. parts \subseteq PartsOf(k + 1) /\ k + 1 \in 1 .. NumMessages
    <3>1. splits \subseteq PartsOf(k + 1)
      BY DEF ReceivedInv, SplitsOfNext
    <3>2. p \in PartsOf(k + 1)
      BY <2>1 DEF PartsOf
    <3>3. k + 1 \in 1 .. NumMessages
      BY <2>1, PartsAre
    <3> QED BY <3>1, <3>2, <3>3
  <2>3. {q \in parts : q.msg = p.msg} = parts
    BY <2>1, <2>2 DEF PartsOf
  <2>4. /\ IsFiniteSet(PartsOf(k + 1)) /\ Cardinality(PartsOf(k + 1)) = Chunks[k + 1]
        /\ Cardinality(parts) = Chunks[k + 1] => parts = PartsOf(k + 1)
    BY <2>2, CountParts, FS_Subset
  <2>5. \/ /\ Cardinality(parts) = Chunks[k + 1]
           /\ delivered' = Append(delivered, k + 1)
           /\ splits' = {}
        \/ /\ Cardinality(parts) # Chunks[k + 1]
           /\ splits' = parts /\ delivered' = delivered
    <3>1. \/ /\ Cardinality({q \in parts : q.msg = p.msg}) = Chunks[p.msg]
             /\ delivered' = Append(delivered, p.msg)
             /\ splits' = parts \ {q \in parts : q.msg = p.msg}
          \/ /\ Cardinality({q \in parts : q.msg = p.msg}) # Chunks[p.msg]
             /\ splits' = parts /\ delivered' = delivered
      BY <1>4 DEF ProcessPayload
    <3> HIDE DEF parts, p, k
    <3> QED BY <2>1, <2>3, <3>1
  <2>6. \A q \in Parts : q.msg \in Int
    BY PartsAre
  <2>7. \A q \in Parts : Processed(q)' <=> q.msg <= k \/ q \in parts
    BY <1>2 DEF ReceivedInv, AllProcessed
  <2> HIDE DEF parts, k, p
  <2>8. CASE Cardinality(parts) = Chunks[k + 1]
    <3>1. delivered' = Append(delivered, k + 1) /\ splits' = {} /\ parts = PartsOf(k + 1)
      BY <2>4, <2>5, <2>8
    <3>2. /\ Len(delivered') = k + 1 /\ delivered'[k + 1] = k + 1
          /\ \A i \in 1 .. k : delivered'[i] = delivered[i]
      BY <1>1, <3>1 DEF k
    <3>3. DeliveredInOrder'
      <4>1. \A i \in 1 .. k : delivered[i] = i
        BY DEF ReceivedInv, DeliveredInOrder, k
      <4>2. 1 .. k + 1 = 1 .. k \cup {k + 1}
        BY <1>1
      <4>3. \A i \in 1 .. k + 1 : delivered'[i] = i
        BY <3>2, <4>1, <4>2
      <4> QED BY <3>2, <4>3 DEF DeliveredInOrder
    <3>4. SplitsOfNext'
      <4>1. k + 1 < NumMessages => \E q \in PartsOf(k + 2) : q \notin {}
        <5> SUFFICES ASSUME k + 1 < NumMessages PROVE \E q \in PartsOf(k + 2) : q \notin {}
          OBVIOUS
        <5>1. k + 2 \in 1 .. NumMessages /\ 1 \in 1 .. Chunks[k + 2]
          <6>1. NumMessages \in Nat
            BY PartsAre
          <6>2. k + 2 \in 1 .. NumMessages
            BY <1>1, <6>1
          <6>3. Chunks[k + 2] \in Nat \ {0}
            BY <6>2, PartsAre
          <6> QED BY <6>2, <6>3
        <5>2. [msg |-> k + 2, chunk |-> 1] \in PartsOf(k + 2)
          BY <5>1, PartsAre DEF PartsOf
        <5> QED BY <5>2
      <4>2. Len(delivered') + 1 = k + 2
        BY <1>1, <3>2
      <4> QED BY <3>1, <3>2, <4>1, <4>2 DEF SplitsOfNext, PartsOf, Parts
    <3>5. AllProcessed'
      <4>1. \A q \in Parts : (q.msg <= k \/ q \in parts) <=> q.msg <= k + 1
        BY <1>1, <2>6, <3>1 DEF PartsOf
      <4> QED BY <2>7, <3>1, <3>2, <4>1 DEF AllProcessed
    <3>6. k < accepted
      <4>1. Numbered <= accepted /\ k + 1 <= Numbered /\ Numbered \in Int
        BY <1>1, <2>1 DEF Numbered
      <4> QED BY <1>1, <4>1
    <3> QED BY <3>1, <3>3, <3>4, <3>5, <3>6 DEF ReceivedInv, k
  <2>9. CASE Cardinality(parts) # Chunks[k + 1]
    <3>1. splits' = parts /\ delivered' = delivered
      BY <2>5, <2>9
    <3>2. parts # PartsOf(k + 1)
      BY <2>4, <2>9
    <3>3. DeliveredInOrder'
      BY <3>1 DEF ReceivedInv, DeliveredInOrder
    <3>4. SplitsOfNext'
      <4>1. \E q \in PartsOf(k + 1) : q \notin parts
        BY <2>2, <3>2
      <4> QED BY <2>2, <3>1, <4>1 DEF SplitsOfNext, k, PartsOf, Parts
    <3>5. AllProcessed'
      BY <2>7, <3>1 DEF AllProcessed, k
    <3> QED BY <3>1, <3>3, <3>4, <3>5 DEF ReceivedInv
  <2> QED BY <2>8, <2>9
<1> QED BY <1>3, <1>4

\* More numbers do not touch what was processed.
LEMMA ReceivedStays ==
    ASSUME ChannelInv, ReceivedInv, UNCHANGED <<nextIn, splits, delivered>>,
           \A a \in 0 .. nextOut - 1 : numbered'[a] = numbered[a]
    PROVE  ReceivedInv'
<1>1. \A a \in 0 .. nextIn - 1 : a \in 0 .. nextOut - 1
  BY PlacesAre DEF ChannelInv, NumbersInv
<1>2. \A a \in 0 .. nextIn - 1 : numbered'[a] = numbered[a]
  BY <1>1
<1>3. \A q \in Parts : Processed(q)' <=> Processed(q)
  BY <1>2 DEF Processed
<1>4. AllProcessed'
  BY <1>3 DEF ReceivedInv, AllProcessed
<1> QED BY <1>4 DEF ReceivedInv, DeliveredInOrder, SplitsOfNext

\* The next message gets its numbers, after all the others.
LEMMA NextMessage ==
    ASSUME ChannelInv, OrderInv, NEW m \in 1 .. NumMessages, m = Numbered + 1, Process(m),
           Numbered' = m
    PROVE  /\ AllNumbered' /\ InOrder'
           /\ \A a \in 0 .. nextOut - 1 : numbered'[a] = numbered[a]
<1> DEFINE c == Chunks[m]
           N == Numbered
<1>0. TypeOK
  BY DEF ChannelInv
<1>1. /\ nextOut \in Nat /\ c \in Nat \ {0} /\ N \in Int /\ m = N + 1
  <2>1. accepted \in Nat /\ nextOut \in Nat
    BY <1>0, PlacesAre
  <2>2. Len(queuedCommands) \in Nat
    <3>1. queuedCommands \in Seq(1 .. NumMessages)
      BY <1>0 DEF TypeOK
    <3> QED BY <3>1
  <2>3. N \in Int
    BY <2>1, <2>2 DEF Numbered
  <2> QED BY <2>1, <2>3, PartsAre
<1>2. AssignNumbers(ChunksOf(m))
  BY DEF Process, ChunksOf
<1>3. /\ nextOut' = nextOut + c
      /\ \A a \in 0 .. nextOut - 1 : numbered'[a] = numbered[a]
      /\ \A i \in 1 .. c : numbered'[nextOut + (i - 1)] = [msg |-> m, chunk |-> i]
  BY <1>0, <1>2, Assigned, ChunksAre
<1>4. ASSUME NEW a \in 0 .. nextOut' - 1, ~ (a \in 0 .. nextOut - 1)
      PROVE  /\ a - nextOut + 1 \in 1 .. c
             /\ numbered'[a].msg = m /\ numbered'[a].chunk = a - nextOut + 1
  <2> DEFINE i == a - nextOut + 1
  <2>1. i \in 1 .. c /\ nextOut + (i - 1) = a
    BY <1>1, <1>3, <1>4
  <2>2. numbered'[a] = [msg |-> m, chunk |-> i]
    BY <1>3, <2>1
  <2> QED BY <2>1, <2>2
<1>5. \A p \in Parts : /\ p.msg \in Int /\ p.chunk \in 1 .. Chunks[p.msg]
                       /\ p = [msg |-> p.msg, chunk |-> p.chunk]
  BY PartsAre
<1>6. \A p \in Parts : p.msg <= N <=> \E a \in 0 .. nextOut - 1 : numbered[a] = p
  BY DEF OrderInv, AllNumbered
<1> HIDE DEF c, N
<1>7. \A a \in 0 .. nextOut - 1 : a \in 0 .. nextOut' - 1
  BY <1>1, <1>3
<1>8. ASSUME NEW p \in Parts
      PROVE  p.msg <= m <=> \E a \in 0 .. nextOut' - 1 : numbered'[a] = p
  <2>1. CASE p.msg <= N
    BY <1>1, <1>3, <1>5, <1>6, <1>7, <2>1
  <2>2. CASE p.msg = m
    <3>1. p.chunk \in 1 .. c /\ p = [msg |-> m, chunk |-> p.chunk]
      BY <1>5, <2>2 DEF c
    <3>2. nextOut + (p.chunk - 1) \in 0 .. nextOut' - 1
      BY <1>1, <1>3, <3>1
    <3>3. numbered'[nextOut + (p.chunk - 1)] = p
      BY <1>3, <3>1
    <3> QED BY <1>1, <2>2, <3>2, <3>3
  <2>3. CASE p.msg > m
    <3>1. ASSUME NEW a \in 0 .. nextOut' - 1, numbered'[a] = p PROVE FALSE
      <4>1. CASE a \in 0 .. nextOut - 1
        <5>1. numbered[a] = p
          BY <1>3, <3>1, <4>1
        <5>2. p.msg <= N
          BY <1>6, <4>1, <5>1
        <5> QED BY <1>1, <1>5, <2>3, <5>2
      <4>2. CASE ~ (a \in 0 .. nextOut - 1)
        <5>1. p.msg = m
          BY <1>4, <3>1, <4>2
        <5> QED BY <1>1, <2>3, <5>1
      <4> QED BY <4>1, <4>2
    <3> QED BY <1>1, <1>5, <2>3, <3>1
  <2> QED BY <1>1, <1>5, <2>1, <2>2, <2>3
<1>9. AllNumbered'
  BY <1>8 DEF AllNumbered
<1>10. ASSUME NEW a \in 0 .. nextOut' - 1, NEW b \in 0 .. nextOut' - 1, a < b,
              numbered'[a] \in Parts, numbered'[b] \in Parts
       PROVE  Before(numbered'[a], numbered'[b])
  <2>1. CASE b \in 0 .. nextOut - 1
    <3>1. a \in 0 .. nextOut - 1
      BY <1>1, <1>10, <2>1
    <3>2. numbered'[a] = numbered[a] /\ numbered'[b] = numbered[b]
      BY <1>3, <2>1, <3>1
    <3>3. Before(numbered[a], numbered[b])
      BY <1>10, <2>1, <3>1, <3>2 DEF OrderInv, InOrder
    <3> QED BY <3>2, <3>3
  <2>2. CASE ~ (b \in 0 .. nextOut - 1) /\ a \in 0 .. nextOut - 1
    <3>1. numbered'[b].msg = m
      BY <1>4, <2>2
    <3>2. numbered'[a] = numbered[a]
      BY <1>3, <2>2
    <3>3. numbered[a].msg <= N /\ numbered[a].msg \in Int
      BY <1>5, <1>6, <1>10, <2>2, <3>2
    <3>4. numbered[a].msg < m
      BY <1>1, <3>3
    <3> QED BY <3>1, <3>2, <3>4 DEF Before
  <2>3. CASE ~ (b \in 0 .. nextOut - 1) /\ ~ (a \in 0 .. nextOut - 1)
    <3>1. /\ numbered'[b].msg = m /\ numbered'[b].chunk = b - nextOut + 1
          /\ numbered'[a].msg = m /\ numbered'[a].chunk = a - nextOut + 1
      BY <1>4, <2>3
    <3>2. a - nextOut + 1 < b - nextOut + 1
      BY <1>1, <1>3, <1>10
    <3> QED BY <3>1, <3>2 DEF Before
  <2> QED BY <2>1, <2>2, <2>3
<1>11. InOrder'
  BY <1>10 DEF InOrder
<1> QED BY <1>3, <1>9, <1>11

PayloadsInv == ChannelInv /\ OrderInv /\ ReceivedInv

\* What the two applications see of a step.
NothingSeen   == UNCHANGED <<accepted, delivered>>
MessageTaken  == /\ accepted < NumMessages /\ accepted' = accepted + 1
                 /\ UNCHANGED delivered
MessageGiven  == /\ Len(delivered) < accepted /\ UNCHANGED accepted
                 /\ delivered' = Append(delivered, Len(delivered) + 1)

LEMMA SendDirectlyOrders ==
    ASSUME PayloadsInv, SendDirectly PROVE OrderInv' /\ ReceivedInv' /\ MessageTaken
<1>1. /\ accepted < NumMessages /\ accepted' = accepted + 1 /\ queuedCommands = <<>>
      /\ Process(accepted + 1) /\ UNCHANGED <<queuedCommands, receiverVars>>
  BY DEF SendDirectly, Direct
<1>2. accepted \in Nat /\ NumMessages \in Nat /\ Len(queuedCommands) = 0
  BY <1>1, PlacesAre DEF PayloadsInv, ChannelInv
<1>3. accepted + 1 = Numbered + 1 /\ Numbered' = accepted + 1
  BY <1>1, <1>2 DEF Numbered
<1>4. accepted + 1 \in 1 .. NumMessages
  BY <1>1, <1>2
<1>5. /\ AllNumbered' /\ InOrder'
      /\ \A a \in 0 .. nextOut - 1 : numbered'[a] = numbered[a]
  BY <1>1, <1>3, <1>4, NextMessage DEF PayloadsInv
<1>6. CommandsFollow'
  BY <1>1, <1>2 DEF CommandsFollow
<1>7. ReceivedInv'
  BY <1>1, <1>5, ReceivedStays DEF PayloadsInv, receiverVars
<1> QED BY <1>1, <1>5, <1>6, <1>7 DEF OrderInv, MessageTaken, receiverVars

LEMMA SendLaterOrders ==
    ASSUME PayloadsInv, SendLater PROVE OrderInv' /\ ReceivedInv' /\ MessageTaken
<1> DEFINE q == queuedCommands
<1>1. /\ accepted < NumMessages /\ accepted' = accepted + 1 /\ q' = Append(q, accepted + 1)
      /\ UNCHANGED <<nextOut, numbered, receiverVars>>
  BY DEF SendLater
<1>2. /\ accepted \in Nat /\ q \in Seq(1 .. NumMessages) /\ Len(q) \in Nat
      /\ Len(q) <= accepted
      /\ \A i \in 1 .. Len(q) : q[i] = Numbered + i
  <2>1. q \in Seq(1 .. NumMessages)
    BY DEF PayloadsInv, ChannelInv, TypeOK
  <2> QED BY <2>1, PlacesAre DEF PayloadsInv, ChannelInv, OrderInv, CommandsFollow
<1>3. /\ Len(q') = Len(q) + 1 /\ q'[Len(q) + 1] = accepted + 1
      /\ \A i \in 1 .. Len(q) : q'[i] = q[i]
  BY <1>1, <1>2
<1>4. Numbered = accepted - Len(q) /\ Numbered' = accepted' - Len(q')
  BY DEF Numbered
<1> HIDE DEF q
<1>5. Numbered' = Numbered /\ Numbered + (Len(q) + 1) = accepted + 1
  BY <1>1, <1>2, <1>3, <1>4
<1>6. \A i \in 1 .. Len(q') : q'[i] = Numbered' + i
  BY <1>2, <1>3, <1>5
<1>7. CommandsFollow'
  BY <1>1, <1>2, <1>3, <1>6 DEF CommandsFollow, q
<1>8. AllNumbered' /\ InOrder'
  BY <1>1, <1>5 DEF PayloadsInv, OrderInv, AllNumbered, InOrder
<1>9. ReceivedInv'
  BY <1>1, ReceivedStays DEF PayloadsInv, receiverVars
<1> QED BY <1>1, <1>7, <1>8, <1>9 DEF OrderInv, MessageTaken, receiverVars

LEMMA RunCommandQueuesOrders ==
    ASSUME PayloadsInv, RunCommandQueues PROVE OrderInv' /\ ReceivedInv' /\ NothingSeen
<1> DEFINE q == queuedCommands
           m == Head(q)
<1>1. /\ q # <<>> /\ Process(m) /\ q' = Tail(q) /\ UNCHANGED <<accepted, receiverVars>>
  BY DEF RunCommandQueues
<1>2. /\ accepted \in Nat /\ q \in Seq(1 .. NumMessages) /\ Len(q) \in Nat
      /\ Len(q) <= accepted
      /\ \A i \in 1 .. Len(q) : q[i] = Numbered + i
  <2>1. q \in Seq(1 .. NumMessages)
    BY DEF PayloadsInv, ChannelInv, TypeOK
  <2> QED BY <2>1, PlacesAre DEF PayloadsInv, ChannelInv, OrderInv, CommandsFollow
<1>3. Len(q) > 0 /\ m = q[1] /\ m \in 1 .. NumMessages
  <2>1. /\ Len(q) > 0 /\ Head(q) = q[1]
        /\ \A i \in 1 .. Len(q) : q[i] \in 1 .. NumMessages
    BY <1>1, <1>2, ElementsOf
  <2>2. q[1] \in 1 .. NumMessages
    BY <1>2, <2>1
  <2> QED BY <2>1, <2>2
<1>4. /\ Len(q') = Len(q) - 1
      /\ \A i \in 1 .. Len(q) - 1 : q'[i] = q[i + 1]
  BY <1>1, <1>2, TailElements
<1>5. Numbered = accepted - Len(q) /\ Numbered' = accepted' - Len(q')
  BY DEF Numbered
<1> HIDE DEF q, m
<1>6. Numbered' = Numbered + 1 /\ m = Numbered + 1
  BY <1>1, <1>2, <1>3, <1>4, <1>5
<1>7. Numbered \in Int /\ Numbered' = m
  BY <1>2, <1>5, <1>6
<1>8. /\ AllNumbered' /\ InOrder'
      /\ \A a \in 0 .. nextOut - 1 : numbered'[a] = numbered[a]
  BY <1>1, <1>3, <1>6, <1>7, NextMessage DEF PayloadsInv
<1>9. CommandsFollow'
  <2>1. \A i \in 1 .. Len(q') : q'[i] = Numbered' + i
    <3> SUFFICES ASSUME NEW i \in 1 .. Len(q') PROVE q'[i] = Numbered' + i
      OBVIOUS
    <3>1. i + 1 \in 1 .. Len(q) /\ i \in 1 .. Len(q) - 1
      BY <1>2, <1>4
    <3>2. q'[i] = q[i + 1] /\ q[i + 1] = Numbered + (i + 1)
      BY <1>2, <1>4, <3>1
    <3> QED BY <1>6, <1>7, <3>2
  <2> QED BY <1>1, <1>2, <1>4, <2>1 DEF CommandsFollow, q
<1>10. ReceivedInv'
  BY <1>1, <1>8, ReceivedStays DEF PayloadsInv, receiverVars
<1> QED BY <1>1, <1>8, <1>9, <1>10 DEF OrderInv, NothingSeen, receiverVars

LEMMA SendPingOrders ==
    ASSUME PayloadsInv, SendPing PROVE OrderInv' /\ ReceivedInv' /\ NothingSeen
<1>0. TypeOK
  BY DEF PayloadsInv, ChannelInv
<1>1. AssignNumbers(<<Ping>>) /\ UNCHANGED <<accepted, queuedCommands, receiverVars>>
  BY DEF SendPing
<1>2. <<Ping>> \in Seq(Payloads) /\ Len(<<Ping>>) = 1 /\ <<Ping>>[1] = Ping
  BY DEF Payloads
<1>3. /\ nextOut' = nextOut + 1
      /\ \A a \in 0 .. nextOut - 1 : numbered'[a] = numbered[a]
      /\ numbered'[nextOut + (1 - 1)] = Ping
  <2> DEFINE ps == <<Ping>>
  <2> HIDE DEF ps
  <2>1. ps \in Seq(Payloads) /\ Len(ps) = 1 /\ ps[1] = Ping /\ AssignNumbers(ps)
    BY <1>1, <1>2 DEF ps
  <2>2. /\ nextOut' = nextOut + Len(ps)
        /\ \A a \in 0 .. nextOut - 1 : numbered'[a] = numbered[a]
        /\ \A i \in 1 .. Len(ps) : numbered'[nextOut + (i - 1)] = ps[i]
    BY <1>0, <2>1, Assigned
  <2> QED BY <2>1, <2>2
<1>4. nextOut \in Nat /\ numbered'[nextOut] = Ping
  <2>1. nextOut \in Nat
    BY <1>0, PlacesAre
  <2>2. nextOut + (1 - 1) = nextOut
    BY <2>1
  <2> QED BY <1>3, <2>1, <2>2
<1>5. /\ \A a : a \in 0 .. nextOut' - 1 <=> a \in 0 .. nextOut - 1 \/ a = nextOut
      /\ \A a \in 0 .. nextOut' - 1 : numbered'[a] \in Parts => a \in 0 .. nextOut - 1
  BY <1>3, <1>4, PartsAre
<1>6. ASSUME NEW p \in Parts
      PROVE  (\E a \in 0 .. nextOut' - 1 : numbered'[a] = p)
                <=> \E a \in 0 .. nextOut - 1 : numbered[a] = p
  BY <1>3, <1>5
<1>7. Numbered' = Numbered
  BY <1>1 DEF Numbered
<1>8. AllNumbered'
  BY <1>6, <1>7 DEF PayloadsInv, OrderInv, AllNumbered
<1>9. InOrder'
  BY <1>3, <1>5 DEF PayloadsInv, OrderInv, InOrder
<1>10. CommandsFollow'
  BY <1>1, <1>7 DEF PayloadsInv, OrderInv, CommandsFollow
<1>11. ReceivedInv'
  BY <1>1, <1>3, ReceivedStays DEF PayloadsInv, receiverVars
<1> QED BY <1>1, <1>8, <1>9, <1>10, <1>11 DEF OrderInv, NothingSeen, receiverVars

\* No number is given out.
LEMMA OrderStays ==
    ASSUME OrderInv, UNCHANGED <<accepted, queuedCommands, nextOut, numbered>>
    PROVE  OrderInv'
<1>1. Numbered' = Numbered
  BY DEF Numbered
<1> QED BY <1>1 DEF OrderInv, CommandsFollow, AllNumbered, InOrder

LEMMA QuietOrders ==
    ASSUME PayloadsInv,
           UNCHANGED <<accepted, queuedCommands, nextOut, numbered, nextIn, splits, delivered>>
    PROVE  OrderInv' /\ ReceivedInv' /\ NothingSeen
<1>1. OrderInv'
  BY OrderStays DEF PayloadsInv
<1>2. ReceivedInv'
  BY DEF PayloadsInv, ReceivedInv, DeliveredInOrder, SplitsOfNext, AllProcessed, Processed
<1> QED BY <1>1, <1>2 DEF NothingSeen

LEMMA HandledOrders ==
    ASSUME Room, PayloadsInv, Drain \/ \E n \in wire : ReceiveNext(n)
    PROVE  OrderInv' /\ ReceivedInv' /\ (NothingSeen \/ MessageGiven)
<1>1. /\ nextIn \in 0 .. nextOut - 1 /\ ProcessPayload(numbered[nextIn])
      /\ nextIn' = nextIn + 1 /\ UNCHANGED senderVars
  BY ReceiveNextIs, DrainIs DEF PayloadsInv
<1>2. UNCHANGED <<accepted, queuedCommands, nextOut, numbered>>
  BY <1>1 DEF senderVars
<1>3. OrderInv'
  BY <1>2, OrderStays DEF PayloadsInv
<1>4. /\ ReceivedInv'
      /\ \/ delivered' = delivered
         \/ /\ delivered' = Append(delivered, Len(delivered) + 1)
            /\ Len(delivered) < accepted
  BY <1>1, <1>2, Handled DEF PayloadsInv
<1> QED BY <1>2, <1>3, <1>4 DEF NothingSeen, MessageGiven

\* Every step keeps the order, and shows the applications one of three things.
LEMMA StepPayloads ==
    ASSUME Room, PayloadsInv, [Next]_vars
    PROVE  PayloadsInv' /\ (NothingSeen \/ MessageTaken \/ MessageGiven)
<1>1. ChannelInv'
  BY StepChannel DEF PayloadsInv
<1>2. OrderInv' /\ ReceivedInv' /\ (NothingSeen \/ MessageTaken \/ MessageGiven)
  <2>1. CASE UNCHANGED vars
    BY <2>1, QuietOrders DEF vars, senderVars, receiverVars
  <2>2. CASE SendQueued \/ UpdateTimers
    BY <2>2, QuietOrders DEF SendQueued, UpdateTimers, receiverVars
  <2>3. ASSUME NEW n, Resend(n) \/ LosePacket(n) \/ LoseAck(n) \/ ReceiveAck(n)
        PROVE  OrderInv' /\ ReceivedInv' /\ NothingSeen
    BY <2>3, QuietOrders DEF Resend, LosePacket, LoseAck, ReceiveAck, senderVars, receiverVars
  <2>4. ASSUME NEW n, ReceiveAhead(n) \/ ReceiveFuture(n) \/ ReceiveOld(n)
        PROVE  OrderInv' /\ ReceivedInv' /\ NothingSeen
    BY <2>4, QuietOrders
    DEF ReceiveAhead, ReceiveFuture, ReceiveOld, senderVars, receiverVars
  <2>5. ASSUME NEW n \in wire, Receive(n)
        PROVE  OrderInv' /\ ReceivedInv' /\ (NothingSeen \/ MessageGiven)
    BY <2>4, <2>5, HandledOrders DEF Receive
  <2> QED BY <2>1, <2>2, <2>3, <2>5, HandledOrders, SendDirectlyOrders, SendLaterOrders,
             RunCommandQueuesOrders, SendPingOrders DEF Next
<1> QED BY <1>1, <1>2 DEF PayloadsInv

LEMMA InitPayloads == ASSUME Room, Init PROVE PayloadsInv
<1>1. ChannelInv
  BY InitChannel
<1>2. /\ accepted = 0 /\ queuedCommands = <<>> /\ nextOut = 0 /\ nextIn = 0
      /\ splits = {} /\ delivered = <<>>
  BY DEF Init
<1>3. Len(queuedCommands) = 0 /\ Len(delivered) = 0 /\ Numbered = 0
  <2>1. Len(queuedCommands) = 0 /\ Len(delivered) = 0
    BY <1>2
  <2>2. accepted = 0
    BY <1>2
  <2> QED BY <2>1, <2>2 DEF Numbered
<1>4. \A p \in Parts : ~ (p.msg <= 0)
  BY PartsAre
<1>5. OrderInv
  BY <1>2, <1>3, <1>4 DEF OrderInv, CommandsFollow, AllNumbered, InOrder
<1>6. SplitsOfNext
  <2>1. 0 < NumMessages => [msg |-> 1, chunk |-> 1] \in PartsOf(1)
    <3>1. 0 < NumMessages => 1 \in 1 .. NumMessages /\ 1 \in 1 .. Chunks[1]
      BY PartsAre
    <3> QED BY <3>1, PartsAre DEF PartsOf
  <2> QED BY <1>2, <1>3, <2>1 DEF SplitsOfNext
<1>7. ReceivedInv
  BY <1>2, <1>3, <1>4, <1>6 DEF ReceivedInv, DeliveredInOrder, AllProcessed, Processed
<1> QED BY <1>1, <1>5, <1>7 DEF PayloadsInv

\* The messages taken, as the abstract specification lists them.
LEMMA TakenOnce ==
    ASSUME NEW n \in Nat
    PROVE  /\ [m \in 1 .. n |-> m] \in Seq(Nat) /\ Len([m \in 1 .. n |-> m]) = n
           /\ [m \in 1 .. n + 1 |-> m] = Append([m \in 1 .. n |-> m], n + 1)
<1> DEFINE s == [m \in 1 .. n |-> m]
           t == [m \in 1 .. n + 1 |-> m]
<1>1. s \in Seq(Nat) /\ Len(s) = n /\ \A i \in 1 .. n : s[i] = i
  OBVIOUS
<1>2. t \in Seq(Nat) /\ Len(t) = n + 1 /\ \A i \in 1 .. n + 1 : t[i] = i
  OBVIOUS
<1> HIDE DEF s, t
<1>3. /\ Append(s, n + 1) \in Seq(Nat) /\ Len(Append(s, n + 1)) = n + 1
      /\ \A i \in 1 .. n + 1 : Append(s, n + 1)[i] = i
  BY <1>1
<1>4. t = Append(s, n + 1)
  BY <1>2, <1>3, SeqEqual
<1> QED BY <1>1, <1>4 DEF s, t

LEMMA FifoInitially == Init => Fifo!FifoInit
BY DEF Init, Fifo!FifoInit

LEMMA FifoStep ==
    ASSUME PayloadsInv, NothingSeen \/ MessageTaken \/ MessageGiven
    PROVE  [Fifo!FifoNext]_(Fifo!fifoVars)
<1>0. accepted \in Nat /\ NumMessages \in Nat /\ delivered \in Seq(1 .. NumMessages)
  BY PlacesAre DEF PayloadsInv, ChannelInv, TypeOK
<1>1. CASE NothingSeen
  BY <1>1 DEF NothingSeen, Fifo!fifoVars
<1>2. CASE MessageTaken
  <2>1. accepted + 1 \in 1 .. NumMessages /\ accepted' = accepted + 1 /\ UNCHANGED delivered
    BY <1>0, <1>2 DEF MessageTaken
  <2>2. [m \in 1 .. accepted' |-> m] = Append([m \in 1 .. accepted |-> m], accepted + 1)
    BY <1>0, <2>1, TakenOnce
  <2> QED BY <2>1, <2>2 DEF Fifo!FifoNext, Fifo!Accept
<1>3. CASE MessageGiven
  <2>1. /\ Len(delivered) < accepted /\ UNCHANGED accepted
        /\ delivered' = Append(delivered, Len(delivered) + 1)
    BY <1>3 DEF MessageGiven
  <2>2. /\ Len([m \in 1 .. accepted |-> m]) = accepted
        /\ [m \in 1 .. accepted |-> m][Len(delivered) + 1] = Len(delivered) + 1
    BY <1>0, <2>1, TakenOnce
  <2> QED BY <2>1, <2>2 DEF Fifo!FifoNext, Fifo!Deliver
<1> QED BY <1>1, <1>2, <1>3

\* For any messages, cut into any chunks, over a network that loses, repeats
\* and reorders packets and acknowledgements, the channel delivers what it was
\* given, once and in the order of the sending.
THEOREM Refinement == ASSUME Room PROVE Spec => DeliversInOrder
<1>1. Init => PayloadsInv
  BY InitPayloads
<1>2. PayloadsInv /\ [Next]_vars => PayloadsInv' /\ [Fifo!FifoNext]_(Fifo!fifoVars)
  BY StepPayloads, FifoStep
<1> QED BY <1>1, <1>2, FifoInitially, PTL DEF Spec, DeliversInOrder, Fifo!FifoSpec
=============================================================================
