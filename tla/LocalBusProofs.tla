---- MODULE LocalBusProofs ----
(***************************************************************************)
(* Proofs about the message bus, for any number of subjects, publishers,    *)
(* subscribers and messages and any capacity. The inductive invariant says  *)
(* who may be where in the lock (LockInv), that a publisher serves the tail *)
(* of its subject's list, in which every subscriber stands once (ListInv),  *)
(* and what each subscriber was handed (FlowInv).                           *)
(***************************************************************************)
EXTENDS LocalBus, SequenceTheorems, TLAPS

Message == Publishers \X (1..MaxMsgs)

In(s, x) == \E i \in DOMAIN s : s[i] = x
Once(s) == \A i, j \in DOMAIN s : s[i] = s[j] => i = j

\* t is the end of s.
EndOf(t, s) ==
  /\ Len(t) <= Len(s)
  /\ \A i \in 1..Len(t) : t[i] = s[Len(s) - Len(t) + i]

\* The messages of p in s are those after lo up to hi, each once and in order.
Numbered(s, p, lo, hi) ==
  /\ \A i \in DOMAIN s : s[i][1] = p => s[i][2] \in (lo + 1)..hi
  /\ \A k \in (lo + 1)..hi : In(s, <<p, k>>)
  /\ \A i, j \in DOMAIN s : s[i][1] = p /\ s[j][1] = p /\ i < j => s[i][2] < s[j][2]

\* The messages of p that r should have been handed by now.
Upto(p, r) == Started(p) - (IF StillToCome(p, r) THEN 1 ELSE 0)

Shape ==
  /\ subscribers \in [BusSubjects -> Seq(Receivers)]
  /\ chan \in [Receivers -> Seq(Message)]
  /\ got \in [Receivers -> Seq(Message)]
  /\ \A r \in Receivers : Len(chan[r]) <= Capacity
  /\ dropped \in SUBSET Receivers
  /\ waitq \in Seq(Publishers \cup Receivers)
  /\ ppc \in [Publishers -> {"idle", "waiting", "sending"}]
  /\ todo \in [Publishers -> Seq(Receivers)]
  /\ sent \in [Publishers -> 0..MaxMsgs]
  /\ base \in [Receivers -> [Publishers -> Nat]]

LockInv ==
  /\ Once(waitq)
  /\ readers = {p \in Publishers : ppc[p] = "sending"}
  /\ \A p \in Publishers : In(waitq, p) <=> ppc[p] = "waiting"
  /\ \A p \in Publishers : ppc[p] # "idle" => sent[p] >= 1
  /\ \A r \in Receivers : In(waitq, r) => ~Joined(r)

ListInv ==
  /\ \A s \in BusSubjects : Once(subscribers[s])
  /\ \A s \in BusSubjects : \A r \in Receivers : In(subscribers[s], r) => SubjectOf[r] = s
  /\ \A p \in Publishers : ppc[p] # "sending" => todo[p] = <<>>
  /\ \A p \in Publishers : ppc[p] = "sending" => EndOf(todo[p], subscribers[SubjectOf[p]])

FlowInv ==
  /\ \A r \in Receivers : ~Joined(r) => got[r] = <<>> /\ chan[r] = <<>>
  /\ \A r \in Receivers, p \in Publishers :
       Joined(r) /\ r \notin dropped /\ SubjectOf[p] = SubjectOf[r] =>
         /\ base[r][p] <= Upto(p, r)
         /\ Numbered(Handed(r), p, base[r][p], Upto(p, r))

IInv == Shape /\ LockInv /\ ListInv /\ FlowInv

----
(* Sequences. *)

\* What Append does to membership.
LEMMA InAppend ==
  ASSUME NEW S, NEW s \in Seq(S), NEW e \in S, NEW x
  PROVE  In(Append(s, e), x) <=> In(s, x) \/ x = e
<1>1. /\ Len(s) \in Nat /\ DOMAIN s = 1..Len(s)
      /\ DOMAIN Append(s, e) = 1..(Len(s) + 1)
      /\ \A i \in 1..Len(s) : Append(s, e)[i] = s[i]
      /\ Append(s, e)[Len(s) + 1] = e
  BY AppendProperties, LenProperties
<1>2. 1..(Len(s) + 1) = (1..Len(s)) \cup {Len(s) + 1}
  BY <1>1
<1>3. QED
  BY <1>1, <1>2 DEF In

\* A new element may be appended.
LEMMA OnceAppend ==
  ASSUME NEW S, NEW s \in Seq(S), NEW e \in S, Once(s), ~In(s, e)
  PROVE  Once(Append(s, e))
<1>1. /\ Len(s) \in Nat /\ DOMAIN s = 1..Len(s)
      /\ DOMAIN Append(s, e) = 1..(Len(s) + 1)
      /\ \A i \in 1..Len(s) : Append(s, e)[i] = s[i]
      /\ Append(s, e)[Len(s) + 1] = e
  BY AppendProperties, LenProperties
<1>2. 1..(Len(s) + 1) = (1..Len(s)) \cup {Len(s) + 1}
  BY <1>1
<1>3. QED
  BY <1>1, <1>2 DEF In, Once

\* Taking the head off a sequence without repetitions removes that element.
LEMMA OnceTail ==
  ASSUME NEW S, NEW s \in Seq(S), s # <<>>, Once(s)
  PROVE  /\ Once(Tail(s))
         /\ In(s, Head(s))
         /\ \A x : In(Tail(s), x) <=> In(s, x) /\ x # Head(s)
<1>1. /\ Len(s) \in Nat \ {0} /\ DOMAIN s = 1..Len(s)
      /\ Head(s) = s[1]
      /\ DOMAIN Tail(s) = 1..(Len(s) - 1)
      /\ \A i \in 1..(Len(s) - 1) : Tail(s)[i] = s[i + 1]
  BY HeadTailProperties, LenProperties, EmptySeq
<1>2. \A i \in 1..Len(s) : i # 1 => i - 1 \in 1..(Len(s) - 1) /\ Tail(s)[i - 1] = s[i]
  BY <1>1
<1>3. ASSUME NEW x PROVE In(Tail(s), x) <=> In(s, x) /\ x # Head(s)
  <2>1. ASSUME In(Tail(s), x) PROVE In(s, x) /\ x # Head(s)
    <3>1. PICK i \in 1..(Len(s) - 1) : Tail(s)[i] = x
      BY <2>1, <1>1 DEF In
    <3>2. i + 1 \in 1..Len(s) /\ s[i + 1] = x /\ i + 1 # 1 /\ 1 \in 1..Len(s)
      BY <3>1, <1>1
    <3>3. QED
      BY <3>2, <1>1 DEF In, Once
  <2>2. ASSUME In(s, x), x # Head(s) PROVE In(Tail(s), x)
    BY <2>2, <1>1, <1>2 DEF In
  <2>3. QED
    BY <2>1, <2>2
<1>4. Once(Tail(s))
  <2>1. SUFFICES ASSUME NEW i \in 1..(Len(s) - 1), NEW j \in 1..(Len(s) - 1),
                        Tail(s)[i] = Tail(s)[j]
                 PROVE  i = j
    BY <1>1 DEF Once
  <2>2. i + 1 \in 1..Len(s) /\ j + 1 \in 1..Len(s) /\ s[i + 1] = s[j + 1]
    BY <2>1, <1>1
  <2>3. i + 1 = j + 1
    BY <2>2, <1>1 DEF Once
  <2>4. QED
    BY <2>3
<1>5. In(s, Head(s))
  BY <1>1 DEF In
<1>6. QED
  BY <1>3, <1>4, <1>5

\* The whole of a sequence, and the tail of an end, are ends of it.
LEMMA EndOfItself ==
  ASSUME NEW S, NEW s \in Seq(S)
  PROVE  EndOf(s, s)
BY LenProperties DEF EndOf

LEMMA EndOfTail ==
  ASSUME NEW S, NEW s \in Seq(S), NEW t \in Seq(S), t # <<>>, EndOf(t, s)
  PROVE  EndOf(Tail(t), s)
<1>1. /\ Len(s) \in Nat /\ Len(t) \in Nat \ {0}
      /\ Len(Tail(t)) = Len(t) - 1
      /\ \A i \in 1..(Len(t) - 1) : Tail(t)[i] = t[i + 1]
  BY HeadTailProperties, LenProperties, EmptySeq
<1>2. ASSUME NEW i \in 1..(Len(t) - 1)
      PROVE  Tail(t)[i] = s[Len(s) - (Len(t) - 1) + i]
  <2>1. i + 1 \in 1..Len(t) /\ Len(s) - Len(t) + (i + 1) = Len(s) - (Len(t) - 1) + i
    BY <1>1
  <2>2. t[i + 1] = s[Len(s) - Len(t) + (i + 1)]
    BY <2>1 DEF EndOf
  <2>3. QED
    BY <2>1, <2>2, <1>1
<1>3. QED
  BY <1>1, <1>2 DEF EndOf

\* An end holds only elements of the sequence, each as often.
LEMMA EndOfOnce ==
  ASSUME NEW S, NEW s \in Seq(S), NEW t \in Seq(S), EndOf(t, s), Once(s)
  PROVE  /\ Once(t)
         /\ \A x : In(t, x) => In(s, x)
<1>1. Len(s) \in Nat /\ Len(t) \in Nat /\ DOMAIN s = 1..Len(s) /\ DOMAIN t = 1..Len(t)
  BY LenProperties
<1>2. \A i \in 1..Len(t) : Len(s) - Len(t) + i \in 1..Len(s) /\ t[i] = s[Len(s) - Len(t) + i]
  BY <1>1 DEF EndOf
<1>3. Once(t)
  <2>1. SUFFICES ASSUME NEW i \in 1..Len(t), NEW j \in 1..Len(t), t[i] = t[j] PROVE i = j
    BY <1>1 DEF Once
  <2>2. Len(s) - Len(t) + i = Len(s) - Len(t) + j
    BY <2>1, <1>1, <1>2 DEF Once
  <2>3. QED
    BY <2>2, <1>1
<1>4. ASSUME NEW x, In(t, x) PROVE In(s, x)
  BY <1>1, <1>2, <1>4 DEF In
<1>5. QED
  BY <1>3, <1>4

\* An end is the subsequence ListIsStable speaks of.
LEMMA EndOfIsSubSeq ==
  ASSUME NEW S, NEW s \in Seq(S), NEW t \in Seq(S), EndOf(t, s)
  PROVE  t = SubSeq(s, (Len(s) - Len(t)) + 1, Len(s))
<1>1. Len(s) \in Nat /\ Len(t) \in Nat /\ Len(t) <= Len(s)
  BY LenProperties DEF EndOf
<1> DEFINE k == Len(s) - Len(t)
<1>2. k \in Nat /\ k + 1 \in Int /\ Len(s) \in Int
  BY <1>1
<1>3. \A i \in (k + 1)..Len(s) : s[i] \in S
  BY <1>1, ElementOfSeq
<1>4. /\ SubSeq(s, k + 1, Len(s)) \in Seq(S)
      /\ Len(SubSeq(s, k + 1, Len(s))) = IF k + 1 <= Len(s) THEN Len(s) - (k + 1) + 1 ELSE 0
      /\ \A i \in 1..(Len(s) - (k + 1) + 1) : SubSeq(s, k + 1, Len(s))[i] = s[(k + 1) + i - 1]
  <2> HIDE DEF k
  <2>1. QED
    BY <1>2, <1>3, SubSeqProperties
<1>5. Len(SubSeq(s, k + 1, Len(s))) = Len(t)
  BY <1>1, <1>4
<1>6. \A i \in 1..Len(t) : t[i] = SubSeq(s, k + 1, Len(s))[i]
  <2>1. TAKE i \in 1..Len(t)
  <2>2. t[i] = s[k + i] /\ i \in 1..(Len(s) - (k + 1) + 1) /\ (k + 1) + i - 1 = k + i
    BY <1>1 DEF EndOf
  <2>3. QED
    BY <2>2, <1>4
<1>7. t = SubSeq(s, k + 1, Len(s))
  <2> HIDE DEF k
  <2>1. QED
    BY <1>4, <1>5, <1>6, SeqEqual
<1>8. QED
  BY <1>7

\* The next message of p extends what is numbered up to hi.
LEMMA NumberedNext ==
  ASSUME NEW s \in Seq(Message), NEW p \in Publishers, NEW lo \in Nat, NEW hi \in Nat,
         lo <= hi, hi + 1 \in 1..MaxMsgs, Numbered(s, p, lo, hi)
  PROVE  Numbered(Append(s, <<p, hi + 1>>), p, lo, hi + 1)
<1> DEFINE m == <<p, hi + 1>>
           t == Append(s, m)
<1>1. m \in Message /\ m[1] = p /\ m[2] = hi + 1
  BY DEF Message
<1>2. /\ Len(s) \in Nat /\ DOMAIN s = 1..Len(s) /\ DOMAIN t = 1..(Len(s) + 1)
      /\ \A i \in 1..Len(s) : t[i] = s[i]
      /\ t[Len(s) + 1] = m
  BY <1>1, AppendProperties, LenProperties
<1>3. \A i \in 1..(Len(s) + 1) : i \in 1..Len(s) \/ i = Len(s) + 1
  BY <1>2
<1> HIDE DEF m, t
<1>4. ASSUME NEW i \in DOMAIN t, t[i][1] = p PROVE t[i][2] \in (lo + 1)..(hi + 1)
  <2>1. CASE i \in 1..Len(s)
    <3>1. s[i][2] \in (lo + 1)..hi
      BY <1>2, <1>4, <2>1 DEF Numbered
    <3>2. QED
      BY <3>1, <1>2, <2>1
  <2>2. CASE i = Len(s) + 1
    BY <1>1, <1>2, <2>2
  <2>3. QED
    BY <1>2, <1>3, <2>1, <2>2
<1>5. ASSUME NEW k \in (lo + 1)..(hi + 1) PROVE In(t, <<p, k>>)
  <2>1. CASE k = hi + 1
    <3>1. Len(s) + 1 \in DOMAIN t /\ t[Len(s) + 1] = <<p, k>>
      BY <1>2, <2>1 DEF m
    <3>2. QED
      BY <3>1 DEF In
  <2>2. CASE k # hi + 1
    <3>1. k \in (lo + 1)..hi
      BY <2>2
    <3>2. PICK i \in DOMAIN s : s[i] = <<p, k>>
      BY <3>1 DEF Numbered, In
    <3>3. i \in DOMAIN t /\ t[i] = <<p, k>>
      BY <3>2, <1>2
    <3>4. QED
      BY <3>3 DEF In
  <2>3. QED
    BY <2>1, <2>2
<1>6. ASSUME NEW i \in DOMAIN t, NEW j \in DOMAIN t, t[i][1] = p, t[j][1] = p, i < j
      PROVE  t[i][2] < t[j][2]
  <2>1. i \in 1..Len(s) /\ s[i][1] = p /\ t[i] = s[i]
    BY <1>2, <1>6
  <2>2. CASE j \in 1..Len(s)
    BY <1>2, <1>6, <2>1, <2>2 DEF Numbered
  <2>3. CASE j = Len(s) + 1
    <3>1. s[i][2] \in (lo + 1)..hi /\ t[j][2] = hi + 1
      BY <1>1, <1>2, <2>1, <2>3 DEF Numbered
    <3>2. QED
      BY <3>1, <2>1
  <2>4. QED
    BY <1>2, <1>3, <2>2, <2>3
<1>7. Numbered(t, p, lo, hi + 1)
  BY <1>4, <1>5, <1>6 DEF Numbered
<1>8. QED
  BY <1>7 DEF t, m

\* A message of another publisher changes nothing for p.
LEMMA NumberedOther ==
  ASSUME NEW s \in Seq(Message), NEW p \in Publishers, NEW m \in Message, m[1] # p,
         NEW lo, NEW hi, Numbered(s, p, lo, hi)
  PROVE  Numbered(Append(s, m), p, lo, hi)
<1> DEFINE t == Append(s, m)
<1>1. /\ Len(s) \in Nat /\ DOMAIN s = 1..Len(s) /\ DOMAIN t = 1..(Len(s) + 1)
      /\ \A i \in 1..Len(s) : t[i] = s[i]
      /\ t[Len(s) + 1] = m
  BY AppendProperties, LenProperties
<1> HIDE DEF t
<1>2. \A i \in DOMAIN t : t[i][1] = p => i \in DOMAIN s /\ t[i] = s[i]
  BY <1>1
<1>3. \A i \in DOMAIN s : i \in DOMAIN t /\ t[i] = s[i]
  BY <1>1
<1>4. \A i \in DOMAIN t : t[i][1] = p => t[i][2] \in (lo + 1)..hi
  BY <1>2 DEF Numbered
<1>5. \A k \in (lo + 1)..hi : In(t, <<p, k>>)
  BY <1>3 DEF Numbered, In
<1>6. \A i, j \in DOMAIN t : t[i][1] = p /\ t[j][1] = p /\ i < j => t[i][2] < t[j][2]
  BY <1>2 DEF Numbered
<1>7. QED
  BY <1>4, <1>5, <1>6 DEF Numbered, t

\* Nothing is numbered up to where it starts.
LEMMA NumberedNothing ==
  ASSUME NEW p \in Publishers, NEW lo \in Int
  PROVE  Numbered(<<>>, p, lo, lo)
BY DEF Numbered, In

\* Receiving moves a message from the queue to the history.
LEMMA ReceivedIsHanded ==
  ASSUME NEW S, NEW g \in Seq(S), NEW c \in Seq(S), c # <<>>
  PROVE  Append(g, Head(c)) \o Tail(c) = g \o c
<1>1. /\ Len(c) \in Nat \ {0} /\ Len(g) \in Nat /\ Head(c) = c[1] /\ Head(c) \in S
      /\ Tail(c) \in Seq(S) /\ Len(Tail(c)) = Len(c) - 1
      /\ \A i \in 1..(Len(c) - 1) : Tail(c)[i] = c[i + 1]
  BY HeadTailProperties, LenProperties, EmptySeq
<1> DEFINE a == Append(g, Head(c))
<1>2. /\ a \in Seq(S) /\ Len(a) = Len(g) + 1
      /\ \A i \in 1..Len(g) : a[i] = g[i]
      /\ a[Len(g) + 1] = c[1]
  BY <1>1, AppendProperties
<1> HIDE DEF a
<1>3. /\ a \o Tail(c) \in Seq(S) /\ Len(a \o Tail(c)) = Len(a) + Len(Tail(c))
      /\ \A i \in 1..(Len(a) + Len(Tail(c))) :
           (a \o Tail(c))[i] = IF i <= Len(a) THEN a[i] ELSE Tail(c)[i - Len(a)]
  BY <1>1, <1>2, ConcatProperties
<1>4. /\ g \o c \in Seq(S) /\ Len(g \o c) = Len(g) + Len(c)
      /\ \A i \in 1..(Len(g) + Len(c)) :
           (g \o c)[i] = IF i <= Len(g) THEN g[i] ELSE c[i - Len(g)]
  BY ConcatProperties
<1>5. Len(a \o Tail(c)) = Len(g \o c)
  BY <1>1, <1>2, <1>3, <1>4
<1>6. ASSUME NEW i \in 1..(Len(g) + Len(c)) PROVE (a \o Tail(c))[i] = (g \o c)[i]
  <2>1. CASE i <= Len(g)
    BY <2>1, <1>1, <1>2, <1>3, <1>4
  <2>2. CASE i = Len(g) + 1
    BY <2>2, <1>1, <1>2, <1>3, <1>4
  <2>3. CASE i > Len(g) + 1
    <3>1. i - Len(a) \in 1..(Len(c) - 1) /\ (i - Len(a)) + 1 = i - Len(g)
      BY <2>3, <1>1, <1>2
    <3>2. Tail(c)[i - Len(a)] = c[i - Len(g)]
      BY <3>1, <1>1
    <3>3. QED
      BY <3>2, <2>3, <1>1, <1>2, <1>3, <1>4
  <2>4. i <= Len(g) \/ i = Len(g) + 1 \/ i > Len(g) + 1
    <3>1. i \in Int /\ Len(g) \in Int
      BY <1>1
    <3>2. QED
      BY <3>1
  <2>5. QED
    BY <2>1, <2>2, <2>3, <2>4
<1>7. a \o Tail(c) = g \o c
  BY <1>3, <1>4, <1>5, <1>6, SeqEqual
<1>8. QED
  BY <1>7 DEF a

\* Queueing a message hands it on.
LEMMA QueuedIsHanded ==
  ASSUME NEW S, NEW g \in Seq(S), NEW c \in Seq(S), NEW m \in S
  PROVE  g \o Append(c, m) = Append(g \o c, m)
<1>1. Append(c, m) = c \o <<m>> /\ <<m>> \in Seq(S)
  BY AppendIsConcat
<1>2. g \o c \in Seq(S)
  BY ConcatProperties
<1>3. Append(g \o c, m) = (g \o c) \o <<m>>
  BY <1>2, AppendIsConcat
<1>4. QED
  BY <1>1, <1>3, ConcatAssociative

----
(* What the steps do. *)

\* What a step that keeps the queues' contents, and every publisher's and
\* subscriber's place, does to the flow: nothing.
LEMMA FlowUntouched ==
  ASSUME FlowInv,
         \A r \in Receivers : Joined(r)' <=> Joined(r),
         \A r \in Receivers : Handed(r)' = Handed(r),
         \A r \in Receivers : ~Joined(r) => UNCHANGED <<got[r], chan[r]>>,
         \A p \in Publishers, r \in Receivers : Upto(p, r)' = Upto(p, r),
         base' = base, dropped \subseteq dropped'
  PROVE  FlowInv'
<1>1. ASSUME NEW r \in Receivers, ~Joined(r)' PROVE got'[r] = <<>> /\ chan'[r] = <<>>
  BY <1>1 DEF FlowInv
<1>2. ASSUME NEW r \in Receivers, NEW p \in Publishers,
             Joined(r)', r \notin dropped', SubjectOf[p] = SubjectOf[r]
      PROVE  /\ base'[r][p] <= Upto(p, r)'
             /\ Numbered(Handed(r)', p, base'[r][p], Upto(p, r)')
  BY <1>2 DEF FlowInv
<1>3. QED
  BY <1>1, <1>2 DEF FlowInv

LEMMA InitIInv ==
  ASSUME Init
  PROVE  IInv
<1> USE BusAssumption
<1>1. Shape
  BY EmptySeq DEF Init, Shape, Message
<1>2. \A x : ~In(<<>>, x)
  BY DEF In
<1>3. Once(<<>>)
  BY DEF Once
<1>4. \A r \in Receivers : SubjectOf[r] \in BusSubjects /\ ~Joined(r)
  BY DEF Init, Joined
<1>5. LockInv
  BY <1>2, <1>3, <1>4 DEF Init, LockInv
<1>6. ListInv
  BY <1>2, <1>3 DEF Init, ListInv
<1>7. FlowInv
  BY <1>4 DEF Init, FlowInv
<1>8. QED
  BY <1>1, <1>5, <1>6, <1>7 DEF IInv

LEMMA PublishStep ==
  ASSUME IInv, NEW p \in Publishers, Publish(p)
  PROVE  IInv'
<1> USE BusAssumption
<1>1. Shape /\ LockInv /\ ListInv /\ FlowInv
  BY DEF IInv
<1>2. waitq \in Seq(Publishers \cup Receivers) /\ p \in Publishers \cup Receivers
  BY <1>1 DEF Shape
<1>3. ~In(waitq, p)
  BY <1>1 DEF LockInv, Publish
<1>4. /\ waitq' \in Seq(Publishers \cup Receivers)
      /\ Once(waitq')
      /\ \A x : In(waitq', x) <=> In(waitq, x) \/ x = p
  BY <1>1, <1>2, <1>3, AppendProperties, OnceAppend, InAppend DEF LockInv, Publish
<1>5. /\ sent[p] \in 0..MaxMsgs /\ sent' = [sent EXCEPT ![p] = sent[p] + 1]
      /\ sent' \in [Publishers -> 0..MaxMsgs]
      /\ sent'[p] = sent[p] + 1
      /\ \A q \in Publishers : q # p => sent'[q] = sent[q]
  BY <1>1 DEF Shape, Publish
<1>6. /\ ppc' \in [Publishers -> {"idle", "waiting", "sending"}]
      /\ ppc[p] = "idle" /\ ppc'[p] = "waiting"
      /\ \A q \in Publishers : q # p => ppc'[q] = ppc[q]
  BY <1>1 DEF Shape, Publish
<1>7. Shape'
  BY <1>1, <1>4, <1>5, <1>6 DEF Shape, Publish
<1>8. \A r \in Receivers : (Joined(r)' <=> Joined(r)) /\ r # p
  BY DEF Joined, Publish
<1>9. LockInv'
  <2>1. readers' = {q \in Publishers : ppc'[q] = "sending"}
    BY <1>1, <1>6 DEF LockInv, Publish
  <2>2. \A q \in Publishers : In(waitq', q) <=> ppc'[q] = "waiting"
    BY <1>1, <1>4, <1>6 DEF LockInv
  <2>3. \A q \in Publishers : ppc'[q] # "idle" => sent'[q] >= 1
    BY <1>1, <1>5, <1>6 DEF LockInv
  <2>4. \A r \in Receivers : In(waitq', r) => ~Joined(r)'
    BY <1>1, <1>4, <1>8 DEF LockInv
  <2>5. QED
    BY <1>4, <2>1, <2>2, <2>3, <2>4 DEF LockInv
<1>10. ListInv'
  BY <1>1, <1>6 DEF ListInv, Publish
<1>11. \A q \in Publishers, r \in Receivers : Upto(q, r)' = Upto(q, r)
  <2>1. TAKE q \in Publishers, r \in Receivers
  <2>2. Started(q)' = Started(q)
    BY <1>5, <1>6 DEF Started
  <2>3. StillToCome(q, r)' <=> StillToCome(q, r)
    BY DEF StillToCome, Publish
  <2>4. QED
    BY <2>2, <2>3 DEF Upto
<1>12. FlowInv'
  <2>1. \A r \in Receivers : Handed(r)' = Handed(r)
    BY DEF Handed, Publish
  <2>2. QED
    BY <1>1, <1>8, <1>11, <2>1, FlowUntouched DEF Publish
<1>13. QED
  BY <1>7, <1>9, <1>10, <1>12 DEF IInv

LEMMA ReadLockStep ==
  ASSUME IInv, NEW p \in Publishers, ReadLock(p)
  PROVE  IInv'
<1> USE BusAssumption
<1>1. Shape /\ LockInv /\ ListInv /\ FlowInv
  BY DEF IInv
<1>2. /\ waitq \in Seq(Publishers \cup Receivers) /\ waitq # <<>> /\ Once(waitq)
      /\ Head(waitq) = p /\ waitq' = Tail(waitq)
  BY <1>1 DEF Shape, LockInv, ReadLock
<1>3. /\ waitq' \in Seq(Publishers \cup Receivers)
      /\ Once(waitq')
      /\ In(waitq, p)
      /\ \A x : In(waitq', x) <=> In(waitq, x) /\ x # p
  BY <1>2, HeadTailProperties, OnceTail
<1>4. /\ ppc' \in [Publishers -> {"idle", "waiting", "sending"}]
      /\ ppc[p] = "waiting" /\ ppc'[p] = "sending"
      /\ \A q \in Publishers : q # p => ppc'[q] = ppc[q]
  BY <1>1, <1>3 DEF Shape, LockInv, ReadLock
<1>5. SubjectOf[p] \in BusSubjects /\ subscribers[SubjectOf[p]] \in Seq(Receivers)
  BY <1>1 DEF Shape
<1>6. /\ todo' \in [Publishers -> Seq(Receivers)]
      /\ todo[p] = <<>>
      /\ todo'[p] = subscribers[SubjectOf[p]]
      /\ \A q \in Publishers : q # p => todo'[q] = todo[q]
  BY <1>1, <1>4, <1>5 DEF Shape, ListInv, ReadLock
<1>7. Shape'
  BY <1>1, <1>3, <1>4, <1>6 DEF Shape, ReadLock
<1>8. \A r \in Receivers : (Joined(r)' <=> Joined(r))
  BY DEF Joined, ReadLock
<1>9. LockInv'
  <2>1. readers' = {q \in Publishers : ppc'[q] = "sending"}
    BY <1>1, <1>4 DEF LockInv, ReadLock
  <2>2. \A q \in Publishers : In(waitq', q) <=> ppc'[q] = "waiting"
    BY <1>1, <1>3, <1>4 DEF LockInv
  <2>3. \A q \in Publishers : ppc'[q] # "idle" => sent'[q] >= 1
    BY <1>1, <1>4 DEF LockInv, ReadLock
  <2>4. \A r \in Receivers : In(waitq', r) => ~Joined(r)'
    BY <1>1, <1>3, <1>8 DEF LockInv
  <2>5. QED
    BY <1>3, <2>1, <2>2, <2>3, <2>4 DEF LockInv
<1>10. ListInv'
  <2>1. EndOf(todo'[p], subscribers[SubjectOf[p]])
    BY <1>5, <1>6, EndOfItself
  <2>2. subscribers' = subscribers
    BY DEF ReadLock
  <2>3. \A q \in Publishers : ppc'[q] # "sending" => todo'[q] = <<>>
    BY <1>1, <1>4, <1>6 DEF ListInv
  <2>4. \A q \in Publishers : ppc'[q] = "sending" => EndOf(todo'[q], subscribers'[SubjectOf[q]])
    BY <1>1, <1>4, <1>6, <2>1, <2>2 DEF ListInv
  <2>5. QED
    BY <1>1, <2>2, <2>3, <2>4 DEF ListInv
<1>11. ASSUME NEW r \in Receivers, NEW q \in Publishers, Joined(r), SubjectOf[q] = SubjectOf[r]
       PROVE  Upto(q, r)' = Upto(q, r)
  <2>1. CASE q # p
    <3>1. (Started(q)' = Started(q)) /\ (StillToCome(q, r)' <=> StillToCome(q, r))
      BY <1>4, <1>6, <2>1 DEF Started, StillToCome, ReadLock
    <3>2. QED
      BY <3>1 DEF Upto
  <2>2. CASE q = p
    <3>1. sent[p] \in Int /\ sent'[p] = sent[p]
      BY <1>1 DEF Shape, ReadLock
    <3>2. Started(p) = sent[p] - 1 /\ Started(p)' = sent[p]
      BY <1>4, <3>1 DEF Started
    <3>3. ~StillToCome(p, r)
      BY <1>6 DEF StillToCome
    <3>4. StillToCome(p, r)'
      BY <1>6, <1>11, <2>2 DEF StillToCome, Joined
    <3>5. QED
      BY <2>2, <3>1, <3>2, <3>3, <3>4 DEF Upto
  <2>3. QED
    BY <2>1, <2>2
<1>12. FlowInv'
  <2>1. got' = got /\ chan' = chan /\ base' = base /\ dropped' = dropped
    BY DEF ReadLock
  <2>2. \A r \in Receivers : Handed(r)' = Handed(r)
    BY <2>1 DEF Handed
  <2>3. ASSUME NEW r \in Receivers, ~Joined(r)' PROVE got'[r] = <<>> /\ chan'[r] = <<>>
    BY <1>1, <1>8, <2>1, <2>3 DEF FlowInv
  <2>4. ASSUME NEW r \in Receivers, NEW q \in Publishers,
               Joined(r)', r \notin dropped', SubjectOf[q] = SubjectOf[r]
        PROVE  /\ base'[r][q] <= Upto(q, r)'
               /\ Numbered(Handed(r)', q, base'[r][q], Upto(q, r)')
    BY <1>1, <1>8, <1>11, <2>1, <2>2, <2>4 DEF FlowInv
  <2>5. QED
    BY <2>3, <2>4 DEF FlowInv
<1>13. QED
  BY <1>7, <1>9, <1>10, <1>12 DEF IInv

LEMMA SendStep ==
  ASSUME IInv, NEW p \in Publishers, Send(p)
  PROVE  IInv'
<1> USE BusAssumption
<1> DEFINE r0 == Head(todo[p])
           m  == <<p, sent[p]>>
           all == subscribers[SubjectOf[p]]
<1>1. Shape /\ LockInv /\ ListInv /\ FlowInv
  BY DEF IInv
<1>2. /\ ppc[p] = "sending" /\ todo[p] # <<>> /\ todo[p] \in Seq(Receivers)
      /\ sent[p] \in 1..MaxMsgs /\ SubjectOf[p] \in BusSubjects /\ all \in Seq(Receivers)
  BY <1>1 DEF Shape, LockInv, Send
<1>3. EndOf(todo[p], all) /\ Once(all)
  BY <1>1, <1>2 DEF ListInv
<1>4. Once(todo[p]) /\ \A x : In(todo[p], x) => In(all, x)
  BY <1>2, <1>3, EndOfOnce
<1>5. /\ r0 \in Receivers /\ Tail(todo[p]) \in Seq(Receivers)
      /\ In(todo[p], r0)
      /\ \A x : In(Tail(todo[p]), x) <=> In(todo[p], x) /\ x # r0
  BY <1>2, <1>4, HeadTailProperties, OnceTail
<1>6. In(all, r0) /\ SubjectOf[r0] = SubjectOf[p] /\ Joined(r0)
  <2>1. In(all, r0)
    BY <1>4, <1>5
  <2>2. SubjectOf[r0] = SubjectOf[p]
    BY <1>1, <1>2, <1>5, <2>1 DEF ListInv
  <2>3. QED
    BY <2>1, <2>2 DEF Joined, In
<1>7. /\ todo' = [todo EXCEPT ![p] = Tail(todo[p])]
      /\ todo' \in [Publishers -> Seq(Receivers)] /\ todo'[p] = Tail(todo[p])
      /\ \A q \in Publishers : q # p => todo'[q] = todo[q]
  BY <1>1, <1>5 DEF Shape, Send
<1>8. UNCHANGED <<subscribers, dropped, waitq, readers, ppc, sent, got, base>>
  BY DEF Send
<1>9. m \in Message /\ m[1] = p
  BY <1>2 DEF Message
<1>10. /\ chan' \in [Receivers -> Seq(Message)]
       /\ \A r \in Receivers : Len(chan'[r]) <= Capacity
       /\ \A r \in Receivers : r # r0 => chan'[r] = chan[r]
       /\ r0 \in dropped => chan' = chan
       /\ r0 \notin dropped => chan'[r0] = Append(chan[r0], m)
  <2>1. CASE r0 \in dropped
    BY <1>1, <2>1 DEF Send, Shape
  <2>2. CASE r0 \notin dropped
    <3>1. chan' = [chan EXCEPT ![r0] = Append(chan[r0], m)] /\ Len(chan[r0]) < Capacity
      BY <2>2 DEF Send
    <3>2. chan[r0] \in Seq(Message)
      BY <1>1, <1>5 DEF Shape
    <3>3. /\ Append(chan[r0], m) \in Seq(Message)
          /\ Len(Append(chan[r0], m)) = Len(chan[r0]) + 1 /\ Len(chan[r0]) \in Nat
      <4> HIDE DEF m
      <4>1. QED
        BY <3>2, <1>9, AppendProperties, LenProperties
    <3>4. Len(chan[r0]) + 1 <= Capacity
      BY <3>1, <3>3
    <3> HIDE DEF m, r0
    <3>5. chan \in [Receivers -> Seq(Message)] /\ \A r \in Receivers : Len(chan[r]) <= Capacity
      BY <1>1 DEF Shape
    <3>6. /\ chan' \in [Receivers -> Seq(Message)]
          /\ chan'[r0] = Append(chan[r0], m)
          /\ \A r \in Receivers : r # r0 => chan'[r] = chan[r]
      BY <1>5, <3>1, <3>3, <3>5
    <3>7. \A r \in Receivers : Len(chan'[r]) <= Capacity
      BY <3>3, <3>4, <3>5, <3>6
    <3>8. QED
      BY <2>2, <3>6, <3>7
  <2>3. QED
    BY <2>1, <2>2
<1> HIDE DEF r0, m, all
<1>11. Shape'
  BY <1>1, <1>7, <1>8, <1>10 DEF Shape
<1>12. LockInv'
  BY <1>1, <1>8 DEF LockInv, Joined
<1>13. ListInv'
  <2>1. EndOf(todo'[p], all)
    BY <1>2, <1>3, <1>7, EndOfTail
  <2>2. \A q \in Publishers : ppc[q] = "sending" => EndOf(todo'[q], subscribers[SubjectOf[q]])
    BY <1>1, <1>7, <2>1 DEF ListInv, all
  <2>3. \A q \in Publishers : ppc[q] # "sending" => todo'[q] = <<>>
    BY <1>1, <1>2, <1>7 DEF ListInv
  <2>4. QED
    BY <1>1, <1>8, <2>2, <2>3 DEF ListInv
<1>14. \A q \in Publishers : Started(q)' = Started(q)
  BY <1>8 DEF Started
<1>15. \A r \in Receivers : Joined(r)' <=> Joined(r)
  BY <1>8 DEF Joined
<1>16. ASSUME NEW q \in Publishers, NEW r \in Receivers, ~(q = p /\ r = r0)
       PROVE  Upto(q, r)' = Upto(q, r)
  <2>1. StillToCome(q, r)' <=> StillToCome(q, r)
    <3>1. CASE q = p
      <4>1. In(todo'[p], r) <=> In(todo[p], r)
        BY <1>5, <1>7, <1>16, <3>1
      <4>2. QED
        BY <3>1, <4>1 DEF In, StillToCome
    <3>2. CASE q # p
      BY <1>7, <3>2 DEF StillToCome
    <3>3. QED
      BY <3>1, <3>2
  <2>2. QED
    BY <1>14, <2>1 DEF Upto
<1>17. ASSUME NEW q \in Publishers, NEW r \in Receivers, q = p, r = r0
       PROVE  Upto(q, r) = sent[p] - 1 /\ Upto(q, r)' = sent[p]
  <2>1. Started(q) = sent[p]
    BY <1>2, <1>17 DEF Started
  <2>2. StillToCome(q, r)
    BY <1>5, <1>17 DEF In, StillToCome
  <2>3. ~In(todo'[p], r0)
    BY <1>5, <1>7
  <2>4. ~StillToCome(q, r)'
    BY <1>17, <2>3 DEF In, StillToCome
  <2>5. QED
    BY <1>2, <1>14, <2>1, <2>2, <2>4 DEF Upto
<1>18. \A r \in Receivers : r # r0 => Handed(r)' = Handed(r)
  BY <1>8, <1>10 DEF Handed
<1>19. ASSUME NEW r \in Receivers, r = r0, r \notin dropped
       PROVE  Handed(r)' = Append(Handed(r), m) /\ Handed(r) \in Seq(Message)
  <2>1. got[r] \in Seq(Message) /\ chan[r] \in Seq(Message)
    BY <1>1 DEF Shape
  <2>2. got[r] \o Append(chan[r], m) = Append(got[r] \o chan[r], m)
    <3>1. m \in Message
      BY <1>9
    <3>2. \A g, c \in Seq(Message) : g \o Append(c, m) = Append(g \o c, m)
      BY ONLY <3>1, QueuedIsHanded
    <3>3. QED
      BY <2>1, <3>2, Zenon
  <2>3. got[r] \o chan[r] \in Seq(Message)
    BY <2>1, ConcatProperties
  <2>4. QED
    BY <1>8, <1>10, <1>19, <2>2, <2>3 DEF Handed
<1>20. FlowInv'
  <2>1. ASSUME NEW r \in Receivers, ~Joined(r)' PROVE got'[r] = <<>> /\ chan'[r] = <<>>
    BY <1>1, <1>6, <1>8, <1>10, <1>15, <2>1 DEF FlowInv
  <2>2. ASSUME NEW r \in Receivers, NEW q \in Publishers,
               Joined(r)', r \notin dropped', SubjectOf[q] = SubjectOf[r]
        PROVE  /\ base'[r][q] <= Upto(q, r)'
               /\ Numbered(Handed(r)', q, base'[r][q], Upto(q, r)')
    <3>1. base' = base /\ r \notin dropped /\ Joined(r)
      BY <1>8, <1>15, <2>2
    <3>2. base[r][q] <= Upto(q, r) /\ Numbered(Handed(r), q, base[r][q], Upto(q, r))
      BY <1>1, <2>2, <3>1 DEF FlowInv
    <3>3. CASE r # r0
      BY <1>16, <1>18, <3>1, <3>2, <3>3
    <3>4. CASE r = r0 /\ q # p
      <4>1. Numbered(Append(Handed(r), m), q, base[r][q], Upto(q, r))
        BY <1>9, <1>19, <3>1, <3>2, <3>4, NumberedOther
      <4>2. QED
        BY <1>16, <1>19, <3>1, <3>2, <3>4, <4>1
    <3>5. CASE r = r0 /\ q = p
      <4>1. base[r][q] \in Nat
        BY <1>1 DEF Shape
      <4>2. sent[p] - 1 \in Nat /\ (sent[p] - 1) + 1 = sent[p] /\ base[r][q] <= sent[p] - 1
        BY <1>2, <1>17, <3>2, <3>5
      <4>3. Numbered(Append(Handed(r), <<q, (sent[p] - 1) + 1>>), q, base[r][q], (sent[p] - 1) + 1)
        BY <1>2, <1>17, <1>19, <3>1, <3>2, <3>5, <4>1, <4>2, NumberedNext
      <4>4. Numbered(Handed(r)', q, base[r][q], Upto(q, r)')
        BY <1>17, <1>19, <3>1, <3>5, <4>2, <4>3 DEF m
      <4>5. base[r][q] <= Upto(q, r)'
        BY <1>2, <1>17, <3>5, <4>1, <4>2
      <4>6. QED
        BY <3>1, <4>4, <4>5
    <3>6. QED
      BY <3>3, <3>4, <3>5
  <2>3. QED
    BY <2>1, <2>2 DEF FlowInv
<1>21. QED
  BY <1>11, <1>12, <1>13, <1>20 DEF IInv

LEMMA ReturnStep ==
  ASSUME IInv, NEW p \in Publishers, Return(p)
  PROVE  IInv'
<1> USE BusAssumption
<1>1. Shape /\ LockInv /\ ListInv /\ FlowInv
  BY DEF IInv
<1>2. UNCHANGED <<subscribers, chan, dropped, waitq, todo, sent, got, base>>
  BY DEF Return
<1>3. /\ ppc' \in [Publishers -> {"idle", "waiting", "sending"}]
      /\ ppc[p] = "sending" /\ ppc'[p] = "idle" /\ todo[p] = <<>>
      /\ \A q \in Publishers : q # p => ppc'[q] = ppc[q]
  BY <1>1 DEF Shape, Return
<1>4. Shape'
  BY <1>1, <1>2, <1>3 DEF Shape
<1>5. \A r \in Receivers : Joined(r)' <=> Joined(r)
  BY <1>2 DEF Joined
<1>6. LockInv'
  <2>1. readers' = {q \in Publishers : ppc'[q] = "sending"}
    BY <1>1, <1>3 DEF LockInv, Return
  <2>2. \A q \in Publishers : In(waitq, q) <=> ppc'[q] = "waiting"
    BY <1>1, <1>3 DEF LockInv
  <2>3. \A q \in Publishers : ppc'[q] # "idle" => sent[q] >= 1
    BY <1>1, <1>3 DEF LockInv
  <2>4. QED
    BY <1>1, <1>2, <1>5, <2>1, <2>2, <2>3 DEF LockInv
<1>7. ListInv'
  BY <1>1, <1>2, <1>3 DEF ListInv
<1>8. \A q \in Publishers, r \in Receivers : Upto(q, r)' = Upto(q, r)
  <2>1. TAKE q \in Publishers, r \in Receivers
  <2>2. Started(q)' = Started(q)
    BY <1>2, <1>3 DEF Started
  <2>3. StillToCome(q, r)' <=> StillToCome(q, r)
    BY <1>2 DEF StillToCome
  <2>4. QED
    BY <2>2, <2>3 DEF Upto
<1>9. FlowInv'
  <2>1. \A r \in Receivers : Handed(r)' = Handed(r)
    BY <1>2 DEF Handed
  <2>2. QED
    BY <1>1, <1>2, <1>5, <1>8, <2>1, FlowUntouched
<1>10. QED
  BY <1>4, <1>6, <1>7, <1>9 DEF IInv

LEMMA SubscribeStep ==
  ASSUME IInv, NEW r0 \in Receivers, Subscribe(r0)
  PROVE  IInv'
<1> USE BusAssumption
<1>1. Shape /\ LockInv /\ ListInv /\ FlowInv
  BY DEF IInv
<1>2. UNCHANGED <<subscribers, chan, dropped, readers, ppc, todo, sent, got, base>>
  BY DEF Subscribe
<1>3. /\ waitq \in Seq(Publishers \cup Receivers) /\ r0 \in Publishers \cup Receivers
      /\ ~In(waitq, r0) /\ ~Joined(r0) /\ waitq' = Append(waitq, r0)
  BY <1>1 DEF Shape, Subscribe, Waiting, In
<1>4. /\ waitq' \in Seq(Publishers \cup Receivers)
      /\ Once(waitq')
      /\ \A x : In(waitq', x) <=> In(waitq, x) \/ x = r0
  BY <1>1, <1>3, AppendProperties, OnceAppend, InAppend DEF LockInv
<1>5. Shape'
  BY <1>1, <1>2, <1>4 DEF Shape
<1>6. \A r \in Receivers : Joined(r)' <=> Joined(r)
  BY <1>2 DEF Joined
<1>7. LockInv'
  <2>1. \A q \in Publishers : In(waitq', q) <=> ppc'[q] = "waiting"
    BY <1>1, <1>2, <1>4 DEF LockInv
  <2>2. \A r \in Receivers : In(waitq', r) => ~Joined(r)'
    BY <1>1, <1>3, <1>4, <1>6 DEF LockInv
  <2>3. QED
    BY <1>1, <1>2, <1>4, <2>1, <2>2 DEF LockInv
<1>8. ListInv'
  BY <1>1, <1>2 DEF ListInv
<1>9. \A q \in Publishers, r \in Receivers : Upto(q, r)' = Upto(q, r)
  BY <1>2 DEF Upto, Started, StillToCome
<1>10. FlowInv'
  <2>1. \A r \in Receivers : Handed(r)' = Handed(r)
    BY <1>2 DEF Handed
  <2>2. QED
    BY <1>1, <1>2, <1>6, <1>9, <2>1, FlowUntouched
<1>11. QED
  BY <1>5, <1>7, <1>8, <1>10 DEF IInv

LEMMA JoinStep ==
  ASSUME IInv, NEW r0 \in Receivers, Join(r0)
  PROVE  IInv'
<1> USE BusAssumption
<1> DEFINE s0 == SubjectOf[r0]
<1>1. Shape /\ LockInv /\ ListInv /\ FlowInv
  BY DEF IInv
<1>2. /\ UNCHANGED <<chan, dropped, readers, ppc, todo, sent, got>>
      /\ readers = {} /\ waitq' = Tail(waitq)
      /\ waitq \in Seq(Publishers \cup Receivers) /\ waitq # <<>> /\ Once(waitq)
      /\ Head(waitq) = r0 /\ s0 \in BusSubjects
  BY <1>1 DEF Join, Shape, LockInv
<1>3. /\ waitq' \in Seq(Publishers \cup Receivers)
      /\ Once(waitq')
      /\ In(waitq, r0)
      /\ \A x : In(waitq', x) <=> In(waitq, x) /\ x # r0
  BY <1>2, HeadTailProperties, OnceTail
<1>4. ~Joined(r0) /\ ~In(subscribers[s0], r0)
  BY <1>1, <1>3 DEF LockInv, Joined, In
<1>5. subscribers[s0] \in Seq(Receivers) /\ Once(subscribers[s0])
  BY <1>1, <1>2 DEF Shape, ListInv
<1>6. /\ Append(subscribers[s0], r0) \in Seq(Receivers)
      /\ Once(Append(subscribers[s0], r0))
      /\ \A x : In(Append(subscribers[s0], r0), x) <=> In(subscribers[s0], x) \/ x = r0
  BY <1>4, <1>5, AppendProperties, OnceAppend, InAppend
<1>7. /\ subscribers' \in [BusSubjects -> Seq(Receivers)]
      /\ subscribers'[s0] = Append(subscribers[s0], r0)
      /\ \A s \in BusSubjects : s # s0 => subscribers'[s] = subscribers[s]
  BY <1>1, <1>2, <1>6 DEF Shape, Join
<1>8. \A p \in Publishers : ppc[p] # "sending" /\ todo[p] = <<>>
  BY <1>1, <1>2 DEF LockInv, ListInv
<1>9. \A q \in Publishers : Started(q) \in Nat
  <2>1. TAKE q \in Publishers
  <2>2. sent[q] \in 0..MaxMsgs /\ (ppc[q] = "waiting" => sent[q] >= 1)
    BY <1>1 DEF Shape, LockInv
  <2>3. QED
    BY <2>2 DEF Started
<1>10. /\ base' \in [Receivers -> [Publishers -> Nat]]
       /\ \A q \in Publishers : base'[r0][q] = Started(q)
       /\ \A r \in Receivers : r # r0 => base'[r] = base[r]
  <2>1. base' = [base EXCEPT ![r0] = [q \in Publishers |-> Started(q)]]
    BY DEF Join
  <2>2. [q \in Publishers |-> Started(q)] \in [Publishers -> Nat]
    BY <1>9
  <2>3. base \in [Receivers -> [Publishers -> Nat]]
    BY <1>1 DEF Shape
  <2>4. QED
    BY <2>1, <2>2, <2>3
<1>11. Shape'
  BY <1>1, <1>2, <1>3, <1>7, <1>10 DEF Shape
<1>12. ASSUME NEW r \in Receivers PROVE Joined(r)' <=> Joined(r) \/ r = r0
  <2>1. SubjectOf[r] \in BusSubjects
    OBVIOUS
  <2>2. Joined(r) <=> In(subscribers[SubjectOf[r]], r)
    BY DEF Joined, In
  <2>3. Joined(r)' <=> In(subscribers'[SubjectOf[r]], r)
    BY DEF Joined, In
  <2>4. CASE SubjectOf[r] = s0
    BY <1>6, <1>7, <2>2, <2>3, <2>4
  <2>5. CASE SubjectOf[r] # s0
    BY <1>7, <2>1, <2>2, <2>3, <2>5
  <2>6. QED
    BY <2>4, <2>5
<1> HIDE DEF s0
<1>13. LockInv'
  <2>1. \A q \in Publishers : In(waitq', q) <=> ppc'[q] = "waiting"
    BY <1>1, <1>2, <1>3 DEF LockInv
  <2>2. \A r \in Receivers : In(waitq', r) => ~Joined(r)'
    BY <1>1, <1>3, <1>12 DEF LockInv
  <2>3. QED
    BY <1>1, <1>2, <1>3, <2>1, <2>2 DEF LockInv
<1>14. ListInv'
  <2>1. \A s \in BusSubjects : Once(subscribers'[s])
    BY <1>1, <1>6, <1>7 DEF ListInv
  <2>2. \A s \in BusSubjects : \A r \in Receivers : In(subscribers'[s], r) => SubjectOf[r] = s
    BY <1>1, <1>6, <1>7 DEF ListInv, s0
  <2>3. QED
    BY <1>2, <1>8, <2>1, <2>2 DEF ListInv
<1>15. ASSUME NEW q \in Publishers, NEW r \in Receivers
       PROVE  Upto(q, r)' = Upto(q, r) /\ Upto(q, r) = Started(q)
  <2>1. Started(q)' = Started(q)
    BY <1>2 DEF Started
  <2>2. ~StillToCome(q, r) /\ ~StillToCome(q, r)'
    BY <1>2, <1>8 DEF StillToCome
  <2>3. QED
    BY <1>9, <2>1, <2>2 DEF Upto
<1>16. FlowInv'
  <2>1. \A r \in Receivers : Handed(r)' = Handed(r)
    BY <1>2 DEF Handed
  <2>2. ASSUME NEW r \in Receivers, ~Joined(r)' PROVE got'[r] = <<>> /\ chan'[r] = <<>>
    BY <1>1, <1>2, <1>12, <2>2 DEF FlowInv
  <2>3. ASSUME NEW r \in Receivers, NEW q \in Publishers,
               Joined(r)', r \notin dropped', SubjectOf[q] = SubjectOf[r]
        PROVE  /\ base'[r][q] <= Upto(q, r)'
               /\ Numbered(Handed(r)', q, base'[r][q], Upto(q, r)')
    <3>1. CASE r = r0
      <4>1. got[r] = <<>> /\ chan[r] = <<>>
        BY <1>1, <1>4, <3>1 DEF FlowInv
      <4>2. Handed(r) = <<>>
        BY <4>1, EmptySeq, ConcatEmptySeq DEF Handed
      <4>3. base'[r][q] = Started(q) /\ Started(q) \in Nat
        BY <1>9, <1>10, <3>1
      <4>4. Numbered(<<>>, q, Started(q), Started(q))
        BY <4>3, NumberedNothing
      <4>5. QED
        BY <1>15, <2>1, <4>2, <4>3, <4>4
    <3>2. CASE r # r0
      BY <1>1, <1>2, <1>10, <1>12, <1>15, <2>1, <2>3, <3>2 DEF FlowInv
    <3>3. QED
      BY <3>1, <3>2
  <2>4. QED
    BY <2>2, <2>3 DEF FlowInv
<1>17. QED
  BY <1>11, <1>13, <1>14, <1>16 DEF IInv

LEMMA RecvStep ==
  ASSUME IInv, NEW r0 \in Receivers, Recv(r0)
  PROVE  IInv'
<1> USE BusAssumption
<1>1. Shape /\ LockInv /\ ListInv /\ FlowInv
  BY DEF IInv
<1>2. UNCHANGED <<subscribers, dropped, waitq, readers, ppc, todo, sent, base>>
  BY DEF Recv
<1>3. /\ chan[r0] \in Seq(Message) /\ got[r0] \in Seq(Message) /\ chan[r0] # <<>>
      /\ Len(chan[r0]) <= Capacity
  BY <1>1 DEF Shape, Recv
<1>4. /\ Tail(chan[r0]) \in Seq(Message) /\ Head(chan[r0]) \in Message
      /\ Len(Tail(chan[r0])) = Len(chan[r0]) - 1 /\ Len(chan[r0]) \in Nat
      /\ Append(got[r0], Head(chan[r0])) \in Seq(Message)
  BY <1>3, HeadTailProperties, LenProperties, AppendProperties
<1>5. /\ chan' \in [Receivers -> Seq(Message)] /\ got' \in [Receivers -> Seq(Message)]
      /\ chan'[r0] = Tail(chan[r0]) /\ got'[r0] = Append(got[r0], Head(chan[r0]))
      /\ \A r \in Receivers : r # r0 => chan'[r] = chan[r] /\ got'[r] = got[r]
  BY <1>1, <1>4 DEF Shape, Recv
<1>6. \A r \in Receivers : Len(chan'[r]) <= Capacity
  <2>1. Len(Tail(chan[r0])) <= Capacity
    BY <1>3, <1>4
  <2>2. QED
    BY <1>1, <1>5, <2>1 DEF Shape
<1>7. Shape'
  BY <1>1, <1>2, <1>5, <1>6 DEF Shape
<1>8. \A r \in Receivers : Joined(r)' <=> Joined(r)
  BY <1>2 DEF Joined
<1>9. LockInv'
  BY <1>1, <1>2, <1>8 DEF LockInv
<1>10. ListInv'
  BY <1>1, <1>2 DEF ListInv
<1>11. \A q \in Publishers, r \in Receivers : Upto(q, r)' = Upto(q, r)
  BY <1>2 DEF Upto, Started, StillToCome
<1>12. FlowInv'
  <2>1. ASSUME NEW r \in Receivers PROVE Handed(r)' = Handed(r)
    <3>1. CASE r = r0
      <4>1. Append(got[r0], Head(chan[r0])) \o Tail(chan[r0]) = got[r0] \o chan[r0]
        BY <1>3, ReceivedIsHanded
      <4>2. QED
        BY <1>5, <3>1, <4>1 DEF Handed
    <3>2. CASE r # r0
      BY <1>5, <3>2 DEF Handed
    <3>3. QED
      BY <3>1, <3>2
  <2>2. Joined(r0)
    BY <1>1, <1>3 DEF FlowInv
  <2>3. \A r \in Receivers : ~Joined(r) => UNCHANGED <<got[r], chan[r]>>
    BY <1>5, <2>2
  <2>4. QED
    BY <1>1, <1>2, <1>8, <1>11, <2>1, <2>3, FlowUntouched
<1>13. QED
  BY <1>7, <1>9, <1>10, <1>12 DEF IInv

LEMMA DropStep ==
  ASSUME IInv, NEW r0 \in Receivers, Drop(r0)
  PROVE  IInv'
<1> USE BusAssumption
<1>1. Shape /\ LockInv /\ ListInv /\ FlowInv
  BY DEF IInv
<1>2. UNCHANGED <<subscribers, waitq, readers, ppc, todo, sent, got, base>>
  BY DEF Drop
<1>3. /\ chan' \in [Receivers -> Seq(Message)] /\ chan'[r0] = <<>> /\ Len(<<>>) = 0
      /\ \A r \in Receivers : r # r0 => chan'[r] = chan[r]
      /\ dropped' = dropped \cup {r0} /\ Joined(r0)
  BY <1>1, EmptySeq DEF Shape, Drop
<1>4. Shape'
  <2>1. ASSUME NEW r \in Receivers PROVE Len(chan'[r]) <= Capacity
    <3>1. r = r0 => Len(chan'[r]) = 0
      BY <1>3, Zenon
    <3>2. r # r0 => Len(chan'[r]) <= Capacity
      BY <1>1, <1>3 DEF Shape
    <3>3. QED
      BY <3>1, <3>2
  <2>2. dropped' \in SUBSET Receivers
    BY <1>1, <1>3 DEF Shape
  <2>3. QED
    BY <1>1, <1>2, <1>3, <2>1, <2>2 DEF Shape
<1>5. \A r \in Receivers : Joined(r)' <=> Joined(r)
  BY <1>2 DEF Joined
<1>6. LockInv'
  BY <1>1, <1>2, <1>5 DEF LockInv
<1>7. ListInv'
  BY <1>1, <1>2 DEF ListInv
<1>8. \A q \in Publishers, r \in Receivers : Upto(q, r)' = Upto(q, r)
  BY <1>2 DEF Upto, Started, StillToCome
<1>9. FlowInv'
  <2>1. ASSUME NEW r \in Receivers, ~Joined(r)' PROVE got'[r] = <<>> /\ chan'[r] = <<>>
    BY <1>1, <1>2, <1>3, <1>5, <2>1 DEF FlowInv
  <2>2. ASSUME NEW r \in Receivers, NEW q \in Publishers,
               Joined(r)', r \notin dropped', SubjectOf[q] = SubjectOf[r]
        PROVE  /\ base'[r][q] <= Upto(q, r)'
               /\ Numbered(Handed(r)', q, base'[r][q], Upto(q, r)')
    <3>1. r # r0 /\ r \notin dropped /\ Joined(r)
      BY <1>3, <1>5, <2>2
    <3>2. Handed(r)' = Handed(r)
      BY <1>2, <1>3, <3>1 DEF Handed
    <3>3. QED
      BY <1>1, <1>2, <1>8, <2>2, <3>1, <3>2 DEF FlowInv
  <2>3. QED
    BY <2>1, <2>2 DEF FlowInv
<1>10. QED
  BY <1>4, <1>6, <1>7, <1>9 DEF IInv

LEMMA Induction == IInv /\ [Next]_vars => IInv'
<1> SUFFICES ASSUME IInv, [Next]_vars
             PROVE  IInv'
  OBVIOUS
<1>1. ASSUME NEW p \in Publishers, Publish(p) PROVE IInv'
  BY <1>1, PublishStep
<1>2. ASSUME NEW p \in Publishers, ReadLock(p) PROVE IInv'
  BY <1>2, ReadLockStep
<1>3. ASSUME NEW p \in Publishers, Send(p) PROVE IInv'
  BY <1>3, SendStep
<1>4. ASSUME NEW p \in Publishers, Return(p) PROVE IInv'
  BY <1>4, ReturnStep
<1>5. ASSUME NEW r \in Receivers, Subscribe(r) PROVE IInv'
  BY <1>5, SubscribeStep
<1>6. ASSUME NEW r \in Receivers, Join(r) PROVE IInv'
  BY <1>6, JoinStep
<1>7. ASSUME NEW r \in Receivers, Recv(r) PROVE IInv'
  BY <1>7, RecvStep
<1>8. ASSUME NEW r \in Receivers, Drop(r) PROVE IInv'
  BY <1>8, DropStep
<1>9. CASE UNCHANGED vars
  <2>1. UNCHANGED <<subscribers, chan, dropped, waitq, readers, ppc, todo, sent, got, base>>
    BY <1>9 DEF vars
  <2>2. Shape' /\ LockInv' /\ ListInv'
    BY <2>1 DEF IInv, Shape, LockInv, ListInv, Joined
  <2>3. FlowInv'
    BY <2>1 DEF IInv, FlowInv, Joined, Handed, Upto, Started, StillToCome
  <2>4. QED
    BY <2>2, <2>3 DEF IInv
<1>10. QED
  BY <1>1, <1>2, <1>3, <1>4, <1>5, <1>6, <1>7, <1>8, <1>9 DEF Next, PublisherStep

LEMMA Invariance == Spec => []IInv
<1>1. Init => IInv
  BY InitIInv
<1>2. QED
  BY <1>1, Induction, PTL DEF Spec

----
\* The lock, the lists and the queues are well formed: no channel holds more
\* than its capacity, no task waits for the lock twice, and the lock's readers
\* are the publishers that are sending, in every reachable state of the bus.
THEOREM Types == Spec => []TypeOK
<1>1. IInv => TypeOK
  BY DEF IInv, Shape, LockInv, TypeOK, Message, Once, In, Waiting
<1>2. QED
  BY <1>1, Invariance, PTL

\* The list a publish walks does not change under it: what it has still to
\* serve is always the tail of the current list of its subject.
THEOREM StableList == Spec => []ListIsStable
<1>1. ASSUME IInv PROVE ListIsStable
  <2>1. SUFFICES ASSUME NEW p \in Publishers, ppc[p] = "sending"
                 PROVE  LET all == subscribers[SubjectOf[p]]
                            k   == Len(all) - Len(todo[p])
                        IN  k >= 0 /\ todo[p] = SubSeq(all, k + 1, Len(all))
    BY DEF ListIsStable
  <2> DEFINE all == subscribers[SubjectOf[p]]
  <2>2. all \in Seq(Receivers) /\ todo[p] \in Seq(Receivers) /\ EndOf(todo[p], all)
    BY <1>1, <2>1, BusAssumption DEF IInv, Shape, ListInv
  <2>3. todo[p] = SubSeq(all, (Len(all) - Len(todo[p])) + 1, Len(all))
    BY <2>2, EndOfIsSubSeq
  <2>4. Len(all) - Len(todo[p]) >= 0
    BY <2>2, LenProperties DEF EndOf
  <2>5. QED
    BY <2>3, <2>4
<1>2. QED
  BY <1>1, Invariance, PTL

\* The bus neither loses, repeats nor reorders a message, however publishers,
\* subscribers, receivers and dropped subscriptions interleave.
THEOREM Delivery == Spec => []NothingLost
<1>1. ASSUME IInv PROVE NothingLost
  <2>1. SUFFICES ASSUME NEW r \in Receivers, NEW p \in Publishers,
                        Joined(r), r \notin dropped, SubjectOf[p] = SubjectOf[r]
                 PROVE  LET n  == Started(p) - (IF StillToCome(p, r) THEN 1 ELSE 0)
                            of == {i \in DOMAIN Handed(r) : Handed(r)[i][1] = p}
                        IN  /\ {Handed(r)[i][2] : i \in of} = (base[r][p] + 1)..n
                            /\ \A i, j \in of : i < j => Handed(r)[i][2] < Handed(r)[j][2]
    BY DEF NothingLost
  <2> DEFINE s  == Handed(r)
             of == {i \in DOMAIN s : s[i][1] = p}
  <2>2. Numbered(s, p, base[r][p], Upto(p, r))
    BY <1>1, <2>1 DEF IInv, FlowInv
  <2> HIDE DEF s
  <2>3. \A i \in of : s[i][2] \in (base[r][p] + 1)..Upto(p, r)
    BY <2>2 DEF Numbered
  <2>4. ASSUME NEW k \in (base[r][p] + 1)..Upto(p, r)
        PROVE  \E i \in of : s[i][2] = k
    <3>1. PICK i \in DOMAIN s : s[i] = <<p, k>>
      BY <2>2 DEF Numbered, In
    <3>2. s[i][1] = p /\ s[i][2] = k
      BY <3>1
    <3>3. QED
      BY <3>2
  <2>5. \A i, j \in of : i < j => s[i][2] < s[j][2]
    BY <2>2 DEF Numbered
  <2>6. {s[i][2] : i \in of} = (base[r][p] + 1)..Upto(p, r)
    BY <2>3, <2>4
  <2>7. QED
    BY <2>5, <2>6 DEF s, Upto
<1>2. QED
  BY <1>1, Invariance, PTL

\* What a service sees of its subscription is a bounded FIFO channel that
\* messages enter whole: every step of the bus is, for some subscriber, a
\* publish into its channel, a receive from it or its subscription, or the end
\* of the subscription, or it is invisible.
THEOREM Refinement == Spec => ImplementsChannels
<1>1. ASSUME IInv, [Next]_vars PROVE [ClientStep]_clientView
  <2> USE BusAssumption
  <2>1. Shape /\ LockInv /\ ListInv /\ FlowInv
    BY <1>1 DEF IInv
  <2>2. ASSUME UNCHANGED <<chan, subscribers>> PROVE UNCHANGED clientView
    BY <2>2 DEF Joined, joined, clientView
  <2>3. ASSUME NEW p \in Publishers, Publish(p) PROVE UNCHANGED clientView
    BY <2>2, <2>3 DEF Publish
  <2>4. ASSUME NEW p \in Publishers, ReadLock(p) PROVE UNCHANGED clientView
    BY <2>2, <2>4 DEF ReadLock
  <2>5. ASSUME NEW p \in Publishers, Return(p) PROVE UNCHANGED clientView
    BY <2>2, <2>5 DEF Return
  <2>6. ASSUME NEW r \in Receivers, Subscribe(r) PROVE UNCHANGED clientView
    BY <2>2, <2>6 DEF Subscribe
  <2>7. CASE UNCHANGED vars
    BY <2>2, <2>7 DEF vars
  <2>8. ASSUME NEW r \in Receivers, Drop(r) PROVE ClientStep
    BY <2>8 DEF ClientStep
  <2>9. ASSUME NEW r \in Receivers, Recv(r) PROVE ClientStep
    <3>1. UNCHANGED joined
      BY <2>9 DEF Recv, Joined, joined
    <3>2. Channels!Receive(r)
      BY <2>9, <3>1 DEF Recv, Channels!Receive, Channels!lock
    <3>3. QED
      BY <3>2 DEF ChannelStep, ClientStep
  <2>10. ASSUME NEW r \in Receivers, Join(r) PROVE ClientStep
    <3>1. subscribers[SubjectOf[r]] \in Seq(Receivers) /\ SubjectOf[r] \in BusSubjects
      BY <2>1 DEF Shape
    <3>2. /\ subscribers \in [BusSubjects -> Seq(Receivers)]
          /\ subscribers' = [subscribers EXCEPT ![SubjectOf[r]] = Append(@, r)]
      BY <2>1, <2>10 DEF Shape, Join
    <3>3. ASSUME NEW x \in Receivers PROVE Joined(x)' <=> Joined(x) \/ x = r
      <4>1. Joined(x) <=> In(subscribers[SubjectOf[x]], x)
        BY DEF Joined, In
      <4>2. Joined(x)' <=> In(subscribers'[SubjectOf[x]], x)
        BY DEF Joined, In
      <4>3. CASE SubjectOf[x] = SubjectOf[r]
        <5>1. subscribers'[SubjectOf[x]] = Append(subscribers[SubjectOf[x]], r)
          BY <3>1, <3>2, <4>3
        <5>2. QED
          BY <3>1, <4>1, <4>2, <4>3, <5>1, InAppend
      <4>4. CASE SubjectOf[x] # SubjectOf[r]
        BY <3>1, <3>2, <4>1, <4>2, <4>4
      <4>5. QED
        BY <4>3, <4>4
    <3>4. joined' = joined \cup {r}
      BY <3>3 DEF joined
    <3>5. Channels!Subscribe(r)
      BY <2>10, <3>4 DEF Join, Channels!Subscribe, Channels!PassAsWriter
    <3>6. QED
      BY <3>5 DEF ChannelStep, ClientStep
  <2>11. ASSUME NEW p \in Publishers, Send(p) PROVE [ClientStep]_clientView
    <3> DEFINE r == Head(todo[p])
               m == <<p, sent[p]>>
    <3>1. UNCHANGED joined
      BY <2>11 DEF Send, Joined, joined, clientView
    <3>2. CASE r \in dropped
      BY <2>11, <3>1, <3>2 DEF Send, clientView
    <3>3. CASE r \notin dropped
      <4>1. /\ todo[p] # <<>> /\ todo[p] \in Seq(Receivers) /\ sent[p] \in 1..MaxMsgs
            /\ subscribers[SubjectOf[p]] \in Seq(Receivers) /\ SubjectOf[p] \in BusSubjects
            /\ EndOf(todo[p], subscribers[SubjectOf[p]]) /\ Once(subscribers[SubjectOf[p]])
        BY <2>1, <2>11 DEF Shape, LockInv, ListInv, Send
      <4>2. r \in Receivers /\ In(subscribers[SubjectOf[p]], r)
        BY <4>1, EndOfOnce, OnceTail, HeadTailProperties
      <4>3. SubjectOf[r] = SubjectOf[p]
        BY <2>1, <4>1, <4>2 DEF ListInv
      <4>4. r \in joined
        BY <4>2, <4>3 DEF Joined, In, joined
      <4>5. /\ Len(chan[r]) < Capacity
            /\ chan' = [chan EXCEPT ![r] = Append(@, m)]
        BY <2>11, <3>3 DEF Send
      <4>6. Channels!Publish(p, r, m)
        BY <3>1, <4>4, <4>5 DEF Channels!Publish, Channels!PassAsReader, Channels!Room
      <4>7. m = <<p, sent[p]>> /\ sent[p] \in 1..MaxMsgs
        BY <4>1
      <4> HIDE DEF m, r
      <4>8. ChannelStep(r)
        BY <3>3, <4>6, <4>7 DEF ChannelStep
      <4>9. QED
        BY <4>2, <4>8 DEF ClientStep
    <3>4. QED
      BY <3>2, <3>3
  <2>12. QED
    BY <1>1, <2>3, <2>4, <2>5, <2>6, <2>7, <2>8, <2>9, <2>10, <2>11 DEF Next, PublisherStep
<1>2. QED
  BY <1>1, Invariance, PTL DEF Spec, ImplementsChannels
====
