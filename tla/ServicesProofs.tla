--------------------------- MODULE ServicesProofs ---------------------------
(* Proofs about the services that MCServices puts side by side, for any    *)
(* values of their constants, and about their composition.                 *)
EXTENDS MCServices, FiniteSetTheorems, WellFoundedInduction, TLAPS

-----------------------------------------------------------------------------
(* Sequences.                                                              *)

\* The length, the domain and the elements of a sequence.
LEMMA Elements ==
  ASSUME NEW S, NEW s \in Seq(S)
  PROVE  Len(s) \in Nat /\ DOMAIN s = 1 .. Len(s) /\ \A i \in 1 .. Len(s) : s[i] \in S
  OBVIOUS

\* A sequence with an element more at its end.
LEMMA Appending ==
  ASSUME NEW S, NEW s \in Seq(S), NEW e \in S
  PROVE  /\ Append(s, e) \in Seq(S) /\ Len(Append(s, e)) = Len(s) + 1
         /\ \A i \in 1 .. Len(s) : Append(s, e)[i] = s[i]
         /\ Append(s, e)[Len(s) + 1] = e
  OBVIOUS

\* The first element of a sequence, and the others.
LEMMA Taking ==
  ASSUME NEW S, NEW s \in Seq(S), s # <<>>
  PROVE  /\ Head(s) \in S /\ Head(s) = s[1] /\ Len(s) >= 1
         /\ Tail(s) \in Seq(S) /\ Len(Tail(s)) = Len(s) - 1
         /\ \A i \in 1 .. Len(s) - 1 : Tail(s)[i] = s[i + 1]
  OBVIOUS

\* Two sequences, one after the other.
LEMMA Concatenation ==
  ASSUME NEW S, NEW c \in Seq(S), NEW d \in Seq(S)
  PROVE  /\ c \o d \in Seq(S) /\ Len(c \o d) = Len(c) + Len(d)
         /\ \A i \in 1 .. Len(c) : (c \o d)[i] = c[i]
         /\ \A i \in 1 .. Len(d) : (c \o d)[Len(c) + i] = d[i]
  OBVIOUS

\* The first n elements of a sequence, and the others.
LEMMA Splitting ==
  ASSUME NEW S, NEW s \in Seq(S), NEW n \in 0 .. Len(s)
  PROVE  /\ SubSeq(s, 1, n) \in Seq(S) /\ Len(SubSeq(s, 1, n)) = n
         /\ \A i \in 1 .. n : SubSeq(s, 1, n)[i] = s[i]
         /\ SubSeq(s, n + 1, Len(s)) \in Seq(S) /\ Len(SubSeq(s, n + 1, Len(s))) = Len(s) - n
         /\ \A i \in 1 .. Len(s) - n : SubSeq(s, n + 1, Len(s))[i] = s[n + i]
  OBVIOUS

\* A sequence without its i-th element: the others, in their order.
LEMMA Removal ==
  ASSUME NEW S, NEW s \in Seq(S), NEW i \in 1 .. Len(s)
  PROVE  LET rest == SubSeq(s, 1, i - 1) \o SubSeq(s, i + 1, Len(s))
         IN  /\ rest \in Seq(S) /\ Len(rest) = Len(s) - 1
             /\ \A j \in 1 .. Len(s) - 1 : rest[j] = IF j < i THEN s[j] ELSE s[j + 1]
<1> DEFINE a == SubSeq(s, 1, i - 1)
           b == SubSeq(s, i + 1, Len(s))
           rest == a \o b
           n == Len(s)
           k == Len(a)
           l == Len(b)
<1>1. n \in Nat /\ i \in 1 .. n
  OBVIOUS
<1>2. a \in Seq(S) /\ k = i - 1 /\ \A j \in 1 .. i - 1 : a[j] = s[j]
  OBVIOUS
<1>3. b \in Seq(S) /\ l = n - i /\ \A j \in 1 .. n - i : b[j] = s[i + j]
  OBVIOUS
<1>4. ASSUME NEW c \in Seq(S), NEW d \in Seq(S)
      PROVE  /\ c \o d \in Seq(S) /\ Len(c \o d) = Len(c) + Len(d)
             /\ \A j \in 1 .. Len(c) + Len(d) : (c \o d)[j] = IF j <= Len(c) THEN c[j] ELSE d[j - Len(c)]
  OBVIOUS
<1> HIDE DEF a, b
<1>5. /\ rest \in Seq(S) /\ Len(rest) = k + l
      /\ \A j \in 1 .. k + l : rest[j] = IF j <= k THEN a[j] ELSE b[j - k]
  BY <1>2, <1>3, <1>4, Zenon
<1> HIDE DEF rest, n, k, l
<1>6. ASSUME NEW j \in 1 .. n - 1 PROVE rest[j] = IF j < i THEN s[j] ELSE s[j + 1]
  <2>1. CASE j < i
    <3>1. j \in 1 .. k + l /\ j <= k /\ j \in 1 .. i - 1
      BY <1>1, <1>2, <1>3, <2>1
    <3> QED
      BY <1>2, <1>5, <2>1, <3>1, Zenon
  <2>2. CASE ~ j < i
    <3>1. j \in 1 .. k + l /\ ~ j <= k /\ j - k \in 1 .. n - i /\ i + (j - k) = j + 1
      BY <1>1, <1>2, <1>3, <2>2
    <3> QED
      BY <1>3, <1>5, <2>2, <3>1, Zenon
  <2> QED
    BY <2>1, <2>2, Zenon
<1>7. Len(rest) = n - 1
  BY <1>1, <1>2, <1>3, <1>5
<1> QED
  BY <1>5, <1>6, <1>7, Zenon DEF rest, a, b, n

\* The last element of a sequence, and the others.
LEMMA Parting ==
  ASSUME NEW S, NEW s \in Seq(S), s # <<>>
  PROVE  /\ Last(s) \in S /\ Last(s) = s[Len(s)] /\ Len(s) >= 1
         /\ Front(s) \in Seq(S) /\ Len(Front(s)) = Len(s) - 1
         /\ \A i \in 1 .. Len(s) - 1 : Front(s)[i] = s[i]
<1>1. Len(s) \in Nat /\ Len(s) >= 1 /\ \A i \in 1 .. Len(s) : s[i] \in S
  OBVIOUS
<1>2. Last(s) \in S /\ Last(s) = s[Len(s)]
  BY <1>1 DEF Last
<1>3. Len(s) - 1 \in 0 .. Len(s)
  BY <1>1
<1> QED
  BY <1>1, <1>2, <1>3, Splitting, ZenonT(30) DEF Front

\* What an element is appended to is the front of what comes of it.
LEMMA FrontOfAppend ==
  ASSUME NEW S, NEW s \in Seq(S), NEW e \in S
  PROVE  Front(Append(s, e)) = s
  BY DEF Front

\* What moves from the head of d to the end of c leaves the two together as they were.
LEMMA Moving ==
  ASSUME NEW S, NEW c \in Seq(S), NEW d \in Seq(S), d # <<>>
  PROVE  /\ Append(c, Head(d)) \in Seq(S) /\ Tail(d) \in Seq(S)
         /\ Append(c, Head(d)) \o Tail(d) = c \o d
<1> DEFINE a == Append(c, Head(d))
           b == Tail(d)
<1>1. a \in Seq(S) /\ b \in Seq(S) /\ a \o b \in Seq(S) /\ c \o d \in Seq(S)
  OBVIOUS
<1>2. Len(a \o b) = Len(c \o d)
  OBVIOUS
<1>3. \A i \in 1 .. Len(c \o d) : (a \o b)[i] = (c \o d)[i]
  OBVIOUS
<1> QED
  BY <1>1, <1>2, <1>3

\* An element appended to the last of two sequences is appended to the two.
LEMMA AppendingLast ==
  ASSUME NEW S, NEW c \in Seq(S), NEW d \in Seq(S), NEW e \in S
  PROVE  c \o Append(d, e) = Append(c \o d, e)
  OBVIOUS

-----------------------------------------------------------------------------
(* The validation stream.                                                  *)

Readers == [first : Nat, next : Nat, got : Seq(Numbers)]

\* The numbers go through the queue and the task in their order, and none is lost.
NumbersInOrder ==
    /\ \A i, j \in DOMAIN sent : i < j => sent[i] < sent[j]
    /\ \A i, j \in DOMAIN queue : i < j => queue[i].n < queue[j].n
    /\ \A i \in DOMAIN sent, j \in DOMAIN queue : sent[i] < queue[j].n
    /\ \A j \in DOMAIN queue : working.n < queue[j].n
    /\ working # Idle => \A i \in DOMAIN sent : sent[i] < working.n

Accounted == 1 .. numbered = ToSet(sent) \cup dropped \cup InQueue \cup ({working.n} \ {0})

\* The expressions are numbered as they are processed, which takes an event each.
ExpressionsNumbered ==
    \E k \in Nat : copy.expressions = 1 .. k /\ k + Len(queue) <= numbered

\* What a subscriber got is what was broadcast before its next position, in order, and
\* what it has passed over had been overwritten.
Follows(r) ==
    subs[r].first > 0 =>
        /\ subs[r].first <= subs[r].next /\ subs[r].next <= Len(sent) + 1
        /\ Increasing(subs[r].got)
        /\ \A i \in DOMAIN subs[r].got :
               \E j \in DOMAIN sent : j < subs[r].next /\ sent[j] = subs[r].got[i]
        /\ \A j \in subs[r].first .. (subs[r].next - 1) :
               sent[j] \in ToSet(subs[r].got) \/ j + OutputCap <= Len(sent)

StreamInv ==
    /\ StreamTypeOK /\ subs \in [Subscribers -> Readers]
    /\ DOMAIN copy = {"expressions", "checkpoints"}
    /\ DOMAIN own.checkpoints = {}
    /\ NumbersInOrder /\ Accounted /\ ExpressionsNumbered
    /\ \A r \in Subscribers : Follows(r)

\* The sequences and the counter of a state of the invariant, with their types.
LEMMA StreamShape ==
  ASSUME StreamInv
  PROVE  /\ queue \in Seq(Events) /\ Len(queue) \in Nat /\ DOMAIN queue = 1 .. Len(queue)
         /\ \A i \in DOMAIN queue : queue[i] \in Events /\ queue[i].n \in 1 .. numbered
         /\ sent \in Seq(Numbers) /\ Len(sent) \in Nat /\ DOMAIN sent = 1 .. Len(sent)
         /\ \A i \in DOMAIN sent : sent[i] \in 1 .. numbered
         /\ numbered \in 0 .. MaxEvents /\ numbered \in Nat /\ MaxEvents \in Nat
         /\ working.n \in 0 .. numbered /\ (working # Idle => working.n \in 1 .. numbered)
<1>1. /\ queue \in Seq(Events) /\ sent \in Seq(Numbers) /\ numbered \in 0 .. MaxEvents
      /\ MaxEvents \in Nat /\ working \in Events \cup {Idle}
  BY StreamConstants DEF StreamInv, StreamTypeOK
<1>2. working.n \in Nat /\ (working # Idle => working.n # 0)
  BY <1>1 DEF Events, Idle
<1>3. \A k \in ToSet(sent) \cup InQueue \cup ({working.n} \ {0}) : k \in 1 .. numbered
  BY DEF StreamInv, Accounted
<1>4. \A i \in DOMAIN queue : queue[i] \in Events /\ queue[i].n \in InQueue
  BY <1>1, Elements DEF InQueue
<1>5. \A i \in DOMAIN sent : sent[i] \in ToSet(sent)
  BY DEF ToSet
<1>6. Len(queue) \in Nat /\ DOMAIN queue = 1 .. Len(queue) /\ Len(sent) \in Nat /\ DOMAIN sent = 1 .. Len(sent)
  BY <1>1, Elements
<1>7. working.n \in 0 .. numbered /\ (working # Idle => working.n \in 1 .. numbered)
  BY <1>1, <1>2, <1>3
<1> QED
  BY <1>1, <1>3, <1>4, <1>5, <1>6, <1>7

\* Steps that leave what was broadcast and the subscribers alone.
LEMMA SubscribersStill ==
  ASSUME StreamInv, sent' = sent, subs' = subs
  PROVE  /\ subs' \in [Subscribers -> Readers] /\ \A r \in Subscribers : Follows(r)'
         /\ DOMAIN subs' = Subscribers /\ sent' \in Seq(Numbers)
         /\ \A r \in Subscribers : subs'[r].first \in Nat /\ subs'[r].got \in Seq(Numbers)
  BY DEF StreamInv, StreamTypeOK, Follows

\* An event that finds room joins the queue with the next number.
LEMMA SubmitStep == ASSUME StreamInv, Submit PROVE StreamInv'
<1>1. PICK kind \in Kinds : queue' = Append(queue, [kind |-> kind, n |-> numbered'])
  BY DEF Submit
<1>2. /\ numbered < MaxEvents /\ numbered' = numbered + 1 /\ dropped' = dropped /\ working' = working
      /\ copy' = copy /\ own' = own /\ answers' = answers /\ sent' = sent /\ subs' = subs
  BY DEF Submit
<1>3. PICK l \in Nat : l = Len(queue) /\ DOMAIN queue = 1 .. l
  BY StreamShape
<1>4. numbered \in Nat /\ numbered + 1 \in 0 .. MaxEvents /\ numbered + 1 \in 1 .. MaxEvents
  BY <1>2, StreamShape
<1>5. PICK e \in Events : e = [kind |-> kind, n |-> numbered + 1]
  BY <1>4 DEF Events
<1>6. /\ queue' \in Seq(Events) /\ Len(queue') = l + 1 /\ DOMAIN queue' = 1 .. l + 1
  BY <1>1, <1>2, <1>3, <1>5, StreamShape, Appending, Elements
<1>7. /\ \A i \in 1 .. l : queue'[i] = queue[i]
      /\ queue'[l + 1] = e /\ e.n = numbered + 1
  BY <1>1, <1>2, <1>3, <1>5, StreamShape, Appending
<1>8. \A i \in 1 .. l + 1 : i \in 1 .. l \/ i = l + 1
  BY <1>3
<1>9. NumbersInOrder'
  <2>1. \A i \in 1 .. l : queue[i].n \in 1 .. numbered
    BY <1>3, StreamShape
  <2>2. \A i \in DOMAIN sent : sent[i] < numbered + 1
    BY StreamShape
  <2>3. working.n < numbered + 1
    BY StreamShape
  <2>4. ASSUME NEW i \in 1 .. l + 1, NEW j \in 1 .. l + 1, i < j PROVE queue'[i].n < queue'[j].n
    <3>1. i \in 1 .. l
      BY <1>3, <2>4
    <3>2. CASE j \in 1 .. l
      BY <1>3, <1>7, <2>4, <3>1, <3>2 DEF StreamInv, NumbersInOrder
    <3>3. CASE j = l + 1
      BY <1>4, <1>7, <2>1, <3>1, <3>3
    <3> QED
      BY <1>8, <3>2, <3>3
  <2>5. ASSUME NEW i \in DOMAIN sent, NEW j \in 1 .. l + 1 PROVE sent[i] < queue'[j].n
    BY <1>3, <1>7, <1>8, <2>2 DEF StreamInv, NumbersInOrder
  <2>6. ASSUME NEW j \in 1 .. l + 1 PROVE working.n < queue'[j].n
    BY <1>3, <1>7, <1>8, <2>3 DEF StreamInv, NumbersInOrder
  <2> QED
    BY <1>2, <1>6, <2>4, <2>5, <2>6 DEF StreamInv, NumbersInOrder
<1>10. Accounted'
  <2>1. InQueue' = InQueue \cup {numbered + 1}
    <3>1. \A i \in 1 .. l : i \in 1 .. l + 1
      BY <1>3
    <3>2. l + 1 \in 1 .. l + 1
      BY <1>3
    <3> QED
      BY <1>3, <1>6, <1>7, <1>8, <3>1, <3>2 DEF InQueue
  <2>2. 1 .. numbered + 1 = (1 .. numbered) \cup {numbered + 1}
    BY <1>4
  <2> QED
    BY <1>2, <2>1, <2>2 DEF StreamInv, Accounted
<1>11. ExpressionsNumbered'
  <2>1. PICK k \in Nat : copy.expressions = 1 .. k /\ k + l <= numbered
    BY <1>3 DEF StreamInv, ExpressionsNumbered
  <2>2. k + (l + 1) <= numbered + 1
    BY <1>4, <2>1
  <2> QED
    BY <1>2, <1>6, <2>1, <2>2 DEF ExpressionsNumbered
<1>12. StreamTypeOK'
  BY <1>2, <1>4, <1>6, SubscribersStill, Zenon DEF StreamInv, StreamTypeOK
<1> QED
  BY <1>2, <1>9, <1>10, <1>11, <1>12, SubscribersStill, Zenon DEF StreamInv

\* An event given up takes its number with it, and is accounted for as dropped.
LEMMA GiveUpStep == ASSUME StreamInv, GiveUp PROVE StreamInv'
<1>1. PICK l \in Nat : l = Len(queue) /\ DOMAIN queue = 1 .. l
  BY StreamShape
<1>2. PICK i \in 1 .. l : dropped' = dropped \cup {queue[i].n} /\ queue' = RemoveAt(queue, i)
  BY <1>1, StreamConstants DEF GiveUp
<1>3. /\ numbered' = numbered /\ working' = working
      /\ copy' = copy /\ own' = own /\ answers' = answers /\ sent' = sent /\ subs' = subs
  BY DEF GiveUp
<1>4. /\ queue' \in Seq(Events) /\ Len(queue') = l - 1 /\ DOMAIN queue' = 1 .. l - 1
      /\ \A j \in 1 .. l - 1 : queue'[j] = IF j < i THEN queue[j] ELSE queue[j + 1]
  <2>1. queue' = SubSeq(queue, 1, i - 1) \o SubSeq(queue, i + 1, Len(queue))
    BY <1>2 DEF RemoveAt
  <2>2. /\ queue' \in Seq(Events) /\ Len(queue') = Len(queue) - 1
        /\ \A j \in 1 .. Len(queue) - 1 : queue'[j] = IF j < i THEN queue[j] ELSE queue[j + 1]
    BY <1>1, <2>1, StreamShape, Removal
  <2> QED
    BY <1>1, <2>2, Elements
<1> DEFINE old(j) == IF j < i THEN j ELSE j + 1
<1>5. \A j \in 1 .. l - 1 : old(j) \in 1 .. l /\ old(j) # i /\ queue'[j] = queue[old(j)]
  BY <1>4
<1>6. \A j, k \in 1 .. l - 1 : j < k => old(j) < old(k)
  OBVIOUS
<1>7. \A k \in 1 .. l : k # i => \E j \in 1 .. l - 1 : old(j) = k
  <2> SUFFICES ASSUME NEW k \in 1 .. l, k # i PROVE \E j \in 1 .. l - 1 : old(j) = k
    OBVIOUS
  <2>1. CASE k < i
    BY <2>1
  <2>2. CASE k > i
    <3>1. k - 1 \in 1 .. l - 1 /\ old(k - 1) = k
      BY <2>2
    <3> QED
      BY <3>1
  <2> QED
    BY <2>1, <2>2
<1> HIDE DEF old
<1>8. NumbersInOrder'
  <2>1. \A j, k \in 1 .. l - 1 : j < k => queue'[j].n < queue'[k].n
    BY <1>1, <1>5, <1>6 DEF StreamInv, NumbersInOrder
  <2>2. \A k \in 1 .. l - 1 : working.n < queue'[k].n /\ \A j \in DOMAIN sent : sent[j] < queue'[k].n
    BY <1>1, <1>5 DEF StreamInv, NumbersInOrder
  <2> QED
    BY <1>3, <1>4, <2>1, <2>2, Zenon DEF StreamInv, NumbersInOrder
<1>9. Accounted'
  <2>1. \A n : n \in InQueue <=> n \in InQueue' \/ n = queue[i].n
    <3>1. \A n : n \in InQueue <=> \E j \in 1 .. l : queue[j].n = n
      BY <1>1 DEF InQueue
    <3>2. \A n : n \in InQueue' <=> \E j \in 1 .. l - 1 : queue'[j].n = n
      BY <1>4 DEF InQueue
    <3> QED
      BY <1>5, <1>7, <3>1, <3>2
  <2> QED
    BY <1>2, <1>3, <2>1 DEF StreamInv, Accounted
<1>10. ExpressionsNumbered'
  <2>1. PICK k \in Nat : copy.expressions = 1 .. k /\ k + l <= numbered
    BY <1>1 DEF StreamInv, ExpressionsNumbered
  <2>2. k + (l - 1) <= numbered
    BY <2>1, StreamShape
  <2> QED
    BY <1>3, <1>4, <2>1, <2>2 DEF ExpressionsNumbered
<1>11. StreamTypeOK'
  <2>1. queue[i].n \in Numbers
    <3>1. queue[i].n \in 1 .. numbered /\ numbered \in 0 .. MaxEvents
      BY <1>1, StreamShape
    <3> QED
      BY <3>1, StreamConstants DEF Numbers
  <2> QED
    BY <1>2, <1>3, <1>4, <2>1, SubscribersStill, Zenon DEF StreamInv, StreamTypeOK
<1> QED
  BY <1>3, <1>8, <1>9, <1>10, <1>11, SubscribersStill, Zenon DEF StreamInv

\* A rollback asks the stream's own copy, which has no checkpoint.
LEMMA RollbackStep == ASSUME StreamInv, Rollback PROVE StreamInv'
<1>1. PICK c \in 1 .. numbered :
         /\ own' = IF c \in DOMAIN own.checkpoints
                   THEN [own EXCEPT !.expressions = own.checkpoints[c]] ELSE own
         /\ answers' = answers \cup {[ok |-> c \in DOMAIN own.checkpoints,
                                      made |-> c \in DOMAIN copy.checkpoints]}
  BY DEF Rollback
<1>2. /\ queue' = queue /\ numbered' = numbered /\ dropped' = dropped /\ working' = working
      /\ copy' = copy /\ sent' = sent /\ subs' = subs
  BY DEF Rollback
<1>3. PICK made \in BOOLEAN : own' = own /\ answers' = answers \cup {[ok |-> FALSE, made |-> made]}
  <2>1. c \notin DOMAIN own.checkpoints
    BY DEF StreamInv
  <2>2. (c \in DOMAIN own.checkpoints) = FALSE /\ (c \in DOMAIN copy.checkpoints) \in BOOLEAN
    BY <2>1
  <2> QED
    BY <1>1, <2>1, <2>2
<1>4. StreamTypeOK'
  <2>1. answers' \subseteq [ok : BOOLEAN, made : BOOLEAN]
    <3>1. [ok |-> FALSE, made |-> made] \in [ok : BOOLEAN, made : BOOLEAN]
      OBVIOUS
    <3> QED
      BY <1>3, <3>1, Zenon DEF StreamInv, StreamTypeOK
  <2> QED
    BY <1>2, <1>3, <2>1, Zenon DEF StreamInv, StreamTypeOK
<1>5. NumbersInOrder' /\ Accounted' /\ ExpressionsNumbered'
  BY <1>2 DEF StreamInv, NumbersInOrder, Accounted, ExpressionsNumbered, InQueue
<1> QED
  BY <1>3, <1>2, <1>4, <1>5, SubscribersStill DEF StreamInv

\* The head of the queue becomes the one under way, after all that were sent.
LEMMA ReceiveStep == ASSUME StreamInv, Receive PROVE StreamInv'
<1>1. /\ numbered' = numbered /\ dropped' = dropped /\ own' = own /\ answers' = answers
      /\ sent' = sent /\ subs' = subs /\ working = Idle
  BY DEF Receive
<1>2. PICK l \in Nat \ {0} : l = Len(queue) /\ DOMAIN queue = 1 .. l
  <2>1. queue \in Seq(Events) /\ queue # <<>> /\ Len(queue) \in Nat /\ DOMAIN queue = 1 .. Len(queue)
    BY StreamShape DEF Receive
  <2>2. Len(queue) >= 1
    BY <2>1, Taking
  <2>3. Len(queue) \in Nat \ {0}
    BY <2>1, <2>2
  <2> QED
    BY <2>1, <2>3, Zenon
<1>3. PICK e \in Events : /\ e = queue[1] /\ e.n \in 1 .. numbered
                         /\ working' = e /\ queue' = Tail(queue) /\ copy' = Processed(e)
  <2>1. Head(queue) \in Events /\ Head(queue) = queue[1]
    BY StreamShape, Taking DEF Receive
  <2>2. 1 \in DOMAIN queue
    BY <1>2
  <2> QED
    BY <2>1, <2>2, StreamShape DEF Receive
<1>4. queue' \in Seq(Events) /\ Len(queue') = l - 1 /\ DOMAIN queue' = 1 .. l - 1
  BY <1>2, <1>3, StreamShape, Taking, Elements DEF Receive
<1>5. \A i \in 1 .. l - 1 : queue'[i] = queue[i + 1] /\ i + 1 \in 1 .. l /\ 1 < i + 1
  BY <1>2, <1>3, StreamShape, Taking DEF Receive
<1>6. e.n \in Nat \ {0} /\ e.n \in Numbers /\ e # Idle
  <2>1. numbered \in 0 .. MaxEvents
    BY StreamShape
  <2> QED
    BY <1>3, <2>1, StreamConstants DEF Numbers, Idle
<1>7. NumbersInOrder'
  <2>1. 1 \in 1 .. l
    BY <1>2
  <2>2. \A i, j \in 1 .. l - 1 : i < j => queue'[i].n < queue'[j].n
    <3>1. \A i, j \in 1 .. l : i < j => queue[i].n < queue[j].n
      BY <1>2 DEF StreamInv, NumbersInOrder
    <3>2. ASSUME NEW i \in 1 .. l - 1, NEW j \in 1 .. l - 1, i < j PROVE queue'[i].n < queue'[j].n
      <4>1. i + 1 < j + 1
        BY <3>2
      <4> QED
        BY <1>5, <3>1, <4>1
    <3> QED
      BY <3>2
  <2>3. \A j \in 1 .. l - 1 : e.n < queue'[j].n /\ \A i \in DOMAIN sent : sent[i] < queue'[j].n
    BY <1>2, <1>3, <1>5, <2>1 DEF StreamInv, NumbersInOrder
  <2>4. \A i \in DOMAIN sent : sent[i] < e.n
    BY <1>2, <1>3, <2>1 DEF StreamInv, NumbersInOrder
  <2> QED
    BY <1>1, <1>3, <1>4, <2>2, <2>3, <2>4, Zenon DEF StreamInv, NumbersInOrder
<1>8. Accounted'
  <2>1. \A i \in 1 .. l : i = 1 \/ (i - 1 \in 1 .. l - 1 /\ (i - 1) + 1 = i)
    OBVIOUS
  <2>2. \A n : n \in InQueue <=> \E i \in 1 .. l : queue[i].n = n
    BY <1>2 DEF InQueue
  <2>3. \A n : n \in InQueue' <=> \E i \in 1 .. l - 1 : queue'[i].n = n
    BY <1>4 DEF InQueue
  <2>4. 1 \in 1 .. l
    BY <1>2
  <2>5. \A n : n \in InQueue <=> n \in InQueue' \/ n = e.n
    <3>1. ASSUME NEW i \in 1 .. l PROVE queue[i].n \in InQueue' \/ queue[i].n = e.n
      <4>1. CASE i = 1
        BY <1>3, <4>1
      <4>2. CASE i # 1
        <5>1. i - 1 \in 1 .. l - 1 /\ queue'[i - 1] = queue[i]
          BY <1>5, <2>1, <4>2
        <5> QED
          BY <2>3, <5>1
      <4> QED
        BY <4>1, <4>2
    <3>2. ASSUME NEW i \in 1 .. l - 1 PROVE queue'[i].n \in InQueue
      BY <1>5, <2>2
    <3>3. e.n \in InQueue
      BY <1>3, <2>2, <2>4
    <3> QED
      BY <2>2, <2>3, <3>1, <3>2, <3>3
  <2>6. working.n = 0
    BY <1>1 DEF Idle
  <2> QED
    BY <1>1, <1>3, <1>6, <2>5, <2>6 DEF StreamInv, Accounted
<1>9. PICK k \in Nat : copy.expressions = 1 .. k /\ k + l <= numbered
  BY <1>2 DEF StreamInv, ExpressionsNumbered
<1>10. Cardinality(copy.expressions) + 1 = k + 1
  <2>1. Cardinality(1 .. k) = IF 1 > k THEN 0 ELSE k - 1 + 1
    BY FS_Interval
  <2> QED
    BY <1>9, <2>1
<1>11. DOMAIN copy' = {"expressions", "checkpoints"}
  BY <1>3 DEF StreamInv, Processed
<1>12. copy'.expressions = 1 .. k \/ copy'.expressions = 1 .. k + 1
  <2>1. CASE e.kind = "Expression"
    <3>1. (1 .. k) \cup {k + 1} = 1 .. k + 1
      OBVIOUS
    <3>2. copy'.expressions = copy.expressions \cup {Cardinality(copy.expressions) + 1}
      BY <1>3, <2>1 DEF StreamInv, Processed
    <3> QED
      BY <1>9, <1>10, <3>1, <3>2
  <2>2. CASE e.kind # "Expression"
    BY <1>3, <1>9, <2>2 DEF StreamInv, Processed
  <2> QED
    BY <2>1, <2>2
<1>13. ExpressionsNumbered'
  <2>1. k + (l - 1) <= numbered /\ (k + 1) + (l - 1) <= numbered
    BY <1>9, StreamShape
  <2> QED
    BY <1>1, <1>4, <1>12, <2>1 DEF ExpressionsNumbered
<1>14. copy'.expressions \subseteq Numbers
  <2>1. k + 1 <= MaxEvents
    BY <1>9, StreamShape
  <2> QED
    BY <1>12, <2>1, StreamShape DEF Numbers
<1>15. DOMAIN copy'.checkpoints \subseteq Numbers
  <2>1. copy'.checkpoints = copy.checkpoints \/ copy'.checkpoints = Put(copy.checkpoints, e.n, copy.expressions)
    BY <1>3 DEF StreamInv, Processed
  <2>2. DOMAIN Put(copy.checkpoints, e.n, copy.expressions) = DOMAIN copy.checkpoints \cup {e.n}
    BY DEF Put
  <2> QED
    BY <1>6, <2>1, <2>2 DEF StreamInv, StreamTypeOK
<1>16. StreamTypeOK'
  BY <1>1, <1>3, <1>4, <1>14, <1>15, SubscribersStill, Zenon DEF StreamInv, StreamTypeOK
<1> QED
  BY <1>1, <1>7, <1>8, <1>11, <1>13, <1>16, SubscribersStill, Zenon DEF StreamInv

\* What is under way is sent: its number is beyond those sent before.
LEMMA BroadcastStep == ASSUME StreamInv, Broadcast PROVE StreamInv'
<1>1. /\ numbered' = numbered /\ dropped' = dropped /\ own' = own /\ answers' = answers
      /\ queue' = queue /\ copy' = copy /\ subs' = subs /\ working # Idle /\ working' = Idle
      /\ sent' = Append(sent, working.n)
  BY DEF Broadcast
<1>2. PICK w \in Numbers : w = working.n /\ w \in Nat \ {0}
  BY <1>1, StreamShape DEF Numbers
<1>3. PICK l \in Nat : l = Len(sent) /\ DOMAIN sent = 1 .. l
  BY StreamShape
<1>4. sent' \in Seq(Numbers) /\ Len(sent') = l + 1 /\ DOMAIN sent' = 1 .. l + 1
  BY <1>1, <1>2, <1>3, StreamShape, Appending, Elements
<1>5. /\ \A i \in 1 .. l : sent'[i] = sent[i] /\ i \in 1 .. l + 1
      /\ sent'[l + 1] = w
  BY <1>1, <1>2, <1>3, StreamShape, Appending
<1>6. \A i \in 1 .. l + 1 : i \in 1 .. l \/ i = l + 1
  OBVIOUS
<1>7. l + 1 \in 1 .. l + 1
  OBVIOUS
<1>8. NumbersInOrder'
  <2>1. \A i \in 1 .. l : sent[i] < w
    BY <1>1, <1>2, <1>3 DEF StreamInv, NumbersInOrder
  <2>2. ASSUME NEW i \in 1 .. l + 1, NEW j \in 1 .. l + 1, i < j PROVE sent'[i] < sent'[j]
    <3>1. i \in 1 .. l
      BY <2>2
    <3> QED
      BY <1>3, <1>5, <1>6, <2>1, <2>2, <3>1 DEF StreamInv, NumbersInOrder
  <2>3. \A i \in 1 .. l + 1, j \in DOMAIN queue : sent'[i] < queue[j].n
    BY <1>2, <1>3, <1>5, <1>6 DEF StreamInv, NumbersInOrder
  <2>4. ASSUME NEW j \in DOMAIN queue PROVE 0 < queue[j].n
    <3>1. queue[j].n \in 1 .. numbered
      BY StreamShape
    <3> QED
      BY <3>1, StreamShape
  <2> QED
    BY <1>1, <1>4, <2>2, <2>3, <2>4 DEF StreamInv, NumbersInOrder, Idle
<1>9. ToSet(sent') = ToSet(sent) \cup {w}
  <2>1. \A n : n \in ToSet(sent') <=> \E i \in 1 .. l + 1 : sent'[i] = n
    BY <1>4 DEF ToSet
  <2>2. \A n : n \in ToSet(sent) <=> \E i \in 1 .. l : sent[i] = n
    BY <1>3 DEF ToSet
  <2> QED
    BY <1>5, <1>6, <1>7, <2>1, <2>2
<1>10. Accounted'
  BY <1>1, <1>2, <1>9 DEF StreamInv, Accounted, InQueue, Idle
<1>11. ExpressionsNumbered'
  BY <1>1 DEF StreamInv, ExpressionsNumbered
<1>12. ASSUME NEW r \in Subscribers PROVE Follows(r)'
  <2> SUFFICES ASSUME subs[r].first > 0 PROVE Follows(r)'
    BY <1>1 DEF Follows
  <2>1. PICK u \in Readers : u = subs[r]
    BY DEF StreamInv
  <2>2. u.first \in Nat /\ u.next \in Nat
    BY DEF Readers
  <2>3. /\ u.first <= u.next /\ u.next <= l + 1 /\ Increasing(u.got)
        /\ \A i \in DOMAIN u.got : \E j \in 1 .. l : j < u.next /\ sent[j] = u.got[i]
        /\ \A j \in u.first .. (u.next - 1) : sent[j] \in ToSet(u.got) \/ j + OutputCap <= l
        /\ u.first > 0
    BY <1>3, <2>1 DEF StreamInv, Follows
  <2>4. \A i \in DOMAIN u.got : \E j \in 1 .. l + 1 : j < u.next /\ sent'[j] = u.got[i]
    BY <1>5, <2>3
  <2>5. ASSUME NEW j \in u.first .. (u.next - 1)
        PROVE  sent'[j] \in ToSet(u.got) \/ j + OutputCap <= l + 1
    <3>1. j \in 1 .. l
      BY <2>2, <2>3
    <3> QED
      BY <1>5, <2>3, <3>1, StreamConstants
  <2>6. u.next <= (l + 1) + 1
    BY <2>2, <2>3
  <2> QED
    BY <1>1, <1>4, <2>1, <2>3, <2>4, <2>5, <2>6 DEF Follows
<1>13. StreamTypeOK'
  BY <1>1, <1>4, Zenon DEF StreamInv, StreamTypeOK
<1> QED
  BY <1>1, <1>8, <1>10, <1>11, <1>12, <1>13, Zenon DEF StreamInv

\* A step of a subscriber moves its own position, and what it got.
LEMMA ReaderStep ==
  ASSUME StreamInv, NEW r \in Subscribers, NEW u \in Readers,
         UNCHANGED <<queue, numbered, dropped, working, copy, own, answers, sent>>,
         subs' = [subs EXCEPT ![r] = u], Follows(r)'
  PROVE  StreamInv'
<1>1. /\ subs' \in [Subscribers -> Readers]
      /\ \A p \in Subscribers \ {r} : subs'[p] = subs[p]
  BY DEF StreamInv
<1>2. \A p \in Subscribers : Follows(p)'
  BY <1>1 DEF StreamInv, Follows
<1>3. StreamTypeOK'
  <2>1. \A p \in Subscribers : subs'[p].first \in Nat /\ subs'[p].got \in Seq(Numbers)
    BY <1>1 DEF Readers
  <2>2. DOMAIN subs' = Subscribers
    BY <1>1
  <2> QED
    BY <2>1, <2>2, Zenon DEF StreamInv, StreamTypeOK
<1>4. NumbersInOrder' /\ Accounted' /\ ExpressionsNumbered'
  BY DEF StreamInv, NumbersInOrder, Accounted, ExpressionsNumbered, InQueue
<1> QED
  BY <1>1, <1>2, <1>3, <1>4 DEF StreamInv

\* A subscriber starts after what was sent.
LEMMA SubscribeStep == ASSUME StreamInv, NEW r \in Subscribers, Subscribe(r) PROVE StreamInv'
<1>1. PICK u \in Readers : u = [first |-> Len(sent) + 1, next |-> Len(sent) + 1, got |-> <<>>]
  <2>1. PICK n \in Nat : n = Len(sent) + 1
    BY StreamShape
  <2>2. <<>> \in Seq(Numbers)
    OBVIOUS
  <2> QED
    BY <2>1, <2>2 DEF Readers
<1>2. /\ subs' = [subs EXCEPT ![r] = u]
      /\ UNCHANGED <<queue, numbered, dropped, working, copy, own, answers, sent>>
  BY <1>1 DEF Subscribe
<1>3. u.first = Len(sent) + 1 /\ u.next = u.first /\ DOMAIN u.got = {} /\ Len(sent) \in Nat
  BY <1>1, StreamShape
<1>4. subs'[r] = u
  BY <1>2 DEF StreamInv
<1>5. Follows(r)'
  <2>1. u.first .. (u.next - 1) = {} /\ Increasing(u.got)
    BY <1>3 DEF Increasing
  <2> QED
    BY <1>2, <1>3, <1>4, <2>1 DEF Follows
<1> QED
  BY <1>2, <1>5, ReaderStep

\* A subscriber that lags skips only what the channel has overwritten.
LEMMA LagStep == ASSUME StreamInv, NEW r \in Subscribers, Lag(r) PROVE StreamInv'
<1>1. PICK l \in Nat : l = Len(sent) /\ DOMAIN sent = 1 .. l
  BY StreamShape
<1>2. PICK v \in Readers : v = subs[r]
  BY DEF StreamInv
<1>3. /\ v.first \in Nat /\ v.next \in Nat /\ v.first > 0 /\ v.next < Oldest
      /\ v.first <= v.next /\ v.next <= l + 1 /\ Increasing(v.got)
      /\ \A i \in DOMAIN v.got : \E j \in 1 .. l : j < v.next /\ sent[j] = v.got[i]
      /\ \A j \in v.first .. (v.next - 1) : sent[j] \in ToSet(v.got) \/ j + OutputCap <= l
  <2>1. v.first \in Nat /\ v.next \in Nat
    BY DEF Readers
  <2>2. v.first > 0 /\ v.next < Oldest
    BY <1>2 DEF Lag
  <2>3. Follows(r)
    BY DEF StreamInv
  <2> QED
    BY <1>1, <1>2, <2>1, <2>2, <2>3, Zenon DEF Follows
<1>4. Oldest = l - OutputCap + 1 /\ l > OutputCap /\ Oldest \in Nat
  BY <1>1, <1>3, StreamConstants DEF Oldest
<1>5. PICK u \in Readers : u = [v EXCEPT !.next = Oldest]
  BY <1>4 DEF Readers
<1>6. u.first = v.first /\ u.next = Oldest /\ u.got = v.got
  BY <1>5 DEF Readers
<1>7. subs' = [subs EXCEPT ![r] = u] /\ subs'[r] = u /\ sent' = sent
  BY <1>2, <1>5 DEF Lag, StreamInv
<1>8. Follows(r)'
  <2>1. ASSUME NEW j \in v.first .. (Oldest - 1)
        PROVE  sent[j] \in ToSet(v.got) \/ j + OutputCap <= l
    <3>1. CASE j <= v.next - 1
      BY <1>3, <3>1
    <3>2. CASE j > v.next - 1
      BY <1>4, StreamConstants
    <3> QED
      BY <1>3, <3>1, <3>2
  <2>2. v.first <= Oldest /\ Oldest <= l + 1
    BY <1>3, <1>4, StreamConstants
  <2>3. \A i \in DOMAIN v.got : \E j \in 1 .. l : j < Oldest /\ sent[j] = v.got[i]
    BY <1>3, <1>4
  <2> QED
    BY <1>1, <1>3, <1>6, <1>7, <2>1, <2>2, <2>3 DEF Follows
<1> QED
  BY <1>7, <1>8, ReaderStep DEF Lag

\* A subscriber gets what it is at, which is beyond what it got.
LEMMA RecvStep == ASSUME StreamInv, NEW r \in Subscribers, Recv(r) PROVE StreamInv'
<1>1. PICK l \in Nat : l = Len(sent) /\ DOMAIN sent = 1 .. l
  BY StreamShape
<1>2. PICK v \in Readers : v = subs[r]
  BY DEF StreamInv
<1>3. /\ v.first \in Nat /\ v.next \in Nat /\ v.first > 0 /\ v.next \in 1 .. l
      /\ v.first <= v.next /\ Increasing(v.got) /\ v.got \in Seq(Numbers)
      /\ \A i \in DOMAIN v.got : \E j \in 1 .. l : j < v.next /\ sent[j] = v.got[i]
      /\ \A j \in v.first .. (v.next - 1) : sent[j] \in ToSet(v.got) \/ j + OutputCap <= l
  <2>1. v.first \in Nat /\ v.next \in Nat /\ v.first > 0 /\ v.next <= l /\ v.got \in Seq(Numbers)
    BY <1>1, <1>2 DEF Recv, Readers
  <2> QED
    BY <1>1, <1>2, <2>1 DEF StreamInv, Follows
<1>4. PICK n \in Numbers : n = sent[v.next]
  BY <1>1, <1>3, StreamShape, Elements
<1>5. PICK got \in Seq(Numbers) : got = Append(v.got, n)
  BY <1>3, Appending
<1>6. PICK g \in Nat : g = Len(v.got) /\ DOMAIN v.got = 1 .. g
  BY <1>3
<1>7. DOMAIN got = 1 .. g + 1 /\ got[g + 1] = n /\ \A i \in 1 .. g : got[i] = v.got[i]
  BY <1>3, <1>5, <1>6, Appending, Elements
<1>8. PICK u \in Readers : u = [v EXCEPT !.next = v.next + 1, !.got = got]
  <2>1. PICK next \in Nat : next = v.next + 1
    BY <1>3
  <2>2. [v EXCEPT !.next = next, !.got = got] \in Readers
    BY DEF Readers
  <2> QED
    BY <2>1, <2>2
<1>9. u.first = v.first /\ u.next = v.next + 1 /\ u.got = got
  BY <1>8 DEF Readers
<1>10. subs' = [subs EXCEPT ![r] = u] /\ subs'[r] = u /\ sent' = sent
  BY <1>2, <1>4, <1>5, <1>8 DEF Recv, StreamInv
<1>11. \A i \in 1 .. g + 1 : i \in 1 .. g \/ i = g + 1
  OBVIOUS
<1>12. g + 1 \in 1 .. g + 1 /\ \A i \in 1 .. g : i \in 1 .. g + 1
  OBVIOUS
<1>13. ToSet(got) = ToSet(v.got) \cup {n}
  <2>1. \A m : m \in ToSet(got) <=> \E i \in 1 .. g + 1 : got[i] = m
    BY <1>7 DEF ToSet
  <2>2. \A m : m \in ToSet(v.got) <=> \E i \in 1 .. g : v.got[i] = m
    BY <1>6 DEF ToSet
  <2> QED
    BY <1>7, <1>11, <1>12, <2>1, <2>2
<1>14. \A i \in 1 .. g : v.got[i] < n
  <2>1. \A j \in 1 .. l : j < v.next => sent[j] < n
    BY <1>1, <1>3, <1>4 DEF StreamInv, NumbersInOrder
  <2> QED
    BY <1>3, <1>6, <2>1
<1>15. Follows(r)'
  <2>1. Increasing(got)
    <3> SUFFICES ASSUME NEW i \in 1 .. g + 1, NEW j \in 1 .. g + 1, i < j PROVE got[i] < got[j]
      BY <1>7 DEF Increasing
    <3>1. i \in 1 .. g
      OBVIOUS
    <3> QED
      BY <1>3, <1>6, <1>7, <1>11, <1>14, <3>1 DEF Increasing
  <2>2. ASSUME NEW i \in 1 .. g + 1 PROVE \E j \in 1 .. l : j < v.next + 1 /\ sent[j] = got[i]
    <3>1. CASE i \in 1 .. g
      <4>1. PICK j \in 1 .. l : j < v.next /\ sent[j] = v.got[i]
        BY <1>3, <1>6, <3>1
      <4>2. j < v.next + 1
        BY <1>3, <4>1
      <4> QED
        BY <1>7, <3>1, <4>1, <4>2
    <3>2. CASE i = g + 1
      <4>1. v.next < v.next + 1
        BY <1>3
      <4> QED
        BY <1>3, <1>4, <1>7, <3>2, <4>1
    <3> QED
      BY <1>11, <3>1, <3>2
  <2>3. ASSUME NEW j \in u.first .. (u.next - 1)
        PROVE  sent[j] \in ToSet(got) \/ j + OutputCap <= l
    <3>1. j = v.next \/ j \in v.first .. (v.next - 1)
      BY <1>3, <1>9
    <3> QED
      BY <1>3, <1>4, <1>13, <3>1
  <2>4. v.first <= v.next + 1 /\ v.next + 1 <= l + 1
    BY <1>3
  <2> QED
    <3>1. u.first <= u.next /\ u.next <= l + 1 /\ Increasing(u.got)
      BY <1>9, <2>1, <2>4
    <3>2. \A i \in DOMAIN u.got : \E j \in 1 .. l : j < u.next /\ sent[j] = u.got[i]
      BY <1>7, <1>9, <2>2, Zenon
    <3>3. \A j \in u.first .. (u.next - 1) : sent[j] \in ToSet(u.got) \/ j + OutputCap <= l
      BY <1>9, <2>3, Zenon
    <3> QED
      BY <1>1, <1>10, <3>1, <3>2, <3>3, Zenon DEF Follows
<1> QED
  BY <1>10, <1>15, ReaderStep DEF Recv

(* The invariant of the validation stream, whatever the fairness: the      *)
(* numbers sent, queued and under way are in order and none is lost.       *)
THEOREM StreamInvariance == StreamInit /\ [][StreamNext]_streamVars => []StreamInv
<1>1. StreamInit => StreamInv
  <2> SUFFICES ASSUME StreamInit PROVE StreamInv
    OBVIOUS
  <2>1. StreamTypeOK /\ subs \in [Subscribers -> Readers]
    <3>1. Unsubscribed \in Readers
      BY DEF Unsubscribed, Readers
    <3>2. 0 \in 0 .. MaxEvents /\ <<>> \in Seq(Events) /\ <<>> \in Seq(Numbers)
      BY StreamConstants
    <3>3. Unsubscribed.first \in Nat /\ Unsubscribed.got \in Seq(Numbers)
      BY <3>1 DEF Readers
    <3> QED
      BY <3>1, <3>2, <3>3 DEF StreamInit, StreamTypeOK
  <2>2. NumbersInOrder /\ Accounted
    BY DEF StreamInit, NumbersInOrder, Accounted, ToSet, InQueue, Idle
  <2>3. ExpressionsNumbered
    <3>1. copy.expressions = 1 .. 0 /\ 0 + Len(queue) <= numbered
      BY DEF StreamInit
    <3> QED
      BY <3>1 DEF ExpressionsNumbered
  <2>4. \A r \in Subscribers : Follows(r)
    BY DEF StreamInit, Follows, Unsubscribed
  <2> QED
    BY <2>1, <2>2, <2>3, <2>4 DEF StreamInit, StreamInv
<1>2. StreamInv /\ [StreamNext]_streamVars => StreamInv'
  <2>1. StreamInv /\ UNCHANGED streamVars => StreamInv'
    BY DEF streamVars, StreamInv, StreamTypeOK, NumbersInOrder, Accounted, ExpressionsNumbered,
           InQueue, Follows
  <2> QED
    BY <2>1, SubmitStep, GiveUpStep, RollbackStep, ReceiveStep, BroadcastStep, SubscribeStep,
       LagStep, RecvStep DEF StreamNext, StreamWork
<1> QED
  BY <1>1, <1>2, PTL

(* What a subscriber gets comes in the order of the submissions, and it    *)
(* misses what its caller gave up, what is under way, or what OutputCap    *)
(* later events had overwritten.                                           *)
THEOREM Delivery == StreamInit /\ [][StreamNext]_streamVars => []DeliveryOrdered
<1>1. StreamInv => DeliveryOrdered
  <2> SUFFICES ASSUME StreamInv PROVE DeliveryOrdered
    OBVIOUS
  <2>1. ASSUME NEW r \in Subscribers, subs[r].first > 0,
               NEW j \in subs[r].first .. (subs[r].next - 1), sent[j] \notin ToSet(subs[r].got)
        PROVE  Cardinality({m \in ToSet(sent) : m > sent[j]}) >= OutputCap
    <3>1. PICK l \in Nat : l = Len(sent) /\ DOMAIN sent = 1 .. l
      BY StreamShape
    <3>2. j \in 1 .. l /\ j + OutputCap <= l
      BY <2>1, <3>1 DEF StreamInv, Follows, Readers
    <3> DEFINE later == {m \in ToSet(sent) : m > sent[j]}
               f == [i \in j + 1 .. l |-> sent[i]]
    <3>3. \A i \in 1 .. l : sent[i] \in 1 .. numbered /\ numbered \in Nat
      BY <3>1, StreamShape
    <3>4. \A i \in j + 1 .. l : i \in 1 .. l /\ j < i
      BY <3>2
    <3>5. f \in Injection(j + 1 .. l, later)
      <4>1. ASSUME NEW i \in j + 1 .. l PROVE sent[i] \in later
        <5>1. sent[j] < sent[i] /\ sent[i] \in ToSet(sent)
          BY <3>1, <3>2, <3>4 DEF StreamInv, NumbersInOrder, ToSet
        <5> QED
          BY <3>2, <3>3, <3>4, <5>1
      <4>2. ASSUME NEW i \in j + 1 .. l, NEW k \in j + 1 .. l, sent[i] = sent[k] PROVE i = k
        <5>1. i < k => sent[i] < sent[k]
          BY <3>1, <3>4 DEF StreamInv, NumbersInOrder
        <5>2. k < i => sent[k] < sent[i]
          BY <3>1, <3>4 DEF StreamInv, NumbersInOrder
        <5> QED
          BY <3>3, <3>4, <4>2, <5>1, <5>2
      <4> HIDE DEF later
      <4>3. f \in [j + 1 .. l -> later]
        BY <4>1
      <4> QED
        BY <4>2, <4>3 DEF Injection, IsInjective
    <3>6. IsFiniteSet(later)
      <4>1. later \subseteq 1 .. numbered
        BY <3>1, <3>3 DEF ToSet
      <4>2. IsFiniteSet(1 .. numbered)
        <5>1. numbered \in Int /\ 1 \in Int
          BY StreamShape
        <5> QED
          BY <5>1, FS_Interval
      <4> QED
        BY <4>1, <4>2, FS_Subset
    <3> HIDE DEF later, f
    <3>7. Cardinality(j + 1 .. l) <= Cardinality(later) /\ Cardinality(later) \in Nat
      BY <3>5, <3>6, FS_Injection, FS_CardinalityType
    <3>8. Cardinality(j + 1 .. l) = l - j
      <4>1. PICK first \in Int, last \in Int : first = j + 1 /\ last = l
        BY <3>2
      <4>2. Cardinality(first .. last) = IF first > last THEN 0 ELSE last - first + 1
        BY FS_Interval
      <4> QED
        BY <3>2, <4>1, <4>2
    <3>9. Cardinality(later) >= OutputCap
      BY <3>2, <3>7, <3>8, StreamConstants
    <3> QED
      BY <3>9 DEF later
  <2>2. ASSUME NEW r \in Subscribers, subs[r].first > 0
        PROVE  Increasing(subs[r].got) /\ 1 .. numbered = ToSet(sent) \cup dropped \cup InQueue
                                                            \cup ({working.n} \ {0})
    BY <2>2 DEF StreamInv, Follows, Accounted
  <2> QED
    BY <2>1, <2>2 DEF DeliveryOrdered
<1> QED
  BY <1>1, StreamInvariance, PTL

-----------------------------------------------------------------------------
(* The streaming checker.                                                  *)

\* While no two checks of an id have overlapped, at most one runs, the state stored under
\* the id is of the expression it validates, and with none running its verdict is right.
IdSettles(i) ==
    /\ i \in DOMAIN states /\ states[i].status = "InProgress" => Checking(i) # {}
    /\ i \notin mixed =>
          /\ \A t, u \in Checking(i) : t = u
          /\ i \in DOMAIN states =>
                /\ \A t \in Checking(i) : states[i].expr = Head(checks[t].todo).expr
                /\ Checking(i) = {} => states[i].status = Verdict[states[i].expr]

CheckInv ==
    /\ CheckTypeOK
    /\ \A t \in Checkers : checks[t].validating => checks[t].todo # <<>>
    /\ \A i \in ExprIds : IdSettles(i)

\* The first element of a sequence and the others have its type.
LEMMA HeadTail ==
  ASSUME NEW S, NEW s \in Seq(S), s # <<>>
  PROVE  Head(s) \in S /\ Tail(s) \in Seq(S)
  OBVIOUS

(* The invariant of the streaming checker: one check at most of an id no   *)
(* two checks of which have overlapped, and what is stored is of it.       *)
THEOREM CheckInvariance == CheckSpec => []CheckInv
<1>1. CheckInit => CheckInv
  BY DEF CheckInit, CheckInv, CheckTypeOK, IdSettles, Checking, NoMap, NoChecks
<1>2. CheckInv /\ [CheckNext]_checkVars => CheckInv'
  <2> SUFFICES ASSUME CheckInv, [CheckNext]_checkVars PROVE CheckInv'
    OBVIOUS
  <2> USE DEF CheckInv, CheckTypeOK
  <2>1. ASSUME NEW t \in Checkers, CheckBatch(t) PROVE CheckInv'
    <3>1. PICK b \in Seq(Requests) : checks' = [checks EXCEPT ![t].todo = b]
      BY <2>1, CheckerConstants DEF CheckBatch
    <3>2. /\ checks' \in [Checkers -> [todo : Seq(Requests), validating : BOOLEAN]]
          /\ ~ checks[t].validating /\ ~ checks'[t].validating
          /\ \A u \in Checkers \ {t} : checks'[u] = checks[u]
      BY <2>1, <3>1 DEF CheckBatch
    <3>3. \A i : Checking(i)' = Checking(i)
      BY <3>2 DEF Checking
    <3> QED
      BY <2>1, <3>2, <3>3 DEF CheckBatch, IdSettles, Checking
  <2>2. ASSUME NEW t \in Checkers, BeginCheck(t) PROVE CheckInv'
    <3>1. PICK r \in Requests : r = Head(checks[t].todo)
      BY <2>2, HeadTail DEF BeginCheck
    <3>2. PICK s \in ExpressionCheckState : s = [expr |-> r.expr, status |-> "InProgress"]
      BY DEF Requests, ExpressionCheckState, CheckStatus
    <3>3. r.id \in ExprIds /\ r.expr \in Exprs
      BY DEF Requests
    <3>4. /\ checks' \in [Checkers -> [todo : Seq(Requests), validating : BOOLEAN]]
          /\ checks'[t].validating /\ ~ checks[t].validating /\ checks[t].todo # <<>>
          /\ \A u \in Checkers : checks'[u].todo = checks[u].todo
          /\ \A u \in Checkers \ {t} : checks'[u] = checks[u]
      BY <2>2 DEF BeginCheck
    <3>5. /\ states' = Put(states, r.id, s)
          /\ mixed' = IF Checking(r.id) = {} THEN mixed \ {r.id} ELSE mixed \cup {r.id}
      BY <2>2, <3>1, <3>2 DEF BeginCheck
    <3> HIDE DEF CheckInv, CheckTypeOK
    <3>6. \A i : Checking(i)' = IF i = r.id THEN Checking(i) \cup {t} ELSE Checking(i)
      BY <3>1, <3>4 DEF Checking
    <3>7. /\ DOMAIN states' = DOMAIN states \cup {r.id} /\ states'[r.id] = s
          /\ \A i \in DOMAIN states \ {r.id} : states'[i] = states[i]
      BY <3>5 DEF Put
    <3>8. CheckTypeOK' /\ \A u \in Checkers : checks'[u].validating => checks'[u].todo # <<>>
      BY <3>3, <3>4, <3>5, <3>7, ZenonT(30) DEF CheckInv, CheckTypeOK
    <3>9. IdSettles(r.id)'
      <4>1. states'[r.id].expr = r.expr /\ Head(checks'[t].todo) = r
        BY <3>1, <3>2, <3>4, <3>7
      <4>2. t \in Checking(r.id)'
        BY <3>6
      <4>3. r.id \notin mixed' => Checking(r.id)' = {t}
        BY <3>5, <3>6
      <4> QED
        BY <4>1, <4>2, <4>3 DEF IdSettles
    <3>10. ASSUME NEW i \in ExprIds \ {r.id} PROVE IdSettles(i)'
      <4>1. Checking(i)' = Checking(i) /\ IdSettles(i) /\ (i \in mixed' <=> i \in mixed)
        BY <3>5, <3>6 DEF CheckInv
      <4>2. \A u \in Checking(i) : checks'[u] = checks[u]
        BY <3>4 DEF Checking
      <4>3. (i \in DOMAIN states' <=> i \in DOMAIN states) /\ (i \in DOMAIN states => states'[i] = states[i])
        BY <3>7
      <4> QED
        BY <4>1, <4>2, <4>3 DEF IdSettles
    <3> QED
      BY <3>8, <3>9, <3>10 DEF CheckInv
  <2>3. ASSUME NEW t \in Checkers, FinishCheck(t) PROVE CheckInv'
    <3>1. PICK r \in Requests : r = Head(checks[t].todo)
      BY <2>3, HeadTail DEF FinishCheck
    <3>2. r.id \in ExprIds /\ r.expr \in Exprs /\ Verdict[r.expr] \in {"Valid", "Partial"}
      BY CheckerConstants DEF Requests
    <3>3. /\ checks' \in [Checkers -> [todo : Seq(Requests), validating : BOOLEAN]]
          /\ ~ checks'[t].validating /\ checks[t].validating
          /\ \A u \in Checkers \ {t} : checks'[u] = checks[u]
          /\ mixed' = mixed
      BY <2>3, HeadTail DEF FinishCheck
    <3>4. states' = Judged(r)
      BY <2>3, <3>1 DEF FinishCheck
    <3> HIDE DEF CheckInv, CheckTypeOK
    <3>5. \A i : Checking(i)' = Checking(i) \ {t} /\ (t \in Checking(i) <=> i = r.id)
      BY <3>1, <3>3 DEF Checking
    <3>6. /\ DOMAIN states' = DOMAIN states
          /\ r.id \in DOMAIN states => states'[r.id] = [states[r.id] EXCEPT !.status = Verdict[r.expr]]
          /\ \A i \in DOMAIN states \ {r.id} : states'[i] = states[i]
      BY <3>4 DEF Judged, Put
    <3>7. r.id \in DOMAIN states => /\ states'[r.id].status = Verdict[r.expr]
                                    /\ states'[r.id].expr = states[r.id].expr
                                    /\ states'[r.id] \in ExpressionCheckState
      BY <3>2, <3>6 DEF CheckInv, CheckTypeOK, ExpressionCheckState, CheckStatus
    <3>8. CheckTypeOK' /\ \A u \in Checkers : checks'[u].validating => checks'[u].todo # <<>>
      <4>1. \A i \in DOMAIN states' : states'[i] \in ExpressionCheckState
        BY <3>6, <3>7 DEF CheckInv, CheckTypeOK
      <4> QED
        BY <3>3, <3>6, <4>1, ZenonT(30) DEF CheckInv, CheckTypeOK
    <3>9. IdSettles(r.id)'
      <4>1. r.id \notin mixed => Checking(r.id) = {t}
        BY <3>2, <3>5 DEF CheckInv, IdSettles
      <4> QED
        BY <3>1, <3>2, <3>3, <3>5, <3>6, <3>7, <4>1 DEF CheckInv, IdSettles
    <3>10. ASSUME NEW i \in ExprIds \ {r.id} PROVE IdSettles(i)'
      <4>1. Checking(i)' = Checking(i) /\ IdSettles(i)
        BY <3>5 DEF CheckInv
      <4>2. \A u \in Checking(i) : checks'[u] = checks[u]
        BY <3>3, <3>5 DEF Checking
      <4>3. (i \in DOMAIN states' <=> i \in DOMAIN states) /\ (i \in DOMAIN states => states'[i] = states[i])
        BY <3>6
      <4> QED
        BY <3>3, <4>1, <4>2, <4>3 DEF IdSettles
    <3> QED
      BY <3>8, <3>9, <3>10 DEF CheckInv
  <2>4. CASE ClearStates
    BY <2>4 DEF ClearStates, NoMap, IdSettles, Checking
  <2>5. CASE UNCHANGED checkVars
    BY <2>5 DEF checkVars, IdSettles, Checking
  <2> QED
    BY <2>1, <2>2, <2>3, <2>4, <2>5 DEF CheckNext
<1> QED
  BY <1>1, <1>2, PTL DEF CheckSpec

(* A stored state is InProgress only while a check of its id runs, and its *)
(* verdict is that of its own expression unless two checks overlapped.     *)
THEOREM VerdictsSettled == CheckSpec => []VerdictsSettle
<1>1. CheckInv => VerdictsSettle
  BY DEF CheckInv, CheckTypeOK, IdSettles, VerdictsSettle
<1> QED
  BY <1>1, CheckInvariance, PTL

-----------------------------------------------------------------------------
(* The input manager.                                                      *)

EditRecords == [step : {"Read", "Number", "Store"}, path : Paths, text : Texts, whole : BOOLEAN,
                content : Contents, revision : 0 .. MaxRevision]

\* While no two calls on a path have overlapped, at most one is under way, and the files
\* are at the path what the calls one at a time make of it, up to the store to come.
PathAccounted(p) ==
    p \notin raced =>
        /\ \A t, u \in Busy(p) : t = u
        /\ (\A t \in Busy(p) : edits[t].step # "Store") =>
               /\ p \in DOMAIN files <=> p \in DOMAIN ideal
               /\ p \in DOMAIN files => files[p] = ideal[p]
        /\ \A t \in Busy(p) :
               /\ edits[t].step = "Number" /\ ~ edits[t].whole =>
                     /\ p \in DOMAIN files
                     /\ edits[t].content = Changed(files[p].content, edits[t].text)
               /\ edits[t].step = "Store" =>
                     LET stored == SetFile(files, p, edits[t].content, edits[t].revision)
                     IN  p \in DOMAIN ideal /\ stored[p] = ideal[p]

InputInv ==
    /\ InputTypeOK
    /\ \A t \in Threads : edits[t] = NoEdit \/ edits[t] \in EditRecords
    /\ \A p \in Paths : PathAccounted(p)

\* What set_file stores depends on the file at its path alone.
LEMMA SetFileLocal ==
  ASSUME NEW fs, NEW gs, NEW p, NEW content, NEW revision,
         p \in DOMAIN fs <=> p \in DOMAIN gs, p \in DOMAIN fs => fs[p] = gs[p]
  PROVE  SetFile(fs, p, content, revision)[p] = SetFile(gs, p, content, revision)[p]
  BY DEF SetFile, Put, Has

\* A step of t leaves the other paths as they were.
LEMMA OtherPath ==
  ASSUME NEW t \in Threads, NEW p, PathAccounted(p),
         \A u \in Threads \ {t} : edits'[u] = edits[u],
         t \notin Busy(p), t \notin Busy(p)',
         raced' = raced,
         p \in DOMAIN files' <=> p \in DOMAIN files, p \in DOMAIN files => files'[p] = files[p],
         p \in DOMAIN ideal' <=> p \in DOMAIN ideal, p \in DOMAIN ideal => ideal'[p] = ideal[p]
  PROVE  PathAccounted(p)'
<1>1. Busy(p)' = Busy(p) /\ \A u \in Busy(p) : edits'[u] = edits[u]
  BY DEF Busy
<1>2. \A content, revision : SetFile(files', p, content, revision)[p]
                               = SetFile(files, p, content, revision)[p]
  BY SetFileLocal
<1> QED
  BY <1>1, <1>2 DEF PathAccounted

(* The invariant of the input manager: a path no two calls on which have   *)
(* overlapped is what they make of it, up to the store to come.            *)
THEOREM InputInvariance == InputSpec => []InputInv
<1>1. InputInit => InputInv
  BY InputConstants DEF InputInit, InputInv, InputTypeOK, Steps, NoMap, NoEdit, PathAccounted, Busy
<1>2. InputInv /\ [InputNext]_inputVars => InputInv'
  <2> SUFFICES ASSUME InputInv, [InputNext]_inputVars PROVE InputInv'
    OBVIOUS
  <2>1. \A u \in Threads : edits[u].step \in Steps /\ (edits[u].step # "Idle" => edits[u] \in EditRecords)
    BY DEF InputInv, InputTypeOK, NoEdit
  <2>2. ASSUME NEW t \in Threads, NEW p \in Paths, NEW text \in Texts, NEW step \in {"Number", "Read"},
               Begin(t, step, p, text)
        PROVE  InputInv'
    <3> DEFINE e == [step |-> step, path |-> p, text |-> text,
                     whole |-> step = "Number", content |-> <<text>>, revision |-> 0]
    <3>1. e \in EditRecords /\ e.step = step /\ e.path = p /\ e.whole = (step = "Number")
      BY InputConstants DEF EditRecords, Contents
    <3> HIDE DEF e
    <3>2. /\ edits' = [edits EXCEPT ![t] = e] /\ edits[t] = NoEdit
          /\ files' = files /\ ideal' = ideal /\ current_revision' = current_revision
          /\ raced' = IF Busy(p) = {} THEN raced ELSE raced \cup {p}
      BY <2>2 DEF Begin, e
    <3>3. /\ edits'[t] = e /\ \A u \in Threads \ {t} : edits'[u] = edits[u]
          /\ DOMAIN edits' = Threads
      BY <3>2 DEF InputInv, InputTypeOK
    <3>4. InputTypeOK' /\ \A u \in Threads : edits'[u] = NoEdit \/ edits'[u] \in EditRecords
      BY <3>1, <3>2, <3>3 DEF InputInv, InputTypeOK, Steps
    <3>5. \A q : Busy(q)' = IF q = p THEN Busy(q) \cup {t} ELSE Busy(q)
      BY <3>1, <3>2, <3>3 DEF Busy, NoEdit
    <3>6. PathAccounted(p)'
      <4> SUFFICES ASSUME p \notin raced' PROVE PathAccounted(p)'
        BY DEF PathAccounted
      <4>1. Busy(p) = {} /\ Busy(p)' = {t} /\ p \notin raced
        BY <3>2, <3>5
      <4>2. /\ p \in DOMAIN files <=> p \in DOMAIN ideal
            /\ p \in DOMAIN files => files[p] = ideal[p]
        BY <4>1 DEF InputInv, PathAccounted
      <4> QED
        BY <3>1, <3>2, <3>3, <4>1, <4>2 DEF PathAccounted
    <3>7. ASSUME NEW q \in Paths \ {p} PROVE PathAccounted(q)'
      <4>1. Busy(q)' = Busy(q) /\ PathAccounted(q) /\ (q \in raced' <=> q \in raced)
        BY <3>2, <3>5 DEF InputInv
      <4>2. \A u \in Busy(q) : edits'[u] = edits[u]
        BY <3>2, <3>3 DEF Busy, NoEdit
      <4> QED
        BY <3>2, <4>1, <4>2 DEF PathAccounted
    <3> QED
      BY <3>4, <3>6, <3>7 DEF InputInv
  <2>3. ASSUME NEW t \in Threads, ReadContent(t) PROVE InputInv'
    <3>1. PICK e \in EditRecords : e = edits[t]
      BY <2>1, <2>3 DEF ReadContent
    <3>2. PICK p \in Paths : p = e.path
      BY DEF EditRecords
    <3>3. /\ e.step = "Read" /\ files' = files /\ ideal' = ideal /\ raced' = raced
          /\ current_revision' = current_revision /\ DOMAIN edits' = Threads
          /\ edits'[t] = IF p \in DOMAIN files
                         THEN [e EXCEPT !.step = "Number",
                                        !.content = Changed(files[p].content, e.text)]
                         ELSE NoEdit
          /\ \A u \in Threads \ {t} : edits'[u] = edits[u]
      BY <2>3, <3>1, <3>2 DEF ReadContent, Has, InputInv, InputTypeOK
    <3>4. p \in DOMAIN files => /\ edits'[t] \in EditRecords
                                /\ edits'[t].step = "Number" /\ edits'[t].path = p
                                /\ edits'[t].content = Changed(files[p].content, edits'[t].text)
      <4> SUFFICES ASSUME p \in DOMAIN files
                   PROVE  /\ edits'[t] \in EditRecords
                          /\ edits'[t].step = "Number" /\ edits'[t].path = p
                          /\ edits'[t].content = Changed(files[p].content, edits'[t].text)
        OBVIOUS
      <4>1. PICK c \in Contents : c = Changed(files[p].content, e.text)
        <5>1. Changed(files[p].content, e.text) \in Contents
          BY DEF Changed, Contents, InputInv, InputTypeOK, FileStates, EditRecords
        <5> QED
          BY <5>1
      <4>2. PICK v \in EditRecords : v = [e EXCEPT !.step = "Number", !.content = c]
        BY DEF EditRecords
      <4>3. v.step = "Number" /\ v.path = p /\ v.content = c /\ v.text = e.text
        BY <3>2, <4>2 DEF EditRecords
      <4>4. edits'[t] = v
        BY <3>3, <4>1, <4>2
      <4> QED
        BY <4>1, <4>3, <4>4
    <3>5. InputTypeOK' /\ \A u \in Threads : edits'[u] = NoEdit \/ edits'[u] \in EditRecords
      <4>1. edits'[t].step \in Steps
        BY <3>3, <3>4 DEF Steps, NoEdit
      <4> QED
        BY <3>3, <3>4, <4>1 DEF InputInv, InputTypeOK
    <3>6. PathAccounted(p)'
      <4> SUFFICES ASSUME p \notin raced PROVE PathAccounted(p)'
        BY <3>3 DEF PathAccounted
      <4>1. t \in Busy(p) /\ PathAccounted(p)
        BY <3>1, <3>2, <3>3 DEF Busy, InputInv
      <4>2. Busy(p) = {t}
        BY <4>1 DEF PathAccounted
      <4>3. Busy(p)' \subseteq {t} /\ (t \in Busy(p)' => p \in DOMAIN files)
        BY <3>3, <3>4, <4>2 DEF Busy, NoEdit
      <4>4. /\ p \in DOMAIN files <=> p \in DOMAIN ideal
            /\ p \in DOMAIN files => files[p] = ideal[p]
        BY <3>1, <3>3, <4>1, <4>2 DEF PathAccounted
      <4> QED
        BY <3>3, <3>4, <4>3, <4>4 DEF PathAccounted
    <3>7. ASSUME NEW q \in Paths \ {p} PROVE PathAccounted(q)'
      <4>1. t \notin Busy(q)
        BY <3>1, <3>2, <3>3 DEF Busy
      <4>2. edits'[t].step = "Idle" \/ edits'[t].path = p
        BY <3>3, <3>4 DEF NoEdit
      <4>3. t \notin Busy(q)'
        BY <4>2 DEF Busy
      <4> QED
        BY <3>3, <4>1, <4>3, OtherPath DEF InputInv
    <3> QED
      BY <3>5, <3>6, <3>7 DEF InputInv
  <2>4. ASSUME NEW t \in Threads, DrawRevision(t) PROVE InputInv'
    <3>1. PICK e \in EditRecords : e = edits[t]
      BY <2>1, <2>4 DEF DrawRevision
    <3>2. PICK p \in Paths : p = e.path
      BY DEF EditRecords
    <3>3. /\ e.step = "Number" /\ files' = files /\ raced' = raced
          /\ current_revision < MaxRevision /\ current_revision' = current_revision + 1
          /\ DOMAIN edits' = Threads
          /\ edits'[t] = [e EXCEPT !.step = "Store", !.revision = current_revision]
          /\ \A u \in Threads \ {t} : edits'[u] = edits[u]
          /\ ideal' = SetFile(ideal, p, Alone(e), current_revision)
      BY <2>4, <3>1, <3>2 DEF DrawRevision, InputInv, InputTypeOK
    <3>4. current_revision \in 0 .. MaxRevision /\ current_revision' \in 0 .. MaxRevision
      BY <3>3, InputConstants DEF InputInv, InputTypeOK
    <3>5. /\ edits'[t] \in EditRecords /\ edits'[t].step = "Store" /\ edits'[t].path = p
          /\ edits'[t].content = e.content /\ edits'[t].revision = current_revision
      BY <3>2, <3>3, <3>4 DEF EditRecords
    <3>6. /\ DOMAIN ideal' = DOMAIN ideal \cup {p}
          /\ \A q \in DOMAIN ideal \ {p} : ideal'[q] = ideal[q]
      BY <3>3 DEF SetFile, Put, Has
    <3>7. InputTypeOK' /\ \A u \in Threads : edits'[u] = NoEdit \/ edits'[u] \in EditRecords
      <4>1. \A u \in Threads : edits'[u].step \in Steps
        BY <3>3, <3>5 DEF InputInv, InputTypeOK, Steps
      <4> QED
        BY <3>3, <3>4, <3>5, <3>6, <4>1 DEF InputInv, InputTypeOK
    <3>8. PathAccounted(p)'
      <4> SUFFICES ASSUME p \notin raced PROVE PathAccounted(p)'
        BY <3>3 DEF PathAccounted
      <4>1. t \in Busy(p) /\ PathAccounted(p)
        BY <3>1, <3>2, <3>3 DEF Busy, InputInv
      <4>2. Busy(p) = {t}
        BY <4>1 DEF PathAccounted
      <4>3. Busy(p)' = {t}
        BY <3>3, <3>5, <4>2 DEF Busy
      <4>4. /\ p \in DOMAIN files <=> p \in DOMAIN ideal
            /\ p \in DOMAIN files => files[p] = ideal[p]
            /\ ~ e.whole => /\ p \in DOMAIN files
                            /\ e.content = Changed(files[p].content, e.text)
        BY <3>1, <3>3, <4>1, <4>2 DEF PathAccounted
      <4>5. Alone(e) = e.content
        BY <3>2, <4>4 DEF Alone
      <4>6. SetFile(files, p, e.content, current_revision)[p] = ideal'[p]
        BY <3>3, <4>4, <4>5, SetFileLocal
      <4> QED
        BY <3>3, <3>5, <3>6, <4>3, <4>6, ZenonT(30) DEF PathAccounted
    <3>9. ASSUME NEW q \in Paths \ {p} PROVE PathAccounted(q)'
      <4>1. t \notin Busy(q) /\ t \notin Busy(q)'
        BY <3>1, <3>2, <3>3, <3>5 DEF Busy
      <4> QED
        BY <3>3, <3>6, <4>1, OtherPath DEF InputInv
    <3> QED
      BY <3>7, <3>8, <3>9 DEF InputInv
  <2>5. ASSUME NEW t \in Threads, StoreContent(t) PROVE InputInv'
    <3>1. PICK e \in EditRecords : e = edits[t]
      BY <2>1, <2>5 DEF StoreContent
    <3>2. PICK p \in Paths : p = e.path
      BY DEF EditRecords
    <3>3. /\ e.step = "Store" /\ ideal' = ideal /\ raced' = raced
          /\ current_revision' = current_revision /\ DOMAIN edits' = Threads
          /\ edits'[t] = NoEdit
          /\ \A u \in Threads \ {t} : edits'[u] = edits[u]
          /\ files' = SetFile(files, p, e.content, e.revision)
      BY <2>5, <3>1, <3>2 DEF StoreContent, InputInv, InputTypeOK
    <3>4. /\ DOMAIN files' = DOMAIN files \cup {p}
          /\ \A q \in DOMAIN files \ {p} : files'[q] = files[q]
          /\ files'[p] = [content |-> e.content, revision |-> e.revision]
               \/ (p \in DOMAIN files /\ files'[p] = files[p])
      BY <3>3 DEF SetFile, Put, Has
    <3>5. InputTypeOK' /\ \A u \in Threads : edits'[u] = NoEdit \/ edits'[u] \in EditRecords
      <4>1. [content |-> e.content, revision |-> e.revision] \in FileStates
        BY DEF EditRecords, FileStates
      <4>2. \A q \in DOMAIN files' : files'[q] \in FileStates
        BY <3>4, <4>1 DEF InputInv, InputTypeOK
      <4>3. \A u \in Threads : edits'[u].step \in Steps
        BY <3>3 DEF InputInv, InputTypeOK, Steps, NoEdit
      <4> QED
        BY <3>3, <3>4, <4>2, <4>3 DEF InputInv, InputTypeOK
    <3>6. PathAccounted(p)'
      <4> SUFFICES ASSUME p \notin raced PROVE PathAccounted(p)'
        BY <3>3 DEF PathAccounted
      <4>1. t \in Busy(p) /\ PathAccounted(p)
        BY <3>1, <3>2, <3>3 DEF Busy, InputInv
      <4>2. Busy(p) = {t}
        BY <4>1 DEF PathAccounted
      <4>3. Busy(p)' = {}
        BY <3>3, <4>2 DEF Busy, NoEdit
      <4>4. p \in DOMAIN ideal /\ files'[p] = ideal[p]
        BY <3>1, <3>3, <4>1, <4>2 DEF PathAccounted
      <4> QED
        BY <3>3, <3>4, <4>3, <4>4 DEF PathAccounted
    <3>7. ASSUME NEW q \in Paths \ {p} PROVE PathAccounted(q)'
      <4>1. t \notin Busy(q) /\ t \notin Busy(q)'
        BY <3>1, <3>2, <3>3 DEF Busy, NoEdit
      <4> QED
        BY <3>3, <3>4, <4>1, OtherPath DEF InputInv
    <3> QED
      BY <3>5, <3>6, <3>7 DEF InputInv
  <2>6. CASE UNCHANGED inputVars
    <3>1. \A p : PathAccounted(p) => PathAccounted(p)'
      BY <2>6 DEF inputVars, PathAccounted, Busy
    <3> QED
      BY <2>6, <3>1 DEF inputVars, InputInv, InputTypeOK
  <2> QED
    BY <2>2, <2>3, <2>4, <2>5, <2>6 DEF InputNext, BeginSet, BeginChange
<1> QED
  BY <1>1, <1>2, PTL DEF InputSpec

(* Every path has the content and the revision that the calls, made one at *)
(* a time, would have left it, unless two calls on it overlapped.          *)
THEOREM EditsKept == InputSpec => []EditsLostOnlyByRace
<1>1. InputInv => EditsLostOnlyByRace
  BY DEF InputInv, PathAccounted, EditsLostOnlyByRace
<1> QED
  BY <1>1, InputInvariance, PTL

-----------------------------------------------------------------------------
(* The language server.                                                    *)

\* Unless two handlers of the document overlapped, at most one awaits the database, it
\* has the content there is of a document that is open, and with none the editor shows
\* what it should.
UpToDate(u) ==
    u \notin crossed =>
        /\ \A i, j \in Awaiting(u) : i = j
        /\ \A i \in Awaiting(u) : open_documents[u] # 0 /\ handlers[i].content = contents[u]
        /\ Awaiting(u) = {} => shown[u] = IF open_documents[u] = 0 THEN 0 ELSE contents[u]

LspInv ==
    /\ LspTypeOK
    /\ \A u \in Urls : open_documents[u] # 0 => contents[u] # 0
    /\ \A u \in Urls : UpToDate(u)

\* A handler that starts for u, with the content there is.
LEMMA Starting ==
  ASSUME LspInv, NEW u \in Urls, StartDiagnostics(u),
         contents' \in [Urls -> Versions], open_documents' \in [Urls -> Versions],
         contents'[u] # 0, open_documents'[u] # 0,
         \A v \in Urls \ {u} : contents'[v] = contents[v] /\ open_documents'[v] = open_documents[v],
         version' \in Versions
  PROVE  LspInv'
<1>1. PICK h \in [url : Urls, content : Versions \ {0}] : h = [url |-> u, content |-> contents'[u]]
  OBVIOUS
<1>2. /\ handlers \in Seq([url : Urls, content : Versions \ {0}]) /\ Len(handlers) \in Nat
      /\ handlers' = Append(handlers, h) /\ Len(handlers) < MaxHandlers
  BY <1>1 DEF LspInv, LspTypeOK, StartDiagnostics
<1>3. /\ Len(handlers') = Len(handlers) + 1 /\ DOMAIN handlers' = 1 .. Len(handlers) + 1
      /\ \A i \in 1 .. Len(handlers) : handlers'[i] = handlers[i]
      /\ handlers'[Len(handlers) + 1] = h
      /\ handlers' \in Seq([url : Urls, content : Versions \ {0}])
  BY <1>2
<1>4. /\ crossed' = (IF Awaiting(u) = {} THEN crossed \ {u} ELSE crossed \cup {u})
      /\ shown' = shown
  BY DEF StartDiagnostics, Crossed
<1>5. LspTypeOK'
  BY <1>2, <1>3, <1>4, LspConstants DEF LspInv, LspTypeOK
<1>6. \A v \in Urls : Awaiting(v)' = IF v = u THEN Awaiting(v) \cup {Len(handlers) + 1}
                                             ELSE Awaiting(v)
  BY <1>1, <1>2, <1>3 DEF Awaiting
<1>7. UpToDate(u)'
  <2> SUFFICES ASSUME u \notin crossed' PROVE UpToDate(u)'
    BY DEF UpToDate
  <2>1. Awaiting(u)' = {Len(handlers) + 1}
    BY <1>4, <1>6
  <2> QED
    BY <1>1, <1>3, <2>1 DEF UpToDate
<1>8. ASSUME NEW v \in Urls \ {u} PROVE UpToDate(v)'
  <2>1. \A i \in Awaiting(v) : handlers'[i] = handlers[i]
    BY <1>2, <1>3 DEF Awaiting
  <2>2. Awaiting(v)' = Awaiting(v) /\ (v \in crossed' <=> v \in crossed) /\ UpToDate(v)
    BY <1>4, <1>6 DEF LspInv
  <2> QED
    BY <1>4, <2>1, <2>2 DEF UpToDate
<1> QED
  BY <1>5, <1>7, <1>8 DEF LspInv

(* The invariant of the language server: of a document no two handlers of  *)
(* which overlapped, the one waiting has the content there is.             *)
THEOREM LspInvariance == LspSpec => []LspInv
<1>1. LspInit => LspInv
  BY LspConstants DEF LspInit, LspInv, LspTypeOK, Versions, UpToDate, Awaiting
<1>2. LspInv /\ [LspNext]_lspVars => LspInv'
  <2> SUFFICES ASSUME LspInv, [LspNext]_lspVars PROVE LspInv'
    OBVIOUS
  <2>1. ASSUME NEW u \in Urls, version < MaxVersion, version' = version + 1,
               contents' = [contents EXCEPT ![u] = version'],
               open_documents' = [open_documents EXCEPT ![u] = version'],
               StartDiagnostics(u)
        PROVE  LspInv'
    <3>1. version' \in Versions /\ version' # 0
      BY <2>1, LspConstants DEF LspInv, LspTypeOK, Versions
    <3>2. /\ contents' \in [Urls -> Versions] /\ open_documents' \in [Urls -> Versions]
          /\ contents'[u] # 0 /\ open_documents'[u] # 0
          /\ \A v \in Urls \ {u} : contents'[v] = contents[v] /\ open_documents'[v] = open_documents[v]
      BY <2>1, <3>1 DEF LspInv, LspTypeOK
    <3> QED
      BY <2>1, <3>1, <3>2, Starting
  <2>2. ASSUME NEW u \in Urls, DidSave(u) PROVE LspInv'
    <3>1. /\ contents' = contents /\ open_documents' = open_documents /\ version' = version
          /\ open_documents[u] # 0 /\ contents[u] # 0 /\ StartDiagnostics(u)
      BY <2>2 DEF DidSave, LspInv
    <3> QED
      BY <3>1, Starting DEF LspInv, LspTypeOK
  <2>3. ASSUME NEW u \in Urls, DidClose(u) PROVE LspInv'
    <3>1. /\ contents' = contents /\ version' = version /\ handlers' = handlers
          /\ open_documents' = [open_documents EXCEPT ![u] = 0]
          /\ shown' = [shown EXCEPT ![u] = 0]
          /\ crossed' = (IF Awaiting(u) = {} THEN crossed \ {u} ELSE crossed \cup {u})
      BY <2>3 DEF DidClose, Crossed
    <3>2. /\ LspTypeOK' /\ open_documents'[u] = 0 /\ shown'[u] = 0
          /\ \A v \in Urls \ {u} : open_documents'[v] = open_documents[v] /\ shown'[v] = shown[v]
      BY <3>1, LspConstants DEF LspInv, LspTypeOK, Versions
    <3>3. ASSUME NEW v \in Urls PROVE UpToDate(v)'
      <4>1. Awaiting(v)' = Awaiting(v) /\ UpToDate(v)
        BY <3>1 DEF Awaiting, LspInv
      <4> QED
        BY <3>1, <3>2, <4>1 DEF UpToDate
    <3> QED
      BY <3>1, <3>2, <3>3 DEF LspInv
  <2>4. ASSUME NEW i \in DOMAIN handlers, Publish(i) PROVE LspInv'
    <3>1. /\ contents' = contents /\ version' = version /\ crossed' = crossed
          /\ open_documents' = open_documents
          /\ handlers' = SubSeq(handlers, 1, i - 1) \o SubSeq(handlers, i + 1, Len(handlers))
      BY <2>4 DEF Publish
    <3>2. PICK h \in [url : Urls, content : Versions \ {0}] : h = handlers[i]
      <4>1. ASSUME NEW S, NEW s \in Seq(S), NEW j \in DOMAIN s PROVE s[j] \in S
        OBVIOUS
      <4> QED
        BY <2>4, <4>1, ZenonT(30) DEF LspInv, LspTypeOK
    <3>3. /\ handlers \in Seq([url : Urls, content : Versions \ {0}]) /\ Len(handlers) \in Nat
          /\ i \in 1 .. Len(handlers)
          /\ handlers' \in Seq([url : Urls, content : Versions \ {0}])
          /\ Len(handlers') = Len(handlers) - 1
          /\ \A j \in 1 .. Len(handlers) - 1 :
                handlers'[j] = IF j < i THEN handlers[j] ELSE handlers[j + 1]
      <4>1. handlers \in Seq([url : Urls, content : Versions \ {0}])
        BY DEF LspInv, LspTypeOK
      <4>2. /\ handlers' \in Seq([url : Urls, content : Versions \ {0}])
            /\ Len(handlers') = Len(handlers) - 1
            /\ \A j \in 1 .. Len(handlers) - 1 : handlers'[j] = IF j < i THEN handlers[j] ELSE handlers[j + 1]
        <5>1. i \in 1 .. Len(handlers)
          BY <2>4, <4>1
        <5> QED
          BY <3>1, <4>1, <5>1, Removal
      <4> QED
        BY <4>1, <4>2
    <3>4. shown' = [shown EXCEPT ![h.url] = h.content]
      BY <2>4, <3>2 DEF Publish
    <3>5. LspTypeOK'
      BY <3>1, <3>3, <3>4, LspConstants DEF LspInv, LspTypeOK
    <3>6. ASSUME NEW v \in Urls PROVE UpToDate(v)'
      <4> SUFFICES ASSUME v \notin crossed PROVE UpToDate(v)'
        BY <3>1 DEF UpToDate
      <4>1. /\ \A j, k \in Awaiting(v) : j = k
            /\ \A j \in Awaiting(v) : open_documents[v] # 0 /\ handlers[j].content = contents[v]
            /\ Awaiting(v) = {} => shown[v] = IF open_documents[v] = 0 THEN 0 ELSE contents[v]
        BY DEF LspInv, UpToDate
      <4>2. ASSUME NEW j \in Awaiting(v)'
            PROVE  \E k \in Awaiting(v) : k = (IF j < i THEN j ELSE j + 1) /\ k # i /\ handlers[k] = handlers'[j]
        <5>1. j \in 1 .. Len(handlers) - 1 /\ handlers'[j].url = v
          BY <3>3 DEF Awaiting
        <5> QED
          BY <3>3, <5>1 DEF Awaiting
      <4>3. CASE v = h.url
        <5>1. i \in Awaiting(v) /\ shown'[v] = h.content
          BY <3>2, <3>4, <4>3 DEF Awaiting, LspInv, LspTypeOK
        <5>2. Awaiting(v)' = {}
          BY <4>1, <4>2, <5>1
        <5> QED
          BY <3>1, <3>2, <4>1, <5>1, <5>2 DEF UpToDate
      <4>4. CASE v # h.url
        <5>1. shown'[v] = shown[v]
          BY <3>4, <4>4
        <5>2. \A j, k \in Awaiting(v)' : j = k
          BY <3>3, <4>1, <4>2 DEF Awaiting
        <5>3. Awaiting(v)' = {} => Awaiting(v) = {}
          <6> SUFFICES ASSUME NEW k \in Awaiting(v) PROVE Awaiting(v)' # {}
            OBVIOUS
          <6>1. k \in 1 .. Len(handlers) /\ k # i /\ handlers[k].url = v
            BY <3>2, <4>4 DEF Awaiting
          <6>2. CASE k < i
            BY <3>3, <6>1, <6>2 DEF Awaiting
          <6>3. CASE k > i
            <7>1. k - 1 \in 1 .. Len(handlers) - 1 /\ handlers'[k - 1] = handlers[k]
              BY <3>3, <6>1, <6>3
            <7> QED
              BY <3>3, <6>1, <7>1 DEF Awaiting
          <6> QED
            BY <3>3, <6>1, <6>2, <6>3
        <5>4. \A j \in Awaiting(v)' : open_documents[v] # 0 /\ handlers'[j].content = contents[v]
          BY <4>1, <4>2
        <5> QED
          BY <3>1, <4>1, <5>1, <5>2, <5>3, <5>4 DEF UpToDate
      <4> QED
        BY <4>3, <4>4
    <3> QED
      BY <3>1, <3>5, <3>6 DEF LspInv
  <2>5. CASE UNCHANGED lspVars
    <3>1. \A u : UpToDate(u) => UpToDate(u)'
      BY <2>5 DEF lspVars, UpToDate, Awaiting
    <3> QED
      BY <2>5, <3>1 DEF lspVars, LspInv, LspTypeOK
  <2> QED
    BY <2>1, <2>2, <2>3, <2>4, <2>5 DEF LspNext, DidOpen, DidChange
<1> QED
  BY <1>1, <1>2, PTL DEF LspSpec

(* With no handler of a document waiting, the editor shows the diagnostics *)
(* of its content, unless two of its handlers overlapped.                  *)
THEOREM DiagnosticsCurrent == LspSpec => []ShownOutdatedOnlyByOverlap
<1>1. LspInv => ShownOutdatedOnlyByOverlap
  BY DEF LspInv, UpToDate, ShownOutdatedOnlyByOverlap
<1> QED
  BY <1>1, LspInvariance, PTL

-----------------------------------------------------------------------------
(* The workspace index.                                                    *)

IndexingWork == [step : {"Push", "Insert"}, path : Sources, content : SourceTexts,
                 then : {"Export", "Reinsert", "Dirty", "Done"}, rest : SUBSET Sources]
DirtyWork == [step : {"Dirty"}, rest : SUBSET Sources]
LoadWork == [step : {"Load", "Export"}, path : Sources, exports : SUBSET Exported]
FileIndexes == [symbols : SourceTexts, parse : ParseStates]
Loads == [exports : SUBSET Exported, state : LoadStates]

IndexTyped ==
    /\ disk \in [Sources -> SourceTexts \cup {Unreadable}]
    /\ DOMAIN index \subseteq Sources /\ \A p \in DOMAIN index : index[p] \in FileIndexes
    /\ symbol_table \in [Names \X Sources -> Nat]
    /\ dirty_files \subseteq Sources
    /\ DOMAIN package_exports \subseteq Sources
    /\ \A p \in DOMAIN package_exports : package_exports[p] \in SUBSET Exported
    /\ \A p \in DOMAIN loaded : loaded[p] \in Loads
    /\ work \in [Indexers -> IndexingWork \cup DirtyWork \cup LoadWork \cup {NoWork}]
    /\ indexings \in 0 .. MaxIndexings

Working(t) == work[t].step \in {"Push", "Insert"}
Pushers == {t \in Indexers : work[t].step = "Push"}

\* What is about to be inserted has been pushed, and so has what was.
NamesFound ==
    /\ \A t \in Indexers : work[t].step = "Insert" =>
           \A n \in work[t].content : symbol_table[n, work[t].path] > 0
    /\ \A p \in DOMAIN index : \A n \in index[p].symbols : symbol_table[n, p] > 0

RestIsDirty == \A t \in Indexers : Working(t) /\ work[t].then # "Dirty" => work[t].rest = {}

\* A file some thread has yet to read.
Coming(p) == \E t \in Indexers : work[t].step \in {"Push", "Insert", "Dirty"} /\ p \in work[t].rest

\* The file is indexed as it is, or is being so by every thread that indexes it.
Current(p) ==
    p \notin unmarked \cup forgotten \cup dirty_files /\ ~ Coming(p) =>
        /\ \A t \in Indexing(p) : work[t].content = disk[p]
        /\ Indexing(p) = {} => Has(index, p) /\ index[p].symbols = disk[p]

\* Every push is of an indexing of its own.
PushesCounted ==
    \A at \in Names \X Sources : symbol_table[at] + Cardinality(Pushers) <= indexings

IndexInv ==
    /\ IndexTyped /\ NamesFound /\ RestIsDirty /\ PushesCounted
    /\ \A p \in Sources : Current(p)

\* The step of a thread tells which record its work is.
LEMMA WorkKinds ==
  ASSUME IndexTyped, NEW t \in Indexers
  PROVE  /\ Working(t) => work[t] \in IndexingWork
         /\ work[t].step = "Dirty" => work[t] \in DirtyWork
         /\ work[t].step \in {"Load", "Export"} => work[t] \in LoadWork
         /\ work[t] = NoWork => work[t].step = "Idle"
  BY DEF IndexTyped, Working, IndexingWork, DirtyWork, LoadWork, NoWork

\* What a step that has nothing to do with a file leaves of it.
LEMMA CurrentKept ==
  ASSUME NEW p, Current(p),
         p \in unmarked => p \in unmarked', p \in forgotten => p \in forgotten',
         p \in dirty_files => p \in dirty_files' \/ Coming(p)',
         Coming(p) => Coming(p)', disk'[p] = disk[p],
         Indexing(p)' = Indexing(p),
         \A t \in Indexing(p) : work'[t].content = work[t].content,
         Has(index, p) => Has(index', p) /\ index'[p].symbols = index[p].symbols
  PROVE  Current(p)'
  BY DEF Current

\* How the step of one thread changes the number of those that push.
LEMMA PushersCount ==
  ASSUME NEW t \in Indexers, \A u \in Indexers \ {t} : work'[u] = work[u]
  PROVE  /\ Cardinality(Pushers) \in Nat
         /\ work[t].step # "Push" /\ work'[t].step = "Push" =>
               Cardinality(Pushers') = Cardinality(Pushers) + 1
         /\ work[t].step = "Push" /\ work'[t].step # "Push" =>
               Cardinality(Pushers') = Cardinality(Pushers) - 1
         /\ (work[t].step = "Push" <=> work'[t].step = "Push") =>
               Cardinality(Pushers') = Cardinality(Pushers)
<1>1. IsFiniteSet(Pushers) /\ Cardinality(Pushers) \in Nat
  BY IndexConstants, FS_Subset, FS_CardinalityType DEF Pushers
<1>2. CASE work[t].step # "Push" /\ work'[t].step = "Push"
  <2>1. Pushers' = Pushers \cup {t} /\ t \notin Pushers
    BY <1>2 DEF Pushers
  <2> QED
    BY <1>1, <1>2, <2>1, FS_AddElement
<1>3. CASE work[t].step = "Push" /\ work'[t].step # "Push"
  <2>1. Pushers' = Pushers \ {t} /\ t \in Pushers
    BY <1>3 DEF Pushers
  <2> QED
    BY <1>1, <1>3, <2>1, FS_RemoveElement
<1>4. CASE work[t].step = "Push" <=> work'[t].step = "Push"
  <2>1. Pushers' = Pushers
    BY <1>4 DEF Pushers
  <2> QED
    BY <1>1, <1>4, <2>1
<1> QED
  BY <1>1, <1>2, <1>3, <1>4

\* The part of the invariant about the symbol table, when no thread pushes.
LEMMA TableStill ==
  ASSUME IndexInv, symbol_table' = symbol_table, NEW t \in Indexers, DOMAIN work = Indexers,
         \A u \in Indexers \ {t} : work'[u] = work[u],
         work[t].step # "Push",
         \/ indexings' = indexings /\ work'[t].step # "Push"
         \/ indexings' = indexings + 1,
         indexings \in Nat
  PROVE  PushesCounted'
<1>1. /\ Cardinality(Pushers) \in Nat
      /\ work'[t].step = "Push" => Cardinality(Pushers') = Cardinality(Pushers) + 1
      /\ work'[t].step # "Push" => Cardinality(Pushers') = Cardinality(Pushers)
  BY PushersCount
<1>2. \A at \in Names \X Sources : /\ symbol_table[at] \in Nat
                                   /\ symbol_table[at] + Cardinality(Pushers) <= indexings
  BY DEF IndexInv, IndexTyped, PushesCounted
<1> QED
  BY <1>1, <1>2 DEF PushesCounted

\* Steps that leave the threads' work alone.
LEMMA WorkStill ==
  ASSUME IndexInv, work' = work, symbol_table' = symbol_table, indexings' = indexings,
         forgotten' = forgotten, IndexTyped',
         DOMAIN index' = DOMAIN index,
         \A p \in DOMAIN index : index'[p].symbols = index[p].symbols,
         \A p \in Sources : \/ p \in unmarked' \/ p \in dirty_files'
                            \/ /\ p \in unmarked => p \in unmarked'
                               /\ p \in dirty_files => p \in dirty_files'
                               /\ disk'[p] = disk[p]
  PROVE  IndexInv'
<1>1. NamesFound' /\ RestIsDirty' /\ PushesCounted'
  BY DEF IndexInv, NamesFound, RestIsDirty, PushesCounted, Working, Pushers
<1>2. ASSUME NEW p \in Sources PROVE Current(p)'
  <2>1. Current(p)
    BY DEF IndexInv
  <2>2. CASE p \in unmarked' \/ p \in dirty_files'
    BY <2>2 DEF Current
  <2>3. CASE /\ p \in unmarked => p \in unmarked'
             /\ p \in dirty_files => p \in dirty_files'
             /\ disk'[p] = disk[p]
    BY <2>1, <2>3 DEF Current, Coming, Indexing, Has
  <2> QED
    BY <2>2, <2>3
<1> QED
  BY <1>1, <1>2 DEF IndexInv

\* What happens outside the threads: a change, a mark, a parse, a load.
LEMMA OutsideSteps ==
  ASSUME IndexInv,
         \/ Change
         \/ \E p \in Sources : MarkDirty(p) \/ Parse(p) \/ FullyLoad(p)
  PROVE  IndexInv'
<1>1. CASE Change
  <2>1. PICK p \in Sources, c \in SourceTexts \cup {Unreadable} :
           disk' = [disk EXCEPT ![p] = c] /\ unmarked' = unmarked \cup {p}
    BY <1>1 DEF Change
  <2>2. UNCHANGED <<index, symbol_table, dirty_files, package_exports, loaded, work, indexings, forgotten>>
    BY <1>1 DEF Change, Tables, Loader
  <2>3. IndexTyped'
    BY <2>1, <2>2 DEF IndexInv, IndexTyped
  <2>4. \A q \in Sources \ {p} : disk'[q] = disk[q]
    BY <2>1 DEF IndexInv, IndexTyped
  <2> QED
    BY <2>1, <2>2, <2>3, <2>4, WorkStill
<1>2. ASSUME NEW p \in Sources, MarkDirty(p) PROVE IndexInv'
  <2>1. /\ unmarked' = unmarked \ {p} /\ dirty_files' = dirty_files \cup {p}
        /\ UNCHANGED <<disk, index, symbol_table, package_exports, loaded, work, indexings, forgotten>>
    BY <1>2 DEF MarkDirty, Tables, Loader
  <2>2. IndexTyped'
    BY <2>1 DEF IndexInv, IndexTyped
  <2> QED
    BY <2>1, <2>2, WorkStill
<1>3. ASSUME NEW p \in Sources, Parse(p) PROVE IndexInv'
  <2>1. PICK s \in ParseStates : /\ p \in DOMAIN index /\ index' = [index EXCEPT ![p].parse = s]
                                 /\ UNCHANGED <<disk, symbol_table, dirty_files, package_exports,
                                                loaded, work, indexings, forgotten, unmarked>>
    BY <1>3 DEF Parse, ParseStates, Outside, Loader, Has
  <2>2. /\ DOMAIN index' = DOMAIN index
        /\ \A q \in DOMAIN index : /\ index'[q].symbols = index[q].symbols
                                   /\ index'[q] \in FileIndexes
    BY <2>1 DEF IndexInv, IndexTyped, FileIndexes
  <2>3. IndexTyped'
    BY <2>1, <2>2, Zenon DEF IndexInv, IndexTyped
  <2> QED
    BY <2>1, <2>2, <2>3, WorkStill
<1>4. ASSUME NEW p \in Sources, FullyLoad(p) PROVE IndexInv'
  <2>1. /\ p \in DOMAIN loaded /\ loaded' = [loaded EXCEPT ![p].state = "FullyLoaded"]
        /\ UNCHANGED <<disk, index, symbol_table, dirty_files, package_exports, work, indexings,
                       forgotten, unmarked>>
    BY <1>4 DEF FullyLoad, Outside, Tables, Has
  <2>2. \A q \in DOMAIN loaded' : loaded'[q] \in Loads
    BY <2>1 DEF IndexInv, IndexTyped, Loads, LoadStates
  <2>3. IndexTyped'
    BY <2>1, <2>2, Zenon DEF IndexInv, IndexTyped
  <2> QED
    BY <2>1, <2>3, WorkStill
<1> QED
  BY <1>1, <1>2, <1>3, <1>4

\* A thread takes up, or puts down, work that is not an indexing.
LEMMA OtherWork ==
  ASSUME IndexInv, NEW t \in Indexers, NEW w \in DirtyWork \cup LoadWork \cup {NoWork},
         ~ Working(t), work' = [work EXCEPT ![t] = w],
         UNCHANGED <<disk, index, symbol_table, indexings, unmarked>>,
         \/ package_exports' = package_exports
         \/ \E p \in Sources, e \in SUBSET Exported : package_exports' = Put(package_exports, p, e),
         forgotten \subseteq forgotten', dirty_files' \subseteq Sources,
         \A p \in DOMAIN loaded' : loaded'[p] \in Loads,
         \A p \in Sources \ (dirty_files' \cup forgotten') :
             p \in dirty_files \/ (work[t].step = "Dirty" /\ p \in work[t].rest) =>
                 w.step = "Dirty" /\ p \in w.rest
  PROVE  IndexInv'
<1>1. /\ work'[t] = w /\ \A u \in Indexers \ {t} : work'[u] = work[u]
      /\ w.step \notin {"Push", "Insert"}
  BY DEF IndexInv, IndexTyped, DirtyWork, LoadWork, NoWork
<1>2. IndexTyped'
  <2>1. work' \in [Indexers -> IndexingWork \cup DirtyWork \cup LoadWork \cup {NoWork}]
    BY DEF IndexInv, IndexTyped
  <2>2. /\ DOMAIN package_exports' \subseteq Sources
        /\ \A p \in DOMAIN package_exports' : package_exports'[p] \in SUBSET Exported
    BY DEF IndexInv, IndexTyped, Put
  <2> QED
    BY <2>1, <2>2, Zenon DEF IndexInv, IndexTyped
<1>3. NamesFound' /\ RestIsDirty'
  BY <1>1, ZenonT(30) DEF IndexInv, NamesFound, RestIsDirty, Working
<1>4. PushesCounted'
  <2>1. Pushers' = Pushers
    BY <1>1 DEF Pushers, Working
  <2> QED
    BY <2>1 DEF IndexInv, PushesCounted
<1>5. ASSUME NEW p \in Sources PROVE Current(p)'
  <2>1. Indexing(p)' = Indexing(p) /\ \A u \in Indexing(p) : work'[u] = work[u]
    BY <1>1 DEF Indexing, Working
  <2>2. CASE p \in dirty_files' \cup forgotten'
    BY <2>2 DEF Current
  <2>3. CASE p \notin dirty_files' \cup forgotten'
    <3>1. p \in dirty_files => Coming(p)'
      BY <1>1, <2>3 DEF Coming
    <3>2. Coming(p) => Coming(p)'
      <4> SUFFICES ASSUME NEW u \in Indexers, work[u].step \in {"Push", "Insert", "Dirty"}, p \in work[u].rest
                   PROVE  Coming(p)'
        BY DEF Coming
      <4>1. CASE u = t
        BY <1>1, <2>3, <4>1 DEF Coming, Working
      <4>2. CASE u # t
        BY <1>1, <4>2 DEF Coming
      <4> QED
        BY <4>1, <4>2
    <3>3. Current(p)
      BY DEF IndexInv
    <3> QED
      BY <2>1, <3>1, <3>2, <3>3, CurrentKept
  <2> QED
    BY <2>2, <2>3
<1> QED
  BY <1>2, <1>3, <1>4, <1>5 DEF IndexInv

\* A thread that has read the file p sets about indexing it.
LEMMA IndexingStarts ==
  ASSUME IndexInv, NEW t \in Indexers, NEW p \in Sources, disk[p] # Unreadable,
         NEW then \in {"Export", "Reinsert", "Dirty"}, NEW rest \in SUBSET Sources,
         ~ Working(t), indexings < MaxIndexings, indexings' = indexings + 1,
         StartIndexing(t, p, disk[p], then, rest),
         forgotten' = IF Indexing(p) = {} THEN forgotten ELSE forgotten \cup {p},
         UNCHANGED <<disk, index, symbol_table, package_exports, dirty_files, loaded, unmarked>>,
         work[t].step = "Dirty" => work[t].rest \subseteq rest \cup {p},
         then # "Dirty" => rest = {}
  PROVE  IndexInv'
<1>1. PICK content \in SourceTexts : content = disk[p]
  BY DEF IndexInv, IndexTyped
<1>2. PICK w \in IndexingWork :
         w = [step |-> "Push", path |-> p, content |-> content, then |-> then, rest |-> rest]
  BY DEF IndexingWork
<1>3. w.step = "Push" /\ w.path = p /\ w.content = content /\ w.then = then /\ w.rest = rest
  BY <1>2
<1>4. work' = [work EXCEPT ![t] = w]
  BY <1>1, <1>2 DEF StartIndexing
<1>5. /\ work'[t] = w /\ \A u \in Indexers \ {t} : work'[u] = work[u]
      /\ work' \in [Indexers -> IndexingWork \cup DirtyWork \cup LoadWork \cup {NoWork}]
      /\ DOMAIN work = Indexers /\ indexings \in Nat /\ indexings' \in 0 .. MaxIndexings
  BY <1>4, IndexConstants DEF IndexInv, IndexTyped
<1>6. IndexTyped'
  BY <1>5, Zenon DEF IndexInv, IndexTyped
<1>7. NamesFound' /\ RestIsDirty'
  BY <1>3, <1>5 DEF IndexInv, NamesFound, RestIsDirty, Working
<1>8. PushesCounted'
  BY <1>5, TableStill DEF Working
<1>9. \A q : Indexing(q)' = IF q = p THEN Indexing(q) \cup {t} ELSE Indexing(q)
  BY <1>3, <1>5 DEF Indexing, Working
<1>10. Current(p)'
  <2> SUFFICES ASSUME p \notin forgotten' PROVE Current(p)'
    BY DEF Current
  <2>1. Indexing(p)' = {t}
    BY <1>9
  <2> QED
    BY <1>1, <1>3, <1>5, <2>1 DEF Current
<1>11. ASSUME NEW q \in Sources \ {p} PROVE Current(q)'
  <2>1. t \notin Indexing(q) /\ \A u \in Indexing(q) : u \in Indexers
    BY DEF Indexing, Working
  <2>2. Coming(q) => Coming(q)'
    <3> SUFFICES ASSUME NEW u \in Indexers, work[u].step \in {"Push", "Insert", "Dirty"}, q \in work[u].rest
                 PROVE  Coming(q)'
      BY DEF Coming
    <3>1. CASE u = t
      BY <1>3, <1>5, <3>1 DEF Coming, Working
    <3>2. CASE u # t
      BY <1>5, <3>2 DEF Coming
    <3> QED
      BY <3>1, <3>2
  <2>3. Current(q)
    BY DEF IndexInv
  <2>4. Indexing(q)' = Indexing(q) /\ \A u \in Indexing(q) : work'[u].content = work[u].content
    BY <1>5, <1>9, <2>1
  <2> QED
    BY <2>2, <2>3, <2>4, CurrentKept
<1> QED
  BY <1>6, <1>7, <1>8, <1>10, <1>11 DEF IndexInv

\* A push finds the names of its content, and is counted no more.
LEMMA PushStep == ASSUME IndexInv, NEW t \in Indexers, Push(t) PROVE IndexInv'
<1>1. work[t].step = "Push" /\ work[t] \in IndexingWork
  BY WorkKinds DEF IndexInv, Push, Working
<1>2. PICK w \in IndexingWork : w = work[t] /\ w.step = "Push"
  BY <1>1
<1>3. PICK v \in IndexingWork : v = [w EXCEPT !.step = "Insert"]
  BY DEF IndexingWork
<1>4. /\ v.step = "Insert" /\ v.path = w.path /\ v.content = w.content /\ v.then = w.then /\ v.rest = w.rest
      /\ w.path \in Sources /\ w.content \in SourceTexts
  BY <1>3 DEF IndexingWork
<1>5. /\ work' = [work EXCEPT ![t] = v]
      /\ UNCHANGED <<disk, index, dirty_files, package_exports, loaded, indexings, forgotten, unmarked>>
      /\ symbol_table' = [at \in Names \X Sources |->
               symbol_table[at] + IF at[1] \in w.content /\ at[2] = w.path THEN 1 ELSE 0]
  BY <1>2, <1>3 DEF Push, Outside, Loader
<1>6. /\ work'[t] = v /\ \A u \in Indexers \ {t} : work'[u] = work[u]
      /\ work' \in [Indexers -> IndexingWork \cup DirtyWork \cup LoadWork \cup {NoWork}]
      /\ DOMAIN work = Indexers /\ indexings \in Nat
  BY <1>5 DEF IndexInv, IndexTyped
<1>7. \A at \in Names \X Sources : symbol_table[at] \in Nat
  BY DEF IndexInv, IndexTyped
<1>8. /\ \A at \in Names \X Sources : /\ symbol_table'[at] \in Nat
                                      /\ symbol_table'[at] >= symbol_table[at]
                                      /\ symbol_table'[at] <= symbol_table[at] + 1
      /\ \A n \in w.content : symbol_table'[n, w.path] > 0
  <2>1. ASSUME NEW at \in Names \X Sources
        PROVE  /\ symbol_table'[at] \in Nat
               /\ symbol_table'[at] >= symbol_table[at]
               /\ symbol_table'[at] <= symbol_table[at] + 1
    BY <1>5, <1>7
  <2>2. ASSUME NEW n \in w.content PROVE symbol_table'[n, w.path] > 0
    <3>1. <<n, w.path>> \in Names \X Sources
      BY <1>4 DEF Names
    <3>2. PICK at \in Names \X Sources : at = <<n, w.path>>
      BY <3>1
    <3>3. at[1] = n /\ at[2] = w.path
      BY <3>2
    <3>4. symbol_table'[at] = symbol_table[at] + 1
      BY <1>5, <3>3
    <3>5. symbol_table'[at] > 0
      BY <1>7, <3>4
    <3> QED
      BY <3>2, <3>5
  <2> QED
    BY <2>1, <2>2
<1>9. IndexTyped'
  <2>1. symbol_table' \in [Names \X Sources -> Nat]
    BY <1>5, <1>8
  <2> QED
    BY <1>5, <1>6, <2>1, Zenon DEF IndexInv, IndexTyped
<1>10. NamesFound'
  <2>1. ASSUME NEW c \in SourceTexts, NEW n \in c, NEW p \in Sources, symbol_table[n, p] > 0
        PROVE  symbol_table'[n, p] > 0
    <3>1. PICK at \in Names \X Sources : at = <<n, p>>
      BY DEF Names
    <3>2. symbol_table[at] > 0
      BY <2>1, <3>1
    <3>3. PICK pushed \in Nat, pushed2 \in Nat :
             pushed = symbol_table[at] /\ pushed2 = symbol_table'[at] /\ pushed2 >= pushed
      BY <1>7, <1>8, <3>1
    <3>4. symbol_table'[at] > 0
      BY <3>2, <3>3
    <3> QED
      BY <3>1, <3>4
  <2>2. ASSUME NEW u \in Indexers, work'[u].step = "Insert", NEW n \in work'[u].content
        PROVE  symbol_table'[n, work'[u].path] > 0
    <3>1. CASE u = t
      BY <1>4, <1>6, <1>8, <2>2, <3>1
    <3>2. CASE u # t
      <4>1. work'[u] = work[u] /\ work[u] \in IndexingWork
        BY <1>6, <2>2, <3>2, WorkKinds DEF IndexInv, Working
      <4>2. work[u].content \in SourceTexts /\ work[u].path \in Sources
        BY <4>1 DEF IndexingWork
      <4>3. symbol_table[n, work[u].path] > 0
        BY <2>2, <4>1 DEF IndexInv, NamesFound
      <4> QED
        BY <2>1, <2>2, <4>1, <4>2, <4>3
    <3> QED
      BY <3>1, <3>2
  <2>3. ASSUME NEW p \in DOMAIN index, NEW n \in index[p].symbols PROVE symbol_table'[n, p] > 0
    <3>1. p \in Sources /\ index[p].symbols \in SourceTexts /\ symbol_table[n, p] > 0
      BY DEF IndexInv, IndexTyped, FileIndexes, NamesFound
    <3> QED
      BY <2>1, <3>1
  <2> QED
    BY <1>5, <2>2, <2>3 DEF NamesFound
<1>11. RestIsDirty'
  BY <1>2, <1>4, <1>6 DEF IndexInv, RestIsDirty, Working
<1>12. PushesCounted'
  <2>1. Cardinality(Pushers) \in Nat /\ Cardinality(Pushers') = Cardinality(Pushers) - 1
    BY <1>2, <1>4, <1>6, PushersCount
  <2>2. ASSUME NEW at \in Names \X Sources
        PROVE  symbol_table'[at] + Cardinality(Pushers') <= indexings
    <3>1. symbol_table[at] + Cardinality(Pushers) <= indexings
      BY DEF IndexInv, PushesCounted
    <3>2. PICK pushed \in Nat, pushed2 \in Nat, count \in Nat, k \in Nat :
             /\ pushed = symbol_table[at] /\ pushed2 = symbol_table'[at]
             /\ count = Cardinality(Pushers) /\ k = indexings
      BY <1>6, <1>7, <1>8, <2>1
    <3>3. Cardinality(Pushers') = count - 1 /\ pushed2 <= pushed + 1 /\ pushed + count <= k
      BY <1>8, <2>1, <3>1, <3>2
    <3>4. pushed2 + (count - 1) <= k
      BY <3>3
    <3> QED
      BY <3>2, <3>3, <3>4
  <2> QED
    BY <1>5, <2>2 DEF PushesCounted
<1>13. ASSUME NEW p \in Sources PROVE Current(p)'
  <2>1. /\ Indexing(p)' = Indexing(p) /\ (Coming(p) => Coming(p)')
        /\ \A u \in Indexing(p) : work'[u].content = work[u].content
    BY <1>2, <1>4, <1>6 DEF Indexing, Coming
  <2>2. Current(p)
    BY DEF IndexInv
  <2> QED
    BY <1>5, <2>1, <2>2, CurrentKept
<1> QED
  BY <1>9, <1>10, <1>11, <1>12, <1>13 DEF IndexInv

\* An insert is of what was pushed, and the one under way if there is one alone.
LEMMA InsertStep == ASSUME IndexInv, NEW t \in Indexers, Insert(t) PROVE IndexInv'
<1>1. work[t].step = "Insert" /\ work[t] \in IndexingWork
  BY WorkKinds DEF IndexInv, Insert, Working
<1>2. PICK w \in IndexingWork : w = work[t] /\ w.step = "Insert"
  BY <1>1
<1>3. PICK p \in Sources : p = w.path
  BY DEF IndexingWork
<1>4. PICK entry \in FileIndexes : entry = [symbols |-> w.content, parse |-> "Indexed"]
  BY DEF IndexingWork, FileIndexes, ParseStates
<1>5. entry.symbols = w.content
  BY <1>4
<1>6. /\ index' = Put(index, p, entry)
      /\ UNCHANGED <<disk, symbol_table, dirty_files, package_exports, loaded, indexings,
                     forgotten, unmarked>>
  BY <1>2, <1>3, <1>4 DEF Insert, Outside, Loader
<1>7. PICK v \in IndexingWork \cup DirtyWork \cup LoadWork \cup {NoWork} :
         /\ work' = [work EXCEPT ![t] = v]
         /\ \/ v \in IndexingWork /\ v = [w EXCEPT !.then = "Done"] /\ w.then = "Reinsert"
            \/ v \in DirtyWork /\ v = [step |-> "Dirty", rest |-> w.rest]
            \/ v \in LoadWork /\ v.step = "Export" /\ w.then # "Dirty"
            \/ v = NoWork /\ w.then # "Dirty"
  <2>1. CASE w.then = "Reinsert"
    <3>1. PICK v \in IndexingWork : v = [w EXCEPT !.then = "Done"]
      BY DEF IndexingWork
    <3>2. work' = [work EXCEPT ![t] = v]
      BY <1>2, <2>1, <3>1 DEF Insert
    <3> QED
      BY <2>1, <3>1, <3>2, Zenon
  <2>2. CASE w.then = "Dirty"
    <3>1. PICK v \in DirtyWork : v = [step |-> "Dirty", rest |-> w.rest]
      BY DEF IndexingWork, DirtyWork
    <3>2. work' = [work EXCEPT ![t] = v]
      BY <1>2, <2>2, <3>1 DEF Insert
    <3> QED
      BY <3>1, <3>2, Zenon
  <2>3. CASE w.then = "Export"
    <3>1. PICK v \in LoadWork : v = [step |-> "Export", path |-> w.path,
                                     exports |-> w.content \cap Exported]
      BY DEF IndexingWork, LoadWork
    <3>2. work' = [work EXCEPT ![t] = v] /\ v.step = "Export" /\ w.then # "Dirty"
      BY <1>2, <2>3, <3>1 DEF Insert
    <3> QED
      BY <3>1, <3>2, Zenon
  <2>4. CASE w.then \notin {"Reinsert", "Dirty", "Export"}
    <3>1. work' = [work EXCEPT ![t] = NoWork] /\ w.then # "Dirty"
      BY <1>2, <2>4 DEF Insert
    <3> QED
      BY <3>1, Zenon
  <2> QED
    BY <2>1, <2>2, <2>3, <2>4
<1>8. /\ work'[t] = v /\ \A u \in Indexers \ {t} : work'[u] = work[u]
      /\ work' \in [Indexers -> IndexingWork \cup DirtyWork \cup LoadWork \cup {NoWork}]
      /\ DOMAIN work = Indexers /\ indexings \in Nat
  BY <1>7 DEF IndexInv, IndexTyped
<1>9. /\ DOMAIN index' = DOMAIN index \cup {p} /\ index'[p] = entry
      /\ \A q \in DOMAIN index \ {p} : index'[q] = index[q]
  BY <1>6 DEF Put
\* The thread goes on with the second insert of p, or is done with it.
<1>10. \/ /\ v.step = "Insert" /\ v.path = p /\ v.content = w.content
          /\ v.rest = w.rest /\ v.then = "Done" /\ w.then = "Reinsert"
       \/ v.step = "Dirty" /\ v.rest = w.rest
       \/ v.step \in {"Idle", "Export"} /\ w.then # "Dirty"
  BY <1>2, <1>3, <1>7 DEF IndexingWork, DirtyWork, NoWork
<1>11. w.then # "Dirty" => w.rest = {}
  BY <1>2 DEF IndexInv, RestIsDirty, Working
<1>12. IndexTyped'
  <2>1. DOMAIN index' \subseteq Sources /\ \A q \in DOMAIN index' : index'[q] \in FileIndexes
    BY <1>9 DEF IndexInv, IndexTyped
  <2> QED
    BY <1>6, <1>8, <2>1, Zenon DEF IndexInv, IndexTyped
<1>13. NamesFound'
  <2>1. \A n \in w.content : symbol_table[n, p] > 0
    BY <1>2, <1>3 DEF IndexInv, NamesFound
  <2>2. ASSUME NEW u \in Indexers, work'[u].step = "Insert", NEW n \in work'[u].content
        PROVE  symbol_table[n, work'[u].path] > 0
    <3>1. CASE u = t
      BY <1>8, <1>10, <2>1, <2>2, <3>1
    <3>2. CASE u # t
      BY <1>8, <2>2, <3>2 DEF IndexInv, NamesFound
    <3> QED
      BY <3>1, <3>2
  <2>3. ASSUME NEW q \in DOMAIN index', NEW n \in index'[q].symbols PROVE symbol_table[n, q] > 0
    <3>1. CASE q = p
      BY <1>5, <1>9, <2>1, <3>1
    <3>2. CASE q # p
      BY <1>9, <3>2 DEF IndexInv, NamesFound
    <3> QED
      BY <3>1, <3>2
  <2> QED
    BY <1>6, <2>2, <2>3 DEF NamesFound
<1>14. RestIsDirty'
  BY <1>8, <1>10, <1>11 DEF IndexInv, RestIsDirty, Working
<1>15. PushesCounted'
  <2>1. v.step # "Push"
    BY <1>10
  <2> QED
    BY <1>2, <1>6, <1>8, <2>1, TableStill
<1>16. ASSUME NEW q PROVE Coming(q) => Coming(q)'
  <2> SUFFICES ASSUME NEW u \in Indexers, work[u].step \in {"Push", "Insert", "Dirty"}, q \in work[u].rest
               PROVE  Coming(q)'
    BY DEF Coming
  <2>1. CASE u = t
    BY <1>2, <1>8, <1>10, <1>11, <2>1 DEF Coming
  <2>2. CASE u # t
    BY <1>8, <2>2 DEF Coming
  <2> QED
    BY <2>1, <2>2
<1>17. Current(p)'
  <2> SUFFICES ASSUME p \notin unmarked \cup forgotten \cup dirty_files, ~ Coming(p)'
               PROVE  Current(p)'
    BY <1>6 DEF Current
  <2>1. \A u \in Indexing(p) : work[u].content = disk[p]
    BY <1>16 DEF IndexInv, Current
  <2>2. t \in Indexing(p)
    BY <1>2, <1>3 DEF Indexing
  <2>3. w.content = disk[p]
    BY <1>2, <2>1, <2>2
  <2>4. \A u \in Indexing(p)' : work'[u].content = disk[p]
    <3> SUFFICES ASSUME NEW u \in Indexing(p)' PROVE work'[u].content = disk[p]
      OBVIOUS
    <3>1. CASE u = t
      BY <1>8, <1>10, <2>3, <3>1 DEF Indexing
    <3>2. CASE u # t
      BY <1>8, <2>1, <3>2 DEF Indexing
    <3> QED
      BY <3>1, <3>2
  <2>5. Has(index', p) /\ index'[p].symbols = disk[p]
    BY <1>5, <1>9, <2>3 DEF Has
  <2> QED
    BY <1>6, <2>4, <2>5 DEF Current
<1>18. ASSUME NEW q \in Sources \ {p} PROVE Current(q)'
  <2>1. Indexing(q)' = Indexing(q) /\ \A u \in Indexing(q) : work'[u].content = work[u].content
    BY <1>2, <1>3, <1>8, <1>10 DEF Indexing
  <2>2. Has(index, q) => Has(index', q) /\ index'[q].symbols = index[q].symbols
    BY <1>9 DEF Has
  <2>3. Current(q)
    BY DEF IndexInv
  <2> QED
    BY <1>6, <1>16, <2>1, <2>2, <2>3, CurrentKept
<1> QED
  BY <1>12, <1>13, <1>14, <1>15, <1>17, <1>18 DEF IndexInv

\* What threads do with the marks and the packages, and the start of an indexing.
LEMMA DirtySteps ==
  ASSUME IndexInv, NEW t \in Indexers,
         \/ IndexCall(t) \/ Drain(t) \/ ReadDirty(t) \/ Drained(t)
         \/ StoreExports(t) \/ CopyExports(t) \/ StoreLoaded(t)
  PROVE  IndexInv'
<1>1. /\ work[t] = NoWork => work[t].step = "Idle"
      /\ work[t].step = "Dirty" => work[t] \in DirtyWork /\ work[t].rest \subseteq Sources
      /\ work[t].step \in {"Load", "Export"} => /\ work[t].path \in Sources
                                                /\ work[t].exports \in SUBSET Exported
  BY WorkKinds DEF IndexInv, DirtyWork, LoadWork
<1>2. CASE IndexCall(t)
  <2>1. PICK p \in Sources, then \in {"Export", "Reinsert"} :
          /\ disk[p] # Unreadable
          /\ StartIndexing(t, p, disk[p], then, {})
          /\ forgotten' = IF Indexing(p) = {} THEN forgotten ELSE forgotten \cup {p}
    BY <1>2 DEF IndexCall
  <2>2. /\ work[t].step = "Idle" /\ indexings < MaxIndexings /\ indexings' = indexings + 1
        /\ UNCHANGED <<disk, index, symbol_table, package_exports, dirty_files, loaded, unmarked>>
    BY <1>1, <1>2 DEF IndexCall, Outside, Tables, Loader
  <2>3. then # "Dirty" /\ {} \in SUBSET Sources /\ then \in {"Export", "Reinsert", "Dirty"}
    OBVIOUS
  <2> QED
    BY <2>1, <2>2, <2>3, IndexingStarts DEF Working
<1>3. CASE Drain(t)
  <2>1. PICK w \in DirtyWork : w = [step |-> "Dirty", rest |-> dirty_files]
    BY DEF IndexInv, IndexTyped, DirtyWork
  <2>2. /\ w.step = "Dirty" /\ w.rest = dirty_files /\ work' = [work EXCEPT ![t] = w]
        /\ work[t].step = "Idle" /\ dirty_files' = {}
        /\ UNCHANGED <<disk, index, symbol_table, package_exports, loaded, indexings, unmarked, forgotten>>
    BY <1>1, <1>3, <2>1 DEF Drain, Outside, Tables, Loader
  <2>3. \A p \in DOMAIN loaded' : loaded'[p] \in Loads
    BY <2>2 DEF IndexInv, IndexTyped
  <2> QED
    BY <2>2, <2>3, OtherWork DEF Working
<1>4. CASE ReadDirty(t)
  <2>1. PICK p \in work[t].rest :
          LET rest == work[t].rest \ {p}
          IN  IF disk[p] = Unreadable
              THEN /\ work' = [work EXCEPT ![t].rest = rest]
                   /\ forgotten' = forgotten \cup {p}
                   /\ UNCHANGED indexings
              ELSE /\ StartIndexing(t, p, disk[p], "Dirty", rest)
                   /\ forgotten' = IF Indexing(p) = {} THEN forgotten ELSE forgotten \cup {p}
                   /\ indexings' = indexings + 1
    BY <1>4 DEF ReadDirty
  <2>2. /\ work[t].step = "Dirty" /\ work[t] \in DirtyWork /\ work[t].rest \subseteq Sources
        /\ indexings < MaxIndexings
        /\ UNCHANGED <<disk, index, symbol_table, package_exports, dirty_files, loaded, unmarked>>
    BY <1>1, <1>4 DEF ReadDirty, Outside, Tables, Loader
  <2>3. p \in Sources
    BY <2>2
  <2>4. CASE disk[p] = Unreadable
    <3>1. PICK w \in DirtyWork : w = [work[t] EXCEPT !.rest = work[t].rest \ {p}]
      BY <2>2 DEF DirtyWork
    <3>2. w.step = "Dirty" /\ w.rest = work[t].rest \ {p}
      BY <2>2, <3>1 DEF DirtyWork
    <3>3. work' = [work EXCEPT ![t] = w] /\ forgotten' = forgotten \cup {p} /\ indexings' = indexings
      BY <2>1, <2>4, <3>1
    <3>4. dirty_files' \subseteq Sources /\ \A q \in DOMAIN loaded' : loaded'[q] \in Loads
      BY <2>2 DEF IndexInv, IndexTyped
    <3> QED
      BY <2>2, <3>2, <3>3, <3>4, OtherWork DEF Working
  <2>5. CASE disk[p] # Unreadable
    <3>1. PICK rest \in SUBSET Sources : rest = work[t].rest \ {p}
      BY <2>2
    <3>2. /\ StartIndexing(t, p, disk[p], "Dirty", rest)
          /\ forgotten' = IF Indexing(p) = {} THEN forgotten ELSE forgotten \cup {p}
          /\ indexings' = indexings + 1
      BY <2>1, <2>5, <3>1
    <3> QED
      BY <2>2, <2>3, <2>5, <3>1, <3>2, IndexingStarts DEF Working
  <2> QED
    BY <2>4, <2>5
<1>5. CASE Drained(t)
  <2>1. /\ work[t].step = "Dirty" /\ work[t].rest = {} /\ work' = [work EXCEPT ![t] = NoWork]
        /\ UNCHANGED <<disk, index, symbol_table, package_exports, loaded, indexings, unmarked, forgotten, dirty_files>>
    BY <1>5 DEF Drained, Outside, Tables, Loader
  <2>2. dirty_files' \subseteq Sources /\ \A p \in DOMAIN loaded' : loaded'[p] \in Loads
    BY <2>1 DEF IndexInv, IndexTyped
  <2> QED
    BY <2>1, <2>2, OtherWork DEF Working
<1>6. CASE CopyExports(t)
  <2>1. PICK p \in DOMAIN package_exports :
           work' = [work EXCEPT ![t] = [step |-> "Load", path |-> p, exports |-> package_exports[p]]]
    BY <1>6 DEF CopyExports
  <2>2. PICK w \in LoadWork : w = [step |-> "Load", path |-> p, exports |-> package_exports[p]]
    BY DEF IndexInv, IndexTyped, LoadWork
  <2>3. /\ work[t].step = "Idle" /\ work' = [work EXCEPT ![t] = w]
        /\ UNCHANGED <<disk, index, symbol_table, package_exports, loaded, indexings, unmarked, forgotten, dirty_files>>
    BY <1>1, <1>6, <2>1, <2>2 DEF CopyExports, Outside, Tables, Loader
  <2>4. dirty_files' \subseteq Sources /\ \A q \in DOMAIN loaded' : loaded'[q] \in Loads
    BY <2>3 DEF IndexInv, IndexTyped
  <2> QED
    BY <2>3, <2>4, OtherWork DEF Working
<1>7. CASE StoreLoaded(t)
  <2>1. /\ work[t].step = "Load" /\ work' = [work EXCEPT ![t] = NoWork]
        /\ loaded' = Put(loaded, work[t].path, [exports |-> work[t].exports, state |-> "ExportsLoaded"])
        /\ UNCHANGED <<disk, index, symbol_table, package_exports, indexings, unmarked, forgotten, dirty_files>>
    BY <1>7 DEF StoreLoaded, Outside, Tables
  <2>2. PICK l \in Loads : l = [exports |-> work[t].exports, state |-> "ExportsLoaded"]
    BY <1>1, <2>1 DEF Loads, LoadStates
  <2>3. dirty_files' \subseteq Sources /\ \A q \in DOMAIN loaded' : loaded'[q] \in Loads
    BY <2>1, <2>2 DEF IndexInv, IndexTyped, Put
  <2> QED
    BY <2>1, <2>3, OtherWork DEF Working
<1>8. CASE StoreExports(t)
  <2>1. /\ work[t].step = "Export" /\ work' = [work EXCEPT ![t] = NoWork]
        /\ package_exports' = Put(package_exports, work[t].path, work[t].exports)
        /\ UNCHANGED <<disk, index, symbol_table, loaded, indexings, unmarked, forgotten, dirty_files>>
    BY <1>8 DEF StoreExports, Outside, Tables
  <2>2. dirty_files' \subseteq Sources /\ \A p \in DOMAIN loaded' : loaded'[p] \in Loads
    BY <2>1 DEF IndexInv, IndexTyped
  <2>3. \E p \in Sources, e \in SUBSET Exported : package_exports' = Put(package_exports, p, e)
    BY <1>1, <2>1
  <2> QED
    BY <2>1, <2>2, <2>3, OtherWork DEF Working
<1> QED
  BY <1>2, <1>3, <1>4, <1>5, <1>6, <1>7, <1>8

(* The invariant of the workspace index: a file that is not marked is      *)
(* indexed as it is, or is being so by every thread that indexes it.       *)
THEOREM IndexInvariance == IndexSpec => []IndexInv
<1>1. IndexInit => IndexInv
  <2> SUFFICES ASSUME IndexInit PROVE IndexInv
    OBVIOUS
  <2>1. IndexTyped
    BY IndexConstants DEF IndexInit, IndexTyped, NoMap
  <2>2. \A t \in Indexers : work[t].step = "Idle"
    BY DEF IndexInit, NoWork
  <2>3. NamesFound /\ RestIsDirty
    BY <2>2 DEF IndexInit, NamesFound, RestIsDirty, Working, NoMap
  <2>4. PushesCounted
    <3>1. Pushers = {}
      BY <2>2 DEF Pushers
    <3>2. Cardinality(Pushers) = 0
      BY <3>1, FS_EmptySet
    <3> QED
      BY <3>2 DEF IndexInit, PushesCounted
  <2>5. \A p \in Sources : Current(p)
    BY DEF IndexInit, Current
  <2> QED
    BY <2>1, <2>3, <2>4, <2>5 DEF IndexInv
<1>2. IndexInv /\ [IndexNext]_indexVars => IndexInv'
  <2> SUFFICES ASSUME IndexInv, [IndexNext]_indexVars PROVE IndexInv'
    OBVIOUS
  <2>1. CASE UNCHANGED indexVars
    <3>1. IndexTyped'
      BY <2>1 DEF indexVars, IndexInv, IndexTyped
    <3> QED
      BY <2>1, <3>1, WorkStill DEF indexVars
  <2> QED
    BY <2>1, OutsideSteps, PushStep, InsertStep, DirtySteps DEF IndexNext
<1> QED
  BY <1>1, <1>2, PTL DEF IndexSpec

(* The mark of a change leads to an index of the changed content, and the  *)
(* names of an index are found in the symbol table.                        *)
THEOREM ChangesIndexed == IndexSpec => []ChangesReachTheIndex
<1>1. IndexInv => ChangesReachTheIndex
  BY DEF IndexInv, Current, Coming, Indexing, NamesFound, Has, ChangesReachTheIndex
<1> QED
  BY <1>1, IndexInvariance, PTL

-----------------------------------------------------------------------------
(* The universe shared by its users.                                       *)

UserCalls == [call : {"commit"}, listing : BOOLEAN] \cup [call : {"push"}, parent : Seq(Nat)]
             \cup [call : {"import", "keep"}, path : Packages]
             \cup [call : {"ask"}, pair : Asked, answer : BOOLEAN] \cup {NotBusy}

\* What an answer to a pair is worth: both types are there, and it is what asking again
\* would say; or one was absent, and it is no.
Stands(pair, answer) ==
    \/ types[pair[1]] # Absent /\ types[pair[2]] # Absent /\ answer = CheckImpl(pair[1], pair[2])
    \/ ~ answer /\ pair \in early

AnswersStand ==
    /\ \A pair \in DOMAIN impl_cache : Stands(pair, impl_cache[pair])
    /\ \A u \in Users : In(u, "ask") => Stands(busy[u].pair, busy[u].answer)

ImportsRegistered ==
    /\ import_cache \subseteq packages
    /\ \A u \in Users : In(u, "keep") => busy[u].path \in packages

\* Each scope is the child of the one below, and each one to come that of the last.
ScopesNested ==
    scopesRaced \/ /\ \A i \in 2 .. Len(scope_stack) : Front(scope_stack[i]) = scope_stack[i - 1]
                   /\ \A u \in Pushing : busy[u].parent = Last(scope_stack)

SharedInv ==
    /\ SharedTypeOK /\ busy \in [Users -> UserCalls]
    /\ \A u \in Users : In(u, "commit") /\ busy[u].listing => tx[u].mods # <<>>
    /\ AnswersStand /\ ImportsRegistered /\ ScopesNested

\* The records of the calls that begin, and of none.
LEMMA NewCalls ==
  /\ NotBusy \in UserCalls /\ NotBusy.call = "none"
  /\ \A parent \in Seq(Nat) : [call |-> "push", parent |-> parent] \in UserCalls
  /\ \A pair \in Asked, answer \in BOOLEAN :
         [call |-> "ask", pair |-> pair, answer |-> answer] \in UserCalls
  BY DEF UserCalls, NotBusy

\* The name of a call tells which record it is.
LEMMA CallKinds ==
  ASSUME NEW c \in UserCalls
  PROVE  /\ c.call = "commit" => c \in [call : {"commit"}, listing : BOOLEAN]
         /\ c.call = "push" => c \in [call : {"push"}, parent : Seq(Nat)]
         /\ c.call \in {"import", "keep"} => c \in [call : {"import", "keep"}, path : Packages]
         /\ c.call = "ask" => c \in [call : {"ask"}, pair : Asked, answer : BOOLEAN]
         /\ c = NotBusy => c.call = "none"
  BY DEF UserCalls, NotBusy

\* What the calls a step does not begin leave of each part.
LEMMA AnswersKept ==
  ASSUME AnswersStand, impl_cache' = impl_cache,
         DOMAIN impl_cache \subseteq Asked, busy \in [Users -> UserCalls],
         \A pair \in Asked : \A answer : Stands(pair, answer) => Stands(pair, answer)',
         \A v \in Users : In(v, "ask")' => busy'[v] = busy[v]
  PROVE  AnswersStand'
<1>1. ASSUME NEW pair \in DOMAIN impl_cache PROVE Stands(pair, impl_cache[pair])'
  <2>1. PICK answer : answer = impl_cache[pair] /\ answer = impl_cache'[pair]
    OBVIOUS
  <2>2. Stands(pair, answer)
    BY <2>1 DEF AnswersStand
  <2>3. Stands(pair, answer)'
    BY <2>2
  <2> QED
    BY <2>1, <2>3 DEF Stands, CheckImpl
<1>2. ASSUME NEW v \in Users, In(v, "ask")' PROVE Stands(busy[v].pair, busy[v].answer)'
  <2>1. busy'[v] = busy[v] /\ In(v, "ask")
    BY <1>2 DEF In
  <2>2. PICK pair \in Asked, answer \in BOOLEAN : pair = busy[v].pair /\ answer = busy[v].answer
    BY <2>1, CallKinds DEF In
  <2>3. Stands(pair, answer)
    BY <2>1, <2>2 DEF AnswersStand
  <2>4. Stands(pair, answer)'
    BY <2>3
  <2> QED
    BY <2>1, <2>2, <2>4 DEF Stands, CheckImpl
<1> QED
  BY <1>1, <1>2 DEF AnswersStand

\* The same for the imports,
LEMMA ImportsKept ==
  ASSUME ImportsRegistered, UNCHANGED Imports,
         \A v \in Users : In(v, "keep")' => busy'[v] = busy[v]
  PROVE  ImportsRegistered'
  BY DEF ImportsRegistered, Imports, In

\* and for the scopes.
LEMMA ScopesKept ==
  ASSUME ScopesNested, UNCHANGED Scopes,
         \A v \in Users : In(v, "push")' => busy'[v] = busy[v]
  PROVE  ScopesNested'
  BY DEF ScopesNested, Scopes, Pushing, In

\* A step of one user's call leaves the others' alone.
LEMMA CallStep ==
  ASSUME busy \in [Users -> UserCalls], NEW u \in Users, NEW c \in UserCalls,
         busy' = [busy EXCEPT ![u] = c]
  PROVE  /\ busy' \in [Users -> UserCalls] /\ DOMAIN busy' = Users /\ busy'[u] = c
         /\ \A v \in Users \ {u} : busy'[v] = busy[v]
  OBVIOUS

\* A type that is there stays as it is, so an answer that stands goes on doing so.
LEMMA TypesGrow ==
  ASSUME UniverseTypeOK, NEW e \in Entries, InsertIfAbsent(e), fingerprint_index' = fingerprint_index
  PROVE  /\ UniverseTypeOK'
         /\ \A i \in TypeIds : types[i] # Absent => types'[i] = types[i]
  BY DEF UniverseTypeOK, InsertIfAbsent, Entries

-----------------------------------------------------------------------------
\* A transaction begins, grows, ends, or starts to be committed.
LEMMA TransactionSteps ==
  ASSUME SharedInv, NEW u \in Users,
         BeginTx(u) \/ TxInsert(u) \/ AbandonTx(u) \/ CommitTx(u) \/ Committed(u)
  PROVE  SharedInv'
<1>1. /\ UNCHANGED <<universe, Scopes, Imports, ImplAnswers>>
      /\ UNCHANGED <<types, fingerprint_index, scope_stack, scopesRaced, packages, import_cache,
                     impl_cache, early>>
  BY DEF BeginTx, TxInsert, AbandonTx, CommitTx, Committed, universe, Scopes, Imports, ImplAnswers
<1>2. /\ tx \in [Users -> [open : BOOLEAN, mods : Seq(Entries)]]
      /\ busy \in [Users -> UserCalls] /\ DOMAIN busy = Users
  BY DEF SharedInv, SharedTypeOK
<1>3. /\ tx' \in [Users -> [open : BOOLEAN, mods : Seq(Entries)]]
      /\ \A v \in Users \ {u} : tx'[v] = tx[v]
      /\ UNCHANGED busy \/ tx' = tx \/ tx'[u] = NoTx
  <2>1. CASE BeginTx(u)
    BY <1>2, <2>1 DEF BeginTx
  <2>2. CASE TxInsert(u)
    <3>1. PICK e \in Entries : tx' = [tx EXCEPT ![u].mods = Append(@, e)] /\ busy' = busy
      BY <2>2 DEF TxInsert
    <3>2. tx[u].mods \in Seq(Entries)
      BY <1>2
    <3>3. Append(tx[u].mods, e) \in Seq(Entries)
      BY <3>2, Appending
    <3> QED
      BY <1>2, <3>1, <3>3
  <2>3. CASE AbandonTx(u) \/ Committed(u)
    <3>1. NoTx \in [open : BOOLEAN, mods : Seq(Entries)]
      BY DEF NoTx
    <3> QED
      BY <1>2, <2>3, <3>1 DEF AbandonTx, Committed
  <2>4. CASE CommitTx(u)
    BY <1>2, <2>4 DEF CommitTx
  <2> QED
    BY <2>1, <2>2, <2>3, <2>4
<1>4. /\ busy' \in [Users -> UserCalls] /\ \A v \in Users \ {u} : busy'[v] = busy[v]
      /\ busy'[u].call \in {"none", "commit"}
      /\ busy'[u].call = "commit" => ~ busy'[u].listing
  <2>1. CASE BeginTx(u) \/ TxInsert(u) \/ AbandonTx(u)
    BY <1>2, <2>1 DEF BeginTx, TxInsert, AbandonTx, NotBusy
  <2>2. CASE CommitTx(u)
    BY <1>2, <2>2 DEF CommitTx, Call, UserCalls
  <2>3. CASE Committed(u)
    BY <1>2, <2>3 DEF Committed, Done, UserCalls, NotBusy
  <2> QED
    BY <2>1, <2>2, <2>3
<1>5. SharedTypeOK'
  BY <1>1, <1>3, <1>4 DEF SharedInv, SharedTypeOK, UniverseTypeOK
<1>6. \A v \in Users : In(v, "commit")' /\ busy'[v].listing => tx'[v].mods # <<>>
  BY <1>3, <1>4 DEF SharedInv, In
<1>7. AnswersStand'
  <2>1. \A pair \in Asked : \A answer : Stands(pair, answer) => Stands(pair, answer)'
    BY <1>1 DEF Stands, CheckImpl
  <2>2. \A v \in Users : In(v, "ask")' => busy'[v] = busy[v]
    BY <1>4 DEF In
  <2> QED
    BY <1>1, <1>2, <2>1, <2>2, AnswersKept DEF SharedInv, SharedTypeOK
<1>8. ImportsRegistered'
  BY <1>1, <1>4, ImportsKept DEF SharedInv, In
<1>9. ScopesNested'
  BY <1>1, <1>4, ScopesKept DEF SharedInv, In
<1> QED
  BY <1>4, <1>5, <1>6, <1>7, <1>8, <1>9 DEF SharedInv

\* One step of a commit: types only come, and the entry in hand is there.
LEMMA CommittingSteps ==
  ASSUME SharedInv, NEW u \in Users, InsertNext(u) \/ ListNext(u)
  PROVE  SharedInv'
<1>1. UNCHANGED <<Scopes, Imports, ImplAnswers>> /\ In(u, "commit") /\ tx[u].mods # <<>>
  BY DEF InsertNext, ListNext, SharedInv
<1>2. UNCHANGED <<scope_stack, scopesRaced, packages, import_cache, impl_cache, early>>
  BY <1>1 DEF Scopes, Imports, ImplAnswers
<1>3. /\ tx \in [Users -> [open : BOOLEAN, mods : Seq(Entries)]]
      /\ busy \in [Users -> UserCalls] /\ DOMAIN busy = Users /\ UniverseTypeOK
  BY DEF SharedInv, SharedTypeOK
<1>4. PICK l \in BOOLEAN : busy' = [busy EXCEPT ![u].listing = l]
                            /\ (l => InsertNext(u)) /\ (~ l => ListNext(u))
  BY DEF InsertNext, ListNext
<1>5. PICK c \in UserCalls : busy' = [busy EXCEPT ![u] = c] /\ c.call = "commit" /\ c.listing = l
  <2>1. busy[u] \in [call : {"commit"}, listing : BOOLEAN]
    BY <1>1, <1>3, CallKinds DEF In
  <2>2. [busy[u] EXCEPT !.listing = l] \in [call : {"commit"}, listing : BOOLEAN]
    BY <2>1
  <2> QED
    BY <1>4, <2>1, <2>2 DEF UserCalls
<1>6. /\ busy' \in [Users -> UserCalls] /\ DOMAIN busy' = Users /\ busy'[u] = c
      /\ \A v \in Users \ {u} : busy'[v] = busy[v]
  BY <1>3, <1>5, CallStep
<1>7. PICK m \in Seq(Entries) : m = tx[u].mods /\ m # <<>>
  BY <1>1, <1>3
<1>8. Head(m) \in Entries /\ Tail(m) \in Seq(Entries)
  BY <1>7, Taking
<1>9. /\ tx' \in [Users -> [open : BOOLEAN, mods : Seq(Entries)]]
      /\ \A v \in Users \ {u} : tx'[v] = tx[v]
      /\ l => tx' = tx
  <2>1. CASE l
    BY <1>3, <1>4, <2>1 DEF InsertNext
  <2>2. CASE ~ l
    <3>1. tx' = [tx EXCEPT ![u].mods = Tail(m)]
      BY <1>3, <1>4, <1>7, <2>2 DEF ListNext
    <3> QED
      BY <1>3, <1>8, <2>2, <3>1
  <2> QED
    BY <2>1, <2>2
<1>10. UniverseTypeOK' /\ \A i \in TypeIds : types[i] # Absent => types'[i] = types[i]
  <2>1. CASE l
    BY <1>3, <1>4, <1>7, <1>8, <2>1, TypesGrow DEF InsertNext
  <2>2. CASE ~ l
    <3>1. PICK e \in Entries : e = Head(m)
      BY <1>8
    <3>2. /\ types' = types
          /\ fingerprint_index' = [fingerprint_index EXCEPT ![e.typ.fingerprint] = @ \cup {e.id}]
      BY <1>4, <1>7, <2>2, <3>1 DEF ListNext, List
    <3>3. e.id \in TypeIds
      BY DEF Entries
    <3>4. fingerprint_index' \in [Fingerprints -> SUBSET TypeIds]
      BY <1>3, <3>2, <3>3 DEF UniverseTypeOK
    <3> QED
      BY <1>3, <3>2, <3>4 DEF UniverseTypeOK
  <2> QED
    BY <2>1, <2>2
<1>11. SharedTypeOK'
  BY <1>2, <1>6, <1>9, <1>10 DEF SharedInv, SharedTypeOK
<1>12. \A v \in Users : In(v, "commit")' /\ busy'[v].listing => tx'[v].mods # <<>>
  BY <1>1, <1>5, <1>6, <1>9 DEF SharedInv, In
<1>13. AnswersStand'
  <2>1. ASSUME NEW pair \in Asked, NEW answer, Stands(pair, answer)
        PROVE  Stands(pair, answer)'
    BY <1>2, <1>10, <2>1, SharedConstants DEF Stands, CheckImpl
  <2>2. \A v \in Users : In(v, "ask")' => busy'[v] = busy[v]
    BY <1>5, <1>6 DEF In
  <2> QED
    BY <1>2, <1>3, <2>1, <2>2, AnswersKept DEF SharedInv, SharedTypeOK
<1>14. ImportsRegistered'
  BY <1>1, <1>5, <1>6, ImportsKept DEF SharedInv, In
<1>15. ScopesNested'
  BY <1>1, <1>5, <1>6, ScopesKept DEF SharedInv, In
<1> QED
  BY <1>6, <1>11, <1>12, <1>13, <1>14, <1>15 DEF SharedInv

-----------------------------------------------------------------------------
\* The two steps of a push: the parent it read is the last scope, or it was raced.
LEMMA PushSteps ==
  ASSUME SharedInv, NEW u \in Users, ReadScope(u) \/ PushScope(u)
  PROVE  SharedInv'
<1>1. /\ UNCHANGED <<universe, tx, Imports, ImplAnswers>>
      /\ UNCHANGED <<types, fingerprint_index, packages, import_cache, impl_cache, early>>
  BY DEF ReadScope, PushScope, universe, Imports, ImplAnswers
<1>2. /\ busy \in [Users -> UserCalls] /\ DOMAIN busy = Users
      /\ scope_stack \in Seq(Seq(Nat)) /\ scope_stack # <<>> /\ scopesRaced \in BOOLEAN
  BY DEF SharedInv, SharedTypeOK
<1>3. PICK k \in Nat : k = Len(scope_stack) /\ k >= 1
  BY <1>2, Parting, Elements
<1>4. PICK parent \in Seq(Nat) :
         /\ ReadScope(u) => parent = Last(scope_stack)
         /\ PushScope(u) => parent = busy[u].parent
  <2>1. Last(scope_stack) \in Seq(Nat)
    BY <1>2, Parting
  <2>2. PushScope(u) => busy[u].parent \in Seq(Nat)
    BY <1>2, CallKinds DEF PushScope, In
  <2>3. ~ (ReadScope(u) /\ PushScope(u))
    BY <1>2 DEF ReadScope, PushScope, Call, In, NotBusy
  <2> QED
    BY <2>1, <2>2, <2>3
<1>5. PICK c \in UserCalls :
         /\ busy' = [busy EXCEPT ![u] = c]
         /\ \/ ReadScope(u) /\ c.call = "push" /\ c.parent = parent
            \/ PushScope(u) /\ c.call = "none"
  BY <1>4, NewCalls DEF ReadScope, PushScope, Call, Done
<1>6. /\ busy' \in [Users -> UserCalls] /\ DOMAIN busy' = Users /\ busy'[u] = c
      /\ \A v \in Users \ {u} : busy'[v] = busy[v]
  BY <1>2, <1>5, CallStep
<1>7. /\ scope_stack' \in Seq(Seq(Nat)) /\ scope_stack' # <<>> /\ scopesRaced' \in BOOLEAN
      /\ ScopesNested'
  <2>1. CASE ReadScope(u)
    <3>1. UNCHANGED <<scope_stack, scopesRaced>> /\ busy[u] = NotBusy /\ c.call = "push" /\ c.parent = parent
      BY <1>5, <2>1 DEF ReadScope, Scopes, PushScope, Call, In, NotBusy
    <3>2. Pushing' \subseteq Pushing \cup {u}
      BY <1>6 DEF Pushing, In
    <3> QED
      BY <1>2, <1>4, <1>6, <2>1, <3>1, <3>2 DEF SharedInv, ScopesNested, Pushing, In
  <2>2. CASE PushScope(u)
    <3>1. /\ scope_stack' = Append(scope_stack, Append(parent, k))
          /\ scopesRaced' = (scopesRaced \/ Pushing # {u}) /\ parent = busy[u].parent
          /\ u \in Pushing
      BY <1>3, <1>4, <2>2 DEF PushScope, Pushing
    <3>2. Append(parent, k) \in Seq(Nat) /\ Front(Append(parent, k)) = parent
      BY Appending, FrontOfAppend
    <3>3. PICK child \in Seq(Nat) : child = Append(parent, k) /\ Front(child) = parent
      BY <3>2
    <3>7. PICK stack \in Seq(Seq(Nat)) : stack = scope_stack /\ Len(stack) = k
      BY <1>2, <1>3
    <3>8. scope_stack' = Append(stack, child)
      BY <3>1, <3>3, <3>7
    <3>9. PICK S : S = Seq(Nat)
      OBVIOUS
    <3>10. /\ Append(stack, child) \in Seq(S) /\ Len(Append(stack, child)) = Len(stack) + 1
           /\ \A i \in 1 .. Len(stack) : Append(stack, child)[i] = stack[i]
           /\ Append(stack, child)[Len(stack) + 1] = child
      BY <3>3, <3>7, <3>9, Appending
    <3>4. /\ scope_stack' \in Seq(Seq(Nat)) /\ Len(scope_stack') = k + 1
          /\ \A i \in 1 .. k : scope_stack'[i] = scope_stack[i]
          /\ scope_stack'[k + 1] = child
      BY <3>7, <3>8, <3>9, <3>10
    <3>5. scope_stack' # <<>>
      BY <1>3, <3>4
    <3>6. ASSUME ~ scopesRaced' PROVE ScopesNested'
      <4>1. ~ scopesRaced /\ Pushing = {u}
        BY <1>2, <3>1, <3>6
      <4>2. Pushing' = {}
        BY <1>5, <1>6, <2>2, <4>1 DEF Pushing, In, ReadScope, PushScope, Call, NotBusy
      <4>3. parent = scope_stack[k]
        BY <1>2, <1>3, <3>1, <4>1, Parting DEF SharedInv, ScopesNested
      <4>4. ASSUME NEW i \in 2 .. k + 1 PROVE Front(scope_stack'[i]) = scope_stack'[i - 1]
        <5>1. CASE i = k + 1
          <6>1. i - 1 = k /\ k \in 1 .. k
            BY <1>3, <5>1
          <6> QED
            BY <3>3, <3>4, <4>3, <5>1, <6>1, Zenon
        <5>2. CASE i # k + 1
          <6>1. i \in 2 .. k /\ i \in 1 .. k /\ i - 1 \in 1 .. k
            BY <5>2
          <6>2. Front(scope_stack[i]) = scope_stack[i - 1]
            BY <1>3, <4>1, <6>1 DEF SharedInv, ScopesNested
          <6> QED
            BY <3>4, <6>1, <6>2, Zenon
        <5> QED
          BY <5>1, <5>2
      <4> QED
        BY <3>4, <4>2, <4>4, Zenon DEF ScopesNested
    <3> QED
      BY <3>1, <3>4, <3>5, <3>6 DEF ScopesNested
  <2> QED
    BY <2>1, <2>2
<1>8. SharedTypeOK'
  BY <1>1, <1>6, <1>7 DEF SharedInv, SharedTypeOK, UniverseTypeOK
<1>9. \A v \in Users : In(v, "commit")' /\ busy'[v].listing => tx'[v].mods # <<>>
  BY <1>1, <1>5, <1>6 DEF SharedInv, In
<1>10. AnswersStand'
  <2>1. \A pair \in Asked : \A answer : Stands(pair, answer) => Stands(pair, answer)'
    BY <1>1 DEF Stands, CheckImpl
  <2>2. \A v \in Users : In(v, "ask")' => busy'[v] = busy[v]
    BY <1>5, <1>6 DEF In
  <2> QED
    BY <1>1, <1>2, <2>1, <2>2, AnswersKept DEF SharedInv, SharedTypeOK
<1>11. ImportsRegistered'
  BY <1>1, <1>5, <1>6, ImportsKept DEF SharedInv, In
<1> QED
  BY <1>6, <1>7, <1>8, <1>9, <1>10, <1>11 DEF SharedInv

\* A pop leaves the scopes below nested, and races every push under way.
LEMMA PopStep ==
  ASSUME SharedInv, NEW u \in Users, PopScope(u)
  PROVE  SharedInv'
<1>1. /\ UNCHANGED <<universe, tx, Imports, ImplAnswers, busy>>
      /\ UNCHANGED <<types, fingerprint_index, packages, import_cache, impl_cache, early>>
      /\ scope_stack' = Front(scope_stack) /\ Len(scope_stack) > 1
      /\ scopesRaced' = (scopesRaced \/ Pushing # {})
  BY DEF PopScope, universe, Imports, ImplAnswers
<1>2. /\ busy \in [Users -> UserCalls] /\ DOMAIN busy = Users
      /\ scope_stack \in Seq(Seq(Nat)) /\ scope_stack # <<>> /\ scopesRaced \in BOOLEAN
  BY DEF SharedInv, SharedTypeOK
<1>3. PICK k \in Nat : k = Len(scope_stack) /\ k > 1
  BY <1>1, <1>2, Elements
<1>4. /\ scope_stack' \in Seq(Seq(Nat)) /\ Len(scope_stack') = k - 1
      /\ \A i \in 1 .. k - 1 : scope_stack'[i] = scope_stack[i]
  BY <1>1, <1>2, <1>3, Parting, Zenon
<1>5. scope_stack' # <<>>
  BY <1>3, <1>4
<1>6. ScopesNested'
  <2>1. SUFFICES ASSUME ~ scopesRaced' PROVE ScopesNested'
    BY DEF ScopesNested
  <2>2. ~ scopesRaced /\ Pushing = {} /\ Pushing' = {}
    BY <1>1, <1>2, <2>1 DEF Pushing, In
  <2>3. ASSUME NEW i \in 2 .. k - 1 PROVE Front(scope_stack'[i]) = scope_stack'[i - 1]
    <3>1. i \in 2 .. k /\ i \in 1 .. k - 1 /\ i - 1 \in 1 .. k - 1
      BY <1>3
    <3>2. Front(scope_stack[i]) = scope_stack[i - 1]
      BY <1>3, <2>2, <3>1 DEF SharedInv, ScopesNested
    <3> QED
      BY <1>4, <3>1, <3>2, Zenon
  <2> QED
    BY <1>4, <2>2, <2>3, Zenon DEF ScopesNested
<1>7. SharedTypeOK'
  BY <1>1, <1>2, <1>4, <1>5 DEF SharedInv, SharedTypeOK, UniverseTypeOK
<1>8. \A v \in Users : In(v, "commit")' /\ busy'[v].listing => tx'[v].mods # <<>>
  BY <1>1 DEF SharedInv, In
<1>9. AnswersStand' /\ ImportsRegistered'
  BY <1>1 DEF SharedInv, AnswersStand, ImportsRegistered, Stands, CheckImpl, In
<1> QED
  BY <1>1, <1>2, <1>6, <1>7, <1>8, <1>9 DEF SharedInv

-----------------------------------------------------------------------------
\* A package is registered before its import is kept.
LEMMA ImportSteps ==
  ASSUME SharedInv, NEW u \in Users, Import(u) \/ RegisterPackage(u) \/ KeepImport(u)
  PROVE  SharedInv'
<1>1. /\ UNCHANGED <<universe, tx, Scopes, ImplAnswers>>
      /\ UNCHANGED <<types, fingerprint_index, scope_stack, scopesRaced, impl_cache, early>>
  BY DEF Import, RegisterPackage, KeepImport, universe, Scopes, ImplAnswers
<1>2. /\ busy \in [Users -> UserCalls] /\ DOMAIN busy = Users
      /\ packages \subseteq Packages /\ import_cache \subseteq Packages
      /\ import_cache \subseteq packages
  BY DEF SharedInv, SharedTypeOK, ImportsRegistered
<1>3. PICK c \in UserCalls :
         /\ busy' = [busy EXCEPT ![u] = c] /\ c.call \in {"none", "import", "keep"}
         /\ c.call = "keep" => c.path \in packages'
         /\ packages \subseteq packages' /\ packages' \subseteq Packages
         /\ import_cache' \subseteq packages /\ import_cache' \subseteq Packages
  <2>1. CASE Import(u)
    BY <1>2, <2>1 DEF Import, Call, Imports, UserCalls
  <2>2. CASE RegisterPackage(u)
    <3>1. PICK p \in Packages : busy[u].path = p /\ busy[u] \in [call : {"import", "keep"}, path : Packages]
      BY <1>2, <2>2, CallKinds DEF RegisterPackage, In
    <3>2. [busy[u] EXCEPT !.call = "keep"] \in UserCalls
      BY <3>1 DEF UserCalls
    <3> QED
      BY <1>2, <2>2, <3>1, <3>2 DEF RegisterPackage
  <2>3. CASE KeepImport(u)
    <3>1. busy[u].path \in packages
      BY <2>3 DEF KeepImport, SharedInv, ImportsRegistered
    <3> QED
      BY <1>2, <2>3, <3>1 DEF KeepImport, Done, UserCalls, NotBusy
  <2> QED
    BY <2>1, <2>2, <2>3
<1>4. /\ busy' \in [Users -> UserCalls] /\ DOMAIN busy' = Users /\ busy'[u] = c
      /\ \A v \in Users \ {u} : busy'[v] = busy[v]
  BY <1>2, <1>3, CallStep
<1>5. SharedTypeOK'
  BY <1>1, <1>3, <1>4 DEF SharedInv, SharedTypeOK, UniverseTypeOK
<1>6. \A v \in Users : In(v, "commit")' /\ busy'[v].listing => tx'[v].mods # <<>>
  BY <1>1, <1>3, <1>4 DEF SharedInv, In
<1>7. AnswersStand'
  <2>1. \A pair \in Asked : \A answer : Stands(pair, answer) => Stands(pair, answer)'
    BY <1>1 DEF Stands, CheckImpl
  <2>2. \A v \in Users : In(v, "ask")' => busy'[v] = busy[v]
    BY <1>3, <1>4 DEF In
  <2> QED
    BY <1>1, <1>2, <2>1, <2>2, AnswersKept DEF SharedInv, SharedTypeOK
<1>8. ImportsRegistered'
  BY <1>2, <1>3, <1>4 DEF SharedInv, ImportsRegistered, In
<1>9. ScopesNested'
  BY <1>1, <1>3, <1>4, ScopesKept DEF SharedInv, In
<1> QED
  BY <1>4, <1>5, <1>6, <1>7, <1>8, <1>9 DEF SharedInv

\* An answer stands when it is given.
LEMMA AskStep ==
  ASSUME SharedInv, NEW u \in Users, AskImpl(u)
  PROVE  SharedInv'
<1>1. /\ UNCHANGED <<universe, tx, Scopes, Imports, impl_cache>>
      /\ UNCHANGED <<types, fingerprint_index, scope_stack, scopesRaced, packages, import_cache>>
  BY DEF AskImpl, universe, Scopes, Imports
<1>2. busy \in [Users -> UserCalls] /\ DOMAIN busy = Users /\ early \subseteq Asked
  BY DEF SharedInv, SharedTypeOK
<1>3. PICK pair \in Asked :
         /\ Call(u, [call |-> "ask", pair |-> pair, answer |-> CheckImpl(pair[1], pair[2])])
         /\ early' = IF Absent \in {types[pair[1]], types[pair[2]]} THEN early \cup {pair} ELSE early
  BY DEF AskImpl
<1>4. PICK answer \in BOOLEAN : answer = CheckImpl(pair[1], pair[2])
  BY DEF CheckImpl
<1>5. PICK c \in UserCalls :
         /\ busy' = [busy EXCEPT ![u] = c]
         /\ c.call = "ask" /\ c.pair = pair /\ c.answer = answer
  BY <1>3, <1>4, NewCalls DEF Call
<1>6. /\ busy' \in [Users -> UserCalls] /\ DOMAIN busy' = Users /\ busy'[u] = c
      /\ \A v \in Users \ {u} : busy'[v] = busy[v]
  BY <1>2, <1>5, CallStep
<1>7. SharedTypeOK'
  BY <1>1, <1>2, <1>3, <1>6 DEF SharedInv, SharedTypeOK, UniverseTypeOK
<1>8. \A v \in Users : In(v, "commit")' /\ busy'[v].listing => tx'[v].mods # <<>>
  BY <1>1, <1>5, <1>6 DEF SharedInv, In
<1>9. Stands(pair, answer)'
  BY <1>1, <1>3, <1>4 DEF Stands, CheckImpl
<1>10. AnswersStand'
  <2>2. ASSUME NEW v \in Users, In(v, "ask")' PROVE Stands(busy[v].pair, busy[v].answer)'
    <3>1. CASE v = u
      BY <1>5, <1>6, <1>9, <3>1 DEF Stands, CheckImpl
    <3>2. CASE v # u
      <4>1. busy'[v] = busy[v] /\ Stands(busy[v].pair, busy[v].answer)
        BY <1>6, <2>2, <3>2 DEF SharedInv, AnswersStand, In
      <4> QED
        BY <1>1, <1>3, <4>1 DEF Stands, CheckImpl
    <3> QED
      BY <3>1, <3>2
  <2>3. \A q \in DOMAIN impl_cache : Stands(q, impl_cache[q])'
    BY <1>1, <1>3 DEF Stands, CheckImpl, SharedInv, AnswersStand
  <2> QED
    BY <1>1, <2>2, <2>3 DEF AnswersStand
<1>11. ImportsRegistered'
  BY <1>1, <1>5, <1>6, ImportsKept DEF SharedInv, In
<1>12. ScopesNested'
  BY <1>1, <1>5, <1>6, ScopesKept DEF SharedInv, In
<1> QED
  BY <1>6, <1>7, <1>8, <1>10, <1>11, <1>12 DEF SharedInv

\* The answer that is kept still stands.
LEMMA KeepStep ==
  ASSUME SharedInv, NEW u \in Users, KeepImpl(u)
  PROVE  SharedInv'
<1>1. /\ UNCHANGED <<universe, tx, Scopes, Imports, early>> /\ In(u, "ask")
      /\ UNCHANGED <<types, fingerprint_index, scope_stack, scopesRaced, packages, import_cache>>
  BY DEF KeepImpl, universe, Scopes, Imports
<1>2. busy \in [Users -> UserCalls] /\ DOMAIN busy = Users /\ DOMAIN impl_cache \subseteq Asked
  BY DEF SharedInv, SharedTypeOK
<1>3. PICK pair \in Asked, answer \in BOOLEAN :
         /\ pair = busy[u].pair /\ answer = busy[u].answer /\ Stands(pair, answer)
  BY <1>1, <1>2, CallKinds DEF In, SharedInv, AnswersStand
<1>4. /\ DOMAIN impl_cache' = DOMAIN impl_cache \cup {pair}
      /\ impl_cache'[pair] = answer
      /\ \A q \in DOMAIN impl_cache \ {pair} : impl_cache'[q] = impl_cache[q]
  BY <1>3 DEF KeepImpl, Put
<1>5. PICK c \in UserCalls : busy' = [busy EXCEPT ![u] = c] /\ c.call = "none"
  BY NewCalls DEF KeepImpl, Done
<1>6. /\ busy' \in [Users -> UserCalls] /\ DOMAIN busy' = Users /\ busy'[u] = c
      /\ \A v \in Users \ {u} : busy'[v] = busy[v]
  BY <1>2, <1>5, CallStep
<1>7. SharedTypeOK'
  BY <1>1, <1>2, <1>4, <1>6 DEF SharedInv, SharedTypeOK, UniverseTypeOK
<1>8. \A v \in Users : In(v, "commit")' /\ busy'[v].listing => tx'[v].mods # <<>>
  BY <1>1, <1>5, <1>6 DEF SharedInv, In
<1>9. AnswersStand'
  <2>1. ASSUME NEW q \in DOMAIN impl_cache' PROVE Stands(q, impl_cache[q])'
    <3>1. CASE q = pair
      BY <1>1, <1>3, <1>4, <3>1 DEF Stands, CheckImpl
    <3>2. CASE q # pair
      <4>1. impl_cache'[q] = impl_cache[q] /\ Stands(q, impl_cache[q])
        BY <1>4, <2>1, <3>2 DEF SharedInv, AnswersStand
      <4> QED
        BY <1>1, <4>1 DEF Stands, CheckImpl
    <3> QED
      BY <3>1, <3>2
  <2>2. ASSUME NEW v \in Users, In(v, "ask")' PROVE Stands(busy[v].pair, busy[v].answer)'
    <3>1. busy'[v] = busy[v] /\ Stands(busy[v].pair, busy[v].answer)
      BY <1>5, <1>6, <2>2 DEF SharedInv, AnswersStand, In
    <3> QED
      BY <1>1, <3>1 DEF Stands, CheckImpl
  <2> QED
    BY <2>1, <2>2 DEF AnswersStand
<1>10. ImportsRegistered'
  BY <1>1, <1>5, <1>6, ImportsKept DEF SharedInv, In
<1>11. ScopesNested'
  BY <1>1, <1>5, <1>6, ScopesKept DEF SharedInv, In
<1> QED
  BY <1>6, <1>7, <1>8, <1>9, <1>10, <1>11 DEF SharedInv

\* Clearing a cache forgets no pair an answer on its way depends on.
LEMMA ClearSteps ==
  ASSUME SharedInv, ClearImports \/ ClearAnswers
  PROVE  SharedInv'
<1>1. UNCHANGED <<types, fingerprint_index, tx, scope_stack, scopesRaced, packages, busy>>
  BY DEF ClearImports, ClearAnswers, universe, Scopes, Imports
<1>2. import_cache' \subseteq import_cache /\ early' \subseteq early
  BY DEF ClearImports, ClearAnswers, Imports, ImplAnswers
<1>3. (impl_cache' = impl_cache /\ early' = early) \/ DOMAIN impl_cache' = {}
  BY DEF ClearImports, ClearAnswers, ImplAnswers, NoMap
<1>4. SharedTypeOK'
  BY <1>1, <1>2, <1>3 DEF SharedInv, SharedTypeOK, UniverseTypeOK
<1>5. AnswersStand'
  <2>1. \A v \in Users : In(v, "ask") /\ busy[v].pair \in early => busy[v].pair \in early'
    BY <1>3 DEF ClearImports, ClearAnswers, ImplAnswers
  <2> QED
    BY <1>1, <1>3, <2>1 DEF SharedInv, AnswersStand, Stands, CheckImpl, In
<1>6. ImportsRegistered' /\ ScopesNested'
  BY <1>1, <1>2 DEF SharedInv, ImportsRegistered, ScopesNested, Pushing, In
<1>7. \A v \in Users : In(v, "commit")' /\ busy'[v].listing => tx'[v].mods # <<>>
  BY <1>1 DEF SharedInv, In
<1> QED
  BY <1>1, <1>4, <1>5, <1>6, <1>7 DEF SharedInv

(* The invariant of the shared universe: what a call has read before it    *)
(* keeps an answer, an import or a scope still holds when it does.         *)
THEOREM SharedInvariance == SharedSpec => []SharedInv
<1>1. SharedInit => SharedInv
  <2> SUFFICES ASSUME SharedInit PROVE SharedInv
    OBVIOUS
  <2>1. scope_stack \in Seq(Seq(Nat)) /\ scope_stack # <<>> /\ Len(scope_stack) = 1
    BY DEF SharedInit
  <2>2. /\ tx \in [Users -> [open : BOOLEAN, mods : Seq(Entries)]] /\ busy \in [Users -> UserCalls]
        /\ DOMAIN busy = Users
    BY DEF SharedInit, NoTx, NotBusy, UserCalls
  <2>3. UniverseTypeOK
    BY DEF SharedInit, UniverseInit, UniverseTypeOK
  <2>4. SharedTypeOK
    BY <2>1, <2>2, <2>3 DEF SharedInit, SharedTypeOK, NoMap
  <2>5. AnswersStand /\ ImportsRegistered /\ ScopesNested
    BY <2>1 DEF SharedInit, AnswersStand, ImportsRegistered, ScopesNested, Pushing, In, NotBusy, NoMap
  <2>6. \A u \in Users : ~ In(u, "commit")
    BY DEF SharedInit, NotBusy, In
  <2> QED
    BY <2>2, <2>4, <2>5, <2>6 DEF SharedInv
<1>2. SharedInv /\ [SharedNext]_sharedVars => SharedInv'
  <2> SUFFICES ASSUME SharedInv, [SharedNext]_sharedVars PROVE SharedInv'
    OBVIOUS
  <2>1. CASE TransactionNext
    BY <2>1, TransactionSteps, CommittingSteps DEF TransactionNext
  <2>2. CASE ScopeNext
    BY <2>2, PushSteps, PopStep DEF ScopeNext
  <2>3. CASE ImportNext
    BY <2>3, ImportSteps, ClearSteps DEF ImportNext
  <2>4. CASE AnswerNext
    BY <2>4, AskStep, KeepStep, ClearSteps DEF AnswerNext
  <2>5. CASE UNCHANGED sharedVars
    BY <2>5 DEF sharedVars, SharedInv, SharedTypeOK, UniverseTypeOK, AnswersStand, Stands, CheckImpl,
                ImportsRegistered, ScopesNested, Pushing, In
  <2> QED
    BY <2>1, <2>2, <2>3, <2>4, <2>5 DEF SharedNext
<1> QED
  BY <1>1, <1>2, PTL DEF SharedSpec

(* What the caches and the scope stack hold follows the universe, but for  *)
(* an answer given while a type was absent, and a push another push or pop *)
(* came into.                                                              *)
THEOREM SharedFollows == SharedSpec => []SharedStateFollows
<1>1. SharedInv => SharedStateFollows
  BY DEF SharedInv, SharedStateFollows, AnswersStand, Stands, CheckImpl, ImportsRegistered, ScopesNested
<1> QED
  BY <1>1, SharedInvariance, PTL

-----------------------------------------------------------------------------
(* The servers.                                                            *)

ClientStates == [state : {"absent", "open", "left", "gone"},
                 inbox : Seq(ClientRequests), outbox : Seq(Replies),
                 replies : Seq(Replies), handled : Seq(ClientRequests)]

\* The replies a client got, with those on their way, to the requests handled: one each
\* until the connection is given up, each an answer, and a session given out or served
\* is alive.
Served(phase, got, handled, live) ==
    /\ Len(got) <= Len(handled) /\ (phase # "gone" => Len(got) = Len(handled))
    /\ \A i \in 1 .. Len(got) :
           /\ Answered(handled[i], got[i])
           /\ handled[i].kind = "Connect" /\ got[i].session # NoSession => got[i].session \in live
           /\ handled[i].kind = "Query" /\ got[i].status = "ok" => handled[i].session \in live
    /\ \A i, j \in 1 .. Len(got) :
           /\ i < j /\ got[i].session # NoSession /\ handled[i].kind = "Connect"
           /\ handled[j] = [kind |-> "Query", session |-> got[i].session]
           => got[j].status = "ok"

Got(r) == r.replies \o r.outbox

ServerInv ==
    /\ ServerTypeOK /\ clients \in [Clients -> ClientStates]
    /\ \A c \in Clients : Served(clients[c].state, Got(clients[c]), clients[c].handled, live_sessions)

\* A step of one client, or of what serves it.
LEMMA ClientStep ==
  ASSUME ServerInv, NEW c \in Clients, NEW r \in ClientStates,
         clients' = [clients EXCEPT ![c] = r], UNCHANGED <<daemon, listening>>,
         live_sessions \subseteq live_sessions', live_sessions' \subseteq Sessions,
         acknowledged' = acknowledged,
         Served(r.state, Got(r), r.handled, live_sessions')
  PROVE  ServerInv'
<1>1. /\ clients' \in [Clients -> ClientStates] /\ clients'[c] = r
      /\ \A d \in Clients \ {c} : clients'[d] = clients[d]
  BY DEF ServerInv
<1>2. ServerTypeOK'
  <2>1. \A d \in Clients : /\ clients'[d].state \in {"absent", "open", "left", "gone"}
                           /\ clients'[d].inbox \in Seq(ClientRequests)
                           /\ clients'[d].handled \in Seq(ClientRequests)
                           /\ clients'[d].outbox \in Seq(Replies) /\ clients'[d].replies \in Seq(Replies)
    BY <1>1 DEF ClientStates
  <2>2. DOMAIN clients' = Clients
    BY <1>1
  <2> QED
    BY <2>1, <2>2, Zenon DEF ServerInv, ServerTypeOK
<1>3. ASSUME NEW d \in Clients \ {c}
      PROVE  Served(clients'[d].state, Got(clients'[d]), clients'[d].handled, live_sessions')
  <2>1. Served(clients[d].state, Got(clients[d]), clients[d].handled, live_sessions)
    BY DEF ServerInv
  <2> QED
    BY <1>1, <2>1, SMTT(30) DEF Served
<1> QED
  BY <1>1, <1>2, <1>3 DEF ServerInv

\* Steps that leave the clients alone.
LEMMA ClientsStill ==
  ASSUME ServerInv, clients' = clients, live_sessions' = live_sessions,
         daemon' \in {"New", "Grpc", "Running", "Ended"}, listening' \subseteq Services,
         acknowledged' \subseteq Sessions
  PROVE  ServerInv'
  BY DEF ServerInv, ServerTypeOK

\* A reply answers its request: with a new session, or ok just for one that is alive.
LEMMA Replying ==
  ASSUME NEW r \in ClientRequests, live_sessions \subseteq Sessions
  PROVE  /\ Reply(r) \in Replies /\ Answered(r, Reply(r))
         /\ r.kind = "Connect" /\ Reply(r).session # NoSession =>
               Fresh \in Sessions /\ Reply(r).session = Fresh
         /\ r.kind = "Query" => (Reply(r).status = "ok" <=> r.session \in live_sessions)
<1>1. r.kind \in {"Fixed", "Bad", "Connect", "Query"} /\ (r.kind = "Query" => r.session \in Sessions \cup {NoSession})
  BY DEF ClientRequests
<1>2. NoSession \notin Sessions
  BY DEF NoSession, Sessions
<1>3. CASE r.kind = "Fixed"
  BY <1>3 DEF Reply, Replies, Answered
<1>4. CASE r.kind = "Bad"
  BY <1>4 DEF Reply, Replies, Answered
<1>5. CASE r.kind = "Query"
  BY <1>1, <1>5 DEF Reply, Replies, Answered
<1>6. CASE r.kind = "Connect"
  BY <1>2, <1>6 DEF Reply, Replies, Answered
<1> QED
  BY <1>1, <1>3, <1>4, <1>5, <1>6

\* The request at the head of the inbox is handled, replied to, or the last one.
LEMMA HandleStep == ASSUME ServerInv, NEW c \in Clients, Handle(c) PROVE ServerInv'
<1>1. PICK w \in ClientStates : w = clients[c]
  BY DEF ServerInv
<1>2. /\ w.inbox \in Seq(ClientRequests) /\ w.handled \in Seq(ClientRequests)
      /\ w.outbox \in Seq(Replies) /\ w.replies \in Seq(Replies)
  BY DEF ClientStates
<1>3. w.state \in {"open", "left"} /\ w.inbox # <<>>
  BY <1>1 DEF Handle
<1>4. PICK r \in ClientRequests : r = Head(w.inbox)
  BY <1>2, <1>3, Taking
<1>5. PICK ends \in BOOLEAN :
         /\ clients' = [clients EXCEPT ![c].state = IF ends THEN "gone" ELSE w.state,
                                      ![c].inbox = Tail(w.inbox),
                                      ![c].handled = Append(w.handled, r),
                                      ![c].outbox = IF ends THEN w.outbox ELSE Append(w.outbox, Reply(r))]
         /\ live_sessions' = IF r.kind = "Connect" /\ Fresh \in Sessions
                             THEN live_sessions \cup {Fresh} ELSE live_sessions
         /\ UNCHANGED <<daemon, listening, acknowledged>>
  BY <1>1, <1>4 DEF Handle, Keep
<1>6. live_sessions \subseteq Sessions
  BY DEF ServerInv, ServerTypeOK
<1>7. live_sessions \subseteq live_sessions' /\ live_sessions' \subseteq Sessions
  BY <1>5, <1>6
<1>8. PICK e \in Replies : e = Reply(r)
  BY <1>6, Replying
<1>9. /\ Answered(r, e)
      /\ r.kind = "Connect" /\ e.session # NoSession => e.session \in live_sessions'
      /\ r.kind = "Query" => (e.status = "ok" <=> r.session \in live_sessions)
  BY <1>5, <1>6, <1>8, Replying
<1>10. PICK handled \in Seq(ClientRequests) : handled = Append(w.handled, r)
  BY <1>2, Appending
<1>11. PICK outbox \in Seq(Replies) : outbox = IF ends THEN w.outbox ELSE Append(w.outbox, e)
  BY <1>2, Appending
<1>12. PICK inbox \in Seq(ClientRequests) : inbox = Tail(w.inbox)
  BY <1>2, <1>3, Taking
<1>13. PICK v \in ClientStates :
          v = [w EXCEPT !.state = IF ends THEN "gone" ELSE w.state,
                        !.inbox = inbox, !.handled = handled, !.outbox = outbox]
  BY <1>3 DEF ClientStates
<1>14. clients' = [clients EXCEPT ![c] = v]
  <2>1. clients' = [clients EXCEPT ![c].state = IF ends THEN "gone" ELSE w.state, ![c].inbox = inbox,
                                   ![c].handled = handled, ![c].outbox = outbox]
    BY <1>5, <1>8, <1>10, <1>11, <1>12
  <2>2. clients \in [Clients -> ClientStates]
    BY DEF ServerInv
  <2>3. \A d \in Clients \ {c} : clients'[d] = clients[d]
    BY <2>1, <2>2
  <2>4. clients'[c] = v
    BY <1>1, <1>13, <2>1, <2>2 DEF ClientStates
  <2> QED
    BY <2>1, <2>2, <2>3, <2>4
<1>15. /\ v.state = (IF ends THEN "gone" ELSE w.state) /\ v.handled = handled
       /\ v.outbox = outbox /\ v.replies = w.replies
  BY <1>13 DEF ClientStates
<1>16. PICK got \in Seq(Replies) : got = Got(w)
  BY <1>2, Concatenation DEF Got
<1>17. Got(v) = IF ends THEN got ELSE Append(got, e)
  <2>1. w.replies \o Append(w.outbox, e) = Append(w.replies \o w.outbox, e)
    <3>1. PICK a \in Seq(Replies), b \in Seq(Replies) : a = w.replies /\ b = w.outbox
      BY <1>2
    <3>2. a \o Append(b, e) = Append(a \o b, e)
      BY AppendingLast
    <3> QED
      BY <3>1, <3>2, Zenon
  <2> QED
    BY <1>11, <1>15, <1>16, <2>1, Zenon DEF Got
<1>18. PICK g \in Nat : g = Len(got)
  OBVIOUS
<1>19. /\ Len(w.handled) = g
       /\ \A i \in 1 .. g : /\ Answered(w.handled[i], got[i])
                            /\ w.handled[i].kind = "Connect" /\ got[i].session # NoSession =>
                                  got[i].session \in live_sessions
                            /\ w.handled[i].kind = "Query" /\ got[i].status = "ok" =>
                                  w.handled[i].session \in live_sessions
       /\ \A i, j \in 1 .. g :
           /\ i < j /\ got[i].session # NoSession /\ w.handled[i].kind = "Connect"
           /\ w.handled[j] = [kind |-> "Query", session |-> got[i].session]
           => got[j].status = "ok"
  <2>1. Served(w.state, got, w.handled, live_sessions)
    BY <1>1, <1>16 DEF ServerInv
  <2> QED
    BY <1>3, <1>18, <2>1 DEF Served
<1>20. /\ Len(handled) = g + 1 /\ handled[g + 1] = r
       /\ \A i \in 1 .. g : handled[i] = w.handled[i]
  <2>1. Len(handled) = Len(w.handled) + 1 /\ handled[Len(w.handled) + 1] = r
    BY <1>2, <1>10, Appending
  <2>2. \A i \in 1 .. Len(w.handled) : handled[i] = w.handled[i]
    BY <1>2, <1>10, Appending
  <2> QED
    BY <1>19, <2>1, <2>2, Zenon
<1>21. Served(v.state, Got(v), v.handled, live_sessions')
  <2>1. CASE ends
    <3>1. v.state = "gone" /\ Got(v) = got /\ v.handled = handled
      BY <1>15, <1>17, <2>1
    <3>2. g <= g + 1
      OBVIOUS
    <3>3. \A i \in 1 .. g :
             /\ Answered(handled[i], got[i])
             /\ handled[i].kind = "Connect" /\ got[i].session # NoSession => got[i].session \in live_sessions'
             /\ handled[i].kind = "Query" /\ got[i].status = "ok" => handled[i].session \in live_sessions'
      BY <1>7, <1>19, <1>20
    <3>4. \A i, j \in 1 .. g :
             /\ i < j /\ got[i].session # NoSession /\ handled[i].kind = "Connect"
             /\ handled[j] = [kind |-> "Query", session |-> got[i].session]
             => got[j].status = "ok"
      <4> SUFFICES ASSUME NEW i \in 1 .. g, NEW j \in 1 .. g
                   PROVE  /\ i < j /\ got[i].session # NoSession /\ handled[i].kind = "Connect"
                          /\ handled[j] = [kind |-> "Query", session |-> got[i].session]
                          => got[j].status = "ok"
        OBVIOUS
      <4>1. handled[i] = w.handled[i] /\ handled[j] = w.handled[j]
        BY <1>20
      <4>2. /\ i < j /\ got[i].session # NoSession /\ w.handled[i].kind = "Connect"
            /\ w.handled[j] = [kind |-> "Query", session |-> got[i].session]
            => got[j].status = "ok"
        BY <1>19, Zenon
      <4> QED
        BY <4>1, <4>2, Zenon
    <3>5. Served("gone", got, handled, live_sessions')
      BY <1>18, <1>20, <3>2, <3>3, <3>4 DEF Served
    <3> QED
      BY <3>1, <3>5
  <2>2. CASE ~ ends
    <3>1. PICK all \in Seq(Replies) : all = Append(got, e)
      BY Appending
    <3>2. /\ Len(all) = g + 1 /\ all[g + 1] = e
          /\ \A i \in 1 .. g : all[i] = got[i]
      BY <1>18, <3>1, Appending
    <3>3. Got(v) = all /\ v.handled = handled
      BY <1>15, <1>17, <2>2, <3>1
    <3>4. \A i \in 1 .. g + 1 : i \in 1 .. g \/ i = g + 1
      OBVIOUS
    <3>5. ASSUME NEW i \in 1 .. g + 1
          PROVE  /\ Answered(handled[i], all[i])
                 /\ handled[i].kind = "Connect" /\ all[i].session # NoSession => all[i].session \in live_sessions'
                 /\ handled[i].kind = "Query" /\ all[i].status = "ok" => handled[i].session \in live_sessions'
      BY <1>7, <1>9, <1>19, <1>20, <3>2, <3>4
    <3>6. ASSUME NEW i \in 1 .. g + 1, NEW j \in 1 .. g + 1, i < j, all[i].session # NoSession,
                 handled[i].kind = "Connect", handled[j] = [kind |-> "Query", session |-> all[i].session]
          PROVE  all[j].status = "ok"
      <4>1. i \in 1 .. g
        BY <3>6
      <4>2. CASE j \in 1 .. g
        BY <1>19, <1>20, <3>2, <3>6, <4>1, <4>2, ZenonT(30)
      <4>3. CASE j = g + 1
        <5>1. all[i].session \in live_sessions
          BY <1>19, <1>20, <3>2, <3>6, <4>1
        <5>2. r.kind = "Query" /\ r.session = all[i].session
          BY <1>20, <3>6, <4>3
        <5> QED
          BY <1>9, <3>2, <4>3, <5>1, <5>2
      <4> QED
        BY <3>4, <4>2, <4>3
    <3> QED
      BY <1>20, <3>2, <3>3, <3>5, <3>6 DEF Served
  <2> QED
    BY <2>1, <2>2
<1> QED
  BY <1>5, <1>7, <1>14, <1>21, ClientStep

(* The invariant of the servers: the replies that a client got, with those *)
(* on their way, are those of the requests handled.                        *)
THEOREM ServerInvariance == ServerSpec => []ServerInv
<1>1. ServerInit => ServerInv
  <2> SUFFICES ASSUME ServerInit PROVE ServerInv
    OBVIOUS
  <2>1. <<>> \in Seq(ClientRequests) /\ <<>> \in Seq(Replies)
    OBVIOUS
  <2>2. NoClient \in ClientStates /\ NoClient.handled = <<>> /\ Got(NoClient) = <<>>
    <3>1. NoClient \in ClientStates /\ NoClient.handled = <<>>
      BY <2>1 DEF NoClient, ClientStates
    <3>2. <<>> \o <<>> = <<>>
      OBVIOUS
    <3> QED
      BY <3>1, <3>2 DEF NoClient, Got
  <2>3. clients \in [Clients -> ClientStates] /\ \A c \in Clients : clients[c] = NoClient
    BY <2>2 DEF ServerInit
  <2>4. \A c \in Clients : Served(clients[c].state, Got(clients[c]), clients[c].handled, live_sessions)
    BY <2>2, <2>3 DEF Served
  <2>5. ServerTypeOK
    BY <2>1, <2>3 DEF ServerInit, ServerTypeOK, NoClient
  <2> QED
    BY <2>3, <2>4, <2>5 DEF ServerInit, ServerInv
<1>2. ServerInv /\ [ServerNext]_serverVars => ServerInv'
  <2> SUFFICES ASSUME ServerInv, [ServerNext]_serverVars PROVE ServerInv'
    OBVIOUS
  <2>1. /\ daemon \in {"New", "Grpc", "Running", "Ended"} /\ listening \subseteq Services
        /\ live_sessions \subseteq Sessions /\ acknowledged \subseteq Sessions
    BY DEF ServerInv, ServerTypeOK
  <2>2. CASE StartGrpc \/ StartWebSocket \/ RunReturns
    BY <2>1, <2>2, ClientsStill DEF StartGrpc, StartWebSocket, StartService, RunReturns, Services
  <2>3. CASE Disconnect
    BY <2>1, <2>3, ClientsStill DEF Disconnect, Keep
  <2>4. ASSUME NEW s \in Services, BindFails(s) PROVE ServerInv'
    BY <2>1, <2>4, ClientsStill DEF BindFails
  <2>5. ASSUME NEW c \in Clients, NEW phase \in {"open", "left", "gone"},
               clients[c].state \in {"absent", "open", "left"},
               clients' = [clients EXCEPT ![c].state = phase],
               UNCHANGED <<daemon, listening, live_sessions, acknowledged>>
        PROVE  ServerInv'
    <3>1. PICK w \in ClientStates : w = clients[c]
      BY DEF ServerInv
    <3>2. PICK v \in ClientStates : v = [w EXCEPT !.state = phase]
      BY DEF ClientStates
    <3>3. /\ w.state # "gone" /\ v.handled = w.handled /\ v.replies = w.replies /\ v.outbox = w.outbox
          /\ clients' = [clients EXCEPT ![c] = v]
      BY <2>5, <3>1, <3>2 DEF ClientStates
    <3>4. Served(w.state, Got(w), w.handled, live_sessions)
      BY <3>1 DEF ServerInv
    <3>5. Served(v.state, Got(v), v.handled, live_sessions)
      BY <3>3, <3>4 DEF Served, Got
    <3> QED
      BY <2>1, <2>5, <3>3, <3>5, ClientStep
  <2>6. ASSUME NEW c \in Clients, Send(c) PROVE ServerInv'
    <3>1. PICK w \in ClientStates : w = clients[c]
      BY DEF ServerInv
    <3>2. PICK q \in ClientRequests : clients' = [clients EXCEPT ![c].inbox = Append(w.inbox, q)]
      BY <2>6, <3>1 DEF Send
    <3>3. PICK inbox \in Seq(ClientRequests) : inbox = Append(w.inbox, q)
      BY Appending DEF ClientStates
    <3>4. PICK v \in ClientStates : v = [w EXCEPT !.inbox = inbox]
      BY DEF ClientStates
    <3>5. /\ v.state = w.state /\ v.handled = w.handled /\ v.replies = w.replies /\ v.outbox = w.outbox
          /\ clients' = [clients EXCEPT ![c] = v]
      BY <3>1, <3>2, <3>3, <3>4 DEF ClientStates
    <3>6. Served(w.state, Got(w), w.handled, live_sessions)
      BY <3>1 DEF ServerInv
    <3>7. Served(v.state, Got(v), v.handled, live_sessions)
      BY <3>5, <3>6 DEF Got
    <3>8. UNCHANGED <<daemon, listening, live_sessions, acknowledged>>
      BY <2>6 DEF Send, Keep
    <3> QED
      BY <2>1, <3>5, <3>7, <3>8, ClientStep
  <2>7. ASSUME NEW c \in Clients, ReadReply(c) PROVE ServerInv'
    <3>1. PICK w \in ClientStates : w = clients[c] /\ w.outbox # <<>>
      BY <2>7 DEF ServerInv, ReadReply
    <3>2. w.replies \in Seq(Replies) /\ w.outbox \in Seq(Replies)
      BY DEF ClientStates
    <3>3. PICK read \in Seq(Replies), outbox \in Seq(Replies) :
             /\ read = Append(w.replies, Head(w.outbox)) /\ outbox = Tail(w.outbox)
             /\ read \o outbox = w.replies \o w.outbox
      <4>1. /\ Append(w.replies, Head(w.outbox)) \in Seq(Replies) /\ Tail(w.outbox) \in Seq(Replies)
            /\ Append(w.replies, Head(w.outbox)) \o Tail(w.outbox) = w.replies \o w.outbox
        <5>1. PICK a \in Seq(Replies), b \in Seq(Replies) : a = w.replies /\ b = w.outbox
          BY <3>2
        <5>2. b # <<>>
          BY <3>1, <5>1
        <5>3. Append(a, Head(b)) \in Seq(Replies) /\ Tail(b) \in Seq(Replies)
          BY <5>2
        <5>4. Append(a, Head(b)) \o Tail(b) = a \o b
          BY <5>2, Moving
        <5> QED
          BY <5>1, <5>3, <5>4, Zenon
      <4> QED
        BY <4>1, Zenon
    <3>4. PICK v \in ClientStates : v = [w EXCEPT !.replies = read, !.outbox = outbox]
      BY DEF ClientStates
    <3>5. /\ v.state = w.state /\ v.handled = w.handled /\ v.replies = read /\ v.outbox = outbox
          /\ clients' = [clients EXCEPT ![c] = v]
      BY <2>7, <3>1, <3>3, <3>4 DEF ClientStates, ReadReply
    <3>6. Served(w.state, Got(w), w.handled, live_sessions)
      BY <3>1 DEF ServerInv
    <3>7. Served(v.state, Got(v), v.handled, live_sessions)
      BY <3>3, <3>5, <3>6 DEF Got
    <3>8. UNCHANGED <<daemon, listening, live_sessions, acknowledged>>
      BY <2>7 DEF ReadReply, Keep
    <3> QED
      BY <2>1, <3>5, <3>7, <3>8, ClientStep
  <2>8. ASSUME NEW c \in Clients, Open(c) \/ Leave(c) \/ EndOfStream(c) PROVE ServerInv'
    BY <2>5, <2>8 DEF Open, Leave, EndOfStream, Keep, NoClient
  <2>9. CASE UNCHANGED serverVars
    BY <2>1, <2>9, ClientsStill DEF serverVars
  <2> QED
    BY <2>2, <2>3, <2>4, <2>6, <2>7, <2>8, <2>9, HandleStep DEF ServerNext
<1> QED
  BY <1>1, <1>2, PTL DEF ServerSpec

(* An open connection has one reply for each request, in their order, and  *)
(* a session a reply gave out serves the later requests that name it.      *)
THEOREM ClientsAreServed == ServerSpec => []ClientsServed
<1>1. ServerInv => ClientsServed
  <2> SUFFICES ASSUME ServerInv, NEW c \in Clients
               PROVE  LET got == clients[c].replies \o clients[c].outbox
            handled == clients[c].handled
        IN  /\ \A i \in DOMAIN got :
                   /\ i <= Len(handled) /\ Answered(handled[i], got[i])
                   /\ handled[i].kind = "Query" /\ got[i].status = "ok" =>
                          handled[i].session \in live_sessions \cup acknowledged
            /\ clients[c].state = "open" => Len(got) = Len(handled)
            /\ \A i, j \in DOMAIN got :
                   /\ i < j /\ handled[i].kind = "Connect" /\ got[i].session # NoSession
                   /\ handled[j] = [kind |-> "Query", session |-> got[i].session]
                   /\ got[i].session \notin acknowledged
                   => got[j].status = "ok"
    BY DEF ClientsServed
  <2>1. PICK w \in ClientStates : w = clients[c]
    BY DEF ServerInv
  <2>2. PICK got \in Seq(Replies) : got = w.replies \o w.outbox
    BY Concatenation DEF ClientStates
  <2>3. PICK h \in Nat : h = Len(w.handled)
    BY DEF ClientStates
  <2>4. Served(w.state, got, w.handled, live_sessions)
    BY <2>1, <2>2 DEF ServerInv, Got
  <2>5. DOMAIN got = 1 .. Len(got) /\ Len(got) \in Nat
    OBVIOUS
  <2>6. Len(got) <= h /\ \A i \in DOMAIN got : i <= h
    BY <2>3, <2>4, <2>5 DEF Served
  <2>7. \A i \in DOMAIN got :
           /\ i <= Len(w.handled) /\ Answered(w.handled[i], got[i])
           /\ w.handled[i].kind = "Query" /\ got[i].status = "ok" =>
                  w.handled[i].session \in live_sessions \cup acknowledged
    BY <2>3, <2>4, <2>5, <2>6 DEF Served
  <2>8. /\ w.state # "gone" => Len(got) = Len(w.handled)
        /\ \A i, j \in DOMAIN got :
              /\ i < j /\ got[i].session # NoSession /\ w.handled[i].kind = "Connect"
              /\ w.handled[j] = [kind |-> "Query", session |-> got[i].session]
              => got[j].status = "ok"
    BY <2>4, <2>5, Zenon DEF Served
  <2>9. w.state = "open" => Len(got) = Len(w.handled)
    BY <2>8
  <2> QED
    BY <2>1, <2>2, <2>7, <2>8, <2>9, Zenon
<1> QED
  BY <1>1, ServerInvariance, PTL

-----------------------------------------------------------------------------
(* The bridge.                                                             *)

Unread(m) == \E j \in DOMAIN stream : stream[j][1] = m
PartUnread(m, i) == \E j \in DOMAIN stream : stream[j] = <<m, i>>
Earlier(a, b) == a[1] < b[1] \/ (a[1] = b[1] /\ a[2] < b[2])

\* What is not read comes in the order of the messages and of their parts.
StreamInOrder ==
    /\ \A j \in DOMAIN stream : /\ stream[j][1] \in 1 .. Len(written)
                                /\ stream[j][2] \in 1 .. written[stream[j][1]].parts
    /\ \A j, k \in DOMAIN stream : j < k => Earlier(stream[j], stream[k])

\* A message no read has cut is not read yet, or read to the end.
UncutWhole ==
    \A m \in (1 .. Len(written)) \ cut :
        Unread(m) => \A i \in 1 .. written[m].parts : PartUnread(m, i)

\* Nothing is read of a message that follows an unread one.
UnreadLast ==
    \A m, k \in 1 .. Len(written) : Unread(m) /\ m < k => Unread(k)

IntactAnswered ==
    \A m \in (1 .. Len(written)) \ (cut \cup merged) :
        ~ Unread(m) /\ written[m].kind = "Sync" =>
            \/ \E i \in DOMAIN replies : replies[i] = m
            \/ /\ peer = "Failed"
               /\ \A k \in 1 .. Len(written) : k \in cut \cup merged \/ Unread(k) \/ k <= m

\* While every read was of one message, there is one reply for each that is not unread,
\* but for one that a failure lost.
RepliesCount ==
    cut \cup merged = {} =>
        \E d \in {0, 1} :
            /\ d = 1 => peer = "Failed"
            /\ Len(replies) + d <= Len(written)
            /\ \A m \in 1 .. Len(written) : Unread(m) <=> m > Len(replies) + d
            /\ \A i \in DOMAIN replies : replies[i] = ReplyTo(i)

BridgeInv ==
    /\ BridgeTypeOK /\ Len(written) <= MaxMessages
    /\ StreamInOrder /\ UncutWhole /\ UnreadLast /\ IntactAnswered /\ RepliesCount

\* Of the listener and the connection the invariant only asks whether it failed.
LEMMA BridgeElsewhere ==
  ASSUME BridgeInv, UNCHANGED <<written, stream, replies, cut, merged>>,
         bridge' \in {"Down", "Listening"},
         peer' \in {"Closed", "Open", "Shut", "Ended", "Failed"}, peer = "Failed" => peer' = "Failed"
  PROVE  BridgeInv'
<1>1. StreamInOrder' /\ UncutWhole' /\ UnreadLast'
  BY DEF BridgeInv, StreamInOrder, UncutWhole, UnreadLast, Unread, PartUnread
<1>2. IntactAnswered'
  BY DEF BridgeInv, IntactAnswered, Unread
<1>3. RepliesCount'
  BY DEF BridgeInv, RepliesCount, ReplyTo, Unread
<1> QED
  BY <1>1, <1>2, <1>3 DEF BridgeInv, BridgeTypeOK

\* The parts of a message written come after all that are unread.
LEMMA WriteStep == ASSUME BridgeInv, Write PROVE BridgeInv'
<1>1. PICK msg \in Messages :
         /\ written' = Append(written, msg)
         /\ stream' = stream \o [i \in 1 .. msg.parts |-> <<Len(written'), i>>]
  BY DEF Write
<1>2. PICK w \in Nat : w = Len(written)
  BY DEF BridgeInv, BridgeTypeOK
<1>3. PICK l \in Nat : l = Len(stream)
  BY DEF BridgeInv, BridgeTypeOK
<1>4. PICK n \in Nat \ {0} : n = msg.parts
  BY BridgeConstants DEF Messages
<1>5. /\ Len(written') = w + 1 /\ written'[w + 1] = msg /\ written' \in Seq(Messages)
      /\ \A m \in 1 .. w : written'[m] = written[m]
  BY <1>1, <1>2 DEF BridgeInv, BridgeTypeOK
<1>6. w + 1 <= MaxMessages /\ w + 1 \in Ids
  BY <1>2, BridgeConstants DEF Write, Ids
<1>7. /\ stream' \in Seq(Ids \X Nat) /\ Len(stream') = l + n
      /\ \A j \in 1 .. l : stream'[j] = stream[j]
      /\ \A i \in 1 .. n : stream'[l + i] = <<w + 1, i>>
  <2>1. PICK S : S = Ids \X Nat
    OBVIOUS
  <2>2. PICK new : new = [i \in 1 .. n |-> <<w + 1, i>>]
    OBVIOUS
  <2>3. Len(new) = n /\ \A i \in 1 .. n : new[i] = <<w + 1, i>>
    BY <1>6, <2>1, <2>2
  <2>6. new \in Seq(S)
    BY <1>6, <2>1, <2>2
  <2>4. stream' = stream \o new /\ stream \in Seq(S)
    BY <1>1, <1>4, <1>5, <2>1, <2>2 DEF BridgeInv, BridgeTypeOK
  <2>5. /\ stream' \in Seq(S) /\ Len(stream') = Len(stream) + Len(new)
        /\ \A i \in 1 .. Len(stream) : stream'[i] = stream[i]
        /\ \A i \in 1 .. Len(new) : stream'[Len(stream) + i] = new[i]
    BY <2>4, <2>6, Concatenation
  <2> QED
    BY <1>3, <2>1, <2>3, <2>5, Zenon
<1>8. DOMAIN stream = 1 .. l /\ DOMAIN stream' = 1 .. l + n
  BY <1>3, <1>7 DEF BridgeInv, BridgeTypeOK
<1>9. \A j \in 1 .. l : stream[j][1] \in 1 .. w /\ stream[j][2] \in 1 .. written[stream[j][1]].parts
  BY <1>2, <1>8 DEF BridgeInv, StreamInOrder
<1>20. /\ \A j \in 1 .. l : stream'[j] = stream[j]
       /\ \A i \in 1 .. n : stream'[l + i] = <<w + 1, i>>
  BY <1>7
<1>10. ASSUME NEW j \in 1 .. l + n, j \notin 1 .. l
       PROVE  stream'[j] = <<w + 1, j - l>> /\ j - l \in 1 .. n
  <2>1. j - l \in 1 .. n /\ l + (j - l) = j
    BY <1>10
  <2> QED
    BY <1>20, <2>1
<1>11. \A j \in 1 .. l + n : j \in 1 .. l \/ (stream'[j] = <<w + 1, j - l>> /\ j - l \in 1 .. n)
  BY <1>10, Zenon
<1>21. \A j \in 1 .. l : j \in 1 .. l + n
  OBVIOUS
<1>12. /\ cut' = cut /\ merged' = merged /\ replies' = replies
  BY DEF Write
<1>13. ASSUME NEW m \in 1 .. w PROVE Unread(m)' <=> Unread(m)
  <2>1. Unread(m) => Unread(m)'
    BY <1>8, <1>20, <1>21 DEF Unread
  <2>2. ASSUME NEW j \in 1 .. l + n, stream'[j][1] = m PROVE Unread(m)
    <3>1. j \in 1 .. l
      BY <1>11, <2>2
    <3> QED
      BY <1>8, <1>20, <2>2, <3>1 DEF Unread
  <2> QED
    BY <1>8, <2>1, <2>2 DEF Unread
<1>14. Unread(w + 1)' /\ \A i \in 1 .. n : PartUnread(w + 1, i)'
  <2>1. \A i \in 1 .. n : l + i \in 1 .. l + n
    OBVIOUS
  <2>2. \A i \in 1 .. n : PartUnread(w + 1, i)'
    BY <1>8, <1>20, <2>1 DEF PartUnread
  <2>3. l + 1 \in 1 .. l + n /\ stream'[l + 1] = <<w + 1, 1>>
    BY <1>20
  <2> QED
    BY <1>8, <2>2, <2>3 DEF Unread
<1>15. StreamInOrder'
  <2>1. ASSUME NEW j \in 1 .. l + n
        PROVE  stream'[j][1] \in 1 .. w + 1 /\ stream'[j][2] \in 1 .. written'[stream'[j][1]].parts
    <3>1. CASE j \in 1 .. l
      <4>1. PICK m \in 1 .. w : m = stream[j][1]
        BY <1>9, <3>1
      <4>2. written'[m] = written[m] /\ stream'[j] = stream[j] /\ m \in 1 .. w + 1
        BY <1>5, <1>20, <3>1
      <4> QED
        BY <1>9, <3>1, <4>1, <4>2
    <3>2. CASE j \notin 1 .. l
      BY <1>4, <1>5, <1>11, <3>2
    <3> QED
      BY <3>1, <3>2
  <2>2. ASSUME NEW j \in 1 .. l + n, NEW k \in 1 .. l + n, j < k PROVE Earlier(stream'[j], stream'[k])
    <3>1. CASE k \in 1 .. l
      <4>1. j \in 1 .. l
        BY <2>2, <3>1
      <4>2. Earlier(stream[j], stream[k])
        BY <1>8, <2>2, <3>1, <4>1 DEF BridgeInv, StreamInOrder
      <4> QED
        BY <1>20, <3>1, <4>1, <4>2
    <3>2. CASE k \notin 1 .. l /\ j \in 1 .. l
      <4>1. stream'[j][1] \in 1 .. w /\ stream'[k][1] = w + 1
        BY <1>20, <1>9, <1>11, <3>2
      <4> QED
        BY <4>1 DEF Earlier
    <3>3. CASE k \notin 1 .. l /\ j \notin 1 .. l
      BY <1>11, <2>2, <3>3 DEF Earlier
    <3> QED
      BY <3>1, <3>2, <3>3
  <2> QED
    BY <1>5, <1>8, <2>1, <2>2 DEF StreamInOrder
<1>16. UncutWhole'
  <2> SUFFICES ASSUME NEW m \in (1 .. w + 1) \ cut, Unread(m)', NEW i \in 1 .. written'[m].parts
               PROVE  PartUnread(m, i)'
    BY <1>5, <1>12 DEF UncutWhole
  <2>1. CASE m = w + 1
    BY <1>4, <1>5, <1>14, <2>1
  <2>2. CASE m # w + 1
    <3>1. m \in (1 .. w) \ cut /\ Unread(m) /\ i \in 1 .. written[m].parts
      BY <1>5, <1>13, <2>2
    <3>2. PartUnread(m, i)
      BY <1>2, <3>1 DEF BridgeInv, UncutWhole
    <3> QED
      BY <1>8, <1>20, <1>21, <3>2 DEF PartUnread
  <2> QED
    BY <2>1, <2>2
<1>22. UnreadLast'
  <2> SUFFICES ASSUME NEW m \in 1 .. w + 1, NEW k \in 1 .. w + 1, Unread(m)', m < k
               PROVE  Unread(k)'
    BY <1>5 DEF UnreadLast
  <2>1. CASE k = w + 1
    BY <1>14, <2>1
  <2>2. CASE k # w + 1
    <3>1. m \in 1 .. w /\ k \in 1 .. w
      BY <2>2
    <3>2. Unread(k)
      BY <1>2, <1>13, <3>1 DEF BridgeInv, UnreadLast
    <3> QED
      BY <1>13, <3>1, <3>2
  <2> QED
    BY <2>1, <2>2
<1>17. IntactAnswered'
  <2> SUFFICES ASSUME NEW m \in (1 .. w + 1) \ (cut \cup merged), ~ Unread(m)', written'[m].kind = "Sync"
               PROVE  \E i \in DOMAIN replies : replies[i] = m
    BY <1>5, <1>12 DEF IntactAnswered
  <2>1. m \in 1 .. w /\ ~ Unread(m) /\ written[m].kind = "Sync"
    BY <1>5, <1>13, <1>14
  <2>2. peer = "Open"
    BY DEF Write
  <2> QED
    BY <1>2, <2>1, <2>2 DEF BridgeInv, IntactAnswered
<1>18. RepliesCount'
  <2> SUFFICES ASSUME cut \cup merged = {} PROVE RepliesCount'
    BY <1>12 DEF RepliesCount
  <2>1. PICK r \in Nat : r = Len(replies) /\ DOMAIN replies = 1 .. r
    BY DEF BridgeInv, BridgeTypeOK
  <2>2. /\ r <= w /\ \A m \in 1 .. w : Unread(m) <=> m > r
        /\ \A i \in 1 .. r : replies[i] = ReplyTo(i)
    <3>1. peer # "Failed"
      BY DEF Write
    <3>2. PICK d \in {0, 1} :
             /\ d = 1 => peer = "Failed"
             /\ r + d <= w /\ \A m \in 1 .. w : Unread(m) <=> m > r + d
             /\ \A i \in 1 .. r : replies[i] = ReplyTo(i)
      BY <1>2, <2>1, Zenon DEF BridgeInv, RepliesCount
    <3>3. r + d = r
      BY <3>1, <3>2
    <3> QED
      BY <3>2, <3>3, Zenon
  <2>3. \A m \in 1 .. w + 1 : Unread(m)' <=> m > r
    BY <1>13, <1>14, <2>2
  <2>4. \A i \in 1 .. r : ReplyTo(i)' = ReplyTo(i)
    BY <1>5, <2>2 DEF ReplyTo
  <2> QED
    BY <1>5, <1>12, <2>1, <2>2, <2>3, <2>4 DEF RepliesCount
<1> QED
  BY <1>5, <1>6, <1>7, <1>12, <1>15, <1>16, <1>22, <1>17, <1>18 DEF BridgeInv, BridgeTypeOK, Write

\* A turn reads up to a buffer of parts, and replies to the first message in it, or
\* fails to.
LEMMA TurnStep == ASSUME BridgeInv, Turn \/ WriteFails PROVE BridgeInv'
<1>1. PICK l \in Nat \ {0} : l = Len(stream) /\ DOMAIN stream = 1 .. l
  BY DEF Turn, WriteFails, BridgeInv, BridgeTypeOK
<1>2. PICK n \in 1 .. l :
         LET chunk == SubSeq(stream, 1, n)
             touched == {chunk[j][1] : j \in DOMAIN chunk}
         IN  /\ stream' = SubSeq(stream, n + 1, Len(stream))
             /\ \/ peer' = peer /\ \E m \in Deserialized(chunk) : replies' = Append(replies, ReplyTo(m))
                \/ peer' = "Failed" /\ replies' = replies
             /\ cut' = cut \cup (touched \ Whole(chunk))
             /\ merged' = merged \cup (Whole(chunk) \ {chunk[1][1]})
  <2>1. ReadSizes \subseteq 1 .. l
    BY <1>1, BridgeConstants DEF ReadSizes
  <2>2. CASE Turn
    BY <2>1, <2>2, Zenon DEF Turn, Read, Chunk
  <2>3. CASE WriteFails
    BY <2>1, <2>3, Zenon DEF WriteFails, Read, Chunk
  <2> QED
    BY <2>2, <2>3
<1>3. /\ SubSeq(stream, 1, n) \in Seq(Ids \X Nat) /\ Len(SubSeq(stream, 1, n)) = n
      /\ \A i \in 1 .. n : SubSeq(stream, 1, n)[i] = stream[i]
      /\ SubSeq(stream, n + 1, Len(stream)) \in Seq(Ids \X Nat)
      /\ Len(SubSeq(stream, n + 1, Len(stream))) = Len(stream) - n
      /\ \A i \in 1 .. Len(stream) - n : SubSeq(stream, n + 1, Len(stream))[i] = stream[n + i]
  <2>1. stream \in Seq(Ids \X Nat) /\ n \in 0 .. Len(stream)
    BY <1>1 DEF BridgeInv, BridgeTypeOK
  <2>2. PICK S : S = Ids \X Nat
    OBVIOUS
  <2>3. stream \in Seq(S)
    BY <2>1, <2>2
  <2>4. \A s \in Seq(S) : \A k \in 0 .. Len(s) :
           /\ SubSeq(s, 1, k) \in Seq(S) /\ Len(SubSeq(s, 1, k)) = k
           /\ \A i \in 1 .. k : SubSeq(s, 1, k)[i] = s[i]
           /\ SubSeq(s, k + 1, Len(s)) \in Seq(S) /\ Len(SubSeq(s, k + 1, Len(s))) = Len(s) - k
           /\ \A i \in 1 .. Len(s) - k : SubSeq(s, k + 1, Len(s))[i] = s[k + i]
    BY Splitting, Zenon
  <2>5. \A k \in 0 .. Len(stream) :
           /\ SubSeq(stream, 1, k) \in Seq(S) /\ Len(SubSeq(stream, 1, k)) = k
           /\ \A i \in 1 .. k : SubSeq(stream, 1, k)[i] = stream[i]
           /\ SubSeq(stream, k + 1, Len(stream)) \in Seq(S)
           /\ Len(SubSeq(stream, k + 1, Len(stream))) = Len(stream) - k
           /\ \A i \in 1 .. Len(stream) - k : SubSeq(stream, k + 1, Len(stream))[i] = stream[k + i]
    BY <2>3, <2>4, Zenon
  <2> QED
    BY <2>1, <2>2, <2>5, Zenon
<1>4. PICK chunk : /\ chunk = SubSeq(stream, 1, n)
                   /\ DOMAIN chunk = 1 .. n /\ \A j \in 1 .. n : chunk[j] = stream[j]
  BY <1>3, Elements
<1>30. stream' \in Seq(Ids \X Nat) /\ DOMAIN stream' = 1 .. l - n
  BY <1>1, <1>2, <1>3, Elements
<1>5. /\ DOMAIN stream' = 1 .. l - n
      /\ \A j \in 1 .. l - n : stream'[j] = stream[n + j]
  BY <1>1, <1>2, <1>3, <1>30, Zenon
<1>31. /\ \/ peer' = peer /\ \E m \in Deserialized(chunk) : replies' = Append(replies, ReplyTo(m))
          \/ peer' = "Failed" /\ replies' = replies
       /\ cut' = cut \cup ({chunk[j][1] : j \in 1 .. n} \ Whole(chunk))
       /\ merged' = merged \cup (Whole(chunk) \ {chunk[1][1]})
  BY <1>2, <1>4, Zenon
<1>32. DOMAIN chunk = 1 .. n /\ \A j \in 1 .. n : chunk[j] = stream[j]
  BY <1>4
<1>33. 1 \in 1 .. n
  OBVIOUS
<1>6. PICK w \in Nat : w = Len(written) /\ w <= MaxMessages
  BY DEF BridgeInv, BridgeTypeOK
<1>7. written' = written /\ bridge' = bridge /\ peer \in {"Open", "Shut"}
  BY DEF Turn, WriteFails
<1> DEFINE InChunk(m) == \E j \in 1 .. n : stream[j][1] = m
           AllRead(m) == m \in 1 .. w /\ \A i \in 1 .. written[m].parts : \E j \in 1 .. n : stream[j] = <<m, i>>
<1>8. \A m : m \in Whole(chunk) <=> AllRead(m)
  BY <1>32, <1>6 DEF Whole
<1>9. PICK first \in 1 .. w : first = stream[1][1]
  BY <1>1, <1>6 DEF BridgeInv, StreamInOrder
<1>10. /\ \A m : m \in cut' <=> m \in cut \/ (InChunk(m) /\ ~ AllRead(m))
       /\ \A m : m \in merged' <=> m \in merged \/ (AllRead(m) /\ m # first)
  <2>1. /\ \A m : m \in {chunk[j][1] : j \in 1 .. n} <=> InChunk(m)
        /\ chunk[1][1] = first
    BY <1>9, <1>32, <1>33
  <2> HIDE DEF InChunk, AllRead
  <2> QED
    BY <1>8, <1>31, <2>1
<1>11. \A m : Unread(m)' => Unread(m)
  <2>1. \A j \in 1 .. l - n : n + j \in 1 .. l
    OBVIOUS
  <2> QED
    BY <1>1, <1>5, <2>1 DEF Unread
<1>12. \A m : Unread(m) => Unread(m)' \/ InChunk(m)
  <2> SUFFICES ASSUME NEW m, NEW j \in 1 .. l, stream[j][1] = m PROVE Unread(m)' \/ InChunk(m)
    BY <1>1 DEF Unread
  <2>1. CASE j \in 1 .. n
    BY <2>1
  <2>2. CASE j \notin 1 .. n
    <3>1. j - n \in 1 .. l - n /\ n + (j - n) = j
      BY <2>2
    <3> QED
      BY <1>5, <3>1 DEF Unread
  <2> QED
    BY <2>1, <2>2
<1>13. \A m \in 1 .. w : written[m].parts \in Nat \ {0}
  <2>2. \A m \in 1 .. w : written[m] \in Messages
    BY <1>6, Elements DEF BridgeInv, BridgeTypeOK
  <2> QED
    BY <2>2, BridgeConstants DEF Messages
<1>14. ASSUME NEW m, AllRead(m)
       PROVE  InChunk(m) /\ \E j \in 1 .. n : stream[j] = <<m, 1>>
  <2>1. 1 \in 1 .. written[m].parts
    BY <1>13, <1>14
  <2>2. PICK j \in 1 .. n : stream[j] = <<m, 1>>
    BY <1>14, <2>1
  <2> QED
    BY <2>2
<1>15. \A j, k \in 1 .. l : j < k => Earlier(stream[j], stream[k])
  BY <1>1 DEF BridgeInv, StreamInOrder
<1>16. \A j \in 1 .. l : /\ stream[j][1] \in 1 .. w /\ stream[j][2] \in 1 .. written[stream[j][1]].parts
                         /\ stream[j][2] \in Nat /\ stream[j] = <<stream[j][1], stream[j][2]>>
  <2>1. \A j \in 1 .. l : stream[j][1] \in 1 .. w /\ stream[j][2] \in 1 .. written[stream[j][1]].parts
    BY <1>1, <1>6 DEF BridgeInv, StreamInOrder
  <2>2. \A j \in 1 .. l : stream[j] \in Ids \X Nat
    BY <1>1, Elements DEF BridgeInv, BridgeTypeOK
  <2> QED
    BY <2>1, <2>2
\* What is left comes after every part that was read.
<1>17. \A j \in 1 .. n, k \in 1 .. l - n : Earlier(stream[j], stream'[k])
  <2>1. \A j \in 1 .. n, k \in 1 .. l - n : j \in 1 .. l /\ n + k \in 1 .. l /\ j < n + k
    OBVIOUS
  <2> QED
    BY <1>5, <1>15, <2>1
<1>18. \A m : AllRead(m) => ~ Unread(m)'
  <2> SUFFICES ASSUME NEW m, AllRead(m), NEW k \in 1 .. l - n, stream'[k][1] = m PROVE FALSE
    BY <1>5 DEF Unread
  <2>1. n + k \in 1 .. l
    OBVIOUS
  <2>2. stream'[k] = <<m, stream'[k][2]>> /\ stream'[k][2] \in 1 .. written[m].parts
    BY <1>5, <1>16, <2>1
  <2>3. PICK j \in 1 .. n : stream[j] = <<m, stream'[k][2]>>
    BY <2>2
  <2> QED
    BY <1>17, <2>2, <2>3, <1>13 DEF Earlier
\* The message read first is read from its start, if all of it is read.
<1>19. AllRead(first) => stream[1] = <<first, 1>>
  <2> SUFFICES ASSUME AllRead(first) PROVE stream[1] = <<first, 1>>
    OBVIOUS
  <2>1. PICK j \in 1 .. n : stream[j] = <<first, 1>>
    BY <1>14
  <2>2. j = 1
    BY <1>9, <1>15, <1>16, <2>1 DEF Earlier
  <2> QED
    BY <2>1, <2>2
<1> HIDE DEF InChunk, AllRead
<1>29. PICK reply \in Deserialized(chunk), lost \in {0, 1} :
          /\ lost = 0 => peer' = peer /\ replies' = Append(replies, ReplyTo(reply))
          /\ lost = 1 => peer' = "Failed" /\ replies' = replies
  <2>1. Deserialized(chunk) # {}
    BY DEF Deserialized
  <2> QED
    BY <1>31, <2>1
<1> USE DEF InChunk, AllRead
<1>20. /\ AllRead(first) => reply = first
       /\ reply \in 0 .. w
  <2>1. chunk[1] = stream[1] /\ chunk[1][1] = first
    BY <1>9, <1>32, <1>33
  <2>2. first \in Whole(chunk) <=> AllRead(first)
    BY <1>8
  <2> HIDE DEF InChunk, AllRead
  <2>3. AllRead(first) => chunk[1][2] = 1
    BY <1>19, <2>1
  <2>4. reply = first \/ reply = 0
    BY <1>29, <2>1 DEF Deserialized
  <2>5. AllRead(first) => reply = first
    BY <1>29, <2>1, <2>2, <2>3 DEF Deserialized
  <2> QED
    BY <2>4, <2>5
<1>21. PICK r \in Nat : r = Len(replies) /\ DOMAIN replies = 1 .. r
  BY DEF BridgeInv, BridgeTypeOK
<1>22. ReplyTo(reply) \in 0 .. MaxMessages
  BY <1>6, <1>20, BridgeConstants DEF ReplyTo
<1>23. /\ replies' \in Seq(0 .. MaxMessages) /\ \A i \in 1 .. r : replies'[i] = replies[i]
       /\ Len(replies') = r + 1 - lost /\ DOMAIN replies' = 1 .. r + 1 - lost
       /\ lost = 0 => replies'[r + 1] = ReplyTo(reply)
  <2> DEFINE S == 0 .. MaxMessages
  <2>1. replies \in Seq(S)
    BY DEF BridgeInv, BridgeTypeOK
  <2>2. PICK e \in S : e = ReplyTo(reply)
    BY <1>22
  <2> HIDE DEF S
  <2>3. CASE lost = 0
    <3>1. replies' = Append(replies, e)
      BY <1>29, <2>2, <2>3
    <3>2. /\ replies' \in Seq(S) /\ Len(replies') = Len(replies) + 1
          /\ \A i \in 1 .. Len(replies) : replies'[i] = replies[i]
          /\ replies'[Len(replies) + 1] = e
      BY <2>1, <2>2, <3>1, Appending
    <3>3. Len(replies') = r + 1 - lost
      BY <1>21, <2>3, <3>2
    <3>4. DOMAIN replies' = 1 .. r + 1 - lost
      BY <3>2, <3>3, Elements
    <3> QED
      BY <1>21, <2>2, <2>3, <3>2, <3>3, <3>4, Zenon DEF S
  <2>4. CASE lost = 1
    <3>1. replies' = replies /\ r + 1 - lost = r
      BY <1>29, <2>4
    <3>2. lost # 0
      BY <2>4
    <3> QED
      BY <1>21, <2>1, <3>1, <3>2, Zenon DEF S
  <2> QED
    BY <2>3, <2>4
<1>35. Unread(first) /\ \A k \in 1 .. w : ~ Unread(k) => k < first
  <2>1. Unread(first)
    BY <1>1, <1>9 DEF Unread
  <2> QED
    BY <1>6, <2>1 DEF BridgeInv, UnreadLast
<1>24. cut' \subseteq Ids /\ merged' \subseteq Ids
  <2>1. 1 .. w \subseteq Ids /\ cut \subseteq Ids /\ merged \subseteq Ids
    BY <1>6, BridgeConstants DEF BridgeInv, BridgeTypeOK, Ids
  <2>2. \A m : InChunk(m) => m \in 1 .. w
    BY <1>16
  <2>3. \A m : AllRead(m) => m \in 1 .. w
    OBVIOUS
  <2> HIDE DEF InChunk, AllRead
  <2> QED
    BY <1>10, <2>1, <2>2, <2>3
<1>25. StreamInOrder'
  <2>1. \A k \in 1 .. l - n : n + k \in 1 .. l /\ stream'[k] = stream[n + k]
    BY <1>5
  <2>2. \A j, k \in 1 .. l - n : j < k => Earlier(stream'[j], stream'[k])
    BY <1>15, <2>1
  <2>3. \A j \in 1 .. l - n : /\ stream'[j][1] \in 1 .. w
                              /\ stream'[j][2] \in 1 .. written[stream'[j][1]].parts
    BY <1>16, <2>1
  <2> QED
    BY <1>5, <1>6, <1>7, <2>2, <2>3 DEF StreamInOrder
<1>26. UncutWhole'
  <2> SUFFICES ASSUME NEW m \in 1 .. w, m \notin cut', Unread(m)', NEW i \in 1 .. written[m].parts
               PROVE  PartUnread(m, i)'
    BY <1>6, <1>7 DEF UncutWhole
  <2>1. m \notin cut /\ ~ InChunk(m)
    BY <1>10, <1>18
  <2>2. PartUnread(m, i)
    BY <1>6, <1>11, <2>1 DEF BridgeInv, UncutWhole
  <2>3. PICK j \in 1 .. l : stream[j] = <<m, i>>
    BY <1>1, <2>2 DEF PartUnread
  <2>4. j - n \in 1 .. l - n /\ n + (j - n) = j
    BY <2>1, <2>3
  <2> QED
    BY <1>5, <2>3, <2>4 DEF PartUnread
<1>36. UnreadLast'
  <2> SUFFICES ASSUME NEW m \in 1 .. w, NEW k \in 1 .. w, Unread(m)', m < k PROVE Unread(k)'
    BY <1>6, <1>7 DEF UnreadLast
  <2>1. Unread(k)
    BY <1>6, <1>11 DEF BridgeInv, UnreadLast
  <2>2. PICK i \in 1 .. l - n : stream'[i][1] = m
    BY <1>5 DEF Unread
  <2>3. ~ InChunk(k)
    <3> SUFFICES ASSUME NEW j \in 1 .. n, stream[j][1] = k PROVE FALSE
      OBVIOUS
    <3>1. Earlier(stream[j], stream'[i])
      BY <1>17
    <3> QED
      BY <2>2, <3>1 DEF Earlier
  <2> HIDE DEF InChunk, AllRead
  <2> QED
    BY <1>12, <2>1, <2>3
<1>27. IntactAnswered'
  <2> SUFFICES ASSUME NEW m \in 1 .. w, m \notin cut', m \notin merged', ~ Unread(m)', written[m].kind = "Sync"
               PROVE  \/ \E i \in DOMAIN replies' : replies'[i] = m
                      \/ /\ peer' = "Failed"
                         /\ \A k \in 1 .. w : k \in cut' \cup merged' \/ Unread(k)' \/ k <= m
    BY <1>6, <1>7 DEF IntactAnswered
  <2>1. CASE Unread(m)
    <3>1. AllRead(m) /\ m = first
      BY <1>10, <1>12, <2>1
    <3>2. CASE lost = 0
      <4>1. reply = m /\ m # 0
        BY <1>20, <3>1
      <4>2. ReplyTo(reply) = m
        BY <4>1 DEF ReplyTo
      <4>3. r + 1 \in DOMAIN replies'
        BY <1>23, <3>2
      <4> QED
        BY <1>23, <3>2, <4>2, <4>3, Zenon
    <3>3. CASE lost = 1
      <4> SUFFICES ASSUME NEW k \in 1 .. w, k \notin cut', k \notin merged', ~ Unread(k)' PROVE k <= m
        BY <1>29, <3>3
      <4>1. CASE ~ Unread(k)
        BY <1>35, <3>1, <4>1
      <4>2. CASE Unread(k)
        BY <1>10, <1>12, <3>1, <4>2
      <4> QED
        BY <4>1, <4>2
    <3> QED
      BY <3>2, <3>3
  <2>2. CASE ~ Unread(m)
    <3>1. \E i \in 1 .. r : replies[i] = m
      BY <1>6, <1>7, <1>10, <1>21, <2>2 DEF BridgeInv, IntactAnswered
    <3> QED
      BY <1>23, <3>1
  <2> QED
    BY <2>1, <2>2
<1>28. RepliesCount'
  <2> SUFFICES ASSUME cut' \cup merged' = {} PROVE RepliesCount'
    BY DEF RepliesCount
  <2>1. cut \cup merged = {} /\ \A m : InChunk(m) <=> m = first
    <3>1. InChunk(first)
      BY <1>9
    <3>2. \A m : InChunk(m) => AllRead(m) /\ m = first
      BY <1>10
    <3> QED
      BY <1>10, <3>1, <3>2
  <2>2. /\ r <= w /\ \A m \in 1 .. w : Unread(m) <=> m > r
        /\ \A i \in 1 .. r : replies[i] = ReplyTo(i)
    BY <1>6, <1>7, <1>21, <2>1 DEF BridgeInv, RepliesCount
  <2>3. AllRead(first)
    <3>1. first \notin cut'
      OBVIOUS
    <3> HIDE DEF InChunk, AllRead
    <3>2. InChunk(first)
      BY <2>1
    <3> QED
      BY <1>10, <3>1, <3>2
  <2>4. first = r + 1
    <3>1. first > r /\ r + 1 \in 1 .. w
      BY <1>35, <2>2
    <3>2. Unread(r + 1)
      BY <2>2, <3>1
    <3>3. PICK j \in 1 .. l : stream[j][1] = r + 1
      BY <1>1, <3>2 DEF Unread
    <3>4. j = 1 \/ first <= r + 1
      <4>1. 1 \in 1 .. l /\ (j = 1 \/ 1 < j)
        OBVIOUS
      <4>2. j = 1 \/ Earlier(stream[1], stream[j])
        BY <1>15, <4>1
      <4> QED
        BY <1>9, <3>3, <4>2 DEF Earlier
    <3> QED
      BY <1>9, <3>1, <3>3, <3>4
  <2>5. \A m \in 1 .. w : Unread(m)' <=> m > r + 1
    <3> HIDE DEF InChunk, AllRead
    <3>1. ASSUME NEW m \in 1 .. w PROVE Unread(m)' <=> Unread(m) /\ m # first
      BY <1>11, <1>12, <1>18, <2>1, <2>3
    <3>2. ASSUME NEW m \in 1 .. w PROVE m > r /\ m # r + 1 <=> m > r + 1
      OBVIOUS
    <3> QED
      BY <2>2, <2>4, <3>1, <3>2
  <2>6. lost = 0 => replies'[r + 1] = ReplyTo(r + 1)
    BY <1>20, <1>23, <2>3, <2>4
  <2>7. \A i : ReplyTo(i)' = ReplyTo(i)
    BY <1>7 DEF ReplyTo
  <2> HIDE DEF InChunk, AllRead
  <2>8. \A i \in 1 .. r + 1 - lost : replies'[i] = ReplyTo(i)
    <3>1. \A i \in 1 .. r + 1 - lost : i \in 1 .. r \/ (i = r + 1 /\ lost = 0)
      OBVIOUS
    <3>2. \A i \in 1 .. r : replies'[i] = replies[i]
      BY <1>23
    <3> QED
      BY <2>2, <2>6, <3>1, <3>2
  <2>9. r + 1 <= w /\ r + 1 - lost + lost = r + 1
    BY <2>4
  <2>10. /\ lost = 1 => peer' = "Failed"
         /\ Len(replies') + lost <= Len(written')
         /\ \A m \in 1 .. Len(written') : Unread(m)' <=> m > Len(replies') + lost
         /\ \A i \in DOMAIN replies' : replies'[i] = ReplyTo(i)'
    BY <1>6, <1>7, <1>23, <1>29, <2>5, <2>7, <2>8, <2>9
  <2> QED
    BY <2>10, Zenon DEF RepliesCount
<1> HIDE DEF InChunk, AllRead
<1>34. BridgeTypeOK'
  <2>1. peer' \in {"Open", "Shut", "Failed"}
    BY <1>7, <1>31
  <2> QED
    BY <1>7, <1>23, <1>24, <1>30, <2>1 DEF BridgeInv, BridgeTypeOK
<1> QED
  BY <1>6, <1>7, <1>25, <1>26, <1>27, <1>28, <1>34, <1>36, Zenon DEF BridgeInv

(* The invariant of the bridge: what is not read comes in the order        *)
(* written, and a message no read cut is there as a whole.                 *)
THEOREM BridgeInvariance == BridgeSpec => []BridgeInv
<1>1. BridgeInit => BridgeInv
  BY BridgeConstants DEF BridgeInit, BridgeInv, BridgeTypeOK, StreamInOrder, UncutWhole,
     UnreadLast, IntactAnswered, RepliesCount, Unread
<1>2. BridgeInv /\ [BridgeNext]_bridgeVars => BridgeInv'
  <2> SUFFICES ASSUME BridgeInv, [BridgeNext]_bridgeVars PROVE BridgeInv'
    OBVIOUS
  <2>1. bridge \in {"Down", "Listening"} /\ peer \in {"Closed", "Open", "Shut", "Ended", "Failed"}
    BY DEF BridgeInv, BridgeTypeOK
  <2>2. CASE StartBridge \/ StopBridge \/ Accept \/ Shut \/ ReadFails \/ EndLoop
    BY <2>1, <2>2, BridgeElsewhere DEF StartBridge, StopBridge, Accept, Shut, ReadFails, EndLoop
  <2>3. CASE UNCHANGED bridgeVars
    BY <2>1, <2>3, BridgeElsewhere DEF bridgeVars
  <2> QED
    BY <2>2, <2>3, WriteStep, TurnStep DEF BridgeNext
<1> QED
  BY <1>1, <1>2, PTL DEF BridgeSpec

(* Every Sync read alone, or first in its read, has its acknowledgement,   *)
(* but for the last of a connection that failed; while no read cut or      *)
(* merged messages there is one reply for each, in their order, and one    *)
(* less at most if the connection failed.                                  *)
THEOREM BridgeAnswers == BridgeSpec => []RepliesAccounted
<1>1. BridgeInv => RepliesAccounted
  <2> SUFFICES ASSUME BridgeInv PROVE RepliesAccounted
    OBVIOUS
  <2>1. \A m : m \in Intact <=> m \in (1 .. Len(written)) \ (cut \cup merged) /\ ~ Unread(m)
    BY DEF Intact, Unread
  <2>2. ASSUME NEW m \in Unanswered PROVE peer = "Failed" /\ \A k \in Intact : k <= m
    BY <2>1 DEF BridgeInv, IntactAnswered, Unanswered
  <2>3. ASSUME cut \cup merged = {}
        PROVE  /\ \/ Len(replies) = Cardinality(Intact)
                  \/ peer = "Failed" /\ Len(replies) + 1 = Cardinality(Intact)
               /\ \A i \in DOMAIN replies : replies[i] = ReplyTo(i)
    <3>1. PICK r \in Nat, w \in Nat : r = Len(replies) /\ w = Len(written)
      BY DEF BridgeInv, BridgeTypeOK
    <3>2. PICK d \in {0, 1} :
             /\ d = 1 => peer = "Failed"
             /\ r + d <= w /\ \A m \in 1 .. w : Unread(m) <=> m > r + d
             /\ \A i \in DOMAIN replies : replies[i] = ReplyTo(i)
      BY <2>3, <3>1 DEF BridgeInv, RepliesCount
    <3>3. Intact = 1 .. r + d
      <4>1. \A m : m \in Intact <=> m \in 1 .. w /\ ~ Unread(m)
        BY <2>1, <2>3, <3>1
      <4>2. \A m : m \in 1 .. r + d <=> m \in 1 .. w /\ ~ m > r + d
        BY <3>2
      <4> QED
        BY <3>2, <4>1, <4>2
    <3>4. Cardinality(1 .. r + d) = r + d
      <4>1. PICK k \in Nat : k = r + d
        OBVIOUS
      <4>2. Cardinality(1 .. k) = IF 1 > k THEN 0 ELSE k - 1 + 1
        BY FS_Interval
      <4> QED
        BY <4>1, <4>2
    <3> QED
      BY <3>1, <3>2, <3>3, <3>4
  <2> QED
    BY <2>2, <2>3 DEF RepliesAccounted
<1> QED
  BY <1>1, BridgeInvariance, PTL

-----------------------------------------------------------------------------
(* The metrics.                                                            *)

(* Induction over sets of numbers and over finite sets, with a set for the *)
(* property.                                                               *)

\* A set of numbers has a least one.
LEMMA LeastElement ==
  ASSUME NEW T, T \subseteq Nat, T # {}
  PROVE  \E n \in T : \A m \in T : n <= m
<1>1. PICK R : R = OpToRel(<, Nat)
  OBVIOUS
<1>2. IsWellFoundedOn(R, Nat)
  BY <1>1, NatLessThanWellFounded
<1>3. PICK n \in T : \A m \in T : ~ (<<m, n>> \in R)
  BY <1>2, WFMin
<1>4. \A m \in T : (<<m, n>> \in R) <=> (m < n)
  BY <1>1 DEF OpToRel
<1>5. ASSUME NEW m \in T PROVE n <= m
  <2>1. ~ (m < n) /\ m \in Nat /\ n \in Nat
    BY <1>3, <1>4
  <2> QED
    BY <2>1
<1> QED
  BY <1>5

\* A set that has 0, and the next of each number it has, has all of them.
LEMMA NumberInduction ==
  ASSUME NEW D, 0 \in D, \A k \in Nat : k \in D => k + 1 \in D
  PROVE  Nat \subseteq D
<1>1. SUFFICES ASSUME Nat \ D # {} PROVE FALSE
  OBVIOUS
<1>2. PICK n \in Nat \ D : \A m \in Nat \ D : n <= m
  BY <1>1, LeastElement
<1>3. n # 0 /\ n - 1 \in Nat /\ ~ (n <= n - 1) /\ (n - 1) + 1 = n
  BY <1>2
<1>4. n - 1 \in D
  BY <1>2, <1>3
<1> QED
  BY <1>2, <1>3, <1>4

\* A set of subsets of S that has the empty one, and each whose own parts, smaller
\* by an element, it has, has all of them.
LEMMA SubsetInduction ==
  ASSUME NEW S, IsFiniteSet(S), NEW D, {} \in D,
         \A s \in SUBSET S : s # {} /\ (\A n \in s : s \ {n} \in D) => s \in D
  PROVE  SUBSET S \subseteq D
<1> DEFINE K == {k \in Nat : \A s \in SUBSET S : Cardinality(s) = k => s \in D}
<1>1. \A s \in SUBSET S : IsFiniteSet(s) /\ Cardinality(s) \in Nat
  BY FS_Subset, FS_CardinalityType
<1>2. 0 \in K
  <2>1. ASSUME NEW s \in SUBSET S, Cardinality(s) = 0 PROVE s \in D
    BY <1>1, <2>1, FS_EmptySet
  <2> QED
    BY <2>1
<1>3. ASSUME NEW k \in Nat, k \in K PROVE k + 1 \in K
  <2>1. ASSUME NEW s \in SUBSET S, Cardinality(s) = k + 1 PROVE s \in D
    <3>1. s # {}
      BY <2>1, FS_EmptySet
    <3>2. ASSUME NEW n \in s PROVE s \ {n} \in D
      <4>1. s \ {n} \in SUBSET S /\ Cardinality(s \ {n}) = Cardinality(s) - 1
        BY <1>1, FS_RemoveElement
      <4>2. Cardinality(s \ {n}) = k
        BY <2>1, <4>1
      <4> QED
        BY <1>3, <4>1, <4>2
    <3> QED
      BY <3>1, <3>2
  <2> QED
    BY <2>1
<1> HIDE DEF K
<1>4. Nat \subseteq K
  BY <1>2, <1>3, NumberInduction
<1> QED
  BY <1>1, <1>4 DEF K

(* Sums of a function over a finite set, as MapThenSumSet takes them.      *)
ChosenIn(s) == CHOOSE n \in s : TRUE
IsSum(sums, f, S) ==
    sums = [s \in SUBSET S |-> IF s = {} THEN 0 ELSE f[ChosenIn(s)] + sums[s \ {ChosenIn(s)}]]

Summed(sums, f, S) ==
    /\ sums[{}] = 0
    /\ \A s \in SUBSET S : s # {} => /\ ChosenIn(s) \in s /\ s \ {ChosenIn(s)} \in SUBSET S
                                     /\ sums[s] = f[ChosenIn(s)] + sums[s \ {ChosenIn(s)}]

\* What the sums of f are, place by place.
LEMMA SumAt ==
  ASSUME NEW S, NEW f, NEW sums, IsSum(sums, f, S)
  PROVE  Summed(sums, f, S)
<1>1. \A s \in SUBSET S : s # {} => ChosenIn(s) \in s
  BY DEF ChosenIn
<1>2. DOMAIN sums = SUBSET S /\ {} \in SUBSET S
  BY DEF IsSum
<1>3. \A s \in SUBSET S : sums[s] = IF s = {} THEN 0 ELSE f[ChosenIn(s)] + sums[s \ {ChosenIn(s)}]
  BY DEF IsSum
<1> QED
  BY <1>1, <1>2, <1>3 DEF Summed

\* A function of numbers on a finite set has sums: built up by the size of the subsets.
LEMMA SumsExist ==
  ASSUME NEW S, IsFiniteSet(S), NEW f \in [S -> Nat]
  PROVE  \E sums : IsSum(sums, f, S)
<1> DEFINE Value(g, s) == IF s = {} THEN 0 ELSE f[ChosenIn(s)] + g[s \ {ChosenIn(s)}]
           K == {k \in Nat : \E g \in [SUBSET S -> Nat] :
                      \A s \in SUBSET S : Cardinality(s) <= k => g[s] = Value(g, s)}
<1>1. \A s \in SUBSET S : /\ IsFiniteSet(s) /\ Cardinality(s) \in Nat
                          /\ Cardinality(s) <= Cardinality(S)
  BY FS_Subset, FS_CardinalityType
<1>2. 0 \in K
  <2>1. PICK g \in [SUBSET S -> Nat] : g = [s \in SUBSET S |-> 0]
    OBVIOUS
  <2>2. ASSUME NEW s \in SUBSET S, Cardinality(s) <= 0 PROVE g[s] = Value(g, s)
    <3>1. s = {}
      BY <1>1, <2>2, FS_EmptySet
    <3> QED
      BY <2>1, <3>1
  <2> QED
    BY <2>2
<1>3. ASSUME NEW k \in Nat, k \in K PROVE k + 1 \in K
  <2>1. PICK g \in [SUBSET S -> Nat] : \A s \in SUBSET S : Cardinality(s) <= k => g[s] = Value(g, s)
    BY <1>3
  <2>2. ASSUME NEW s \in SUBSET S PROVE Value(g, s) \in Nat
    <3>1. s # {} => ChosenIn(s) \in S /\ s \ {ChosenIn(s)} \in SUBSET S
      BY DEF ChosenIn
    <3>2. s # {} => f[ChosenIn(s)] \in Nat /\ g[s \ {ChosenIn(s)}] \in Nat
      BY <3>1
    <3> QED
      BY <3>2
  <2>3. PICK h \in [SUBSET S -> Nat] : h = [s \in SUBSET S |-> Value(g, s)]
    BY <2>2
  <2>4. ASSUME NEW s \in SUBSET S, Cardinality(s) <= k + 1 PROVE h[s] = Value(h, s)
    <3>1. CASE s = {}
      BY <2>3, <3>1
    <3>2. CASE s # {}
      <4>1. PICK r \in SUBSET S : r = s \ {ChosenIn(s)} /\ ChosenIn(s) \in s
        BY <3>2 DEF ChosenIn
      <4>2. Cardinality(r) = Cardinality(s) - 1
        BY <1>1, <4>1, FS_RemoveElement
      <4>3. Cardinality(r) <= k
        BY <1>1, <2>4, <4>2
      <4>4. g[r] = Value(g, r)
        BY <2>1, <4>3
      <4>5. h[r] = Value(g, r)
        BY <2>3
      <4>6. h[s] = Value(g, s)
        BY <2>3
      <4>7. Value(g, s) = f[ChosenIn(s)] + g[r] /\ Value(h, s) = f[ChosenIn(s)] + h[r]
        BY <3>2, <4>1
      <4> QED
        BY <4>4, <4>5, <4>6, <4>7
    <3> QED
      BY <3>1, <3>2
  <2>5. k + 1 \in Nat /\ \A s \in SUBSET S : Cardinality(s) <= k + 1 => h[s] = Value(h, s)
    BY <2>4
  <2> HIDE DEF Value
  <2> QED
    BY <2>5
<1> HIDE DEF K
<1>4. Nat \subseteq K
  BY <1>2, <1>3, NumberInduction
<1>5. Cardinality(S) \in K
  BY <1>4, FS_CardinalityType
<1>6. PICK g \in [SUBSET S -> Nat] : \A s \in SUBSET S : g[s] = Value(g, s)
  BY <1>1, <1>5 DEF K
<1>7. g = [s \in SUBSET S |-> Value(g, s)]
  BY <1>6
<1> QED
  BY <1>7 DEF IsSum

\* They are numbers.
LEMMA SumTyped ==
  ASSUME NEW S, IsFiniteSet(S), NEW f \in [S -> Nat], NEW sums, IsSum(sums, f, S)
  PROVE  \A s \in SUBSET S : sums[s] \in Nat
<1>1. Summed(sums, f, S)
  BY SumAt, Zenon
<1>2. PICK D : D = {s \in SUBSET S : sums[s] \in Nat}
  OBVIOUS
<1>3. {} \in D
  BY <1>2, <1>1 DEF Summed
<1>4. ASSUME NEW s \in SUBSET S, s # {}, \A n \in s : s \ {n} \in D PROVE s \in D
  <2>1. /\ ChosenIn(s) \in s /\ sums[s] = f[ChosenIn(s)] + sums[s \ {ChosenIn(s)}]
    BY <1>4, <1>1 DEF Summed
  <2>2. PICK a \in Nat, b \in Nat : a = f[ChosenIn(s)] /\ b = sums[s \ {ChosenIn(s)}]
    BY <1>2, <1>4, <2>1
  <2> QED
    BY <1>2, <2>1, <2>2
<1>5. SUBSET S \subseteq D
  BY <1>3, <1>4, SubsetInduction
<1> QED
  BY <1>2, <1>5

\* On S, g is d more than f at n and as f elsewhere.
Raised(g, f, n, d, S) == g[n] = f[n] + d /\ \A m \in S \ {n} : g[m] = f[m]

\* The sums of g are d more than those of f for the sets that have n.
SumsRaised(more, sums, n, d, S) ==
    \A s \in SUBSET S : more[s] = sums[s] + IF n \in s THEN d ELSE 0

\* A function that is d more at one place than another sums to d more where it counts.
LEMMA SumMore ==
  ASSUME NEW S, IsFiniteSet(S), NEW f \in [S -> Nat], NEW g \in [S -> Nat],
         NEW sums, IsSum(sums, f, S), NEW more, IsSum(more, g, S),
         NEW n \in S, NEW d \in Nat, Raised(g, f, n, d, S)
  PROVE  SumsRaised(more, sums, n, d, S)
<1>1. Summed(sums, f, S)
  BY SumAt, Zenon
<1>2. Summed(more, g, S)
  BY SumAt, Zenon
<1>3. PICK D : D = {s \in SUBSET S : more[s] = sums[s] + IF n \in s THEN d ELSE 0}
  OBVIOUS
<1>4. {} \in D
  BY <1>3, <1>1, <1>2 DEF Summed
<1>5. ASSUME NEW s \in SUBSET S, s # {}, \A m \in s : s \ {m} \in D PROVE s \in D
  <2>1. PICK m \in s, r \in SUBSET S : m = ChosenIn(s) /\ r = s \ {m}
    BY <1>5, <1>1, <1>2 DEF Summed
  <2>2. PICK a \in Nat, b \in Nat : a = f[m] /\ b = sums[r]
    BY <2>1, SumTyped
  <2>3. sums[s] = a + b /\ more[s] = g[m] + more[r]
    BY <1>5, <2>1, <2>2, <1>1, <1>2 DEF Summed
  <2>4. more[r] = b + IF n \in r THEN d ELSE 0
    BY <1>3, <1>5, <2>1, <2>2
  <2>5. CASE m = n
    <3>1. n \notin r /\ n \in s /\ g[m] = a + d
      BY <2>1, <2>2, <2>5 DEF Raised
    <3>2. more[s] = (a + d) + b
      BY <2>3, <2>4, <3>1
    <3> QED
      BY <1>3, <2>2, <2>3, <3>1, <3>2
  <2>6. CASE m # n
    <3>1. (n \in r <=> n \in s) /\ g[m] = a
      BY <2>1, <2>2, <2>6 DEF Raised
    <3> QED
      BY <1>3, <2>2, <2>3, <2>4, <3>1
  <2> QED
    BY <2>5, <2>6
<1>6. SUBSET S \subseteq D
  BY <1>4, <1>5, SubsetInduction
<1> QED
  BY <1>3, <1>6 DEF SumsRaised

\* Nothing sums to nothing.
LEMMA SumZero ==
  ASSUME NEW S, IsFiniteSet(S), NEW f \in [S -> Nat], \A n \in S : f[n] = 0,
         NEW sums, IsSum(sums, f, S)
  PROVE  \A s \in SUBSET S : sums[s] = 0
<1>1. Summed(sums, f, S)
  BY SumAt, Zenon
<1>2. PICK D : D = {s \in SUBSET S : sums[s] = 0}
  OBVIOUS
<1>3. {} \in D
  BY <1>2, <1>1 DEF Summed
<1>4. ASSUME NEW s \in SUBSET S, s # {}, \A n \in s : s \ {n} \in D PROVE s \in D
  <2>1. ChosenIn(s) \in s /\ sums[s] = f[ChosenIn(s)] + sums[s \ {ChosenIn(s)}]
    BY <1>4, <1>1 DEF Summed
  <2>2. f[ChosenIn(s)] = 0 /\ sums[s \ {ChosenIn(s)}] = 0
    BY <1>2, <1>4, <2>1
  <2> QED
    BY <1>2, <2>1, <2>2
<1>5. SUBSET S \subseteq D
  BY <1>3, <1>4, SubsetInduction
<1> QED
  BY <1>2, <1>5

\* The two sums of the collector are of this kind.
LEMMA CallsSum ==
  ASSUME IsFiniteSet(QueryNames), NEW stats, NEW f \in [QueryNames -> Nat],
         \A n \in QueryNames : f[n] = stats[n].total_calls
  PROVE  \E sums : IsSum(sums, f, QueryNames) /\ Calls(stats) = sums[QueryNames]
<1> DEFINE Body(sums) ==
              [s \in SUBSET QueryNames |->
                 IF s = {} THEN 0
                 ELSE stats[CHOOSE k \in s : TRUE].total_calls + sums[s \ {CHOOSE k \in s : TRUE}]]
           P(sums) == sums = Body(sums)
<1>1. ASSUME NEW sums PROVE P(sums) <=> IsSum(sums, f, QueryNames)
  <2>1. ASSUME NEW s \in SUBSET QueryNames
        PROVE  (IF s = {} THEN 0
                ELSE stats[CHOOSE k \in s : TRUE].total_calls + sums[s \ {CHOOSE k \in s : TRUE}])
               = IF s = {} THEN 0 ELSE f[ChosenIn(s)] + sums[s \ {ChosenIn(s)}]
    <3>1. s # {} => ChosenIn(s) \in QueryNames /\ ChosenIn(s) = CHOOSE k \in s : TRUE
      BY DEF ChosenIn
    <3>2. s # {} => f[ChosenIn(s)] = stats[CHOOSE k \in s : TRUE].total_calls
      BY <3>1
    <3> QED
      BY <3>1, <3>2
  <2>2. Body(sums) = [s \in SUBSET QueryNames |->
                        IF s = {} THEN 0 ELSE f[ChosenIn(s)] + sums[s \ {ChosenIn(s)}]]
    BY <2>1
  <2> HIDE DEF Body
  <2> QED
    BY <2>2 DEF IsSum
<1>2. Calls(stats) = (CHOOSE sums : P(sums))[QueryNames]
  BY DEF Calls, MapThenSumSet, MapThenFoldSet
<1> HIDE DEF P
<1>3. PICK sums : IsSum(sums, f, QueryNames)
  BY SumsExist, Zenon
<1>4. P(CHOOSE s : P(s))
  BY <1>1, <1>3
<1> QED
  BY <1>1, <1>2, <1>4

\* The cached calls are a sum of the kind of CallsSum.
LEMMA CachedSum ==
  ASSUME IsFiniteSet(QueryNames), NEW stats, NEW f \in [QueryNames -> Nat],
         \A n \in QueryNames : f[n] = stats[n].cached_calls
  PROVE  \E sums : IsSum(sums, f, QueryNames) /\ Cached(stats) = sums[QueryNames]
<1> DEFINE Body(sums) ==
              [s \in SUBSET QueryNames |->
                 IF s = {} THEN 0
                 ELSE stats[CHOOSE k \in s : TRUE].cached_calls + sums[s \ {CHOOSE k \in s : TRUE}]]
           P(sums) == sums = Body(sums)
<1>1. ASSUME NEW sums PROVE P(sums) <=> IsSum(sums, f, QueryNames)
  <2>1. ASSUME NEW s \in SUBSET QueryNames
        PROVE  (IF s = {} THEN 0
                ELSE stats[CHOOSE k \in s : TRUE].cached_calls + sums[s \ {CHOOSE k \in s : TRUE}])
               = IF s = {} THEN 0 ELSE f[ChosenIn(s)] + sums[s \ {ChosenIn(s)}]
    <3>1. s # {} => ChosenIn(s) \in QueryNames /\ ChosenIn(s) = CHOOSE k \in s : TRUE
      BY DEF ChosenIn
    <3>2. s # {} => f[ChosenIn(s)] = stats[CHOOSE k \in s : TRUE].cached_calls
      BY <3>1
    <3> QED
      BY <3>1, <3>2
  <2>2. Body(sums) = [s \in SUBSET QueryNames |->
                        IF s = {} THEN 0 ELSE f[ChosenIn(s)] + sums[s \ {ChosenIn(s)}]]
    BY <2>1
  <2> HIDE DEF Body
  <2> QED
    BY <2>2 DEF IsSum
<1>2. Cached(stats) = (CHOOSE sums : P(sums))[QueryNames]
  BY DEF Cached, MapThenSumSet, MapThenFoldSet
<1> HIDE DEF P
<1>3. PICK sums : IsSum(sums, f, QueryNames)
  BY SumsExist, Zenon
<1>4. P(CHOOSE s : P(s))
  BY <1>1, <1>3
<1> QED
  BY <1>1, <1>2, <1>4

-----------------------------------------------------------------------------
QueryCounts == [total_calls : Nat, cached_calls : Nat]
MetricRecords == [query_stats : [QueryNames -> QueryCounts], cache_hits : Nat, cache_misses : Nat,
                  memory_usage : Nat, active_operations : SUBSET Spans]
MeterCalls == [call : {"record"}, cached : BOOLEAN]
              \cup [call : {"snapshot"}, at : 1 .. 6, read : MetricRecords]
              \cup [call : {"reset"}, at : 1 .. 6] \cup {Unmetered}

MetricsInv ==
    /\ MetricsTypeOK /\ metrics \in MetricRecords /\ meter \in [Metered -> MeterCalls]

\* The name of a call tells which record it is.
LEMMA MeterKinds ==
  ASSUME NEW c \in MeterCalls
  PROVE  /\ c.call \in {"none", "record", "snapshot", "reset"}
         /\ c.call = "record" => c \in [call : {"record"}, cached : BOOLEAN]
         /\ c.call = "snapshot" => c \in [call : {"snapshot"}, at : 1 .. 6, read : MetricRecords]
         /\ c.call = "reset" => c \in [call : {"reset"}, at : 1 .. 6]
  BY DEF MeterCalls, Unmetered

\* A new collector has the type of one.
LEMMA NoMetricsTyped == NoMetrics \in MetricRecords
  BY DEF NoMetrics, MetricRecords, Uncalled, QueryCounts

\* A step that counts.
LEMMA CountedSteps ==
  ASSUME MetricsInv, CountersNext PROVE MetricsInv'
<1> USE DEF MetricsInv
<1>1. ASSUME NEW t \in Metered, Record(t) PROVE MetricsInv'
  <2>1. PICK n \in QueryNames, cached \in BOOLEAN :
           /\ metrics' = [metrics EXCEPT !.query_stats[n] =
                            [total_calls |-> @.total_calls + 1,
                             cached_calls |-> @.cached_calls + IF cached THEN 1 ELSE 0]]
           /\ meter' = [meter EXCEPT ![t] = [call |-> "record", cached |-> cached]]
    BY <1>1 DEF Record
  <2>2. PICK counts \in [QueryNames -> QueryCounts] : counts = metrics.query_stats
    BY DEF MetricRecords
  <2>3. PICK count \in QueryCounts :
           /\ count = [total_calls |-> counts[n].total_calls + 1,
                       cached_calls |-> counts[n].cached_calls + IF cached THEN 1 ELSE 0]
           /\ count.cached_calls <= count.total_calls
    <3>1. counts[n] \in QueryCounts /\ counts[n].cached_calls <= counts[n].total_calls
      BY <2>2 DEF MetricsTypeOK
    <3>2. PICK a \in Nat, b \in Nat :
             a = counts[n].total_calls /\ b = counts[n].cached_calls /\ b <= a
      BY <3>1 DEF QueryCounts
    <3>3. PICK d \in 0 .. 1 : d = IF cached THEN 1 ELSE 0
      OBVIOUS
    <3>4. a + 1 \in Nat /\ b + d \in Nat /\ b + d <= a + 1
      BY <3>2, <3>3
    <3>5. [total_calls |-> a + 1, cached_calls |-> b + d] \in QueryCounts
      BY <3>4 DEF QueryCounts
    <3> QED
      BY <3>2, <3>3, <3>4, <3>5
  <2>4. metrics' = [metrics EXCEPT !.query_stats = [counts EXCEPT ![n] = count]]
    BY <2>1, <2>2, <2>3 DEF MetricRecords
  <2>5. /\ metrics' \in MetricRecords
        /\ \A m \in QueryNames : metrics'.query_stats[m].cached_calls <= metrics'.query_stats[m].total_calls
        /\ metrics'.active_operations = metrics.active_operations
    BY <2>2, <2>3, <2>4 DEF MetricRecords, MetricsTypeOK
  <2>6. [call |-> "record", cached |-> cached] \in MeterCalls
    BY DEF MeterCalls
  <2>7. meter' \in [Metered -> MeterCalls]
    BY <2>1, <2>6
  <2> QED
    BY <1>1, <2>5, <2>7, MeterKinds DEF Record, Torn, MetricsTypeOK, MetricRecords
<1>2. ASSUME NEW t \in Metered, Count(t) PROVE MetricsInv'
  <2>1. PICK f \in {"cache_hits", "cache_misses"} : metrics' = [metrics EXCEPT ![f] = @ + 1]
    BY <1>2 DEF Count, Counter
  <2>2. /\ metrics' \in MetricRecords /\ metrics'.query_stats = metrics.query_stats
        /\ metrics'.active_operations = metrics.active_operations
    BY <2>1 DEF MetricRecords
  <2>3. meter' \in [Metered -> MeterCalls]
    BY <1>2 DEF Count, MeterCalls
  <2> QED
    BY <1>2, <2>2, <2>3, MeterKinds DEF Count, Torn, MetricsTypeOK, MetricRecords
<1>3. ASSUME CountDirect PROVE MetricsInv'
  <2>1. PICK f \in {"cache_hits", "cache_misses"} : metrics' = [metrics EXCEPT ![f] = @ + 1]
    BY <1>3 DEF CountDirect, Counter
  <2>2. /\ metrics' \in MetricRecords /\ metrics'.query_stats = metrics.query_stats
        /\ metrics'.active_operations = metrics.active_operations
    BY <2>1 DEF MetricRecords
  <2> QED
    BY <1>3, <2>2, MeterKinds DEF CountDirect, Torn, MetricsTypeOK, MetricRecords
<1> QED
  BY <1>1, <1>2, <1>3 DEF CountersNext

\* A step of the memory gauge or of a span.
LEMMA GaugedSteps ==
  ASSUME MetricsInv, GaugesNext PROVE MetricsInv'
<1> USE DEF MetricsInv
<1>1. ASSUME Meter PROVE MetricsInv'
  <2>1. PICK usage \in Nat : metrics' = [metrics EXCEPT !.memory_usage = usage]
    BY <1>1, MetricsConstants DEF Meter, MetricRecords
  <2>2. /\ metrics' \in MetricRecords /\ metrics'.query_stats = metrics.query_stats
        /\ metrics'.active_operations = metrics.active_operations
    BY <2>1 DEF MetricRecords
  <2> QED
    BY <1>1, <2>2, MeterKinds DEF Meter, MetricsTypeOK, MetricRecords
<1>2. ASSUME NEW active \in SUBSET Spans, metrics' = [metrics EXCEPT !.active_operations = active],
             active \subseteq spans', spans' \subseteq Spans, UNCHANGED <<meter, torn>>
      PROVE  MetricsInv'
  <2>1. /\ metrics' \in MetricRecords /\ metrics'.query_stats = metrics.query_stats
        /\ metrics'.active_operations = active
    BY <1>2 DEF MetricRecords
  <2> QED
    BY <1>2, <2>1, MeterKinds DEF MetricsTypeOK, MetricRecords
<1>3. ASSUME StartOperation PROVE MetricsInv'
  <2>1. PICK span \in Spans : /\ spans' = spans \cup {span}
                              /\ metrics' = [metrics EXCEPT !.active_operations = @ \cup {span}]
    BY <1>3 DEF StartOperation, MetricsTypeOK
  <2>2. PICK active \in SUBSET Spans : active = metrics.active_operations \cup {span}
    BY DEF MetricRecords
  <2>3. /\ metrics' = [metrics EXCEPT !.active_operations = active]
        /\ active \subseteq spans' /\ spans' \subseteq Spans /\ UNCHANGED <<meter, torn>>
    BY <1>3, <2>1, <2>2 DEF StartOperation, MetricsTypeOK
  <2> QED
    BY <1>2, <2>3
<1>4. ASSUME DropGuard PROVE MetricsInv'
  <2>1. PICK span \in spans : /\ spans' = spans \ {span}
                              /\ metrics' = [metrics EXCEPT !.active_operations = @ \ {span}]
    BY <1>4 DEF DropGuard
  <2>2. PICK active \in SUBSET Spans : active = metrics.active_operations \ {span}
    BY DEF MetricRecords
  <2>3. /\ metrics' = [metrics EXCEPT !.active_operations = active]
        /\ active \subseteq spans' /\ spans' \subseteq Spans /\ UNCHANGED <<meter, torn>>
    BY <1>4, <2>1, <2>2 DEF DropGuard, MetricsTypeOK
  <2> QED
    BY <1>2, <2>3
<1> QED
  BY <1>1, <1>3, <1>4 DEF GaugesNext

\* A step of a snapshot or of a reset.
LEMMA WholeSteps ==
  ASSUME MetricsInv, WholeNext PROVE MetricsInv'
<1> USE DEF MetricsInv
<1>2. ASSUME NEW t \in Metered, NEW c \in MeterCalls, meter' = [meter EXCEPT ![t] = c],
             UNCHANGED <<metrics, spans>>, torn' \in BOOLEAN
      PROVE  MetricsInv'
  BY <1>2, MeterKinds DEF MetricsTypeOK
<1>3. ASSUME NEW t \in Metered, BeginSnapshot(t) \/ BeginReset(t) \/ EndFields(t) PROVE MetricsInv'
  <2>1. [call |-> "snapshot", at |-> 1, read |-> NoMetrics] \in MeterCalls
    BY NoMetricsTyped DEF MeterCalls
  <2>2. [call |-> "reset", at |-> 1] \in MeterCalls /\ Unmetered \in MeterCalls
    BY DEF MeterCalls
  <2>3. UNCHANGED <<metrics, spans>> /\ torn' \in BOOLEAN
    BY <1>3 DEF BeginSnapshot, BeginReset, EndFields, Torn, MetricsTypeOK
  <2> QED
    BY <1>2, <1>3, <2>1, <2>2, <2>3 DEF BeginSnapshot, BeginReset, EndFields
<1>4. ASSUME NEW t \in Metered, NextField(t) PROVE MetricsInv'
  <2>1. PICK w \in MeterCalls : w = meter[t]
    OBVIOUS
  <2>2. PICK f \in {"query_stats", "cache_hits", "cache_misses", "memory_usage", "active_operations"} :
           f = Fields[w.at] /\ w.at \in 1 .. 5
    <3>1. w.at \in 1 .. 6 /\ w.at <= 5
      BY <1>4, <2>1, MeterKinds DEF NextField, Fields
    <3> QED
      BY <3>1 DEF Fields
  <2>3. CASE w.call = "reset"
    <3>1. w \in [call : {"reset"}, at : 1 .. 6]
      BY <2>3, MeterKinds
    <3>2. PICK c \in MeterCalls : c = [w EXCEPT !.at = @ + 1] /\ c.call = "reset"
      <4>1. w.at + 1 \in 1 .. 6
        BY <2>2
      <4>2. [w EXCEPT !.at = @ + 1] \in [call : {"reset"}, at : 1 .. 6]
        BY <3>1, <4>1
      <4> QED
        BY <4>2 DEF MeterCalls
    <3>3. metrics' = [metrics EXCEPT ![f] = NoMetrics[f]] /\ meter' = [meter EXCEPT ![t] = c]
      BY <1>4, <2>1, <2>2, <2>3, <3>2 DEF NextField
    <3>4. /\ metrics' \in MetricRecords
          /\ metrics'.query_stats \in {metrics.query_stats, NoMetrics.query_stats}
          /\ metrics'.active_operations \subseteq metrics.active_operations
      BY <3>3, NoMetricsTyped DEF MetricRecords, NoMetrics
    <3>5. \A n \in QueryNames : metrics'.query_stats[n].cached_calls <= metrics'.query_stats[n].total_calls
      BY <3>4 DEF NoMetrics, Uncalled, MetricsTypeOK
    <3>6. meter' \in [Metered -> MeterCalls]
      BY <3>3
    <3> QED
      BY <1>4, <3>4, <3>5, <3>6, MeterKinds DEF NextField, MetricsTypeOK, MetricRecords
  <2>4. CASE w.call = "snapshot"
    <3>1. w \in [call : {"snapshot"}, at : 1 .. 6, read : MetricRecords]
      BY <2>4, MeterKinds
    <3>2. PICK shot \in MetricRecords : shot = [w.read EXCEPT ![f] = metrics[f]]
      BY <3>1 DEF MetricRecords
    <3>3. PICK c \in MeterCalls : c = [w EXCEPT !.read = shot, !.at = @ + 1]
      <4>1. w.at + 1 \in 1 .. 6
        BY <2>2
      <4>2. [w EXCEPT !.read = shot, !.at = @ + 1]
               \in [call : {"snapshot"}, at : 1 .. 6, read : MetricRecords]
        BY <3>1, <4>1
      <4> QED
        BY <4>2 DEF MeterCalls
    <3>4. meter' = [meter EXCEPT ![t] = c] /\ UNCHANGED <<metrics, spans, torn>>
      BY <1>4, <2>1, <2>2, <2>4, <3>1, <3>2, <3>3 DEF NextField
    <3> QED
      BY <1>2, <3>4 DEF MetricsTypeOK
  <2> QED
    BY <1>4, <2>1, <2>3, <2>4 DEF NextField
<1> QED
  BY <1>3, <1>4 DEF WholeNext

\* The collector as it is made.
LEMMA MetricsStart == MetricsInit => MetricsInv
<1> SUFFICES ASSUME MetricsInit PROVE MetricsInv
  OBVIOUS
<1>1. metrics \in MetricRecords /\ Unmetered \in MeterCalls
  BY NoMetricsTyped DEF MetricsInit, MeterCalls
<1>2. meter \in [Metered -> MeterCalls]
  BY <1>1 DEF MetricsInit
<1>3. \A n \in QueryNames : metrics.query_stats[n] = Uncalled
  BY DEF MetricsInit, NoMetrics
<1>4. metrics.active_operations = {}
  BY DEF MetricsInit, NoMetrics
<1>5. \A n \in QueryNames : metrics.query_stats[n].cached_calls <= metrics.query_stats[n].total_calls
  BY <1>3 DEF Uncalled
<1>6. {metrics.cache_hits, metrics.cache_misses, metrics.memory_usage} \subseteq Nat
  BY <1>1 DEF MetricRecords
<1>7. MetricsTypeOK
  BY <1>2, <1>4, <1>5, <1>6, MeterKinds DEF MetricsInit, MetricsTypeOK
<1> QED
  BY <1>1, <1>2, <1>6, <1>7 DEF MetricsInv

(* The invariant of the metrics: each field keeps its type, in the         *)
(* collector and in every snapshot, and no query is cached more often than *)
(* it is called.                                                           *)
THEOREM MetricsInvariance == MetricsSpec => []MetricsInv
<1>1. MetricsInit => MetricsInv
  BY MetricsStart
<1>2. MetricsInv /\ [MetricsNext]_metricVars => MetricsInv'
  <2>1. ASSUME MetricsInv, UNCHANGED metricVars PROVE MetricsInv'
    BY <2>1 DEF metricVars, MetricsInv, MetricsTypeOK
  <2> QED
    BY <2>1, CountedSteps, GaugedSteps, WholeSteps DEF MetricsNext
<1> QED
  BY <1>1, <1>2, PTL DEF MetricsSpec

-----------------------------------------------------------------------------
\* What a function of the names sums to, for the two counts that are kept of each.
LEMMA CountsTyped ==
  ASSUME NEW stats \in [QueryNames -> QueryCounts]
  PROVE  Calls(stats) \in Nat /\ Cached(stats) \in Nat
<1>1. PICK f \in [QueryNames -> Nat], g \in [QueryNames -> Nat] :
         \A n \in QueryNames : f[n] = stats[n].total_calls /\ g[n] = stats[n].cached_calls
  <2>1. \A n \in QueryNames : stats[n].total_calls \in Nat /\ stats[n].cached_calls \in Nat
    BY DEF QueryCounts
  <2>2. /\ [n \in QueryNames |-> stats[n].total_calls] \in [QueryNames -> Nat]
        /\ [n \in QueryNames |-> stats[n].cached_calls] \in [QueryNames -> Nat]
    BY <2>1
  <2> QED
    BY <2>2
<1>2. IsFiniteSet(QueryNames)
  BY MetricsConstants
<1>3. PICK a : IsSum(a, f, QueryNames) /\ Calls(stats) = a[QueryNames]
  BY <1>1, <1>2, CallsSum
<1>4. PICK b : IsSum(b, g, QueryNames) /\ Cached(stats) = b[QueryNames]
  BY <1>1, <1>2, CachedSum
<1>5. a[QueryNames] \in Nat /\ b[QueryNames] \in Nat
  BY <1>2, <1>3, <1>4, SumTyped
<1> QED
  BY <1>3, <1>4, <1>5

\* A recorded call adds one to the calls of the names together, and one to the cached
\* ones when it was cached.
LEMMA CountOne ==
  ASSUME NEW stats \in [QueryNames -> QueryCounts], NEW n \in QueryNames, NEW d \in Nat,
         NEW more \in [QueryNames -> QueryCounts],
         more[n].total_calls = stats[n].total_calls + 1,
         more[n].cached_calls = stats[n].cached_calls + d,
         \A m \in QueryNames \ {n} : more[m] = stats[m]
  PROVE  Calls(more) = Calls(stats) + 1 /\ Cached(more) = Cached(stats) + d
<1>1. ASSUME NEW s \in [QueryNames -> QueryCounts]
      PROVE  \E f \in [QueryNames -> Nat], g \in [QueryNames -> Nat] :
               \A m \in QueryNames : f[m] = s[m].total_calls /\ g[m] = s[m].cached_calls
  <2>1. \A m \in QueryNames : s[m].total_calls \in Nat /\ s[m].cached_calls \in Nat
    BY DEF QueryCounts
  <2>2. /\ [m \in QueryNames |-> s[m].total_calls] \in [QueryNames -> Nat]
        /\ [m \in QueryNames |-> s[m].cached_calls] \in [QueryNames -> Nat]
    BY <2>1
  <2> QED
    BY <2>2
<1>2. PICK f \in [QueryNames -> Nat], g \in [QueryNames -> Nat] :
         \A m \in QueryNames : f[m] = stats[m].total_calls /\ g[m] = stats[m].cached_calls
  BY <1>1
<1>3. PICK p \in [QueryNames -> Nat], q \in [QueryNames -> Nat] :
         \A m \in QueryNames : p[m] = more[m].total_calls /\ q[m] = more[m].cached_calls
  BY <1>1
<1>4. IsFiniteSet(QueryNames) /\ QueryNames \in SUBSET QueryNames
  BY MetricsConstants
<1>5. PICK a : IsSum(a, f, QueryNames) /\ Calls(stats) = a[QueryNames]
  BY <1>2, <1>4, CallsSum
<1>6. PICK b : IsSum(b, g, QueryNames) /\ Cached(stats) = b[QueryNames]
  BY <1>2, <1>4, CachedSum
<1>7. PICK c : IsSum(c, p, QueryNames) /\ Calls(more) = c[QueryNames]
  BY <1>3, <1>4, CallsSum
<1>8. PICK e : IsSum(e, q, QueryNames) /\ Cached(more) = e[QueryNames]
  BY <1>3, <1>4, CachedSum
<1>9. Raised(p, f, n, 1, QueryNames) /\ Raised(q, g, n, d, QueryNames)
  BY <1>2, <1>3 DEF Raised
<1>10. SumsRaised(c, a, n, 1, QueryNames)
  <2>1. 1 \in Nat
    OBVIOUS
  <2> QED
    BY <1>2, <1>3, <1>4, <1>5, <1>7, <1>9, <2>1, SumMore, Zenon
<1>11. SumsRaised(e, b, n, d, QueryNames)
  BY <1>2, <1>3, <1>4, <1>6, <1>8, <1>9, SumMore, Zenon
<1> QED
  BY <1>4, <1>5, <1>6, <1>7, <1>8, <1>10, <1>11 DEF SumsRaised

\* After a reset no call is counted.
LEMMA CountNone == Calls(NoMetrics.query_stats) = 0 /\ Cached(NoMetrics.query_stats) = 0
<1>1. PICK f \in [QueryNames -> Nat] : f = [n \in QueryNames |-> 0]
  OBVIOUS
<1>2. \A n \in QueryNames : /\ f[n] = NoMetrics.query_stats[n].total_calls
                            /\ f[n] = NoMetrics.query_stats[n].cached_calls
  BY <1>1 DEF NoMetrics, Uncalled
<1>3. IsFiniteSet(QueryNames) /\ QueryNames \in SUBSET QueryNames
  BY MetricsConstants
<1>4. PICK a : IsSum(a, f, QueryNames) /\ Calls(NoMetrics.query_stats) = a[QueryNames]
  BY <1>2, <1>3, CallsSum
<1>5. PICK b : IsSum(b, f, QueryNames) /\ Cached(NoMetrics.query_stats) = b[QueryNames]
  BY <1>2, <1>3, CachedSum
<1>6. \A n \in QueryNames : f[n] = 0
  BY <1>1
<1>7. a[QueryNames] = 0 /\ b[QueryNames] = 0
  BY <1>3, <1>4, <1>5, <1>6, SumZero
<1> QED
  BY <1>4, <1>5, <1>7

-----------------------------------------------------------------------------
Ahead(t) == IF meter[t].cached THEN 1 ELSE 0

\* With no reset under way the counters are those of the calls recorded, but for the one
\* that record_query is to count still.
CountersAgree ==
    InCall("reset") = {} =>
        /\ InCall("record") = {} =>
               /\ metrics.cache_hits = Cached(metrics.query_stats) + direct.hits
               /\ metrics.cache_hits + metrics.cache_misses =
                      Calls(metrics.query_stats) + direct.hits + direct.misses
        /\ \A t \in InCall("record") :
               /\ metrics.cache_hits + Ahead(t) = Cached(metrics.query_stats) + direct.hits
               /\ metrics.cache_hits + metrics.cache_misses + 1 =
                      Calls(metrics.query_stats) + direct.hits + direct.misses

\* A reset is alone, and what it has passed is cleared.
ResetAlone ==
    \A t \in InCall("reset") :
        /\ \A u \in Metered \ {t} : meter[u] = Unmetered
        /\ meter[t].at > 1 => metrics.query_stats = NoMetrics.query_stats
        /\ meter[t].at > 2 => metrics.cache_hits = 0
        /\ meter[t].at > 3 => metrics.cache_misses = 0

\* What a snapshot read first is not ahead of what it reads next, or is to read.
Behind(t) ==
    LET shot == meter[t].read
        hits == IF meter[t].at > 2 THEN shot.cache_hits ELSE metrics.cache_hits
        misses == IF meter[t].at > 3 THEN shot.cache_misses ELSE metrics.cache_misses
    IN  meter[t].at > 1 =>
            Cached(shot.query_stats) <= hits /\ Calls(shot.query_stats) <= hits + misses

AddUpInv ==
    /\ MetricsInv /\ direct \in [hits : Nat, misses : Nat]
    /\ \A t, u \in InCall("record") : t = u
    /\ ~ torn => CountersAgree /\ ResetAlone /\ \A t \in InCall("snapshot") : Behind(t)

-----------------------------------------------------------------------------
\* A step after which the last reset overlapped nothing finds it so, and over.
LEMMA TornStep == Torn /\ ~ torn' => ~ torn /\ InCall("reset") = {}
  BY DEF Torn

\* The hits and misses counted outside record_query are numbers.
LEMMA DirectTyped ==
  ASSUME direct \in [hits : Nat, misses : Nat]
  PROVE  direct.hits \in Nat /\ direct.misses \in Nat
  OBVIOUS

\* A snapshot stays behind the counters when they only grow.
LEMMA BehindKept ==
  ASSUME NEW t \in InCall("snapshot"), MetricsInv, Behind(t), meter'[t] = meter[t],
         metrics'.cache_hits \in Nat, metrics'.cache_misses \in Nat,
         metrics'.cache_hits >= metrics.cache_hits, metrics'.cache_misses >= metrics.cache_misses
  PROVE  Behind(t)'
<1>1. PICK w \in [call : {"snapshot"}, at : 1 .. 6, read : MetricRecords] : w = meter[t]
  BY MeterKinds DEF InCall, MetricsInv
<1>2. /\ w.read.cache_hits \in Nat /\ w.read.cache_misses \in Nat
      /\ w.read.query_stats \in [QueryNames -> QueryCounts] /\ w.at \in 1 .. 6
      /\ metrics.cache_hits \in Nat /\ metrics.cache_misses \in Nat
  BY DEF MetricRecords, MetricsInv
<1>3. PICK a \in Nat, b \in Nat : a = Cached(w.read.query_stats) /\ b = Calls(w.read.query_stats)
  BY <1>2, CountsTyped
<1>4. PICK h \in Nat, m \in Nat, i \in Nat, j \in Nat, p \in Nat, q \in Nat :
         /\ h = metrics.cache_hits /\ m = metrics.cache_misses
         /\ i = metrics'.cache_hits /\ j = metrics'.cache_misses
         /\ p = w.read.cache_hits /\ q = w.read.cache_misses
  BY <1>2
<1>5. i >= h /\ j >= m
  BY <1>4
<1>6. w.at > 1 => /\ a <= IF w.at > 2 THEN p ELSE h
                  /\ b <= (IF w.at > 2 THEN p ELSE h) + IF w.at > 3 THEN q ELSE m
  BY <1>1, <1>3, <1>4 DEF Behind
<1>7. w.at > 1 => /\ a <= IF w.at > 2 THEN p ELSE i
                  /\ b <= (IF w.at > 2 THEN p ELSE i) + IF w.at > 3 THEN q ELSE j
  BY <1>2, <1>5, <1>6
<1> QED
  BY <1>1, <1>3, <1>4, <1>7 DEF Behind

\* record_query under the lock, before the counter.
LEMMA RecordAdds == ASSUME AddUpInv, NEW t \in Metered, Record(t) PROVE AddUpInv'
<1>1. MetricsInv'
  BY CountedSteps DEF CountersNext, AddUpInv
<1>2. PICK n \in QueryNames, cached \in BOOLEAN :
         /\ metrics' = [metrics EXCEPT !.query_stats[n] =
                          [total_calls |-> @.total_calls + 1,
                           cached_calls |-> @.cached_calls + IF cached THEN 1 ELSE 0]]
         /\ meter' = [meter EXCEPT ![t] = [call |-> "record", cached |-> cached]]
  BY DEF Record
<1>3. PICK stats \in [QueryNames -> QueryCounts], more \in [QueryNames -> QueryCounts] :
         stats = metrics.query_stats /\ more = metrics'.query_stats
  BY <1>1 DEF AddUpInv, MetricsInv, MetricRecords
<1>4. PICK d \in Nat : d = IF cached THEN 1 ELSE 0
  OBVIOUS
<1>5. /\ more[n].total_calls = stats[n].total_calls + 1
      /\ more[n].cached_calls = stats[n].cached_calls + d
      /\ \A m \in QueryNames \ {n} : more[m] = stats[m]
      /\ metrics'.cache_hits = metrics.cache_hits /\ metrics'.cache_misses = metrics.cache_misses
  BY <1>2, <1>3, <1>4 DEF AddUpInv, MetricsInv, MetricRecords
<1>6. Calls(more) = Calls(stats) + 1 /\ Cached(more) = Cached(stats) + d
  BY <1>3, <1>5, CountOne
<1>7. /\ meter'[t] = [call |-> "record", cached |-> cached]
      /\ \A u \in Metered \ {t} : meter'[u] = meter[u]
      /\ meter[t] = Unmetered /\ InCall("record") = {} /\ direct' = direct
      /\ Torn
  BY <1>2 DEF Record, StatsFree, AddUpInv, MetricsInv
<1>8. InCall("record")' = {t} /\ InCall("snapshot")' = InCall("snapshot")
  BY <1>7 DEF InCall, Unmetered
<1>9. ASSUME ~ torn' PROVE CountersAgree' /\ ResetAlone' /\ \A u \in InCall("snapshot")' : Behind(u)'
  <2>1. ~ torn /\ InCall("reset") = {} /\ InCall("reset")' = {}
    BY <1>7, <1>9, TornStep DEF InCall
  <2>2. /\ metrics.cache_hits = Cached(stats) + direct.hits
        /\ metrics.cache_hits + metrics.cache_misses = Calls(stats) + direct.hits + direct.misses
    BY <1>3, <1>7, <2>1 DEF AddUpInv, CountersAgree
  <2>3. PICK a \in Nat, b \in Nat, h \in Nat, m \in Nat, i \in Nat, j \in Nat :
           /\ a = Calls(stats) /\ b = Cached(stats)
           /\ h = metrics.cache_hits /\ m = metrics.cache_misses
           /\ i = direct.hits /\ j = direct.misses
    BY <1>3, CountsTyped, DirectTyped DEF AddUpInv, MetricsInv, MetricRecords
  <2>4. h + d = (b + d) + i /\ h + m + 1 = (a + 1) + i + j
    BY <1>4, <2>2, <2>3
  <2>5. CountersAgree'
    <3>1. Ahead(t)' = d
      BY <1>4, <1>7 DEF Ahead
    <3>2. /\ metrics'.cache_hits + Ahead(t)' = Cached(more) + direct'.hits
          /\ metrics'.cache_hits + metrics'.cache_misses + 1 = Calls(more) + direct'.hits + direct'.misses
      BY <1>5, <1>6, <1>7, <2>3, <2>4, <3>1
    <3> QED
      BY <1>3, <1>8, <3>2 DEF CountersAgree
  <2>6. ResetAlone'
    BY <2>1 DEF ResetAlone
  <2>7. ASSUME NEW u \in InCall("snapshot") PROVE Behind(u)'
    <3>1. u \in Metered \ {t} /\ Behind(u)
      BY <1>7, <2>1, <2>7 DEF InCall, Unmetered, AddUpInv
    <3>2. /\ meter'[u] = meter[u] /\ metrics'.cache_hits \in Nat /\ metrics'.cache_misses \in Nat
          /\ metrics'.cache_hits >= metrics.cache_hits /\ metrics'.cache_misses >= metrics.cache_misses
      BY <1>5, <1>7, <2>3, <3>1
    <3> QED
      BY <2>7, <3>1, <3>2, BehindKept DEF AddUpInv
  <2> QED
    BY <1>8, <2>5, <2>6, <2>7
<1> QED
  BY <1>1, <1>7, <1>8, <1>9 DEF AddUpInv

\* record_query at the counter.
LEMMA CountAdds == ASSUME AddUpInv, NEW t \in Metered, Count(t) PROVE AddUpInv'
<1>1. MetricsInv'
  BY CountedSteps DEF CountersNext, AddUpInv
<1>2. PICK d \in 0 .. 1 : d = Ahead(t)
  BY DEF Ahead
<1>3. /\ meter[t].call = "record" /\ meter' = [meter EXCEPT ![t] = Unmetered]
      /\ metrics' = [metrics EXCEPT ![IF d = 1 THEN "cache_hits" ELSE "cache_misses"] = @ + 1]
      /\ Torn /\ direct' = direct
  <2>1. meter[t].cached \in BOOLEAN
    BY MeterKinds DEF Count, AddUpInv, MetricsInv
  <2>2. CASE meter[t].cached
    BY <1>2, <2>2 DEF Count, Counter, Ahead
  <2>3. CASE ~ meter[t].cached
    BY <1>2, <2>3 DEF Count, Counter, Ahead
  <2> QED
    BY <2>1, <2>2, <2>3
<1>4. /\ metrics'.query_stats = metrics.query_stats
      /\ metrics'.cache_hits = metrics.cache_hits + d
      /\ metrics'.cache_misses = metrics.cache_misses + (1 - d)
      /\ metrics.cache_hits \in Nat /\ metrics.cache_misses \in Nat
      /\ metrics.query_stats \in [QueryNames -> QueryCounts]
  BY <1>3 DEF AddUpInv, MetricsInv, MetricRecords
<1>5. /\ meter'[t] = Unmetered /\ \A u \in Metered \ {t} : meter'[u] = meter[u]
      /\ InCall("record") = {t}
  BY <1>3 DEF AddUpInv, MetricsInv, InCall
<1>6. InCall("record")' = {} /\ InCall("snapshot")' = InCall("snapshot")
  BY <1>3, <1>5 DEF InCall, Unmetered
<1>7. ASSUME ~ torn' PROVE CountersAgree' /\ ResetAlone' /\ \A u \in InCall("snapshot")' : Behind(u)'
  <2>1. ~ torn /\ InCall("reset") = {} /\ InCall("reset")' = {}
    BY <1>3, <1>5, <1>7, TornStep DEF InCall, Unmetered
  <2>2. /\ metrics.cache_hits + d = Cached(metrics.query_stats) + direct.hits
        /\ metrics.cache_hits + metrics.cache_misses + 1 =
               Calls(metrics.query_stats) + direct.hits + direct.misses
    BY <1>2, <1>5, <2>1 DEF AddUpInv, CountersAgree
  <2>3. PICK a \in Nat, b \in Nat, h \in Nat, m \in Nat, i \in Nat, j \in Nat :
           /\ a = Calls(metrics.query_stats) /\ b = Cached(metrics.query_stats)
           /\ h = metrics.cache_hits /\ m = metrics.cache_misses
           /\ i = direct.hits /\ j = direct.misses
    BY <1>4, CountsTyped, DirectTyped DEF AddUpInv
  <2>4. h + d = b + i /\ (h + d) + (m + (1 - d)) = a + i + j
    BY <2>2, <2>3
  <2>5. CountersAgree'
    BY <1>3, <1>4, <1>6, <2>3, <2>4 DEF CountersAgree
  <2>6. ResetAlone'
    BY <2>1 DEF ResetAlone
  <2>7. ASSUME NEW u \in InCall("snapshot") PROVE Behind(u)'
    <3>1. u \in Metered \ {t} /\ Behind(u)
      BY <1>3, <2>1, <2>7 DEF InCall, AddUpInv
    <3>2. /\ meter'[u] = meter[u] /\ metrics'.cache_hits \in Nat /\ metrics'.cache_misses \in Nat
          /\ metrics'.cache_hits >= metrics.cache_hits /\ metrics'.cache_misses >= metrics.cache_misses
      BY <1>4, <1>5, <3>1
    <3> QED
      BY <2>7, <3>1, <3>2, BehindKept DEF AddUpInv
  <2> QED
    BY <1>6, <2>5, <2>6, <2>7
<1> QED
  BY <1>1, <1>3, <1>6, <1>7 DEF AddUpInv

\* record_cache_hit and record_cache_miss.
LEMMA DirectAdds == ASSUME AddUpInv, CountDirect PROVE AddUpInv'
<1>1. MetricsInv'
  BY CountedSteps DEF CountersNext, AddUpInv
<1>2. PICK d \in 0 .. 1 :
         /\ metrics' = [metrics EXCEPT ![IF d = 1 THEN "cache_hits" ELSE "cache_misses"] = @ + 1]
         /\ direct' = [direct EXCEPT ![IF d = 1 THEN "hits" ELSE "misses"] = @ + 1]
  <2>1. PICK cached \in BOOLEAN :
           /\ metrics' = [metrics EXCEPT ![Counter(cached)] = @ + 1]
           /\ direct' = [direct EXCEPT ![IF cached THEN "hits" ELSE "misses"] = @ + 1]
    BY DEF CountDirect
  <2>2. CASE cached
    BY <2>1, <2>2 DEF Counter
  <2>3. CASE ~ cached
    BY <2>1, <2>3 DEF Counter
  <2> QED
    BY <2>2, <2>3
<1>3. Torn /\ meter' = meter
  BY DEF CountDirect
<1>4. /\ metrics'.query_stats = metrics.query_stats
      /\ metrics'.cache_hits = metrics.cache_hits + d
      /\ metrics'.cache_misses = metrics.cache_misses + (1 - d)
      /\ metrics.cache_hits \in Nat /\ metrics.cache_misses \in Nat
      /\ metrics.query_stats \in [QueryNames -> QueryCounts]
  BY <1>2 DEF AddUpInv, MetricsInv, MetricRecords
<1>5. /\ direct' \in [hits : Nat, misses : Nat]
      /\ direct'.hits = direct.hits + d /\ direct'.misses = direct.misses + (1 - d)
  BY <1>2 DEF AddUpInv
<1>6. \A call : InCall(call)' = InCall(call)
  BY <1>3 DEF InCall
<1>7. ASSUME ~ torn' PROVE CountersAgree' /\ ResetAlone' /\ \A u \in InCall("snapshot")' : Behind(u)'
  <2>1. ~ torn /\ InCall("reset") = {} /\ InCall("reset")' = {}
    BY <1>3, <1>6, <1>7, TornStep
  <2>2. /\ InCall("record") = {} =>
               /\ metrics.cache_hits = Cached(metrics.query_stats) + direct.hits
               /\ metrics.cache_hits + metrics.cache_misses =
                      Calls(metrics.query_stats) + direct.hits + direct.misses
        /\ \A t \in InCall("record") :
               /\ metrics.cache_hits + Ahead(t) = Cached(metrics.query_stats) + direct.hits
               /\ metrics.cache_hits + metrics.cache_misses + 1 =
                      Calls(metrics.query_stats) + direct.hits + direct.misses
    BY <2>1 DEF AddUpInv, CountersAgree
  <2>3. PICK a \in Nat, b \in Nat, h \in Nat, m \in Nat, i \in Nat, j \in Nat :
           /\ a = Calls(metrics.query_stats) /\ b = Cached(metrics.query_stats)
           /\ h = metrics.cache_hits /\ m = metrics.cache_misses
           /\ i = direct.hits /\ j = direct.misses
    BY <1>4, CountsTyped, DirectTyped DEF AddUpInv
  <2>4. CountersAgree'
    <3>1. ASSUME InCall("record") = {}
          PROVE  h + d = b + (i + d) /\ (h + d) + (m + (1 - d)) = a + (i + d) + (j + (1 - d))
      BY <2>2, <2>3, <3>1
    <3>2. ASSUME NEW t \in InCall("record")
          PROVE  /\ (h + d) + Ahead(t)' = b + (i + d)
                 /\ (h + d) + (m + (1 - d)) + 1 = a + (i + d) + (j + (1 - d))
      <4>1. PICK e \in 0 .. 1 : e = Ahead(t) /\ e = Ahead(t)'
        BY <1>3 DEF Ahead
      <4>2. h + e = b + i /\ h + m + 1 = a + i + j
        BY <2>2, <2>3, <3>2, <4>1
      <4> QED
        BY <4>1, <4>2
    <3> QED
      BY <1>4, <1>5, <1>6, <2>3, <3>1, <3>2 DEF CountersAgree
  <2>5. ResetAlone'
    BY <2>1 DEF ResetAlone
  <2>6. ASSUME NEW u \in InCall("snapshot") PROVE Behind(u)'
    <3>1. Behind(u)
      BY <2>1, <2>6 DEF AddUpInv
    <3>2. /\ meter'[u] = meter[u] /\ metrics'.cache_hits \in Nat /\ metrics'.cache_misses \in Nat
          /\ metrics'.cache_hits >= metrics.cache_hits /\ metrics'.cache_misses >= metrics.cache_misses
      BY <1>3, <1>4
    <3> QED
      BY <2>6, <3>1, <3>2, BehindKept DEF AddUpInv
  <2> QED
    BY <1>6, <2>4, <2>5, <2>6
<1> QED
  BY <1>1, <1>5, <1>6, <1>7 DEF AddUpInv

\* The memory and the operations are no part of the sums.
LEMMA GaugesAside == ASSUME AddUpInv, GaugesNext PROVE AddUpInv'
<1>1. MetricsInv'
  BY GaugedSteps DEF AddUpInv
<1>2. /\ metrics'.query_stats = metrics.query_stats
      /\ metrics'.cache_hits = metrics.cache_hits /\ metrics'.cache_misses = metrics.cache_misses
      /\ UNCHANGED <<meter, direct, torn>>
  <2>1. CASE Meter
    <3>1. PICK usage : metrics' = [metrics EXCEPT !.memory_usage = usage]
      BY <2>1 DEF Meter
    <3> QED
      BY <2>1, <3>1 DEF Meter, AddUpInv, MetricsInv, MetricRecords
  <2>2. CASE StartOperation \/ DropGuard
    <3>1. PICK active : metrics' = [metrics EXCEPT !.active_operations = active]
      BY <2>2 DEF StartOperation, DropGuard
    <3> QED
      BY <2>2, <3>1 DEF StartOperation, DropGuard, AddUpInv, MetricsInv, MetricRecords
  <2> QED
    BY <2>1, <2>2 DEF GaugesNext
<1> QED
  BY <1>1, <1>2 DEF AddUpInv, CountersAgree, ResetAlone, Behind, InCall, Ahead

\* snapshot and reset begin.
LEMMA Beginnings ==
  ASSUME AddUpInv, NEW t \in Metered, BeginSnapshot(t) \/ BeginReset(t)
  PROVE  AddUpInv'
<1>1. MetricsInv'
  BY WholeSteps DEF WholeNext, AddUpInv
<1>2. /\ meter[t] = Unmetered /\ UNCHANGED <<metrics, direct>>
      /\ \A u \in Metered \ {t} : meter'[u] = meter[u]
      /\ meter'[t].call \in {"snapshot", "reset"} /\ meter'[t].at = 1
      /\ InCall("record")' = InCall("record")
  <2>1. PICK w : meter' = [meter EXCEPT ![t] = w] /\ w.call \in {"snapshot", "reset"} /\ w.at = 1
    <3>1. CASE BeginSnapshot(t)
      <4>1. PICK w : w = [call |-> "snapshot", at |-> 1, read |-> NoMetrics]
        OBVIOUS
      <4>2. w.call = "snapshot" /\ w.at = 1
        BY <4>1
      <4>3. meter' = [meter EXCEPT ![t] = w]
        BY <3>1, <4>1 DEF BeginSnapshot
      <4> QED
        BY <4>2, <4>3
    <3>2. CASE BeginReset(t)
      <4>1. PICK w : w = [call |-> "reset", at |-> 1]
        OBVIOUS
      <4>2. w.call = "reset" /\ w.at = 1
        BY <4>1
      <4>3. meter' = [meter EXCEPT ![t] = w]
        BY <3>2, <4>1 DEF BeginReset
      <4> QED
        BY <4>2, <4>3
    <3> QED
      BY <3>1, <3>2
  <2>2. meter[t] = Unmetered /\ UNCHANGED <<metrics, direct>>
    BY DEF BeginSnapshot, BeginReset
  <2>3. DOMAIN meter = Metered
    BY DEF AddUpInv, MetricsInv
  <2>4. meter'[t] = w /\ \A u \in Metered \ {t} : meter'[u] = meter[u]
    BY <2>1, <2>3
  <2>5. meter[t].call # "record" /\ meter'[t].call # "record"
    BY <2>1, <2>2, <2>4 DEF Unmetered
  <2>6. InCall("record")' = InCall("record")
    BY <2>4, <2>5 DEF InCall
  <2> QED
    BY <2>1, <2>2, <2>4, <2>6
<1>3. CASE BeginReset(t)
  <2>1. ASSUME ~ torn' PROVE \A u \in Metered : meter[u] = Unmetered
    BY <1>3, <2>1 DEF BeginReset
  <2>2. meter'[t].call = "reset"
    BY <1>3 DEF BeginReset, AddUpInv, MetricsInv
  <2>3. ASSUME ~ torn' PROVE InCall("reset")' = {t} /\ InCall("snapshot")' = {}
    BY <1>2, <2>1, <2>2, <2>3 DEF InCall, Unmetered
  <2>4. ASSUME ~ torn' PROVE CountersAgree' /\ ResetAlone'
    BY <1>2, <2>1, <2>3, <2>4 DEF CountersAgree, ResetAlone
  <2> QED
    BY <1>1, <1>2, <2>3, <2>4 DEF AddUpInv
<1>4. CASE BeginSnapshot(t)
  <2>1. Torn /\ meter'[t].call = "snapshot"
    BY <1>4 DEF BeginSnapshot, AddUpInv, MetricsInv
  <2>2. InCall("reset")' = InCall("reset") /\ InCall("snapshot")' = InCall("snapshot") \cup {t}
    BY <1>2, <2>1 DEF InCall, Unmetered
  <2>3. ASSUME ~ torn' PROVE CountersAgree' /\ ResetAlone' /\ \A u \in InCall("snapshot")' : Behind(u)'
    <3>1. ~ torn /\ InCall("reset") = {}
      BY <2>1, <2>3, TornStep
    <3>2. CountersAgree'
      BY <1>2, <2>2, <3>1 DEF AddUpInv, CountersAgree, Ahead, InCall, Unmetered
    <3>3. ResetAlone'
      BY <2>2, <3>1 DEF ResetAlone
    <3>4. ASSUME NEW u \in InCall("snapshot")' PROVE Behind(u)'
      <4>1. CASE u = t
        BY <1>2, <4>1 DEF Behind
      <4>2. CASE u # t
        <5>1. meter'[u] = meter[u] /\ Behind(u)
          BY <1>2, <2>2, <3>1, <3>4, <4>2 DEF AddUpInv, InCall
        <5> QED
          BY <1>2, <5>1 DEF Behind
      <4> QED
        BY <4>1, <4>2
    <3> QED
      BY <3>2, <3>3, <3>4
  <2> QED
    BY <1>1, <1>2, <2>3 DEF AddUpInv
<1> QED
  BY <1>3, <1>4

\* snapshot and reset end.
LEMMA Endings == ASSUME AddUpInv, NEW t \in Metered, EndFields(t) PROVE AddUpInv'
<1>1. MetricsInv'
  BY WholeSteps DEF WholeNext, AddUpInv
<1>2. /\ meter[t].call \in {"snapshot", "reset"} /\ UNCHANGED <<metrics, torn>>
      /\ meter[t].at > 5
      /\ meter'[t] = Unmetered /\ \A u \in Metered \ {t} : meter'[u] = meter[u]
      /\ InCall("record")' = InCall("record")
      /\ InCall("snapshot")' = InCall("snapshot") \ {t} /\ InCall("reset")' = InCall("reset") \ {t}
  BY DEF EndFields, Fields, AddUpInv, MetricsInv, InCall, Unmetered
<1>3. direct' \in [hits : Nat, misses : Nat]
  BY DEF EndFields, NoneDirect, AddUpInv
<1>4. ASSUME ~ torn' PROVE CountersAgree' /\ ResetAlone' /\ \A u \in InCall("snapshot")' : Behind(u)'
  <2>1. ~ torn
    BY <1>2, <1>4
  <2>2. CountersAgree'
    <3>1. CASE meter[t].call = "reset"
      <4>1. /\ direct'.hits = 0 /\ direct'.misses = 0
            /\ t \in InCall("reset")
        BY <3>1 DEF EndFields, NoneDirect, InCall
      <4>2. PICK k \in 1 .. 6 : k = meter[t].at /\ k > 5
        BY <1>2, <3>1, MeterKinds DEF AddUpInv, MetricsInv
      <4>3. /\ metrics.query_stats = NoMetrics.query_stats
            /\ metrics.cache_hits = 0 /\ metrics.cache_misses = 0
            /\ \A u \in Metered \ {t} : meter[u] = Unmetered
        BY <2>1, <4>1, <4>2 DEF AddUpInv, ResetAlone
      <4>4. InCall("record")' = {}
        BY <1>2, <3>1, <4>3 DEF InCall, Unmetered
      <4> QED
        BY <1>2, <4>1, <4>3, <4>4, CountNone DEF CountersAgree
    <3>2. CASE meter[t].call = "snapshot"
      <4>1. direct' = direct /\ InCall("reset")' = InCall("reset")
        BY <1>2, <3>2 DEF EndFields, InCall
      <4>2. \A u \in InCall("record") : Ahead(u)' = Ahead(u)
        BY <1>2 DEF InCall, Ahead
      <4>3. CountersAgree
        BY <2>1 DEF AddUpInv
      <4> QED
        BY <1>2, <4>1, <4>2, <4>3 DEF CountersAgree
    <3> QED
      BY <1>2, <3>1, <3>2
  <2>3. ResetAlone'
    <3>1. \A u \in InCall("reset") \ {t} : meter[t] = Unmetered
      BY <2>1 DEF AddUpInv, ResetAlone, InCall
    <3>2. InCall("reset")' = {}
      BY <1>2, <3>1 DEF Unmetered
    <3> QED
      BY <3>2 DEF ResetAlone
  <2>4. ASSUME NEW u \in InCall("snapshot")' PROVE Behind(u)'
    <3>1. meter'[u] = meter[u] /\ Behind(u)
      BY <1>2, <2>1, <2>4 DEF AddUpInv, InCall
    <3> QED
      BY <1>2, <3>1 DEF Behind
  <2> QED
    BY <2>2, <2>3, <2>4
<1> QED
  BY <1>1, <1>2, <1>3, <1>4 DEF AddUpInv

\* snapshot reads, or reset clears, the next field.
LEMMA FieldSteps == ASSUME AddUpInv, NEW t \in Metered, NextField(t) PROVE AddUpInv'
<1>1. MetricsInv'
  BY WholeSteps DEF WholeNext, AddUpInv
<1>2. PICK w \in MeterCalls : w = meter[t] /\ w.call \in {"snapshot", "reset"}
  BY DEF NextField, AddUpInv, MetricsInv
<1>3. PICK k \in 1 .. 5 : k = w.at
  <2>1. w.at \in 1 .. 6 /\ w.at <= 5
    BY <1>2, MeterKinds DEF NextField, Fields
  <2> QED
    BY <2>1
<1>4. PICK f \in {"query_stats", "cache_hits", "cache_misses", "memory_usage", "active_operations"} :
         /\ f = Fields[k]
         /\ f = "query_stats" <=> k = 1
         /\ f = "cache_hits" <=> k = 2
         /\ f = "cache_misses" <=> k = 3
  BY DEF Fields
<1>5. CASE w.call = "reset"
  <2>1. w \in [call : {"reset"}, at : 1 .. 6]
    BY <1>5, MeterKinds
  <2>2. /\ metrics' = [metrics EXCEPT ![f] = NoMetrics[f]]
        /\ meter' = [meter EXCEPT ![t].at = @ + 1] /\ UNCHANGED <<direct, torn>>
    BY <1>2, <1>3, <1>4, <1>5 DEF NextField
  <2>3. /\ meter'[t].call = "reset" /\ meter'[t].at = k + 1
        /\ \A u \in Metered \ {t} : meter'[u] = meter[u]
    BY <1>2, <1>3, <2>1, <2>2 DEF AddUpInv, MetricsInv
  <2>4. /\ metrics'.query_stats = IF k = 1 THEN NoMetrics.query_stats ELSE metrics.query_stats
        /\ metrics'.cache_hits = IF k = 2 THEN 0 ELSE metrics.cache_hits
        /\ metrics'.cache_misses = IF k = 3 THEN 0 ELSE metrics.cache_misses
    BY <1>4, <2>2 DEF NoMetrics, AddUpInv, MetricsInv, MetricRecords
  <2>5. \A call : InCall(call)' = InCall(call)
    BY <1>2, <1>5, <2>3 DEF InCall
  <2>6. t \in InCall("reset")
    BY <1>2, <1>5 DEF InCall
  <2>7. ASSUME ~ torn' PROVE CountersAgree' /\ ResetAlone' /\ \A u \in InCall("snapshot")' : Behind(u)'
    <3>1. /\ \A u \in Metered \ {t} : meter[u] = Unmetered
          /\ k > 1 => metrics.query_stats = NoMetrics.query_stats
          /\ k > 2 => metrics.cache_hits = 0
          /\ k > 3 => metrics.cache_misses = 0
      BY <1>2, <1>3, <2>2, <2>6, <2>7 DEF AddUpInv, ResetAlone
    <3>2. InCall("reset") = {t} /\ InCall("snapshot") = {}
      BY <1>2, <1>5, <3>1 DEF InCall, Unmetered
    <3>3. /\ k + 1 > 1 => metrics'.query_stats = NoMetrics.query_stats
          /\ k + 1 > 2 => metrics'.cache_hits = 0
          /\ k + 1 > 3 => metrics'.cache_misses = 0
      BY <2>4, <3>1
    <3>4. ResetAlone'
      BY <2>3, <2>5, <3>1, <3>2, <3>3 DEF ResetAlone
    <3> QED
      BY <2>5, <3>2, <3>4 DEF CountersAgree
  <2> QED
    BY <1>1, <2>2, <2>5, <2>7 DEF AddUpInv
<1>6. CASE w.call = "snapshot"
  <2>1. w \in [call : {"snapshot"}, at : 1 .. 6, read : MetricRecords]
    BY <1>6, MeterKinds
  <2>2. PICK shot \in MetricRecords : shot = [w.read EXCEPT ![f] = metrics[f]]
    BY <2>1 DEF AddUpInv, MetricsInv, MetricRecords
  <2>3. PICK v \in [call : {"snapshot"}, at : 1 .. 6, read : MetricRecords] :
           v = [w EXCEPT !.read = shot, !.at = @ + 1]
    <3>1. w.at + 1 \in 1 .. 6
      BY <1>3
    <3> QED
      BY <2>1, <3>1
  <2>4. /\ meter' = [meter EXCEPT ![t] = v] /\ UNCHANGED <<metrics, direct, torn>>
        /\ f = "query_stats" => InCall("record") = {}
    <3>1. /\ meter' = [meter EXCEPT ![t].read[f] = metrics[f], ![t].at = @ + 1]
          /\ UNCHANGED <<metrics, direct, torn>>
          /\ f = "query_stats" => InCall("record") = {}
      BY <1>2, <1>3, <1>4, <1>6 DEF NextField, StatsFree
    <3>2. [w EXCEPT !.read[f] = metrics[f], !.at = @ + 1] = v
      BY <2>1, <2>2, <2>3
    <3>3. meter' = [meter EXCEPT ![t] = [w EXCEPT !.read[f] = metrics[f], !.at = @ + 1]]
      BY <1>2, <3>1
    <3> QED
      BY <3>1, <3>2, <3>3
  <2>5. /\ meter'[t] = v /\ v.call = "snapshot" /\ v.at = k + 1 /\ v.read = shot
        /\ \A u \in Metered \ {t} : meter'[u] = meter[u]
    BY <1>3, <2>1, <2>3, <2>4 DEF AddUpInv, MetricsInv
  <2>6. \A call : InCall(call)' = InCall(call)
    BY <1>2, <1>6, <2>5 DEF InCall
  <2>7. t \in InCall("snapshot")
    BY <1>2, <1>6 DEF InCall
  <2>8. /\ shot.query_stats = IF k = 1 THEN metrics.query_stats ELSE w.read.query_stats
        /\ shot.cache_hits = IF k = 2 THEN metrics.cache_hits ELSE w.read.cache_hits
        /\ shot.cache_misses = IF k = 3 THEN metrics.cache_misses ELSE w.read.cache_misses
    BY <1>4, <2>1, <2>2 DEF MetricRecords
  <2>9. ASSUME ~ torn' PROVE CountersAgree' /\ ResetAlone' /\ \A u \in InCall("snapshot")' : Behind(u)'
    <3>1. ~ torn /\ Behind(t) /\ CountersAgree /\ ResetAlone
      BY <2>4, <2>7, <2>9 DEF AddUpInv
    <3>2. InCall("reset") = {}
      BY <1>2, <1>6, <2>7, <3>1 DEF ResetAlone, InCall, Unmetered
    <3>3. CountersAgree' /\ ResetAlone'
      <4>1. \A u \in InCall("record") : Ahead(u)' = Ahead(u)
        BY <2>5, <2>7 DEF InCall, Ahead
      <4> QED
        BY <2>4, <2>6, <3>1, <3>2, <4>1 DEF CountersAgree, ResetAlone
    <3>4. Behind(t)'
      <4>1. PICK stats \in [QueryNames -> QueryCounts], old \in [QueryNames -> QueryCounts],
                 read \in [QueryNames -> QueryCounts] :
               stats = metrics.query_stats /\ old = w.read.query_stats /\ read = shot.query_stats
        BY <2>1 DEF AddUpInv, MetricsInv, MetricRecords
      <4>2. PICK a \in Nat, b \in Nat, c \in Nat, d \in Nat :
               a = Cached(stats) /\ b = Calls(stats) /\ c = Cached(old) /\ d = Calls(old)
        BY CountsTyped
      <4>3. PICK h \in Nat, m \in Nat, p \in Nat, q \in Nat, i \in Nat, j \in Nat :
               /\ h = metrics.cache_hits /\ m = metrics.cache_misses
               /\ p = w.read.cache_hits /\ q = w.read.cache_misses
               /\ i = direct.hits /\ j = direct.misses
        BY <2>1, DirectTyped DEF AddUpInv, MetricsInv, MetricRecords
      <4>4. k = 1 => h = a + i /\ h + m = b + i + j
        BY <1>4, <2>4, <3>1, <3>2, <4>1, <4>2, <4>3 DEF CountersAgree
      <4>5. k > 1 => /\ c <= IF k > 2 THEN p ELSE h
                     /\ d <= (IF k > 2 THEN p ELSE h) + IF k > 3 THEN q ELSE m
        BY <1>2, <1>3, <3>1, <4>1, <4>2, <4>3 DEF Behind
      <4>6. /\ Cached(read) = (IF k = 1 THEN a ELSE c) /\ Calls(read) = (IF k = 1 THEN b ELSE d)
            /\ shot.cache_hits = (IF k = 2 THEN h ELSE p)
            /\ shot.cache_misses = (IF k = 3 THEN m ELSE q)
        BY <2>8, <4>1, <4>2, <4>3
      <4>7. PICK e \in Nat, g \in Nat, r \in Nat, s \in Nat :
               /\ e = (IF k = 1 THEN a ELSE c) /\ g = (IF k = 1 THEN b ELSE d)
               /\ r = (IF k = 2 THEN h ELSE p) /\ s = (IF k = 3 THEN m ELSE q)
        OBVIOUS
      <4>8. /\ e <= (IF k + 1 > 2 THEN r ELSE h)
            /\ g <= (IF k + 1 > 2 THEN r ELSE h) + (IF k + 1 > 3 THEN s ELSE m)
        BY <4>4, <4>5, <4>7
      <4> QED
        BY <2>4, <2>5, <4>1, <4>3, <4>6, <4>7, <4>8 DEF Behind
    <3>5. ASSUME NEW u \in InCall("snapshot"), u # t PROVE Behind(u)'
      <4>1. meter'[u] = meter[u] /\ Behind(u)
        BY <2>5, <3>1, <3>5 DEF AddUpInv, InCall
      <4> QED
        BY <2>4, <4>1 DEF Behind
    <3> QED
      BY <2>6, <3>3, <3>4, <3>5
  <2> QED
    BY <1>1, <2>4, <2>6, <2>9 DEF AddUpInv
<1> QED
  BY <1>2, <1>5, <1>6

\* The invariant of the sums: with no torn reset, the counters agree with the entries of
\* the names but for the call that record_query is to count still, and each snapshot is
\* behind the counters with the entries it has read, so it stays behind what it reads next.
THEOREM MetricsAddUpInvariance == MetricsSpec => []AddUpInv
<1>1. MetricsInit => AddUpInv
  <2> SUFFICES ASSUME MetricsInit PROVE AddUpInv
    OBVIOUS
  <2>1. direct.hits = 0 /\ direct.misses = 0 /\ direct \in [hits : Nat, misses : Nat]
    BY DEF MetricsInit, NoneDirect
  <2>2. \A call : call # "none" => InCall(call) = {}
    BY DEF MetricsInit, InCall, Unmetered
  <2>3. CountersAgree /\ ResetAlone
    <3>1. metrics.query_stats = NoMetrics.query_stats /\ metrics.cache_hits = 0 /\ metrics.cache_misses = 0
      BY DEF MetricsInit, NoMetrics
    <3> QED
      BY <2>1, <2>2, <3>1, CountNone DEF CountersAgree, ResetAlone
  <2>4. MetricsInv
    BY MetricsStart
  <2> QED
    BY <2>1, <2>2, <2>3, <2>4 DEF AddUpInv
<1>2. AddUpInv /\ [MetricsNext]_metricVars => AddUpInv'
  <2>1. ASSUME AddUpInv, UNCHANGED metricVars PROVE AddUpInv'
    BY <2>1 DEF metricVars, AddUpInv, MetricsInv, MetricsTypeOK, CountersAgree, ResetAlone, Behind,
                InCall, Ahead
  <2> QED
    BY <2>1, RecordAdds, CountAdds, DirectAdds, GaugesAside, Beginnings, Endings, FieldSteps
       DEF MetricsNext, CountersNext, WholeNext
<1> QED
  BY <1>1, <1>2, PTL DEF MetricsSpec

\* Unless the last reset overlapped another call, what the counters of metrics.rs count is
\* what the entries of the names sum to, and no snapshot counts a call that its hits and
\* misses leave out.
THEOREM CountersAddUp == MetricsSpec => []MetricsAddUp
<1>1. AddUpInv => MetricsAddUp
  <2> SUFFICES ASSUME AddUpInv, ~ torn PROVE MetricsAddUp
    BY DEF MetricsAddUp
  <2>1. ASSUME InCall("record") \cup InCall("reset") = {}
        PROVE  /\ metrics.cache_hits = Cached(metrics.query_stats) + direct.hits
               /\ metrics.cache_hits + metrics.cache_misses =
                      Calls(metrics.query_stats) + direct.hits + direct.misses
    BY <2>1 DEF AddUpInv, CountersAgree
  <2>2. ASSUME NEW t \in InCall("snapshot"), meter[t].at > Len(Fields)
        PROVE  /\ Cached(meter[t].read.query_stats) <= meter[t].read.cache_hits
               /\ Calls(meter[t].read.query_stats) <=
                      meter[t].read.cache_hits + meter[t].read.cache_misses
    <3>1. PICK k \in 1 .. 6 : k = meter[t].at
      BY MeterKinds DEF AddUpInv, MetricsInv, InCall
    <3>2. k > 5
      BY <2>2, <3>1 DEF Fields
    <3> QED
      BY <3>1, <3>2 DEF AddUpInv, Behind
  <2> QED
    BY <2>1, <2>2 DEF MetricsAddUp
<1> QED
  BY <1>1, MetricsAddUpInvariance, PTL

-----------------------------------------------------------------------------
(* The services together.                                                  *)

(* None of the services disturbs another: a behaviour of all of them is a  *)
(* behaviour of each, so that the theorems above hold of it.               *)
THEOREM Composition ==
  ServicesSpec =>
    /\ StreamInit /\ [][StreamNext]_streamVars
    /\ CheckSpec /\ InputSpec /\ LspSpec /\ IndexSpec /\ SharedSpec /\ ServerSpec /\ BridgeSpec
    /\ MetricsSpec
<1>1. [ServicesNext]_<<part, state>> => [StreamNext]_streamVars
  BY DEF ServicesNext, Only, Still, state
<1>2. [ServicesNext]_<<part, state>> => [CheckNext]_checkVars
  BY DEF ServicesNext, Only, Still, state
<1>3. [ServicesNext]_<<part, state>> => [InputNext]_inputVars
  BY DEF ServicesNext, Only, Still, state
<1>4. [ServicesNext]_<<part, state>> => [LspNext]_lspVars
  BY DEF ServicesNext, Only, Still, state
<1>5. [ServicesNext]_<<part, state>> => [IndexNext]_indexVars
  BY DEF ServicesNext, Only, Still, state
<1>6. [ServicesNext]_<<part, state>> => [SharedNext]_sharedVars
  BY DEF ServicesNext, Only, Still, state, SharedNext
<1>7. [ServicesNext]_<<part, state>> => [ServerNext]_serverVars
  BY DEF ServicesNext, Only, Still, state
<1>8. [ServicesNext]_<<part, state>> => [BridgeNext]_bridgeVars
  BY DEF ServicesNext, Only, Still, state
<1>9. [ServicesNext]_<<part, state>> => [MetricsNext]_metricVars
  BY DEF ServicesNext, Only, Still, state, MetricsNext
<1> QED
  BY <1>1, <1>2, <1>3, <1>4, <1>5, <1>6, <1>7, <1>8, <1>9, PTL
     DEF ServicesSpec, ServicesInit, CheckSpec, InputSpec, LspSpec, IndexSpec, SharedSpec,
         ServerSpec, BridgeSpec, MetricsSpec

\* The types of the workspace index: no name is pushed more often than files are indexed.
LEMMA IndexTyping == IndexInv => IndexTypeOK
<1> SUFFICES ASSUME IndexInv PROVE IndexTypeOK
  OBVIOUS
<1>1. symbol_table \in [Names \X Sources -> 0..(2 * MaxIndexings)]
  <2>1. ASSUME NEW at \in Names \X Sources PROVE symbol_table[at] \in 0..(2 * MaxIndexings)
    <3>1. PICK k \in Nat, count \in Nat : k = symbol_table[at] /\ count = Cardinality(Pushers)
      BY IndexConstants, FS_Subset, FS_CardinalityType DEF IndexInv, IndexTyped, Pushers
    <3>2. k + count <= indexings /\ indexings \in 0 .. MaxIndexings
      BY <3>1 DEF IndexInv, PushesCounted, IndexTyped
    <3>3. k \in 0 .. 2 * MaxIndexings
      BY <3>1, <3>2, IndexConstants
    <3> QED
      BY <3>1, <3>3
  <2> QED
    BY <2>1 DEF IndexInv, IndexTyped
<1>2. \A p \in DOMAIN index :
         p \in Sources /\ index[p].symbols \in SourceTexts /\ index[p].parse \in ParseStates
  BY DEF IndexInv, IndexTyped, FileIndexes
<1>3. \A p \in DOMAIN loaded : loaded[p].exports \subseteq Exported /\ loaded[p].state \in LoadStates
  BY DEF IndexInv, IndexTyped, Loads
<1> QED
  BY <1>1, <1>2, <1>3 DEF IndexInv, IndexTyped, IndexTypeOK

(* The variables of every service keep their types.                        *)
THEOREM ServicesTyping == ServicesSpec => []ServicesTypeOK
<1>1. /\ StreamInv /\ CheckInv /\ InputInv /\ LspInv /\ IndexInv /\ SharedInv /\ ServerInv
      /\ BridgeInv /\ MetricsInv
      => ServicesTypeOK
  BY IndexTyping DEF ServicesTypeOK, StreamInv, CheckInv, InputInv, LspInv, SharedInv, ServerInv,
                     BridgeInv, MetricsInv
<1> QED
  BY <1>1, Composition, StreamInvariance, CheckInvariance, InputInvariance, LspInvariance,
     IndexInvariance, SharedInvariance, ServerInvariance, BridgeInvariance, MetricsInvariance, PTL

(* The services side by side keep what each of them promises alone.        *)
THEOREM ServicesCorrect ==
  ServicesSpec =>
    [](/\ DeliveryOrdered /\ VerdictsSettle /\ EditsLostOnlyByRace /\ ShownOutdatedOnlyByOverlap
       /\ ChangesReachTheIndex /\ SharedStateFollows /\ ClientsServed /\ RepliesAccounted
       /\ MetricsAddUp)
  BY Composition, Delivery, VerdictsSettled, EditsKept, DiagnosticsCurrent, ChangesIndexed,
     SharedFollows, ClientsAreServed, BridgeAnswers, CountersAddUp, PTL
=============================================================================
