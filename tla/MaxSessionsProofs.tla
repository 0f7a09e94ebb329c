-------------------------- MODULE MaxSessionsProofs --------------------------
(***************************************************************************)
(* Safety of the sessions, for any users, tasks and faults: the requests   *)
(* of the API and their answers are matched, callers share one opening,    *)
(* and a user shown as active has a session to restore.  With one call at  *)
(* a time (Alone) a stored session belongs to an active user, and, as long *)
(* as no call is given up, a logout leaves nothing of the user behind.     *)
(***************************************************************************)
EXTENDS MaxSessions, SequenceTheorems, FiniteSetTheorems, TLAPS

-----------------------------------------------------------------------------
(* A request is addressed to who awaits its answer.  It is under way while *)
(* it waits in the worker (asked) or its answer is on its way (answered).  *)

Unasked(q, to) == \A i \in DOMAIN q : q[i].to # to
AskedOnce(q, to) ==
  \E i \in DOMAIN q : q[i].to = to /\ \A j \in DOMAIN q : q[j].to = to => j = i

Unanswered(a, to) == \A i \in DOMAIN a : a[i].request.to # to
AnsweredOnce(a, to) ==
  \E i \in DOMAIN a : a[i].request.to = to /\ \A j \in DOMAIN a : a[j].request.to = to => j = i

NoneUnderWay(q, a, to) == Unasked(q, to) /\ Unanswered(a, to)
OneUnderWay(q, a, to) ==
  \/ AskedOnce(q, to) /\ Unanswered(a, to)
  \/ Unasked(q, to) /\ AnsweredOnce(a, to)

AnswerType == [request : RequestType, result : Results]

LEMMA AppendFact ==
  ASSUME NEW S, NEW s \in Seq(S), NEW e \in S
  PROVE  /\ Append(s, e) \in Seq(S) /\ DOMAIN Append(s, e) = 1 .. Len(s) + 1
         /\ Append(s, e)[Len(s) + 1] = e /\ DOMAIN s = 1 .. Len(s) /\ Len(s) \in Nat
         /\ \A i \in 1 .. Len(s) : Append(s, e)[i] = s[i]
BY AppendProperties, LenProperties

LEMMA Sent ==
  ASSUME NEW q \in Seq(RequestType), NEW r \in RequestType, NEW to
  PROVE  /\ Append(q, r) \in Seq(RequestType)
         /\ r.to # to /\ Unasked(q, to) => Unasked(Append(q, r), to)
         /\ r.to # to /\ AskedOnce(q, to) => AskedOnce(Append(q, r), to)
         /\ r.to = to /\ Unasked(q, to) => AskedOnce(Append(q, r), to)
<1> DEFINE p == Append(q, r)
           n == Len(q) + 1
<1>1. /\ p \in Seq(RequestType) /\ DOMAIN p = 1 .. n /\ p[n] = r /\ DOMAIN q = 1 .. Len(q)
      /\ Len(q) \in Nat /\ \A i \in 1 .. Len(q) : p[i] = q[i]
  BY AppendFact
<1> HIDE DEF p
<1>2. r.to # to /\ Unasked(q, to) => Unasked(p, to)
  BY <1>1 DEF Unasked
<1>3. ASSUME r.to # to, AskedOnce(q, to) PROVE AskedOnce(p, to)
  <2>1. PICK i \in DOMAIN q : q[i].to = to /\ \A j \in DOMAIN q : q[j].to = to => j = i
    BY <1>3 DEF AskedOnce
  <2>2. i \in DOMAIN p /\ p[i].to = to /\ \A j \in DOMAIN p : p[j].to = to => j = i
    BY <1>1, <1>3, <2>1
  <2>3. QED
    BY <2>2 DEF AskedOnce
<1>4. ASSUME r.to = to, Unasked(q, to) PROVE AskedOnce(p, to)
  <2>1. n \in DOMAIN p /\ p[n].to = to /\ \A j \in DOMAIN p : p[j].to = to => j = n
    BY <1>1, <1>4 DEF Unasked
  <2>2. QED
    BY <2>1 DEF AskedOnce
<1>5. QED
  BY <1>1, <1>2, <1>3, <1>4 DEF p

LEMMA Replied ==
  ASSUME NEW a \in Seq(AnswerType), NEW r \in AnswerType, NEW to
  PROVE  /\ Append(a, r) \in Seq(AnswerType)
         /\ r.request.to # to /\ Unanswered(a, to) => Unanswered(Append(a, r), to)
         /\ r.request.to # to /\ AnsweredOnce(a, to) => AnsweredOnce(Append(a, r), to)
         /\ r.request.to = to /\ Unanswered(a, to) => AnsweredOnce(Append(a, r), to)
<1> DEFINE p == Append(a, r)
           n == Len(a) + 1
<1>1. /\ p \in Seq(AnswerType) /\ DOMAIN p = 1 .. n /\ p[n] = r /\ DOMAIN a = 1 .. Len(a)
      /\ Len(a) \in Nat /\ \A i \in 1 .. Len(a) : p[i] = a[i]
  BY AppendFact
<1> HIDE DEF p
<1>2. r.request.to # to /\ Unanswered(a, to) => Unanswered(p, to)
  BY <1>1 DEF Unanswered
<1>3. ASSUME r.request.to # to, AnsweredOnce(a, to) PROVE AnsweredOnce(p, to)
  <2>1. PICK i \in DOMAIN a : a[i].request.to = to /\ \A j \in DOMAIN a : a[j].request.to = to => j = i
    BY <1>3 DEF AnsweredOnce
  <2>2. i \in DOMAIN p /\ p[i].request.to = to /\ \A j \in DOMAIN p : p[j].request.to = to => j = i
    BY <1>1, <1>3, <2>1
  <2>3. QED
    BY <2>2 DEF AnsweredOnce
<1>4. ASSUME r.request.to = to, Unanswered(a, to) PROVE AnsweredOnce(p, to)
  <2>1. n \in DOMAIN p /\ p[n].request.to = to /\ \A j \in DOMAIN p : p[j].request.to = to => j = n
    BY <1>1, <1>4 DEF Unanswered
  <2>2. QED
    BY <2>1 DEF AnsweredOnce
<1>5. QED
  BY <1>1, <1>2, <1>3, <1>4 DEF p

\* What is left when the request at place k is taken: Old maps a place back to where it was.
Old(k, i) == IF i < k THEN i ELSE i + 1

LEMMA RemoveAtFact ==
  ASSUME NEW S, NEW s \in Seq(S), NEW k \in DOMAIN s
  PROVE  /\ RemoveAt(s, k) \in Seq(S) /\ DOMAIN s = 1 .. Len(s) /\ Len(s) \in Nat \ {0}
         /\ DOMAIN RemoveAt(s, k) = 1 .. Len(s) - 1
         /\ \A i \in 1 .. Len(s) - 1 : RemoveAt(s, k)[i] = s[Old(k, i)]
<1>1. DOMAIN s = 1 .. Len(s) /\ Len(s) \in Nat \ {0} /\ k \in 1 .. Len(s) /\ k \in Nat
  BY LenProperties
<1> DEFINE b == SubSeq(s, 1, k - 1)
           c == SubSeq(s, k + 1, Len(s))
<1>2. /\ b \in Seq(S) /\ Len(b) = k - 1 /\ \A i \in 1 .. k - 1 : b[i] = s[i]
  <2>1. CASE k = 1
    BY <1>1, <2>1, SubSeqProperties
  <2>2. CASE k > 1
    BY <1>1, <2>2, SubSeqProperties
  <2>3. QED
    BY <1>1, <2>1, <2>2
<1>3. /\ c \in Seq(S) /\ Len(c) = Len(s) - k /\ \A i \in 1 .. Len(s) - k : c[i] = s[k + i]
  <2>1. \A i \in k + 1 .. Len(s) : s[i] \in S
    BY <1>1, ElementOfSeq
  <2>2. CASE k = Len(s)
    BY <1>1, <2>2, SubSeqProperties
  <2>3. CASE k < Len(s)
    BY <1>1, <2>3, SubSeqProperties
  <2>4. QED
    BY <1>1, <2>2, <2>3
<1>4. RemoveAt(s, k) = b \o c
  BY DEF RemoveAt
<1> HIDE DEF b, c
<1>5. /\ b \o c \in Seq(S) /\ Len(b \o c) = Len(s) - 1
      /\ \A i \in 1 .. Len(s) - 1 : (b \o c)[i] = IF i <= k - 1 THEN b[i] ELSE c[i - (k - 1)]
  <2>1. Len(b) + Len(c) = Len(s) - 1 /\ Len(b) = k - 1
    BY <1>1, <1>2, <1>3
  <2>2. /\ b \o c \in Seq(S) /\ Len(b \o c) = Len(b) + Len(c)
        /\ \A i \in 1 .. Len(b) + Len(c) : (b \o c)[i] = IF i <= Len(b) THEN b[i] ELSE c[i - Len(b)]
    BY <1>2, <1>3, ConcatProperties
  <2>3. QED
    BY <2>1, <2>2
<1>6. DOMAIN (b \o c) = 1 .. Len(s) - 1
  BY <1>5, LenProperties
<1>7. ASSUME NEW i \in 1 .. Len(s) - 1
      PROVE  (b \o c)[i] = s[Old(k, i)]
  <2>1. CASE i < k
    BY <1>1, <1>2, <1>5, <2>1 DEF Old
  <2>2. CASE ~(i < k)
    <3>1. i - (k - 1) \in 1 .. Len(s) - k /\ (b \o c)[i] = c[i - (k - 1)]
      BY <1>1, <1>5, <2>2
    <3>2. c[i - (k - 1)] = s[k + (i - (k - 1))] /\ k + (i - (k - 1)) = i + 1
      BY <1>1, <1>3, <3>1
    <3>3. QED
      BY <2>2, <3>1, <3>2 DEF Old
  <2>3. QED
    BY <2>1, <2>2
<1>8. QED
  BY <1>1, <1>4, <1>5, <1>6, <1>7

LEMMA Taken ==
  ASSUME NEW q \in Seq(RequestType), NEW k \in DOMAIN q, NEW to
  PROVE  /\ RemoveAt(q, k) \in Seq(RequestType)
         /\ Unasked(q, to) => Unasked(RemoveAt(q, k), to)
         /\ q[k].to # to /\ AskedOnce(q, to) => AskedOnce(RemoveAt(q, k), to)
         /\ q[k].to = to /\ AskedOnce(q, to) => Unasked(RemoveAt(q, k), to)
<1> DEFINE p == RemoveAt(q, k)
           n == Len(q)
<1>1. /\ p \in Seq(RequestType) /\ DOMAIN q = 1 .. n /\ n \in Nat \ {0} /\ DOMAIN p = 1 .. n - 1
      /\ \A i \in 1 .. n - 1 : p[i] = q[Old(k, i)]
  BY RemoveAtFact
<1> HIDE DEF p, n
<1>2. \A i \in 1 .. n - 1 : Old(k, i) \in 1 .. n /\ Old(k, i) # k
  BY <1>1 DEF Old
<1>3. \A i, j \in 1 .. n - 1 : Old(k, i) = Old(k, j) => i = j
  BY <1>1 DEF Old
<1>4. \A j \in 1 .. n : j # k => \E i \in 1 .. n - 1 : Old(k, i) = j
  <2> SUFFICES ASSUME NEW j \in 1 .. n, j # k PROVE \E i \in 1 .. n - 1 : Old(k, i) = j
    OBVIOUS
  <2>1. CASE j < k
    <3>1. j \in 1 .. n - 1 /\ Old(k, j) = j
      BY <1>1, <2>1 DEF Old
    <3>2. QED
      BY <3>1
  <2>2. CASE j > k
    <3>1. j - 1 \in 1 .. n - 1 /\ Old(k, j - 1) = j
      BY <1>1, <2>2 DEF Old
    <3>2. QED
      BY <3>1
  <2>3. QED
    BY <1>1, <2>1, <2>2
<1>5. Unasked(q, to) => Unasked(p, to)
  BY <1>1, <1>2 DEF Unasked
<1>6. ASSUME q[k].to # to, AskedOnce(q, to) PROVE AskedOnce(p, to)
  <2>1. PICK j \in 1 .. n : q[j].to = to /\ \A x \in 1 .. n : q[x].to = to => x = j
    BY <1>1, <1>6 DEF AskedOnce
  <2>2. PICK i \in 1 .. n - 1 : Old(k, i) = j
    BY <1>4, <1>6, <2>1
  <2>3. p[i].to = to /\ \A x \in 1 .. n - 1 : p[x].to = to => x = i
    BY <1>1, <1>2, <1>3, <2>1, <2>2
  <2>4. QED
    BY <1>1, <2>3 DEF AskedOnce
<1>7. ASSUME q[k].to = to, AskedOnce(q, to) PROVE Unasked(p, to)
  <2>1. \A x \in 1 .. n : q[x].to = to => x = k
    BY <1>1, <1>7 DEF AskedOnce
  <2>2. QED
    BY <1>1, <1>2, <2>1 DEF Unasked
<1>8. QED
  BY <1>1, <1>5, <1>6, <1>7 DEF p

\* A request is taken from the queue and answered: it is still under way.
LEMMA Executed ==
  ASSUME NEW q \in Seq(RequestType), NEW a \in Seq(AnswerType), NEW k \in DOMAIN q, NEW to,
         NEW r \in AnswerType, r.request = q[k]
  PROVE  /\ RemoveAt(q, k) \in Seq(RequestType) /\ Append(a, r) \in Seq(AnswerType)
         /\ NoneUnderWay(q, a, to) => NoneUnderWay(RemoveAt(q, k), Append(a, r), to)
         /\ OneUnderWay(q, a, to) => OneUnderWay(RemoveAt(q, k), Append(a, r), to)
<1> DEFINE p == RemoveAt(q, k)
           b == Append(a, r)
<1>2. r \in AnswerType /\ r.request.to = q[k].to
  OBVIOUS
<1>3. b = Append(a, r) /\ p = RemoveAt(q, k)
  OBVIOUS
<1> HIDE DEF p, b
<1>4. /\ p \in Seq(RequestType)
      /\ Unasked(q, to) => Unasked(p, to)
  BY <1>3, Taken
<1>5. b \in Seq(AnswerType)
  BY <1>2, <1>3, Replied
<1>6. CASE q[k].to = to
  <2>1. ~Unasked(q, to)
    BY <1>6 DEF Unasked
  <2>2. AskedOnce(q, to) => Unasked(p, to)
    BY <1>3, <1>6, Taken
  <2>3. Unanswered(a, to) => AnsweredOnce(b, to)
    BY <1>2, <1>3, <1>6, Replied
  <2>4. QED
    BY <1>3, <1>4, <1>5, <2>1, <2>2, <2>3 DEF NoneUnderWay, OneUnderWay
<1>7. CASE q[k].to # to
  <2>1. AskedOnce(q, to) => AskedOnce(p, to)
    BY <1>3, <1>7, Taken
  <2>2. /\ Unanswered(a, to) => Unanswered(b, to)
        /\ AnsweredOnce(a, to) => AnsweredOnce(b, to)
    BY <1>2, <1>3, <1>7, Replied
  <2>3. QED
    BY <1>3, <1>4, <1>5, <2>1, <2>2 DEF NoneUnderWay, OneUnderWay
<1>8. QED
  BY <1>3, <1>6, <1>7

LEMMA AnswerTaken ==
  ASSUME NEW a \in Seq(AnswerType), a # <<>>, NEW q, NEW to
  PROVE  /\ Tail(a) \in Seq(AnswerType) /\ Head(a) \in AnswerType
         /\ Head(a).request.to # to =>
              /\ NoneUnderWay(q, a, to) => NoneUnderWay(q, Tail(a), to)
              /\ OneUnderWay(q, a, to) => OneUnderWay(q, Tail(a), to)
         /\ Head(a).request.to = to => /\ ~NoneUnderWay(q, a, to)
                                       /\ OneUnderWay(q, a, to) => NoneUnderWay(q, Tail(a), to)
<1> DEFINE b == Tail(a)
           n == Len(a)
           h == Head(a)
<1>1. /\ b \in Seq(AnswerType) /\ h \in AnswerType /\ h = a[1] /\ n \in Nat \ {0} /\ DOMAIN a = 1 .. n
      /\ DOMAIN b = 1 .. n - 1 /\ \A i \in 1 .. n - 1 : b[i] = a[i + 1]
  BY HeadTailProperties, LenProperties, EmptySeq
<1> HIDE DEF b, n, h
<1>2. Unanswered(a, to) => Unanswered(b, to)
  BY <1>1 DEF Unanswered
<1>3. ASSUME h.request.to # to, AnsweredOnce(a, to) PROVE AnsweredOnce(b, to)
  <2>1. PICK j \in 1 .. n : a[j].request.to = to /\ \A x \in 1 .. n : a[x].request.to = to => x = j
    BY <1>1, <1>3 DEF AnsweredOnce
  <2>2. j - 1 \in 1 .. n - 1
    BY <1>1, <1>3, <2>1
  <2>3. b[j - 1].request.to = to /\ \A x \in 1 .. n - 1 : b[x].request.to = to => x = j - 1
    BY <1>1, <2>1, <2>2
  <2>4. QED
    BY <1>1, <2>2, <2>3 DEF AnsweredOnce
<1>4. ASSUME h.request.to = to, AnsweredOnce(a, to) PROVE Unanswered(b, to)
  <2>3. 1 \in 1 .. n /\ a[1].request.to = to
    BY <1>1, <1>4
  <2>4. PICK j \in 1 .. n : \A x \in 1 .. n : a[x].request.to = to => x = j
    BY <1>1, <1>4 DEF AnsweredOnce
  <2>1. \A x \in 1 .. n : a[x].request.to = to => x = 1
    BY <2>3, <2>4
  <2>2. QED
    BY <1>1, <2>1 DEF Unanswered
<1>5. h.request.to = to => ~Unanswered(a, to)
  BY <1>1 DEF Unanswered
<1>6. QED
  BY <1>1, <1>2, <1>3, <1>4, <1>5 DEF b, h, NoneUnderWay, OneUnderWay

\* The tasks that waited write their requests, each its own.
LEMMA Written ==
  ASSUME NEW q \in Seq(RequestType), NEW w \in Seq(Tasks), NEW r \in Seq(RequestType),
         Len(r) = Len(w), \A i \in 1 .. Len(w) : r[i].to = w[i],
         \A i, j \in 1 .. Len(w) : w[i] = w[j] => i = j, NEW to
  PROVE  /\ q \o r \in Seq(RequestType)
         /\ to \notin Range(w) /\ Unasked(q, to) => Unasked(q \o r, to)
         /\ to \notin Range(w) /\ AskedOnce(q, to) => AskedOnce(q \o r, to)
         /\ to \in Range(w) /\ Unasked(q, to) => AskedOnce(q \o r, to)
<1> DEFINE p == q \o r
           n == Len(q)
           k == Len(w)
<1>1. /\ n \in Nat /\ k \in Nat /\ DOMAIN q = 1 .. n /\ DOMAIN w = 1 .. k
  BY LenProperties
<1>2. /\ p \in Seq(RequestType) /\ Len(p) = n + k
      /\ \A i \in 1 .. n + k : p[i] = IF i <= n THEN q[i] ELSE r[i - n]
  <2>1. Len(r) = k
    OBVIOUS
  <2>2. /\ p \in Seq(RequestType) /\ Len(p) = n + Len(r)
        /\ \A i \in 1 .. n + Len(r) : p[i] = IF i <= n THEN q[i] ELSE r[i - n]
    BY ConcatProperties
  <2>3. QED
    BY <2>1, <2>2
<1>3. DOMAIN p = 1 .. n + k
  BY <1>2, LenProperties
<1>4. \A i \in 1 .. k : r[i].to = w[i]
  OBVIOUS
<1>5. \A i, j \in 1 .. k : w[i] = w[j] => i = j
  OBVIOUS
<1> HIDE DEF p, n, k
<1>6. \A i \in 1 .. n : p[i] = q[i] /\ i \in 1 .. n + k
  BY <1>1, <1>2
<1>7. \A i \in 1 .. n + k : i \in 1 .. n \/ (i - n \in 1 .. k /\ p[i] = r[i - n])
  BY <1>1, <1>2
<1>8. \A i \in 1 .. k : i + n \in 1 .. n + k /\ i + n \notin 1 .. n /\ p[i + n].to = w[i]
  <2> SUFFICES ASSUME NEW i \in 1 .. k
               PROVE  i + n \in 1 .. n + k /\ i + n \notin 1 .. n /\ p[i + n].to = w[i]
    OBVIOUS
  <2>1. i + n \in 1 .. n + k /\ i + n \notin 1 .. n /\ (i + n) - n = i
    BY <1>1
  <2>2. p[i + n] = r[i]
    BY <1>1, <1>2, <2>1
  <2>3. QED
    BY <1>4, <2>1, <2>2
<1>9. \A i \in 1 .. k : w[i] \in Range(w)
  BY <1>1 DEF Range
<1>10. \A i \in 1 .. n + k : i \in 1 .. n \/ (i - n \in 1 .. k /\ p[i].to = w[i - n])
  BY <1>4, <1>7
<1>11. ASSUME to \notin Range(w), Unasked(q, to) PROVE Unasked(p, to)
  BY <1>1, <1>3, <1>6, <1>9, <1>10, <1>11 DEF Unasked
<1>12. ASSUME to \notin Range(w), AskedOnce(q, to) PROVE AskedOnce(p, to)
  <2>1. PICK j \in 1 .. n : q[j].to = to /\ \A x \in 1 .. n : q[x].to = to => x = j
    BY <1>1, <1>12 DEF AskedOnce
  <2>2. j \in 1 .. n + k /\ p[j].to = to /\ \A x \in 1 .. n + k : p[x].to = to => x = j
    BY <1>6, <1>9, <1>10, <1>12, <2>1
  <2>3. QED
    BY <1>3, <2>2 DEF AskedOnce
<1>13. ASSUME to \in Range(w), Unasked(q, to) PROVE AskedOnce(p, to)
  <2>1. PICK j \in 1 .. k : w[j] = to
    BY <1>1, <1>13 DEF Range
  <2>2. j + n \in 1 .. n + k /\ p[j + n].to = to
    BY <1>8, <2>1
  <2>3. ASSUME NEW x \in 1 .. n + k, p[x].to = to PROVE x = j + n
    <3>1. x \notin 1 .. n
      BY <1>1, <1>6, <1>13, <2>3 DEF Unasked
    <3>2. x - n \in 1 .. k /\ w[x - n] = to
      BY <1>10, <2>3, <3>1
    <3>3. x - n = j
      BY <1>5, <2>1, <3>2
    <3>4. QED
      BY <1>1, <3>3
  <2>4. QED
    BY <1>3, <2>2, <2>3 DEF AskedOnce
<1>14. QED
  BY <1>2, <1>11, <1>12, <1>13 DEF p

\* A request that is abandoned is under way for nobody.
LEMMA AbandonedFact ==
  ASSUME NEW q \in Seq(RequestType), NEW a \in Seq(AnswerType), NEW to \in Tasks \cup {Opener},
         NEW p, p = Abandoned(to, q), NEW b, b = AbandonedAnswers(to, a)
  PROVE  /\ p \in Seq(RequestType) /\ b \in Seq(AnswerType) /\ NoneUnderWay(p, b, to)
         /\ \A x \in Tasks \cup {Opener} : x # to =>
              /\ NoneUnderWay(q, a, x) => NoneUnderWay(p, b, x)
              /\ OneUnderWay(q, a, x) => OneUnderWay(p, b, x)
<1>1. to # Nobody /\ Nobody \in Addresses /\ \A x \in Tasks \cup {Opener} : x # Nobody
  BY AddressesOut DEF Addresses
<1>2. /\ Len(q) \in Nat /\ DOMAIN q = 1 .. Len(q) /\ \A i \in DOMAIN q : q[i] \in RequestType
      /\ Len(a) \in Nat /\ DOMAIN a = 1 .. Len(a) /\ \A i \in DOMAIN a : a[i] \in AnswerType
  BY LenProperties, ElementOfSeq
<1>3. p = [i \in 1 .. Len(q) |-> IF q[i].to = to THEN [q[i] EXCEPT !.to = Nobody] ELSE q[i]]
  BY <1>2 DEF Abandoned
<1>4. \A i \in 1 .. Len(q) :
        p[i] \in RequestType /\ p[i].to = IF q[i].to = to THEN Nobody ELSE q[i].to
  BY <1>1, <1>2, <1>3 DEF RequestType
<1>5. p \in Seq(RequestType) /\ DOMAIN p = DOMAIN q
  <2>1. p \in [1 .. Len(q) -> RequestType]
    BY <1>3, <1>4
  <2>2. QED
    BY <1>2, <1>3, <2>1, SeqDef
<1>6. b = [i \in 1 .. Len(a) |->
             IF a[i].request.to = to THEN [a[i] EXCEPT !.request = [@ EXCEPT !.to = Nobody]] ELSE a[i]]
  BY <1>2 DEF AbandonedAnswers
<1>7. \A i \in 1 .. Len(a) :
        b[i] \in AnswerType
        /\ b[i].request.to = IF a[i].request.to = to THEN Nobody ELSE a[i].request.to
  <2> SUFFICES ASSUME NEW i \in 1 .. Len(a)
               PROVE  /\ b[i] \in AnswerType
                      /\ b[i].request.to = IF a[i].request.to = to THEN Nobody ELSE a[i].request.to
    OBVIOUS
  <2> DEFINE r == [a[i].request EXCEPT !.to = Nobody]
  <2>1. a[i] \in AnswerType /\ a[i].request \in RequestType
    BY <1>2 DEF AnswerType
  <2>2. r \in RequestType /\ r.to = Nobody
    BY <1>1, <2>1 DEF RequestType
  <2>3. b[i] = IF a[i].request.to = to THEN [a[i] EXCEPT !.request = r] ELSE a[i]
    BY <1>6
  <2> HIDE DEF r
  <2>4. [a[i] EXCEPT !.request = r] \in AnswerType /\ [a[i] EXCEPT !.request = r].request = r
    BY <2>1, <2>2 DEF AnswerType
  <2>5. QED
    BY <2>1, <2>2, <2>3, <2>4
<1>8. b \in Seq(AnswerType) /\ DOMAIN b = DOMAIN a
  <2>1. b \in [1 .. Len(a) -> AnswerType]
    BY <1>6, <1>7
  <2>2. QED
    BY <1>2, <1>6, <2>1, SeqDef
<1>9. NoneUnderWay(p, b, to)
  BY <1>1, <1>2, <1>4, <1>5, <1>7, <1>8 DEF NoneUnderWay, Unasked, Unanswered
<1>10. ASSUME NEW x \in Tasks \cup {Opener}, x # to
       PROVE  /\ NoneUnderWay(q, a, x) => NoneUnderWay(p, b, x)
              /\ OneUnderWay(q, a, x) => OneUnderWay(p, b, x)
  <2>1. \A i \in DOMAIN q : p[i].to = x <=> q[i].to = x
    BY <1>1, <1>2, <1>4, <1>10
  <2>2. \A i \in DOMAIN a : b[i].request.to = x <=> a[i].request.to = x
    BY <1>1, <1>2, <1>7, <1>10
  <2>3. /\ Unasked(q, x) => Unasked(p, x)
        /\ AskedOnce(q, x) => AskedOnce(p, x)
    BY <1>5, <2>1 DEF Unasked, AskedOnce
  <2>4. /\ Unanswered(a, x) => Unanswered(b, x)
        /\ AnsweredOnce(a, x) => AnsweredOnce(b, x)
    BY <1>8, <2>2 DEF Unanswered, AnsweredOnce
  <2>5. QED
    BY <2>3, <2>4 DEF NoneUnderWay, OneUnderWay
<1>11. QED
  BY <1>5, <1>8, <1>9, <1>10

\* What an API that has restarted asked for is asked for nobody.
LEMMA OrphanedFact ==
  ASSUME NEW q \in Seq(RequestType), NEW p, p = [i \in DOMAIN q |-> [q[i] EXCEPT !.to = Nobody]]
  PROVE  p \in Seq(RequestType) /\ \A x \in Tasks \cup {Opener} : NoneUnderWay(p, <<>>, x)
<1>1. Nobody \in Addresses /\ \A x \in Tasks \cup {Opener} : x # Nobody
  BY AddressesOut DEF Addresses
<1>2. Len(q) \in Nat /\ DOMAIN q = 1 .. Len(q) /\ \A i \in DOMAIN q : q[i] \in RequestType
  BY LenProperties, ElementOfSeq
<1>3. \A i \in 1 .. Len(q) : p[i] \in RequestType /\ p[i].to = Nobody
  BY <1>1, <1>2 DEF RequestType
<1>4. p \in Seq(RequestType) /\ DOMAIN p = DOMAIN q
  <2>1. p \in [1 .. Len(q) -> RequestType]
    BY <1>2, <1>3
  <2>2. QED
    BY <1>2, <2>1, SeqDef
<1>5. DOMAIN <<>> = {}
  OBVIOUS
<1>6. QED
  BY <1>1, <1>2, <1>3, <1>4, <1>5 DEF NoneUnderWay, Unasked, Unanswered

-----------------------------------------------------------------------------
(* The users table: a user becomes active where the session is stored, and *)
(* leaves that state where it is removed.                                  *)

States == {"approved_unbound", "authenticating", "active", "reauth_required"}

TableInv ==
  /\ stored \in [Users -> BOOLEAN] /\ signedOut \in [Users -> BOOLEAN]
  /\ ustate \in [Users -> States] /\ ActiveImpliesStored

LEMMA BegunFact ==
  \A x \in States : BegunAuthentication(x) \in States /\ (BegunAuthentication(x) = "active" => x = "active")
BY DEF BegunAuthentication, States

LEMMA TableBegun ==
  ASSUME TableInv, NEW u, stored' = stored, signedOut' \in [Users -> BOOLEAN],
         ustate' = [ustate EXCEPT ![u] = BegunAuthentication(@)] \/ ustate' = ustate
  PROVE  TableInv'
<1>1. /\ stored \in [Users -> BOOLEAN] /\ ustate \in [Users -> States]
      /\ \A x \in Users : ustate[x] = "active" => stored[x]
  BY DEF TableInv, ActiveImpliesStored
<1>2. \A x \in Users : ustate'[x] \in States /\ (ustate'[x] = "active" => ustate[x] = "active")
  BY <1>1, BegunFact
<1>3. ustate' \in [Users -> States]
  BY <1>1, <1>2
<1>4. QED
  BY <1>1, <1>2, <1>3 DEF TableInv, ActiveImpliesStored

LEMMA TableLoggedOut ==
  ASSUME TableInv, NEW u, LoggedOut(u)
  PROVE  TableInv'
<1>1. /\ stored \in [Users -> BOOLEAN] /\ ustate \in [Users -> States]
      /\ signedOut \in [Users -> BOOLEAN]
      /\ \A x \in Users : ustate[x] = "active" => stored[x]
  BY DEF TableInv, ActiveImpliesStored
<1> DEFINE next == IF AllowedTransition(ustate[u], "reauth_required") THEN "reauth_required" ELSE ustate[u]
<1>2. /\ stored' = [stored EXCEPT ![u] = FALSE] /\ signedOut' = [signedOut EXCEPT ![u] = TRUE]
      /\ ustate' = [ustate EXCEPT ![u] = next]
  BY DEF LoggedOut
<1>3. u \in Users => next \in States /\ next # "active"
  BY <1>1 DEF AllowedTransition, States
<1> HIDE DEF next
<1>4. stored' \in [Users -> BOOLEAN] /\ signedOut' \in [Users -> BOOLEAN] /\ ustate' \in [Users -> States]
  BY <1>1, <1>2, <1>3
<1>5. \A x \in Users : ustate'[x] = "active" => stored'[x]
  BY <1>1, <1>2, <1>3
<1>6. QED
  BY <1>4, <1>5 DEF TableInv, ActiveImpliesStored

LEMMA TableSaved ==
  ASSUME TableInv, NEW t, Saved(t)
  PROVE  TableInv'
<1> DEFINE u == task[t].user
           next == IF ustate[u] = "authenticating" THEN "active" ELSE ustate[u]
<1>1. /\ stored \in [Users -> BOOLEAN] /\ ustate \in [Users -> States]
      /\ signedOut \in [Users -> BOOLEAN]
      /\ \A x \in Users : ustate[x] = "active" => stored[x]
  BY DEF TableInv, ActiveImpliesStored
<1>2. /\ stored' = [stored EXCEPT ![u] = TRUE] /\ ustate' = [ustate EXCEPT ![u] = next]
      /\ signedOut' = signedOut
  BY DEF Saved
<1>3. u \in Users => next \in States
  BY <1>1 DEF States
<1> HIDE DEF u, next
<1>4. stored' \in [Users -> BOOLEAN] /\ ustate' \in [Users -> States]
  BY <1>1, <1>2, <1>3
<1>5. \A x \in Users : ustate'[x] = "active" => stored'[x]
  BY <1>1, <1>2
<1>6. QED
  BY <1>1, <1>2, <1>4, <1>5 DEF TableInv, ActiveImpliesStored

LEMMA TableInitially == Init => TableInv
<1> SUFFICES ASSUME Init PROVE TableInv
  OBVIOUS
<1>1. /\ stored \in [Users -> BOOLEAN] /\ signedOut = [u \in Users |-> FALSE]
      /\ ustate = [u \in Users |-> IF stored[u] THEN "active" ELSE "approved_unbound"]
  BY DEF Init
<1>2. ustate \in [Users -> States] /\ signedOut \in [Users -> BOOLEAN]
  BY <1>1 DEF States
<1>3. \A u \in Users : ustate[u] = "active" => stored[u]
  BY <1>1
<1>4. QED
  BY <1>1, <1>2, <1>3 DEF TableInv, ActiveImpliesStored

LEMMA TableInductive == TableInv /\ [Next]_vars => TableInv'
<1> SUFFICES ASSUME TableInv, [Next]_vars PROVE TableInv'
  OBVIOUS
<1>1. signedOut \in [Users -> BOOLEAN]
  BY DEF TableInv
<1>2. CASE UNCHANGED <<stored, ustate, signedOut>>
  BY <1>2 DEF TableInv, ActiveImpliesStored
<1>3. ASSUME NEW t \in Tasks, NEW u \in Users, NEW kind \in Kinds, Call(t, u, kind)
      PROVE  TableInv'
  <2>1. signedOut' = [signedOut EXCEPT ![u] = @ /\ ~IsLogin(kind)] /\ stored' = stored
    BY <1>3 DEF Call, CallOpened, CallUnopened, Begin, db
  <2>2. (signedOut[u] /\ ~IsLogin(kind)) \in BOOLEAN
    BY <1>1
  <2>3. signedOut' \in [Users -> BOOLEAN]
    BY <1>1, <2>1, <2>2
  <2>4. ustate' = [ustate EXCEPT ![u] = BegunAuthentication(@)] \/ ustate' = ustate
    <3>1. CASE CallOpened(t, u, kind)
      <4>1. ustate' = [ustate EXCEPT ![u] = IF IsLogin(kind) THEN BegunAuthentication(@) ELSE @]
        BY <3>1 DEF CallOpened
      <4>2. CASE IsLogin(kind)
        BY <4>1, <4>2
      <4>3. CASE ~IsLogin(kind)
        BY <4>1, <4>3 DEF TableInv
      <4>4. QED
        BY <4>2, <4>3
    <3>2. CASE CallUnopened(t, u, kind)
      BY <3>2 DEF CallUnopened, db
    <3>3. QED
      BY <1>3, <3>1, <3>2 DEF Call
  <2>5. QED
    BY <2>1, <2>3, <2>4, TableBegun
<1>4. ASSUME NEW t \in Tasks, NEW u \in Users, Logout(t, u)
      PROVE  TableInv'
  BY <1>2, <1>4, TableLoggedOut DEF Logout, LogoutOpened, LogoutUnopened, db
<1>5. ASSUME NEW u \in Users, Deliver(u)
      PROVE  TableInv'
  <2>1. CASE OpenAnswered(u)
    <3>1. stored' = stored /\ signedOut' = signedOut
      BY <2>1 DEF OpenAnswered
    <3>2. ustate' = [ustate EXCEPT ![u] = BegunAuthentication(@)] \/ ustate' = ustate
      <4>1. CASE ustate' = [ustate EXCEPT ![u] =
                   IF \E t \in Range(waiters[u]) : IsLogin(task[t].kind)
                   THEN BegunAuthentication(@) ELSE @]
        <5>1. CASE \E t \in Range(waiters[u]) : IsLogin(task[t].kind)
          BY <4>1, <5>1
        <5>2. CASE ~(\E t \in Range(waiters[u]) : IsLogin(task[t].kind))
          BY <4>1, <5>2 DEF TableInv
        <5>3. QED
          BY <5>1, <5>2
      <4>2. QED
        BY <2>1, <4>1 DEF OpenAnswered, OpeningSucceeded
    <3>3. QED
      BY <1>1, <3>1, <3>2, TableBegun
  <2>2. ASSUME NEW t \in Tasks, LogoutAnswered(t, u)
        PROVE  TableInv'
    BY <1>2, <2>2, TableLoggedOut DEF LogoutAnswered, db
  <2>3. ASSUME NEW t \in Tasks, OperationAnswered(t, u)
        PROVE  TableInv'
    BY <1>2, <2>3 DEF OperationAnswered, db
  <2>4. CASE LateAnswer(u)
    BY <1>2, <2>4 DEF LateAnswer, db
  <2>5. QED
    BY <1>5, <2>1, <2>2, <2>3, <2>4 DEF Deliver
<1>6. ASSUME NEW t \in Tasks, Saved(t)
      PROVE  TableInv'
  BY <1>6, TableSaved
<1>7. CASE \/ \E u \in Users : RequestOpen(u) \/ QrConfirmed(u) \/ OpenTimeout(u) \/ ChromiumCrash(u)
           \/ \E u \in Users : \E i \in DOMAIN queue[u] : Execute(u, i)
           \/ \E t \in Tasks : RequestTimeout(t)
           \/ WorkerRestart \/ ApiRestart \/ UNCHANGED vars
  <2>1. UNCHANGED <<stored, ustate, signedOut>>
    BY <1>7 DEF RequestOpen, QrConfirmed, OpenTimeout, ChromiumCrash, Execute, ExecuteOpen,
         ExecuteClose, ExecuteOperation, RequestTimeout, WorkerRestart, ApiRestart, vars, db
  <2>2. QED
    BY <1>2, <2>1
<1>8. QED
  BY <1>3, <1>4, <1>5, <1>6, <1>7 DEF Next

(* A user shown as active has a stored session to restore, whatever        *)
(* logouts, code submissions, crashes and restarts of both processes       *)
(* overlap.                                                                *)
THEOREM AlwaysActiveImpliesStored == Spec => []ActiveImpliesStored
<1>1. TableInv => ActiveImpliesStored
  BY DEF TableInv
<1>2. QED
  BY <1>1, TableInitially, TableInductive, PTL DEF Spec

-----------------------------------------------------------------------------
(* The calls.  OneOpening is about session.open only; it needs that every  *)
(* request, of a task as well, is under way exactly while it is awaited,   *)
(* and that those who wait for an opening are its waiters.                 *)

Awaiting == Tasks \cup {Opener}

TaskType == [pc : {"idle", "waiting", "requested", "saving"},
             user : Users \cup {NoUser}, kind : AllKinds \cup {"none"}]

ApiTypes ==
  /\ opened \subseteq Users
  /\ opening \in [Users -> {"no", "decrypting", "requested"}]
  /\ captured \in [Users -> BOOLEAN]
  /\ waiters \in [Users -> Seq(Tasks)]
  /\ task \in [Tasks -> TaskType]

SessionStates == {"absent", "anonymous", "prompting", "authenticated", "dead"}

WorkerTypes ==
  /\ queue \in [Users -> Seq(RequestType)]
  /\ answers \in [Users -> Seq(AnswerType)]
  /\ session \in [Users -> SessionStates]

\* A task in the line of an opening waits for it.
InLine(u, k) == k.pc = "waiting" /\ k.user = u /\ k.kind \in AllKinds \ {"logout"}

WaitingInv ==
  /\ \A u \in Users : \A i \in 1 .. Len(waiters[u]) : InLine(u, task[waiters[u][i]])
  /\ \A u \in Users : \A i, j \in 1 .. Len(waiters[u]) : waiters[u][i] = waiters[u][j] => i = j
  /\ \A u \in Users : opening[u] = "no" => waiters[u] = <<>>
  /\ \A t \in Tasks : task[t].pc = "waiting" => task[t].user \in Users /\ t \in Range(waiters[task[t].user])

\* Does the API await the answer to a request of u to `to`?
UnderWay(u, to) ==
  IF to = Opener THEN opening[u] = "requested" ELSE task[to].pc = "requested" /\ task[to].user = u

\* Then it is under way, once; otherwise it is not.
UnderWayInv ==
  \A u \in Users, to \in Awaiting :
    /\ UnderWay(u, to) => OneUnderWay(queue[u], answers[u], to)
    /\ ~UnderWay(u, to) => NoneUnderWay(queue[u], answers[u], to)

CallsInv == ApiTypes /\ WorkerTypes /\ WaitingInv /\ UnderWayInv

LEMMA CallsImplyOneOpening == CallsInv => OneOpening
<1> SUFFICES ASSUME CallsInv, NEW u \in Users
             PROVE  LET sent == {i \in DOMAIN queue[u] : queue[u][i].to = Opener}
                        back == {i \in DOMAIN answers[u] : answers[u][i].request.to = Opener}
                    IN Cardinality(sent) + Cardinality(back) = IF opening[u] = "requested" THEN 1 ELSE 0
  BY DEF OneOpening
<1> DEFINE sent == {i \in DOMAIN queue[u] : queue[u][i].to = Opener}
           back == {i \in DOMAIN answers[u] : answers[u][i].request.to = Opener}
<1>1. Cardinality({}) = 0 /\ \A i : Cardinality({i}) = 1
  BY FS_EmptySet, FS_Singleton
<1>2. Unasked(queue[u], Opener) => sent = {}
  BY DEF Unasked
<1>3. Unanswered(answers[u], Opener) => back = {}
  BY DEF Unanswered
<1>4. AskedOnce(queue[u], Opener) => \E i : sent = {i}
  BY DEF AskedOnce
<1>5. AnsweredOnce(answers[u], Opener) => \E i : back = {i}
  BY DEF AnsweredOnce
<1>6. IF opening[u] = "requested" THEN OneUnderWay(queue[u], answers[u], Opener)
      ELSE NoneUnderWay(queue[u], answers[u], Opener)
  BY DEF CallsInv, UnderWayInv, UnderWay, Awaiting
<1> HIDE DEF sent, back
<1>7. Cardinality(sent) + Cardinality(back) = IF opening[u] = "requested" THEN 1 ELSE 0
  <2>1. CASE opening[u] = "requested"
    <3>1. \/ Cardinality(sent) = 1 /\ Cardinality(back) = 0
          \/ Cardinality(sent) = 0 /\ Cardinality(back) = 1
      BY <1>1, <1>2, <1>3, <1>4, <1>5, <1>6, <2>1 DEF OneUnderWay
    <3>2. QED
      BY <2>1, <3>1
  <2>2. CASE opening[u] # "requested"
    <3>1. Cardinality(sent) = 0 /\ Cardinality(back) = 0
      BY <1>1, <1>2, <1>3, <1>6, <2>2 DEF NoneUnderWay
    <3>2. QED
      BY <2>2, <3>1
  <2>3. QED
    BY <2>1, <2>2
<1>8. QED
  BY <1>7 DEF sent, back

-----------------------------------------------------------------------------
(* Steps: what each leaves alone, and what is under way after it. *)

LEMMA UnderWayStep ==
  ASSUME CallsInv, NEW u \in Users, NEW p, NEW b,
         queue' = [queue EXCEPT ![u] = p], answers' = [answers EXCEPT ![u] = b],
         \A v \in Users \ {u}, to \in Awaiting : UnderWay(v, to)' <=> UnderWay(v, to),
         \A to \in Awaiting : /\ UnderWay(u, to)' => OneUnderWay(p, b, to)
                              /\ ~UnderWay(u, to)' => NoneUnderWay(p, b, to)
  PROVE  UnderWayInv'
<1>1. \A v \in Users : /\ queue'[v] = IF v = u THEN p ELSE queue[v]
                       /\ answers'[v] = IF v = u THEN b ELSE answers[v]
  BY DEF CallsInv, WorkerTypes
<1>2. SUFFICES ASSUME NEW v \in Users, NEW to \in Awaiting
               PROVE  /\ UnderWay(v, to)' => OneUnderWay(queue'[v], answers'[v], to)
                      /\ ~UnderWay(v, to)' => NoneUnderWay(queue'[v], answers'[v], to)
  BY DEF UnderWayInv
<1>3. CASE v = u
  BY <1>1, <1>3
<1>4. CASE v # u
  <2>1. UnderWay(v, to)' <=> UnderWay(v, to)
    BY <1>4
  <2>2. queue'[v] = queue[v] /\ answers'[v] = answers[v]
    BY <1>1, <1>4
  <2>3. /\ UnderWay(v, to) => OneUnderWay(queue[v], answers[v], to)
        /\ ~UnderWay(v, to) => NoneUnderWay(queue[v], answers[v], to)
    BY DEF CallsInv, UnderWayInv
  <2>4. QED
    BY <2>1, <2>2, <2>3
<1>5. QED
  BY <1>3, <1>4

LEMMA UnderWaySame ==
  ASSUME CallsInv, queue' = queue, answers' = answers,
         \A v \in Users, to \in Awaiting : UnderWay(v, to)' <=> UnderWay(v, to)
  PROVE  UnderWayInv'
BY DEF CallsInv, UnderWayInv

\* Nobody joins or leaves a line, and no opening that somebody waits for is over.
LEMMA WaitingSame ==
  ASSUME CallsInv, waiters' = waiters,
         \A u \in Users : opening'[u] = "no" => opening[u] = "no",
         \A t \in Tasks : task[t].pc = "waiting" => task'[t] = task[t],
         \A t \in Tasks : task'[t].pc = "waiting" => task[t].pc = "waiting"
  PROVE  WaitingInv'
<1>1. \A u \in Users : waiters[u] \in Seq(Tasks)
  BY DEF CallsInv, ApiTypes
<1>2. \A u \in Users : \A i \in 1 .. Len(waiters[u]) : waiters[u][i] \in Tasks
  BY <1>1, ElementOfSeq
<1>3. \A u \in Users : \A i \in 1 .. Len(waiters[u]) : InLine(u, task'[waiters[u][i]])
  BY <1>2 DEF CallsInv, WaitingInv, InLine
<1>4. QED
  BY <1>3 DEF CallsInv, WaitingInv

\* The line of an opening that is over is dissolved.
LEMMA WaitingOver ==
  ASSUME CallsInv, NEW u \in Users, waiters' = [waiters EXCEPT ![u] = <<>>],
         \A v \in Users \ {u} : opening'[v] = opening[v],
         \A t \in Tasks : t \in Range(waiters[u]) => task'[t].pc # "waiting",
         \A t \in Tasks : t \notin Range(waiters[u]) => task'[t] = task[t]
  PROVE  WaitingInv'
<1>1. waiters \in [Users -> Seq(Tasks)] /\ WaitingInv
  BY DEF CallsInv, ApiTypes
<1>2. \A v \in Users : waiters'[v] = IF v = u THEN <<>> ELSE waiters[v]
  BY <1>1
<1>3. Len(<<>>) = 0
  BY EmptySeq
<1>4. \A v \in Users \ {u} : \A i \in 1 .. Len(waiters[v]) :
        waiters[v][i] \in Tasks /\ waiters[v][i] \notin Range(waiters[u])
  <2> SUFFICES ASSUME NEW v \in Users \ {u}, NEW i \in 1 .. Len(waiters[v])
               PROVE  waiters[v][i] \in Tasks /\ waiters[v][i] \notin Range(waiters[u])
    OBVIOUS
  <2>1. waiters[v][i] \in Tasks
    BY <1>1, ElementOfSeq
  <2>2. task[waiters[v][i]].user = v
    BY <1>1 DEF WaitingInv, InLine
  <2>3. \A x \in Range(waiters[u]) : task[x].user = u
    <3>1. DOMAIN waiters[u] = 1 .. Len(waiters[u])
      BY <1>1, LenProperties
    <3>2. QED
      BY <1>1, <3>1 DEF Range, WaitingInv, InLine
  <2>4. QED
    BY <2>1, <2>2, <2>3
<1>5. \A v \in Users : \A i \in 1 .. Len(waiters'[v]) : InLine(v, task'[waiters'[v][i]])
  <2> SUFFICES ASSUME NEW v \in Users, NEW i \in 1 .. Len(waiters'[v])
               PROVE  InLine(v, task'[waiters'[v][i]])
    OBVIOUS
  <2>1. v # u /\ waiters'[v] = waiters[v]
    BY <1>2, <1>3
  <2>2. waiters[v][i] \in Tasks /\ task'[waiters[v][i]] = task[waiters[v][i]]
    BY <1>4, <2>1
  <2>3. InLine(v, task[waiters[v][i]])
    BY <1>1, <2>1 DEF WaitingInv
  <2>4. QED
    BY <2>1, <2>2, <2>3 DEF InLine
<1>6. \A v \in Users : \A i, j \in 1 .. Len(waiters'[v]) : waiters'[v][i] = waiters'[v][j] => i = j
  BY <1>1, <1>2, <1>3 DEF WaitingInv
<1>7. \A v \in Users : opening'[v] = "no" => waiters'[v] = <<>>
  BY <1>1, <1>2 DEF WaitingInv
<1>8. \A t \in Tasks : task'[t].pc = "waiting" =>
        task'[t].user \in Users /\ t \in Range(waiters'[task'[t].user])
  <2> SUFFICES ASSUME NEW t \in Tasks, task'[t].pc = "waiting"
               PROVE  task'[t].user \in Users /\ t \in Range(waiters'[task'[t].user])
    OBVIOUS
  <2>1. t \notin Range(waiters[u]) /\ task'[t] = task[t]
    OBVIOUS
  <2>2. task[t].user \in Users /\ t \in Range(waiters[task[t].user])
    BY <1>1, <2>1 DEF WaitingInv
  <2>3. QED
    BY <1>2, <2>1, <2>2
<1>9. QED
  BY <1>5, <1>6, <1>7, <1>8 DEF WaitingInv

\* The answer at the head of the line is for somebody who awaits it.
LEMMA AnswerAwaited ==
  ASSUME CallsInv, NEW u \in Users, NEW to \in Awaiting, AnswerTo(u, to), Received(u)
  PROVE  /\ UnderWay(u, to) /\ answers[u] # <<>> /\ Head(answers[u]) \in AnswerType
         /\ Tail(answers[u]) \in Seq(AnswerType) /\ answers' = [answers EXCEPT ![u] = Tail(answers[u])]
         /\ answers' \in [Users -> Seq(AnswerType)]
         /\ NoneUnderWay(queue[u], Tail(answers[u]), to)
         /\ \A x \in Awaiting : x # to =>
              /\ UnderWay(u, x) => OneUnderWay(queue[u], Tail(answers[u]), x)
              /\ ~UnderWay(u, x) => NoneUnderWay(queue[u], Tail(answers[u]), x)
<1>1. /\ answers \in [Users -> Seq(AnswerType)] /\ answers[u] # <<>> /\ Head(answers[u]).request.to = to
      /\ answers[u] \in Seq(AnswerType) /\ answers' = [answers EXCEPT ![u] = Tail(answers[u])]
  BY DEF CallsInv, WorkerTypes, AnswerTo, Received
<1>2. \A x \in Awaiting : /\ UnderWay(u, x) => OneUnderWay(queue[u], answers[u], x)
                          /\ ~UnderWay(u, x) => NoneUnderWay(queue[u], answers[u], x)
  BY DEF CallsInv, UnderWayInv
<1>3. /\ Tail(answers[u]) \in Seq(AnswerType) /\ Head(answers[u]) \in AnswerType
      /\ ~NoneUnderWay(queue[u], answers[u], to)
      /\ OneUnderWay(queue[u], answers[u], to) => NoneUnderWay(queue[u], Tail(answers[u]), to)
  <2> DEFINE a == answers[u]
  <2>1. a \in Seq(AnswerType) /\ a # <<>> /\ Head(a).request.to = to
    BY <1>1
  <2> HIDE DEF a
  <2>2. /\ Tail(a) \in Seq(AnswerType) /\ Head(a) \in AnswerType
        /\ ~NoneUnderWay(queue[u], a, to)
        /\ OneUnderWay(queue[u], a, to) => NoneUnderWay(queue[u], Tail(a), to)
    BY <2>1, AnswerTaken
  <2>3. QED
    BY <2>2 DEF a
<1>4. \A x \in Awaiting : x # to =>
        /\ NoneUnderWay(queue[u], answers[u], x) => NoneUnderWay(queue[u], Tail(answers[u]), x)
        /\ OneUnderWay(queue[u], answers[u], x) => OneUnderWay(queue[u], Tail(answers[u]), x)
  BY <1>1, AnswerTaken
<1>5. answers' \in [Users -> Seq(AnswerType)]
  BY <1>1, <1>3
<1>6. QED
  BY <1>1, <1>2, <1>3, <1>4, <1>5

\* A task writes its request.
LEMMA TaskAsks ==
  ASSUME CallsInv, NEW u \in Users, NEW t \in Tasks, task[t].pc = "idle", NEW kind \in AllKinds,
         NEW r \in RequestType, r.to = t,
         task' = [task EXCEPT ![t] = [pc |-> "requested", user |-> u, kind |-> kind]],
         queue' = [queue EXCEPT ![u] = Append(@, r)],
         UNCHANGED <<opening, captured, waiters, answers, session, opened>>
  PROVE  CallsInv'
<1> DEFINE p == Append(queue[u], r)
           z == [pc |-> "requested", user |-> u, kind |-> kind]
<1>1. /\ queue \in [Users -> Seq(RequestType)] /\ queue[u] \in Seq(RequestType)
      /\ task \in [Tasks -> TaskType] /\ answers \in [Users -> Seq(AnswerType)] /\ t # Opener
      /\ queue' = [queue EXCEPT ![u] = p]
  BY AddressesOut DEF CallsInv, ApiTypes, WorkerTypes
<1>2. p \in Seq(RequestType) /\ z \in TaskType /\ z.pc = "requested" /\ z.user = u
  BY <1>1, Sent DEF TaskType
<1>3. task' = [task EXCEPT ![t] = z]
  OBVIOUS
<1> HIDE DEF z
<1>4. ApiTypes' /\ WorkerTypes'
  BY <1>1, <1>2, <1>3 DEF CallsInv, ApiTypes, WorkerTypes
<1>5. WaitingInv'
  <2>1. \A x \in Tasks : task[x].pc = "waiting" => task'[x] = task[x]
    BY <1>1, <1>3
  <2>2. \A x \in Tasks : task'[x].pc = "waiting" => task[x].pc = "waiting"
    BY <1>1, <1>2, <1>3
  <2>3. QED
    BY <2>1, <2>2, WaitingSame
<1>6. \A v \in Users \ {u}, to \in Awaiting : UnderWay(v, to)' <=> UnderWay(v, to)
  BY <1>1, <1>2, <1>3 DEF UnderWay, Awaiting
<1>7. \A to \in Awaiting \ {t} : UnderWay(u, to)' <=> UnderWay(u, to)
  BY <1>1, <1>2, <1>3 DEF UnderWay, Awaiting
<1>8. UnderWay(u, t)' /\ ~UnderWay(u, t) /\ t \in Awaiting
  BY <1>1, <1>2, <1>3 DEF UnderWay, Awaiting
<1>9. \A to \in Awaiting : /\ UnderWay(u, to) => OneUnderWay(queue[u], answers[u], to)
                           /\ ~UnderWay(u, to) => NoneUnderWay(queue[u], answers[u], to)
  BY DEF CallsInv, UnderWayInv
<1>10. OneUnderWay(p, answers[u], t)
  <2>1. Unasked(queue[u], t) /\ Unanswered(answers[u], t)
    BY <1>8, <1>9 DEF NoneUnderWay
  <2>2. AskedOnce(p, t)
    BY <1>1, <2>1, Sent
  <2>3. QED
    BY <2>1, <2>2 DEF OneUnderWay
<1>11. ASSUME NEW to \in Awaiting, to # t
       PROVE  /\ NoneUnderWay(queue[u], answers[u], to) => NoneUnderWay(p, answers[u], to)
              /\ OneUnderWay(queue[u], answers[u], to) => OneUnderWay(p, answers[u], to)
  <2>1. /\ Unasked(queue[u], to) => Unasked(p, to)
        /\ AskedOnce(queue[u], to) => AskedOnce(p, to)
    BY <1>1, <1>11, Sent
  <2>2. QED
    BY <2>1 DEF NoneUnderWay, OneUnderWay
<1>12. \A to \in Awaiting : /\ UnderWay(u, to)' => OneUnderWay(p, answers[u], to)
                            /\ ~UnderWay(u, to)' => NoneUnderWay(p, answers[u], to)
  BY <1>7, <1>8, <1>9, <1>10, <1>11
<1>13. answers' = [answers EXCEPT ![u] = answers[u]]
  BY <1>1
<1> HIDE DEF p
<1>14. UnderWayInv'
  BY <1>1, <1>6, <1>12, <1>13, UnderWayStep
<1>15. QED
  BY <1>4, <1>5, <1>14 DEF CallsInv

-----------------------------------------------------------------------------
(* The actions of the API. *)

LEMMA CallKeeps ==
  ASSUME CallsInv, stored \in [Users -> BOOLEAN],
         NEW t \in Tasks, NEW u \in Users, NEW kind \in Kinds, Call(t, u, kind)
  PROVE  CallsInv'
<1>1. kind \in AllKinds \ {"logout"} /\ t # Opener /\ t \in Addresses
  BY KindsType, AddressesOut DEF Call, CallOpened, CallUnopened, Addresses
<1>2. CASE CallOpened(t, u, kind)
  <2> DEFINE r == Requested(t, kind)
  <2>1. r \in RequestType /\ r.to = t
    BY <1>1 DEF Requested, Request, RequestType, Ops
  <2> HIDE DEF r
  <2>2. /\ task[t].pc = "idle"
        /\ task' = [task EXCEPT ![t] = [pc |-> "requested", user |-> u, kind |-> kind]]
        /\ queue' = [queue EXCEPT ![u] = Append(@, r)]
        /\ UNCHANGED <<opening, captured, waiters, answers, session, opened>>
    BY <1>2 DEF CallOpened, Begin, r
  <2>3. QED
    BY <1>1, <2>1, <2>2, TaskAsks
<1>3. CASE CallUnopened(t, u, kind)
  <2> DEFINE z == [pc |-> "waiting", user |-> u, kind |-> kind]
             w == Append(waiters[u], t)
  <2>1. /\ task[t].pc = "idle" /\ task' = [task EXCEPT ![t] = z]
        /\ waiters' = [waiters EXCEPT ![u] = Append(@, t)]
        /\ \/ opening[u] # "no" /\ UNCHANGED <<opening, captured>>
           \/ /\ opening[u] = "no"
              /\ opening' = [opening EXCEPT ![u] = "decrypting"]
              /\ captured' = [captured EXCEPT ![u] = stored[u]]
        /\ UNCHANGED <<opened, queue, answers, session>>
    BY <1>3 DEF CallUnopened, Begin, worker
  <2>2. /\ waiters \in [Users -> Seq(Tasks)] /\ task \in [Tasks -> TaskType]
        /\ opening \in [Users -> {"no", "decrypting", "requested"}] /\ captured \in [Users -> BOOLEAN]
        /\ opened \subseteq Users /\ stored[u] \in BOOLEAN /\ WaitingInv
    BY DEF CallsInv, ApiTypes
  <2>3. /\ w \in Seq(Tasks) /\ Len(w) = Len(waiters[u]) + 1 /\ w[Len(waiters[u]) + 1] = t
        /\ \A i \in 1 .. Len(waiters[u]) : w[i] = waiters[u][i]
        /\ Len(waiters[u]) \in Nat /\ DOMAIN w = 1 .. Len(waiters[u]) + 1
        /\ DOMAIN waiters[u] = 1 .. Len(waiters[u])
    BY <2>2, AppendFact, LenProperties
  <2>4. z \in TaskType /\ InLine(u, z) /\ z.pc = "waiting" /\ z.user = u
    BY <1>1 DEF TaskType, InLine
  <2>5. waiters' = [waiters EXCEPT ![u] = w]
    BY <2>1, <2>2
  <2> HIDE DEF z, w
  <2>6. ApiTypes' /\ WorkerTypes'
    <3>1. opening' \in [Users -> {"no", "decrypting", "requested"}] /\ captured' \in [Users -> BOOLEAN]
      BY <2>1, <2>2
    <3>2. waiters' \in [Users -> Seq(Tasks)] /\ task' \in [Tasks -> TaskType]
      BY <2>1, <2>2, <2>3, <2>4, <2>5
    <3>3. QED
      BY <2>1, <2>2, <3>1, <3>2 DEF ApiTypes, WorkerTypes, CallsInv
  <2>7. \A v \in Users : \A i \in 1 .. Len(waiters[v]) : waiters[v][i] \in Tasks \ {t}
    <3> SUFFICES ASSUME NEW v \in Users, NEW i \in 1 .. Len(waiters[v])
                 PROVE  waiters[v][i] \in Tasks \ {t}
      OBVIOUS
    <3>1. waiters[v][i] \in Tasks
      BY <2>2, ElementOfSeq
    <3>2. task[waiters[v][i]].pc = "waiting"
      BY <2>2 DEF WaitingInv, InLine
    <3>3. QED
      BY <2>1, <3>1, <3>2
  <2>8. \A x \in Tasks : task'[x] = IF x = t THEN z ELSE task[x]
    BY <2>1, <2>2
  <2>9. \A v \in Users : waiters'[v] = IF v = u THEN w ELSE waiters[v]
    BY <2>2, <2>5
  <2>10. \A v \in Users : \A i \in 1 .. Len(waiters'[v]) : InLine(v, task'[waiters'[v][i]])
    <3> SUFFICES ASSUME NEW v \in Users, NEW i \in 1 .. Len(waiters'[v])
                 PROVE  InLine(v, task'[waiters'[v][i]])
      OBVIOUS
    <3>1. CASE i \in 1 .. Len(waiters[v])
      <4>1. waiters'[v][i] = waiters[v][i]
        BY <2>3, <2>9, <3>1
      <4>2. task'[waiters[v][i]] = task[waiters[v][i]]
        BY <2>7, <2>8, <3>1
      <4>3. QED
        BY <2>2, <3>1, <4>1, <4>2 DEF WaitingInv
    <3>2. CASE i \notin 1 .. Len(waiters[v])
      <4>1. v = u /\ waiters'[v] = w
        BY <2>9, <3>2
      <4>2. i = Len(waiters[u]) + 1
        BY <2>3, <3>2, <4>1
      <4>3. QED
        BY <2>3, <2>4, <2>8, <4>1, <4>2
    <3>3. QED
      BY <3>1, <3>2
  <2>11. \A v \in Users : \A i, j \in 1 .. Len(waiters'[v]) : waiters'[v][i] = waiters'[v][j] => i = j
    <3>1. \A i, j \in 1 .. Len(w) : w[i] = w[j] => i = j
      <4> SUFFICES ASSUME NEW i \in 1 .. Len(w), NEW j \in 1 .. Len(w), w[i] = w[j] PROVE i = j
        OBVIOUS
      <4>1. \A k \in 1 .. Len(w) : k \in 1 .. Len(waiters[u]) \/ (k = Len(waiters[u]) + 1 /\ w[k] = t)
        BY <2>3
      <4>2. \A k \in 1 .. Len(waiters[u]) : w[k] # t
        BY <2>3, <2>7
      <4>3. i \in 1 .. Len(waiters[u]) <=> j \in 1 .. Len(waiters[u])
        BY <4>1, <4>2
      <4>4. CASE i \in 1 .. Len(waiters[u])
        BY <2>2, <2>3, <4>3, <4>4 DEF WaitingInv
      <4>5. CASE i \notin 1 .. Len(waiters[u])
        BY <4>1, <4>3, <4>5
      <4>6. QED
        BY <4>4, <4>5
    <3>2. QED
      BY <2>2, <2>9, <3>1 DEF WaitingInv
  <2>12. \A v \in Users : opening'[v] = "no" => waiters'[v] = <<>>
    <3>1. opening'[u] # "no" /\ \A v \in Users \ {u} : opening'[v] = opening[v]
      BY <2>1, <2>2
    <3>2. QED
      BY <2>2, <2>9, <3>1 DEF WaitingInv
  <2>13. \A x \in Tasks : task'[x].pc = "waiting" =>
           task'[x].user \in Users /\ x \in Range(waiters'[task'[x].user])
    <3> SUFFICES ASSUME NEW x \in Tasks, task'[x].pc = "waiting"
                 PROVE  task'[x].user \in Users /\ x \in Range(waiters'[task'[x].user])
      OBVIOUS
    <3>1. CASE x = t
      <4>1. t = w[Len(waiters[u]) + 1] /\ Len(waiters[u]) + 1 \in DOMAIN w
        BY <2>3
      <4>2. t \in Range(w)
        BY <4>1 DEF Range
      <4>3. QED
        BY <2>4, <2>8, <2>9, <3>1, <4>2
    <3>2. CASE x # t
      <4>1. task[x].pc = "waiting" /\ task'[x].user = task[x].user
        BY <2>8, <3>2
      <4>2. task[x].user \in Users /\ x \in Range(waiters[task[x].user])
        BY <2>2, <4>1 DEF WaitingInv
      <4>3. Range(waiters[u]) \subseteq Range(w)
        <5>1. \A i \in DOMAIN waiters[u] : i \in DOMAIN w /\ w[i] = waiters[u][i]
          BY <2>3
        <5>2. QED
          BY <5>1 DEF Range
      <4>4. QED
        BY <2>9, <4>1, <4>2, <4>3
    <3>3. QED
      BY <3>1, <3>2
  <2>14. WaitingInv'
    BY <2>10, <2>11, <2>12, <2>13 DEF WaitingInv
  <2>15. \A v \in Users, to \in Awaiting : UnderWay(v, to)' <=> UnderWay(v, to)
    <3>1. \A v \in Users : opening'[v] = "requested" <=> opening[v] = "requested"
      BY <2>1, <2>2
    <3>2. QED
      BY <2>1, <2>4, <2>8, <3>1 DEF UnderWay, Awaiting
  <2>16. UnderWayInv'
    BY <2>1, <2>15, UnderWaySame
  <2>17. QED
    BY <2>6, <2>14, <2>16 DEF CallsInv
<1>4. QED
  BY <1>2, <1>3 DEF Call

\* Nothing of the calls changes but which users have a session.
LEMMA OpenedKeeps ==
  ASSUME CallsInv, opened' \subseteq Users, UNCHANGED <<opening, captured, waiters, task, queue, answers>>,
         session' \in [Users -> SessionStates]
  PROVE  CallsInv'
<1>1. ApiTypes' /\ WorkerTypes'
  BY DEF CallsInv, ApiTypes, WorkerTypes
<1>2. WaitingInv'
  BY DEF CallsInv, WaitingInv
<1>3. UnderWayInv'
  BY DEF CallsInv, UnderWayInv, UnderWay
<1>4. QED
  BY <1>1, <1>2, <1>3 DEF CallsInv

LEMMA LogoutKeeps ==
  ASSUME CallsInv, NEW t \in Tasks, NEW u \in Users, Logout(t, u)
  PROVE  CallsInv'
<1>1. t \in Addresses
  BY DEF Addresses
<1>2. CASE LogoutOpened(t, u)
  <2> DEFINE r == Request(t, "close", FALSE)
  <2>1. r \in RequestType /\ r.to = t /\ "logout" \in AllKinds
    BY <1>1 DEF Request, RequestType, Ops, AllKinds
  <2> HIDE DEF r
  <2>2. /\ task[t].pc = "idle"
        /\ task' = [task EXCEPT ![t] = [pc |-> "requested", user |-> u, kind |-> "logout"]]
        /\ queue' = [queue EXCEPT ![u] = Append(@, r)]
        /\ UNCHANGED <<opening, captured, waiters, answers, session, opened>>
    BY <1>2 DEF LogoutOpened, r
  <2>3. QED
    BY <2>1, <2>2, TaskAsks
<1>3. CASE LogoutUnopened(t, u)
  <2>1. opened' = opened \ {u} /\ UNCHANGED <<opening, captured, waiters, task, queue, answers, session>>
    BY <1>3 DEF LogoutUnopened, LoggedOut, worker
  <2>2. opened' \subseteq Users /\ session' \in [Users -> SessionStates]
    BY <2>1 DEF CallsInv, ApiTypes, WorkerTypes
  <2>3. QED
    BY <2>1, <2>2, OpenedKeeps
<1>4. QED
  BY <1>2, <1>3 DEF Logout

LEMMA RequestOpenKeeps ==
  ASSUME CallsInv, NEW u \in Users, RequestOpen(u)
  PROVE  CallsInv'
<1> DEFINE r == Request(Opener, "open", captured[u])
           p == Append(queue[u], r)
<1>1. /\ opening[u] = "decrypting" /\ opening' = [opening EXCEPT ![u] = "requested"]
      /\ queue' = [queue EXCEPT ![u] = p]
      /\ UNCHANGED <<opened, captured, waiters, task, answers, session>>
  BY DEF RequestOpen, CallsInv, WorkerTypes
<1>2. /\ queue \in [Users -> Seq(RequestType)] /\ queue[u] \in Seq(RequestType)
      /\ opening \in [Users -> {"no", "decrypting", "requested"}] /\ captured[u] \in BOOLEAN
      /\ answers \in [Users -> Seq(AnswerType)]
  BY DEF CallsInv, ApiTypes, WorkerTypes
<1>3. r \in RequestType /\ r.to = Opener
  BY <1>2 DEF Request, RequestType, Addresses, Ops
<1> HIDE DEF r
<1>4. p \in Seq(RequestType)
  BY <1>2, <1>3, Sent
<1>5. ApiTypes' /\ WorkerTypes'
  BY <1>1, <1>2, <1>4 DEF CallsInv, ApiTypes, WorkerTypes
<1>6. \A v \in Users : opening'[v] = IF v = u THEN "requested" ELSE opening[v]
  BY <1>1, <1>2
<1>7. WaitingInv'
  BY <1>1, <1>6, WaitingSame
<1>8. \A v \in Users \ {u}, to \in Awaiting : UnderWay(v, to)' <=> UnderWay(v, to)
  BY <1>1, <1>6 DEF UnderWay, Awaiting
<1>9. \A to \in Awaiting \ {Opener} : UnderWay(u, to)' <=> UnderWay(u, to)
  BY <1>1 DEF UnderWay, Awaiting
<1>10. UnderWay(u, Opener)' /\ ~UnderWay(u, Opener)
  BY <1>1, <1>6 DEF UnderWay
<1>11. \A to \in Awaiting : /\ UnderWay(u, to) => OneUnderWay(queue[u], answers[u], to)
                            /\ ~UnderWay(u, to) => NoneUnderWay(queue[u], answers[u], to)
  BY DEF CallsInv, UnderWayInv
<1>12. OneUnderWay(p, answers[u], Opener)
  <2>1. Unasked(queue[u], Opener) /\ Unanswered(answers[u], Opener)
    BY <1>10, <1>11 DEF NoneUnderWay, Awaiting
  <2>2. AskedOnce(p, Opener)
    BY <1>2, <1>3, <2>1, Sent
  <2>3. QED
    BY <2>1, <2>2 DEF OneUnderWay
<1>13. ASSUME NEW to \in Awaiting, to # Opener
       PROVE  /\ NoneUnderWay(queue[u], answers[u], to) => NoneUnderWay(p, answers[u], to)
              /\ OneUnderWay(queue[u], answers[u], to) => OneUnderWay(p, answers[u], to)
  <2>1. /\ Unasked(queue[u], to) => Unasked(p, to)
        /\ AskedOnce(queue[u], to) => AskedOnce(p, to)
    BY <1>2, <1>3, <1>13, Sent
  <2>2. QED
    BY <2>1 DEF NoneUnderWay, OneUnderWay
<1>14. \A to \in Awaiting : /\ UnderWay(u, to)' => OneUnderWay(p, answers[u], to)
                            /\ ~UnderWay(u, to)' => NoneUnderWay(p, answers[u], to)
  BY <1>9, <1>10, <1>11, <1>12, <1>13
<1>15. answers' = [answers EXCEPT ![u] = answers[u]]
  BY <1>1, <1>2
<1> HIDE DEF p
<1>16. UnderWayInv'
  BY <1>1, <1>8, <1>14, <1>15, UnderWayStep
<1>17. QED
  BY <1>5, <1>7, <1>16 DEF CallsInv

LEMMA SavedKeeps ==
  ASSUME CallsInv, NEW t \in Tasks, Saved(t)
  PROVE  CallsInv'
<1>1. /\ task[t].pc = "saving" /\ task' = [task EXCEPT ![t] = Idle]
      /\ UNCHANGED <<opened, opening, captured, waiters, queue, answers, session>>
  BY DEF Saved, worker
<1>2. Idle \in TaskType /\ Idle.pc = "idle" /\ task \in [Tasks -> TaskType] /\ t # Opener
  BY AddressesOut DEF Idle, TaskType, CallsInv, ApiTypes
<1> HIDE DEF Idle
<1>3. ApiTypes' /\ WorkerTypes'
  BY <1>1, <1>2 DEF CallsInv, ApiTypes, WorkerTypes
<1>4. \A x \in Tasks : task'[x] = IF x = t THEN Idle ELSE task[x]
  BY <1>1, <1>2
<1>5. WaitingInv'
  BY <1>1, <1>2, <1>4, WaitingSame
<1>6. \A v \in Users, to \in Awaiting : UnderWay(v, to)' <=> UnderWay(v, to)
  BY <1>1, <1>2, <1>4 DEF UnderWay, Awaiting
<1>7. UnderWayInv'
  BY <1>1, <1>6, UnderWaySame
<1>8. QED
  BY <1>3, <1>5, <1>7 DEF CallsInv

-----------------------------------------------------------------------------
(* The worker. *)

LEMMA AnswerKeeps ==
  ASSUME CallsInv, NEW u \in Users, NEW i \in DOMAIN queue[u], NEW result \in Results,
         Answer(u, i, result), session' \in [Users -> SessionStates], UNCHANGED api
  PROVE  CallsInv'
<1> DEFINE q == queue[u]
           a == answers[u]
           p == RemoveAt(q, i)
           b == Append(a, [request |-> q[i], result |-> result])
<1>1. /\ queue \in [Users -> Seq(RequestType)] /\ answers \in [Users -> Seq(AnswerType)]
      /\ q \in Seq(RequestType) /\ a \in Seq(AnswerType)
      /\ queue' = [queue EXCEPT ![u] = p] /\ answers' = [answers EXCEPT ![u] = b]
      /\ i \in DOMAIN q
  BY DEF CallsInv, WorkerTypes, Answer
<1>2. \A to \in Awaiting : /\ UnderWay(u, to) => OneUnderWay(q, a, to)
                           /\ ~UnderWay(u, to) => NoneUnderWay(q, a, to)
  BY DEF CallsInv, UnderWayInv
<1>3. UNCHANGED <<opened, opening, captured, waiters, task>>
  BY DEF api
<1> HIDE DEF q, a
<1>4. /\ p \in Seq(RequestType) /\ b \in Seq(AnswerType)
      /\ \A to : /\ NoneUnderWay(q, a, to) => NoneUnderWay(p, b, to)
                 /\ OneUnderWay(q, a, to) => OneUnderWay(p, b, to)
  <2> DEFINE r == [request |-> q[i], result |-> result]
  <2>1. q[i] \in RequestType
    BY <1>1, ElementOfSeq, LenProperties
  <2>2. r \in AnswerType /\ r.request = q[i] /\ p = RemoveAt(q, i) /\ b = Append(a, r)
    BY <2>1 DEF AnswerType
  <2> HIDE DEF r, p, b
  <2>3. ASSUME NEW to
        PROVE  /\ RemoveAt(q, i) \in Seq(RequestType) /\ Append(a, r) \in Seq(AnswerType)
               /\ NoneUnderWay(q, a, to) => NoneUnderWay(RemoveAt(q, i), Append(a, r), to)
               /\ OneUnderWay(q, a, to) => OneUnderWay(RemoveAt(q, i), Append(a, r), to)
    BY <1>1, <2>2, Executed
  <2>4. QED
    BY <2>2, <2>3
<1> HIDE DEF p, b
<1>5. queue' \in [Users -> Seq(RequestType)] /\ answers' \in [Users -> Seq(AnswerType)]
  BY <1>1, <1>4
<1>6. ApiTypes' /\ WorkerTypes'
  BY <1>3, <1>5 DEF CallsInv, ApiTypes, WorkerTypes
<1>7. WaitingInv'
  BY <1>3 DEF CallsInv, WaitingInv
<1>8. \A v \in Users, to \in Awaiting : UnderWay(v, to)' <=> UnderWay(v, to)
  BY <1>3 DEF UnderWay
<1>9. \A to \in Awaiting : /\ UnderWay(u, to)' => OneUnderWay(p, b, to)
                           /\ ~UnderWay(u, to)' => NoneUnderWay(p, b, to)
  BY <1>2, <1>4, <1>8
<1>10. UnderWayInv'
  BY <1>1, <1>8, <1>9, UnderWayStep
<1>11. QED
  BY <1>6, <1>7, <1>10 DEF CallsInv

LEMMA EffectsFact ==
  ASSUME NEW op \in {"use", "phone", "status", "code"}, NEW s \in SessionStates, s # "absent",
         NEW e \in Effects(op, s)
  PROVE  e[1] \in SessionStates /\ e[2] \in Results
<1>1. CASE s = "dead"
  BY <1>1 DEF Effects, SessionStates, Results
<1>2. CASE s # "dead" /\ op = "use"
  BY <1>2 DEF Effects, SessionStates, Results
<1>3. CASE s # "dead" /\ op = "phone"
  BY <1>3 DEF Effects, SessionStates, Results
<1>4. CASE s # "dead" /\ op = "status"
  BY <1>4 DEF Effects, SessionStates, Results
<1>5. CASE s # "dead" /\ op = "code"
  BY <1>5 DEF Effects, SessionStates, Results
<1>6. QED
  BY <1>1, <1>2, <1>3, <1>4, <1>5

LEMMA ExecuteKeeps ==
  ASSUME CallsInv, NEW u \in Users, NEW i \in DOMAIN queue[u], Execute(u, i)
  PROVE  CallsInv'
<1>1. /\ queue[u] \in Seq(RequestType) /\ session \in [Users -> SessionStates]
      /\ session[u] \in SessionStates
  BY DEF CallsInv, WorkerTypes
<1>2. queue[u][i] \in RequestType
  BY <1>1, LenProperties, ElementOfSeq
<1>3. {"ok", "failed", "session_not_found"} \subseteq Results
  BY DEF Results
<1>4. CASE ExecuteOpen(u, i)
  <2>1. queue[u][i].storage \in BOOLEAN
    BY <1>2 DEF RequestType
  <2>2. SessionOpened(session[u], queue[u][i].storage) \in SessionStates
    BY <1>1 DEF SessionOpened, SessionStates
  <2>3. session' = [session EXCEPT ![u] = SessionOpened(session[u], queue[u][i].storage)]
          \/ session' = session
    BY <1>4 DEF ExecuteOpen
  <2>4. session' \in [Users -> SessionStates]
    BY <1>1, <2>2, <2>3
  <2>5. (Answer(u, i, "ok") \/ Answer(u, i, "failed")) /\ UNCHANGED api
    BY <1>4 DEF ExecuteOpen
  <2>6. QED
    BY <1>3, <2>4, <2>5, AnswerKeeps
<1>5. CASE ExecuteClose(u, i)
  <2>1. session' = [session EXCEPT ![u] = "absent"] /\ UNCHANGED api
          /\ (Answer(u, i, "ok") \/ Answer(u, i, "failed"))
    BY <1>5 DEF ExecuteClose
  <2>2. session' \in [Users -> SessionStates]
    BY <1>1, <2>1 DEF SessionStates
  <2>3. QED
    BY <1>3, <2>1, <2>2, AnswerKeeps
<1>6. CASE ExecuteOperation(u, i)
  <2>1. queue[u][i].op \in {"use", "phone", "status", "code"} /\ UNCHANGED api
    BY <1>2, <1>6 DEF ExecuteOperation, RequestType, Ops, AllKinds
  <2>2. CASE session[u] = "absent"
    <3>1. Answer(u, i, "session_not_found") /\ session' = session
      BY <1>6, <2>2 DEF ExecuteOperation
    <3>2. QED
      BY <1>1, <1>3, <2>1, <3>1, AnswerKeeps
  <2>3. CASE session[u] # "absent"
    <3>1. PICK e \in Effects(queue[u][i].op, session[u]) :
            session' = [session EXCEPT ![u] = e[1]] /\ Answer(u, i, e[2])
      BY <1>6, <2>3 DEF ExecuteOperation
    <3>2. e[1] \in SessionStates /\ e[2] \in Results
      BY <1>1, <2>1, <2>3, EffectsFact
    <3>3. session' \in [Users -> SessionStates]
      BY <1>1, <3>1, <3>2
    <3>4. QED
      BY <2>1, <3>1, <3>2, <3>3, AnswerKeeps
  <2>4. QED
    BY <2>2, <2>3
<1>7. QED
  BY <1>4, <1>5, <1>6 DEF Execute

-----------------------------------------------------------------------------
(* The answers. *)

\* The tasks that waited for an opening ask for what they are to ask.
LEMMA LineAsks ==
  ASSUME CallsInv, NEW u \in Users,
         NEW r, r = [i \in DOMAIN waiters[u] |-> Requested(waiters[u][i], task[waiters[u][i]].kind)]
  PROVE  /\ r \in Seq(RequestType) /\ waiters[u] \in Seq(Tasks) /\ Len(r) = Len(waiters[u])
         /\ \A i \in 1 .. Len(waiters[u]) : r[i].to = waiters[u][i]
         /\ \A i, j \in 1 .. Len(waiters[u]) : waiters[u][i] = waiters[u][j] => i = j
<1> DEFINE w == waiters[u]
<1>1. w \in Seq(Tasks) /\ Len(w) \in Nat /\ DOMAIN w = 1 .. Len(w) /\ \A i \in 1 .. Len(w) : w[i] \in Tasks
  <2>1. w \in Seq(Tasks)
    BY DEF CallsInv, ApiTypes
  <2> HIDE DEF w
  <2>2. QED
    BY <2>1, LenProperties, ElementOfSeq
<1>2. /\ \A i \in 1 .. Len(w) : InLine(u, task[w[i]])
      /\ \A i, j \in 1 .. Len(w) : w[i] = w[j] => i = j
  BY DEF CallsInv, WaitingInv
<1>3. r = [i \in DOMAIN w |-> Requested(w[i], task[w[i]].kind)]
  OBVIOUS
<1> HIDE DEF w
<1>4. \A i \in 1 .. Len(w) : r[i] = Requested(w[i], task[w[i]].kind)
  BY <1>1, <1>3
<1>5. \A i \in 1 .. Len(w) : r[i] \in RequestType /\ r[i].to = w[i]
  <2> SUFFICES ASSUME NEW i \in 1 .. Len(w) PROVE r[i] \in RequestType /\ r[i].to = w[i]
    OBVIOUS
  <2>1. w[i] \in Addresses /\ task[w[i]].kind \in Ops
    BY <1>1, <1>2 DEF InLine, Addresses, Ops
  <2>2. \A to \in Addresses, op \in Ops :
          Requested(to, op) \in RequestType /\ Requested(to, op).to = to
    BY DEF Requested, Request, RequestType
  <2>3. r[i] = Requested(w[i], task[w[i]].kind)
    BY <1>4
  <2>4. QED
    BY <2>1, <2>2, <2>3
<1>6. r \in [1 .. Len(w) -> RequestType]
  BY <1>1, <1>3, <1>5
<1>7. r \in Seq(RequestType)
  BY <1>1, <1>6, SeqDef
<1>8. Len(r) = Len(w)
  BY <1>1, <1>6, <1>7, LenProperties
<1>9. QED
  BY <1>1, <1>2, <1>5, <1>7, <1>8 DEF w

\* The opening of u is over; what follows leaves the requests of the others under way.
LEMMA OpeningEnds ==
  ASSUME CallsInv, NEW u \in Users, OpeningOver(u), opened' \subseteq Users, session' = session,
         task' \in [Tasks -> TaskType],
         \A t \in Tasks : t \in Range(waiters[u]) => task'[t].pc # "waiting",
         \A t \in Tasks : t \notin Range(waiters[u]) => task'[t] = task[t],
         \A v \in Users \ {u}, t \in Range(waiters[u]) : ~UnderWay(v, t)',
         NEW p \in Seq(RequestType), NEW b \in Seq(AnswerType),
         queue' = [queue EXCEPT ![u] = p], answers' = [answers EXCEPT ![u] = b],
         NoneUnderWay(p, b, Opener),
         \A t \in Tasks : /\ UnderWay(u, t)' => OneUnderWay(p, b, t)
                          /\ ~UnderWay(u, t)' => NoneUnderWay(p, b, t)
  PROVE  CallsInv'
<1>1. /\ opening' = [opening EXCEPT ![u] = "no"] /\ captured' = [captured EXCEPT ![u] = FALSE]
      /\ waiters' = [waiters EXCEPT ![u] = <<>>] /\ WaitingInv
  BY DEF OpeningOver, CallsInv
<1>2. /\ opening \in [Users -> {"no", "decrypting", "requested"}] /\ captured \in [Users -> BOOLEAN]
      /\ waiters \in [Users -> Seq(Tasks)] /\ queue \in [Users -> Seq(RequestType)]
      /\ answers \in [Users -> Seq(AnswerType)] /\ session \in [Users -> SessionStates]
  BY DEF CallsInv, ApiTypes, WorkerTypes
<1>3. <<>> \in Seq(Tasks)
  BY EmptySeq
<1>4. /\ opening' \in [Users -> {"no", "decrypting", "requested"}] /\ captured' \in [Users -> BOOLEAN]
      /\ waiters' \in [Users -> Seq(Tasks)]
  BY <1>1, <1>2, <1>3
<1>5. queue' \in [Users -> Seq(RequestType)] /\ answers' \in [Users -> Seq(AnswerType)]
  BY <1>2
<1>6. ApiTypes' /\ WorkerTypes'
  BY <1>2, <1>4, <1>5 DEF ApiTypes, WorkerTypes
<1>7. opening'[u] = "no" /\ \A v \in Users \ {u} : opening'[v] = opening[v]
  BY <1>1, <1>2
<1>8. WaitingInv'
  BY <1>1, <1>7, WaitingOver
<1>9. \A t \in Range(waiters[u]) : t \in Tasks /\ task[t].pc = "waiting"
  <2>1. waiters[u] \in Seq(Tasks)
    BY <1>2
  <2>2. \A i \in DOMAIN waiters[u] : i \in 1 .. Len(waiters[u]) /\ waiters[u][i] \in Tasks
    BY <2>1, LenProperties, ElementOfSeq
  <2>3. QED
    BY <1>1, <2>2 DEF Range, WaitingInv, InLine
<1>10. \A v \in Users \ {u}, to \in Awaiting : UnderWay(v, to)' <=> UnderWay(v, to)
  <2> SUFFICES ASSUME NEW v \in Users \ {u}, NEW to \in Awaiting
               PROVE  UnderWay(v, to)' <=> UnderWay(v, to)
    OBVIOUS
  <2>1. CASE to = Opener
    BY <1>7, <2>1 DEF UnderWay
  <2>2. CASE to # Opener /\ to \in Range(waiters[u])
    BY <1>9, <2>2 DEF UnderWay
  <2>3. CASE to # Opener /\ to \notin Range(waiters[u])
    <3>1. task'[to] = task[to]
      BY <2>3 DEF Awaiting
    <3>2. QED
      BY <2>3, <3>1 DEF UnderWay
  <2>4. QED
    BY <2>1, <2>2, <2>3
<1>11. \A to \in Awaiting : /\ UnderWay(u, to)' => OneUnderWay(p, b, to)
                            /\ ~UnderWay(u, to)' => NoneUnderWay(p, b, to)
  <2>1. ~UnderWay(u, Opener)'
    BY <1>7 DEF UnderWay
  <2>2. QED
    BY <2>1 DEF Awaiting
<1>12. UnderWayInv'
  BY <1>10, <1>11, UnderWayStep
<1>13. QED
  BY <1>6, <1>8, <1>12 DEF CallsInv

\* Those who wait in the line of u.
LEMMA LineFact ==
  ASSUME CallsInv, NEW u \in Users
  PROVE  /\ \A t \in Range(waiters[u]) : /\ t \in Tasks /\ t # Opener
                                         /\ task[t].pc = "waiting" /\ task[t].user = u
         /\ task \in [Tasks -> TaskType]
         /\ \A to \in Awaiting : /\ UnderWay(u, to) => OneUnderWay(queue[u], answers[u], to)
                                 /\ ~UnderWay(u, to) => NoneUnderWay(queue[u], answers[u], to)
<1>1. waiters[u] \in Seq(Tasks) /\ WaitingInv /\ task \in [Tasks -> TaskType]
  BY DEF CallsInv, ApiTypes
<1>2. \A i \in DOMAIN waiters[u] : i \in 1 .. Len(waiters[u]) /\ waiters[u][i] \in Tasks
  BY <1>1, LenProperties, ElementOfSeq
<1>3. \A t \in Range(waiters[u]) : t \in Tasks /\ task[t].pc = "waiting" /\ task[t].user = u
  BY <1>1, <1>2 DEF Range, WaitingInv, InLine
<1>4. \A t \in Tasks : t # Opener
  BY AddressesOut
<1>5. QED
  BY <1>1, <1>3, <1>4 DEF CallsInv, UnderWayInv

\* The opening failed: those who waited are done.
LEMMA OpeningFails ==
  ASSUME CallsInv, NEW u \in Users, OpeningFailed(u), opened' = opened, session' = session,
         NEW p \in Seq(RequestType), NEW b \in Seq(AnswerType),
         queue' = [queue EXCEPT ![u] = p], answers' = [answers EXCEPT ![u] = b],
         NoneUnderWay(p, b, Opener),
         \A t \in Tasks : /\ UnderWay(u, t) => OneUnderWay(p, b, t)
                          /\ ~UnderWay(u, t) => NoneUnderWay(p, b, t)
  PROVE  CallsInv'
<1>1. /\ OpeningOver(u)
      /\ task' = [t \in Tasks |-> IF t \in Range(waiters[u]) THEN Idle ELSE task[t]]
  BY DEF OpeningFailed
<1>2. Idle \in TaskType /\ Idle.pc = "idle" /\ opened \subseteq Users
  BY DEF Idle, TaskType, CallsInv, ApiTypes
<1> HIDE DEF Idle
<1>3. /\ \A t \in Range(waiters[u]) : /\ t \in Tasks /\ t # Opener
                                      /\ task[t].pc = "waiting" /\ task[t].user = u
      /\ task \in [Tasks -> TaskType]
  BY LineFact
<1>4. \A t \in Tasks : task'[t] = IF t \in Range(waiters[u]) THEN Idle ELSE task[t]
  BY <1>1
<1>5. task' \in [Tasks -> TaskType]
  BY <1>1, <1>2, <1>3
<1>6. \A v \in Users, t \in Range(waiters[u]) : ~UnderWay(v, t)'
  BY <1>2, <1>3, <1>4 DEF UnderWay
<1>7. \A t \in Tasks : UnderWay(u, t)' <=> UnderWay(u, t)
  <2> SUFFICES ASSUME NEW t \in Tasks PROVE UnderWay(u, t)' <=> UnderWay(u, t)
    OBVIOUS
  <2>1. t # Opener
    BY AddressesOut
  <2>2. CASE t \in Range(waiters[u])
    BY <1>3, <1>6, <2>1, <2>2 DEF UnderWay
  <2>3. CASE t \notin Range(waiters[u])
    BY <1>4, <2>1, <2>3 DEF UnderWay
  <2>4. QED
    BY <2>2, <2>3
<1>8. /\ \A t \in Tasks : t \in Range(waiters[u]) => task'[t].pc # "waiting"
      /\ \A t \in Tasks : t \notin Range(waiters[u]) => task'[t] = task[t]
  BY <1>2, <1>4
<1>9. \A t \in Tasks : /\ UnderWay(u, t)' => OneUnderWay(p, b, t)
                       /\ ~UnderWay(u, t)' => NoneUnderWay(p, b, t)
  BY <1>7
<1>10. QED
  BY <1>1, <1>2, <1>5, <1>6, <1>8, <1>9, OpeningEnds

LEMMA OpenAnsweredKeeps ==
  ASSUME CallsInv, NEW u \in Users, OpenAnswered(u)
  PROVE  CallsInv'
<1> DEFINE q == queue[u]
           b == Tail(answers[u])
<1>1. AnswerTo(u, Opener) /\ Received(u) /\ session' = session /\ Opener \in Awaiting
  BY DEF OpenAnswered, Awaiting
<1>2. /\ b \in Seq(AnswerType) /\ answers' = [answers EXCEPT ![u] = b] /\ NoneUnderWay(q, b, Opener)
      /\ \A x \in Awaiting : x # Opener => /\ UnderWay(u, x) => OneUnderWay(q, b, x)
                                           /\ ~UnderWay(u, x) => NoneUnderWay(q, b, x)
  BY <1>1, AnswerAwaited
<1>3. q \in Seq(RequestType) /\ queue \in [Users -> Seq(RequestType)] /\ opened \subseteq Users
  BY DEF CallsInv, WorkerTypes, ApiTypes
<1>4. \A t \in Tasks : t # Opener /\ t \in Awaiting
  BY AddressesOut DEF Awaiting
<1> HIDE DEF b
<1>5. ASSUME NEW t \in Tasks
      PROVE  /\ UnderWay(u, t) => OneUnderWay(q, b, t)
             /\ ~UnderWay(u, t) => NoneUnderWay(q, b, t)
  <2> HIDE DEF q
  <2>1. t # Opener /\ t \in Awaiting
    BY <1>4
  <2>2. QED
    BY <1>2, <2>1
<1>6. CASE Result(u) # "ok"
  <2>1. OpeningFailed(u) /\ opened' = opened /\ queue' = queue
    BY <1>6 DEF OpenAnswered
  <2>2. queue' = [queue EXCEPT ![u] = q]
    BY <1>3, <2>1
  <2>3. QED
    BY <1>1, <1>2, <1>3, <1>5, <2>1, <2>2, OpeningFails
<1>7. CASE Result(u) = "ok"
  <2> DEFINE w == waiters[u]
             r == [i \in DOMAIN w |-> Requested(w[i], task[w[i]].kind)]
             p == q \o r
  <2>1. /\ OpeningOver(u) /\ opened' = opened \cup {u}
        /\ task' = [t \in Tasks |->
             IF t \in Range(w) THEN [task[t] EXCEPT !.pc = "requested"] ELSE task[t]]
        /\ queue' = [queue EXCEPT ![u] = p]
    BY <1>3, <1>7 DEF OpenAnswered, OpeningSucceeded
  <2>2. /\ r \in Seq(RequestType) /\ w \in Seq(Tasks) /\ Len(r) = Len(w)
        /\ \A i \in 1 .. Len(w) : r[i].to = w[i]
        /\ \A i, j \in 1 .. Len(w) : w[i] = w[j] => i = j
    BY LineAsks
  <2>3. /\ \A t \in Range(w) : t \in Tasks /\ t # Opener /\ task[t].pc = "waiting" /\ task[t].user = u
        /\ task \in [Tasks -> TaskType]
    BY LineFact
  <2>4. p = q \o r
    OBVIOUS
  <2> HIDE DEF q, w, r, p
  <2>5. ASSUME NEW to
        PROVE  /\ p \in Seq(RequestType)
               /\ to \notin Range(w) /\ NoneUnderWay(q, b, to) => NoneUnderWay(p, b, to)
               /\ to \notin Range(w) /\ OneUnderWay(q, b, to) => OneUnderWay(p, b, to)
               /\ to \in Range(w) /\ NoneUnderWay(q, b, to) => OneUnderWay(p, b, to)
    <3>1. q \in Seq(RequestType)
      BY <1>3 DEF q
    <3>2. /\ q \o r \in Seq(RequestType)
          /\ to \notin Range(w) /\ Unasked(q, to) => Unasked(q \o r, to)
          /\ to \notin Range(w) /\ AskedOnce(q, to) => AskedOnce(q \o r, to)
          /\ to \in Range(w) /\ Unasked(q, to) => AskedOnce(q \o r, to)
      BY <2>2, <3>1, Written
    <3>3. QED
      BY <2>4, <3>2 DEF NoneUnderWay, OneUnderWay
  <2>6. \A t \in Tasks : t \in Range(w) =>
          task'[t] \in TaskType /\ task'[t].pc = "requested" /\ task'[t].user = u
    <3> SUFFICES ASSUME NEW t \in Tasks, t \in Range(w)
                 PROVE  task'[t] \in TaskType /\ task'[t].pc = "requested" /\ task'[t].user = u
      OBVIOUS
    <3>1. task'[t] = [task[t] EXCEPT !.pc = "requested"] /\ task[t] \in TaskType /\ task[t].user = u
      BY <2>1, <2>3
    <3>2. QED
      BY <3>1 DEF TaskType
  <2>7. \A t \in Tasks : t \notin Range(w) => task'[t] = task[t]
    BY <2>1
  <2>8. task' \in [Tasks -> TaskType]
    BY <2>1, <2>3, <2>6, <2>7
  <2>9. /\ \A t \in Tasks : t \in Range(w) => task'[t].pc # "waiting"
        /\ \A v \in Users \ {u}, t \in Range(w) : ~UnderWay(v, t)'
    BY <2>3, <2>6 DEF UnderWay
  <2>10. opened' \subseteq Users
    BY <1>3, <2>1
  <2>11. NoneUnderWay(p, b, Opener)
    <3>1. Opener \notin Range(w)
      BY <2>3
    <3>2. QED
      BY <1>2, <2>5, <3>1
  <2>12. \A t \in Tasks : /\ UnderWay(u, t)' => OneUnderWay(p, b, t)
                          /\ ~UnderWay(u, t)' => NoneUnderWay(p, b, t)
    <3> SUFFICES ASSUME NEW t \in Tasks
                 PROVE  /\ UnderWay(u, t)' => OneUnderWay(p, b, t)
                        /\ ~UnderWay(u, t)' => NoneUnderWay(p, b, t)
      OBVIOUS
    <3>1. CASE t \in Range(w)
      <4>1. ~UnderWay(u, t) /\ UnderWay(u, t)'
        BY <2>3, <2>6, <3>1 DEF UnderWay
      <4>2. NoneUnderWay(q, b, t)
        BY <1>5, <4>1
      <4>3. QED
        BY <2>5, <3>1, <4>1, <4>2
    <3>2. CASE t \notin Range(w)
      <4>1. UnderWay(u, t)' <=> UnderWay(u, t)
        BY <1>4, <2>7, <3>2 DEF UnderWay
      <4>2. QED
        BY <1>5, <2>5, <3>2, <4>1
    <3>3. QED
      BY <3>1, <3>2
  <2>13. p \in Seq(RequestType)
    BY <2>5
  <2>14. QED
    BY <1>1, <1>2, <2>1, <2>7, <2>8, <2>9, <2>10, <2>11, <2>12, <2>13, OpeningEnds DEF w
<1>8. QED
  BY <1>6, <1>7

\* A task has its answer, or no longer waits for it.
LEMMA TaskSettles ==
  ASSUME CallsInv, NEW u \in Users, NEW t \in Tasks, UnderWay(u, t),
         NEW k \in TaskType, k.pc \in {"idle", "saving"}, task' = [task EXCEPT ![t] = k],
         UNCHANGED <<opening, captured, waiters, session>>, opened' \subseteq Users,
         NEW p \in Seq(RequestType), NEW b \in Seq(AnswerType),
         queue' = [queue EXCEPT ![u] = p], answers' = [answers EXCEPT ![u] = b],
         NoneUnderWay(p, b, t),
         \A x \in Awaiting : x # t =>
           (UnderWay(u, x) => OneUnderWay(p, b, x)) /\ (~UnderWay(u, x) => NoneUnderWay(p, b, x))
  PROVE  CallsInv'
<1>1. /\ task \in [Tasks -> TaskType] /\ queue \in [Users -> Seq(RequestType)]
      /\ answers \in [Users -> Seq(AnswerType)]
  BY DEF CallsInv, ApiTypes, WorkerTypes
<1>2. /\ task' \in [Tasks -> TaskType] /\ queue' \in [Users -> Seq(RequestType)]
      /\ answers' \in [Users -> Seq(AnswerType)]
  BY <1>1
<1>3. ApiTypes' /\ WorkerTypes'
  BY <1>2 DEF CallsInv, ApiTypes, WorkerTypes
<1>4. \A x \in Tasks : task'[x] = IF x = t THEN k ELSE task[x]
  BY <1>1
<1>5. t # Opener /\ task[t].pc = "requested" /\ task[t].user = u
  BY AddressesOut DEF UnderWay
<1>6. WaitingInv'
  BY <1>4, <1>5, WaitingSame
<1>7. \A v \in Users \ {u}, to \in Awaiting : UnderWay(v, to)' <=> UnderWay(v, to)
  BY <1>4, <1>5 DEF UnderWay, Awaiting
<1>8. \A to \in Awaiting : to # t => (UnderWay(u, to)' <=> UnderWay(u, to))
  BY <1>4 DEF UnderWay, Awaiting
<1>9. ~UnderWay(u, t)'
  BY <1>4, <1>5 DEF UnderWay
<1>10. \A to \in Awaiting : /\ UnderWay(u, to)' => OneUnderWay(p, b, to)
                            /\ ~UnderWay(u, to)' => NoneUnderWay(p, b, to)
  BY <1>8, <1>9
<1>11. UnderWayInv'
  BY <1>7, <1>10, UnderWayStep
<1>12. QED
  BY <1>3, <1>6, <1>11 DEF CallsInv

LEMMA TaskAnswered ==
  ASSUME CallsInv, NEW u \in Users, NEW t \in Tasks, AnswerTo(u, t), Received(u),
         NEW k \in TaskType, k.pc \in {"idle", "saving"}, task' = [task EXCEPT ![t] = k],
         UNCHANGED <<opening, captured, waiters, session, queue>>, opened' \subseteq Users
  PROVE  CallsInv'
<1> DEFINE p == queue[u]
           b == Tail(answers[u])
<1>1. t \in Awaiting
  BY DEF Awaiting
<1>2. /\ UnderWay(u, t) /\ b \in Seq(AnswerType) /\ answers' = [answers EXCEPT ![u] = b]
      /\ NoneUnderWay(p, b, t)
      /\ \A x \in Awaiting : x # t =>
           (UnderWay(u, x) => OneUnderWay(p, b, x)) /\ (~UnderWay(u, x) => NoneUnderWay(p, b, x))
  BY <1>1, AnswerAwaited
<1>3. p \in Seq(RequestType) /\ queue' = [queue EXCEPT ![u] = p]
  BY DEF CallsInv, WorkerTypes
<1> HIDE DEF p, b
<1>4. QED
  BY <1>2, <1>3, TaskSettles

LEMMA TaskDone == Idle \in TaskType /\ Idle.pc = "idle"
BY DEF Idle, TaskType

LEMMA OperationAnsweredKeeps ==
  ASSUME CallsInv, NEW t \in Tasks, NEW u \in Users, OperationAnswered(t, u)
  PROVE  CallsInv'
<1>1. task[t] \in TaskType /\ opened \subseteq Users
  BY DEF CallsInv, ApiTypes
<1> DEFINE k == IF task[t].kind = "code" /\ Result(u) = "authenticated"
                THEN [task[t] EXCEPT !.pc = "saving"] ELSE Idle
<1>2. [task[t] EXCEPT !.pc = "saving"] \in TaskType /\ [task[t] EXCEPT !.pc = "saving"].pc = "saving"
  BY <1>1 DEF TaskType
<1>3. k \in TaskType /\ k.pc \in {"idle", "saving"}
  BY <1>2, TaskDone
<1>4. /\ AnswerTo(u, t) /\ Received(u) /\ task' = [task EXCEPT ![t] = k]
      /\ UNCHANGED <<opening, captured, waiters, session, queue, opened>>
  BY DEF OperationAnswered
<1> HIDE DEF k
<1>5. QED
  BY <1>1, <1>3, <1>4, TaskAnswered

LEMMA LogoutAnsweredKeeps ==
  ASSUME CallsInv, NEW t \in Tasks, NEW u \in Users, LogoutAnswered(t, u)
  PROVE  CallsInv'
<1>1. /\ AnswerTo(u, t) /\ Received(u) /\ task' = [task EXCEPT ![t] = Idle]
      /\ UNCHANGED <<opening, captured, waiters, session, queue>>
      /\ opened' = opened \/ opened' = opened \ {u}
  BY DEF LogoutAnswered, LoggedOut
<1>2. opened' \subseteq Users
  BY <1>1 DEF CallsInv, ApiTypes
<1>3. QED
  BY <1>1, <1>2, TaskDone, TaskAnswered

\* An answer for nobody is nobody's who waits.
LEMMA LateAnswerKeeps ==
  ASSUME CallsInv, NEW u \in Users, LateAnswer(u)
  PROVE  CallsInv'
<1> DEFINE q == queue[u]
           a == answers[u]
           b == Tail(a)
<1>1. /\ a # <<>> /\ Head(a).request.to = Nobody /\ a \in Seq(AnswerType) /\ q \in Seq(RequestType)
      /\ answers' = [answers EXCEPT ![u] = b] /\ answers \in [Users -> Seq(AnswerType)]
      /\ queue' = [queue EXCEPT ![u] = q]
      /\ UNCHANGED <<opened, opening, captured, waiters, task, queue, session>>
  BY DEF CallsInv, WorkerTypes, LateAnswer, AnswerTo, Received, api
<1>2. \A to \in Awaiting : to # Nobody
  BY AddressesOut DEF Awaiting
<1>3. \A to \in Awaiting : (UnderWay(u, to) => OneUnderWay(q, a, to))
                            /\ (~UnderWay(u, to) => NoneUnderWay(q, a, to))
  BY DEF CallsInv, UnderWayInv
<1>4. b = Tail(a)
  OBVIOUS
<1> HIDE DEF q, a, b
<1>5. ASSUME NEW to \in Awaiting
      PROVE  /\ NoneUnderWay(q, a, to) => NoneUnderWay(q, b, to)
             /\ OneUnderWay(q, a, to) => OneUnderWay(q, b, to)
  BY <1>1, <1>2, <1>4, AnswerTaken
<1>6. Tail(a) \in Seq(AnswerType)
  BY <1>1, AnswerTaken
<1>7. answers' \in [Users -> Seq(AnswerType)]
  BY <1>1, <1>4, <1>6
<1>8. ApiTypes' /\ WorkerTypes'
  BY <1>1, <1>7 DEF CallsInv, ApiTypes, WorkerTypes
<1>9. WaitingInv'
  BY <1>1 DEF CallsInv, WaitingInv
<1>10. \A v \in Users, to \in Awaiting : UnderWay(v, to)' <=> UnderWay(v, to)
  BY <1>1 DEF UnderWay
<1>11. \A to \in Awaiting : /\ UnderWay(u, to)' => OneUnderWay(q, b, to)
                            /\ ~UnderWay(u, to)' => NoneUnderWay(q, b, to)
  BY <1>3, <1>5, <1>10
<1>12. UnderWayInv'
  BY <1>1, <1>10, <1>11, UnderWayStep
<1>13. QED
  BY <1>8, <1>9, <1>12 DEF CallsInv

LEMMA DeliverKeeps ==
  ASSUME CallsInv, NEW u \in Users, Deliver(u)
  PROVE  CallsInv'
BY OpenAnsweredKeeps, OperationAnsweredKeeps, LogoutAnsweredKeeps, LateAnswerKeeps DEF Deliver

-----------------------------------------------------------------------------
(* The faults. *)

LEMMA SessionKeeps ==
  ASSUME CallsInv, NEW u \in Users, ChromiumCrash(u) \/ QrConfirmed(u)
  PROVE  CallsInv'
<1>1. /\ UNCHANGED <<opened, opening, captured, waiters, task, queue, answers>>
      /\ \/ session' = [session EXCEPT ![u] = "dead"]
         \/ session' = [session EXCEPT ![u] = "authenticated"]
  BY DEF ChromiumCrash, QrConfirmed, api
<1>2. opened' \subseteq Users /\ session' \in [Users -> SessionStates]
  BY <1>1 DEF CallsInv, ApiTypes, WorkerTypes, SessionStates
<1>3. QED
  BY <1>1, <1>2, OpenedKeeps

\* What is abandoned is under way for nobody; what the others await, still is.
LEMMA AbandonKeeps ==
  ASSUME CallsInv, NEW u \in Users, NEW to \in Awaiting, Abandon(u, to),
         NEW p, p = Abandoned(to, queue[u]), NEW b, b = AbandonedAnswers(to, answers[u])
  PROVE  /\ p \in Seq(RequestType) /\ b \in Seq(AnswerType) /\ NoneUnderWay(p, b, to)
         /\ queue' = [queue EXCEPT ![u] = p] /\ answers' = [answers EXCEPT ![u] = b]
         /\ \A x \in Awaiting : x # to =>
              (UnderWay(u, x) => OneUnderWay(p, b, x)) /\ (~UnderWay(u, x) => NoneUnderWay(p, b, x))
<1> DEFINE q == queue[u]
           a == answers[u]
<1>1. q \in Seq(RequestType) /\ a \in Seq(AnswerType) /\ p = Abandoned(to, q) /\ b = AbandonedAnswers(to, a)
  BY DEF CallsInv, WorkerTypes
<1>2. \A x \in Awaiting : (UnderWay(u, x) => OneUnderWay(q, a, x))
                           /\ (~UnderWay(u, x) => NoneUnderWay(q, a, x))
  BY DEF CallsInv, UnderWayInv
<1>3. queue' = [queue EXCEPT ![u] = p] /\ answers' = [answers EXCEPT ![u] = b]
  BY DEF Abandon, CallsInv, WorkerTypes
<1> HIDE DEF q, a
<1>4. /\ p \in Seq(RequestType) /\ b \in Seq(AnswerType) /\ NoneUnderWay(p, b, to)
      /\ \A x \in Tasks \cup {Opener} : x # to =>
           (NoneUnderWay(q, a, x) => NoneUnderWay(p, b, x)) /\ (OneUnderWay(q, a, x) => OneUnderWay(p, b, x))
  BY <1>1, AbandonedFact DEF Awaiting
<1>5. QED
  BY <1>2, <1>3, <1>4 DEF Awaiting

LEMMA OpenTimeoutKeeps ==
  ASSUME CallsInv, NEW u \in Users, OpenTimeout(u)
  PROVE  CallsInv'
<1> DEFINE p == Abandoned(Opener, queue[u])
           b == AbandonedAnswers(Opener, answers[u])
<1>1. /\ Abandon(u, Opener) /\ OpeningFailed(u) /\ opened' = opened /\ session' = session
      /\ Opener \in Awaiting
  BY DEF OpenTimeout, Awaiting
<1>2. p = Abandoned(Opener, queue[u]) /\ b = AbandonedAnswers(Opener, answers[u])
  OBVIOUS
<1> HIDE DEF p, b
<1>3. /\ p \in Seq(RequestType) /\ b \in Seq(AnswerType) /\ NoneUnderWay(p, b, Opener)
      /\ queue' = [queue EXCEPT ![u] = p] /\ answers' = [answers EXCEPT ![u] = b]
      /\ \A x \in Awaiting : x # Opener =>
           (UnderWay(u, x) => OneUnderWay(p, b, x)) /\ (~UnderWay(u, x) => NoneUnderWay(p, b, x))
  BY <1>1, <1>2, AbandonKeeps
<1>4. \A t \in Tasks : t # Opener /\ t \in Awaiting
  BY AddressesOut DEF Awaiting
<1>5. \A t \in Tasks : /\ UnderWay(u, t) => OneUnderWay(p, b, t)
                       /\ ~UnderWay(u, t) => NoneUnderWay(p, b, t)
  BY <1>3, <1>4
<1>6. QED
  BY <1>1, <1>3, <1>5, OpeningFails

LEMMA RequestTimeoutKeeps ==
  ASSUME CallsInv, NEW t \in Tasks, RequestTimeout(t)
  PROVE  CallsInv'
<1> DEFINE u == task[t].user
           p == Abandoned(t, queue[u])
           b == AbandonedAnswers(t, answers[u])
<1>1. /\ task[t].pc = "requested" /\ Abandon(u, t) /\ task' = [task EXCEPT ![t] = Idle]
      /\ UNCHANGED <<opened, opening, captured, waiters, session>> /\ t \in Awaiting
  BY DEF RequestTimeout, Awaiting
<1>2. /\ opened' \subseteq Users /\ task \in [Tasks -> TaskType] /\ queue \in [Users -> Seq(RequestType)]
      /\ answers \in [Users -> Seq(AnswerType)] /\ t # Opener
  BY <1>1, AddressesOut DEF CallsInv, ApiTypes, WorkerTypes
<1>3. UnderWay(u, t)
  BY <1>1, <1>2 DEF UnderWay
<1>4. p = Abandoned(t, queue[u]) /\ b = AbandonedAnswers(t, answers[u])
  OBVIOUS
<1> HIDE DEF p, b
<1>5. CASE u \in Users
  <2> HIDE DEF u
  <2>1. /\ p \in Seq(RequestType) /\ b \in Seq(AnswerType) /\ NoneUnderWay(p, b, t)
        /\ queue' = [queue EXCEPT ![u] = p] /\ answers' = [answers EXCEPT ![u] = b]
        /\ \A x \in Awaiting : x # t =>
             (UnderWay(u, x) => OneUnderWay(p, b, x)) /\ (~UnderWay(u, x) => NoneUnderWay(p, b, x))
    BY <1>1, <1>4, <1>5, AbandonKeeps
  <2>2. QED
    BY <1>1, <1>2, <1>3, <1>5, <2>1, TaskDone, TaskSettles
<1>6. CASE u \notin Users
  <2>1. queue' = queue /\ answers' = answers
    BY <1>1, <1>2, <1>6 DEF Abandon
  <2>2. \A x \in Tasks : task'[x] = IF x = t THEN Idle ELSE task[x]
    BY <1>1, <1>2
  <2>3. task' \in [Tasks -> TaskType]
    BY <1>1, <1>2, TaskDone
  <2>4. ApiTypes' /\ WorkerTypes'
    BY <1>1, <2>1, <2>3 DEF CallsInv, ApiTypes, WorkerTypes
  <2>5. WaitingInv'
    BY <1>1, <2>2, TaskDone, WaitingSame
  <2>6. \A v \in Users, to \in Awaiting : UnderWay(v, to)' <=> UnderWay(v, to)
    <3>1. \A v \in Users : v # task[t].user
      BY <1>6
    <3>2. QED
      BY <1>1, <1>2, <2>2, <3>1, TaskDone DEF UnderWay, Awaiting
  <2>7. QED
    BY <2>1, <2>4, <2>5, <2>6, UnderWaySame DEF CallsInv
<1>7. QED
  BY <1>5, <1>6

LEMMA NothingUnderWay == \A to : NoneUnderWay(<<>>, <<>>, to)
<1>1. DOMAIN <<>> = {}
  OBVIOUS
<1>2. QED
  BY <1>1 DEF NoneUnderWay, Unasked, Unanswered

LEMMA WorkerRestartKeeps ==
  ASSUME CallsInv, WorkerRestart
  PROVE  CallsInv'
<1>1. /\ session' = [u \in Users |-> "absent"] /\ queue' = [u \in Users |-> <<>>]
      /\ answers' = [u \in Users |-> <<>>] /\ opened' = opened
      /\ opening' = [u \in Users |-> IF opening[u] = "requested" THEN "no" ELSE opening[u]]
      /\ captured' = [u \in Users |-> opening[u] = "decrypting" /\ captured[u]]
      /\ waiters' = [u \in Users |-> IF opening[u] = "requested" THEN <<>> ELSE waiters[u]]
      /\ task' = [t \in Tasks |->
           IF \/ task[t].pc = "requested"
              \/ task[t].pc = "waiting" /\ opening[task[t].user] = "requested"
           THEN Idle ELSE task[t]]
  BY DEF WorkerRestart
<1>2. /\ opened \subseteq Users /\ opening \in [Users -> {"no", "decrypting", "requested"}]
      /\ captured \in [Users -> BOOLEAN] /\ waiters \in [Users -> Seq(Tasks)]
      /\ task \in [Tasks -> TaskType] /\ WaitingInv
  BY DEF CallsInv, ApiTypes
<1>3. <<>> \in Seq(Tasks) /\ <<>> \in Seq(RequestType) /\ <<>> \in Seq(AnswerType) /\ Len(<<>>) = 0
  BY EmptySeq
<1>4. \A u \in Users : (opening[u] = "decrypting" /\ captured[u]) \in BOOLEAN
  OBVIOUS
<1>5. captured' \in [Users -> BOOLEAN]
  BY <1>1, <1>4
<1>6. opening' \in [Users -> {"no", "decrypting", "requested"}] /\ waiters' \in [Users -> Seq(Tasks)]
  BY <1>1, <1>2, <1>3
<1>7. task' \in [Tasks -> TaskType]
  BY <1>1, <1>2, TaskDone
<1>8. session' \in [Users -> SessionStates] /\ queue' \in [Users -> Seq(RequestType)]
      /\ answers' \in [Users -> Seq(AnswerType)]
  BY <1>1, <1>3 DEF SessionStates
<1>9. ApiTypes' /\ WorkerTypes'
  BY <1>1, <1>2, <1>5, <1>6, <1>7, <1>8 DEF ApiTypes, WorkerTypes
<1>10. \A u \in Users : waiters'[u] = IF opening[u] = "requested" THEN <<>> ELSE waiters[u]
  BY <1>1
<1>11. \A t \in Tasks : task'[t].pc = "waiting" =>
         task'[t] = task[t] /\ opening[task[t].user] # "requested"
  BY <1>1, TaskDone
<1>12. \A u \in Users : \A i \in 1 .. Len(waiters'[u]) : InLine(u, task'[waiters'[u][i]])
  <2> SUFFICES ASSUME NEW u \in Users, NEW i \in 1 .. Len(waiters'[u])
               PROVE  InLine(u, task'[waiters'[u][i]])
    OBVIOUS
  <2>1. opening[u] # "requested" /\ waiters'[u] = waiters[u]
    BY <1>3, <1>10
  <2>2. waiters[u][i] \in Tasks /\ InLine(u, task[waiters[u][i]])
    BY <1>2, <2>1, ElementOfSeq DEF WaitingInv
  <2>3. task'[waiters[u][i]] = task[waiters[u][i]]
    BY <1>1, <2>1, <2>2 DEF InLine
  <2>4. QED
    BY <2>1, <2>2, <2>3
<1>13. \A u \in Users : \A i, j \in 1 .. Len(waiters'[u]) : waiters'[u][i] = waiters'[u][j] => i = j
  BY <1>2, <1>3, <1>10 DEF WaitingInv
<1>14. \A u \in Users : opening'[u] = "no" => waiters'[u] = <<>>
  <2>1. \A u \in Users : opening'[u] = "no" => opening[u] \in {"requested", "no"}
    BY <1>1, <1>2
  <2>2. QED
    BY <1>2, <1>10, <2>1 DEF WaitingInv
<1>15. \A t \in Tasks : task'[t].pc = "waiting" =>
         task'[t].user \in Users /\ t \in Range(waiters'[task'[t].user])
  <2> SUFFICES ASSUME NEW t \in Tasks, task'[t].pc = "waiting"
               PROVE  task'[t].user \in Users /\ t \in Range(waiters'[task'[t].user])
    OBVIOUS
  <2>1. task'[t] = task[t] /\ opening[task[t].user] # "requested" /\ task[t].pc = "waiting"
    BY <1>11
  <2>2. task[t].user \in Users /\ t \in Range(waiters[task[t].user])
    BY <1>2, <2>1 DEF WaitingInv
  <2>3. QED
    BY <1>10, <2>1, <2>2
<1>16. WaitingInv'
  BY <1>12, <1>13, <1>14, <1>15 DEF WaitingInv
<1>17. \A u \in Users, to \in Awaiting : ~UnderWay(u, to)'
  <2>1. \A u \in Users : opening'[u] # "requested"
    BY <1>1
  <2>2. \A t \in Tasks : task'[t].pc # "requested"
    BY <1>1, TaskDone
  <2>3. QED
    BY <2>1, <2>2 DEF UnderWay, Awaiting
<1>18. \A u \in Users : queue'[u] = <<>> /\ answers'[u] = <<>>
  BY <1>1
<1>19. UnderWayInv'
  BY <1>17, <1>18, NothingUnderWay DEF UnderWayInv
<1>20. QED
  BY <1>9, <1>16, <1>19 DEF CallsInv

LEMMA ApiRestartKeeps ==
  ASSUME CallsInv, ApiRestart
  PROVE  CallsInv'
<1>1. /\ opened' = {} /\ opening' = [u \in Users |-> "no"] /\ captured' = [u \in Users |-> FALSE]
      /\ waiters' = [u \in Users |-> <<>>] /\ task' = [t \in Tasks |-> Idle]
      /\ queue' = [u \in Users |-> [i \in DOMAIN queue[u] |-> [queue[u][i] EXCEPT !.to = Nobody]]]
      /\ answers' = [u \in Users |-> <<>>] /\ session' = session
  BY DEF ApiRestart
<1>2. <<>> \in Seq(Tasks) /\ <<>> \in Seq(AnswerType) /\ Len(<<>>) = 0
  BY EmptySeq
<1>3. ApiTypes'
  BY <1>1, <1>2, TaskDone DEF ApiTypes
<1>4. \A u \in Users : queue[u] \in Seq(RequestType)
  BY DEF CallsInv, WorkerTypes
<1>5. ASSUME NEW u \in Users
      PROVE  /\ queue'[u] \in Seq(RequestType)
             /\ \A x \in Awaiting : NoneUnderWay(queue'[u], <<>>, x)
  <2> DEFINE q == queue[u]
             p == queue'[u]
  <2>1. q \in Seq(RequestType) /\ p = [i \in DOMAIN q |-> [q[i] EXCEPT !.to = Nobody]]
    BY <1>1, <1>4
  <2> HIDE DEF q, p
  <2>2. p \in Seq(RequestType) /\ \A x \in Tasks \cup {Opener} : NoneUnderWay(p, <<>>, x)
    BY <2>1, OrphanedFact
  <2>3. QED
    BY <2>2 DEF p, Awaiting
<1>6. queue' \in [Users -> Seq(RequestType)] /\ answers' \in [Users -> Seq(AnswerType)]
  BY <1>1, <1>2, <1>5
<1>7. WorkerTypes'
  BY <1>1, <1>6 DEF CallsInv, WorkerTypes
<1>8. WaitingInv'
  BY <1>1, <1>2, TaskDone DEF WaitingInv
<1>9. \A u \in Users, to \in Awaiting : ~UnderWay(u, to)'
  BY <1>1, TaskDone DEF UnderWay, Awaiting
<1>10. UnderWayInv'
  BY <1>1, <1>5, <1>9 DEF UnderWayInv
<1>11. QED
  BY <1>3, <1>7, <1>8, <1>10 DEF CallsInv

-----------------------------------------------------------------------------
(* The whole. *)

SessionsInv == CallsInv /\ TableInv /\ faults \in 0 .. MaxFaults

LEMMA CallsInitially == Init => CallsInv
<1> SUFFICES ASSUME Init PROVE CallsInv
  OBVIOUS
<1>1. /\ opened = {} /\ opening = [u \in Users |-> "no"] /\ captured = [u \in Users |-> FALSE]
      /\ waiters = [u \in Users |-> <<>>] /\ task = [t \in Tasks |-> Idle]
      /\ queue = [u \in Users |-> <<>>] /\ answers = [u \in Users |-> <<>>]
      /\ session = [u \in Users |-> "absent"]
  BY DEF Init
<1>2. <<>> \in Seq(Tasks) /\ <<>> \in Seq(RequestType) /\ <<>> \in Seq(AnswerType) /\ Len(<<>>) = 0
  BY EmptySeq
<1>3. ApiTypes /\ WorkerTypes
  BY <1>1, <1>2, TaskDone DEF ApiTypes, WorkerTypes, SessionStates
<1>4. WaitingInv
  BY <1>1, <1>2, TaskDone DEF WaitingInv
<1>5. \A u \in Users, to \in Awaiting : ~UnderWay(u, to)
  BY <1>1, TaskDone DEF UnderWay, Awaiting
<1>6. UnderWayInv
  BY <1>1, <1>5, NothingUnderWay DEF UnderWayInv
<1>7. QED
  BY <1>3, <1>4, <1>6 DEF CallsInv

LEMMA CallsInductive == CallsInv /\ stored \in [Users -> BOOLEAN] /\ [Next]_vars => CallsInv'
<1> SUFFICES ASSUME CallsInv, stored \in [Users -> BOOLEAN], [Next]_vars PROVE CallsInv'
  OBVIOUS
<1>1. CASE UNCHANGED vars
  <2>1. UNCHANGED <<opened, opening, captured, waiters, task, queue, answers, session>>
    BY <1>1 DEF vars
  <2>2. opened' \subseteq Users /\ session' \in [Users -> SessionStates]
    BY <2>1 DEF CallsInv, ApiTypes, WorkerTypes
  <2>3. QED
    BY <2>1, <2>2, OpenedKeeps
<1>2. CASE \E t \in Tasks, u \in Users, kind \in Kinds : Call(t, u, kind)
  BY <1>2, CallKeeps
<1>3. CASE \E t \in Tasks, u \in Users : Logout(t, u)
  BY <1>3, LogoutKeeps
<1>4. CASE \E u \in Users : RequestOpen(u)
  BY <1>4, RequestOpenKeeps
<1>5. CASE \E t \in Tasks : Saved(t)
  BY <1>5, SavedKeeps
<1>6. CASE \E u \in Users : \E i \in DOMAIN queue[u] : Execute(u, i)
  BY <1>6, ExecuteKeeps
<1>7. CASE \E u \in Users : Deliver(u)
  BY <1>7, DeliverKeeps
<1>8. CASE \E u \in Users : QrConfirmed(u) \/ ChromiumCrash(u)
  BY <1>8, SessionKeeps
<1>9. CASE \E t \in Tasks : RequestTimeout(t)
  BY <1>9, RequestTimeoutKeeps
<1>10. CASE \E u \in Users : OpenTimeout(u)
  BY <1>10, OpenTimeoutKeeps
<1>11. CASE WorkerRestart \/ ApiRestart
  BY <1>11, WorkerRestartKeeps, ApiRestartKeeps
<1>12. QED
  BY <1>1, <1>2, <1>3, <1>4, <1>5, <1>6, <1>7, <1>8, <1>9, <1>10, <1>11 DEF Next

LEMMA FaultsBounded == faults \in 0 .. MaxFaults /\ [Next]_vars => faults' \in 0 .. MaxFaults
<1> SUFFICES ASSUME faults \in 0 .. MaxFaults, [Next]_vars PROVE faults' \in 0 .. MaxFaults
  OBVIOUS
<1>1. faults' = faults \/ \E kind \in AllFaults : Fault(kind)
  BY DEF Next, vars, Call, CallOpened, CallUnopened, Logout, LogoutOpened, LogoutUnopened,
         RequestOpen, Saved, Execute, ExecuteOpen, ExecuteClose, ExecuteOperation, Deliver,
         OpenAnswered, OperationAnswered, LogoutAnswered, LateAnswer, QrConfirmed,
         RequestTimeout, OpenTimeout, ChromiumCrash, WorkerRestart, ApiRestart, AllFaults
<1>2. QED
  BY <1>1, BoundsType DEF Fault

(* The calls of the API and the requests of the worker match in every      *)
(* reachable state: a request is under way, once, exactly while somebody   *)
(* awaits its answer, and those who wait for an opening are its line.      *)
THEOREM SessionsInvariant == Spec => []SessionsInv
<1>1. Init => SessionsInv
  BY CallsInitially, TableInitially, BoundsType DEF SessionsInv, Init
<1>2. SessionsInv /\ [Next]_vars => SessionsInv'
  BY CallsInductive, TableInductive, FaultsBounded DEF SessionsInv, TableInv
<1>3. QED
  BY <1>1, <1>2, PTL DEF Spec

(* Every variable keeps its type: no user is in a state, and no answer     *)
(* carries a result, that the code does not know.                          *)
THEOREM AlwaysSessionsTypeOK == Spec => []TypeOK
<1>1. SessionsInv => TypeOK
  BY DEF SessionsInv, CallsInv, ApiTypes, WorkerTypes, TableInv, TypeOK, States, SessionStates,
         TaskType, AnswerType
<1>2. QED
  BY <1>1, SessionsInvariant, PTL

(* Concurrent callers share one opening: whatever times out or restarts,   *)
(* the API never has two session.open requests of a user under way, and it *)
(* has one exactly while a caller waits for its answer.                    *)
THEOREM AlwaysOneOpening == Spec => []OneOpening
<1>1. SessionsInv => OneOpening
  BY CallsImplyOneOpening DEF SessionsInv
<1>2. QED
  BY <1>1, SessionsInvariant, PTL

-----------------------------------------------------------------------------
(* One call at a time.  The two properties below are false when calls      *)
(* overlap; they hold of a user whose clients wait for each answer.        *)

Alone == \A s, t \in Tasks : s = t

\* A code is submitted by, and its session stored for, a user who is authenticating.
CodeInv ==
  \A t \in Tasks :
    /\ task[t].pc # "idle" => task[t].user \in Users
    /\ task[t].pc = "saving" => task[t].kind = "code"
    /\ task[t].pc \in {"requested", "saving"} /\ task[t].kind = "code" =>
         ustate[task[t].user] \in {"authenticating", "active"}

BoundInv == StoredImpliesActive /\ CodeInv

LEMMA BegunKept ==
  \A x \in States : /\ BegunAuthentication(x) \in {"authenticating", "active"}
                    /\ x \in {"authenticating", "active"} => BegunAuthentication(x) = x
BY DEF BegunAuthentication, AllowedTransition, States

LEMMA BoundSame ==
  ASSUME BoundInv, UNCHANGED <<stored, ustate>>,
         \A t \in Tasks : task'[t] = task[t] \/ task'[t].pc = "idle"
  PROVE  BoundInv'
<1>1. StoredImpliesActive'
  BY DEF BoundInv, StoredImpliesActive
<1>2. CodeInv'
  <2> SUFFICES ASSUME NEW t \in Tasks, task'[t].pc # "idle"
               PROVE  /\ task'[t].user \in Users
                      /\ task'[t].pc = "saving" => task'[t].kind = "code"
                      /\ task'[t].pc \in {"requested", "saving"} /\ task'[t].kind = "code" =>
                           ustate'[task'[t].user] \in {"authenticating", "active"}
    BY DEF CodeInv
  <2>1. task'[t] = task[t] /\ ustate' = ustate
    OBVIOUS
  <2>2. QED
    BY <2>1 DEF BoundInv, CodeInv
<1>3. QED
  BY <1>1, <1>2 DEF BoundInv

LEMMA BoundBegun ==
  ASSUME BoundInv, TableInv, task \in [Tasks -> TaskType], NEW u \in Users, stored' = stored,
         ustate' = [ustate EXCEPT ![u] = BegunAuthentication(ustate[u])] \/ ustate' = ustate,
         \A t \in Tasks : \/ task'[t] = task[t]
                          \/ /\ task'[t].pc \in {"waiting", "requested"} /\ task'[t].user = u
                             /\ task'[t].pc = "requested" /\ task'[t].kind = "code" =>
                                  ustate' = [ustate EXCEPT ![u] = BegunAuthentication(ustate[u])]
  PROVE  BoundInv'
<1>1. /\ stored \in [Users -> BOOLEAN] /\ ustate \in [Users -> States]
      /\ \A v \in Users : stored[v] => ustate[v] = "active"
      /\ CodeInv
  BY DEF TableInv, BoundInv, StoredImpliesActive
<1>2. \A v \in Users : ustate[v] \in {"authenticating", "active"} => ustate'[v] = ustate[v]
  BY <1>1, BegunKept
<1>3. StoredImpliesActive'
  BY <1>1, <1>2 DEF StoredImpliesActive
<1>4. ASSUME NEW t \in Tasks, task'[t].pc # "idle"
      PROVE  /\ task'[t].user \in Users
             /\ task'[t].pc = "saving" => task'[t].kind = "code"
             /\ task'[t].pc \in {"requested", "saving"} /\ task'[t].kind = "code" =>
                  ustate'[task'[t].user] \in {"authenticating", "active"}
  <2>1. CASE task'[t] = task[t]
    BY <1>1, <1>2, <1>4, <2>1 DEF CodeInv
  <2>2. CASE task'[t] # task[t]
    <3>1. task'[t].user = u /\ task'[t].pc \in {"waiting", "requested"}
      BY <2>2
    <3>2. ustate[u] \in States
      BY <1>1
    <3>3. task'[t].pc = "requested" /\ task'[t].kind = "code" =>
            ustate'[u] = BegunAuthentication(ustate[u])
      BY <1>1, <2>2
    <3>4. QED
      BY <3>1, <3>2, <3>3, BegunKept
  <2>3. QED
    BY <2>1, <2>2
<1>5. CodeInv'
  BY <1>4 DEF CodeInv
<1>6. QED
  BY <1>3, <1>5 DEF BoundInv

LEMMA BoundLoggedOut ==
  ASSUME BoundInv, TableInv, NEW u \in Users, LoggedOut(u), \A t \in Tasks : task'[t].pc = "idle"
  PROVE  BoundInv'
<1>1. /\ stored \in [Users -> BOOLEAN] /\ ustate \in [Users -> States]
      /\ stored' = [stored EXCEPT ![u] = FALSE]
      /\ \A v \in Users : stored[v] => ustate[v] = "active"
      /\ \A v \in Users \ {u} : ustate'[v] = ustate[v]
  BY DEF TableInv, BoundInv, StoredImpliesActive, LoggedOut
<1>2. ~stored'[u] /\ \A v \in Users \ {u} : stored'[v] = stored[v]
  BY <1>1
<1>3. StoredImpliesActive'
  BY <1>1, <1>2 DEF StoredImpliesActive
<1>4. CodeInv'
  BY DEF CodeInv
<1>5. QED
  BY <1>3, <1>4 DEF BoundInv

LEMMA BoundSaved ==
  ASSUME Alone, BoundInv, TableInv, task \in [Tasks -> TaskType], NEW t \in Tasks, Saved(t)
  PROVE  BoundInv'
<1> DEFINE u == task[t].user
           next == IF ustate[u] = "authenticating" THEN "active" ELSE ustate[u]
<1>1. /\ task[t].pc = "saving" /\ task' = [task EXCEPT ![t] = Idle]
      /\ stored' = [stored EXCEPT ![u] = TRUE] /\ ustate' = [ustate EXCEPT ![u] = next]
  BY DEF Saved
<1>2. u \in Users /\ ustate[u] \in {"authenticating", "active"}
  BY <1>1 DEF BoundInv, CodeInv
<1>3. next = "active"
  BY <1>2
<1>4. /\ stored \in [Users -> BOOLEAN] /\ ustate \in [Users -> States]
      /\ \A v \in Users : stored[v] => ustate[v] = "active"
  BY DEF TableInv, BoundInv, StoredImpliesActive
<1> HIDE DEF u, next
<1>5. ustate'[u] = "active" /\ \A v \in Users \ {u} : ustate'[v] = ustate[v]
  BY <1>1, <1>2, <1>3, <1>4
<1>6. \A v \in Users \ {u} : stored'[v] = stored[v]
  BY <1>1, <1>4
<1>7. StoredImpliesActive'
  BY <1>4, <1>5, <1>6 DEF StoredImpliesActive
<1>8. \A x \in Tasks : task'[x].pc = "idle"
  BY <1>1, TaskDone DEF Alone
<1>9. QED
  BY <1>7, <1>8 DEF BoundInv, CodeInv

LEMMA BoundCall ==
  ASSUME BoundInv, TableInv, task \in [Tasks -> TaskType],
         NEW t \in Tasks, NEW u \in Users, NEW kind \in Kinds, Call(t, u, kind)
  PROVE  BoundInv'
<1>1. ustate \in [Users -> States]
  BY DEF TableInv
<1>2. CASE CallOpened(t, u, kind)
  <2> DEFINE z == [pc |-> "requested", user |-> u, kind |-> kind]
  <2>1. /\ task' = [task EXCEPT ![t] = z] /\ stored' = stored
        /\ ustate' = [ustate EXCEPT ![u] = IF IsLogin(kind) THEN BegunAuthentication(@) ELSE @]
    BY <1>2 DEF CallOpened
  <2>2. z.pc = "requested" /\ z.user = u /\ z.kind = kind
    OBVIOUS
  <2> HIDE DEF z
  <2>3. ustate' = IF IsLogin(kind) THEN [ustate EXCEPT ![u] = BegunAuthentication(ustate[u])] ELSE ustate
    BY <1>1, <2>1
  <2>4. \A x \in Tasks : task'[x] = IF x = t THEN z ELSE task[x]
    BY <2>1
  <2>5. kind = "code" => IsLogin(kind)
    BY DEF IsLogin
  <2>6. ASSUME NEW x \in Tasks, task'[x] # task[x]
        PROVE  /\ task'[x].pc \in {"waiting", "requested"} /\ task'[x].user = u
               /\ task'[x].pc = "requested" /\ task'[x].kind = "code" =>
                    ustate' = [ustate EXCEPT ![u] = BegunAuthentication(ustate[u])]
    BY <2>2, <2>3, <2>4, <2>5, <2>6
  <2>7. QED
    BY <2>1, <2>3, <2>6, BoundBegun
<1>3. CASE CallUnopened(t, u, kind)
  <2> DEFINE z == [pc |-> "waiting", user |-> u, kind |-> kind]
  <2>1. task' = [task EXCEPT ![t] = z] /\ stored' = stored /\ ustate' = ustate
    BY <1>3 DEF CallUnopened, db
  <2>2. z.pc = "waiting" /\ z.user = u
    OBVIOUS
  <2> HIDE DEF z
  <2>3. \A x \in Tasks : task'[x] = IF x = t THEN z ELSE task[x]
    BY <2>1
  <2>4. ASSUME NEW x \in Tasks, task'[x] # task[x]
        PROVE  /\ task'[x].pc \in {"waiting", "requested"} /\ task'[x].user = u
               /\ task'[x].pc # "requested"
    BY <2>2, <2>3, <2>4
  <2>5. QED
    BY <2>1, <2>4, BoundBegun
<1>4. QED
  BY <1>2, <1>3 DEF Call

LEMMA BoundOpenAnswered ==
  ASSUME CallsInv, BoundInv, TableInv, NEW u \in Users, OpenAnswered(u)
  PROVE  BoundInv'
<1> DEFINE w == waiters[u]
<1>1. task \in [Tasks -> TaskType] /\ stored' = stored /\ ustate \in [Users -> States]
  BY DEF CallsInv, ApiTypes, OpenAnswered, TableInv
<1>2. \A t \in Range(w) : t \in Tasks /\ task[t].pc = "waiting" /\ task[t].user = u
  BY LineFact
<1>3. CASE Result(u) # "ok"
  <2>1. ustate' = ustate /\ task' = [t \in Tasks |-> IF t \in Range(w) THEN Idle ELSE task[t]]
    BY <1>3 DEF OpenAnswered, OpeningFailed
  <2>2. \A t \in Tasks : task'[t] = task[t] \/ task'[t].pc = "idle"
    BY <2>1, TaskDone
  <2>3. QED
    BY <1>1, <2>1, <2>2, BoundSame
<1>4. CASE Result(u) = "ok"
  <2> DEFINE logins == \E t \in Range(w) : IsLogin(task[t].kind)
  <2>1. /\ task' = [t \in Tasks |->
             IF t \in Range(w) THEN [task[t] EXCEPT !.pc = "requested"] ELSE task[t]]
        /\ ustate' = [ustate EXCEPT ![u] = IF logins THEN BegunAuthentication(@) ELSE @]
    BY <1>4 DEF OpenAnswered, OpeningSucceeded
  <2>2. \A t \in Tasks : t \in Range(w) /\ task[t].kind = "code" => logins
    BY DEF IsLogin
  <2> HIDE DEF w, logins
  <2>3. ustate' = IF logins THEN [ustate EXCEPT ![u] = BegunAuthentication(ustate[u])] ELSE ustate
    BY <1>1, <2>1
  <2>4. ASSUME NEW t \in Tasks, task'[t] # task[t]
        PROVE  /\ task'[t].pc \in {"waiting", "requested"} /\ task'[t].user = u
               /\ task'[t].pc = "requested" /\ task'[t].kind = "code" =>
                    ustate' = [ustate EXCEPT ![u] = BegunAuthentication(ustate[u])]
    <3>1. t \in Range(w) /\ task'[t] = [task[t] EXCEPT !.pc = "requested"]
      BY <2>1, <2>4
    <3>2. task[t] \in TaskType /\ task[t].user = u
      BY <1>1, <1>2, <3>1
    <3>3. task'[t].pc = "requested" /\ task'[t].user = u /\ task'[t].kind = task[t].kind
      BY <3>1, <3>2 DEF TaskType
    <3>4. QED
      BY <2>2, <2>3, <3>1, <3>3
  <2>5. QED
    BY <1>1, <2>3, <2>4, BoundBegun
<1>5. QED
  BY <1>3, <1>4

LEMMA BoundOperationAnswered ==
  ASSUME CallsInv, BoundInv, NEW t \in Tasks, NEW u \in Users, OperationAnswered(t, u)
  PROVE  BoundInv'
<1> DEFINE saves == task[t].kind = "code" /\ Result(u) = "authenticated"
<1>1. /\ AnswerTo(u, t) /\ Received(u) /\ stored' = stored /\ ustate' = ustate
      /\ task' = [task EXCEPT ![t] = IF saves THEN [task[t] EXCEPT !.pc = "saving"] ELSE Idle]
      /\ task \in [Tasks -> TaskType] /\ t \in Awaiting /\ t # Opener
  BY AddressesOut DEF OperationAnswered, db, CallsInv, ApiTypes, Awaiting
<1>2. task[t].pc = "requested" /\ task[t].user = u
  BY <1>1, AnswerAwaited DEF UnderWay
<1> HIDE DEF saves
<1>3. CASE ~saves
  <2>1. \A x \in Tasks : task'[x] = task[x] \/ task'[x].pc = "idle"
    BY <1>1, <1>3, TaskDone
  <2>2. QED
    BY <1>1, <2>1, BoundSame
<1>4. CASE saves
  <2>1. task[t].kind = "code"
    BY <1>4 DEF saves
  <2>2. /\ task'[t].pc = "saving" /\ task'[t].user = u /\ task'[t].kind = "code"
        /\ \A x \in Tasks : x # t => task'[x] = task[x]
    <3>1. task' = [task EXCEPT ![t] = [task[t] EXCEPT !.pc = "saving"]] /\ task[t] \in TaskType
      BY <1>1, <1>4
    <3>2. task'[t] = [task[t] EXCEPT !.pc = "saving"] /\ \A x \in Tasks : x # t => task'[x] = task[x]
      BY <1>1, <3>1
    <3>3. QED
      BY <1>2, <2>1, <3>1, <3>2 DEF TaskType
  <2>3. CodeInv
    BY DEF BoundInv
  <2>4. ustate[u] \in {"authenticating", "active"}
    BY <1>2, <2>1, <2>3 DEF CodeInv
  <2>5. CodeInv'
    <3> SUFFICES ASSUME NEW x \in Tasks, task'[x].pc # "idle"
                 PROVE  /\ task'[x].user \in Users
                        /\ task'[x].pc = "saving" => task'[x].kind = "code"
                        /\ task'[x].pc \in {"requested", "saving"} /\ task'[x].kind = "code" =>
                             ustate'[task'[x].user] \in {"authenticating", "active"}
      BY DEF CodeInv
    <3>1. CASE x = t
      BY <1>1, <2>2, <2>4, <3>1
    <3>2. CASE x # t
      BY <1>1, <2>2, <2>3, <3>2 DEF CodeInv
    <3>3. QED
      BY <3>1, <3>2
  <2>6. StoredImpliesActive'
    BY <1>1 DEF BoundInv, StoredImpliesActive
  <2>7. QED
    BY <2>5, <2>6 DEF BoundInv
<1>5. QED
  BY <1>3, <1>4

LEMMA BoundInductive ==
  ASSUME Alone, CallsInv, BoundInv, TableInv, [Next]_vars
  PROVE  BoundInv'
<1>1. task \in [Tasks -> TaskType]
  BY DEF CallsInv, ApiTypes
<1>2. CASE UNCHANGED <<task, stored, ustate>>
  BY <1>2, BoundSame
<1>3. ASSUME NEW t \in Tasks, NEW u \in Users, Logout(t, u)
      PROVE  BoundInv'
  <2>1. task[t].pc = "idle"
    BY <1>3 DEF Logout, LogoutOpened, LogoutUnopened
  <2>2. CASE LogoutOpened(t, u)
    <3> DEFINE z == [pc |-> "requested", user |-> u, kind |-> "logout"]
    <3>1. task' = [task EXCEPT ![t] = z] /\ stored' = stored /\ ustate' = ustate
      BY <2>2 DEF LogoutOpened, db
    <3>2. z.pc = "requested" /\ z.user = u /\ z.kind = "logout"
      OBVIOUS
    <3> HIDE DEF z
    <3>3. \A x \in Tasks : task'[x] = IF x = t THEN z ELSE task[x]
      BY <1>1, <3>1
    <3>4. ASSUME NEW x \in Tasks, task'[x] # task[x]
          PROVE  /\ task'[x].pc \in {"waiting", "requested"} /\ task'[x].user = u
                 /\ task'[x].kind # "code"
      BY <3>2, <3>3, <3>4
    <3>5. QED
      BY <1>1, <3>1, <3>4, BoundBegun
  <2>3. CASE LogoutUnopened(t, u)
    <3>1. LoggedOut(u) /\ task' = task
      BY <2>3 DEF LogoutUnopened
    <3>2. \A x \in Tasks : task'[x].pc = "idle"
      BY <2>1, <3>1 DEF Alone
    <3>3. QED
      BY <3>1, <3>2, BoundLoggedOut
  <2>4. QED
    BY <1>3, <2>2, <2>3 DEF Logout
<1>4. ASSUME NEW t \in Tasks, NEW u \in Users, LogoutAnswered(t, u)
      PROVE  BoundInv'
  <2>1. task' = [task EXCEPT ![t] = Idle]
    BY <1>4 DEF LogoutAnswered
  <2>2. \A x \in Tasks : task'[x].pc = "idle"
    BY <1>1, <2>1, TaskDone DEF Alone
  <2>3. CASE LoggedOut(u)
    BY <2>2, <2>3, BoundLoggedOut
  <2>4. CASE stored' = stored /\ ustate' = ustate
    BY <2>2, <2>4, BoundSame
  <2>5. QED
    BY <1>4, <2>3, <2>4 DEF LogoutAnswered, db
<1>5. CASE \E t \in Tasks, u \in Users, kind \in Kinds : Call(t, u, kind)
  BY <1>1, <1>5, BoundCall
<1>6. CASE \E t \in Tasks : Saved(t)
  BY <1>1, <1>6, BoundSaved
<1>7. CASE \E u \in Users : OpenAnswered(u)
  BY <1>7, BoundOpenAnswered
<1>8. CASE \E u \in Users, t \in Tasks : OperationAnswered(t, u)
  BY <1>8, BoundOperationAnswered
<1>9. CASE \/ \E u \in Users : RequestOpen(u) \/ LateAnswer(u) \/ QrConfirmed(u) \/ ChromiumCrash(u)
           \/ \E u \in Users : \E i \in DOMAIN queue[u] : Execute(u, i)
           \/ UNCHANGED vars
  <2>1. UNCHANGED <<task, stored, ustate>>
    BY <1>9 DEF RequestOpen, LateAnswer, QrConfirmed, ChromiumCrash, Execute, ExecuteOpen,
         ExecuteClose, ExecuteOperation, vars, db, api
  <2>2. QED
    BY <1>2, <2>1
<1>10. CASE \/ \E t \in Tasks : RequestTimeout(t)
            \/ \E u \in Users : OpenTimeout(u)
            \/ WorkerRestart \/ ApiRestart
  <2>1. stored' = stored /\ ustate' = ustate
    BY <1>10 DEF RequestTimeout, OpenTimeout, WorkerRestart, ApiRestart, db
  <2>2. \A t \in Tasks : task'[t] = task[t] \/ task'[t].pc = "idle"
    <3>1. ASSUME NEW x \in Tasks, RequestTimeout(x)
          PROVE  \A t \in Tasks : task'[t] = task[t] \/ task'[t].pc = "idle"
      BY <1>1, <3>1, TaskDone DEF RequestTimeout
    <3>2. ASSUME NEW u \in Users, OpenTimeout(u)
          PROVE  \A t \in Tasks : task'[t] = task[t] \/ task'[t].pc = "idle"
      BY <3>2, TaskDone DEF OpenTimeout, OpeningFailed
    <3>3. CASE WorkerRestart
      BY <3>3, TaskDone DEF WorkerRestart
    <3>4. CASE ApiRestart
      BY <3>4, TaskDone DEF ApiRestart
    <3>5. QED
      BY <1>10, <3>1, <3>2, <3>3, <3>4
  <2>3. QED
    BY <2>1, <2>2, BoundSame
<1>11. QED
  BY <1>3, <1>4, <1>5, <1>6, <1>7, <1>8, <1>9, <1>10 DEF Next, Deliver

LEMMA BoundInitially == Init => BoundInv
<1> SUFFICES ASSUME Init PROVE BoundInv
  OBVIOUS
<1>1. /\ task = [t \in Tasks |-> Idle]
      /\ ustate = [u \in Users |-> IF stored[u] THEN "active" ELSE "approved_unbound"]
  BY DEF Init
<1>2. \A t \in Tasks : task[t].pc = "idle"
  BY <1>1, TaskDone
<1>3. StoredImpliesActive
  BY <1>1 DEF StoredImpliesActive
<1>4. QED
  BY <1>2, <1>3 DEF BoundInv, CodeInv

(* With one call at a time, whatever fails, is cut off or restarts, a      *)
(* stored session belongs to a user the bridge treats as active.           *)
THEOREM AloneStoredImpliesActive == ASSUME Alone PROVE Spec => []StoredImpliesActive
<1>1. Init => BoundInv
  BY BoundInitially
<1>2. SessionsInv /\ BoundInv /\ [Next]_vars => BoundInv'
  BY BoundInductive DEF SessionsInv
<1>3. BoundInv => StoredImpliesActive
  BY DEF BoundInv
<1>4. QED
  BY <1>1, <1>2, <1>3, SessionsInvariant, PTL DEF Spec

-----------------------------------------------------------------------------
(* A logout is final as long as, besides, no request is given up.          *)

NothingGivenUp == {"timeout", "api"} \cap Faults = {}

Asks(kind) == IF kind = "logout" THEN "close" ELSE kind

\* An opening has a line, and a storage state only while it is under way.
LineInv ==
  \A u \in Users : /\ opening[u] # "no" => waiters[u] # <<>>
                   /\ opening[u] = "no" => ~captured[u]

\* What a request asks for is what who awaits its answer is there for.
Meant(r, loaded, k) ==
  /\ r.to \in Awaiting
  /\ IF r.to = Opener THEN r.op = "open" /\ (r.storage => loaded) ELSE r.op = Asks(k[r.to].kind)

MeantInv == \A u \in Users : \A i \in DOMAIN queue[u] : Meant(queue[u][i], captured[u], task)

\* The API knows of a session, or is about to.
OpenedOn(u) == \E i \in DOMAIN answers[u] : answers[u][i].request.to = Opener /\ answers[u][i].result = "ok"
KnownInv == \A u \in Users : session[u] # "absent" => u \in opened \/ OpenedOn(u)

\* A logout whose request is answered has found the session, and closed it.
ClosedInv ==
  \A t \in Tasks :
    task[t].pc = "requested" /\ task[t].kind = "logout" /\ Unasked(queue[task[t].user], t) =>
      session[task[t].user] = "absent"

\* Who logs in is not logged out, and what has been logged out is gone.
LoginInv == \A t \in Tasks : task[t].pc # "idle" /\ IsLogin(task[t].kind) => ~signedOut[task[t].user]
GoneInv ==
  \A u \in Users :
    signedOut[u] => ~stored[u] /\ session[u] \notin {"prompting", "authenticated"} /\ ~captured[u]

FinalInv == LineInv /\ MeantInv /\ KnownInv /\ ClosedInv /\ LoginInv /\ GoneInv

\* While the only task does not wait for an opening, no opening is under way.
LEMMA Sole ==
  ASSUME Alone, CallsInv, FinalInv, NEW t \in Tasks, task[t].pc # "waiting", NEW u \in Users
  PROVE  /\ opening[u] = "no" /\ ~captured[u] /\ waiters[u] = <<>>
         /\ session[u] # "absent" => u \in opened
         /\ \A i \in DOMAIN queue[u] : /\ queue[u][i].to = t /\ queue[u][i].op = Asks(task[t].kind)
                                       /\ task[t].pc = "requested" /\ task[t].user = u
<1>1. /\ waiters[u] \in Seq(Tasks) /\ WaitingInv /\ LineInv /\ MeantInv /\ KnownInv
      /\ \A to \in Awaiting : (UnderWay(u, to) => OneUnderWay(queue[u], answers[u], to))
                             /\ (~UnderWay(u, to) => NoneUnderWay(queue[u], answers[u], to))
  BY DEF CallsInv, ApiTypes, UnderWayInv, FinalInv
<1>2. opening[u] = "no"
  <2> SUFFICES ASSUME opening[u] # "no" PROVE FALSE
    OBVIOUS
  <2>1. waiters[u] # <<>>
    BY <1>1 DEF LineInv
  <2>2. Len(waiters[u]) \in Nat /\ Len(waiters[u]) # 0
    BY <1>1, <2>1, LenProperties, EmptySeq
  <2>3. 1 \in 1 .. Len(waiters[u])
    BY <2>2
  <2>4. waiters[u][1] \in Tasks /\ task[waiters[u][1]].pc = "waiting"
    BY <1>1, <2>3, ElementOfSeq DEF WaitingInv, InLine
  <2>5. QED
    BY <2>4 DEF Alone
<1>3. ~captured[u] /\ waiters[u] = <<>>
  BY <1>1, <1>2 DEF LineInv, WaitingInv
<1>4. NoneUnderWay(queue[u], answers[u], Opener)
  BY <1>1, <1>2 DEF UnderWay, Awaiting
<1>5. session[u] # "absent" => u \in opened
  BY <1>1, <1>4 DEF KnownInv, OpenedOn, NoneUnderWay, Unanswered
<1>6. ASSUME NEW i \in DOMAIN queue[u]
      PROVE  /\ queue[u][i].to = t /\ queue[u][i].op = Asks(task[t].kind)
             /\ task[t].pc = "requested" /\ task[t].user = u
  <2>1. Meant(queue[u][i], captured[u], task)
    BY <1>1 DEF MeantInv
  <2>2. queue[u][i].to # Opener
    BY <1>4 DEF NoneUnderWay, Unasked
  <2>3. queue[u][i].to \in Tasks /\ queue[u][i].op = Asks(task[queue[u][i].to].kind)
    BY <2>1, <2>2 DEF Meant, Awaiting
  <2>4. queue[u][i].to = t
    BY <2>3 DEF Alone
  <2>5. ~NoneUnderWay(queue[u], answers[u], t)
    BY <2>4 DEF NoneUnderWay, Unasked
  <2>6. UnderWay(u, t)
    BY <1>1, <2>5 DEF Awaiting
  <2>7. QED
    BY <2>2, <2>3, <2>4, <2>6 DEF UnderWay
<1>7. QED
  BY <1>2, <1>3, <1>5, <1>6

\* While the only task is not logging out, the clauses about a logout say nothing.
LEMMA NotLeaving ==
  ASSUME Alone, NEW t \in Tasks, task[t].pc # "requested" \/ task[t].kind # "logout"
  PROVE  ClosedInv
BY DEF Alone, ClosedInv

LEMMA FinalCallOpened ==
  ASSUME Alone, CallsInv, FinalInv, TableInv,
         NEW t \in Tasks, NEW u \in Users, NEW kind \in Kinds, CallOpened(t, u, kind)
  PROVE  FinalInv'
<1> DEFINE z == [pc |-> "requested", user |-> u, kind |-> kind]
           r == Requested(t, kind)
<1>1. /\ task[t].pc = "idle" /\ kind # "logout" /\ task' = [task EXCEPT ![t] = z]
      /\ queue' = [queue EXCEPT ![u] = Append(queue[u], r)]
      /\ signedOut' = [signedOut EXCEPT ![u] = @ /\ ~IsLogin(kind)]
      /\ UNCHANGED <<opened, opening, captured, waiters, stored, answers, session>>
  BY DEF CallOpened, Begin, CallsInv, WorkerTypes
<1>2. z.pc = "requested" /\ z.user = u /\ z.kind = kind /\ r.to = t /\ r.op = kind
  BY DEF Requested, Request
<1>3. r \in RequestType
  BY KindsType, <1>1 DEF Requested, Request, RequestType, Addresses, Ops
<1> HIDE DEF z, r
<1>4. \A v \in Users : \A i \in DOMAIN queue[v] : FALSE
  BY <1>1, Sole
<1>5. /\ task \in [Tasks -> TaskType] /\ queue \in [Users -> Seq(RequestType)] /\ t # Opener
      /\ signedOut \in [Users -> BOOLEAN] /\ queue[u] \in Seq(RequestType) /\ t \in Awaiting
  BY AddressesOut DEF CallsInv, ApiTypes, WorkerTypes, TableInv, Awaiting
<1>6. task'[t] = z
  BY <1>1, <1>5
<1>7. LineInv'
  BY <1>1 DEF FinalInv, LineInv
<1>8. MeantInv'
  <2> SUFFICES ASSUME NEW v \in Users, NEW i \in DOMAIN queue'[v]
               PROVE  Meant(queue'[v][i], captured'[v], task')
    BY DEF MeantInv
  <2>1. v = u /\ queue'[v] = Append(queue[u], r)
    BY <1>1, <1>4, <1>5
  <2>2. DOMAIN queue[u] = 1 .. Len(queue[u]) /\ Len(queue[u]) \in Nat
    BY <1>5, LenProperties
  <2>3. DOMAIN Append(queue[u], r) = 1 .. Len(queue[u]) + 1 /\ Append(queue[u], r)[Len(queue[u]) + 1] = r
    BY <1>3, <1>5, AppendFact
  <2>4. i = Len(queue[u]) + 1
    BY <1>4, <2>1, <2>2, <2>3
  <2>5. queue'[v][i] = r
    BY <2>1, <2>3, <2>4
  <2>6. QED
    BY <1>1, <1>2, <1>5, <1>6, <2>5 DEF Meant, Asks
<1>9. KnownInv'
  BY <1>1 DEF FinalInv, KnownInv, OpenedOn
<1>10. ClosedInv'
  BY <1>1, <1>2, <1>6 DEF Alone, ClosedInv
<1>11. \A v \in Users : signedOut'[v] => signedOut[v]
  BY <1>1, <1>5
<1>12. LoginInv'
  <2>1. IsLogin(kind) => ~signedOut'[u]
    BY <1>1, <1>5
  <2>2. QED
    BY <1>2, <1>6, <2>1 DEF Alone, LoginInv
<1>13. GoneInv'
  BY <1>1, <1>11 DEF FinalInv, GoneInv
<1>14. QED
  BY <1>7, <1>8, <1>9, <1>10, <1>12, <1>13 DEF FinalInv

LEMMA FinalCallUnopened ==
  ASSUME Alone, CallsInv, FinalInv, TableInv,
         NEW t \in Tasks, NEW u \in Users, NEW kind \in Kinds, CallUnopened(t, u, kind)
  PROVE  FinalInv'
<1> DEFINE z == [pc |-> "waiting", user |-> u, kind |-> kind]
<1>1. /\ task[t].pc = "idle" /\ kind # "logout" /\ task' = [task EXCEPT ![t] = z]
      /\ waiters' = [waiters EXCEPT ![u] = Append(waiters[u], t)]
      /\ opening[u] = "no" => opening' = [opening EXCEPT ![u] = "decrypting"]
                               /\ captured' = [captured EXCEPT ![u] = stored[u]]
      /\ signedOut' = [signedOut EXCEPT ![u] = @ /\ ~IsLogin(kind)]
      /\ UNCHANGED <<opened, stored, queue, answers, session>>
  BY DEF CallUnopened, Begin, CallsInv, ApiTypes, db, worker
<1>2. z.pc = "waiting" /\ z.user = u /\ z.kind = kind
  OBVIOUS
<1> HIDE DEF z
<1>3. \A v \in Users : opening[v] = "no" /\ ~captured[v] /\ \A i \in DOMAIN queue[v] : FALSE
  BY <1>1, Sole
<1>4. /\ task \in [Tasks -> TaskType] /\ signedOut \in [Users -> BOOLEAN] /\ waiters[u] \in Seq(Tasks)
      /\ waiters \in [Users -> Seq(Tasks)] /\ captured \in [Users -> BOOLEAN]
      /\ opening \in [Users -> {"no", "decrypting", "requested"}]
  BY DEF CallsInv, ApiTypes, TableInv
<1>5. task'[t] = z
  BY <1>1, <1>4
<1>6. Append(waiters[u], t) # <<>>
  <2>1. DOMAIN Append(waiters[u], t) = 1 .. Len(waiters[u]) + 1 /\ Len(waiters[u]) \in Nat
    BY <1>4, AppendFact
  <2>2. 1 \in DOMAIN Append(waiters[u], t) /\ 1 \notin DOMAIN <<>>
    BY <2>1
  <2>3. QED
    BY <2>2
<1>7. \A v \in Users : IF v = u THEN opening'[v] = "decrypting" /\ captured'[v] = stored[v]
                       ELSE opening'[v] = opening[v] /\ captured'[v] = captured[v]
  BY <1>1, <1>3, <1>4
<1>8. LineInv'
  <2>1. waiters'[u] # <<>>
    BY <1>1, <1>4, <1>6
  <2>2. QED
    BY <1>3, <1>7, <2>1 DEF LineInv
<1>9. MeantInv'
  BY <1>1, <1>3 DEF MeantInv
<1>10. KnownInv'
  BY <1>1 DEF FinalInv, KnownInv, OpenedOn
<1>11. ClosedInv'
  BY <1>2, <1>5 DEF Alone, ClosedInv
<1>12. \A v \in Users : signedOut'[v] => signedOut[v]
  BY <1>1, <1>4
<1>13. LoginInv'
  <2>1. IsLogin(kind) => ~signedOut'[u]
    BY <1>1, <1>4
  <2>2. QED
    BY <1>2, <1>5, <2>1 DEF Alone, LoginInv
<1>14. GoneInv'
  BY <1>1, <1>3, <1>7, <1>12 DEF FinalInv, GoneInv
<1>15. QED
  BY <1>8, <1>9, <1>10, <1>11, <1>13, <1>14 DEF FinalInv

\* The synchronous end of a logout, after which nobody is served.
LEMMA FinalLoggedOut ==
  ASSUME Alone, CallsInv, FinalInv, TableInv, NEW u \in Users, LoggedOut(u), session[u] = "absent",
         NEW t \in Tasks, task[t].pc # "waiting", task'[t].pc = "idle",
         UNCHANGED <<opening, captured, waiters, queue, session>>,
         \A v \in Users : \A i \in DOMAIN queue[v] : FALSE,
         \A v \in Users : session[v] # "absent" => v \in opened
  PROVE  FinalInv'
<1>1. /\ opened' = opened \ {u} /\ stored' = [stored EXCEPT ![u] = FALSE]
      /\ signedOut' = [signedOut EXCEPT ![u] = TRUE]
      /\ stored \in [Users -> BOOLEAN] /\ signedOut \in [Users -> BOOLEAN]
  BY DEF LoggedOut, TableInv
<1>2. LineInv'
  BY DEF FinalInv, LineInv
<1>3. MeantInv'
  BY DEF MeantInv
<1>4. KnownInv'
  BY <1>1 DEF KnownInv
<1>5. ClosedInv' /\ LoginInv'
  BY DEF Alone, ClosedInv, LoginInv
<1>6. \A v \in Users : ~captured[v]
  BY Sole
<1>7. \A v \in Users : IF v = u THEN ~stored'[v] ELSE stored'[v] = stored[v] /\ signedOut'[v] = signedOut[v]
  BY <1>1
<1>8. GoneInv'
  BY <1>6, <1>7 DEF FinalInv, GoneInv
<1>9. QED
  BY <1>2, <1>3, <1>4, <1>5, <1>8 DEF FinalInv

LEMMA FinalLogout ==
  ASSUME Alone, CallsInv, FinalInv, TableInv, NEW t \in Tasks, NEW u \in Users, Logout(t, u)
  PROVE  FinalInv'
<1>1. task[t].pc = "idle"
  BY DEF Logout, LogoutOpened, LogoutUnopened
<1>2. \A v \in Users : /\ session[v] # "absent" => v \in opened
                       /\ \A i \in DOMAIN queue[v] : FALSE
  BY <1>1, Sole
<1>3. CASE LogoutUnopened(t, u)
  <2>1. LoggedOut(u) /\ UNCHANGED <<opening, captured, waiters, task, queue, session>> /\ u \notin opened
    BY <1>3 DEF LogoutUnopened, worker
  <2>2. QED
    BY <1>1, <1>2, <2>1, FinalLoggedOut
<1>4. CASE LogoutOpened(t, u)
  <2> DEFINE z == [pc |-> "requested", user |-> u, kind |-> "logout"]
             r == Request(t, "close", FALSE)
  <2>1. /\ task' = [task EXCEPT ![t] = z] /\ queue' = [queue EXCEPT ![u] = Append(queue[u], r)]
        /\ UNCHANGED <<opened, opening, captured, waiters, stored, signedOut, answers, session>>
    BY <1>4 DEF LogoutOpened, CallsInv, WorkerTypes, db
  <2>2. /\ z.pc = "requested" /\ z.user = u /\ z.kind = "logout" /\ r.to = t /\ r.op = "close"
        /\ r \in RequestType
    BY DEF Request, RequestType, Addresses, Ops
  <2> HIDE DEF z, r
  <2>3. /\ task \in [Tasks -> TaskType] /\ queue \in [Users -> Seq(RequestType)] /\ t # Opener
        /\ queue[u] \in Seq(RequestType) /\ t \in Awaiting
    BY AddressesOut DEF CallsInv, ApiTypes, WorkerTypes, Awaiting
  <2>4. task'[t] = z /\ queue'[u] = Append(queue[u], r)
    BY <2>1, <2>3
  <2>5. /\ DOMAIN queue[u] = 1 .. Len(queue[u]) /\ Len(queue[u]) \in Nat
        /\ DOMAIN Append(queue[u], r) = 1 .. Len(queue[u]) + 1 /\ Append(queue[u], r)[Len(queue[u]) + 1] = r
    BY <2>2, <2>3, AppendFact
  <2>6. LineInv' /\ KnownInv'
    BY <2>1 DEF FinalInv, LineInv, KnownInv, OpenedOn
  <2>7. MeantInv'
    <3> SUFFICES ASSUME NEW v \in Users, NEW i \in DOMAIN queue'[v]
                 PROVE  Meant(queue'[v][i], captured'[v], task')
      BY DEF MeantInv
    <3>1. v = u
      BY <1>2, <2>1, <2>3
    <3>2. i = Len(queue[u]) + 1
      BY <1>2, <2>4, <2>5, <3>1
    <3>3. queue'[v][i] = r
      BY <2>4, <2>5, <3>1, <3>2
    <3>4. QED
      BY <2>2, <2>3, <2>4, <3>3 DEF Meant, Asks
  <2>8. ClosedInv'
    <3>1. ~Unasked(queue'[u], t)
      <4>1. Len(queue[u]) + 1 \in DOMAIN queue'[u] /\ queue'[u][Len(queue[u]) + 1].to = t
        BY <2>2, <2>4, <2>5
      <4>2. QED
        BY <4>1 DEF Unasked
    <3>2. QED
      BY <2>2, <2>4, <3>1 DEF Alone, ClosedInv
  <2>9. LoginInv'
    BY <2>2, <2>4 DEF Alone, LoginInv, IsLogin
  <2>10. GoneInv'
    BY <2>1 DEF FinalInv, GoneInv
  <2>11. QED
    BY <2>6, <2>7, <2>8, <2>9, <2>10 DEF FinalInv
<1>5. QED
  BY <1>3, <1>4 DEF Logout

LEMMA FinalRequestOpen ==
  ASSUME Alone, CallsInv, FinalInv, NEW u \in Users, RequestOpen(u)
  PROVE  FinalInv'
<1> DEFINE r == Request(Opener, "open", captured[u])
           q == queue[u]
           p == Append(q, r)
<1>1. /\ opening[u] = "decrypting" /\ opening' = [opening EXCEPT ![u] = "requested"]
      /\ queue' = [queue EXCEPT ![u] = p]
      /\ UNCHANGED <<opened, captured, waiters, task, stored, signedOut, answers, session>>
  BY DEF RequestOpen, CallsInv, WorkerTypes, db
<1>2. /\ q \in Seq(RequestType) /\ r \in RequestType /\ queue \in [Users -> Seq(RequestType)]
      /\ opening \in [Users -> {"no", "decrypting", "requested"}]
      /\ r.to = Opener /\ r.op = "open" /\ r.storage = captured[u] /\ p = Append(q, r)
  BY DEF CallsInv, ApiTypes, WorkerTypes, Request, RequestType, Addresses, Ops
<1> HIDE DEF r, q, p
<1>3. /\ DOMAIN q = 1 .. Len(q) /\ Len(q) \in Nat /\ DOMAIN p = 1 .. Len(q) + 1 /\ p[Len(q) + 1] = r
      /\ \A i \in 1 .. Len(q) : p[i] = q[i]
  BY <1>2, AppendFact
<1>4. LineInv'
  BY <1>1, <1>2 DEF FinalInv, LineInv
<1>5. \A v \in Users : queue'[v] = IF v = u THEN p ELSE queue[v]
  BY <1>1, <1>2
<1>6. Meant(r, captured[u], task)
  BY <1>2 DEF Meant, Awaiting
<1>7. \A i \in DOMAIN q : Meant(q[i], captured[u], task)
  BY DEF FinalInv, MeantInv, q
<1>8. MeantInv'
  <2> SUFFICES ASSUME NEW v \in Users, NEW i \in DOMAIN queue'[v]
               PROVE  Meant(queue'[v][i], captured'[v], task')
    BY DEF MeantInv
  <2>1. CASE v # u
    BY <1>1, <1>5, <2>1 DEF FinalInv, MeantInv
  <2>2. CASE v = u
    <3>1. \A j \in DOMAIN p : Meant(p[j], captured[u], task)
      <4> SUFFICES ASSUME NEW j \in DOMAIN p PROVE Meant(p[j], captured[u], task)
        OBVIOUS
      <4>1. j \in DOMAIN q \/ j = Len(q) + 1
        BY <1>3
      <4>2. QED
        BY <1>3, <1>6, <1>7, <4>1
    <3>2. QED
      BY <1>1, <1>5, <2>2, <3>1
  <2>3. QED
    BY <2>1, <2>2
<1>9. KnownInv'
  BY <1>1 DEF FinalInv, KnownInv, OpenedOn
<1>10. ClosedInv'
  <2> SUFFICES ASSUME NEW t \in Tasks, task'[t].pc = "requested", task'[t].kind = "logout"
               PROVE  FALSE
    BY DEF ClosedInv
  <2>1. opening[u] = "no"
    BY <1>1, Sole
  <2>2. QED
    BY <1>1, <2>1
<1>11. LoginInv' /\ GoneInv'
  BY <1>1 DEF FinalInv, LoginInv, GoneInv
<1>12. QED
  BY <1>4, <1>8, <1>9, <1>10, <1>11 DEF FinalInv

LEMMA FinalSaved ==
  ASSUME Alone, CallsInv, FinalInv, CodeInv, TableInv, NEW t \in Tasks, Saved(t)
  PROVE  FinalInv'
<1> DEFINE u == task[t].user
<1>1. /\ task[t].pc = "saving" /\ task' = [task EXCEPT ![t] = Idle]
      /\ stored' = [stored EXCEPT ![u] = TRUE] /\ stored \in [Users -> BOOLEAN]
      /\ UNCHANGED <<opened, opening, captured, waiters, queue, answers, session, signedOut>>
  BY DEF Saved, worker, TableInv
<1>2. ~signedOut[u]
  BY <1>1 DEF CodeInv, FinalInv, LoginInv, IsLogin
<1> HIDE DEF u
<1>3. \A x \in Tasks : task'[x].pc = "idle"
  <2>1. task'[t] = Idle
    BY <1>1 DEF CallsInv, ApiTypes
  <2>2. QED
    BY <2>1, TaskDone DEF Alone
<1>4. LineInv' /\ KnownInv'
  BY <1>1 DEF FinalInv, LineInv, KnownInv, OpenedOn
<1>5. \A v \in Users : \A i \in DOMAIN queue[v] : FALSE
  BY <1>1, Sole
<1>6. MeantInv'
  BY <1>1, <1>5 DEF MeantInv
<1>7. ClosedInv' /\ LoginInv'
  BY <1>3 DEF ClosedInv, LoginInv
<1>8. \A v \in Users : v # u => stored'[v] = stored[v]
  BY <1>1
<1>9. GoneInv'
  BY <1>1, <1>2, <1>8 DEF FinalInv, GoneInv
<1>10. QED
  BY <1>4, <1>6, <1>7, <1>9 DEF FinalInv

\* What the worker does with the request it has taken.
LEMMA FinalAnswer ==
  ASSUME Alone, CallsInv, FinalInv, NEW u \in Users, NEW i \in DOMAIN queue[u], NEW result \in Results,
         Answer(u, i, result), UNCHANGED <<opened, opening, captured, waiters, task, stored, signedOut>>,
         NEW s \in SessionStates, session' = [session EXCEPT ![u] = s],
         s # "absent" =>
           session[u] # "absent" \/ (queue[u][i].to = Opener /\ result = "ok"),
         queue[u][i].op = "close" => s = "absent",
         signedOut[u] => s \notin {"prompting", "authenticated"}
  PROVE  FinalInv'
<1> DEFINE q == queue[u]
           a == answers[u]
           r == [request |-> q[i], result |-> result]
           p == RemoveAt(q, i)
           b == Append(a, r)
<1>1. /\ queue \in [Users -> Seq(RequestType)] /\ answers \in [Users -> Seq(AnswerType)]
      /\ session \in [Users -> SessionStates] /\ q \in Seq(RequestType) /\ a \in Seq(AnswerType)
      /\ queue' = [queue EXCEPT ![u] = p] /\ answers' = [answers EXCEPT ![u] = b] /\ i \in DOMAIN q
  BY DEF CallsInv, WorkerTypes, Answer
<1>2. r \in AnswerType /\ r.request = q[i] /\ r.result = result /\ p = RemoveAt(q, i) /\ b = Append(a, r)
  <2>1. q[i] \in RequestType
    BY <1>1, ElementOfSeq, LenProperties
  <2>2. QED
    BY <2>1 DEF AnswerType
<1> HIDE DEF p, b, r
<1>3. \A j \in DOMAIN p : \E k \in DOMAIN q : p[j] = q[k]
  <2> HIDE DEF q
  <2>1. /\ DOMAIN q = 1 .. Len(q) /\ Len(q) \in Nat \ {0} /\ DOMAIN p = 1 .. Len(q) - 1
        /\ \A j \in 1 .. Len(q) - 1 : p[j] = q[Old(i, j)]
    BY <1>1, <1>2, RemoveAtFact
  <2>2. \A j \in 1 .. Len(q) - 1 : Old(i, j) \in 1 .. Len(q)
    BY <1>1, <2>1 DEF Old
  <2>3. QED
    BY <2>1, <2>2
<1>4. /\ \A j \in DOMAIN a : j \in DOMAIN b /\ b[j] = a[j]
      /\ \E j \in DOMAIN b : b[j] = r
  <2> HIDE DEF a
  <2>1. /\ DOMAIN a = 1 .. Len(a) /\ Len(a) \in Nat /\ DOMAIN b = 1 .. Len(a) + 1 /\ b[Len(a) + 1] = r
        /\ \A j \in 1 .. Len(a) : b[j] = a[j]
    BY <1>1, <1>2, AppendFact
  <2>2. Len(a) + 1 \in DOMAIN b
    BY <2>1
  <2>3. QED
    BY <2>1, <2>2
<1>5. \A v \in Users : IF v = u THEN queue'[v] = p /\ answers'[v] = b /\ session'[v] = s
                       ELSE queue'[v] = queue[v] /\ answers'[v] = answers[v] /\ session'[v] = session[v]
  BY <1>1
<1>6. LineInv'
  BY DEF FinalInv, LineInv
<1>7. MeantInv'
  <2> SUFFICES ASSUME NEW v \in Users, NEW j \in DOMAIN queue'[v]
               PROVE  Meant(queue'[v][j], captured'[v], task')
    BY DEF MeantInv
  <2>1. \E k \in DOMAIN queue[v] : queue'[v][j] = queue[v][k]
    <3>1. CASE v = u
      BY <1>3, <1>5, <3>1
    <3>2. CASE v # u
      BY <1>5, <3>2
    <3>3. QED
      BY <3>1, <3>2
  <2>2. QED
    BY <2>1 DEF FinalInv, MeantInv
<1>8. KnownInv'
  <2> SUFFICES ASSUME NEW v \in Users, session'[v] # "absent", v \notin opened
               PROVE  \E j \in DOMAIN answers'[v] :
                        answers'[v][j].request.to = Opener /\ answers'[v][j].result = "ok"
    BY DEF KnownInv, OpenedOn
  <2>1. session[v] # "absent" =>
          \E j \in DOMAIN answers[v] : answers[v][j].request.to = Opener /\ answers[v][j].result = "ok"
    BY DEF FinalInv, KnownInv, OpenedOn
  <2>2. CASE v # u
    BY <1>5, <2>1, <2>2
  <2>3. CASE v = u /\ session[u] # "absent"
    BY <1>4, <1>5, <2>1, <2>3
  <2>4. CASE v = u /\ session[u] = "absent"
    <3>1. s # "absent"
      BY <1>5, <2>4
    <3>2. r.request.to = Opener /\ r.result = "ok"
      BY <1>2, <2>4, <3>1
    <3>3. QED
      BY <1>4, <1>5, <2>4, <3>2
  <2>5. QED
    BY <2>2, <2>3, <2>4
<1>9. ClosedInv'
  <2> SUFFICES ASSUME NEW t \in Tasks, task[t].pc = "requested", task[t].kind = "logout",
                      Unasked(queue'[task[t].user], t)
               PROVE  session'[task[t].user] = "absent"
    BY DEF ClosedInv
  <2>1. task[t].user = u /\ q[i].op = "close"
    <3>1. \A j \in DOMAIN queue[u] : queue[u][j].op = Asks(task[t].kind) /\ task[t].user = u
      BY Sole
    <3>2. QED
      BY <3>1 DEF Asks
  <2>2. QED
    BY <1>5, <2>1
<1>10. LoginInv'
  BY DEF FinalInv, LoginInv
<1>11. GoneInv'
  BY <1>5 DEF FinalInv, GoneInv
<1>12. QED
  BY <1>6, <1>7, <1>8, <1>9, <1>10, <1>11 DEF FinalInv

LEMMA FinalExecute ==
  ASSUME Alone, CallsInv, FinalInv, NEW u \in Users, NEW i \in DOMAIN queue[u], Execute(u, i)
  PROVE  FinalInv'
<1> DEFINE r == queue[u][i]
<1>1. /\ session \in [Users -> SessionStates] /\ session[u] \in SessionStates
      /\ Meant(r, captured[u], task)
      /\ signedOut[u] => session[u] \notin {"prompting", "authenticated"} /\ ~captured[u]
  BY DEF CallsInv, WorkerTypes, FinalInv, MeantInv, GoneInv
<1>2. r \in RequestType
  <2>1. queue[u] \in Seq(RequestType)
    BY DEF CallsInv, WorkerTypes
  <2>2. QED
    BY <2>1, LenProperties, ElementOfSeq
<1>3. UNCHANGED <<opened, opening, captured, waiters, task, stored, signedOut>>
  BY DEF Execute, ExecuteOpen, ExecuteClose, ExecuteOperation, api, db
<1>4. {"ok", "failed", "session_not_found"} \subseteq Results
  BY DEF Results
<1>5. session = [session EXCEPT ![u] = session[u]]
  BY <1>1
<1>6. CASE ExecuteOpen(u, i)
  <2> DEFINE s == SessionOpened(session[u], r.storage)
  <2>1. r.op = "open" /\ r.storage \in BOOLEAN
    BY <1>2, <1>6 DEF ExecuteOpen, RequestType
  <2>2. r.to = Opener /\ (r.storage => captured[u])
    <3>1. r.to \in Tasks => Asks(task[r.to].kind) # "open"
      BY DEF CallsInv, ApiTypes, TaskType, Asks, AllKinds
    <3>2. QED
      BY <1>1, <2>1, <3>1 DEF Meant, Awaiting
  <2>3. s \in SessionStates /\ (signedOut[u] => s \notin {"prompting", "authenticated"})
    BY <1>1, <2>1, <2>2 DEF SessionOpened, SessionStates
  <2>4. CASE session' = [session EXCEPT ![u] = s] /\ Answer(u, i, "ok")
    <3> HIDE DEF s
    <3>1. QED
      BY <1>3, <1>4, <2>1, <2>2, <2>3, <2>4, FinalAnswer
  <2>5. CASE session' = session /\ Answer(u, i, "failed")
    <3>1. session' = [session EXCEPT ![u] = session[u]]
      BY <1>5, <2>5
    <3>2. QED
      BY <1>1, <1>3, <1>4, <2>1, <2>5, <3>1, FinalAnswer
  <2>6. QED
    BY <1>6, <2>4, <2>5 DEF ExecuteOpen
<1>7. CASE ExecuteClose(u, i)
  <2>1. session' = [session EXCEPT ![u] = "absent"] /\ (Answer(u, i, "ok") \/ Answer(u, i, "failed"))
    BY <1>7 DEF ExecuteClose
  <2>2. "absent" \in SessionStates
    BY DEF SessionStates
  <2>3. QED
    BY <1>3, <1>4, <2>1, <2>2, FinalAnswer
<1>8. CASE ExecuteOperation(u, i)
  <2>1. r.op \in {"use", "phone", "status", "code"}
    BY <1>2, <1>8 DEF ExecuteOperation, RequestType, Ops, AllKinds
  <2>2. CASE session[u] = "absent"
    <3>1. Answer(u, i, "session_not_found") /\ session' = [session EXCEPT ![u] = session[u]]
      BY <1>5, <1>8, <2>2 DEF ExecuteOperation
    <3>2. QED
      BY <1>1, <1>3, <1>4, <2>1, <2>2, <3>1, FinalAnswer
  <2>3. CASE session[u] # "absent"
    <3>1. PICK e \in Effects(r.op, session[u]) :
            session' = [session EXCEPT ![u] = e[1]] /\ Answer(u, i, e[2])
      BY <1>8, <2>3 DEF ExecuteOperation
    <3>2. e[1] \in SessionStates /\ e[2] \in Results
      BY <1>1, <2>1, <2>3, EffectsFact
    <3>3. r.op \in {"phone", "code"} => ~signedOut[u]
      <4> SUFFICES ASSUME r.op \in {"phone", "code"} PROVE ~signedOut[u]
        OBVIOUS
      <4>1. r.to \in Tasks /\ r.op = Asks(task[r.to].kind)
        BY <1>1 DEF Meant, Awaiting
      <4>2. ~NoneUnderWay(queue[u], answers[u], r.to)
        BY DEF NoneUnderWay, Unasked
      <4>3. UnderWay(u, r.to)
        BY <4>1, <4>2 DEF CallsInv, UnderWayInv, Awaiting
      <4>4. task[r.to].pc = "requested" /\ task[r.to].user = u
        BY <4>1, <4>3, AddressesOut DEF UnderWay
      <4>5. IsLogin(task[r.to].kind)
        BY <4>1 DEF Asks, IsLogin
      <4>6. QED
        BY <4>1, <4>4, <4>5 DEF FinalInv, LoginInv
    <3>4. r.op \in {"use", "status"} => e[1] = session[u]
      <4>1. CASE session[u] = "dead"
        BY <3>1, <4>1 DEF Effects
      <4>2. CASE session[u] # "dead" /\ r.op = "use"
        BY <3>1, <4>2 DEF Effects
      <4>3. CASE session[u] # "dead" /\ r.op = "status"
        BY <3>1, <4>3 DEF Effects
      <4>4. QED
        BY <4>1, <4>2, <4>3
    <3>5. signedOut[u] => e[1] \notin {"prompting", "authenticated"}
      BY <1>1, <2>1, <3>3, <3>4
    <3>6. QED
      BY <1>3, <2>1, <2>3, <3>1, <3>2, <3>5, FinalAnswer
  <2>4. QED
    BY <2>2, <2>3
<1>9. QED
  BY <1>6, <1>7, <1>8 DEF Execute

LEMMA FinalSession ==
  ASSUME Alone, CallsInv, FinalInv, CodeInv, NEW u \in Users, ChromiumCrash(u) \/ QrConfirmed(u)
  PROVE  FinalInv'
<1>1. UNCHANGED <<opened, opening, captured, waiters, task, stored, signedOut, queue, answers>>
  BY DEF ChromiumCrash, QrConfirmed, api, db
<1>2. /\ session \in [Users -> SessionStates] /\ session[u] # "absent"
      /\ \A v \in Users : v # u => session'[v] = session[v]
      /\ session'[u] = "dead" \/ (session[u] = "prompting" /\ session'[u] = "authenticated")
  BY DEF ChromiumCrash, QrConfirmed, CallsInv, WorkerTypes
<1>3. LineInv' /\ MeantInv' /\ LoginInv'
  BY <1>1 DEF FinalInv, LineInv, MeantInv, LoginInv
<1>4. KnownInv'
  BY <1>1, <1>2 DEF FinalInv, KnownInv, OpenedOn
<1>5. ClosedInv'
  <2> SUFFICES ASSUME NEW t \in Tasks, task'[t].pc = "requested", task'[t].kind = "logout",
                      Unasked(queue'[task'[t].user], t)
               PROVE  session'[task'[t].user] = "absent"
    BY DEF ClosedInv
  <2>1. session[task[t].user] = "absent"
    BY <1>1 DEF FinalInv, ClosedInv
  <2>2. task[t].user \in Users /\ task[t].user # u
    BY <1>1, <1>2, <2>1 DEF CodeInv
  <2>3. QED
    BY <1>1, <1>2, <2>1, <2>2
<1>6. GoneInv'
  BY <1>1, <1>2 DEF FinalInv, GoneInv
<1>7. QED
  BY <1>3, <1>4, <1>5, <1>6 DEF FinalInv

LEMMA FinalOpenAnswered ==
  ASSUME Alone, CallsInv, FinalInv, CodeInv, NEW u \in Users, OpenAnswered(u)
  PROVE  FinalInv'
<1> DEFINE w == waiters[u]
<1>1. /\ AnswerTo(u, Opener) /\ Received(u) /\ OpeningOver(u) /\ Opener \in Awaiting
      /\ UNCHANGED <<stored, session, signedOut>>
  BY DEF OpenAnswered, OpeningSucceeded, OpeningFailed, Awaiting
<1>2. /\ UnderWay(u, Opener) /\ NoneUnderWay(queue[u], Tail(answers[u]), Opener)
      /\ answers' = [answers EXCEPT ![u] = Tail(answers[u])]
  BY <1>1, AnswerAwaited
<1>3. /\ opening' = [opening EXCEPT ![u] = "no"] /\ captured' = [captured EXCEPT ![u] = FALSE]
      /\ waiters' = [waiters EXCEPT ![u] = <<>>]
  BY <1>1 DEF OpeningOver
<1>4. /\ opening \in [Users -> {"no", "decrypting", "requested"}] /\ captured \in [Users -> BOOLEAN]
      /\ waiters \in [Users -> Seq(Tasks)] /\ task \in [Tasks -> TaskType]
      /\ queue \in [Users -> Seq(RequestType)] /\ answers \in [Users -> Seq(AnswerType)]
  BY DEF CallsInv, ApiTypes, WorkerTypes
<1>5. \A t \in Range(w) : t \in Tasks /\ t # Opener /\ task[t].pc = "waiting" /\ task[t].user = u
  BY LineFact
<1>6. \A v \in Users : IF v = u THEN opening'[v] = "no" /\ ~captured'[v]
                       ELSE /\ opening'[v] = opening[v] /\ captured'[v] = captured[v]
                            /\ waiters'[v] = waiters[v] /\ answers'[v] = answers[v]
  BY <1>2, <1>3, <1>4
<1>7. LineInv'
  BY <1>6 DEF FinalInv, LineInv
<1>8. GoneInv'
  BY <1>1, <1>6 DEF FinalInv, GoneInv
\* Nothing that was asked is asked for a task in line, and no session.open of u is left.
<1>9. ASSUME NEW v \in Users, NEW i \in DOMAIN queue[v]
      PROVE  /\ queue[v][i].to \in Awaiting /\ queue[v][i].to \notin Range(w)
             /\ queue[v][i].to = Opener => v # u
  <2> DEFINE to == queue[v][i].to
  <2>1. to \in Awaiting
    BY DEF FinalInv, MeantInv, Meant
  <2>2. UnderWay(v, to)
    <3>1. ~NoneUnderWay(queue[v], answers[v], to)
      BY DEF NoneUnderWay, Unasked
    <3>2. QED
      BY <2>1, <3>1 DEF CallsInv, UnderWayInv
  <2>3. to \notin Range(w)
    BY <1>5, <2>2 DEF UnderWay
  <2>4. to = Opener => v # u
    BY <1>2 DEF NoneUnderWay, Unasked
  <2>5. QED
    BY <2>1, <2>3, <2>4
<1>10. CASE Result(u) # "ok"
  <2>1. /\ opened' = opened /\ queue' = queue
        /\ task' = [t \in Tasks |-> IF t \in Range(w) THEN Idle ELSE task[t]]
    BY <1>10 DEF OpenAnswered, OpeningFailed
  <2> HIDE DEF w
  <2>2. \A t \in Tasks : task'[t] = IF t \in Range(w) THEN Idle ELSE task[t]
    BY <2>1
  <2>3. MeantInv'
    <3> SUFFICES ASSUME NEW v \in Users, NEW i \in DOMAIN queue[v]
                 PROVE  Meant(queue[v][i], captured'[v], task')
      BY <2>1 DEF MeantInv
    <3>1. Meant(queue[v][i], captured[v], task)
      BY DEF FinalInv, MeantInv
    <3>2. queue[v][i].to = Opener => captured'[v] = captured[v]
      BY <1>6, <1>9
    <3>3. queue[v][i].to # Opener => task'[queue[v][i].to] = task[queue[v][i].to]
      BY <1>9, <2>2 DEF Awaiting
    <3>4. QED
      BY <3>1, <3>2, <3>3 DEF Meant
  <2>4. ~OpenedOn(u)
    <3> DEFINE a == answers[u]
    <3>1. /\ a \in Seq(AnswerType) /\ a # <<>> /\ Head(a).request.to = Opener /\ Head(a).result # "ok"
      BY <1>1, <1>4, <1>10 DEF AnswerTo, Result
    <3>2. OneUnderWay(queue[u], a, Opener)
      BY <1>1, <1>2 DEF CallsInv, UnderWayInv
    <3> HIDE DEF a
    <3>3. Head(a) = a[1] /\ 1 \in DOMAIN a
      <4>1. Len(a) \in Nat \ {0} /\ DOMAIN a = 1 .. Len(a)
        BY <3>1, LenProperties, EmptySeq
      <4>2. QED
        BY <3>1, <4>1, HeadTailProperties
    <3>4. \A i \in DOMAIN a : a[i].request.to = Opener => i = 1
      BY <3>1, <3>2, <3>3 DEF OneUnderWay, Unanswered, AnsweredOnce
    <3>5. QED
      BY <3>1, <3>3, <3>4 DEF OpenedOn, a
  <2>5. KnownInv'
    BY <1>1, <1>6, <2>1, <2>4 DEF FinalInv, KnownInv, OpenedOn
  <2>6. ClosedInv' /\ LoginInv'
    BY <1>1, <2>1, <2>2, TaskDone DEF FinalInv, ClosedInv, LoginInv
  <2>7. QED
    BY <1>7, <1>8, <2>3, <2>5, <2>6 DEF FinalInv
<1>11. CASE Result(u) = "ok"
  <2> DEFINE r == [i \in DOMAIN w |-> Requested(w[i], task[w[i]].kind)]
             q == queue[u]
             p == q \o r
  <2>1. /\ opened' = opened \cup {u} /\ queue' = [queue EXCEPT ![u] = p]
        /\ task' = [t \in Tasks |->
             IF t \in Range(w) THEN [task[t] EXCEPT !.pc = "requested"] ELSE task[t]]
    BY <1>4, <1>11 DEF OpenAnswered, OpeningSucceeded
  <2>2. r \in Seq(RequestType) /\ Len(r) = Len(w) /\ w \in Seq(Tasks) /\ q \in Seq(RequestType)
    BY <1>4, LineAsks
  <2>3. \A i \in DOMAIN w : InLine(u, task[w[i]]) /\ w[i] \in Range(w)
    <3>1. DOMAIN w = 1 .. Len(w)
      BY <2>2, LenProperties
    <3>2. QED
      BY <3>1 DEF CallsInv, WaitingInv, Range
  <2>4. \A i \in DOMAIN r : r[i] = Requested(w[i], task[w[i]].kind) /\ i \in DOMAIN w
    OBVIOUS
  <2>5. p = q \o r
    OBVIOUS
  <2> HIDE DEF r, p, q, w
  <2>6. \A i \in DOMAIN p : (\E j \in DOMAIN q : p[i] = q[j]) \/ (\E j \in DOMAIN r : p[i] = r[j])
    <3>1. /\ Len(p) = Len(q) + Len(r) /\ p \in Seq(RequestType)
          /\ \A i \in 1 .. Len(q) + Len(r) : p[i] = IF i <= Len(q) THEN q[i] ELSE r[i - Len(q)]
      BY <2>2, <2>5, ConcatProperties
    <3>2. /\ Len(q) \in Nat /\ Len(r) \in Nat /\ DOMAIN q = 1 .. Len(q) /\ DOMAIN r = 1 .. Len(r)
          /\ DOMAIN p = 1 .. Len(p)
      BY <2>2, <3>1, LenProperties
    <3> SUFFICES ASSUME NEW i \in 1 .. Len(q) + Len(r)
                 PROVE  (\E j \in DOMAIN q : p[i] = q[j]) \/ (\E j \in DOMAIN r : p[i] = r[j])
      BY <3>1, <3>2
    <3>3. CASE i <= Len(q)
      BY <3>1, <3>2, <3>3
    <3>4. CASE ~(i <= Len(q))
      <4>1. i - Len(q) \in DOMAIN r
        BY <3>2, <3>4
      <4>2. QED
        BY <3>1, <3>4, <4>1
    <3>5. QED
      BY <3>3, <3>4
  <2>7. \A t \in Tasks : t \notin Range(w) => task'[t] = task[t]
    BY <2>1
  <2>8. \A t \in Tasks : /\ task'[t].kind = task[t].kind /\ task'[t].user = task[t].user
                         /\ t \in Range(w) => task[t].pc = "waiting"
    <3> SUFFICES ASSUME NEW t \in Tasks
                 PROVE  task'[t].kind = task[t].kind /\ task'[t].user = task[t].user
      BY <1>5
    <3>1. task'[t] = [task[t] EXCEPT !.pc = "requested"] \/ task'[t] = task[t]
      BY <2>1
    <3>2. task[t] \in TaskType
      BY <1>4
    <3>3. QED
      BY <3>1, <3>2 DEF TaskType
  <2>9. \A v \in Users : queue'[v] = IF v = u THEN p ELSE queue[v]
    BY <1>4, <2>1
  <2>10. ASSUME NEW v \in Users, NEW i \in DOMAIN queue[v]
         PROVE  Meant(queue[v][i], captured'[v], task')
    <3>1. Meant(queue[v][i], captured[v], task)
      BY DEF FinalInv, MeantInv
    <3>2. queue[v][i].to = Opener => captured'[v] = captured[v]
      BY <1>6, <1>9
    <3>3. queue[v][i].to # Opener => task'[queue[v][i].to].kind = task[queue[v][i].to].kind
      BY <1>9, <2>8 DEF Awaiting
    <3>4. QED
      BY <3>1, <3>2, <3>3 DEF Meant
  <2>11. ASSUME NEW i \in DOMAIN r
         PROVE  Meant(r[i], captured'[u], task')
    <3>1. /\ InLine(u, task[w[i]]) /\ w[i] \in Tasks /\ w[i] # Opener
          /\ r[i].to = w[i] /\ r[i].op = task[w[i]].kind
      BY <1>5, <2>3, <2>4 DEF Requested, Request, w
    <3>2. task'[w[i]].kind = task[w[i]].kind /\ task[w[i]].kind # "logout"
      BY <2>8, <3>1 DEF InLine
    <3>3. QED
      BY <3>1, <3>2 DEF Meant, Awaiting, Asks
  <2>12. MeantInv'
    <3> SUFFICES ASSUME NEW v \in Users, NEW i \in DOMAIN queue'[v]
                 PROVE  Meant(queue'[v][i], captured'[v], task')
      BY DEF MeantInv
    <3>1. CASE v # u
      BY <2>9, <2>10, <3>1
    <3>2. CASE v = u
      BY <2>6, <2>9, <2>10, <2>11, <3>2 DEF q
    <3>3. QED
      BY <3>1, <3>2
  <2>13. KnownInv'
    BY <1>1, <1>6, <2>1 DEF FinalInv, KnownInv, OpenedOn
  <2>14. ClosedInv'
    <3> SUFFICES ASSUME NEW t \in Tasks, task'[t].pc = "requested", task'[t].kind = "logout",
                        Unasked(queue'[task'[t].user], t)
                 PROVE  session'[task'[t].user] = "absent"
      BY DEF ClosedInv
    <3>1. t \notin Range(w)
      BY <1>5, <2>2, <2>3, <2>8 DEF Range, InLine
    <3>2. task'[t] = task[t] /\ task[t].user \in Users
      BY <2>7, <3>1 DEF CodeInv
    <3>3. FALSE
      <4>1. opening[u] = "no"
        BY <3>2, Sole
      <4>2. QED
        BY <1>2, <4>1 DEF UnderWay
    <3>4. QED
      BY <3>3
  <2>15. LoginInv'
    BY <1>1, <2>7, <2>8 DEF FinalInv, LoginInv
  <2>16. QED
    BY <1>7, <1>8, <2>12, <2>13, <2>14, <2>15 DEF FinalInv
<1>12. QED
  BY <1>10, <1>11

\* The answer to the only task: nothing is asked any more.
LEMMA SoleAnswered ==
  ASSUME Alone, CallsInv, FinalInv, NEW t \in Tasks, NEW u \in Users, AnswerTo(u, t), Received(u)
  PROVE  /\ task[t].pc = "requested" /\ task[t].user = u /\ Unasked(queue[u], t)
         /\ \A v \in Users : /\ session[v] # "absent" => v \in opened
                             /\ \A i \in DOMAIN queue[v] : FALSE
<1>1. t \in Awaiting /\ t # Opener
  BY AddressesOut DEF Awaiting
<1>2. UnderWay(u, t) /\ NoneUnderWay(queue[u], Tail(answers[u]), t)
  BY <1>1, AnswerAwaited
<1>3. task[t].pc = "requested" /\ task[t].user = u /\ Unasked(queue[u], t)
  BY <1>1, <1>2 DEF UnderWay, NoneUnderWay
<1>4. \A v \in Users : session[v] # "absent" => v \in opened
  BY <1>3, Sole
<1>5. \A v \in Users : \A i \in DOMAIN queue[v] : queue[v][i].to = t /\ v = u
  BY <1>3, Sole
<1>6. QED
  BY <1>3, <1>4, <1>5 DEF Unasked

LEMMA FinalOperationAnswered ==
  ASSUME Alone, CallsInv, FinalInv, NEW t \in Tasks, NEW u \in Users, OperationAnswered(t, u)
  PROVE  FinalInv'
<1> DEFINE saves == task[t].kind = "code" /\ Result(u) = "authenticated"
<1>1. /\ AnswerTo(u, t) /\ Received(u) /\ task \in [Tasks -> TaskType]
      /\ task' = [task EXCEPT ![t] = IF saves THEN [task[t] EXCEPT !.pc = "saving"] ELSE Idle]
      /\ UNCHANGED <<opened, opening, captured, waiters, stored, queue, session, signedOut>>
  BY DEF OperationAnswered, db, CallsInv, ApiTypes
<1>2. \A v \in Users : /\ session[v] # "absent" => v \in opened
                       /\ \A i \in DOMAIN queue[v] : FALSE
  BY <1>1, SoleAnswered
<1>3. task[t].pc = "requested"
  BY <1>1, SoleAnswered
<1> HIDE DEF saves
<1>4. /\ task'[t].pc # "requested"
      /\ task'[t].pc # "idle" => task'[t].kind = task[t].kind /\ task'[t].user = task[t].user
  <2>1. CASE saves
    <3>1. task'[t] = [task[t] EXCEPT !.pc = "saving"] /\ task[t] \in TaskType
      BY <1>1, <2>1
    <3>2. QED
      BY <3>1 DEF TaskType
  <2>2. CASE ~saves
    BY <1>1, <2>2, TaskDone
  <2>3. QED
    BY <2>1, <2>2
<1>5. LineInv' /\ GoneInv'
  BY <1>1 DEF FinalInv, LineInv, GoneInv
<1>6. MeantInv'
  BY <1>1, <1>2 DEF MeantInv
<1>7. KnownInv'
  BY <1>1, <1>2 DEF KnownInv
<1>8. ClosedInv'
  BY <1>4 DEF Alone, ClosedInv
<1>9. LoginInv'
  BY <1>1, <1>3, <1>4 DEF Alone, FinalInv, LoginInv
<1>10. QED
  BY <1>5, <1>6, <1>7, <1>8, <1>9 DEF FinalInv

LEMMA FinalLogoutAnswered ==
  ASSUME Alone, CallsInv, FinalInv, TableInv, NEW t \in Tasks, NEW u \in Users, LogoutAnswered(t, u)
  PROVE  FinalInv'
<1>1. /\ AnswerTo(u, t) /\ Received(u) /\ task[t].kind = "logout" /\ task' = [task EXCEPT ![t] = Idle]
      /\ UNCHANGED <<opening, captured, waiters, queue, session>>
      /\ LoggedOut(u) \/ UNCHANGED <<opened, stored, signedOut>>
  BY DEF LogoutAnswered, db
<1>2. \A v \in Users : /\ session[v] # "absent" => v \in opened
                       /\ \A i \in DOMAIN queue[v] : FALSE
  BY <1>1, SoleAnswered
<1>3. task[t].pc = "requested" /\ task[t].user = u /\ Unasked(queue[u], t)
  BY <1>1, SoleAnswered
<1>4. task'[t].pc = "idle"
  BY <1>1, TaskDone DEF CallsInv, ApiTypes
<1>5. CASE LoggedOut(u)
  <2>1. session[u] = "absent"
    BY <1>1, <1>3 DEF FinalInv, ClosedInv
  <2>2. QED
    BY <1>1, <1>2, <1>3, <1>4, <1>5, <2>1, FinalLoggedOut
<1>6. CASE UNCHANGED <<opened, stored, signedOut>>
  <2>1. LineInv' /\ GoneInv'
    BY <1>1, <1>6 DEF FinalInv, LineInv, GoneInv
  <2>2. MeantInv' /\ KnownInv'
    BY <1>1, <1>2, <1>6 DEF MeantInv, KnownInv
  <2>3. ClosedInv' /\ LoginInv'
    BY <1>4 DEF Alone, ClosedInv, LoginInv
  <2>4. QED
    BY <2>1, <2>2, <2>3 DEF FinalInv
<1>7. QED
  BY <1>1, <1>5, <1>6

LEMMA FinalLateAnswer ==
  ASSUME CallsInv, FinalInv, NEW u \in Users, LateAnswer(u)
  PROVE  FinalInv'
<1> DEFINE a == answers[u]
<1>1. /\ UNCHANGED <<opened, opening, captured, waiters, task, stored, queue, session, signedOut>>
      /\ answers' = [answers EXCEPT ![u] = Tail(a)] /\ answers \in [Users -> Seq(AnswerType)]
      /\ a \in Seq(AnswerType) /\ a # <<>> /\ Head(a).request.to = Nobody
  BY DEF LateAnswer, AnswerTo, Received, api, db, CallsInv, WorkerTypes
<1>2. \A v \in Users : answers'[v] = IF v = u THEN Tail(a) ELSE answers[v]
  BY <1>1
<1>3. ASSUME NEW i \in DOMAIN a, a[i].request.to = Opener
      PROVE  \E j \in DOMAIN Tail(a) : Tail(a)[j] = a[i]
  <2> HIDE DEF a
  <2>1. /\ Head(a) = a[1] /\ DOMAIN a = 1 .. Len(a) /\ Len(a) \in Nat \ {0}
        /\ DOMAIN Tail(a) = 1 .. Len(a) - 1 /\ \A j \in 1 .. Len(a) - 1 : Tail(a)[j] = a[j + 1]
    BY <1>1, HeadTailProperties, LenProperties, EmptySeq
  <2>2. i # 1
    BY <1>1, <1>3, <2>1, AddressesOut
  <2>3. i - 1 \in DOMAIN Tail(a) /\ Tail(a)[i - 1] = a[i]
    BY <2>1, <2>2
  <2>4. QED
    BY <2>3
<1>4. \A v \in Users : OpenedOn(v) => \E j \in DOMAIN answers'[v] :
        answers'[v][j].request.to = Opener /\ answers'[v][j].result = "ok"
  BY <1>2, <1>3 DEF OpenedOn
<1>5. KnownInv'
  BY <1>1, <1>4 DEF FinalInv, KnownInv, OpenedOn
<1>6. LineInv' /\ MeantInv' /\ ClosedInv' /\ LoginInv' /\ GoneInv'
  BY <1>1 DEF FinalInv, LineInv, MeantInv, ClosedInv, LoginInv, GoneInv
<1>7. QED
  BY <1>5, <1>6 DEF FinalInv

LEMMA FinalWorkerRestart ==
  ASSUME CallsInv, FinalInv, CodeInv, WorkerRestart
  PROVE  FinalInv'
<1>1. /\ session' = [u \in Users |-> "absent"] /\ queue' = [u \in Users |-> <<>>]
      /\ opening' = [u \in Users |-> IF opening[u] = "requested" THEN "no" ELSE opening[u]]
      /\ captured' = [u \in Users |-> opening[u] = "decrypting" /\ captured[u]]
      /\ waiters' = [u \in Users |-> IF opening[u] = "requested" THEN <<>> ELSE waiters[u]]
      /\ UNCHANGED <<opened, stored, signedOut>>
  BY DEF WorkerRestart, db
<1>2. \A t \in Tasks : task'[t] = task[t] \/ task'[t].pc = "idle"
  BY TaskDone DEF WorkerRestart
<1>3. \A u \in Users : /\ opening'[u] = (IF opening[u] = "requested" THEN "no" ELSE opening[u])
                       /\ captured'[u] <=> opening[u] = "decrypting" /\ captured[u]
                       /\ waiters'[u] = IF opening[u] = "requested" THEN <<>> ELSE waiters[u]
  BY <1>1
<1>4. LineInv'
  <2> SUFFICES ASSUME NEW u \in Users
               PROVE  /\ opening'[u] # "no" => waiters'[u] # <<>>
                      /\ opening'[u] = "no" => ~captured'[u]
    BY DEF LineInv
  <2>1. opening[u] # "no" => waiters[u] # <<>>
    BY DEF FinalInv, LineInv
  <2>2. opening'[u] = "no" => ~captured'[u]
    BY <1>3
  <2>3. QED
    BY <1>3, <2>1, <2>2
<1>5. MeantInv'
  <2>1. \A u \in Users : DOMAIN queue'[u] = {}
    BY <1>1
  <2>2. QED
    BY <2>1 DEF MeantInv
<1>6. KnownInv'
  BY <1>1 DEF KnownInv
<1>7. \A t \in Tasks : task'[t].pc # "idle" => task'[t] = task[t] /\ task[t].user \in Users
  BY <1>2 DEF CodeInv
<1>8. ClosedInv'
  BY <1>1, <1>7 DEF ClosedInv
<1>9. LoginInv'
  BY <1>1, <1>7 DEF FinalInv, LoginInv
<1>10. GoneInv'
  BY <1>1, <1>3 DEF FinalInv, GoneInv
<1>11. QED
  BY <1>4, <1>5, <1>6, <1>8, <1>9, <1>10 DEF FinalInv

LEMMA FinalInitially == Init => FinalInv
<1> SUFFICES ASSUME Init PROVE FinalInv
  OBVIOUS
<1>1. /\ opening = [u \in Users |-> "no"] /\ captured = [u \in Users |-> FALSE]
      /\ task = [t \in Tasks |-> Idle] /\ queue = [u \in Users |-> <<>>]
      /\ session = [u \in Users |-> "absent"] /\ signedOut = [u \in Users |-> FALSE]
  BY DEF Init
<1>2. \A t \in Tasks : task[t].pc = "idle"
  BY <1>1, TaskDone
<1>3. \A u \in Users : DOMAIN queue[u] = {}
  BY <1>1
<1>4. QED
  BY <1>1, <1>2, <1>3 DEF FinalInv, LineInv, MeantInv, KnownInv, ClosedInv, LoginInv, GoneInv

LEMMA FinalInductive ==
  ASSUME Alone, NothingGivenUp, CallsInv, FinalInv, CodeInv, TableInv, [Next]_vars
  PROVE  FinalInv'
<1>1. CASE UNCHANGED vars
  BY <1>1 DEF vars, FinalInv, LineInv, MeantInv, KnownInv, OpenedOn, ClosedInv, LoginInv, GoneInv
<1>2. CASE \E t \in Tasks, u \in Users, kind \in Kinds : Call(t, u, kind)
  BY <1>2, FinalCallOpened, FinalCallUnopened DEF Call
<1>3. CASE \E t \in Tasks, u \in Users : Logout(t, u)
  BY <1>3, FinalLogout
<1>4. CASE \E u \in Users : RequestOpen(u)
  BY <1>4, FinalRequestOpen
<1>5. CASE \E t \in Tasks : Saved(t)
  BY <1>5, FinalSaved
<1>6. CASE \E u \in Users : \E i \in DOMAIN queue[u] : Execute(u, i)
  BY <1>6, FinalExecute
<1>7. ASSUME NEW u \in Users, Deliver(u) PROVE FinalInv'
  BY <1>7, FinalOpenAnswered, FinalOperationAnswered, FinalLogoutAnswered, FinalLateAnswer DEF Deliver
<1>8. CASE \E u \in Users : QrConfirmed(u) \/ ChromiumCrash(u)
  BY <1>8, FinalSession
<1>9. CASE \/ \E t \in Tasks : RequestTimeout(t)
           \/ \E u \in Users : OpenTimeout(u)
           \/ ApiRestart
  BY <1>9 DEF RequestTimeout, OpenTimeout, ApiRestart, Fault, NothingGivenUp
<1>10. CASE WorkerRestart
  BY <1>10, FinalWorkerRestart
<1>11. QED
  BY <1>1, <1>2, <1>3, <1>4, <1>5, <1>6, <1>7, <1>8, <1>9, <1>10 DEF Next

(* With one call at a time, none of them given up by a timeout or by a     *)
(* restart of the API, a logout is final whatever else fails: until the    *)
(* user logs in again, nothing is stored and the worker holds no session   *)
(* that is authenticated.                                                  *)
THEOREM AloneLogoutFinal == ASSUME Alone, NothingGivenUp PROVE Spec => []LogoutFinal
<1>1. Init => BoundInv /\ FinalInv
  BY BoundInitially, FinalInitially
<1>2. SessionsInv /\ BoundInv /\ FinalInv /\ [Next]_vars => BoundInv' /\ FinalInv'
  <2> SUFFICES ASSUME SessionsInv, BoundInv, FinalInv, [Next]_vars PROVE BoundInv' /\ FinalInv'
    OBVIOUS
  <2>1. CallsInv /\ TableInv /\ CodeInv
    BY DEF SessionsInv, BoundInv
  <2>2. QED
    BY <2>1, BoundInductive, FinalInductive
<1>3. FinalInv => LogoutFinal
  BY DEF FinalInv, GoneInv, LogoutFinal
<1>4. QED
  BY <1>1, <1>2, <1>3, SessionsInvariant, PTL DEF Spec

=============================================================================
