-------------------------- MODULE PageSessionProofs --------------------------
(***************************************************************************)
(* Safety of the worker's MAX page session and of its wire client, for any *)
(* number of chats, operations and losses and any band of numbers that is  *)
(* wider than what one step calls.                                         *)
(***************************************************************************)
EXTENDS PageSession, SequenceTheorems, TLAPS

-----------------------------------------------------------------------------
(* Numbers that go round a band.                                           *)

LEMMA Quotient ==
  ASSUME NEW x \in Nat, NEW B \in Nat \ {0},
         NEW q \in Int, NEW r \in Int, q = x \div B, r = x % B
  PROVE  x = B * q + r /\ r \in 0 .. B - 1
BY SMTT(60)

LEMMA Division ==
  ASSUME NEW x \in Nat, NEW B \in Nat \ {0}
  PROVE  \E q \in Int : \E r \in 0 .. B - 1 : x = B * q + r /\ x % B = r
<1>1. x \div B \in Int /\ x % B \in Int
  OBVIOUS
<1> DEFINE q == x \div B  r == x % B
<1>2. q \in Int /\ r \in Int /\ q = x \div B /\ r = x % B
  BY <1>1
<1> HIDE DEF q, r
<1>3. x = B * q + r /\ r \in 0 .. B - 1
  BY <1>2, Quotient
<1>4. QED
  BY <1>2, <1>3

LEMMA QuotientUnique ==
  ASSUME NEW B \in Nat \ {0}, NEW p \in Int, NEW q \in Int, NEW r \in 0 .. B - 1, NEW x \in Int, NEW y \in Int,
         x = B * p + r, y = B * q + r, x - y < B, y - x < B
  PROVE  x = y
<1>1. p - q < 1
  BY SMTT(60)
<1>2. q - p < 1
  BY SMTT(60)
<1>3. QED
  BY <1>1, <1>2

LEMMA ModUnique ==
  ASSUME NEW x \in Nat, NEW y \in Nat, NEW B \in Nat \ {0}, x % B = y % B, x - y < B, y - x < B
  PROVE  x = y
<1>1. PICK p \in Int, r \in 0 .. B - 1 : x = B * p + r /\ x % B = r
  BY Division
<1>2. PICK q \in Int, s \in 0 .. B - 1 : y = B * q + s /\ y % B = s
  BY Division
<1>3. x = B * p + r /\ y = B * q + r /\ x \in Int /\ y \in Int /\ x - y < B /\ y - x < B
  BY <1>1, <1>2
<1>4. QED
  BY <1>3, QuotientUnique, Zenon

LEMMA ModShift ==
  ASSUME NEW B \in Nat \ {0}, NEW q \in Int, NEW r \in Nat, NEW m \in Nat, m = B * q + r
  PROVE  m % B = r % B
<1>1. PICK p \in Int, s \in 0 .. B - 1 : r = B * p + s /\ r % B = s
  BY Division
<1>2. PICK t \in Int, u \in 0 .. B - 1 : m = B * t + u /\ m % B = u
  BY Division
<1>4. B * (q + p - t) = u - s
  BY <1>1, <1>2
<1>3. q + p - t = 0
  BY <1>4, SMTT(60)
<1>5. QED
  BY <1>1, <1>2, <1>3, <1>4

LEMMA ModAdd ==
  ASSUME NEW m \in Nat, NEW k \in Nat, NEW B \in Nat \ {0}
  PROVE ((m % B) + k) % B = (m + k) % B
<1>1. PICK q \in Int, r \in 0 .. B - 1 : m = B * q + r /\ m % B = r
  BY Division
<1>2. m + k = B * q + (r + k) /\ r + k \in Nat
  BY <1>1
<1>3. (m + k) % B = (r + k) % B
  <2>1. m + k \in Nat
    OBVIOUS
  <2>2. QED
    BY <1>2, <2>1, ModShift, Zenon
<1>4. QED
  BY <1>1, <1>3

LEMMA BandFact == Band \in Nat \ {0} /\ Band >= 3
BY PageAssumption

-----------------------------------------------------------------------------
(* PageSession.  That pendingSend belongs to the running send rests on the *)
(* order of the steps of every operation: a send sets it in the step       *)
(* before the message is typed, types it in the next ones and waits for it *)
(* in its last, and what a step puts in front of the others neither sends  *)
(* nor leaves the page.                                                    *)

StepName == {"viewer", "readChats", "describe", "replaceChats", "known", "reachable", "resolved",
             "openHistory", "evaluate", "countComments", "try", "reload", "ready", "readMessages",
             "activate", "menu", "click", "arm", "attach", "enter", "confirm", "media", "fetch",
             "background", "found", "call"}
Opcodes  == {o \in Seq(Nat) : Len(o) <= 3}
Step     == [do : StepName, opcodes : Opcodes, must : BOOLEAN]
Opens == {"arm", "attach", "enter"}       \* steps that another step of the send follows
Armed == {"attach", "enter", "confirm"}   \* steps that follow one
Moves == {"reload", "background"}         \* steps that leave the chat

\* Steps without a part of a send.
Sendless(s) == \A i \in DOMAIN s : s[i].do \notin Opens \cup Armed

\* Steps another one may be replaced with.
Plain(s) == s \in Seq(Step) /\ \A i \in DOMAIN s : s[i].do \notin Opens \cup Armed \cup Moves

\* The steps of a send follow each other, and its operation does not leave the page.
Ordered(s) ==
  /\ \A i \in DOMAIN s : s[i].do \in Opens <=> i + 1 \in DOMAIN s /\ s[i + 1].do \in Armed
  /\ \A i, k \in DOMAIN s : s[i].do \in Opens => s[k].do \notin Moves

\* Every send is preceded by the step that shows its chat.
Shown(s) ==
  \A i \in DOMAIN s : s[i].do \in Opens => \E j \in 1 .. i - 1 : s[j].do = "activate"

\* What an operation starts with: no step of a send is left over from another.
Whole(s) ==
  /\ s \in Seq(Step) /\ Ordered(s) /\ Shown(s)
  /\ s # <<>> => s[1].do \notin Armed

LEMMA StepFact ==
  /\ \A what \in StepName : Do(what) \in Step /\ Do(what).do = what
  /\ \A o \in Opcodes : Ask(o) \in Step /\ Ask(o).do = "call"
  /\ \A n \in Nat : Must(n) \in Step /\ Must(n).do = "call"
<1>1. <<>> \in Opcodes /\ \A n \in Nat : <<n>> \in Opcodes
  BY DEF Opcodes
<1>2. \A what \in StepName : Do(what) \in Step /\ Do(what).do = what
  BY <1>1 DEF Do, Step
<1>3. \A o \in Opcodes : Ask(o) \in Step /\ Ask(o).do = "call"
  <2> TAKE o \in Opcodes
  <2>1. Ask(o) = [do |-> "call", opcodes |-> o, must |-> FALSE]
    BY DEF Ask
  <2>2. QED
    BY <2>1 DEF Step, StepName
<1>4. \A n \in Nat : Must(n) \in Step /\ Must(n).do = "call"
  <2> TAKE n \in Nat
  <2>1. Must(n) = [do |-> "call", opcodes |-> <<n>>, must |-> TRUE]
    BY DEF Must
  <2>2. QED
    BY <1>1, <2>1 DEF Step, StepName
<1>5. QED
  BY <1>2, <1>3, <1>4

LEMMA PlainOne ==
  ASSUME NEW e \in Step, e.do \notin Opens \cup Armed \cup Moves
  PROVE  Plain(<<e>>)
BY DEF Plain

LEMMA PlainConcat ==
  ASSUME NEW s, NEW t, Plain(s), Plain(t)
  PROVE  Plain(s \o t)
<1>1. /\ s \in Seq(Step) /\ t \in Seq(Step) /\ Len(s) \in Nat /\ Len(t) \in Nat
      /\ DOMAIN s = 1 .. Len(s) /\ DOMAIN t = 1 .. Len(t)
  BY LenProperties DEF Plain
<1>2. /\ s \o t \in Seq(Step) /\ Len(s \o t) = Len(s) + Len(t)
      /\ \A i \in 1 .. Len(s) + Len(t) : (s \o t)[i] = IF i <= Len(s) THEN s[i] ELSE t[i - Len(s)]
  BY <1>1, ConcatProperties
<1>3. DOMAIN (s \o t) = 1 .. Len(s) + Len(t)
  BY <1>1, <1>2, LenProperties
<1>4. \A i \in 1 .. Len(s) + Len(t) :
        \/ i \in DOMAIN s /\ (s \o t)[i] = s[i]
        \/ i - Len(s) \in DOMAIN t /\ (s \o t)[i] = t[i - Len(s)]
  BY <1>1, <1>2
<1>5. QED
  BY <1>2, <1>3, <1>4 DEF Plain

LEMMA SendlessWhole ==
  ASSUME NEW s \in Seq(Step), Sendless(s)
  PROVE  Whole(s)
<1>1. Len(s) \in Nat /\ DOMAIN s = 1 .. Len(s) /\ (s # <<>> => Len(s) # 0)
  BY LenProperties, EmptySeq
<1>2. s # <<>> => s[1].do \notin Armed
  BY <1>1 DEF Sendless
<1>3. QED
  BY <1>2 DEF Sendless, Whole, Ordered, Shown

LEMMA PlainSendless ==
  ASSUME NEW s, Plain(s)
  PROVE  s \in Seq(Step) /\ Sendless(s)
BY DEF Plain, Sendless

-----------------------------------------------------------------------------
(* The operations. *)

LEMMA PlainAsk ==
  ASSUME NEW o \in Opcodes
  PROVE  Plain(<<Ask(o)>>)
BY StepFact, PlainOne DEF Opens, Armed, Moves

LEMMA PlainMust ==
  ASSUME NEW n \in Nat
  PROVE  Plain(<<Must(n)>>)
BY StepFact, PlainOne DEF Opens, Armed, Moves

LEMMA PlainDo ==
  ASSUME NEW what \in StepName, what \notin Opens \cup Armed \cup Moves
  PROVE  Plain(<<Do(what)>>)
BY StepFact, PlainOne

LEMMA PlainDoes ==
  \A what \in StepName \ (Opens \cup Armed \cup Moves) : Plain(<<Do(what)>>)
BY PlainDo

LEMMA PlainAsks ==
  /\ Plain(<<Ask(<<32, 35>>)>>) /\ Plain(<<Ask(<<48>>)>>) /\ Plain(<<Ask(<<60>>)>>)
  /\ Plain(<<Ask(<<32, 96, 36>>)>>) /\ Plain(<<Ask(<<57>>)>>) /\ Plain(<<Ask(<<58>>)>>)
  /\ Plain(<<Ask(<<32>>)>>) /\ Plain(<<Ask(<<50>>)>>) /\ Plain(<<Ask(<<91>>)>>)
<1>1. /\ <<32, 35>> \in Opcodes /\ <<48>> \in Opcodes /\ <<60>> \in Opcodes
      /\ <<32, 96, 36>> \in Opcodes /\ <<57>> \in Opcodes /\ <<58>> \in Opcodes
      /\ <<32>> \in Opcodes /\ <<50>> \in Opcodes /\ <<91>> \in Opcodes
  BY DEF Opcodes
<1>2. QED
  BY <1>1, PlainAsk, Zenon

LEMMA PlainTwo ==
  ASSUME NEW d \in Step, NEW e \in Step, {d.do, e.do} \cap (Opens \cup Armed \cup Moves) = {}
  PROVE  Plain(<<d, e>>)
BY DEF Plain

\* What the operations are put together from: reading the chats, a chat they need, its
\* messages, and a way to what they do with it.
LEMMA PlainParts ==
  /\ Plain(ListChats) /\ Plain(KnownChat) /\ Plain(ReachableChat) /\ Plain(ResolveChat)
  /\ Plain(DescribeRecipients) /\ Plain(ReadMessages) /\ Plain(OpenChatForActions)
  /\ Plain(WireHistory) /\ Plain(RenderedHistory) /\ Plain(OpenMessageMenu)
  /\ Plain(OpenChatMenu) /\ Plain(ClickMenuItem) /\ Plain(ConfirmDestructiveAction)
<1> USE DEF StepName, Opens, Armed, Moves
<1>1. Plain(ListChats)
  BY StepFact DEF ListChats, Plain
<1>2. Plain(KnownChat) /\ Plain(ReachableChat)
  BY <1>1, PlainDoes, PlainConcat DEF KnownChat, ReachableChat
<1>3. Plain(<<Do("viewer"), Ask(<<48>>), Do("resolved")>>)
  <2>0. <<48>> \in Opcodes
    BY DEF Opcodes
  <2>1. Ask(<<48>>) \in Step /\ Ask(<<48>>).do = "call"
    BY <2>0, StepFact, Zenon
  <2>2. QED
    BY <2>1, StepFact DEF Plain
<1>4. Plain(ResolveChat)
  BY <1>1, <1>3, PlainConcat DEF ResolveChat
<1>5. Plain(DescribeRecipients) /\ Plain(ReadMessages)
  BY PlainAsks, PlainDoes DEF DescribeRecipients, ReadMessages
<1>6. Plain(OpenChatForActions)
  <2>1. Plain(<<Do("activate")>>)
    BY PlainDoes
  <2>2. QED
    BY <1>2, <1>5, <2>1, PlainConcat DEF OpenChatForActions
<1>7. Plain(<<Do("evaluate")>>) /\ Plain(<<Do("openHistory")>>) /\ Plain(<<Do("viewer")>>)
      /\ Plain(<<Do("menu")>>) /\ Plain(<<Do("click")>>) /\ Plain(<<Do("countComments")>>)
  BY PlainDoes
<1>8. Plain(ReadChatWireContext) /\ Plain(ReadCommentCounts)
  BY <1>1, <1>7, PlainConcat DEF ReadChatWireContext, ReadCommentCounts
<1>9. Plain(WireHistory)
  <2>1. Plain(<<Must(49)>>)
    BY PlainMust
  <2>2. Plain(ReadChatWireContext \o <<Must(49)>>)
    BY <1>8, <2>1, PlainConcat, Zenon
  <2>3. Plain(ReadChatWireContext \o <<Must(49)>> \o ReadCommentCounts)
    BY <1>8, <2>2, PlainConcat, Zenon
  <2>4. QED
    BY <1>7, <2>3, PlainConcat, Zenon DEF WireHistory
<1>10. Plain(RenderedHistory)
  <2>1. Plain(<<Do("viewer")>> \o OpenChatForActions)
    BY <1>6, <1>7, PlainConcat, Zenon
  <2>2. Plain(<<Do("viewer")>> \o OpenChatForActions \o ReadMessages)
    BY <1>5, <2>1, PlainConcat, Zenon
  <2>3. QED
    BY <1>7, <2>2, PlainConcat, Zenon DEF RenderedHistory
<1>11. Plain(OpenMessageMenu) /\ Plain(ClickMenuItem) /\ Plain(ConfirmDestructiveAction)
  BY <1>5, <1>7, PlainConcat DEF OpenMessageMenu, ClickMenuItem, ConfirmDestructiveAction
<1>12. Plain(OpenChatMenu)
  BY <1>7, PlainTwo, StepFact DEF OpenChatMenu
<1>13. QED
  BY <1>1, <1>2, <1>4, <1>5, <1>6, <1>9, <1>10, <1>11, <1>12

\* The end of a send, whatever leads to it: with a chat shown before, it is a whole operation.
LEMMA SendWhole ==
  ASSUME NEW p, Plain(p), \E j \in DOMAIN p : p[j].do = "activate",
         NEW t \in Seq(Step), Len(t) \in {3, 4},
         t[1].do = "arm", t[Len(t) - 1].do = "enter", t[Len(t)].do = "confirm",
         Len(t) = 4 => t[2].do = "attach"
  PROVE  Whole(p \o t)
<1> DEFINE s == p \o t  n == Len(p)
<1>1. /\ p \in Seq(Step) /\ n \in Nat /\ DOMAIN p = 1 .. n /\ Len(t) \in Nat
      /\ \A i \in 1 .. n : p[i].do \notin Opens \cup Armed \cup Moves
  BY LenProperties DEF Plain
<1>2. /\ s \in Seq(Step) /\ Len(s) = n + Len(t)
      /\ \A i \in 1 .. n + Len(t) : s[i] = IF i <= n THEN p[i] ELSE t[i - n]
  BY <1>1, ConcatProperties
<1>3. DOMAIN s = 1 .. n + Len(t)
  BY <1>1, <1>2, LenProperties
<1> HIDE DEF s, n
<1>4. /\ \A i \in 1 .. n : s[i].do \notin Opens \cup Armed \cup Moves
      /\ s[n + 1].do = "arm"
      /\ Len(t) = 3 => s[n + 2].do = "enter" /\ s[n + 3].do = "confirm"
      /\ Len(t) = 4 => s[n + 2].do = "attach" /\ s[n + 3].do = "enter" /\ s[n + 4].do = "confirm"
  <2>1. \A i \in 1 .. Len(t) : s[n + i] = t[i]
    BY <1>1, <1>2
  <2>2. s[n + 1].do = "arm"
    BY <2>1
  <2>3. CASE Len(t) = 3
    BY <1>1, <1>2, <2>1, <2>2, <2>3
  <2>4. CASE Len(t) = 4
    BY <1>1, <1>2, <2>1, <2>2, <2>4
  <2>5. QED
    BY <2>3, <2>4
<1>5. Ordered(s)
  <2>1. \A i \in DOMAIN s : i \in 1 .. n \/ i - n \in 1 .. Len(t)
    BY <1>1, <1>3
  <2>2. \A k \in 1 .. Len(t) : s[n + k].do \notin Moves
                               /\ (s[n + k].do \in Opens <=> k # Len(t))
                               /\ (s[n + k].do \in Armed <=> k # 1)
    BY <1>4 DEF Opens, Armed, Moves
  <2>3. \A i \in DOMAIN s : s[i].do \notin Moves
    <3> TAKE i \in DOMAIN s
    <3>1. CASE i \in 1 .. n
      BY <1>4, <3>1
    <3>2. CASE i - n \in 1 .. Len(t)
      <4>1. s[n + (i - n)].do \notin Moves /\ n + (i - n) = i
        BY <1>1, <1>3, <2>2, <3>2
      <4>2. QED
        BY <4>1
    <3>3. QED
      BY <2>1, <3>1, <3>2
  <2>4. \A i \in DOMAIN s : s[i].do \in Opens <=> i + 1 \in DOMAIN s /\ s[i + 1].do \in Armed
    <3> TAKE i \in DOMAIN s
    <3>1. CASE i \in 1 .. n - 1
      BY <1>1, <1>3, <1>4, <3>1
    <3>2. CASE i = n
      BY <1>1, <1>3, <1>4, <3>2 DEF Armed
    <3>3. CASE i - n \in 1 .. Len(t)
      <4>1. PICK k \in 1 .. Len(t) : i = n + k
        BY <1>1, <1>3, <3>3
      <4>2. k # Len(t) => k + 1 \in 1 .. Len(t) /\ i + 1 = n + (k + 1)
        BY <1>1, <4>1
      <4>3. (i + 1 \in DOMAIN s) <=> k # Len(t)
        BY <1>1, <1>3, <4>1
      <4>4. k # Len(t) => (s[i + 1].do \in Armed <=> k + 1 # 1)
        BY <2>2, <4>2
      <4>5. QED
        BY <2>2, <4>1, <4>3, <4>4
    <3>4. QED
      BY <1>1, <2>1, <3>1, <3>2, <3>3
  <2>5. QED
    BY <2>3, <2>4 DEF Ordered
<1>6. Shown(s)
  <2>1. PICK j \in 1 .. n : p[j].do = "activate"
    BY <1>1
  <2>2. s[j].do = "activate"
    BY <1>1, <1>2, <2>1
  <2>3. ASSUME NEW i \in DOMAIN s, s[i].do \in Opens PROVE j \in 1 .. i - 1
    BY <1>1, <1>3, <1>4, <2>3
  <2>4. QED
    BY <2>2, <2>3 DEF Shown
<1>7. s # <<>> => s[1].do \notin Armed
  BY <1>1, <1>4 DEF Armed
<1>8. QED
  BY <1>2, <1>5, <1>6, <1>7 DEF Whole, s

LEMMA SendOperations == Whole(SendText) /\ Whole(SendReply) /\ Whole(SendAttachment)
<1> DEFINE Shows(p) == Plain(p) /\ \E j \in DOMAIN p : p[j].do = "activate"
           enter == <<Do("arm"), Do("enter"), Do("confirm")>>
           attach == (<<Do("arm")>> \o <<Do("attach")>>) \o <<Do("enter"), Do("confirm")>>
<1>1. ASSUME NEW p, NEW q, Shows(p), Plain(q) PROVE Shows(p \o q)
  <2>1. /\ p \in Seq(Step) /\ q \in Seq(Step) /\ Len(p) \in Nat /\ Len(q) \in Nat
        /\ DOMAIN p = 1 .. Len(p)
    BY <1>1, LenProperties DEF Plain
  <2>2. /\ p \o q \in Seq(Step) /\ Len(p \o q) = Len(p) + Len(q)
        /\ \A i \in 1 .. Len(p) + Len(q) : (p \o q)[i] = IF i <= Len(p) THEN p[i] ELSE q[i - Len(p)]
    BY <2>1, ConcatProperties
  <2>3. DOMAIN (p \o q) = 1 .. Len(p) + Len(q)
    BY <2>1, <2>2, LenProperties
  <2>4. \E j \in DOMAIN (p \o q) : (p \o q)[j].do = "activate"
    BY <1>1, <2>1, <2>2, <2>3
  <2>5. QED
    BY <1>1, <2>4, PlainConcat
<1>2. Shows(OpenChatForActions)
  <2>1. Plain(<<Do("activate")>>)
    BY PlainDoes DEF StepName, Opens, Armed, Moves
  <2>2. Plain(KnownChat \o ReadMessages)
    BY PlainParts, PlainConcat
  <2>3. Plain(KnownChat \o ReadMessages \o <<Do("activate")>>)
    BY <2>1, <2>2, PlainConcat
  <2>4. Shows(KnownChat \o ReadMessages \o <<Do("activate")>>)
    <3> DEFINE k == KnownChat \o ReadMessages
    <3>1. k \in Seq(Step) /\ Len(k) \in Nat /\ <<Do("activate")>> \in Seq(Step)
      BY <2>1, <2>2, LenProperties DEF Plain
    <3> HIDE DEF k
    <3>2. /\ Len(k \o <<Do("activate")>>) = Len(k) + 1
          /\ (k \o <<Do("activate")>>)[Len(k) + 1] = Do("activate")
          /\ DOMAIN (k \o <<Do("activate")>>) = 1 .. Len(k) + 1
      BY <3>1
    <3>3. (k \o <<Do("activate")>>)[Len(k) + 1].do = "activate"
      BY <3>2 DEF Do
    <3>4. \E j \in DOMAIN (k \o <<Do("activate")>>) : (k \o <<Do("activate")>>)[j].do = "activate"
      BY <3>1, <3>2, <3>3
    <3>5. QED
      BY <2>3, <3>4 DEF k
  <2>5. QED
    BY <1>1, <2>4, PlainParts DEF OpenChatForActions
<1> HIDE DEF Shows
<1>3. /\ enter \in Seq(Step) /\ Len(enter) = 3 /\ enter[1].do = "arm" /\ enter[2].do = "enter"
      /\ enter[3].do = "confirm"
  BY StepFact DEF StepName
<1>4. /\ attach \in Seq(Step) /\ Len(attach) = 4 /\ attach[1].do = "arm" /\ attach[2].do = "attach"
      /\ attach[3].do = "enter" /\ attach[4].do = "confirm"
  <2> DEFINE a == Do("arm") b == Do("attach") c == Do("enter") d == Do("confirm")
  <2>1. /\ a \in Step /\ b \in Step /\ c \in Step /\ d \in Step
        /\ a.do = "arm" /\ b.do = "attach" /\ c.do = "enter" /\ d.do = "confirm"
    BY StepFact DEF StepName
  <2> HIDE DEF a, b, c, d
  <2> DEFINE u == <<a>> \o <<b>>
  <2>2. u \in Seq(Step) /\ Len(u) = 2 /\ u[1] = a /\ u[2] = b
    BY <2>1
  <2> HIDE DEF u
  <2>3. /\ u \o <<c, d>> \in Seq(Step) /\ Len(u \o <<c, d>>) = 4
        /\ (u \o <<c, d>>)[1] = u[1] /\ (u \o <<c, d>>)[2] = u[2]
        /\ (u \o <<c, d>>)[3] = c /\ (u \o <<c, d>>)[4] = d
    <3>1. <<c, d>> \in Seq(Step) /\ Len(<<c, d>>) = 2 /\ <<c, d>>[1] = c /\ <<c, d>>[2] = d
      BY <2>1
    <3> DEFINE v == <<c, d>>
    <3> HIDE DEF v
    <3>2. /\ u \o v \in Seq(Step) /\ Len(u \o v) = Len(u) + Len(v)
          /\ \A i \in 1 .. Len(u) + Len(v) : (u \o v)[i] = IF i <= Len(u) THEN u[i] ELSE v[i - Len(u)]
      BY <2>2, <3>1, ConcatProperties DEF v
    <3>3. Len(v) = 2 /\ v[1] = c /\ v[2] = d
      BY <3>1 DEF v
    <3>4. QED
      BY <2>2, <3>2, <3>3 DEF v
  <2>4. QED
    BY <2>1, <2>2, <2>3 DEF u, a, b, c, d
<1> HIDE DEF enter, attach
<1>5. ASSUME NEW p, Shows(p) PROVE Whole(p \o enter) /\ Whole(p \o attach)
  <2>1. Plain(p) /\ \E j \in DOMAIN p : p[j].do = "activate"
    BY <1>5 DEF Shows
  <2>2. Whole(p \o enter)
    <3>1. Len(enter) - 1 = 2 /\ Len(enter) # 4
      BY <1>3
    <3>2. QED
      BY <1>3, <2>1, <3>1, SendWhole
  <2>3. Whole(p \o attach)
    <3>1. Len(attach) - 1 = 3
      BY <1>4
    <3>2. QED
      BY <1>4, <2>1, <3>1, SendWhole
  <2>4. QED
    BY <2>2, <2>3
<1>6. Whole(SendText)
  BY <1>2, <1>5 DEF SendText, enter
<1>7. Whole(SendReply)
  BY <1>1, <1>2, <1>5, PlainParts DEF SendReply, enter
<1>8. Whole(SendAttachment)
  <2>1. OpenChatForActions \in Seq(Step)
    BY PlainParts DEF Plain
  <2>2. SendAttachment = OpenChatForActions \o attach
    <3> DEFINE o == OpenChatForActions  a == Do("arm") b == Do("attach") c == Do("enter")
               d == Do("confirm")
    <3>1. a \in Step /\ b \in Step /\ c \in Step /\ d \in Step
      BY StepFact DEF StepName
    <3> HIDE DEF o, a, b, c, d
    <3>2. /\ <<a>> \in Seq(Step) /\ <<b>> \in Seq(Step) /\ <<a>> \o <<b>> \in Seq(Step)
          /\ <<c, d>> \in Seq(Step)
      BY <3>1
    <3>3. ASSUME o \in Seq(Step)
          PROVE  o \o <<a>> \o <<b>> \o <<c, d>> = o \o ((<<a>> \o <<b>>) \o <<c, d>>)
      <4>1. (o \o <<a>>) \o <<b>> = o \o (<<a>> \o <<b>>)
        BY <3>2, <3>3, ConcatAssociative
      <4>2. (o \o (<<a>> \o <<b>>)) \o <<c, d>> = o \o ((<<a>> \o <<b>>) \o <<c, d>>)
        BY <3>2, <3>3, ConcatAssociative
      <4>3. QED
        BY <4>1, <4>2, Zenon
    <3>4. QED
      BY <2>1, <3>3 DEF SendAttachment, OpenAttachmentInput, attach, o, a, b, c, d
  <2>3. QED
    BY <1>2, <1>5, <2>2
<1>9. QED
  BY <1>6, <1>7, <1>8

LEMMA PlainOperations ==
  /\ Plain(SearchChats) /\ Plain(ReadSettings) /\ Plain(SubscribeToChat)
  /\ Plain(UnsubscribeFromChat) /\ Plain(DescribeContact) /\ Plain(MarkRead) /\ Plain(Comments)
  /\ Plain(History) /\ Plain(EditMessage) /\ Plain(DeleteMessage) /\ Plain(SetReaction)
  /\ Plain(ForwardMessage) /\ Plain(ChatAction) /\ Plain(ListStickers) /\ Plain(SendSticker)
  /\ Plain(OpenMedia) /\ Plain(Status)
<1> USE DEF StepName, Opens, Armed, Moves
<1>1. Plain(<<Do("viewer")>>) /\ Plain(<<Do("try")>>) /\ Plain(<<Do("openHistory")>>)
  BY PlainDoes
<1>2. /\ Plain(<<Must(49)>>) /\ Plain(<<Must(67)>>) /\ Plain(<<Must(66)>>) /\ Plain(<<Must(178)>>)
      /\ Plain(<<Must(64)>>)
  BY PlainMust
<1>3. /\ <<32, 96, 36>> \in Opcodes /\ <<57>> \in Opcodes
  BY DEF Opcodes
<1>4. \A o \in Opcodes : Plain(<<Do("viewer"), Ask(o)>>)
  <2> TAKE o \in Opcodes
  <2>1. Ask(o) \in Step /\ Ask(o).do = "call" /\ Do("viewer") \in Step /\ Do("viewer").do = "viewer"
    BY StepFact
  <2>2. QED
    BY <2>1, PlainTwo
<1>5. Plain(ReadSettings) /\ Plain(SubscribeToChat)
  BY <1>3, <1>4, Zenon DEF ReadSettings, SubscribeToChat
<1>6. Plain(SearchChats)
  BY <1>1, PlainAsks, PlainParts, PlainConcat, Zenon DEF SearchChats
<1>7. Plain(UnsubscribeFromChat) /\ Plain(DescribeContact) /\ Plain(MarkRead)
  BY PlainAsks, PlainParts, PlainConcat, Zenon DEF UnsubscribeFromChat, DescribeContact, MarkRead
<1>8. Plain(Comments)
  <2>1. Plain(<<Must(49), Do("openHistory")>>)
    BY StepFact, PlainTwo
  <2>2. QED
    BY <1>1, <2>1, PlainParts, PlainConcat, ZenonT(60) DEF Comments
<1>9. Plain(History)
  BY <1>1, PlainParts, PlainConcat, ZenonT(60) DEF History
<1>10. Plain(EditMessage) /\ Plain(DeleteMessage) /\ Plain(SetReaction) /\ Plain(SendSticker)
  BY <1>2, PlainParts, PlainConcat, Zenon DEF EditMessage, DeleteMessage, SetReaction, SendSticker
<1>11. Plain(ForwardMessage)
  <2>1. Plain(<<Do("click"), Do("click")>>)
    BY StepFact, PlainTwo
  <2>2. QED
    BY <2>1, PlainParts, PlainConcat, ZenonT(60) DEF ForwardMessage
<1>12. Plain(ChatAction)
  BY PlainParts, PlainConcat, ZenonT(60) DEF ChatAction
<1>13. Plain(ListStickers)
  <2>1. Plain(<<Must(27), Do("found"), Must(28), Do("found"), Must(28)>>)
    BY StepFact DEF Plain
  <2>2. QED
    BY <2>1, PlainParts, PlainConcat, Zenon DEF ListStickers
<1>14. Plain(OpenMedia) /\ Plain(Status)
  <2>1. Plain(<<Do("viewer"), Do("media"), Do("fetch")>>)
    BY StepFact DEF Plain
  <2>2. QED
    BY <1>1, <2>1 DEF OpenMedia, Status
<1>15. QED
  BY <1>5, <1>6, <1>7, <1>8, <1>9, <1>10, <1>11, <1>12, <1>13, <1>14

LEMMA SendlessConcat ==
  ASSUME NEW s \in Seq(Step), NEW t \in Seq(Step), Sendless(s), Sendless(t)
  PROVE  s \o t \in Seq(Step) /\ Sendless(s \o t)
<1>1. /\ Len(s) \in Nat /\ Len(t) \in Nat /\ DOMAIN s = 1 .. Len(s) /\ DOMAIN t = 1 .. Len(t)
  BY LenProperties
<1>2. /\ s \o t \in Seq(Step) /\ Len(s \o t) = Len(s) + Len(t)
      /\ \A i \in 1 .. Len(s) + Len(t) : (s \o t)[i] = IF i <= Len(s) THEN s[i] ELSE t[i - Len(s)]
  BY ConcatProperties
<1>3. DOMAIN (s \o t) = 1 .. Len(s) + Len(t)
  BY <1>2, LenProperties
<1>4. \A i \in 1 .. Len(s) + Len(t) :
        \/ i \in DOMAIN s /\ (s \o t)[i] = s[i]
        \/ i - Len(s) \in DOMAIN t /\ (s \o t)[i] = t[i - Len(s)]
  BY <1>1, <1>2
<1>5. QED
  BY <1>2, <1>3, <1>4 DEF Sendless

\* What history falls back to, a restarted application and what the page shows.
LEMMA FallbackWhole == Whole(RestartMaxApp \o WireHistory) /\ Whole(RenderedHistory)
<1>1. RestartMaxApp \in Seq(Step) /\ Sendless(RestartMaxApp)
  BY StepFact DEF RestartMaxApp, Sendless, StepName, Opens, Armed
<1>2. /\ WireHistory \in Seq(Step) /\ Sendless(WireHistory)
      /\ RenderedHistory \in Seq(Step) /\ Sendless(RenderedHistory)
  BY PlainParts, PlainSendless
<1>3. QED
  BY <1>1, <1>2, SendlessConcat, SendlessWhole

\* Every operation is whole, the ones that send and the ones that do not.
LEMMA ScriptWhole == \A op \in Operations : Whole(Script(op))
<1>1. \A s : Plain(s) => Whole(s)
  BY PlainSendless, SendlessWhole
<1>2. Whole(<<Do("background")>>)
  <2>1. <<Do("background")>> \in Seq(Step) /\ Sendless(<<Do("background")>>)
    BY StepFact DEF Sendless, StepName, Opens, Armed
  <2>2. QED
    BY <2>1, SendlessWhole
<1>3. QED
  <2> TAKE op \in Operations
  <2>1. CASE op \in {"chats.list", "chats.search", "chats.subscribe", "chats.unsubscribe",
                     "chats.resolve", "settings.read", "contacts.describe", "messages.history"}
    BY <1>1, <2>1, PlainParts, PlainOperations DEF Script
  <2>2. CASE op \in {"messages.read", "messages.comments", "message.edit", "message.delete",
                     "message.forward", "message.reaction.set", "chat.action"}
    BY <1>1, <2>2, PlainParts, PlainOperations DEF Script
  <2>3. CASE op \in {"stickers.list", "sticker.send", "media.open", "login.status"}
    BY <1>1, <2>3, PlainParts, PlainOperations DEF Script
  <2>4. CASE op \in {"message.send", "message.reply", "message.sendAttachment",
                     "session.background"}
    BY <1>2, <2>4, SendOperations DEF Script
  <2>5. QED
    BY <2>1, <2>2, <2>3, <2>4 DEF Operations

-----------------------------------------------------------------------------
(* The invariant. *)

AtSend == todo # <<>> /\ Head(todo).do \in Armed

\* The steps that are left are the rest of an operation; the chat of a send is on screen, or
\* is shown first.
RunInv ==
  /\ coming \in Seq(Request) /\ queue \in Seq(Request) /\ todo \in Seq(Step) /\ Ordered(todo)
  /\ todo # <<>> => queue # <<>>
  /\ \A i \in DOMAIN todo :
       todo[i].do \in Opens => page.at = chat \/ \E j \in 1 .. i - 1 : todo[j].do = "activate"

CallInv ==
  /\ called \in BOOLEAN /\ (called => todo # <<>> /\ Head(todo).do = "call")
  /\ calls # {} => called

\* pendingSend is set for the send that runs, and what it is resolved with is the send's own
\* confirmation if no older one was outstanding.
SlotInv ==
  /\ sends \in Nat
  /\ ~AtSend => slot = None
  /\ AtSend => slot \in {None, sends} /\ sends > 0
  /\ AtSend /\ ~late => /\ typed \subseteq {sends} /\ \A f \in atMax : f.opcode # 64
                        /\ slot = None => got \in {None, sends}

StepInv == RunInv /\ CallInv /\ SlotInv /\ ConfirmedOwn

DataInv ==
  /\ sequence \in 0 .. Band - 1 /\ losses \in 0 .. MaxLosses
  /\ rescue \in {"none", "restart", "render"} /\ snapshot \subseteq Chat /\ joined \subseteq Chat
  /\ failure \in {"none", "timeout", "unavailable", "error"}
  /\ adapter \in [chats : SUBSET Chat, selected : Chat \cup {None}, known : BOOLEAN]
  /\ page \in [at : Chat \cup {None}, app : BOOLEAN]
  /\ typed \subseteq 1 .. sends /\ got \in {None} \cup 0 .. sends
  /\ life \in {"open", "closing", "closed", "crashed"}

PageInv == StepInv /\ DataInv

LEMMA TodoFact ==
  ASSUME todo \in Seq(Step), todo # <<>>
  PROVE  /\ Len(todo) \in Nat \ {0} /\ DOMAIN todo = 1 .. Len(todo) /\ Head(todo) = todo[1]
         /\ Tail(todo) \in Seq(Step) /\ Len(Tail(todo)) = Len(todo) - 1
         /\ DOMAIN Tail(todo) = 1 .. Len(todo) - 1
         /\ \A i \in 1 .. Len(todo) - 1 : Tail(todo)[i] = todo[i + 1]
         /\ Tail(todo) # <<>> => Len(todo) > 1 /\ Head(Tail(todo)) = todo[2]
<1>1. Len(todo) \in Nat \ {0} /\ DOMAIN todo = 1 .. Len(todo) /\ Head(todo) = todo[1]
  BY LenProperties, EmptySeq
<1>2. /\ Tail(todo) \in Seq(Step) /\ Len(Tail(todo)) = Len(todo) - 1
      /\ \A i \in 1 .. Len(todo) - 1 : Tail(todo)[i] = todo[i + 1]
  BY HeadTailProperties
<1>3. DOMAIN Tail(todo) = 1 .. Len(todo) - 1
  BY <1>2, LenProperties
<1>4. Tail(todo) # <<>> => Len(todo) > 1 /\ Head(Tail(todo)) = todo[2]
  <2> SUFFICES ASSUME Tail(todo) # <<>> PROVE Len(todo) > 1 /\ Head(Tail(todo)) = todo[2]
    OBVIOUS
  <2>1. Len(Tail(todo)) \in Nat \ {0}
    BY <1>2, EmptySeq
  <2>2. Head(Tail(todo)) = Tail(todo)[1]
    BY <1>2
  <2>3. QED
    BY <1>1, <1>2, <2>1, <2>2
<1>5. QED
  BY <1>1, <1>2, <1>3, <1>4

\* The step is done.
LEMMA GoKeeps ==
  ASSUME RunInv, todo # <<>>, todo' = Tail(todo), UNCHANGED <<coming, queue>>,
         \/ page'.at = chat
         \/ page'.at = page.at /\ Head(todo).do # "activate"
         \/ Head(todo).do \in Moves
  PROVE  /\ RunInv'
         /\ AtSend' => Head(todo).do \in Opens
         /\ Head(todo).do \in Opens => AtSend'
<1>1. /\ todo' = Tail(todo) /\ queue' = queue /\ chat' = chat
  BY DEF chat
<1>2. /\ Len(todo) \in Nat \ {0} /\ DOMAIN todo = 1 .. Len(todo) /\ Head(todo) = todo[1]
      /\ todo' \in Seq(Step) /\ DOMAIN todo' = 1 .. Len(todo) - 1
      /\ \A i \in 1 .. Len(todo) - 1 : todo'[i] = todo[i + 1]
      /\ todo' # <<>> => Len(todo) > 1 /\ Head(todo') = todo[2]
  BY <1>1, TodoFact DEF RunInv
<1>3. Ordered(todo')
  <2>1. \A i \in DOMAIN todo' : i + 1 \in DOMAIN todo /\ todo'[i] = todo[i + 1]
                                /\ (i + 1 \in DOMAIN todo' <=> (i + 1) + 1 \in DOMAIN todo)
    BY <1>2
  <2>2. \A i \in DOMAIN todo' : todo'[i].do \in Opens <=> i + 1 \in DOMAIN todo' /\ todo'[i + 1].do \in Armed
    <3> TAKE i \in DOMAIN todo'
    <3>1. i + 1 \in DOMAIN todo' => todo'[i + 1] = todo[(i + 1) + 1]
      BY <2>1
    <3>2. QED
      BY <2>1, <3>1 DEF RunInv, Ordered
  <2>3. \A i, k \in DOMAIN todo' : todo'[i].do \in Opens => todo'[k].do \notin Moves
    BY <2>1 DEF RunInv, Ordered
  <2>4. QED
    BY <2>2, <2>3 DEF Ordered
<1>4. ASSUME NEW i \in DOMAIN todo', todo'[i].do \in Opens
      PROVE  page'.at = chat' \/ \E j \in 1 .. i - 1 : todo'[j].do = "activate"
  <2>1. i + 1 \in DOMAIN todo /\ todo[i + 1].do \in Opens /\ i \in Nat
    BY <1>2, <1>4
  <2>2. CASE Head(todo).do \in Moves
    <3>1. 1 \in DOMAIN todo /\ todo[1].do \in Moves
      BY <1>2, <2>2
    <3>2. QED
      BY <2>1, <3>1 DEF RunInv, Ordered
  <2>3. CASE page'.at = page.at /\ Head(todo).do # "activate" /\ page.at # chat
    <3>1. PICK j \in 1 .. i : todo[j].do = "activate"
      BY <2>1, <2>3 DEF RunInv
    <3>2. j # 1
      BY <1>2, <2>3, <3>1
    <3>3. j - 1 \in 1 .. i - 1 /\ todo'[j - 1] = todo[j]
      BY <1>2, <1>4, <2>1, <3>1, <3>2
    <3>4. QED
      BY <3>1, <3>3
  <2>4. QED
    BY <1>1, <2>2, <2>3
<1>5. RunInv'
  BY <1>1, <1>2, <1>3, <1>4 DEF RunInv
<1>6. AtSend' => Head(todo).do \in Opens
  BY <1>2 DEF AtSend, RunInv, Ordered
<1>7. ASSUME Head(todo).do \in Opens PROVE AtSend'
  <2>1. 2 \in 1 .. Len(todo) /\ todo[2].do \in Armed
    BY <1>2, <1>7 DEF RunInv, Ordered
  <2>2. todo' # <<>>
    BY <1>1, <1>2, <2>1, HeadTailProperties, EmptySeq DEF RunInv
  <2>3. QED
    BY <1>2, <2>1, <2>2 DEF AtSend
<1>8. QED
  BY <1>5, <1>6, <1>7

\* The operation goes on with other steps first.
LEMMA ThenKeeps ==
  ASSUME RunInv, todo # <<>>, NEW s, Plain(s), Then(s), UNCHANGED <<coming, page>>,
         Head(todo).do \notin Opens \cup {"activate"}
  PROVE  RunInv' /\ ~AtSend'
<1> DEFINE t == Tail(todo)
<1>1. /\ todo' = s \o t /\ queue' = queue /\ chat' = chat /\ queue # <<>>
  BY DEF Then, chat, RunInv
<1>2. /\ Len(todo) \in Nat \ {0} /\ DOMAIN todo = 1 .. Len(todo) /\ Head(todo) = todo[1]
      /\ t \in Seq(Step) /\ Len(t) = Len(todo) - 1 /\ DOMAIN t = 1 .. Len(todo) - 1
      /\ \A i \in 1 .. Len(todo) - 1 : t[i] = todo[i + 1]
      /\ t # <<>> => Len(todo) > 1 /\ Head(t) = todo[2]
  BY TodoFact DEF RunInv
<1> HIDE DEF t
<1>3. /\ s \in Seq(Step) /\ Len(s) \in Nat /\ DOMAIN s = 1 .. Len(s)
      /\ \A i \in 1 .. Len(s) : s[i].do \notin Opens \cup Armed \cup Moves
  BY LenProperties DEF Plain
<1>4. /\ todo' \in Seq(Step) /\ DOMAIN todo' = 1 .. Len(s) + Len(t)
      /\ \A i \in 1 .. Len(s) + Len(t) : todo'[i] = IF i <= Len(s) THEN s[i] ELSE t[i - Len(s)]
  <2>1. /\ s \o t \in Seq(Step) /\ Len(s \o t) = Len(s) + Len(t)
        /\ \A i \in 1 .. Len(s) + Len(t) : (s \o t)[i] = IF i <= Len(s) THEN s[i] ELSE t[i - Len(s)]
    <3>1. s \in Seq(Step) /\ t \in Seq(Step)
      BY <1>2, <1>3
    <3>2. QED
      BY <3>1, ConcatProperties
  <2>2. QED
    BY <1>1, <2>1, LenProperties
<1>n. Len(t) \in Nat /\ Len(s) \in Nat /\ Len(t) = Len(todo) - 1 /\ DOMAIN todo = 1 .. Len(todo)
      /\ DOMAIN todo' = 1 .. Len(s) + Len(t)
  BY <1>2, <1>3, <1>4
<1>5. \A i \in DOMAIN todo' :
        \/ i \in 1 .. Len(s) /\ todo'[i].do \notin Opens \cup Armed \cup Moves
        \/ i - Len(s) \in 1 .. Len(t) /\ i - Len(s) + 1 \in DOMAIN todo
           /\ todo'[i] = todo[i - Len(s) + 1]
  <2> TAKE i \in DOMAIN todo'
  <2>1. CASE i <= Len(s)
    BY <1>3, <1>4, <2>1
  <2>2. CASE ~(i <= Len(s))
    <3>1. i - Len(s) \in 1 .. Len(t) /\ todo'[i] = t[i - Len(s)]
      BY <1>n, <1>4, <2>2
    <3>2. t[i - Len(s)] = todo[i - Len(s) + 1] /\ i - Len(s) + 1 \in DOMAIN todo
      BY <1>2, <1>3, <3>1
    <3>3. QED
      BY <3>1, <3>2
  <2>3. QED
    BY <2>1, <2>2
<1>6. Len(todo) > 1 => todo[2].do \notin Armed
  <2> SUFFICES ASSUME Len(todo) > 1 PROVE todo[2].do \notin Armed
    OBVIOUS
  <2>1. 1 \in DOMAIN todo /\ 1 + 1 \in DOMAIN todo /\ todo[1].do \notin Opens
    BY <1>2
  <2>2. QED
    BY <2>1 DEF RunInv, Ordered
<1>7. Ordered(todo')
  <2>1. \A i \in DOMAIN todo' : todo'[i].do \in Opens <=> i + 1 \in DOMAIN todo' /\ todo'[i + 1].do \in Armed
    <3> TAKE i \in DOMAIN todo'
    <3>1. CASE i \in 1 .. Len(s)
      <4>1. todo'[i].do \notin Opens
        BY <1>n, <1>5, <3>1
      <4>2. i + 1 \in DOMAIN todo' => todo'[i + 1].do \notin Armed
        <5> SUFFICES ASSUME i + 1 \in DOMAIN todo' PROVE todo'[i + 1].do \notin Armed
          OBVIOUS
        <5>1. CASE i + 1 \in 1 .. Len(s)
          <6>1. ~(i + 1 - Len(s) \in 1 .. Len(t))
            BY <1>n, <5>1
          <6>2. QED
            BY <1>5, <5>1, <6>1
        <5>2. CASE ~(i + 1 \in 1 .. Len(s))
          <6>1. (i + 1) - Len(s) + 1 = 2 /\ Len(t) > 0
            BY <1>n, <3>1, <5>2
          <6>2. todo'[i + 1] = todo[(i + 1) - Len(s) + 1]
            BY <1>5, <5>2
          <6>3. QED
            BY <1>n, <1>6, <6>1, <6>2
        <5>3. QED
          BY <5>1, <5>2
      <4>3. QED
        BY <4>1, <4>2
    <3>2. CASE i - Len(s) \in 1 .. Len(t)
      <4>1. todo'[i] = todo[i - Len(s) + 1] /\ i - Len(s) + 1 \in DOMAIN todo
        BY <1>3, <1>5, <3>2
      <4>2. i + 1 \in DOMAIN todo' <=> (i - Len(s) + 1) + 1 \in DOMAIN todo
        BY <1>2, <1>3, <1>4, <3>2
      <4>3. i + 1 \in DOMAIN todo' => todo'[i + 1] = todo[(i - Len(s) + 1) + 1]
        <5> SUFFICES ASSUME i + 1 \in DOMAIN todo' PROVE todo'[i + 1] = todo[(i - Len(s) + 1) + 1]
          OBVIOUS
        <5>1. i + 1 \notin 1 .. Len(s) /\ (i + 1) - Len(s) + 1 = (i - Len(s) + 1) + 1
          BY <1>n, <3>2
        <5>2. QED
          BY <1>5, <5>1
      <4>4. QED
        BY <4>1, <4>2, <4>3 DEF RunInv, Ordered
    <3>3. QED
      BY <1>5, <3>1, <3>2
  <2>2. \A i, k \in DOMAIN todo' : todo'[i].do \in Opens => todo'[k].do \notin Moves
    BY <1>5 DEF RunInv, Ordered
  <2>3. QED
    BY <2>1, <2>2 DEF Ordered
<1>8. ASSUME NEW i \in DOMAIN todo', todo'[i].do \in Opens
      PROVE  page'.at = chat' \/ \E j \in 1 .. i - 1 : todo'[j].do = "activate"
  <2>1. /\ i - Len(s) \in 1 .. Len(t) /\ i - Len(s) + 1 \in DOMAIN todo
        /\ todo'[i] = todo[i - Len(s) + 1]
    BY <1>5, <1>8
  <2>2. CASE page.at # chat
    <3>1. PICK j \in 1 .. i - Len(s) : todo[j].do = "activate"
      BY <1>3, <1>4, <1>8, <2>1, <2>2 DEF RunInv
    <3>2. j # 1
      BY <1>2, <3>1
    <3>3. j - 1 + Len(s) \in 1 .. i - 1 /\ todo'[j - 1 + Len(s)] = todo[j]
      <4>1. j - 1 + Len(s) \in 1 .. i - 1 /\ j - 1 + Len(s) \in DOMAIN todo'
        BY <1>2, <1>3, <1>4, <2>1, <3>1, <3>2
      <4>2. (j - 1 + Len(s)) - Len(s) + 1 = j /\ j - 1 + Len(s) \notin 1 .. Len(s)
        BY <1>3, <2>1, <3>1, <3>2
      <4>3. QED
        BY <1>5, <4>1, <4>2
    <3>4. QED
      BY <3>1, <3>3
  <2>3. QED
    BY <1>1, <2>2
<1>9. ~AtSend'
  <2> SUFFICES ASSUME todo' # <<>> PROVE Head(todo').do \notin Armed
    BY DEF AtSend
  <2>1. Len(todo') \in Nat \ {0} /\ Head(todo') = todo'[1] /\ 1 \in DOMAIN todo'
    BY <1>4, LenProperties, EmptySeq
  <2>2. QED
    BY <1>2, <1>3, <1>5, <1>6, <2>1
<1>10. QED
  BY <1>1, <1>4, <1>7, <1>8, <1>9 DEF RunInv

\* The next request begins, or an operation starts over: with whole steps, whatever the page shows.
LEMMA WholeKeeps ==
  ASSUME Whole(todo'), coming' \in Seq(Request), queue' \in Seq(Request),
         todo' # <<>> => queue' # <<>>
  PROVE  RunInv' /\ ~AtSend'
<1>1. ~AtSend'
  <2> SUFFICES ASSUME todo' # <<>> PROVE Head(todo').do \notin Armed
    BY DEF AtSend
  <2>1. Head(todo') = todo'[1]
    BY DEF Whole
  <2>2. QED
    BY <2>1 DEF Whole
<1>2. QED
  BY <1>1 DEF Whole, Shown, RunInv

LEMMA BeginKeeps ==
  ASSUME NEW q \in Seq(Request), Begin(q), coming' \in Seq(Request)
  PROVE  RunInv' /\ ~AtSend'
<1>1. Whole(<<>>)
  <2>1. Sendless(<<>>)
    BY DEF Sendless
  <2>2. QED
    BY <2>1, SendlessWhole, EmptySeq
<1>2. q # <<>> => Head(q).op \in Operations
  <2> SUFFICES ASSUME q # <<>> PROVE Head(q).op \in Operations
    OBVIOUS
  <2>1. Head(q) \in Request
    BY HeadTailProperties
  <2>2. QED
    BY <2>1 DEF Request
<1>3. Whole(todo') /\ (todo' # <<>> => q # <<>>) /\ queue' = q
  BY <1>1, <1>2, ScriptWhole DEF Begin
<1>4. QED
  BY <1>3, WholeKeeps

LEMMA AnsweredKeeps ==
  ASSUME RunInv, queue # <<>>, Answered, UNCHANGED coming
  PROVE  RunInv' /\ ~AtSend'
<1>1. Tail(queue) \in Seq(Request)
  BY HeadTailProperties DEF RunInv
<1>2. QED
  BY <1>1, BeginKeeps DEF Answered, RunInv

LEMMA ThrowKeeps ==
  ASSUME RunInv, queue # <<>>, NEW reason, Throw(reason), UNCHANGED coming
  PROVE  RunInv' /\ ~AtSend'
<1>1. CASE Answered
  BY <1>1, AnsweredKeeps
<1>2. CASE todo' \in {RestartMaxApp \o WireHistory, RenderedHistory} /\ queue' = queue
  BY <1>2, FallbackWhole, WholeKeeps DEF RunInv
<1>3. QED
  BY <1>1, <1>2 DEF Throw

-----------------------------------------------------------------------------
(* The steps. *)

LEMMA AtStep ==
  ASSUME StepInv, NEW what, At(what), what \notin Armed \cup {"call"}
  PROVE  /\ queue # <<>> /\ todo # <<>> /\ Head(todo).do = what /\ ~AtSend
         /\ slot = None /\ called = FALSE /\ calls = {}
<1>1. queue # <<>> /\ todo # <<>> /\ Head(todo).do = what /\ ~AtSend
  BY DEF At, AtSend
<1>2. slot = None
  BY <1>1 DEF StepInv, SlotInv
<1>3. called = FALSE /\ calls = {}
  BY <1>1 DEF StepInv, CallInv
<1>4. QED
  BY <1>1, <1>2, <1>3

\* A step that neither sends nor shows a chat ends, fails, or is replaced with others.
LEMMA RunKeeps ==
  ASSUME StepInv, NEW what, At(what), what \notin Opens \cup Armed \cup {"activate"},
         UNCHANGED coming,
         \/ todo' = Tail(todo) /\ UNCHANGED <<queue, page>>
         \/ Answered
         \/ \E reason : Throw(reason)
         \/ UNCHANGED page /\ \E s : Plain(s) /\ Then(s)
  PROVE  RunInv' /\ ~AtSend'
<1>1. RunInv /\ queue # <<>> /\ todo # <<>> /\ Head(todo).do = what
  BY DEF StepInv, At
<1>2. CASE todo' = Tail(todo) /\ UNCHANGED <<queue, page>>
  BY <1>1, <1>2, GoKeeps
<1>3. CASE Answered
  BY <1>1, <1>3, AnsweredKeeps
<1>4. ASSUME NEW reason, Throw(reason) PROVE RunInv' /\ ~AtSend'
  BY <1>1, <1>4, ThrowKeeps
<1>5. ASSUME UNCHANGED page, NEW s, Plain(s), Then(s) PROVE RunInv' /\ ~AtSend'
  BY <1>1, <1>5, ThenKeeps
<1>6. QED
  BY <1>2, <1>3, <1>4, <1>5

LEMMA NotSending ==
  ASSUME StepInv, RunInv', ~AtSend', called' = FALSE, calls' = {}, slot' = None,
         UNCHANGED <<sends, outcome>>
  PROVE  StepInv'
<1>1. CallInv'
  BY DEF CallInv
<1>2. SlotInv' /\ ConfirmedOwn'
  BY DEF StepInv, SlotInv, ConfirmedOwn
<1>3. QED
  BY <1>1, <1>2 DEF StepInv

\* The steps of the operations that only read or use the interface.
LEMMA ReadingStep ==
  ASSUME StepInv,
         EnsureAdapter \/ ReadChats \/ ReplaceChats \/ Decide \/ Try \/ UseInterface \/ OpenHistory
         \/ Ready
  PROVE  StepInv'
<1> USE DEF Opens, Armed
<1> DEFINE Read(what) ==
      At(what) /\ (\/ todo' = Tail(todo) /\ UNCHANGED <<queue, page>>
                   \/ Answered
                   \/ \E reason : Throw(reason)
                   \/ UNCHANGED page /\ \E s : Plain(s) /\ Then(s))
<1>1. UNCHANGED <<coming, called, calls, slot, sends, outcome>>
  BY DEF EnsureAdapter, ReadChats, ReplaceChats, Decide, Try, UseInterface, OpenHistory, Ready, wire,
     sending
<1>2. \E what \in {"viewer", "readChats", "replaceChats", "known", "reachable", "resolved",
                   "describe", "countComments", "found", "media", "try", "evaluate", "fetch",
                   "readMessages", "menu", "click", "openHistory", "ready"} : Read(what)
  <2>1. CASE EnsureAdapter
    BY <2>1 DEF EnsureAdapter, Go
  <2>2. CASE ReadChats
    BY <2>2 DEF ReadChats
  <2>3. CASE ReplaceChats \/ OpenHistory
    BY <2>3 DEF ReplaceChats, OpenHistory, Go
  <2>4. CASE Decide
    <3>1. Plain(ResolveChat) /\ Plain(DescribeRecipients) /\ Plain(<<Ask(<<91>>)>>)
      BY PlainParts, PlainAsks
    <3>2. \A steps \in ResolveUrl : Plain(steps)
      <4>1. Plain(<<>>)
        BY EmptySeq DEF Plain
      <4>2. QED
        BY <4>1, PlainMust DEF ResolveUrl
    <3>3. UNCHANGED page
      BY <2>4 DEF Decide
    <3>4. QED
      BY <2>4, <3>1, <3>2, <3>3 DEF Decide, Go
  <2>5. CASE Try
    BY <2>5 DEF Try
  <2>6. CASE UseInterface
    BY <2>6 DEF UseInterface, Go
  <2>7. CASE Ready
    BY <2>7 DEF Ready, Go
  <2>8. QED
    BY <2>1, <2>2, <2>3, <2>4, <2>5, <2>6, <2>7
<1>3. PICK what \in {"viewer", "readChats", "replaceChats", "known", "reachable", "resolved",
                     "describe", "countComments", "found", "media", "try", "evaluate", "fetch",
                     "readMessages", "menu", "click", "openHistory", "ready"} : Read(what)
  BY <1>2
<1>4. what \notin Opens \cup Armed \cup {"activate", "call"}
  OBVIOUS
<1>5. RunInv' /\ ~AtSend'
  BY <1>1, <1>3, <1>4, RunKeeps, Zenon
<1>6. slot = None /\ called = FALSE /\ calls = {}
  BY <1>3, <1>4, AtStep
<1>7. QED
  BY <1>1, <1>5, <1>6, NotSending

\* The steps that leave a page or show a chat.
LEMMA MovingStep ==
  ASSUME StepInv, DataInv, Activate \/ Reload \/ Background
  PROVE  StepInv'
<1> USE DEF Opens, Armed
<1>1. UNCHANGED <<coming, called, calls, slot, sends, outcome>>
  BY DEF Activate, Reload, Background, wire, sending
<1>2. \E what \in {"activate", "reload", "background"} : At(what)
  BY DEF Activate, Reload, Background
<1>3. /\ RunInv /\ queue # <<>> /\ todo # <<>> /\ ~AtSend
      /\ slot = None /\ called = FALSE /\ calls = {}
  BY <1>2, AtStep DEF StepInv
<1>4. \A reason : Throw(reason) => RunInv' /\ ~AtSend'
  BY <1>1, <1>3, ThrowKeeps
<1>5. RunInv' /\ ~AtSend'
  <2>1. CASE Activate
    <3>1. Head(todo).do = "activate"
      BY <2>1 DEF Activate, At
    <3>2. CASE UNCHANGED running
      <4>1. UNCHANGED <<queue, todo>> /\ chat' = chat
        BY <3>2 DEF running, chat
      <4>2. /\ Len(todo) \in Nat \ {0} /\ DOMAIN todo = 1 .. Len(todo) /\ Head(todo) = todo[1]
        BY <1>3, TodoFact DEF RunInv
      <4>3. \A i \in DOMAIN todo : todo[i].do \in Opens => 1 \in 1 .. i - 1 /\ todo[1].do = "activate"
        BY <3>1, <4>2
      <4>4. RunInv'
        BY <1>1, <1>3, <4>1, <4>3 DEF RunInv
      <4>5. QED
        BY <1>3, <4>1, <4>4 DEF AtSend
    <3>3. CASE Go /\ (Routed \/ NewDocument(chat, TRUE))
      <4>1. page'.at = chat
        BY <3>3 DEF Routed, NewDocument, DataInv
      <4>2. todo' = Tail(todo) /\ UNCHANGED queue
        BY <3>3 DEF Go
      <4>3. QED
        BY <1>1, <1>3, <3>1, <4>1, <4>2, GoKeeps
    <3>4. QED
      BY <1>4, <2>1, <3>2, <3>3 DEF Activate
  <2>2. CASE Reload \/ Background
    <3>1. Head(todo).do \in Moves
      BY <2>2 DEF Reload, Background, At, Moves
    <3>2. Go => RunInv' /\ ~AtSend'
      <4>1. Go => todo' = Tail(todo) /\ UNCHANGED queue
        BY DEF Go
      <4>2. QED
        BY <1>1, <1>3, <3>1, <4>1, GoKeeps DEF Moves
    <3>3. Go \/ \E reason : Throw(reason)
      BY <2>2 DEF Reload, Background
    <3>4. QED
      BY <1>4, <3>2, <3>3
  <2>3. QED
    BY <2>1, <2>2
<1>6. QED
  BY <1>1, <1>3, <1>5, NotSending

\* A request arrives, is answered, or its operation ends with the page.
LEMMA QueueStep ==
  ASSUME StepInv, Accept \/ Finish \/ PageGone
  PROVE  StepInv'
<1>1. RunInv /\ CallInv /\ SlotInv /\ ConfirmedOwn
  BY DEF StepInv
<1>2. CASE Accept
  <2>1. Head(coming) \in Request /\ Tail(coming) \in Seq(Request)
    BY <1>1, <1>2, HeadTailProperties DEF Accept, RunInv
  <2>2. /\ Append(queue, Head(coming)) \in Seq(Request)
        /\ Append(queue, Head(coming)) # <<>>
        /\ queue # <<>> => Head(Append(queue, Head(coming))) = Head(queue)
    <3>1. queue \in Seq(Request)
      BY <1>1 DEF RunInv
    <3>2. QED
      BY <2>1, <3>1
  <2>3. CASE queue = <<>>
    <3>1. todo = <<>>
      BY <1>1, <2>3 DEF RunInv
    <3>2. called = FALSE /\ calls = {} /\ slot = None
      BY <1>1, <3>1 DEF CallInv, SlotInv, AtSend
    <3>3. RunInv' /\ ~AtSend'
      BY <1>2, <2>1, <2>2, <2>3, BeginKeeps DEF Accept
    <3>4. UNCHANGED <<called, calls, slot, sends, outcome>>
      BY <1>2 DEF Accept, wire, sending
    <3>5. QED
      BY <3>2, <3>3, <3>4, NotSending
  <2>4. CASE queue # <<>>
    <3>1. /\ coming' \in Seq(Request) /\ queue' \in Seq(Request) /\ queue' # <<>> /\ chat' = chat
          /\ UNCHANGED <<todo, page, called, calls, slot, sends, outcome, late, got, typed, atMax>>
      BY <1>2, <2>1, <2>2, <2>4 DEF Accept, wire, sending, max, chat
    <3>2. RunInv'
      BY <1>1, <3>1 DEF RunInv
    <3>3. CallInv' /\ SlotInv' /\ ConfirmedOwn'
      BY <1>1, <3>1 DEF CallInv, SlotInv, ConfirmedOwn, AtSend
    <3>4. QED
      BY <3>2, <3>3 DEF StepInv
  <2>5. QED
    BY <2>3, <2>4
<1>3. CASE Finish
  <2>1. RunInv' /\ ~AtSend'
    BY <1>1, <1>3, AnsweredKeeps DEF Finish
  <2>2. called = FALSE /\ calls = {} /\ slot = None
    BY <1>1, <1>3 DEF Finish, CallInv, SlotInv, AtSend
  <2>3. QED
    BY <1>3, <2>1, <2>2, NotSending DEF Finish, wire, sending
<1>4. CASE PageGone
  <2>1. RunInv' /\ ~AtSend'
    BY <1>1, <1>4, ThrowKeeps DEF PageGone
  <2>2. called = FALSE /\ calls = {}
    BY <1>1, <1>4 DEF PageGone, CallInv
  <2>3. QED
    BY <1>4, <2>1, <2>2, NotSending DEF PageGone, Abandon, wire
<1>5. QED
  BY <1>2, <1>3, <1>4

\* The calls of a step have ended, well or not.
LEMMA CallsReturnStep ==
  ASSUME StepInv, CallsReturn
  PROVE  StepInv'
<1>1. RunInv /\ queue # <<>> /\ todo # <<>> /\ Head(todo).do = "call" /\ calls = {}
  BY DEF StepInv, CallInv, CallsReturn
<1>2. ~AtSend /\ slot = None
  BY <1>1 DEF StepInv, SlotInv, AtSend, Armed
<1>3. RunInv' /\ ~AtSend'
  <2>1. CASE Go
    BY <1>1, <2>1, GoKeeps DEF Go, CallsReturn, Opens
  <2>2. CASE Throw(failure)
    BY <1>1, <2>2, ThrowKeeps DEF CallsReturn
  <2>3. QED
    BY <2>1, <2>2 DEF CallsReturn
<1>4. QED
  BY <1>1, <1>2, <1>3, NotSending DEF CallsReturn, sending

\* The steps of a send: pendingSend is set, the message typed, its confirmation waited for.
LEMMA SendingStep ==
  ASSUME StepInv, Arm \/ Attach \/ Enter \/ SendReturns
  PROVE  StepInv'
<1> USE DEF StepInv, Opens, Armed
<1>1. /\ RunInv /\ queue # <<>> /\ todo # <<>>
      /\ Head(todo).do \in {"arm", "attach", "enter", "confirm"}
  BY DEF Arm, Attach, Enter, SendReturns, At
<1>2. called = FALSE /\ calls = {}
  BY <1>1 DEF CallInv
<1>3. Go /\ UNCHANGED <<coming, page>> /\ Head(todo).do # "confirm" => RunInv' /\ AtSend'
  BY <1>1, GoKeeps DEF Go
<1>4. UNCHANGED coming /\ (Throw("error") \/ Answered) => RunInv' /\ ~AtSend'
  BY <1>1, ThrowKeeps, AnsweredKeeps
<1>5. CASE Arm
  <2>1. RunInv' /\ AtSend' /\ CallInv'
    BY <1>2, <1>3, <1>5 DEF Arm, At, CallInv, wire
  <2>2. slot' = sends + 1 /\ sends' = sends + 1 /\ UNCHANGED <<typed, atMax>>
    BY <1>5 DEF Arm, max
  <2>3. ~late' => typed = {} /\ \A f \in atMax : f.opcode # 64
    BY <1>5 DEF Arm
  <2>4. sends' \in Nat /\ sends' > 0 /\ sends' # None
    BY <2>2, PageAssumption DEF SlotInv
  <2>5. SlotInv'
    BY <2>1, <2>2, <2>3, <2>4 DEF SlotInv
  <2>6. QED
    BY <1>5, <2>1, <2>5 DEF Arm, ConfirmedOwn
<1>6. CASE Attach
  <2>1. CASE Go /\ UNCHANGED <<slot, got>>
    <3>1. RunInv' /\ AtSend' /\ AtSend
      BY <1>1, <1>3, <1>6, <2>1 DEF Attach, At, AtSend
    <3>2. CallInv' /\ SlotInv' /\ ConfirmedOwn'
      BY <1>2, <1>6, <2>1, <3>1 DEF Attach, CallInv, SlotInv, ConfirmedOwn, wire, max
    <3>3. QED
      BY <3>1, <3>2
  <2>2. CASE Throw("error") /\ Abandon
    <3>1. RunInv' /\ ~AtSend'
      BY <1>4, <1>6, <2>2 DEF Attach
    <3>2. QED
      BY <1>2, <1>6, <2>2, <3>1, NotSending DEF Attach, Abandon, wire
  <2>3. QED
    BY <1>6, <2>1, <2>2 DEF Attach
<1>7. CASE Enter
  <2>1. CASE typed' = typed \cup {sends} /\ Go /\ UNCHANGED <<slot, got>>
    <3>1. RunInv' /\ AtSend' /\ AtSend
      BY <1>1, <1>3, <1>7, <2>1 DEF Enter, At, AtSend
    <3>2. CallInv' /\ SlotInv' /\ ConfirmedOwn'
      BY <1>2, <1>7, <2>1, <3>1 DEF Enter, CallInv, SlotInv, ConfirmedOwn, wire
    <3>3. QED
      BY <3>1, <3>2
  <2>2. CASE Throw("error") /\ Abandon
    <3>1. RunInv' /\ ~AtSend'
      BY <1>4, <1>7, <2>2 DEF Enter
    <3>2. QED
      BY <1>2, <1>7, <2>2, <3>1, NotSending DEF Enter, Abandon, wire
  <2>3. QED
    BY <1>7, <2>1, <2>2 DEF Enter
<1>8. CASE SendReturns
  <2>1. RunInv' /\ ~AtSend' /\ AtSend
    BY <1>1, <1>4, <1>8 DEF SendReturns, AtSend
  <2>2. CallInv' /\ SlotInv'
    BY <1>2, <1>8, <2>1 DEF SendReturns, CallInv, SlotInv, wire
  <2>3. ConfirmedOwn'
    BY <1>8, <2>1 DEF SendReturns, SlotInv, ConfirmedOwn
  <2>4. QED
    BY <2>1, <2>2, <2>3
<1>9. QED
  BY <1>5, <1>6, <1>7, <1>8

\* What happens around the running operation does not move it on.
LEMMA AroundStep ==
  ASSUME StepInv, UNCHANGED <<running, coming, called, sends, late, outcome>>,
         page'.at = page.at,
         typed' \subseteq typed,
         calls' # {} => calls # {},
         AtSend /\ ~late => \A f \in atMax' : f.opcode # 64,
         \/ UNCHANGED <<slot, got>>
         \/ slot' = None /\ (AtSend /\ ~late => got' \in {None, sends} \/ (slot = None /\ got' = got))
  PROVE  StepInv'
<1> USE DEF StepInv
<1>1. UNCHANGED <<queue, todo>> /\ chat' = chat
  BY DEF running, chat
<1>2. RunInv'
  BY <1>1 DEF RunInv
<1>3. AtSend' <=> AtSend
  BY <1>1 DEF AtSend
<1>4. CallInv' /\ ConfirmedOwn'
  BY <1>1 DEF CallInv, ConfirmedOwn
<1>5. SlotInv'
  BY <1>3 DEF SlotInv
<1>6. QED
  BY <1>2, <1>4, <1>5

\* The frames of the bridge, their answers and their ends.
LEMMA FramesStep ==
  ASSUME StepInv,
         \/ MakeCalls
         \/ \E c \in calls : Transmit(c) \/ CallTimesOut(c) \/ TransmitFails(c)
         \/ \E f \in atMax : Answer(f)
  PROVE  StepInv'
<1>0. AtSend => calls = {} /\ called = FALSE
  BY DEF StepInv, CallInv, AtSend, Armed
<1>1. CASE MakeCalls
  <2>1. At("call")
    BY <1>1 DEF MakeCalls
  <2>2. UNCHANGED <<queue, todo, coming, page, slot, sends, outcome>> /\ called' = TRUE
    BY <1>1 DEF MakeCalls, running, sending
  <2>3. AtSend' <=> AtSend
    BY <2>2 DEF AtSend
  <2>4. ~AtSend /\ todo # <<>> /\ Head(todo).do = "call"
    BY <2>1 DEF At, AtSend, Armed
  <2>5. RunInv'
    BY <2>2 DEF StepInv, RunInv, chat
  <2>6. CallInv' /\ SlotInv' /\ ConfirmedOwn'
    BY <2>2, <2>3, <2>4 DEF StepInv, CallInv, SlotInv, ConfirmedOwn
  <2>7. QED
    BY <2>5, <2>6 DEF StepInv
<1>2. ASSUME NEW c \in calls, Transmit(c) PROVE StepInv'
  BY <1>0, <1>2, AroundStep DEF Transmit, sending
<1>3. ASSUME NEW c \in calls, CallTimesOut(c) \/ TransmitFails(c) PROVE StepInv'
  <2>1. calls # {} /\ UNCHANGED <<running, coming, called, page, typed, atMax, slot, got, sends, late, outcome>>
    BY <1>3 DEF CallTimesOut, TransmitFails, sending, max
  <2>2. QED
    BY <1>0, <2>1, AroundStep
<1>4. ASSUME NEW f \in atMax, Answer(f) PROVE StepInv'
  <2>1. calls' \subseteq calls /\ atMax' \subseteq atMax
    BY <1>4 DEF Answer
  <2>2. UNCHANGED <<running, coming, called, page, typed, sends, late, outcome>>
    BY <1>4 DEF Answer
  <2>3. AtSend /\ ~late => f.opcode # 64 /\ \A g \in atMax : g.opcode # 64
    BY DEF StepInv, SlotInv
  <2>4. \/ UNCHANGED <<slot, got>>
        \/ slot' = None /\ f.opcode = 64
    BY <1>4 DEF Answer, ResolvePendingSend, ConfirmsSend
  <2>5. calls' # {} => calls # {}
    BY <2>1
  <2>6. QED
    BY <2>1, <2>2, <2>3, <2>4, <2>5, AroundStep
<1>5. QED
  BY <1>1, <1>2, <1>3, <1>4

\* A message is confirmed or its timer fires; the page's socket, the page and the session end.
LEMMA EndsStep ==
  ASSUME StepInv, DataInv,
         \/ \E n \in typed : Confirm(n)
         \/ SendTimesOut \/ AppStarts \/ SocketOpens \/ SocketLost \/ SocketClosed
         \/ CloseStarts \/ CloseEnds
  PROVE  StepInv'
<1>0. AtSend /\ ~late => typed \subseteq {sends} /\ \A f \in atMax : f.opcode # 64
  BY DEF StepInv, SlotInv
<1>1. ASSUME NEW n \in typed, Confirm(n) PROVE StepInv'
  <2>1. UNCHANGED <<running, coming, called, calls, page, sends, late, outcome, atMax>>
    BY <1>1 DEF Confirm, wire
  <2>2. typed' \subseteq typed
    BY <1>1 DEF Confirm
  <2>3. UNCHANGED <<slot, got>> \/ (slot' = None /\ got' = n)
    BY <1>1 DEF Confirm, ResolvePendingSend
  <2>4. AtSend /\ ~late => n = sends
    BY <1>0
  <2>5. QED
    BY <1>0, <2>1, <2>2, <2>3, <2>4, AroundStep
<1>2. CASE SendTimesOut
  <2>1. /\ UNCHANGED <<running, coming, called, calls, page, sends, late, outcome, typed, atMax>>
        /\ slot' = None /\ got' = None
    BY <1>2 DEF SendTimesOut, wire, max
  <2>2. QED
    BY <1>0, <2>1, AroundStep
<1>3. CASE AppStarts
  <2>1. page'.at = page.at
    BY <1>3 DEF AppStarts, DataInv
  <2>2. UNCHANGED <<running, coming, called, calls, sends, late, outcome, typed, atMax, slot, got>>
    BY <1>3 DEF AppStarts, wire, max, sending
  <2>3. QED
    BY <1>0, <2>1, <2>2, AroundStep
<1>4. CASE SocketOpens \/ SocketLost
  <2>1. UNCHANGED <<running, coming, called, calls, page, sends, late, outcome, slot, got>>
    BY <1>4 DEF SocketOpens, SocketLost, wire, sending
  <2>2. typed' \subseteq typed /\ atMax' \subseteq atMax
    BY <1>4 DEF SocketOpens, SocketLost
  <2>3. QED
    BY <1>0, <2>1, <2>2, AroundStep
<1>5. CASE SocketClosed \/ CloseStarts
  <2>1. UNCHANGED <<running, coming, called, page, sends, late, outcome, slot, got, typed, atMax>>
    BY <1>5 DEF SocketClosed, CloseStarts, max, sending
  <2>2. calls' \subseteq calls
    BY <1>5 DEF SocketClosed, CloseStarts, Reject
  <2>3. calls' # {} => calls # {}
    BY <2>2
  <2>4. QED
    BY <1>0, <2>1, <2>3, AroundStep
<1>6. CASE CloseEnds
  <2>1. UNCHANGED <<running, coming, called, calls, page, sends, late, outcome>>
    BY <1>6 DEF CloseEnds, wire
  <2>2. typed' = {} /\ atMax' = {}
    BY <1>6 DEF CloseEnds
  <2>3. slot' = None /\ (got' = None \/ (slot = None /\ got' = got))
    BY <1>6 DEF CloseEnds, Abandon
  <2>4. QED
    BY <2>1, <2>2, <2>3, AroundStep
<1>7. QED
  BY <1>1, <1>2, <1>3, <1>4, <1>5, <1>6

LEMMA StepInvStep == StepInv /\ DataInv /\ [PageNext]_pageVars => StepInv'
<1> SUFFICES ASSUME StepInv, DataInv, [PageNext]_pageVars PROVE StepInv'
  OBVIOUS
<1>1. CASE Operate
  BY <1>1, ReadingStep, MovingStep, QueueStep, CallsReturnStep, SendingStep, FramesStep DEF Operate
<1>2. CASE Timers \/ Around
  BY <1>2, FramesStep, EndsStep DEF Timers, Around
<1>3. CASE Accept \/ CloseStarts \/ CloseEnds
  BY <1>3, QueueStep, EndsStep
<1>4. CASE UNCHANGED pageVars
  <2>1. UNCHANGED <<queue, todo, coming, page, called, calls, slot, sends, outcome, late, got, typed, atMax>>
    BY <1>4 DEF pageVars, running, wire, max, sending
  <2>2. RunInv'
    BY <2>1 DEF StepInv, RunInv, chat
  <2>3. CallInv' /\ SlotInv' /\ ConfirmedOwn'
    BY <2>1 DEF StepInv, CallInv, SlotInv, ConfirmedOwn, AtSend
  <2>4. QED
    BY <2>2, <2>3 DEF StepInv
<1>5. QED
  BY <1>1, <1>2, <1>3, <1>4 DEF PageNext

-----------------------------------------------------------------------------
(* What the other variables range over. *)

ProgressOK == rescue \in {"none", "restart", "render"} /\ snapshot \subseteq Chat

LEMMA ProgressKeeps ==
  /\ ProgressOK /\ Go => ProgressOK'
  /\ \A s : ProgressOK /\ Then(s) => ProgressOK'
  /\ \A q : Begin(q) => ProgressOK'
  /\ Answered => ProgressOK'
  /\ \A reason : ProgressOK /\ Throw(reason) => ProgressOK'
BY DEF ProgressOK, Go, Then, Begin, Answered, Throw

LEMMA ChatFact ==
  ASSUME RunInv, queue # <<>>
  PROVE  chat \in Chat \cup {None}
<1>1. Head(queue) \in Request
  BY HeadTailProperties DEF RunInv
<1>2. QED
  BY <1>1 DEF Request, chat

LEMMA DataReading ==
  ASSUME StepInv, DataInv,
         EnsureAdapter \/ ReadChats \/ ReplaceChats \/ Decide \/ Try \/ UseInterface \/ OpenHistory
         \/ Ready \/ Finish \/ CallsReturn
  PROVE  DataInv'
<1> USE ProgressKeeps DEF DataInv, ProgressOK, wire, max, sending
<1>1. CASE EnsureAdapter
  BY <1>1 DEF EnsureAdapter
<1>2. CASE ReadChats
  BY <1>2 DEF ReadChats
<1>3. CASE ReplaceChats
  BY <1>3 DEF ReplaceChats
<1>4. CASE Decide
  BY <1>4 DEF Decide
<1>5. CASE Try
  BY <1>5 DEF Try
<1>6. CASE UseInterface \/ Ready \/ Finish
  BY <1>6 DEF UseInterface, Ready, Finish
<1>7. CASE OpenHistory
  <2>1. chat \in Chat \cup {None}
    BY <1>7, ChatFact DEF OpenHistory, At, StepInv
  <2>2. adapter' \in [chats : SUBSET Chat, selected : Chat \cup {None}, known : BOOLEAN]
    BY <1>7, <2>1 DEF OpenHistory
  <2>3. QED
    BY <1>7, <2>2 DEF OpenHistory
<1>8. CASE CallsReturn
  BY <1>8 DEF CallsReturn
<1>9. QED
  BY <1>1, <1>2, <1>3, <1>4, <1>5, <1>6, <1>7, <1>8

LEMMA DataMoving ==
  ASSUME StepInv, DataInv, Activate \/ Reload \/ Background \/ Accept \/ PageGone
  PROVE  DataInv'
<1> USE ProgressKeeps DEF DataInv, ProgressOK, wire, max, sending
<1>1. CASE Activate
  <2>1. chat \in Chat \cup {None} /\ snapshot \subseteq Chat
    BY <1>1, ChatFact DEF Activate, At, StepInv
  <2>2. page' \in [at : Chat \cup {None}, app : BOOLEAN]
    <3>1. \A other \in Chat \cup {None} :
            [page EXCEPT !.at = other] \in [at : Chat \cup {None}, app : BOOLEAN]
      OBVIOUS
    <3>2. \A up \in BOOLEAN, other \in Chat \cup {None} :
            [at |-> other, app |-> up] \in [at : Chat \cup {None}, app : BOOLEAN]
      BY Zenon
    <3>3. QED
      BY <1>1, <2>1, <3>1, <3>2 DEF Activate, NewDocument, Routed
  <2>3. ProgressOK'
    BY <1>1 DEF Activate, running
  <2>4. typed' \subseteq 1 .. sends
    BY <1>1 DEF Activate, NewDocument, Routed
  <2>5. QED
    BY <1>1, <2>2, <2>3, <2>4 DEF Activate
<1>2. CASE Reload
  <2>a. page' \in [at : Chat \cup {None}, app : BOOLEAN]
    BY <1>2 DEF Reload, NewDocument
  <2>b. typed' \subseteq 1 .. sends
    BY <1>2 DEF Reload, NewDocument
  <2>1. page' \in [at : Chat \cup {None}, app : BOOLEAN] /\ typed' \subseteq 1 .. sends
    BY <2>a, <2>b
  <2>2. QED
    BY <1>2, <2>1 DEF Reload
<1>3. CASE Background
  <2>1. page' \in [at : Chat \cup {None}, app : BOOLEAN] /\ typed' \subseteq 1 .. sends
    BY <1>3 DEF Background, NewDocument
  <2>2. adapter' \in [chats : SUBSET Chat, selected : Chat \cup {None}, known : BOOLEAN]
    BY <1>3 DEF Background
  <2>3. QED
    BY <1>3, <2>1, <2>2 DEF Background
<1>4. CASE Accept
  BY <1>4 DEF Accept
<1>5. CASE PageGone
  BY <1>5 DEF PageGone, Abandon
<1>6. QED
  BY <1>1, <1>2, <1>3, <1>4, <1>5

LEMMA DataSending ==
  ASSUME StepInv, DataInv, Arm \/ Attach \/ Enter \/ SendReturns \/ SendTimesOut
  PROVE  DataInv'
<1> USE ProgressKeeps DEF DataInv, ProgressOK, wire, max, sending
<1>1. sends \in Nat
  BY DEF StepInv, SlotInv
<1>2. CASE Arm
  BY <1>1, <1>2 DEF Arm
<1>3. CASE Attach
  BY <1>3 DEF Attach, Abandon
<1>4. CASE Enter
  <2>1. sends > 0
    BY <1>4 DEF Enter, At, StepInv, SlotInv, AtSend, Armed
  <2>2. typed' \subseteq 1 .. sends
    <3>1. sends \in 1 .. sends
      BY <1>1, <2>1
    <3>2. QED
      BY <1>4, <3>1 DEF Enter
  <2>3. QED
    BY <1>4, <2>2 DEF Enter, Abandon
<1>5. CASE SendReturns \/ SendTimesOut
  BY <1>5 DEF SendReturns, SendTimesOut, running
<1>6. QED
  BY <1>2, <1>3, <1>4, <1>5

LEMMA DataFrames ==
  ASSUME StepInv, DataInv,
         \/ MakeCalls
         \/ \E c \in calls : Transmit(c) \/ CallTimesOut(c) \/ TransmitFails(c)
         \/ \E f \in atMax : Answer(f)
         \/ \E n \in typed : Confirm(n)
  PROVE  DataInv'
<1> USE DEF DataInv, running, wire, max, sending
<1>1. sends \in Nat
  BY DEF StepInv, SlotInv
<1>2. CASE MakeCalls
  <2>1. Head(todo) \in Step
    BY <1>2, TodoFact, HeadTailProperties DEF MakeCalls, At, StepInv, RunInv
  <2>2. Len(Head(todo).opcodes) \in Nat
    BY <2>1, LenProperties DEF Step, Opcodes
  <2>3. sequence' \in 0 .. Band - 1
    <3>1. /\ Band \in Nat \ {0} /\ sequence \in Nat
          /\ sequence' = (sequence + Len(Head(todo).opcodes)) % Band
      BY <1>2, PageAssumption DEF MakeCalls, At, After
    <3>2. sequence + Len(Head(todo).opcodes) \in Nat
      BY <3>1, <2>2
    <3>3. \E r \in 0 .. Band - 1 : (sequence + Len(Head(todo).opcodes)) % Band = r
      BY <3>1, <3>2, Division, Zenon
    <3>4. QED
      BY <3>1, <3>3
  <2>4. QED
    BY <1>2, <2>3 DEF MakeCalls
<1>3. ASSUME NEW c \in calls, Transmit(c) PROVE DataInv'
  BY <1>3 DEF Transmit
<1>4. ASSUME NEW c \in calls, CallTimesOut(c) \/ TransmitFails(c) PROVE DataInv'
  BY <1>4 DEF CallTimesOut, TransmitFails, Reject
<1>5. ASSUME NEW f \in atMax, Answer(f) PROVE DataInv'
  <2>1. joined' \subseteq Chat
    BY <1>5 DEF Answer
  <2>2. got' \in {None} \cup 0 .. sends
    BY <1>1, <1>5 DEF Answer, ResolvePendingSend
  <2>3. QED
    BY <1>5, <2>1, <2>2 DEF Answer
<1>6. ASSUME NEW n \in typed, Confirm(n) PROVE DataInv'
  <2>1. got' \in {None} \cup 0 .. sends
    BY <1>1, <1>6 DEF Confirm, ResolvePendingSend
  <2>2. QED
    BY <1>6, <2>1 DEF Confirm
<1>7. QED
  BY <1>2, <1>3, <1>4, <1>5, <1>6

LEMMA DataEnds ==
  ASSUME DataInv,
         AppStarts \/ SocketOpens \/ SocketLost \/ SocketClosed \/ CloseStarts \/ CloseEnds
         \/ UNCHANGED pageVars
  PROVE  DataInv'
<1> USE DEF DataInv, running, wire, max, sending
<1>1. CASE AppStarts
  BY <1>1 DEF AppStarts
<1>2. CASE SocketOpens
  BY <1>2 DEF SocketOpens
<1>3. CASE SocketLost
  BY <1>3, PageAssumption DEF SocketLost
<1>4. CASE SocketClosed \/ CloseStarts
  BY <1>4 DEF SocketClosed, CloseStarts, Reject
<1>5. CASE CloseEnds
  <2>1. adapter' \in [chats : SUBSET Chat, selected : Chat \cup {None}, known : BOOLEAN]
    BY <1>5 DEF CloseEnds, NoAdapter
  <2>2. QED
    BY <1>5, <2>1 DEF CloseEnds, Abandon
<1>6. CASE UNCHANGED pageVars
  BY <1>6 DEF pageVars
<1>7. QED
  BY <1>1, <1>2, <1>3, <1>4, <1>5, <1>6

LEMMA PageInitially == PageInit => PageInv
<1> SUFFICES ASSUME PageInit PROVE PageInv
  OBVIOUS
<1>1. coming \in Seq(Request) /\ joined \subseteq Chat
  BY ScenarioAssumption DEF PageInit
<1>2. RunInv
  BY <1>1, EmptySeq DEF PageInit, RunInv, Ordered
<1>3. CallInv /\ SlotInv /\ ConfirmedOwn
  BY DEF PageInit, CallInv, SlotInv, ConfirmedOwn, AtSend
<1>4. DataInv
  BY <1>1, PageAssumption DEF PageInit, DataInv, NoAdapter, Home
<1>5. QED
  BY <1>2, <1>3, <1>4 DEF PageInv, StepInv

LEMMA PageInvStep == PageInv /\ [PageNext]_pageVars => PageInv'
<1> SUFFICES ASSUME StepInv, DataInv, [PageNext]_pageVars PROVE StepInv' /\ DataInv'
  BY DEF PageInv
<1>1. StepInv'
  BY StepInvStep
<1>2. DataInv'
  BY DataReading, DataMoving, DataSending, DataFrames, DataEnds
     DEF PageNext, Operate, Timers, Around
<1>3. QED
  BY <1>1, <1>2

\* What an operation has reached, its calls, the slot and the queue fit together in every state.
THEOREM PageInvariant == PageSpec => []PageInv
BY PageInvStep, PageInitially, PTL DEF PageSpec

LEMMA PageInvTypes == PageInv => PageTypeOK
<1> SUFFICES ASSUME PageInv PROVE PageTypeOK
  OBVIOUS
<1>1. slot \in {None} \cup 1 .. sends /\ sends \in Nat
  BY DEF PageInv, StepInv, SlotInv
<1>2. QED
  BY <1>1 DEF PageInv, StepInv, RunInv, CallInv, DataInv, PageTypeOK

\* The queue, the steps and the bookkeeping of a session's page are what the handler takes them for.
THEOREM AlwaysPageTypeOK == PageSpec => []PageTypeOK
BY PageInvTypes, PageInvariant, PTL

LEMMA PageInvSends == PageInv => SendSlotOwned /\ ConfirmedOwn
BY DEF PageInv, StepInv, SlotInv, AtSend, Armed, SendSlotOwned

\* pendingSend belongs to the send that runs; its timer, MAX's answers and close leave it to no
\* other (sendText, resolvePendingSend, clearPendingSend).
THEOREM AlwaysSendSlotOwned == PageSpec => []SendSlotOwned
BY PageInvSends, PageInvariant, PTL

\* A send is confirmed with another message's id only if an older confirmation was outstanding
\* when it began (observeSocket, resolvePendingSend).
THEOREM AlwaysConfirmedOwn == PageSpec => []ConfirmedOwn
BY PageInvSends, PageInvariant, PTL

\* Text is entered while the page shows the chat of the request.
LEMMA TypedStep ==
  PageInv /\ [PageNext]_pageVars => [typed' \ typed # {} => page.at = chat]_pageVars
<1> SUFFICES ASSUME PageInv, [PageNext]_pageVars, typed' \ typed # {}
             PROVE  page.at = chat
  OBVIOUS
<1>1. CASE Enter
  <2>1. todo # <<>> /\ todo[1].do = "enter" /\ 1 \in DOMAIN todo
    BY <1>1, TodoFact DEF Enter, At, PageInv, StepInv, RunInv
  <2>2. QED
    BY <2>1 DEF PageInv, StepInv, RunInv, Opens
<1>2. CASE ~Enter
  <2>1. typed' \subseteq typed
    <3> USE DEF max, pageVars
    <3>1. CASE Operate
      BY <1>2, <3>1 DEF Operate, EnsureAdapter, ReadChats, ReplaceChats, Decide, Try, UseInterface,
         OpenHistory, Finish, MakeCalls, CallsReturn, Arm, Attach, SendReturns, Activate,
         NewDocument, Reload, Ready, Background, PageGone
    <3>2. CASE Timers \/ Around
      BY <3>2 DEF Timers, Around, SendTimesOut, CallTimesOut, TransmitFails, Transmit, Answer,
         Confirm, AppStarts, SocketOpens, SocketLost, SocketClosed
    <3>3. CASE Accept \/ CloseStarts \/ CloseEnds \/ UNCHANGED pageVars
      BY <3>3 DEF Accept, CloseStarts, CloseEnds
    <3>4. QED
      BY <3>1, <3>2, <3>3 DEF PageNext
  <2>2. QED
    BY <2>1
<1>3. QED
  BY <1>1, <1>2

\* A message is typed in its own chat: between the step that shows the chat and the one that
\* enters the text nothing leaves it (activateChat, sendText, request-handler's queue).
THEOREM AlwaysTypedInOwnChat == PageSpec => TypedInOwnChat
BY TypedStep, PageInvariant, PTL DEF PageSpec, TypedInOwnChat

-----------------------------------------------------------------------------
(* AnswersOwn is about the sequence numbers of MaxWireClient: they are the *)
(* made frames' numbers modulo the band, and no frame that can still be    *)
(* answered is a band older than another.                                  *)

CallRecord == [seq : Nat, opcode : Nat, made : Nat, chat : Chat \cup {None}, sent : BOOLEAN]

\* Every frame has its own number, and those that are still answered are of one band; the
\* calls that wait are of the last step.
WireInv ==
  /\ made \in Nat /\ sequence = made % Band /\ calls \subseteq CallRecord
  /\ \A c \in calls : c.made <= made /\ made - c.made < 3 /\ c.seq = c.made % Band
  /\ \A f \in atMax : /\ f.made \in Nat /\ f.made <= made /\ made - f.made < Band
                      /\ f.seq = f.made % Band

LEMMA MakeCallsWire ==
  ASSUME PageInv, WireInv, MakeCalls
  PROVE  WireInv'
<1> DEFINE ops == Head(todo).opcodes
<1>1. ops \in Seq(Nat) /\ Len(ops) \in Nat /\ Len(ops) <= 3 /\ DOMAIN ops = 1 .. Len(ops)
  <2>1. Head(todo) \in Step
    BY HeadTailProperties DEF PageInv, StepInv, RunInv, MakeCalls, At
  <2>2. QED
    BY <2>1, LenProperties DEF Step, Opcodes
<1>2. chat \in Chat \cup {None}
  BY ChatFact DEF PageInv, StepInv, MakeCalls, At
<1>3. /\ calls' = {[seq |-> After(sequence, i), opcode |-> ops[i], made |-> made + i,
                    chat |-> chat, sent |-> FALSE] : i \in DOMAIN ops}
      /\ sequence' = After(sequence, Len(ops)) /\ made' = made + Len(ops)
      /\ atMax' = {f \in atMax : made' - f.made < Band}
  BY DEF MakeCalls
<1>4. \A k \in Nat : After(sequence, k) = (made + k) % Band /\ After(sequence, k) \in Nat
  BY BandFact, ModAdd DEF After, WireInv
<1> HIDE DEF ops
<1>5. \A i \in 1 .. Len(ops) : ops[i] \in Nat /\ i \in Nat
  BY <1>1, ElementOfSeq
<1>6. made' \in Nat /\ sequence' = made' % Band
  BY <1>1, <1>3, <1>4 DEF WireInv
<1>7. ASSUME NEW c \in calls'
      PROVE  c \in CallRecord /\ c.made <= made' /\ made' - c.made < 3 /\ c.seq = c.made % Band
  <2>1. PICK i \in 1 .. Len(ops) :
          c = [seq |-> After(sequence, i), opcode |-> ops[i], made |-> made + i,
               chat |-> chat, sent |-> FALSE]
    BY <1>1, <1>3
  <2>2. After(sequence, i) \in Nat /\ After(sequence, i) = (made + i) % Band /\ ops[i] \in Nat
        /\ made + i \in Nat
    BY <1>4, <1>5 DEF WireInv
  <2>3. c \in CallRecord
    BY <1>2, <2>1, <2>2 DEF CallRecord
  <2>4. c.made = made + i /\ c.seq = (made + i) % Band
    BY <2>1, <2>2
  <2>5. QED
    BY <1>1, <1>3, <2>3, <2>4 DEF WireInv
<1>8. \A f \in atMax' : /\ f.made \in Nat /\ f.made <= made' /\ made' - f.made < Band
                        /\ f.seq = f.made % Band
  BY <1>1, <1>3 DEF WireInv
<1>9. QED
  BY <1>6, <1>7, <1>8 DEF WireInv

LEMMA TransmitWire ==
  ASSUME WireInv, NEW c \in calls, Transmit(c)
  PROVE  WireInv'
<1> DEFINE d == [c EXCEPT !.sent = TRUE]
           g == [seq |-> c.seq, opcode |-> c.opcode, made |-> c.made, chat |-> c.chat]
<1>1. c \in CallRecord /\ c.made <= made /\ made - c.made < 3 /\ c.seq = c.made % Band
  BY DEF WireInv
<1>2. d \in CallRecord /\ d.made = c.made /\ d.seq = c.seq
  BY <1>1 DEF CallRecord
<1>3. g.made = c.made /\ g.seq = c.seq /\ c.made \in Nat
  BY <1>1 DEF CallRecord
<1>4. calls' = (calls \ {c}) \cup {d} /\ atMax' = atMax \cup {g} /\ UNCHANGED <<made, sequence>>
  BY DEF Transmit
<1> HIDE DEF d, g
<1>5. \A x \in calls' : x \in CallRecord /\ x.made <= made /\ made - x.made < 3 /\ x.seq = x.made % Band
  BY <1>1, <1>2, <1>4 DEF WireInv
<1>6. \A f \in atMax' : /\ f.made \in Nat /\ f.made <= made /\ made - f.made < Band
                        /\ f.seq = f.made % Band
  BY <1>1, <1>3, <1>4, BandFact DEF WireInv
<1>7. QED
  BY <1>4, <1>5, <1>6 DEF WireInv

\* No other step makes a frame.
LEMMA OtherWire ==
  ASSUME PageInv, [PageNext]_pageVars, ~MakeCalls, \A c \in calls : ~Transmit(c)
  PROVE  calls' \subseteq calls /\ atMax' \subseteq atMax /\ UNCHANGED <<made, sequence>>
<1> USE DEF wire, max, pageVars
<1>1. CASE Operate
  BY <1>1 DEF Operate, EnsureAdapter, ReadChats, ReplaceChats, Decide, Try, UseInterface,
     OpenHistory, Finish, CallsReturn, Arm, Attach, Enter, SendReturns, Activate,
     NewDocument, Reload, Ready, Background, PageGone
<1>2. CASE Timers \/ Around
  BY <1>2 DEF Timers, Around, SendTimesOut, CallTimesOut, Reject, TransmitFails, Answer,
     Confirm, AppStarts, SocketOpens, SocketLost, SocketClosed
<1>3. CASE Accept \/ CloseStarts \/ CloseEnds \/ UNCHANGED pageVars
  BY <1>3 DEF Accept, CloseStarts, CloseEnds
<1>4. QED
  BY <1>1, <1>2, <1>3 DEF PageNext

LEMMA WireInitially == PageInit => WireInv
<1>1. 0 % Band = 0
  BY BandFact
<1>2. QED
  BY <1>1 DEF PageInit, WireInv

LEMMA WireInvStep == PageInv /\ WireInv /\ [PageNext]_pageVars => WireInv'
BY MakeCallsWire, TransmitWire, OtherWire DEF WireInv

\* The frames that can still be answered carry different numbers in every state.
THEOREM WireInvariant == PageSpec => []WireInv
BY WireInitially, WireInvStep, PageInvariant, PTL DEF PageSpec

\* A frame that is answered, for a call that ends, is the one the call made.
OwnAnswer(f, c) ==
  f \notin atMax' /\ c.made \notin {d.made : d \in calls'} /\ maxSocket' = maxSocket => f.made = c.made

LEMMA AnswerStep ==
  PageInv /\ WireInv /\ [PageNext]_pageVars => [\A f \in atMax, c \in calls : OwnAnswer(f, c)]_pageVars
<1> SUFFICES ASSUME PageInv, WireInv, [PageNext]_pageVars,
                    NEW f \in atMax, NEW c \in calls, f \notin atMax',
                    c.made \notin {d.made : d \in calls'}, maxSocket' = maxSocket
             PROVE  f.made = c.made
  BY DEF OwnAnswer
<1>1. called = TRUE /\ todo # <<>> /\ Head(todo).do = "call" /\ c \notin calls'
  BY DEF PageInv, StepInv, CallInv
<1>2. \E g \in atMax : Answer(g) /\ g = f
  <2> USE DEF wire, max, pageVars
  <2>1. CASE Operate
    BY <1>1, <2>1 DEF Operate, EnsureAdapter, ReadChats, ReplaceChats, Decide, Try, UseInterface,
       OpenHistory, Finish, MakeCalls, CallsReturn, Arm, Attach, Enter, SendReturns, Activate,
       Reload, Ready, Background, PageGone, At
  <2>2. CASE Timers
    BY <2>2 DEF Timers, SendTimesOut, CallTimesOut, TransmitFails
  <2>3. CASE Around
    <3>1. ASSUME NEW e \in calls, Transmit(e) PROVE FALSE
      BY <3>1 DEF Transmit
    <3>2. ASSUME NEW n \in typed, Confirm(n) PROVE FALSE
      BY <3>2 DEF Confirm
    <3>3. ASSUME AppStarts \/ SocketOpens \/ SocketClosed PROVE FALSE
      BY <3>3 DEF AppStarts, SocketOpens, SocketClosed
    <3>4. ASSUME SocketLost PROVE FALSE
      BY <1>1, <3>4 DEF SocketLost
    <3>5. ASSUME NEW g \in atMax, Answer(g) PROVE g = f
      BY <3>5 DEF Answer
    <3>6. QED
      BY <2>3, <3>1, <3>2, <3>3, <3>4, <3>5 DEF Around
  <2>4. CASE Accept \/ CloseStarts \/ CloseEnds \/ UNCHANGED pageVars
    BY <1>1, <2>4 DEF Accept, CloseStarts, CloseEnds
  <2>5. QED
    BY <2>1, <2>2, <2>3, <2>4 DEF PageNext
<1>3. c.seq = f.seq
  BY <1>1, <1>2 DEF Answer
<1>4. /\ c.made \in Nat /\ f.made \in Nat /\ c.made % Band = f.made % Band
      /\ f.made - c.made < Band /\ c.made - f.made < Band
  BY <1>3, BandFact DEF WireInv, CallRecord
<1>5. QED
  BY <1>4, BandFact, ModUnique

\* A call that MAX answered waited for the frame that was answered: though the numbers go
\* round, no two frames of one band have the same (nextSequence, handleFrame).
THEOREM AlwaysAnswersOwn == PageSpec => AnswersOwn
BY AnswerStep, PageInvariant, WireInvariant, PTL DEF PageSpec, AnswersOwn, OwnAnswer

====
