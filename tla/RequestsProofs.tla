--------------------------- MODULE RequestsProofs ---------------------------
(***************************************************************************)
(* No file stays in the shared directory without somebody who removes it:  *)
(* proofs for any number of requests under way, and of stops and kills.     *)
(***************************************************************************)
EXTENDS Requests, SequenceTheorems, TLAPS

Steps      == {"idle", "directory", "write", "session", "asked", "unlink", "rmdir"}
ServedEntries    == [pc : Steps, route : DOMAIN Routes \cup {"none"}, number : 0 .. MaxServed, code : Codes]
Operations == {Routes[r].operation : r \in DOMAIN Routes}
QueuedTasks      == [number : Numbers, operation : Operations, step : {"waiting", "attaching", "writing"}]

\* A request under way has a number of its own, and what its route is made of is known.
ServedInv ==
    \A t \in Serving : served[t].pc # "idle" =>
        /\ served[t].number \in 1 .. requests
        /\ served[t].route \in DOMAIN Routes
        /\ served[t].pc \in {"directory", "write", "unlink", "rmdir"} => served[t].route = "attachment"
        /\ \A u \in Serving : u # t /\ served[u].pc # "idle" => served[u].number # served[t].number

\* The directory of an attachment is there from its creation to its removal, the file never
\* without it; no other request has one.  A directory is left without its request only when the
\* API was killed.
AttachmentsInv ==
    /\ directories \subseteq 1 .. requests
    /\ uploads \subseteq directories
    /\ \A t \in Serving :
         /\ served[t].pc = "write" => served[t].number \in directories
         /\ served[t].pc = "rmdir" => served[t].number \notin uploads
         /\ served[t].pc \in {"session", "asked"} /\ served[t].route # "attachment" =>
              served[t].number \notin directories
    /\ \A n \in directories \ left : \E t \in Serving :
         served[t].number = n /\ served[t].pc \in {"write", "session", "asked", "unlink", "rmdir"}

\* Only the first operation of the worker's queue has begun, and only media is written.
LineInv ==
    \A i \in DOMAIN inLine :
        /\ inLine[i].step = "writing" => inLine[i].operation = "media.open"
        /\ i > 1 => inLine[i].step = "waiting"

\* Media that nobody removes was on disk when the worker ended.  After its stop nothing is kept or
\* written but what was written then.
MediaInv ==
    /\ onDisk \subseteq kept \cup removing \cup Writing \cup left
    /\ worker = "closing" => kept \cup Writing \subseteq left
    /\ worker = "down" => kept = {} /\ inLine = <<>>

RequestsInv == RequestsTypeOK /\ ServedInv /\ AttachmentsInv /\ LineInv /\ MediaInv

-----------------------------------------------------------------------------
(* What the operators return *)

\* A route refuses with a code.
LEMMA RefusalCode ==
    ASSUME NEW name \in DOMAIN Routes, NEW wrong \in Routes[name].refused
    PROVE  Refusal[wrong] \in Codes
<1>1. wrong \in {"principal", "schema", "origin", "confirmation", "body"}
  BY SMTT(60) DEF Routes, Route, Plain, Read, Mutation, Confirmable, TextRoute, RetryRoute, AttachmentRoute,
     EditRoute, DeleteRoute, ForwardRoute, ReactionRoute, ActionRoute, StickersRoute, StickerRoute,
     ChatsRoute, SearchRoute, HistoryRoute, MarkReadRoute, InfoRoute, CommentsRoute, SubscribeRoute,
     LeaveRoute, SettingsRoute, ContactRoute, MediaRoute, LogoutRoute
<1> QED  BY <1>1, SMT DEF Refusal, Codes

\* So does the answer of a route.
LEMMA CodeCode == ASSUME NEW route, NEW outcome PROVE Code(route, outcome) \in Codes
BY SMT DEF Code, Codes

\* The route of attachments is one of the routes.
LEMMA AttachmentIsRoute == "attachment" \in DOMAIN Routes
BY SMT DEF Routes

\* The queue after its first operation has advanced.
LEMMA AdvancedLine ==
    ASSUME inLine \in Seq(QueuedTasks), inLine # <<>>, NEW step \in {"waiting", "attaching", "writing"},
           Advance(step)
    PROVE  /\ inLine' \in Seq(QueuedTasks) /\ inLine' # <<>>
           /\ DOMAIN inLine' = DOMAIN inLine
           /\ inLine'[1] = [Running EXCEPT !.step = step]
           /\ \A i \in DOMAIN inLine : i > 1 => inLine'[i] = inLine[i]
<1>1. Running \in QueuedTasks /\ Tail(inLine) \in Seq(QueuedTasks) /\ Len(Tail(inLine)) = Len(inLine) - 1
  BY HeadTailProperties DEF Running
<1>2. [Running EXCEPT !.step = step] \in QueuedTasks
  BY <1>1, SMT DEF QueuedTasks
<1> DEFINE one == <<[Running EXCEPT !.step = step]>>
<1>3. one \in Seq(QueuedTasks) /\ Len(one) = 1 /\ one[1] = [Running EXCEPT !.step = step]
  BY <1>2, SMT
<1>4. inLine' = one \o Tail(inLine)
  BY DEF Advance
<1> HIDE DEF one
<1> DEFINE rest == Tail(inLine)
<1>5. rest \in Seq(QueuedTasks) /\ Len(rest) = Len(inLine) - 1
  BY <1>1
<1> HIDE DEF rest
<1>13. one \in Seq(QueuedTasks)
  BY <1>3
<1>8. /\ one \o rest \in Seq(QueuedTasks)
      /\ Len(one \o rest) = Len(one) + Len(rest)
      /\ \A i \in 1 .. Len(one) + Len(rest) :
           (one \o rest)[i] = IF i <= Len(one) THEN one[i] ELSE rest[i - Len(one)]
  BY <1>13, <1>5, ConcatProperties, ZenonT(60)
<1>7. inLine' = one \o rest
  BY <1>4 DEF rest
<1>9. Len(inLine) \in Nat \ {0} /\ DOMAIN inLine = 1 .. Len(inLine)
  BY LenProperties, EmptySeq, SMT
<1>6. \A i \in 2 .. Len(inLine) : Tail(inLine)[i - 1] = inLine[i]
  BY LenProperties, SMT
<1>10. \A i \in 2 .. Len(inLine) : rest[i - 1] = inLine[i]
  BY <1>6 DEF rest
<1>11. Len(inLine') = Len(inLine)
  BY <1>3, <1>5, <1>7, <1>8, <1>9, SMT
<1>12. DOMAIN inLine' = 1 .. Len(inLine)
  BY <1>7, <1>8, <1>11, LenProperties, SMT
<1>14. inLine' \in Seq(QueuedTasks) /\ inLine' # <<>> /\ DOMAIN inLine' = DOMAIN inLine
  <2>1. inLine' \in Seq(QueuedTasks) /\ DOMAIN inLine' = DOMAIN inLine
    BY <1>7, <1>8, <1>9, <1>12
  <2>2. inLine' # <<>>
    BY <1>9, <1>11, EmptySeq, SMT
  <2> QED  BY <2>1, <2>2
<1>15. inLine'[1] = one[1]
  BY <1>3, <1>5, <1>7, <1>8, <1>9, SMT
<1>16. \A i \in DOMAIN inLine : i > 1 => inLine'[i] = inLine[i]
  BY <1>3, <1>5, <1>7, <1>8, <1>9, <1>10, SMT
<1> QED  BY <1>3, <1>14, <1>15, <1>16

\* The queue after its first operation has ended.
LEMMA ShorterLine ==
    ASSUME inLine \in Seq(QueuedTasks), inLine # <<>>, inLine' = Tail(inLine)
    PROVE  /\ inLine' \in Seq(QueuedTasks)
           /\ \A i \in DOMAIN inLine' : i + 1 \in DOMAIN inLine /\ inLine'[i] = inLine[i + 1]
BY HeadTailProperties, LenProperties, SMT

\* The types, by the names used here.
LEMMA Typed ==
    RequestsTypeOK <=>
      /\ served \in [Serving -> ServedEntries] /\ requests \in 0 .. MaxServed
      /\ shutdowns \in 0 .. MaxShutdowns /\ inLine \in Seq(QueuedTasks)
      /\ directories \cup uploads \cup onDisk \cup kept \cup removing \cup left \subseteq Numbers
      /\ worker \in {"up", "closing", "down"}
BY DEF RequestsTypeOK, ServedEntries, Steps, QueuedTasks, Operations

-----------------------------------------------------------------------------
(* What the requests under way keep *)

\* How one request may go on: it is over, or it is what it was.
GoesOn(t, r) ==
    /\ r \in ServedEntries
    /\ r.pc # "idle" =>
         /\ served[t].pc # "idle" /\ r.number = served[t].number /\ r.route = served[t].route
         /\ r.pc \in {"directory", "write", "unlink", "rmdir"} => r.route = "attachment"

\* A request that goes on keeps its number to itself.
LEMMA ServedKept ==
    ASSUME RequestsInv, NEW t \in Serving, NEW r, GoesOn(t, r),
           served' = [served EXCEPT ![t] = r], requests' = requests
    PROVE  ServedInv' /\ served' \in [Serving -> ServedEntries]
<1>1. served \in [Serving -> ServedEntries] /\ ServedInv
  BY Typed DEF RequestsInv
<1>2. served' \in [Serving -> ServedEntries]
  BY <1>1, SMT DEF GoesOn
<1>3. ServedInv'
  BY <1>1, SMT DEF GoesOn, ServedInv, ServedEntries
<1> QED  BY <1>2, <1>3

\* The answer of a request: an attachment goes on to the removal of its file.
Ends(t, r) ==
    /\ GoesOn(t, r)
    /\ \/ r.pc = "idle" /\ served[t].route # "attachment"
       \/ r.pc = "unlink" /\ served[t].route = "attachment"

\* The entry of an attachment that is answered.
LEMMA UnlinkEntry ==
    ASSUME NEW e \in ServedEntries, NEW code \in Codes
    PROVE  /\ [e EXCEPT !.code = code, !.pc = "unlink"] \in ServedEntries
           /\ [e EXCEPT !.code = code, !.pc = "unlink"].pc = "unlink"
           /\ [e EXCEPT !.code = code, !.pc = "unlink"].number = e.number
           /\ [e EXCEPT !.code = code, !.pc = "unlink"].route = e.route
<1> DEFINE first == [e EXCEPT !.code = code]
<1> DEFINE r == [first EXCEPT !.pc = "unlink"]
<1>1. first \in ServedEntries /\ first.number = e.number /\ first.route = e.route
  BY SMT DEF ServedEntries
<1>2. "unlink" \in Steps
  BY DEF Steps
<1> HIDE DEF first
<1>3. r \in ServedEntries /\ r.pc = "unlink" /\ r.number = first.number /\ r.route = first.route
  BY <1>1, <1>2, SMT DEF ServedEntries
<1>4. [e EXCEPT !.code = code, !.pc = "unlink"] = r
  BY DEF first
<1> HIDE DEF r
<1> QED  BY <1>1, <1>3, <1>4

LEMMA AnswerEnds ==
    ASSUME RequestsInv, NEW t \in Serving, served[t].pc # "idle", NEW outcome, Answer(t, outcome)
    PROVE  \E r : Ends(t, r) /\ served' = [served EXCEPT ![t] = r]
<1>1. served[t] \in ServedEntries
  BY Typed DEF RequestsInv
<1> DEFINE code == Code(RouteOf(t), outcome)
<1>2. code \in Codes
  BY CodeCode
<1> HIDE DEF code
<1>3. CASE served[t].route = "attachment"
  <2> DEFINE r == [served[t] EXCEPT !.code = code, !.pc = "unlink"]
  <2>4. PICK e \in ServedEntries : e = served[t]
    BY <1>1
  <2>5. /\ [e EXCEPT !.code = code, !.pc = "unlink"] \in ServedEntries
        /\ [e EXCEPT !.code = code, !.pc = "unlink"].pc = "unlink"
        /\ [e EXCEPT !.code = code, !.pc = "unlink"].number = e.number
        /\ [e EXCEPT !.code = code, !.pc = "unlink"].route = e.route
    BY <1>2, UnlinkEntry
  <2>1. r \in ServedEntries /\ r.pc = "unlink" /\ r.number = served[t].number /\ r.route = served[t].route
    BY <2>4, <2>5
  <2>2. served' = [served EXCEPT ![t] = r]
    BY <1>3 DEF Answer, code
  <2> QED  BY <1>3, <2>1, <2>2 DEF Ends, GoesOn
<1>4. CASE served[t].route # "attachment"
  <2>1. Over(code) \in ServedEntries /\ Over(code).pc = "idle"
    BY <1>2, RequestsBounds, SMT DEF Over, ServedEntries, Steps
  <2>2. served' = [served EXCEPT ![t] = Over(code)]
    BY <1>4 DEF Answer, code
  <2> QED  BY <1>4, <2>1, <2>2 DEF Ends, GoesOn
<1> QED  BY <1>3, <1>4

\* An answer leaves every directory with its request, and the files as they are.
LEMMA UploadsKept ==
    ASSUME RequestsInv, NEW t \in Serving, served[t].pc \in {"session", "asked"},
           NEW r, Ends(t, r), served' = [served EXCEPT ![t] = r],
           UNCHANGED <<requests, directories, uploads, left>>
    PROVE  AttachmentsInv'
<1>1. served \in [Serving -> ServedEntries] /\ ServedInv /\ AttachmentsInv
  BY Typed DEF RequestsInv
<1> QED  BY <1>1, SMT DEF Ends, GoesOn, AttachmentsInv, ServedEntries

-----------------------------------------------------------------------------
(* The API's steps *)

\* What the API does alone leaves the worker as it is.
LEMMA WorkerStays ==
    ASSUME RequestsInv, UNCHANGED <<inLine, media, worker, left>>
    PROVE  LineInv' /\ MediaInv'
BY SMT DEF RequestsInv, LineInv, MediaInv, Writing, Running, media

\* The initial states.
LEMMA InitKeeps == RequestsInit => RequestsInv
<1> SUFFICES ASSUME RequestsInit PROVE RequestsInv
  OBVIOUS
<1>1. Over(0) \in ServedEntries /\ Over(0).pc = "idle"
  BY RequestsBounds, SMT DEF Over, ServedEntries, Steps, Codes
<1>2. served \in [Serving -> ServedEntries] /\ \A t \in Serving : served[t].pc = "idle"
  BY <1>1 DEF RequestsInit
<1>3. inLine \in Seq(QueuedTasks) /\ inLine = <<>> /\ DOMAIN inLine = {}
  BY EmptySeq, SMT DEF RequestsInit
<1>4. RequestsTypeOK
  <2>1. requests \in 0 .. MaxServed /\ shutdowns \in 0 .. MaxShutdowns
    BY RequestsBounds, SMT DEF RequestsInit
  <2> QED  BY <1>2, <1>3, <2>1, Typed DEF RequestsInit
<1>5. ServedInv
  BY <1>2 DEF ServedInv
<1>6. AttachmentsInv
  BY <1>2 DEF AttachmentsInv, RequestsInit
<1>7. LineInv
  BY <1>3 DEF LineInv
<1>8. MediaInv
  BY DEF MediaInv, RequestsInit
<1> QED  BY <1>4, <1>5, <1>6, <1>7, <1>8 DEF RequestsInv

LEMMA ReceiveKeeps ==
    ASSUME RequestsInv, NEW t \in Serving, NEW name \in DOMAIN Routes, Receive(t, name)
    PROVE  RequestsInv'
<1>1. /\ served \in [Serving -> ServedEntries] /\ ServedInv /\ AttachmentsInv /\ requests \in Nat
      /\ requests' = requests + 1 /\ requests' \in 1 .. MaxServed /\ served[t].pc = "idle"
      /\ directories' = directories /\ uploads' = uploads /\ left' = left /\ MaxServed \in Nat
  BY Typed, RequestsBounds, SMT DEF RequestsInv, Receive
<1>2. LineInv' /\ MediaInv'
  BY WorkerStays DEF Receive
<1> DEFINE Fresh(r) == /\ r \in ServedEntries
                       /\ r.pc = "idle" \/ (r.pc \in {"directory", "session"} /\ r.number = requests'
                             /\ r.route \in DOMAIN Routes /\ (r.pc = "directory" => r.route = "attachment"))
<1>3. PICK r : Fresh(r) /\ served' = [served EXCEPT ![t] = r]
  <2>1. ASSUME NEW wrong \in Routes[name].refused, served' = [served EXCEPT ![t] = Over(Refusal[wrong])]
        PROVE  \E r : Fresh(r) /\ served' = [served EXCEPT ![t] = r]
    <3>1. Over(Refusal[wrong]) \in ServedEntries /\ Over(Refusal[wrong]).pc = "idle"
      BY RefusalCode, RequestsBounds, SMT DEF Over, ServedEntries, Steps
    <3> QED  BY <2>1, <3>1
  <2> DEFINE r == [pc |-> IF name = "attachment" THEN "directory" ELSE "session", route |-> name,
                   number |-> requests', code |-> 0]
  <2>2. Fresh(r)
    BY <1>1, SMT DEF ServedEntries, Steps, Codes
  <2>3. ASSUME served' = [served EXCEPT ![t] = r]
        PROVE  \E q : Fresh(q) /\ served' = [served EXCEPT ![t] = q]
    BY <2>2, <2>3
  <2> HIDE DEF r, Fresh
  <2>4. \/ \E wrong \in Routes[name].refused : served' = [served EXCEPT ![t] = Over(Refusal[wrong])]
        \/ served' = [served EXCEPT ![t] = r]
    BY DEF Receive, r
  <2> QED  BY <2>1, <2>3, <2>4
<1>4. served' \in [Serving -> ServedEntries]
  BY <1>1, <1>3
<1>5. ServedInv'
  BY <1>1, <1>3, SMT DEF ServedInv, ServedEntries
<1>6. AttachmentsInv'
  BY <1>1, <1>3, SMT DEF AttachmentsInv, ServedInv, ServedEntries
<1>7. RequestsTypeOK'
  BY <1>1, <1>4, Typed, SMT DEF Receive, RequestsInv, RequestsTypeOK, ServedEntries, Steps, media
<1> QED  BY <1>2, <1>5, <1>6, <1>7 DEF RequestsInv

\* The entry of a request that goes on.
LEMMA StepEntry ==
    ASSUME RequestsInv, NEW t \in Serving, NEW pc \in Steps, Step(t, pc)
    PROVE  \E r \in ServedEntries : /\ r.pc = pc /\ r.number = served[t].number /\ r.route = served[t].route
                             /\ served' = [served EXCEPT ![t] = r]
<1>1. PICK e \in ServedEntries : e = served[t]
  BY Typed DEF RequestsInv
<1> DEFINE r == [e EXCEPT !.pc = pc]
<1>2. r \in ServedEntries /\ r.pc = pc /\ r.number = e.number /\ r.route = e.route
  BY SMT DEF ServedEntries
<1>3. served' = [served EXCEPT ![t] = r]
  BY <1>1 DEF Step
<1> QED  BY <1>1, <1>2, <1>3

\* The types of the API's state.
LEMMA ApiTyped ==
    ASSUME RequestsInv, served' \in [Serving -> ServedEntries],
           UNCHANGED <<requests, media, worker, left, shutdowns>>,
           inLine' \in Seq(QueuedTasks), directories' \cup uploads' \subseteq 1 .. requests
    PROVE  RequestsTypeOK'
<1>1. /\ requests' \in 0 .. MaxServed /\ shutdowns' \in 0 .. MaxShutdowns
      /\ worker' \in {"up", "closing", "down"} /\ MaxServed \in Nat
      /\ onDisk' \cup kept' \cup removing' \cup left' \subseteq Numbers
  BY Typed, RequestsBounds DEF RequestsInv, media
<1>2. 1 .. requests \subseteq Numbers
  BY <1>1, SMT DEF Numbers
<1> QED  BY <1>1, <1>2 DEF RequestsTypeOK, ServedEntries, Steps, QueuedTasks, Operations

LEMMA MakeDirectoryKeeps ==
    ASSUME RequestsInv, NEW t \in Serving, MakeDirectory(t)
    PROVE  RequestsInv'
<1>1. served \in [Serving -> ServedEntries] /\ ServedInv /\ AttachmentsInv /\ inLine' \in Seq(QueuedTasks)
  BY Typed DEF RequestsInv, MakeDirectory
<1>2. LineInv' /\ MediaInv'
  BY WorkerStays DEF MakeDirectory
<1>3. /\ served[t].pc = "directory" /\ served[t].number \in 1 .. requests /\ served[t].route = "attachment"
      /\ requests' = requests /\ uploads' = uploads /\ left' = left
  BY <1>1 DEF MakeDirectory, ServedInv
<1>4. PICK r : /\ GoesOn(t, r) /\ served' = [served EXCEPT ![t] = r]
               /\ \/ directories' = directories \cup {served[t].number} /\ r.pc = "write"
                  \/ directories' = directories /\ r.pc = "idle"
  <2>1. CASE directories' = directories \cup {served[t].number} /\ Step(t, "write")
    <3>1. "write" \in Steps
      BY DEF Steps
    <3> QED  BY <1>3, <2>1, <3>1, StepEntry DEF GoesOn
  <2>2. CASE served' = [served EXCEPT ![t] = Over(500)] /\ UNCHANGED directories
    <3>1. Over(500) \in ServedEntries /\ Over(500).pc = "idle"
      BY RequestsBounds, SMT DEF Over, ServedEntries, Steps, Codes
    <3> QED  BY <2>2, <3>1 DEF GoesOn
  <2> QED  BY <2>1, <2>2 DEF MakeDirectory
<1>5. ServedInv' /\ served' \in [Serving -> ServedEntries]
  BY <1>3, <1>4, ServedKept
<1>6. AttachmentsInv'
  <2>1. /\ served'[t] = r /\ \A u \in Serving : u # t => served'[u] = served[u]
        /\ \A u \in Serving : u # t /\ served[u].pc # "idle" => served[u].number # served[t].number
    BY <1>1, <1>3, <1>4 DEF ServedInv
  <2>2. directories' \subseteq 1 .. requests' /\ uploads' \subseteq directories'
    BY <1>1, <1>3, <1>4 DEF AttachmentsInv
  <2>3. ASSUME NEW u \in Serving
        PROVE  /\ served'[u].pc = "write" => served'[u].number \in directories'
               /\ served'[u].pc = "rmdir" => served'[u].number \notin uploads'
               /\ served'[u].pc \in {"session", "asked"} /\ served'[u].route # "attachment" =>
                    served'[u].number \notin directories'
    <3>1. CASE u = t
      BY <1>3, <1>4, <2>1, <3>1 DEF GoesOn
    <3>2. CASE u # t
      BY <1>1, <1>3, <1>4, <2>1, <3>2 DEF AttachmentsInv
    <3> QED  BY <3>1, <3>2
  <2>4. ASSUME NEW n \in directories' \ left'
        PROVE  \E u \in Serving : served'[u].number = n
                 /\ served'[u].pc \in {"write", "session", "asked", "unlink", "rmdir"}
    <3>1. CASE n = served[t].number
      BY <1>1, <1>3, <1>4, <2>1, <3>1 DEF GoesOn, AttachmentsInv
    <3>2. CASE n # served[t].number
      <4>1. n \in directories \ left
        BY <1>3, <1>4, <3>2
      <4>2. PICK u \in Serving : served[u].number = n
                  /\ served[u].pc \in {"write", "session", "asked", "unlink", "rmdir"}
        BY <1>1, <4>1 DEF AttachmentsInv
      <4>3. served'[u] = served[u]
        BY <2>1, <3>2, <4>2
      <4> QED  BY <4>2, <4>3
    <3> QED  BY <3>1, <3>2
  <2> QED  BY <2>2, <2>3, <2>4 DEF AttachmentsInv
<1>7. RequestsTypeOK'
  BY <1>1, <1>5, <1>6, <1>3, ApiTyped DEF AttachmentsInv, MakeDirectory
<1> QED  BY <1>2, <1>5, <1>6, <1>7 DEF RequestsInv

LEMMA WriteFileKeeps ==
    ASSUME RequestsInv, NEW t \in Serving, WriteFile(t)
    PROVE  RequestsInv'
<1>1. served \in [Serving -> ServedEntries] /\ ServedInv /\ AttachmentsInv /\ inLine' \in Seq(QueuedTasks)
  BY Typed DEF RequestsInv, WriteFile
<1>2. LineInv' /\ MediaInv'
  BY WorkerStays DEF WriteFile
<1>3. /\ served[t].pc = "write" /\ served[t].number \in directories /\ served[t].route = "attachment"
      /\ requests' = requests /\ directories' = directories /\ left' = left
      /\ uploads' \in {uploads, uploads \cup {served[t].number}}
  BY <1>1 DEF WriteFile, ServedInv, AttachmentsInv
<1>4. PICK r : GoesOn(t, r) /\ served' = [served EXCEPT ![t] = r] /\ r.pc \in {"session", "unlink"}
  <2>1. CASE Step(t, "session")
    <3>1. "session" \in Steps
      BY DEF Steps
    <3> QED  BY <1>3, <2>1, <3>1, StepEntry DEF GoesOn
  <2>2. CASE Answer(t, "failed")
    BY <1>3, <2>2, AnswerEnds DEF Ends
  <2> QED  BY <2>1, <2>2 DEF WriteFile
<1>5. ServedInv' /\ served' \in [Serving -> ServedEntries]
  BY <1>3, <1>4, ServedKept
<1>6. AttachmentsInv'
  BY <1>1, <1>3, <1>4, SMT DEF AttachmentsInv, ServedInv, GoesOn, ServedEntries
<1>7. RequestsTypeOK'
  BY <1>1, <1>5, <1>6, <1>3, ApiTyped DEF AttachmentsInv, WriteFile
<1> QED  BY <1>2, <1>5, <1>6, <1>7 DEF RequestsInv

LEMMA GivenUpKeeps ==
    ASSUME RequestsInv, NEW t \in Serving, GivenUp(t)
    PROVE  RequestsInv'
<1>1. inLine' \in Seq(QueuedTasks) /\ served[t].pc = "asked" /\ requests' = requests /\ left' = left
  BY Typed DEF RequestsInv, GivenUp
<1>2. LineInv' /\ MediaInv'
  BY WorkerStays DEF GivenUp
<1>3. PICK r : Ends(t, r) /\ served' = [served EXCEPT ![t] = r]
  BY <1>1, AnswerEnds DEF GivenUp
<1>4. ServedInv' /\ served' \in [Serving -> ServedEntries]
  BY <1>1, <1>3, ServedKept DEF Ends
<1>5. AttachmentsInv'
  BY <1>1, <1>3, UploadsKept DEF GivenUp
<1>6. RequestsTypeOK'
  BY <1>1, <1>4, <1>5, ApiTyped DEF AttachmentsInv, GivenUp
<1> QED  BY <1>2, <1>4, <1>5, <1>6 DEF RequestsInv

LEMMA RemoveUploadKeeps ==
    ASSUME RequestsInv, NEW t \in Serving, RemoveUpload(t)
    PROVE  RequestsInv'
<1>1. served \in [Serving -> ServedEntries] /\ ServedInv /\ AttachmentsInv /\ inLine' \in Seq(QueuedTasks)
  BY Typed DEF RequestsInv, RemoveUpload
<1>2. LineInv' /\ MediaInv'
  BY WorkerStays DEF RemoveUpload
<1>3. /\ served[t].pc = "unlink" /\ served[t].route = "attachment"
      /\ requests' = requests /\ directories' = directories /\ left' = left
      /\ uploads' = uploads \ {served[t].number}
  BY <1>1 DEF RemoveUpload, ServedInv
<1>4. PICK r : GoesOn(t, r) /\ served' = [served EXCEPT ![t] = r] /\ r.pc = "rmdir"
  <2>1. "rmdir" \in Steps
    BY DEF Steps
  <2> QED  BY <1>3, <2>1, StepEntry DEF GoesOn, RemoveUpload
<1>5. ServedInv' /\ served' \in [Serving -> ServedEntries]
  BY <1>3, <1>4, ServedKept
<1>6. AttachmentsInv'
  <2>1. /\ served'[t] = r /\ \A u \in Serving : u # t => served'[u] = served[u]
        /\ \A u \in Serving : u # t /\ served[u].pc # "idle" => served[u].number # served[t].number
    BY <1>1, <1>3, <1>4 DEF ServedInv
  <2>2. directories' \subseteq 1 .. requests' /\ uploads' \subseteq directories'
    BY <1>1, <1>3, <1>4 DEF AttachmentsInv
  <2>3. ASSUME NEW u \in Serving
        PROVE  /\ served'[u].pc = "write" => served'[u].number \in directories'
               /\ served'[u].pc = "rmdir" => served'[u].number \notin uploads'
               /\ served'[u].pc \in {"session", "asked"} /\ served'[u].route # "attachment" =>
                    served'[u].number \notin directories'
    <3>1. CASE u = t
      BY <1>3, <1>4, <2>1, <3>1 DEF GoesOn
    <3>2. CASE u # t
      BY <1>1, <1>3, <1>4, <2>1, <3>2 DEF AttachmentsInv
    <3> QED  BY <3>1, <3>2
  <2>4. ASSUME NEW n \in directories' \ left'
        PROVE  \E u \in Serving : served'[u].number = n
                 /\ served'[u].pc \in {"write", "session", "asked", "unlink", "rmdir"}
    <3>1. CASE n = served[t].number
      BY <1>1, <1>3, <1>4, <2>1, <3>1 DEF GoesOn, AttachmentsInv
    <3>2. CASE n # served[t].number
      <4>1. n \in directories \ left
        BY <1>3, <1>4, <3>2
      <4>2. PICK u \in Serving : served[u].number = n
                  /\ served[u].pc \in {"write", "session", "asked", "unlink", "rmdir"}
        BY <1>1, <4>1 DEF AttachmentsInv
      <4>3. served'[u] = served[u]
        BY <2>1, <3>2, <4>2
      <4> QED  BY <4>2, <4>3
    <3> QED  BY <3>1, <3>2
  <2> QED  BY <2>2, <2>3, <2>4 DEF AttachmentsInv
<1>7. RequestsTypeOK'
  BY <1>1, <1>5, <1>6, <1>3, ApiTyped DEF AttachmentsInv, RemoveUpload
<1> QED  BY <1>2, <1>5, <1>6, <1>7 DEF RequestsInv

LEMMA RemoveDirectoryKeeps ==
    ASSUME RequestsInv, NEW t \in Serving, RemoveDirectory(t)
    PROVE  RequestsInv'
<1>1. served \in [Serving -> ServedEntries] /\ ServedInv /\ AttachmentsInv /\ inLine' \in Seq(QueuedTasks)
  BY Typed DEF RequestsInv, RemoveDirectory
<1>2. LineInv' /\ MediaInv'
  BY WorkerStays DEF RemoveDirectory
<1>3. /\ served[t].pc = "rmdir" /\ served[t].number \notin uploads
      /\ requests' = requests /\ directories' = directories \ {served[t].number}
      /\ uploads' = uploads /\ left' = left
  BY <1>1 DEF RemoveDirectory, ServedInv, AttachmentsInv
<1>4. PICK r : GoesOn(t, r) /\ served' = [served EXCEPT ![t] = r] /\ r.pc = "idle"
  <2>1. served[t].code \in Codes
    BY <1>1 DEF ServedEntries
  <2>2. Over(served[t].code) \in ServedEntries /\ Over(served[t].code).pc = "idle"
    BY <2>1, RequestsBounds, SMT DEF Over, ServedEntries, Steps
  <2>3. served' = [served EXCEPT ![t] = Over(served[t].code)]
    BY DEF RemoveDirectory
  <2> QED  BY <2>2, <2>3 DEF GoesOn
<1>5. ServedInv' /\ served' \in [Serving -> ServedEntries]
  BY <1>3, <1>4, ServedKept
<1>6. AttachmentsInv'
  <2>1. /\ served'[t] = r /\ \A u \in Serving : u # t => served'[u] = served[u]
        /\ \A u \in Serving : u # t /\ served[u].pc # "idle" => served[u].number # served[t].number
    BY <1>1, <1>3, <1>4 DEF ServedInv
  <2>2. directories' \subseteq 1 .. requests' /\ uploads' \subseteq directories'
    BY <1>1, <1>3, <1>4 DEF AttachmentsInv
  <2>3. ASSUME NEW u \in Serving
        PROVE  /\ served'[u].pc = "write" => served'[u].number \in directories'
               /\ served'[u].pc = "rmdir" => served'[u].number \notin uploads'
               /\ served'[u].pc \in {"session", "asked"} /\ served'[u].route # "attachment" =>
                    served'[u].number \notin directories'
    <3>1. CASE u = t
      BY <1>3, <1>4, <2>1, <3>1 DEF GoesOn
    <3>2. CASE u # t
      BY <1>1, <1>3, <1>4, <2>1, <3>2 DEF AttachmentsInv
    <3> QED  BY <3>1, <3>2
  <2>4. ASSUME NEW n \in directories' \ left'
        PROVE  \E u \in Serving : served'[u].number = n
                 /\ served'[u].pc \in {"write", "session", "asked", "unlink", "rmdir"}
    <3>1. CASE n = served[t].number
      BY <1>1, <1>3, <1>4, <2>1, <3>1 DEF GoesOn, AttachmentsInv
    <3>2. CASE n # served[t].number
      <4>1. n \in directories \ left
        BY <1>3, <1>4, <3>2
      <4>2. PICK u \in Serving : served[u].number = n
                  /\ served[u].pc \in {"write", "session", "asked", "unlink", "rmdir"}
        BY <1>1, <4>1 DEF AttachmentsInv
      <4>3. served'[u] = served[u]
        BY <2>1, <3>2, <4>2
      <4> QED  BY <4>2, <4>3
    <3> QED  BY <3>1, <3>2
  <2> QED  BY <2>2, <2>3, <2>4 DEF AttachmentsInv
<1>7. RequestsTypeOK'
  BY <1>1, <1>5, <1>6, <1>3, ApiTyped DEF AttachmentsInv, RemoveDirectory
<1> QED  BY <1>2, <1>5, <1>6, <1>7 DEF RequestsInv

LEMMA RequestKeeps ==
    ASSUME RequestsInv, NEW t \in Serving, Request(t)
    PROVE  RequestsInv'
<1>1. /\ served \in [Serving -> ServedEntries] /\ ServedInv /\ AttachmentsInv /\ LineInv /\ MediaInv
      /\ inLine \in Seq(QueuedTasks)
  BY Typed DEF RequestsInv
<1>2. /\ served[t].pc = "session" /\ served[t].number \in 1 .. requests /\ served[t].route \in DOMAIN Routes
      /\ requests \in 0 .. MaxServed /\ MaxServed \in Nat
      /\ requests' = requests /\ directories' = directories /\ uploads' = uploads
      /\ onDisk' = onDisk /\ kept' = kept /\ removing' = removing /\ left' = left /\ worker' = worker
  BY <1>1, Typed, RequestsBounds DEF Request, ServedInv, RequestsInv, media
<1>3. CASE worker = "up" /\ Step(t, "asked")
           /\ inLine' = Append(inLine, [number |-> served[t].number, operation |-> RouteOf(t).operation,
                                        step |-> "waiting"])
  <2> DEFINE new == [number |-> served[t].number, operation |-> RouteOf(t).operation, step |-> "waiting"]
  <2>1. new \in QueuedTasks
    <3>1. served[t].number \in Numbers
      BY <1>2, SMT DEF Numbers
    <3>2. RouteOf(t).operation \in Operations
      BY <1>2 DEF RouteOf, Operations
    <3> QED  BY <3>1, <3>2 DEF QueuedTasks
  <2>2. new.step = "waiting"
    OBVIOUS
  <2>3. inLine' = Append(inLine, new)
    BY <1>3
  <2> HIDE DEF new
  <2>4. /\ inLine' \in Seq(QueuedTasks) /\ Len(inLine') = Len(inLine) + 1 /\ inLine'[Len(inLine) + 1] = new
        /\ \A i \in 1 .. Len(inLine) : inLine'[i] = inLine[i]
    BY <1>1, <2>1, <2>3, AppendProperties, ZenonT(60)
  <2>5. /\ Len(inLine) \in Nat /\ DOMAIN inLine = 1 .. Len(inLine) /\ DOMAIN inLine' = 1 .. Len(inLine')
    BY <1>1, <2>4, LenProperties
  <2>6. LineInv'
    BY <1>1, <2>2, <2>4, <2>5, SMT DEF LineInv
  <2>7. MediaInv'
    <3>1. Writing \subseteq Writing'
      <4>1. CASE inLine = <<>>
        BY <4>1 DEF Writing
      <4>2. CASE inLine # <<>>
        <5>1. inLine' # <<>> /\ Head(inLine') = Head(inLine)
          BY <1>1, <2>4, <2>5, <4>2, HeadTailProperties, EmptySeq, SMT
        <5> QED  BY <5>1 DEF Writing, Running
      <4> QED  BY <4>1, <4>2
    <3> QED  BY <1>1, <1>2, <1>3, <3>1 DEF MediaInv
  <2>8. PICK r \in ServedEntries :
          /\ r.pc = "asked" /\ r.number = served[t].number /\ r.route = served[t].route
          /\ served' = [served EXCEPT ![t] = r]
    <3>1. "asked" \in Steps
      BY DEF Steps
    <3> QED  BY <1>3, <3>1, StepEntry
  <2>9. GoesOn(t, r)
    BY <1>2, <2>8 DEF GoesOn
  <2>10. ServedInv' /\ served' \in [Serving -> ServedEntries]
    BY <1>2, <2>8, <2>9, ServedKept
  <2>11. AttachmentsInv'
    BY <1>1, <1>2, <2>8, SMT DEF AttachmentsInv, ServedEntries
  <2>12. RequestsTypeOK'
    BY <2>4, <2>10, <2>11, <1>2, ApiTyped DEF AttachmentsInv, Request
  <2> QED  BY <2>6, <2>7, <2>10, <2>11, <2>12 DEF RequestsInv
<1>4. CASE Answer(t, "refused") /\ UNCHANGED inLine
  <2>1. PICK r : Ends(t, r) /\ served' = [served EXCEPT ![t] = r]
    BY <1>2, <1>4, AnswerEnds
  <2>2. ServedInv' /\ served' \in [Serving -> ServedEntries]
    BY <1>2, <2>1, ServedKept DEF Ends
  <2>3. AttachmentsInv'
    BY <1>2, <2>1, UploadsKept
  <2>4. LineInv' /\ MediaInv'
    BY <1>4, WorkerStays DEF Request
  <2>5. RequestsTypeOK'
    BY <1>1, <1>2, <1>4, <2>2, <2>3, ApiTyped DEF AttachmentsInv, Request
  <2> QED  BY <2>2, <2>3, <2>4, <2>5 DEF RequestsInv
<1> QED  BY <1>3, <1>4 DEF Request

-----------------------------------------------------------------------------
(* The worker's steps *)

\* The types of the worker's state.
LEMMA WorkerTyped ==
    ASSUME RequestsInv, served' \in [Serving -> ServedEntries], UNCHANGED <<requests, directories, uploads>>,
           inLine' \in Seq(QueuedTasks), onDisk' \cup kept' \cup removing' \cup left' \subseteq Numbers,
           worker' \in {"up", "closing", "down"}, shutdowns' \in 0 .. MaxShutdowns
    PROVE  RequestsTypeOK'
BY Typed DEF RequestsInv, RequestsTypeOK, ServedEntries, Steps, QueuedTasks, Operations

\* What the worker does alone leaves the API as it is, and forgives it nothing new.
LEMMA ApiStays ==
    ASSUME RequestsInv, UNCHANGED atApi, left \subseteq left'
    PROVE  ServedInv' /\ AttachmentsInv' /\ served' \in [Serving -> ServedEntries]
<1>1. served' = served /\ requests' = requests /\ directories' = directories /\ uploads' = uploads
  BY DEF atApi
<1>2. served \in [Serving -> ServedEntries] /\ ServedInv /\ AttachmentsInv
  BY Typed DEF RequestsInv
<1> QED  BY <1>1, <1>2 DEF ServedInv, AttachmentsInv

\* The first operation of the queue.
LEMMA First ==
    ASSUME RequestsInv, inLine # <<>>
    PROVE  /\ 1 \in DOMAIN inLine /\ Running = inLine[1] /\ Running \in QueuedTasks
           /\ Running.number \in Numbers
           /\ Running.step = "writing" => Running.operation = "media.open"
<1>1. inLine \in Seq(QueuedTasks) /\ LineInv
  BY Typed DEF RequestsInv
<1>2. 1 \in DOMAIN inLine /\ Running = inLine[1] /\ Running \in QueuedTasks
  BY <1>1, HeadTailProperties, LenProperties, EmptySeq, SMT DEF Running
<1> QED  BY <1>1, <1>2 DEF LineInv, QueuedTasks

\* When an operation is over nothing is being written.
LEMMA FinishKeeps ==
    ASSUME RequestsInv, inLine # <<>>, NEW outcome, Finish(outcome)
    PROVE  /\ ServedInv' /\ AttachmentsInv' /\ LineInv' /\ served' \in [Serving -> ServedEntries]
           /\ inLine' \in Seq(QueuedTasks) /\ Writing' = {}
           /\ UNCHANGED <<requests, directories, uploads, left, worker, shutdowns>>
<1>1. UNCHANGED <<requests, directories, uploads, left, worker, shutdowns>>
  BY DEF Finish
<1>2. inLine \in Seq(QueuedTasks) /\ LineInv /\ inLine' = Tail(inLine)
  BY Typed DEF RequestsInv, Finish
<1>3. /\ inLine' \in Seq(QueuedTasks)
      /\ \A i \in DOMAIN inLine' : i + 1 \in DOMAIN inLine /\ inLine'[i] = inLine[i + 1]
  BY <1>2, ShorterLine
<1>4. DOMAIN inLine' = 1 .. Len(inLine') /\ Len(inLine') \in Nat
  BY <1>3, LenProperties
<1>5. \A i \in DOMAIN inLine' : inLine'[i].step = "waiting"
  BY <1>2, <1>3, <1>4, SMT DEF LineInv
<1>6. LineInv'
  BY <1>5 DEF LineInv
<1>7. Writing' = {}
  <2>1. CASE inLine' = <<>>
    BY <2>1 DEF Writing
  <2>2. CASE inLine' # <<>>
    <3>1. Head(inLine') = inLine'[1] /\ 1 \in DOMAIN inLine'
      BY <1>3, <1>4, <2>2, HeadTailProperties, EmptySeq, SMT
    <3> QED  BY <1>5, <3>1 DEF Writing, Running
  <2> QED  BY <2>1, <2>2
<1>8. ServedInv' /\ AttachmentsInv' /\ served' \in [Serving -> ServedEntries]
  <2>1. CASE \E t \in Serving : served[t].pc = "asked" /\ served[t].number = Running.number
    <3>1. PICK t \in Serving : served[t].pc = "asked" /\ Answer(t, outcome)
      BY <2>1 DEF Finish
    <3>2. PICK r : Ends(t, r) /\ served' = [served EXCEPT ![t] = r]
      BY <3>1, AnswerEnds
    <3>3. ServedInv' /\ served' \in [Serving -> ServedEntries]
      BY <1>1, <3>2, ServedKept DEF Ends
    <3>4. AttachmentsInv'
      BY <1>1, <3>1, <3>2, UploadsKept
    <3> QED  BY <3>3, <3>4
  <2>2. CASE ~ \E t \in Serving : served[t].pc = "asked" /\ served[t].number = Running.number
    BY <1>1, <2>2, ApiStays DEF Finish, atApi
  <2> QED  BY <2>1, <2>2
<1> QED  BY <1>1, <1>3, <1>6, <1>7, <1>8

\* An operation that has advanced is the first one still.
LEMMA AdvanceKeeps ==
    ASSUME RequestsInv, inLine # <<>>, NEW step \in {"waiting", "attaching", "writing"}, Advance(step),
           step = "writing" => Running.operation = "media.open", UNCHANGED atApi, left' = left
    PROVE  /\ ServedInv' /\ AttachmentsInv' /\ LineInv' /\ served' \in [Serving -> ServedEntries]
           /\ inLine' \in Seq(QueuedTasks) /\ UNCHANGED <<requests, directories, uploads>>
           /\ Writing' = IF step = "writing" THEN {Running.number} ELSE {}
<1>1. inLine \in Seq(QueuedTasks) /\ LineInv
  BY Typed DEF RequestsInv
<1>2. Running \in QueuedTasks /\ Running = inLine[1] /\ 1 \in DOMAIN inLine
  BY First
<1>3. /\ inLine' \in Seq(QueuedTasks) /\ inLine' # <<>> /\ DOMAIN inLine' = DOMAIN inLine
      /\ inLine'[1] = [Running EXCEPT !.step = step]
      /\ \A i \in DOMAIN inLine : i > 1 => inLine'[i] = inLine[i]
  BY <1>1, AdvancedLine
<1>4. PICK e \in QueuedTasks : e = Running
  BY <1>2
<1>5. [e EXCEPT !.step = step].step = step /\ [e EXCEPT !.step = step].number = e.number
      /\ [e EXCEPT !.step = step].operation = e.operation
  BY SMT DEF QueuedTasks
<1>6. inLine'[1].step = step /\ inLine'[1].number = Running.number /\ inLine'[1].operation = Running.operation
  BY <1>3, <1>4, <1>5
<1>7. DOMAIN inLine = 1 .. Len(inLine) /\ Len(inLine) \in Nat
  BY <1>1, LenProperties
<1>8. LineInv'
  <2>1. ASSUME NEW i \in DOMAIN inLine'
        PROVE  /\ inLine'[i].step = "writing" => inLine'[i].operation = "media.open"
               /\ i > 1 => inLine'[i].step = "waiting"
    <3>1. CASE i = 1
      BY <1>6, <3>1, SMT
    <3>2. CASE i # 1
      <4>1. i > 1 /\ i \in DOMAIN inLine
        BY <1>3, <1>7, <3>2, SMT
      <4> QED  BY <1>1, <1>3, <4>1 DEF LineInv
    <3> QED  BY <3>1, <3>2
  <2> QED  BY <2>1 DEF LineInv
<1>9. Head(inLine') = inLine'[1]
  BY <1>3, HeadTailProperties
<1>10. Writing' = IF step = "writing" THEN {Running.number} ELSE {}
  BY <1>3, <1>6, <1>9 DEF Writing, Running
<1>11. ServedInv' /\ AttachmentsInv' /\ served' \in [Serving -> ServedEntries]
  BY ApiStays
<1> QED  BY <1>3, <1>8, <1>10, <1>11 DEF atApi

\* What the media invariant and the types say of the state before a step of the worker.
LEMMA MediaBefore ==
    ASSUME RequestsInv
    PROVE  /\ inLine \in Seq(QueuedTasks) /\ worker \in {"up", "closing", "down"}
           /\ onDisk \cup kept \cup removing \cup left \subseteq Numbers
           /\ shutdowns \in 0 .. MaxShutdowns /\ MaxShutdowns \in Nat
           /\ onDisk \subseteq kept \cup removing \cup Writing \cup left
           /\ worker = "closing" => kept \cup Writing \subseteq left
           /\ worker = "down" => kept = {} /\ inLine = <<>>
BY Typed, RequestsBounds DEF RequestsInv, MediaInv

LEMMA OperationKeeps ==
    ASSUME RequestsInv, Operation
    PROVE  RequestsInv'
<1>1. PICK outcome : inLine # <<>> /\ Finish(outcome) /\ Running.operation # "media.open"
  BY DEF Operation
<1>2. onDisk' = onDisk /\ kept' = kept /\ removing' = removing
  BY DEF Operation, media
<1>3. /\ ServedInv' /\ AttachmentsInv' /\ LineInv' /\ served' \in [Serving -> ServedEntries]
      /\ inLine' \in Seq(QueuedTasks) /\ Writing' = {}
      /\ UNCHANGED <<requests, directories, uploads, left, worker, shutdowns>>
  BY <1>1, FinishKeeps
<1>4. Writing = {}
  BY <1>1, First DEF Writing
<1>5. MediaInv'
  BY <1>1, <1>2, <1>3, <1>4, MediaBefore DEF MediaInv
<1>6. RequestsTypeOK'
  BY <1>2, <1>3, MediaBefore, WorkerTyped
<1> QED  BY <1>3, <1>5, <1>6 DEF RequestsInv

LEMMA AttachmentKeeps ==
    ASSUME RequestsInv, Attachment
    PROVE  RequestsInv'
<1>1. inLine # <<>> /\ Writing = {} /\ onDisk' = onDisk /\ kept' = kept /\ removing' = removing
  BY First DEF Attachment, Writing, media
<1>2. /\ ServedInv' /\ AttachmentsInv' /\ LineInv' /\ served' \in [Serving -> ServedEntries]
      /\ inLine' \in Seq(QueuedTasks) /\ Writing' = {}
      /\ UNCHANGED <<requests, directories, uploads, left, worker, shutdowns>>
  <2>1. CASE Advance("attaching") /\ UNCHANGED <<atApi, worker, left, shutdowns>>
    <3>1. UNCHANGED atApi /\ UNCHANGED <<left, worker, shutdowns>> /\ left' = left
      BY <2>1
    <3> QED  BY <1>1, <2>1, <3>1, AdvanceKeeps
  <2>2. CASE Finish("ok") \/ Finish("failed")
    BY <1>1, <2>2, FinishKeeps
  <2> QED  BY <2>1, <2>2 DEF Attachment
<1>3. MediaInv'
  BY <1>1, <1>2, MediaBefore DEF MediaInv, Attachment
<1>4. RequestsTypeOK'
  BY <1>1, <1>2, MediaBefore, WorkerTyped
<1> QED  BY <1>2, <1>3, <1>4 DEF RequestsInv

LEMMA FetchMediaKeeps ==
    ASSUME RequestsInv, FetchMedia
    PROVE  RequestsInv'
<1>1. inLine # <<>> /\ Running.operation = "media.open" /\ Running.number \in Numbers /\ Writing = {}
  BY First DEF FetchMedia, Writing
<1>2. CASE /\ worker = "up" /\ Advance("writing") /\ onDisk' = onDisk \cup {Running.number}
           /\ UNCHANGED <<atApi, worker, left, shutdowns, kept, removing>>
  <2>1. UNCHANGED atApi /\ UNCHANGED <<left, worker, shutdowns, kept, removing>> /\ left' = left
    BY <1>2
  <2>2. /\ ServedInv' /\ AttachmentsInv' /\ LineInv' /\ served' \in [Serving -> ServedEntries]
        /\ inLine' \in Seq(QueuedTasks) /\ Writing' = {Running.number}
        /\ UNCHANGED <<requests, directories, uploads>>
    BY <1>1, <1>2, <2>1, AdvanceKeeps
  <2>3. MediaInv'
    BY <1>1, <1>2, <2>1, <2>2, MediaBefore DEF MediaInv
  <2>4. RequestsTypeOK'
    BY <1>1, <1>2, <2>1, <2>2, MediaBefore, WorkerTyped
  <2> QED  BY <2>2, <2>3, <2>4 DEF RequestsInv
<1>3. CASE Finish("failed") /\ UNCHANGED media
  <2>1. onDisk' = onDisk /\ kept' = kept /\ removing' = removing
    BY <1>3 DEF media
  <2>2. /\ ServedInv' /\ AttachmentsInv' /\ LineInv' /\ served' \in [Serving -> ServedEntries]
        /\ inLine' \in Seq(QueuedTasks) /\ Writing' = {}
        /\ UNCHANGED <<requests, directories, uploads, left, worker, shutdowns>>
    BY <1>1, <1>3, FinishKeeps
  <2>3. MediaInv'
    BY <1>1, <2>1, <2>2, MediaBefore DEF MediaInv
  <2>4. RequestsTypeOK'
    BY <2>1, <2>2, MediaBefore, WorkerTyped
  <2> QED  BY <2>2, <2>3, <2>4 DEF RequestsInv
<1> QED  BY <1>2, <1>3 DEF FetchMedia

LEMMA StoreMediaKeeps ==
    ASSUME RequestsInv, StoreMedia
    PROVE  RequestsInv'
<1>1. inLine # <<>> /\ Running.number \in Numbers /\ Writing = {Running.number} /\ removing' = removing
  BY First DEF StoreMedia, Writing
<1>2. \/ kept' = kept \cup {Running.number} /\ onDisk' = onDisk
      \/ onDisk' = onDisk \ {Running.number} /\ kept' = kept
  BY DEF StoreMedia
<1>3. /\ ServedInv' /\ AttachmentsInv' /\ LineInv' /\ served' \in [Serving -> ServedEntries]
      /\ inLine' \in Seq(QueuedTasks) /\ Writing' = {}
      /\ UNCHANGED <<requests, directories, uploads, left, worker, shutdowns>>
  BY <1>1, FinishKeeps DEF StoreMedia
<1>4. MediaInv'
  BY <1>1, <1>2, <1>3, MediaBefore DEF MediaInv
<1>5. RequestsTypeOK'
  BY <1>1, <1>2, <1>3, MediaBefore, WorkerTyped
<1> QED  BY <1>3, <1>4, <1>5 DEF RequestsInv

LEMMA CloseSessionKeeps ==
    ASSUME RequestsInv, CloseSession
    PROVE  RequestsInv'
<1>1. inLine # <<>> /\ Writing = {}
  BY First DEF CloseSession, Writing
<1>2. kept' = kept \ kept /\ removing' = removing \cup kept /\ onDisk' = onDisk
  BY DEF CloseSession, Expire
<1>3. /\ ServedInv' /\ AttachmentsInv' /\ LineInv' /\ served' \in [Serving -> ServedEntries]
      /\ inLine' \in Seq(QueuedTasks) /\ Writing' = {}
      /\ UNCHANGED <<requests, directories, uploads, left, worker, shutdowns>>
  BY <1>1, FinishKeeps DEF CloseSession
<1>4. MediaInv'
  BY <1>1, <1>2, <1>3, MediaBefore DEF MediaInv
<1>5. RequestsTypeOK'
  BY <1>2, <1>3, MediaBefore, WorkerTyped
<1> QED  BY <1>3, <1>4, <1>5 DEF RequestsInv

\* What leaves the queue as it is leaves what is being written as it is.
LEMMA LineStays ==
    ASSUME RequestsInv, UNCHANGED inLine
    PROVE  LineInv' /\ inLine' \in Seq(QueuedTasks) /\ Writing' = Writing
BY MediaBefore DEF RequestsInv, LineInv, Writing, Running

LEMMA TimerExpiresKeeps ==
    ASSUME RequestsInv, NEW n \in kept, TimerExpires(n)
    PROVE  RequestsInv'
<1>1. /\ kept' = kept \ {n} /\ removing' = removing \cup {n} /\ onDisk' = onDisk
      /\ UNCHANGED atApi /\ UNCHANGED inLine /\ UNCHANGED <<worker, left, shutdowns>>
  BY DEF TimerExpires, Expire
<1>2. LineInv' /\ inLine' \in Seq(QueuedTasks) /\ Writing' = Writing
  BY <1>1, LineStays
<1>3. ServedInv' /\ AttachmentsInv' /\ served' \in [Serving -> ServedEntries]
  BY <1>1, ApiStays
<1>4. MediaInv'
  BY <1>1, <1>2, MediaBefore DEF MediaInv
<1>5. RequestsTypeOK'
  BY <1>1, <1>2, <1>3, MediaBefore, WorkerTyped DEF atApi
<1> QED  BY <1>2, <1>3, <1>4, <1>5 DEF RequestsInv

LEMMA UnlinkedKeeps ==
    ASSUME RequestsInv, NEW n \in removing, Unlinked(n)
    PROVE  RequestsInv'
<1>1. /\ removing' = removing \ {n} /\ onDisk' = onDisk \ {n} /\ kept' = kept
      /\ UNCHANGED atApi /\ UNCHANGED inLine /\ UNCHANGED <<worker, left, shutdowns>>
  BY DEF Unlinked
<1>2. LineInv' /\ inLine' \in Seq(QueuedTasks) /\ Writing' = Writing
  BY <1>1, LineStays
<1>3. ServedInv' /\ AttachmentsInv' /\ served' \in [Serving -> ServedEntries]
  BY <1>1, ApiStays
<1>4. MediaInv'
  BY <1>1, <1>2, MediaBefore DEF MediaInv
<1>5. RequestsTypeOK'
  BY <1>1, <1>2, <1>3, MediaBefore, WorkerTyped DEF atApi
<1> QED  BY <1>2, <1>3, <1>4, <1>5 DEF RequestsInv

LEMMA ShutDownKeeps ==
    ASSUME RequestsInv, ShutDown
    PROVE  RequestsInv'
<1>1. /\ kept' = kept \ kept /\ removing' = removing \cup kept /\ onDisk' = onDisk
      /\ left' = left \cup Writing /\ worker' = "closing"
      /\ UNCHANGED atApi /\ UNCHANGED inLine
  BY DEF ShutDown, Expire
<1>2. LineInv' /\ inLine' \in Seq(QueuedTasks) /\ Writing' = Writing
  BY <1>1, LineStays
<1>3. ServedInv' /\ AttachmentsInv' /\ served' \in [Serving -> ServedEntries]
  BY <1>1, ApiStays
<1>4. MediaInv'
  BY <1>1, <1>2, MediaBefore DEF MediaInv
<1>5. Writing \subseteq Numbers
  BY First DEF Writing
<1>6. shutdowns' \in 0 .. MaxShutdowns
  BY MediaBefore, SMT DEF ShutDown
<1>7. RequestsTypeOK'
  BY <1>1, <1>2, <1>3, <1>5, <1>6, MediaBefore, WorkerTyped DEF atApi
<1> QED  BY <1>2, <1>3, <1>4, <1>7 DEF RequestsInv

LEMMA ExitKeeps ==
    ASSUME RequestsInv, Exit
    PROVE  RequestsInv'
<1>1. /\ worker = "closing" /\ removing = {} /\ Writing = {} /\ kept' = {} /\ removing' = removing
      /\ onDisk' = onDisk /\ left' = left /\ worker' = "down" /\ inLine' = <<>> /\ shutdowns' = shutdowns
      /\ UNCHANGED atApi
  BY DEF Exit
<1>2. inLine' \in Seq(QueuedTasks) /\ DOMAIN inLine' = {} /\ Writing' = {}
  BY <1>1, EmptySeq, SMT DEF Writing
<1>3. ServedInv' /\ AttachmentsInv' /\ served' \in [Serving -> ServedEntries]
  BY <1>1, ApiStays
<1>4. LineInv'
  BY <1>2 DEF LineInv
<1>5. MediaInv'
  BY <1>1, <1>2, MediaBefore DEF MediaInv
<1>6. RequestsTypeOK'
  BY <1>1, <1>2, <1>3, MediaBefore, WorkerTyped DEF atApi
<1> QED  BY <1>3, <1>4, <1>5, <1>6 DEF RequestsInv

LEMMA RestartKeeps ==
    ASSUME RequestsInv, Restart
    PROVE  RequestsInv'
<1>1. /\ worker' = "up" /\ onDisk' = onDisk /\ kept' = kept /\ removing' = removing /\ left' = left
      /\ shutdowns' = shutdowns /\ UNCHANGED atApi /\ UNCHANGED inLine
  BY DEF Restart, media
<1>2. LineInv' /\ inLine' \in Seq(QueuedTasks) /\ Writing' = Writing
  BY <1>1, LineStays
<1>3. ServedInv' /\ AttachmentsInv' /\ served' \in [Serving -> ServedEntries]
  BY <1>1, ApiStays
<1>4. MediaInv'
  BY <1>1, <1>2, MediaBefore DEF MediaInv
<1>5. RequestsTypeOK'
  BY <1>1, <1>2, <1>3, MediaBefore, WorkerTyped DEF atApi
<1> QED  BY <1>2, <1>3, <1>4, <1>5 DEF RequestsInv

LEMMA WorkerKilledKeeps ==
    ASSUME RequestsInv, WorkerKilled
    PROVE  RequestsInv'
<1>1. /\ kept' = {} /\ removing' = {} /\ onDisk' = onDisk /\ left' = left \cup onDisk
      /\ worker' = "down" /\ inLine' = <<>> /\ UNCHANGED atApi
  BY DEF WorkerKilled
<1>2. inLine' \in Seq(QueuedTasks) /\ DOMAIN inLine' = {}
  BY <1>1, EmptySeq, SMT
<1>3. ServedInv' /\ AttachmentsInv' /\ served' \in [Serving -> ServedEntries]
  BY <1>1, ApiStays
<1>4. LineInv'
  BY <1>2 DEF LineInv
<1>5. MediaInv'
  BY <1>1 DEF MediaInv
<1>6. shutdowns' \in 0 .. MaxShutdowns
  BY MediaBefore, SMT DEF WorkerKilled
<1>7. RequestsTypeOK'
  BY <1>1, <1>2, <1>3, <1>6, MediaBefore, WorkerTyped DEF atApi
<1> QED  BY <1>3, <1>4, <1>5, <1>7 DEF RequestsInv

LEMMA ApiKilledKeeps ==
    ASSUME RequestsInv, ApiKilled
    PROVE  RequestsInv'
<1>1. /\ served' = [t \in Serving |-> Over(0)] /\ left' = left \cup directories
      /\ requests' = requests /\ directories' = directories /\ uploads' = uploads
      /\ onDisk' = onDisk /\ kept' = kept /\ removing' = removing
      /\ worker' = worker /\ UNCHANGED inLine
  BY DEF ApiKilled, media
<1>2. LineInv' /\ inLine' \in Seq(QueuedTasks) /\ Writing' = Writing
  BY <1>1, LineStays
<1>3. Over(0) \in ServedEntries /\ Over(0).pc = "idle"
  BY RequestsBounds, SMT DEF Over, ServedEntries, Steps, Codes
<1>4. served' \in [Serving -> ServedEntries] /\ \A t \in Serving : served'[t].pc = "idle"
  BY <1>1, <1>3
<1>5. ServedInv'
  BY <1>4 DEF ServedInv
<1>6. AttachmentsInv'
  BY <1>1, <1>4 DEF RequestsInv, AttachmentsInv
<1>7. MediaInv'
  BY <1>1, <1>2, MediaBefore DEF MediaInv
<1>8. shutdowns' \in 0 .. MaxShutdowns
  BY MediaBefore, SMT DEF ApiKilled
<1>9. left' \subseteq Numbers
  BY <1>1, Typed DEF RequestsInv
<1>10. RequestsTypeOK'
  BY <1>1, <1>2, <1>4, <1>8, <1>9, MediaBefore, WorkerTyped
<1> QED  BY <1>2, <1>5, <1>6, <1>7, <1>10 DEF RequestsInv

-----------------------------------------------------------------------------

\* Every step of the API and of the worker keeps the invariant.
LEMMA StepKeeps == RequestsInv /\ [RequestsNext]_requestVars => RequestsInv'
<1> SUFFICES ASSUME RequestsInv, [RequestsNext]_requestVars PROVE RequestsInv'
  OBVIOUS
<1>1. CASE \E t \in Serving, name \in DOMAIN Routes : Receive(t, name)
  BY <1>1, ReceiveKeeps
<1>2. CASE \E t \in Serving : \/ MakeDirectory(t) \/ WriteFile(t) \/ Request(t) \/ GivenUp(t)
                              \/ RemoveUpload(t) \/ RemoveDirectory(t)
  BY <1>2, MakeDirectoryKeeps, WriteFileKeeps, RequestKeeps, GivenUpKeeps, RemoveUploadKeeps,
     RemoveDirectoryKeeps
<1>3. CASE Operation \/ Attachment \/ FetchMedia \/ StoreMedia \/ CloseSession
  BY <1>3, OperationKeeps, AttachmentKeeps, FetchMediaKeeps, StoreMediaKeeps, CloseSessionKeeps
<1>4. CASE \E n \in kept : TimerExpires(n)
  BY <1>4, TimerExpiresKeeps
<1>5. CASE \E n \in removing : Unlinked(n)
  BY <1>5, UnlinkedKeeps
<1>6. CASE ShutDown \/ Exit \/ WorkerKilled \/ ApiKilled \/ Restart
  BY <1>6, ShutDownKeeps, ExitKeeps, WorkerKilledKeeps, ApiKilledKeeps, RestartKeeps
<1>7. CASE UNCHANGED requestVars
  <2>1. UNCHANGED atApi /\ UNCHANGED inLine /\ UNCHANGED <<onDisk, kept, removing, left, worker, shutdowns>>
    BY <1>7 DEF requestVars, atApi
  <2>2. LineInv' /\ inLine' \in Seq(QueuedTasks) /\ Writing' = Writing
    BY <2>1, LineStays
  <2>3. ServedInv' /\ AttachmentsInv' /\ served' \in [Serving -> ServedEntries]
    BY <2>1, ApiStays
  <2>4. MediaInv'
    BY <2>1, <2>2, MediaBefore DEF MediaInv
  <2>5. RequestsTypeOK'
    BY <2>1, <2>2, <2>3, MediaBefore, WorkerTyped DEF atApi
  <2> QED  BY <2>2, <2>3, <2>4, <2>5 DEF RequestsInv
<1> QED  BY <1>1, <1>2, <1>3, <1>4, <1>5, <1>6, <1>7 DEF RequestsNext

\* The requests keep their types, their numbers, their directories and the worker's queue and
\* media in order, whatever fails and however often a process is stopped or killed
\* (apps/api/src/routes, apps/worker/src/runtime).
THEOREM RequestsInvariant == RequestsSpec => []RequestsInv
<1>1. RequestsInit => RequestsInv
  BY InitKeeps
<1>2. RequestsInv /\ [RequestsNext]_requestVars => RequestsInv'
  BY StepKeeps
<1> QED  BY <1>1, <1>2, PTL DEF RequestsSpec

\* Nothing private stays in the shared directory: an attachment exists only while its request is
\* served, media only while it is written, kept or removed.  What stays is what a process had in
\* hand when it was ended without its clean-up: the upload directories of the requests the API was
\* serving when it was killed, the media on disk when the worker was killed, and the media being
\* written when it was stopped (the `finally` of apps/api/src/routes/messages.ts,
\* apps/worker/src/media/runtime-media-store.ts).
THEOREM AlwaysFilesHeld == RequestsSpec => []FilesHeld
<1>1. RequestsInv => FilesHeld
  BY DEF RequestsInv, AttachmentsInv, MediaInv, MediaHeld, FilesHeld
<1> QED  BY <1>1, RequestsInvariant, PTL
=============================================================================
