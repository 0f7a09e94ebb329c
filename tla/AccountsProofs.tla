--------------------------- MODULE AccountsProofs ---------------------------
(***************************************************************************)
(* The way in, for any number of users, starts, presses, faults and        *)
(* sessions: nobody is let in whom the administrator has not approved;     *)
(* and for any number of devices, calls and attempts: the limiter of the   *)
(* login to MAX lets nobody guess more often than it says.                 *)
(***************************************************************************)
EXTENDS Accounts, Login, FiniteSetTheorems, TLAPS

\* The two rows of a user agree.
RowsInv ==
  \A u \in Newcomers : /\ account[u] = "approved" <=> approval[u] = "allow"
                       /\ account[u] = "disabled" <=> approval[u] = "reject"

\* A decision that is being told is the one that was made.
LettersInv ==
  \A l \in letters : l.about \in {"allow", "reject"} => approval[l.user] = l.about

AccountsInv == AccountsTypeOK /\ RowsInv /\ LettersInv /\ ApprovedOnly

-----------------------------------------------------------------------------

\* Nothing is there at first.
LEMMA AccountsInvInit == AccountsInit => AccountsInv
BY AccountBounds, SMT DEF AccountsInit, AccountsInv, AccountsTypeOK, RowsInv, LettersInv,
   ApprovedOnly, NoToken

\* The bot: registration, decisions and what is told of them.
LEMMA BotKeepsInv ==
  ASSUME AccountsInv,
         \/ \E u \in Newcomers : Start(u)
         \/ \E u \in Newcomers, d \in {"allow", "reject"} : Press(u, d)
         \/ \E l \in letters : Delivered(l) \/ NotDelivered(l)
  PROVE  AccountsInv'
<1>1. ASSUME NEW u \in Newcomers, Start(u)
      PROVE  AccountsInv'
  <2>1. AccountsTypeOK'
    BY <1>1, AccountBounds, SMT DEF Start, Count, Registered, Requested1, Letter, web,
       AccountsInv, AccountsTypeOK
  <2>2. RowsInv' /\ LettersInv' /\ ApprovedOnly'
    BY <1>1, SMT DEF Start, Registered, Requested1, Letter, web, AccountsInv, AccountsTypeOK,
       RowsInv, LettersInv, ApprovedOnly
  <2> QED  BY <2>1, <2>2 DEF AccountsInv
<1>2. ASSUME NEW u \in Newcomers, NEW d \in {"allow", "reject"}, Press(u, d)
      PROVE  AccountsInv'
  <2>1. AccountsTypeOK'
    BY <1>2, AccountBounds, SMT DEF Press, Count, Decide1, Letter, web, AccountsInv, AccountsTypeOK
  <2>2. RowsInv' /\ LettersInv' /\ ApprovedOnly'
    BY <1>2, SMT DEF Press, Decide1, Letter, web, AccountsInv, AccountsTypeOK,
       RowsInv, LettersInv, ApprovedOnly
  <2> QED  BY <2>1, <2>2 DEF AccountsInv
<1>3. ASSUME NEW l \in letters, Delivered(l)
      PROVE  AccountsInv'
  <2>1. AccountsTypeOK'
    BY <1>3, SMT DEF Delivered, Letter, web, AccountsInv, AccountsTypeOK
  <2>2. RowsInv' /\ LettersInv' /\ ApprovedOnly'
    BY <1>3, SMT DEF Delivered, Letter, web, AccountsInv, AccountsTypeOK,
       RowsInv, LettersInv, ApprovedOnly
  <2> QED  BY <2>1, <2>2 DEF AccountsInv
<1>4. ASSUME NEW l \in letters, NotDelivered(l)
      PROVE  AccountsInv'
  BY <1>4, AccountBounds, SMT DEF NotDelivered, Count, web, AccountsInv, AccountsTypeOK, RowsInv,
     LettersInv, ApprovedOnly
<1> QED  BY <1>1, <1>2, <1>3, <1>4

\* A session found by its cookie and kept is extended, not given to another user.
LEMMA ResolveKeepsUsers ==
  ASSUME AccountsTypeOK, NEW u \in Newcomers, Resolve(u)
  PROVE  /\ \A s \in signedIn' : \E o \in signedIn : s.user = o.user
         /\ signedIn' \subseteq [token : 1 .. MaxSignIns, user : Newcomers,
                                 expires : 0 .. LastTick + IdleTicks]
<1>1. tick + IdleTicks \in 0 .. LastTick + IdleTicks
  BY AccountBounds, SMT DEF AccountsTypeOK
<1> QED  BY <1>1, SMT DEF Resolve, Held, Alive1, AccountsTypeOK

\* The Mini App: only an approved user is admitted, and a session keeps its user.
LEMMA AppKeepsInv ==
  ASSUME AccountsInv,
         \E u \in Newcomers :
           OpenApp(u) \/ Authenticate(u) \/ Me(u) \/ UseApp(u) \/ SignOut(u)
  PROVE  AccountsInv'
<1>1. ASSUME NEW u \in Newcomers, OpenApp(u)
      PROVE  AccountsInv'
  BY <1>1, SMT DEF OpenApp, bot, AccountsInv, AccountsTypeOK, RowsInv, LettersInv, ApprovedOnly
<1>2. ASSUME NEW u \in Newcomers, Authenticate(u)
      PROVE  AccountsInv'
  <2>1. gate'[u] = "entering" => account[u] = "approved"
    BY <1>2, SMT DEF Authenticate, Admit, AccountsInv, AccountsTypeOK
  <2>2. gate' = [gate EXCEPT ![u] = gate'[u]]
        /\ gate'[u] \in {"error", "pending", "disabled", "entering"}
    <3>1. Admit(u) \in {"pending", "disabled", "entering"}
      BY SMT DEF Admit, AccountsInv, AccountsTypeOK
    <3> QED  BY <1>2, <3>1, SMT DEF Authenticate, AccountsInv, AccountsTypeOK
  <2>3. AccountsTypeOK'
    <3>1. CASE gate'[u] = "entering"
      BY <1>2, <2>2, <3>1, AccountBounds, SMT DEF Authenticate, Count, bot, AccountsInv,
         AccountsTypeOK
    <3>2. CASE gate'[u] # "entering"
      BY <1>2, <2>2, <3>2, SMT DEF Authenticate, bot, AccountsInv, AccountsTypeOK
    <3> QED  BY <3>1, <3>2
  <2>4. \A s \in signedIn' : s \in signedIn \/ (s.user = u /\ account[u] = "approved")
    <3>1. CASE gate'[u] = "entering"
      BY <1>2, <2>1, <3>1, SMT DEF Authenticate
    <3>2. CASE gate'[u] # "entering"
      BY <1>2, <3>2, SMT DEF Authenticate
    <3> QED  BY <3>1, <3>2
  <2>5. RowsInv' /\ LettersInv' /\ ApprovedOnly'
    BY <1>2, <2>1, <2>2, <2>4, SMT DEF Authenticate, bot, AccountsInv, AccountsTypeOK, RowsInv,
       LettersInv, ApprovedOnly
  <2> QED  BY <2>3, <2>5 DEF AccountsInv
<1>3. ASSUME NEW u \in Newcomers, Me(u)
      PROVE  AccountsInv'
  <2>1. Resolve(u) /\ gate[u] = "entering"
    BY <1>3 DEF Me
  <2> QED
    BY <1>3, <2>1, ResolveKeepsUsers, SMT DEF Me, bot, AccountsInv, AccountsTypeOK, RowsInv,
       LettersInv, ApprovedOnly
<1>4. ASSUME NEW u \in Newcomers, UseApp(u)
      PROVE  AccountsInv'
  <2>1. Resolve(u)
    BY <1>4 DEF UseApp
  <2> QED
    BY <1>4, <2>1, ResolveKeepsUsers, SMT DEF UseApp, bot, AccountsInv, AccountsTypeOK, RowsInv,
       LettersInv, ApprovedOnly
<1>5. ASSUME NEW u \in Newcomers, SignOut(u)
      PROVE  AccountsInv'
  BY <1>5, AccountBounds, SMT DEF SignOut, NoToken, bot, AccountsInv, AccountsTypeOK, RowsInv,
     LettersInv,
     ApprovedOnly
<1> QED  BY <1>1, <1>2, <1>3, <1>4, <1>5

\* A stop of the API and the clock.
LEMMA RestKeepsInv ==
  ASSUME AccountsInv, ApiStops \/ Tick \/ UNCHANGED accountVars
  PROVE  AccountsInv'
<1>1. CASE ApiStops
  BY <1>1, SMT DEF ApiStops, AccountsInv, AccountsTypeOK, RowsInv, LettersInv, ApprovedOnly
<1>2. CASE Tick
  BY <1>2, AccountBounds, SMT DEF Tick, bot, AccountsInv, AccountsTypeOK, RowsInv, LettersInv,
     ApprovedOnly
<1>3. CASE UNCHANGED accountVars
  BY <1>3, SMT DEF accountVars, AccountsInv, AccountsTypeOK, RowsInv, LettersInv, ApprovedOnly
<1> QED  BY <1>1, <1>2, <1>3

\* Every step keeps the inductive invariant.
LEMMA AccountsInvStep == AccountsInv /\ [AccountsNext]_accountVars => AccountsInv'
BY BotKeepsInv, AppKeepsInv, RestKeepsInv DEF AccountsNext

\* The invariant behind ApprovedOnly: the rows of a user agree and letters tell what is in them.
THEOREM AccountsInvariant == AccountsSpec => []AccountsInv
BY AccountsInvInit, AccountsInvStep, PTL DEF AccountsSpec

\* Whoever has a session or is past the gate was approved, and the first decision is the one
\* that counts and is told (ApprovalRepository.decide, RepositoryAuthUserGateway.findPrincipal).
THEOREM AlwaysApprovedOnly == AccountsSpec => []ApprovedOnly
<1>1. AccountsInv => ApprovedOnly
  BY DEF AccountsInv
<1> QED  BY <1>1, AccountsInvariant, PTL

-----------------------------------------------------------------------------
(* The login to MAX                                                        *)

\* The calls whose answer may yet count as a failure.
UnderWay == {c \in calls1 : c.op \in Forms /\ c.step # "late"}

CallsBounded == IsFiniteSet(calls1) /\ Cardinality(calls1) <= Parallel

\* A call is over before the second tick after it was made.
OneTick == \A c \in UnderWay : clock \in {c.since, c.since + 1}

\* What the limiter remembers of a window is what happened in it, and every failure in it
\* has a number of its own.
LogInv ==
  /\ IsFiniteSet(log)
  /\ log = Recent(failures, clock)
  /\ \A f \in log : f.n <= Cardinality({g \in log : g.at = f.at})

\* Without a lock there is room for a failure; a lock leaves the calls that were under way.
CountInv ==
  /\ lockedUntil <= clock => Cardinality(log) <= MaxFailures - 1
  /\ lockedUntil > clock =>
       Cardinality(log) + Cardinality(UnderWay) <= MaxFailures - 1 + Parallel

\* A lock outlasts its failures and the calls made before it.
LockInv ==
  lockedUntil # 0 => /\ \A f \in log : f.at + LockTicks <= lockedUntil + 1
                     /\ \A c \in UnderWay : c.since + LockTicks <= lockedUntil

LimiterInv == LoginTypeOK /\ CallsBounded /\ OneTick /\ LogInv /\ CountInv /\ LockInv

-----------------------------------------------------------------------------

LEMMA LimiterInvInit == LoginInit => LimiterInv
<1> SUFFICES ASSUME LoginInit PROVE LimiterInv
  OBVIOUS
<1>1. LoginTypeOK
  BY LoginBounds, SMT DEF LoginInit, LoginTypeOK, Pages, Mounted, States
<1>2. UnderWay = {}
  BY DEF LoginInit, UnderWay
<1>3. Recent(failures, clock) = {}
  BY DEF LoginInit, Recent
<1> QED
  BY <1>1, <1>2, <1>3, FS_EmptySet, LoginBounds, SMT DEF LimiterInv, CallsBounded, OneTick, LogInv,
     CountInv, LockInv, LoginInit

\* Which of the calls is under way does not depend on the form that waits for it.
LEMMA MappedCalls ==
  ASSUME NEW S, IsFiniteSet(S), NEW f, f = [c \in S |-> f[c]], NEW T, T = {f[c] : c \in S}
  PROVE  IsFiniteSet(T) /\ Cardinality(T) <= Cardinality(S)
<1>1. f \in Surjection(S, T)
  BY DEF Surjection
<1> QED  BY <1>1, FS_Surjection

\* Any step that leaves the limiter alone and starts no call.
LEMMA CallsKeepLimiter ==
  ASSUME LimiterInv, LoginTypeOK', CallsBounded', UNCHANGED <<limiter, clock>>,
         Cardinality(UnderWay') <= Cardinality(UnderWay),
         \A c \in UnderWay' : \E d \in UnderWay : c.since = d.since
  PROVE  LimiterInv'
<1>1. /\ lockedUntil \in Int /\ clock \in Int /\ MaxFailures \in Int /\ Parallel \in Int
      /\ LockTicks \in Int
  BY LoginBounds DEF LimiterInv, LoginTypeOK
<1>2. /\ IsFiniteSet(UnderWay) /\ IsFiniteSet(UnderWay') /\ IsFiniteSet(log)
  BY FS_Subset DEF LimiterInv, CallsBounded, UnderWay, LogInv
<1>3. /\ Cardinality(UnderWay) \in Int /\ Cardinality(UnderWay') \in Int /\ Cardinality(log) \in Int
  BY <1>2, FS_CardinalityType
<1>4. LogInv'
  BY DEF LimiterInv, LogInv, limiter, Recent
<1>5. OneTick'
  BY DEF LimiterInv, OneTick
<1>6. CountInv'
  BY <1>1, <1>3, SMT DEF LimiterInv, CountInv, limiter
<1>7. LockInv'
  BY DEF LimiterInv, LockInv, limiter
<1> QED  BY <1>4, <1>5, <1>6, <1>7 DEF LimiterInv

\* A step that ends some of the calls and changes others, without starting or renewing one.
LEMMA CallsChanged ==
  ASSUME CallsBounded, NEW S \in SUBSET calls1, NEW f, f = [c \in S |-> f[c]],
         calls1' = {f[c] : c \in S},
         \A c \in S : f[c].op \in Forms /\ f[c].step # "late" =>
                        c.op \in Forms /\ c.step # "late" /\ c.since = f[c].since
  PROVE  /\ CallsBounded'
         /\ Cardinality(UnderWay') <= Cardinality(S \intersect UnderWay)
         /\ Cardinality(S \intersect UnderWay) <= Cardinality(UnderWay)
         /\ \A c \in UnderWay' : \E d \in UnderWay : c.since = d.since
<1> DEFINE T == {c \in S : f[c].op \in Forms /\ f[c].step # "late"}
           g == [c \in T |-> f[c]]
<1>1. IsFiniteSet(S) /\ Cardinality(S) <= Cardinality(calls1)
  BY FS_Subset DEF CallsBounded
<1>2. IsFiniteSet(calls1') /\ Cardinality(calls1') <= Cardinality(S)
  BY <1>1, MappedCalls
<1>3. CallsBounded'
  <2>1. /\ Cardinality(S) \in Int /\ Cardinality(calls1) \in Int /\ Cardinality(calls1') \in Int
        /\ Parallel \in Int
    BY <1>1, <1>2, FS_CardinalityType, LoginBounds DEF CallsBounded
  <2> QED  BY <1>1, <1>2, <2>1, SMT DEF CallsBounded
<1>4. UnderWay' = {g[c] : c \in T}
  BY DEF UnderWay
<1>5. T \in SUBSET (S \intersect UnderWay)
  BY DEF UnderWay
<1>6. IsFiniteSet(UnderWay) /\ IsFiniteSet(S \intersect UnderWay) /\ IsFiniteSet(T)
  BY <1>5, FS_Subset DEF CallsBounded, UnderWay
<1>7. Cardinality(T) <= Cardinality(S \intersect UnderWay)
  BY <1>5, <1>6, FS_Subset
<1>8. Cardinality(S \intersect UnderWay) <= Cardinality(UnderWay)
  BY <1>6, FS_Subset, S \intersect UnderWay \in SUBSET UnderWay
<1>9. IsFiniteSet(UnderWay') /\ Cardinality(UnderWay') <= Cardinality(T)
  <2>1. g = [c \in T |-> g[c]]
    OBVIOUS
  <2> HIDE DEF g, T
  <2> QED  BY <1>4, <1>6, <2>1, MappedCalls
<1>10. Cardinality(UnderWay') <= Cardinality(S \intersect UnderWay)
  <2>1. /\ Cardinality(UnderWay') \in Int /\ Cardinality(T) \in Int
        /\ Cardinality(S \intersect UnderWay) \in Int
    BY <1>6, <1>9, FS_CardinalityType
  <2> QED  BY <1>7, <1>9, <2>1, SMT
<1>11. \A c \in UnderWay' : \E d \in UnderWay : c.since = d.since
  BY <1>4 DEF UnderWay
<1> QED  BY <1>3, <1>8, <1>10, <1>11

\* The limiter counts a failure that was under way: the one that fills the window locks.
LEMMA FailureRecorded ==
  ASSUME LimiterInv, RecordFailure, UNCHANGED clock, CallsBounded',
         NEW c \in UnderWay, Cardinality(UnderWay') <= Cardinality(UnderWay \ {c}),
         \A x \in UnderWay' : \E y \in UnderWay : x.since = y.since
  PROVE  /\ OneTick' /\ LogInv' /\ CountInv' /\ LockInv'
         /\ failures' \subseteq [n : Nat \ {0}, at : 0 .. clock]
         /\ log' \subseteq failures'
         /\ lockedUntil' \in 0 .. LastClock + LockTicks
<1> DEFINE failure == [n |-> Cardinality({f \in log : f.at = clock}) + 1, at |-> clock]
<1>1. /\ lockedUntil \in Nat /\ clock \in Nat /\ MaxFailures \in Nat /\ Parallel \in Nat
      /\ LockTicks \in Nat /\ LastClock \in Nat /\ WindowTicks \in Nat /\ clock <= LastClock
      /\ LockTicks > WindowTicks + 1
  BY LoginBounds, SMT DEF LimiterInv, LoginTypeOK
<1>2. log \subseteq [n : Int, at : 0 .. clock]
  BY <1>1, SMT DEF LimiterInv, LoginTypeOK
<1>3. /\ IsFiniteSet(UnderWay) /\ IsFiniteSet(UnderWay') /\ IsFiniteSet(log)
      /\ IsFiniteSet({f \in log : f.at = clock})
  BY FS_Subset, {f \in log : f.at = clock} \in SUBSET log
     DEF LimiterInv, CallsBounded, UnderWay, LogInv
<1>4. /\ Cardinality(UnderWay) \in Nat /\ Cardinality(UnderWay') \in Nat
      /\ Cardinality(log) \in Nat
      /\ Cardinality({f \in log : f.at = clock}) \in Nat
      /\ Cardinality({f \in log : f.at = clock}) <= Cardinality(log)
  BY <1>3, FS_CardinalityType, FS_Subset, {f \in log : f.at = clock} \in SUBSET log
<1>5. Cardinality(UnderWay \ {c}) = Cardinality(UnderWay) - 1 /\ Cardinality(UnderWay) >= 1
  <2>1. IsFiniteSet(UnderWay \ {c}) /\ Cardinality(UnderWay \ {c}) = Cardinality(UnderWay) - 1
    BY <1>3, FS_RemoveElement
  <2>2. Cardinality(UnderWay \ {c}) \in Nat
    BY <2>1, FS_CardinalityType
  <2> QED  BY <1>4, <2>1, <2>2, SMT
<1>6. Cardinality(UnderWay) <= Parallel
  <2>1. Cardinality(UnderWay) <= Cardinality(calls1) /\ Cardinality(calls1) \in Nat
    BY FS_Subset, FS_CardinalityType, UnderWay \in SUBSET calls1
       DEF LimiterInv, CallsBounded, UnderWay
  <2> QED  BY <1>1, <1>4, <2>1, SMT DEF LimiterInv, CallsBounded
<1>7. failure \notin log
  BY <1>2, <1>4, SMT DEF LimiterInv, LogInv
<1>8. log' = log \union {failure} /\ failures' = log \union {failure}
  BY DEF RecordFailure, LimiterInv, LogInv
<1>9. IsFiniteSet(log') /\ Cardinality(log') = Cardinality(log) + 1
  BY <1>3, <1>7, <1>8, FS_AddElement
<1>10. lockedUntil' = IF Cardinality(log') >= MaxFailures THEN clock + LockTicks ELSE lockedUntil
  BY <1>8 DEF RecordFailure
<1>11. c.since \in Nat /\ clock \in {c.since, c.since + 1}
  BY SMT DEF LimiterInv, LoginTypeOK, LoginCalls, UnderWay, OneTick
<1>12. \A y \in UnderWay : y.since \in Nat /\ y.since <= clock
  BY <1>1, SMT DEF LimiterInv, LoginTypeOK, LoginCalls, UnderWay
<1>13. OneTick'
  BY DEF LimiterInv, OneTick
<1>14. lockedUntil <= clock => lockedUntil = 0
  BY <1>1, <1>11, SMT DEF LimiterInv, LockInv
<1> HIDE DEF failure
<1>15. failure.at = clock /\ failure.n = Cardinality({f \in log : f.at = clock}) + 1
       /\ failure \in [n : Nat, at : 0 .. clock]
  BY <1>1, <1>4, SMT DEF failure
<1>16. LogInv'
  <2>1. log' = Recent(failures', clock)
    <3>1. \A f \in log : f.at >= clock - WindowTicks
      BY DEF LimiterInv, LogInv, Recent
    <3> QED  BY <1>1, <1>8, <1>15, <3>1, SMT DEF Recent
  <2>2. \A f \in log' : f.n <= Cardinality({g \in log' : g.at = f.at})
    <3> SUFFICES ASSUME NEW f \in log' PROVE f.n <= Cardinality({g \in log' : g.at = f.at})
      OBVIOUS
    <3>1. CASE f.at = clock
      <4>1. {g \in log' : g.at = f.at} = {g \in log : g.at = clock} \union {failure}
        BY <1>8, <1>15, <3>1
      <4>2. Cardinality({g \in log' : g.at = f.at}) = Cardinality({g \in log : g.at = clock}) + 1
        BY <1>3, <1>7, <4>1, FS_AddElement
      <4>3. f \in log => f.n <= Cardinality({g \in log : g.at = clock}) /\ f.n \in Int
        BY <1>2, <3>1 DEF LimiterInv, LogInv
      <4> QED  BY <1>4, <1>8, <1>15, <4>2, <4>3, SMT
    <3>2. CASE f.at # clock
      <4>1. {g \in log' : g.at = f.at} = {g \in log : g.at = f.at} /\ f \in log
        BY <1>8, <1>15, <3>2
      <4> QED  BY <4>1 DEF LimiterInv, LogInv
    <3> QED  BY <3>1, <3>2
  <2> QED  BY <1>9, <2>1, <2>2 DEF LogInv
<1>17. CountInv'
  BY <1>1, <1>4, <1>5, <1>6, <1>9, <1>10, <1>14, SMT DEF LimiterInv, CountInv
<1>18. LockInv'
  <2>1. CASE Cardinality(log') >= MaxFailures
    <3>1. \A f \in log' : f.at \in Nat /\ f.at <= clock
      BY <1>1, <1>2, <1>8, <1>15, SMT
    <3> QED  BY <1>1, <1>10, <1>12, <2>1, <3>1, SMT DEF LockInv
  <2>2. CASE ~(Cardinality(log') >= MaxFailures)
    <3>1. lockedUntil' = lockedUntil
      BY <1>10, <2>2
    <3>2. lockedUntil # 0 => failure.at + LockTicks <= lockedUntil + 1
      BY <1>1, <1>11, <1>15, SMT DEF LimiterInv, LockInv
    <3> QED  BY <1>8, <3>1, <3>2 DEF LimiterInv, LockInv
  <2> QED  BY <2>1, <2>2
<1>19. failures' \subseteq [n : Nat \ {0}, at : 0 .. clock]
  <2>1. failure \in [n : Nat \ {0}, at : 0 .. clock]
    BY <1>1, <1>4, <1>15, SMT
  <2> QED  BY <1>8, <2>1 DEF LimiterInv, LoginTypeOK
<1>20. lockedUntil' \in 0 .. LastClock + LockTicks
  BY <1>1, <1>10, SMT DEF LimiterInv, LoginTypeOK
<1> QED  BY <1>8, <1>13, <1>16, <1>17, <1>18, <1>19, <1>20

-----------------------------------------------------------------------------

\* A new call finds a number that no other has.
LEMMA FreePlaceFound ==
  ASSUME LoginTypeOK, CallsBounded, Cardinality(calls1) < Parallel
  PROVE  FreePlace \in 1 .. Parallel
<1> DEFINE f == [c \in calls1 |-> c.n]
           T == {f[c] : c \in calls1}
<1>1. IsFiniteSet(T) /\ Cardinality(T) <= Cardinality(calls1)
  BY MappedCalls DEF CallsBounded
<1>2. Cardinality(1 .. Parallel) = Parallel /\ Parallel \in Nat
  BY LoginBounds, FS_Interval, SMT
<1>3. ~(1 .. Parallel \subseteq T)
  <2>1. Cardinality(T) \in Nat /\ Cardinality(calls1) \in Nat
    BY <1>1, FS_CardinalityType DEF CallsBounded
  <2>2. 1 .. Parallel \subseteq T => Cardinality(1 .. Parallel) <= Cardinality(T)
    BY <1>1, FS_Subset
  <2> HIDE DEF T
  <2> QED  BY <1>1, <1>2, <2>1, <2>2, SMT
<1>4. \E n \in 1 .. Parallel : \A c \in calls1 : c.n # n
  BY <1>3
<1> QED  BY <1>4 DEF FreePlace

\* A lock that is over takes the record with it; there was nothing in the window by then.
LEMMA ForgottenInv ==
  ASSUME LimiterInv, Forget, UNCHANGED <<log, clock>>
  PROVE  /\ LogInv'
         /\ failures' \subseteq failures /\ log' \subseteq failures'
         /\ lockedUntil' \in {0, lockedUntil}
         /\ lockedUntil' # 0 => lockedUntil' > clock
         /\ lockedUntil' <= clock => Cardinality(log) <= MaxFailures - 1
<1>1. /\ lockedUntil \in Nat /\ clock \in Nat /\ LockTicks \in Nat /\ WindowTicks \in Nat
      /\ LockTicks > WindowTicks + 1
  BY LoginBounds, SMT DEF LimiterInv, LoginTypeOK
<1>2. CASE lockedUntil # 0 /\ lockedUntil <= clock
  <2>1. failures' = {} /\ lockedUntil' = 0
    BY <1>2 DEF Forget
  <2>2. log = {}
    <3>1. \A f \in log : f.at \in Nat /\ f.at >= clock - WindowTicks
      BY SMT DEF LimiterInv, LoginTypeOK, LogInv, Recent
    <3> QED  BY <1>1, <1>2, <3>1, SMT DEF LimiterInv, LockInv
  <2>3. LogInv'
    BY <2>1, <2>2, FS_EmptySet DEF LogInv, Recent
  <2> QED
    BY <1>1, <1>2, <2>1, <2>2, <2>3, SMT DEF LimiterInv, CountInv
<1>3. CASE ~(lockedUntil # 0 /\ lockedUntil <= clock)
  <2>1. failures' = failures /\ lockedUntil' = lockedUntil
    BY <1>3 DEF Forget
  <2>2. LogInv'
    BY <2>1 DEF LimiterInv, LogInv, Recent
  <2>3. log \subseteq failures
    BY DEF LimiterInv, LogInv, Recent
  <2> QED
    BY <1>1, <1>3, <2>1, <2>2, <2>3, SMT DEF LimiterInv, CountInv
<1> QED  BY <1>2, <1>3

\* A request is made, and refused during a lock.
LEMMA AskKeepsInv ==
  ASSUME LimiterInv, NEW p \in Phones,
         NEW op \in Forms \union Pictures \union Polls \union {"status"}, Ask(p, op),
         attempts' \in 0 .. MaxAttempts
  PROVE  LimiterInv'
<1> DEFINE limited == op \in Forms \union Pictures
           call == [phone |-> p, op |-> op, step |-> "asked", result |-> "none", live |-> TRUE,
                    n |-> IF op \in Forms THEN FreePlace ELSE 0,
                    since |-> IF op \in Forms THEN clock ELSE 0]
<1>1. /\ lockedUntil \in Nat /\ clock \in Nat /\ LockTicks \in Nat /\ LastClock \in Nat
      /\ MaxFailures \in Nat /\ Parallel \in Nat
  BY LoginBounds, SMT DEF LimiterInv, LoginTypeOK
<1>2. /\ LogInv'
      /\ failures' \subseteq failures /\ log' \subseteq failures'
      /\ lockedUntil' \in {0, lockedUntil}
      /\ limited => (lockedUntil' # 0 => lockedUntil' > clock)
      /\ lockedUntil' <= clock => Cardinality(log) <= MaxFailures - 1
  <2>1. CASE limited
    BY <2>1, ForgottenInv DEF Ask
  <2>2. CASE ~limited
    BY <2>2 DEF Ask, LimiterInv, LogInv, LoginTypeOK, CountInv, Recent
  <2> QED  BY <2>1, <2>2
<1>3. call \in LoginCalls
  <2>1. FreePlace \in 1 .. Parallel
    BY FreePlaceFound DEF LimiterInv, Ask
  <2> QED  BY <1>1, <2>1, SMT DEF States, LoginCalls
<1>4. calls1' \in {calls1, calls1 \union {call}}
  BY DEF Ask
<1>5. LoginTypeOK'
  <2>1. UNCHANGED <<page, screen, clock>>
    BY DEF Ask
  <2>2. lockedUntil' \in 0 .. LastClock + LockTicks
    BY <1>1, <1>2, SMT DEF LimiterInv, LoginTypeOK
  <2> HIDE DEF call
  <2> QED  BY <1>2, <1>3, <1>4, <2>1, <2>2 DEF LimiterInv, LoginTypeOK, LoginCalls
<1>6. CallsBounded'
  <2>1. IsFiniteSet(calls1) /\ Cardinality(calls1) \in Nat /\ Cardinality(calls1) < Parallel
    BY FS_CardinalityType DEF LimiterInv, CallsBounded, Ask
  <2>2. IsFiniteSet(calls1') /\ Cardinality(calls1') <= Cardinality(calls1) + 1
    <3> HIDE DEF call
    <3>1. IsFiniteSet(calls1 \union {call})
          /\ Cardinality(calls1 \union {call}) \in {Cardinality(calls1), Cardinality(calls1) + 1}
      BY <2>1, FS_AddElement
    <3> QED  BY <1>4, <2>1, <3>1, SMT
  <2>3. Cardinality(calls1') \in Nat
    BY <2>2, FS_CardinalityType
  <2> QED  BY <1>1, <2>1, <2>2, <2>3, SMT DEF CallsBounded
<1>7. /\ UnderWay' \subseteq UnderWay \union {call}
      /\ op \notin Forms => UnderWay' = UnderWay
      /\ lockedUntil' > clock => UnderWay' = UnderWay
  <2>1. lockedUntil' > clock => lockedUntil > clock
    BY <1>1, <1>2, SMT
  <2>2. op \notin Forms => UnderWay' = UnderWay
    BY <1>4 DEF UnderWay
  <2>3. (lockedUntil > clock /\ limited) => calls1' = calls1
    BY DEF Ask
  <2>4. calls1' = calls1 => UnderWay' = UnderWay
    BY DEF UnderWay
  <2> QED  BY <1>4, <2>1, <2>2, <2>3, <2>4 DEF UnderWay
<1>8. OneTick'
  <2>1. op \in Forms => call.since = clock
    OBVIOUS
  <2> QED  BY <1>7, <2>1 DEF LimiterInv, OneTick, Ask
<1>9. CountInv'
  BY <1>1, <1>2, <1>7, SMT DEF LimiterInv, CountInv, Ask
<1>10. LockInv'
  <2>1. lockedUntil' # 0 => lockedUntil' = lockedUntil /\ UnderWay' = UnderWay
    <3>1. CASE limited
      BY <1>1, <1>2, <1>7, <3>1, SMT
    <3>2. CASE ~limited
      BY <1>2, <1>7, <3>2
    <3> QED  BY <3>1, <3>2
  <2> QED  BY <2>1 DEF LimiterInv, LockInv, Ask
<1> QED  BY <1>2, <1>5, <1>6, <1>8, <1>9, <1>10 DEF LimiterInv

-----------------------------------------------------------------------------

Screens == [tab : {"phone", "qr", "captcha", "in"}, state : States, form : States]

\* What a device shows is a screen of MaxLogin.
LEMMA ShowTyped ==
  ASSUME screen \in [Phones -> Screens], NEW p \in Phones,
         NEW tab \in {"phone", "qr", "captcha", "in"}, NEW state \in States, Show(p, tab, state)
  PROVE  screen' \in [Phones -> Screens]
<1>1. PICK form \in States :
        screen' = [screen EXCEPT ![p] = [tab |-> tab, state |-> state, form |-> form]]
  BY DEF Show, Screens, States
<1> QED  BY <1>1 DEF Screens

\* The tabs: a form that goes leaves its calls behind.
LEMMA ChooseTabKeepsInv ==
  ASSUME LimiterInv, NEW p \in Phones, NEW tab \in {"phone", "qr"}, ChooseTab(p, tab)
  PROVE  LimiterInv'
<1> DEFINE f == [c \in calls1 |-> IF c.phone = p /\ screen[p].tab # tab
                                  THEN [c EXCEPT !.live = FALSE] ELSE c]
<1>1. calls1' = {f[c] : c \in calls1} /\ f = [c \in calls1 |-> f[c]]
  BY DEF ChooseTab, Leaving
<1>2. \A c \in calls1 : /\ f[c] \in LoginCalls /\ f[c].op = c.op
                         /\ f[c].step = c.step /\ f[c].since = c.since
  <2> SUFFICES ASSUME NEW c \in calls1
               PROVE  /\ f[c] \in LoginCalls /\ f[c].op = c.op
                      /\ f[c].step = c.step /\ f[c].since = c.since
    OBVIOUS
  <2>1. c \in LoginCalls
    BY DEF LimiterInv, LoginTypeOK
  <2>2. f[c] \in {c, [c EXCEPT !.live = FALSE]}
    OBVIOUS
  <2> HIDE DEF f
  <2> QED  BY <2>1, <2>2 DEF LoginCalls
<1>3. LoginTypeOK'
  <2>1. screen' \in [Phones -> Screens]
    <3>1. screen[p].state \in States /\ screen \in [Phones -> Screens]
      BY DEF LimiterInv, LoginTypeOK, Screens
    <3> QED  BY <3>1, ShowTyped DEF ChooseTab
  <2> HIDE DEF f
  <2> QED  BY <1>1, <1>2, <2>1 DEF ChooseTab, limiter, LimiterInv, LoginTypeOK, LoginCalls, Screens
<1> HIDE DEF f
<1>4. /\ CallsBounded' /\ Cardinality(UnderWay') <= Cardinality(calls1 \intersect UnderWay)
      /\ \A c \in UnderWay' : \E d \in UnderWay : c.since = d.since
  BY <1>1, <1>2, CallsChanged DEF LimiterInv
<1>5. calls1 \intersect UnderWay = UnderWay
  BY DEF UnderWay
<1> QED  BY <1>3, <1>4, <1>5, CallsKeepLimiter DEF ChooseTab

\* One call ends, or goes on as another of the same kind and age.
LEMMA OneCallChanged ==
  ASSUME LimiterInv, NEW c \in calls1,
         NEW d \in LoginCalls,
         d.op \in Forms /\ d.step # "late" =>
           c.op \in Forms /\ c.step # "late" /\ c.since = d.since,
         calls1' = calls1 \ {c} \/ Replace(c, d),
         page' \in Pages, UNCHANGED <<screen, limiter, attempts, clock>>
  PROVE  LimiterInv'
<1>1. LoginTypeOK'
  BY DEF LimiterInv, LoginTypeOK, LoginCalls, Replace, limiter
<1>2. PICK S \in SUBSET calls1 : /\ S = IF calls1' = calls1 \ {c} THEN calls1 \ {c} ELSE calls1
  BY Zenon
<1> DEFINE f == [x \in S |-> IF x = c THEN d ELSE x]
<1>3. calls1' = {f[x] : x \in S}
  BY <1>2 DEF Replace
<1>4. \A x \in S : f[x].op \in Forms /\ f[x].step # "late" =>
                     x.op \in Forms /\ x.step # "late" /\ x.since = f[x].since
  OBVIOUS
<1>5. f = [x \in S |-> f[x]]
  OBVIOUS
<1> HIDE DEF f
<1>6. /\ CallsBounded' /\ Cardinality(UnderWay') <= Cardinality(S \intersect UnderWay)
      /\ Cardinality(S \intersect UnderWay) <= Cardinality(UnderWay)
      /\ \A x \in UnderWay' : \E y \in UnderWay : x.since = y.since
  BY <1>3, <1>4, <1>5, CallsChanged DEF LimiterInv
<1>7. Cardinality(UnderWay') <= Cardinality(UnderWay)
  <2>1. IsFiniteSet(UnderWay) /\ IsFiniteSet(S \intersect UnderWay) /\ IsFiniteSet(UnderWay')
    BY <1>6, FS_Subset DEF UnderWay, CallsBounded, LimiterInv
  <2>2. /\ Cardinality(UnderWay) \in Int /\ Cardinality(S \intersect UnderWay) \in Int
        /\ Cardinality(UnderWay') \in Int
    BY <2>1, FS_CardinalityType
  <2> QED  BY <1>6, <2>2, SMT
<1> QED  BY <1>1, <1>6, <1>7, CallsKeepLimiter

\* The worker performs an operation, or the API has stopped waiting for it.
LEMMA WorkKeepsInv ==
  ASSUME LimiterInv, NEW c \in calls1, Late(c) \/ Perform(c)
  PROVE  LimiterInv'
<1>1. c \in LoginCalls
  BY DEF LimiterInv, LoginTypeOK
<1>2. \A d \in Pages : Detect(d) \in States
  BY SMT DEF Detect, Pages, States
<1>3. page \in Pages
  BY DEF LimiterInv, LoginTypeOK
<1>4. CASE Late(c)
  <2> DEFINE d == [c EXCEPT !.step = "late", !.live = FALSE]
  <2>1. d \in LoginCalls /\ d.step = "late"
    BY <1>1 DEF LoginCalls
  <2>2. Replace(c, d) /\ UNCHANGED <<page, screen, limiter, attempts, clock>>
    BY <1>4 DEF Late
  <2> HIDE DEF d
  <2> QED  BY <1>3, <2>1, <2>2, OneCallChanged
<1>5. CASE Perform(c)
  <2>1. page' \in Pages /\ \E r \in States : End(c, r) \/ calls1' = calls1 \ {c}
    <3>1. CASE c.op = "phone"
      <4>1. SubmitPhone(c)
        BY <1>5, <3>1, Zenon DEF Perform, Pictures
      <4>2. WaitForState(c, {"code_required", "captcha_required", "failed"}) =>
              page' \in Pages /\ \E r \in States : End(c, r)
        BY <1>2, "failed" \in States DEF WaitForState, States
      <4> QED
        BY <1>3, <4>1, <4>2, "error" \in States, "captcha_required" \in States
           DEF SubmitPhone, States
    <3>2. CASE c.op = "code"
      <4>1. SubmitCode(c)
        BY <1>5, <3>2, Zenon DEF Perform, Pictures
      <4>2. CASE page \notin {"code", "wrong"}
        BY <1>2, <1>3, <4>1, <4>2 DEF SubmitCode
      <4>3. CASE page \in {"code", "wrong"}
        <5>1. CASE WaitForState(c, {"authenticated", "invalid_code", "captcha_required", "failed"})
          BY <1>2, <5>1, "failed" \in States DEF WaitForState, States
        <5>2. CASE End(c, "invalid_code") /\ page' \in {"in", "wrong", "captcha", "alert"}
          BY <5>2 DEF States, Pages
        <5> QED  BY <4>1, <4>3, <5>1, <5>2 DEF SubmitCode
      <4> QED  BY <4>2, <4>3
    <3>3. CASE c.op \in Pictures
      <4>1. TakePicture(c)
        BY <1>5, <3>3, Zenon DEF Perform, Pictures
      <4> QED  BY <1>3, <4>1, "error" \in States DEF TakePicture, Pages, States
    <3>4. CASE c.op \notin {"phone", "code"} \union Pictures
      <4>1. End(c, Detect(page)) /\ UNCHANGED page
        BY <1>5, <3>4, Zenon DEF Perform
      <4> QED  BY <1>2, <1>3, <4>1
    <3> QED  BY <3>1, <3>2, <3>3, <3>4
  <2>2. PICK r \in States : End(c, r) \/ calls1' = calls1 \ {c}
    BY <2>1
  <2>3. CASE calls1' = calls1 \ {c}
    BY <1>1, <1>5, <2>1, <2>3, OneCallChanged DEF Perform
  <2>4. CASE c.step # "late" /\ Replace(c, [c EXCEPT !.step = "done", !.result = r])
    <3> DEFINE d == [c EXCEPT !.step = "done", !.result = r]
    <3>1. d \in LoginCalls /\ d.op = c.op /\ d.since = c.since
      BY <1>1 DEF LoginCalls
    <3>2. Replace(c, d)
      BY <2>4
    <3> HIDE DEF d
    <3> QED  BY <1>5, <2>1, <2>4, <3>1, <3>2, OneCallChanged DEF Perform
  <2> QED  BY <2>2, <2>3, <2>4 DEF End
<1> QED  BY <1>4, <1>5

\* Whatever is answered, the device goes to another screen of MaxLogin.
LEMMA HandledTyped ==
  ASSUME screen \in [Phones -> Screens], NEW c \in LoginCalls, Handled(c)
  PROVE  screen' \in [Phones -> Screens]
<1>1. c.phone \in Phones /\ c.result \in States
  BY DEF LoginCalls
<1>2. screen[c.phone].tab \in {"phone", "qr", "captcha", "in"} /\ screen[c.phone].state \in States
  BY <1>1 DEF Screens
<1>3. CASE \E tab \in {"phone", "qr", "captcha", "in"}, state \in States : Show(c.phone, tab, state)
  BY <1>1, <1>3, ShowTyped
<1>4. CASE screen' = [screen EXCEPT ![c.phone].form = c.result]
  BY <1>1, <1>4 DEF Screens
<1>5. CASE UNCHANGED screen
  BY <1>5
<1>6. StatusShown(c.phone, c.result) =>
        \E tab \in {"phone", "qr", "captcha", "in"}, state \in States : Show(c.phone, tab, state)
  BY <1>1, <1>2, SMT DEF StatusShown
<1>7. PollShown(c.phone, c) =>
        \/ \E tab \in {"phone", "qr", "captcha", "in"}, state \in States : Show(c.phone, tab, state)
        \/ UNCHANGED screen
  <2>1. \/ Show(c.phone, "in", c.result) \/ Show(c.phone, screen[c.phone].tab, c.result)
        \/ Show(c.phone, "phone", "code_required") \/ UNCHANGED screen
        \/ ~PollShown(c.phone, c)
    BY Zenon DEF PollShown
  <2> QED  BY <1>1, <1>2, <2>1, "code_required" \in States DEF States
<1>8. FormShown(c.phone, c) =>
        \/ \E tab \in {"phone", "qr", "captcha", "in"}, state \in States : Show(c.phone, tab, state)
        \/ UNCHANGED screen
        \/ screen' = [screen EXCEPT ![c.phone].form = c.result]
  BY <1>1, <1>2, SMT DEF FormShown, States
<1>9. \/ UNCHANGED screen \/ StatusShown(c.phone, c.result)
      \/ FormShown(c.phone, c) \/ PollShown(c.phone, c)
  BY SMT DEF Handled
<1> QED  BY <1>3, <1>4, <1>5, <1>6, <1>7, <1>8, <1>9

\* The limiter is reset.
LEMMA ResetInv ==
  ASSUME LimiterInv, Reset, UNCHANGED clock,
         \A c \in UnderWay' : \E d \in UnderWay : c.since = d.since
  PROVE  /\ OneTick' /\ LogInv' /\ CountInv' /\ LockInv'
         /\ failures' = {} /\ log' = {} /\ lockedUntil' = 0
<1>1. clock \in Nat /\ MaxFailures \in Nat /\ MaxFailures > 0
  BY LoginBounds, SMT DEF LimiterInv, LoginTypeOK
<1>2. OneTick'
  BY DEF LimiterInv, OneTick
<1>3. LogInv'
  BY FS_EmptySet DEF Reset, LogInv, Recent
<1> QED
  BY <1>1, <1>2, <1>3, FS_EmptySet, SMT DEF Reset, CountInv, LockInv

\* The answers: a failure is counted when its call ends.
LEMMA AnsweredKeepsInv ==
  ASSUME LimiterInv, NEW c \in calls1, Answered(c)
  PROVE  LimiterInv'
<1>1. PICK S \in SUBSET calls1 : S = calls1 \ {c}
  OBVIOUS
<1>2. PICK f : f = [d \in S |-> IF d.phone = c.phone /\ screen'[c.phone].tab # screen[c.phone].tab
                                THEN [d EXCEPT !.live = FALSE] ELSE d]
  OBVIOUS
<1>3. calls1' = {f[d] : d \in S} /\ f = [d \in S |-> f[d]]
  BY <1>1, <1>2 DEF Answered
<1>4. \A d \in S : /\ f[d] \in LoginCalls /\ f[d].op = d.op
                    /\ f[d].step = d.step /\ f[d].since = d.since
  <2> SUFFICES ASSUME NEW d \in S
               PROVE  /\ f[d] \in LoginCalls /\ f[d].op = d.op
                      /\ f[d].step = d.step /\ f[d].since = d.since
    OBVIOUS
  <2>1. d \in LoginCalls
    BY DEF LimiterInv, LoginTypeOK
  <2>2. f[d] \in {d, [d EXCEPT !.live = FALSE]}
    BY <1>2
  <2> QED  BY <2>1, <2>2 DEF LoginCalls
<1>5. c \in LoginCalls /\ c.step = "done"
  BY DEF LimiterInv, LoginTypeOK, Answered
<1>6. UNCHANGED <<page, attempts, clock>> /\ screen' \in [Phones -> Screens]
  <2>1. screen \in [Phones -> Screens]
    BY DEF LimiterInv, LoginTypeOK, Screens
  <2> QED  BY <1>5, <2>1, HandledTyped DEF Answered
<1>7. calls1' \subseteq LoginCalls
  BY <1>3, <1>4
<1>8. /\ CallsBounded' /\ Cardinality(UnderWay') <= Cardinality(S \intersect UnderWay)
      /\ Cardinality(S \intersect UnderWay) <= Cardinality(UnderWay)
      /\ \A x \in UnderWay' : \E y \in UnderWay : x.since = y.since
  <2>1. \A d \in S : f[d].op \in Forms /\ f[d].step # "late" =>
                       d.op \in Forms /\ d.step # "late" /\ d.since = f[d].since
    BY <1>4
  <2>2. CallsBounded
    BY DEF LimiterInv
  <2> QED  BY <1>3, <2>1, <2>2, CallsChanged
<1>9. CASE UNCHANGED limiter
  <2>1. Cardinality(UnderWay') <= Cardinality(UnderWay)
    <3>1. /\ IsFiniteSet(UnderWay) /\ IsFiniteSet(S \intersect UnderWay)
          /\ IsFiniteSet(UnderWay')
      BY <1>8, FS_Subset DEF UnderWay, CallsBounded, LimiterInv
    <3>2. /\ Cardinality(UnderWay) \in Int /\ Cardinality(S \intersect UnderWay) \in Int
          /\ Cardinality(UnderWay') \in Int
      BY <3>1, FS_CardinalityType
    <3> QED  BY <1>8, <3>2, SMT
  <2>2. LoginTypeOK'
    <3>1. LoginCalls' = LoginCalls
      BY <1>6 DEF LoginCalls
    <3> QED  BY <1>6, <1>7, <1>9, <3>1 DEF LimiterInv, LoginTypeOK, limiter, Screens
  <2> QED  BY <1>6, <1>8, <1>9, <2>1, <2>2, CallsKeepLimiter
<1>10. CASE RecordFailure /\ c.op \in Forms
  <2>1. c \in UnderWay
    BY <1>5, <1>10 DEF UnderWay
  <2>2. S \intersect UnderWay = UnderWay \ {c}
    BY <1>1 DEF UnderWay
  <2>3. /\ OneTick' /\ LogInv' /\ CountInv' /\ LockInv'
        /\ failures' \subseteq [n : Nat \ {0}, at : 0 .. clock]
        /\ log' \subseteq failures'
        /\ lockedUntil' \in 0 .. LastClock + LockTicks
    BY <1>6, <1>8, <1>10, <2>1, <2>2, FailureRecorded
  <2>4. LoginTypeOK'
    <3>1. LoginCalls' = LoginCalls
      BY <1>6 DEF LoginCalls
    <3> QED  BY <1>6, <1>7, <2>3, <3>1 DEF LimiterInv, LoginTypeOK, Screens
  <2> QED  BY <1>8, <2>3, <2>4 DEF LimiterInv
<1>11. CASE Reset
  <2>1. /\ OneTick' /\ LogInv' /\ CountInv' /\ LockInv'
        /\ failures' = {} /\ log' = {} /\ lockedUntil' = 0
    BY <1>6, <1>8, <1>11, ResetInv
  <2>2. LoginTypeOK'
    <3>1. LoginCalls' = LoginCalls
      BY <1>6 DEF LoginCalls
    <3>2. 0 \in 0 .. LastClock + LockTicks
      BY LoginBounds, SMT
    <3> QED  BY <1>6, <1>7, <2>1, <3>1, <3>2 DEF LimiterInv, LoginTypeOK, Screens
  <2> QED  BY <1>8, <2>1, <2>2 DEF LimiterInv
<1>12. UNCHANGED limiter \/ (RecordFailure /\ c.op \in Forms) \/ Reset
  BY SMT DEF Answered, Counted
<1> QED  BY <1>9, <1>10, <1>11, <1>12

\* Leaving MAX resets the limiter.
LEMMA LeaveKeepsInv ==
  ASSUME LimiterInv, NEW p \in Phones, LeaveMax(p)
  PROVE  LimiterInv'
<1>1. UnderWay' = UnderWay /\ CallsBounded'
  BY DEF LeaveMax, UnderWay, CallsBounded, LimiterInv
<1>2. /\ OneTick' /\ LogInv' /\ CountInv' /\ LockInv'
      /\ failures' = {} /\ log' = {} /\ lockedUntil' = 0
  BY <1>1, ResetInv DEF LeaveMax
<1>3. LoginTypeOK'
  <2>1. LoginCalls' = LoginCalls
    BY DEF LeaveMax, LoginCalls
  <2>2. 0 \in 0 .. LastClock + LockTicks
    BY LoginBounds, SMT
  <2>3. screen' \in [Phones -> Screens]
    <3>1. Mounted \in Screens /\ screen \in [Phones -> Screens]
      BY DEF Mounted, Screens, States, LimiterInv, LoginTypeOK
    <3> QED  BY <3>1 DEF LeaveMax
  <2>4. page' \in Pages
    BY DEF LeaveMax, Pages
  <2> QED  BY <1>2, <2>1, <2>2, <2>3, <2>4 DEF LeaveMax, LimiterInv, LoginTypeOK, Screens
<1> QED  BY <1>1, <1>2, <1>3 DEF LimiterInv

\* The clock: what is too old to count is in neither record, and a lock outlasts what made it.
LEMMA ClockKeepsInv ==
  ASSUME LimiterInv, ClockTicks
  PROVE  LimiterInv'
<1>1. /\ lockedUntil \in Nat /\ clock \in Nat /\ LockTicks \in Nat /\ WindowTicks \in Nat
      /\ MaxFailures \in Nat /\ Parallel \in Nat /\ LastClock \in Nat
      /\ MaxFailures > 0 /\ LockTicks > WindowTicks + 1 /\ clock' = clock + 1
  BY LoginBounds, SMT DEF LimiterInv, LoginTypeOK, ClockTicks
<1>2. log \subseteq failures /\ \A f \in failures : f.at \in Nat
  BY <1>1, SMT DEF LimiterInv, LoginTypeOK, LogInv, Recent
<1>3. log' = Recent(failures', clock') /\ log' = {f \in log : f.at >= clock + 1 - WindowTicks}
  BY <1>1, <1>2, SMT DEF ClockTicks, LimiterInv, LogInv, Recent
<1>4. UnderWay' = UnderWay /\ \A c \in UnderWay : c.since = clock
  BY DEF ClockTicks, UnderWay
<1>5. /\ IsFiniteSet(log') /\ Cardinality(log') \in Nat /\ Cardinality(log) \in Nat
      /\ Cardinality(log') <= Cardinality(log)
  <2>1. log' \in SUBSET log
    BY <1>3
  <2> QED  BY <2>1, FS_Subset, FS_CardinalityType DEF LimiterInv, LogInv
<1>6. LoginTypeOK'
  <2>1. 0 .. clock \subseteq 0 .. clock' /\ clock' \in 0 .. LastClock
    BY <1>1, SMT DEF ClockTicks
  <2>2. LoginCalls \subseteq LoginCalls'
    BY <2>1 DEF LoginCalls
  <2>3. /\ log' \subseteq failures'
        /\ failures' \subseteq [n : Nat \ {0}, at : 0 .. clock']
    BY <1>2, <1>3, <2>1 DEF ClockTicks, LimiterInv, LoginTypeOK
  <2> QED  BY <2>1, <2>2, <2>3 DEF ClockTicks, LimiterInv, LoginTypeOK
<1>7. CallsBounded'
  BY DEF ClockTicks, CallsBounded, LimiterInv
<1>8. OneTick'
  BY <1>1, <1>4 DEF OneTick
<1>9. LogInv'
  <2>1. ASSUME NEW f \in log'
        PROVE  f.n <= Cardinality({g \in log' : g.at = f.at})
    <3>1. {g \in log' : g.at = f.at} = {g \in log : g.at = f.at}
      BY <1>3
    <3> QED  BY <1>3, <3>1 DEF LimiterInv, LogInv
  <2> QED  BY <1>3, <1>5, <2>1 DEF LogInv
<1>10. CountInv'
  <2>1. CASE lockedUntil > clock + 1
    BY <1>1, <1>4, <1>5, <2>1, FS_CardinalityType, FS_Subset, SMT
       DEF ClockTicks, LimiterInv, CountInv, CallsBounded, UnderWay
  <2>2. CASE lockedUntil = clock + 1
    <3>1. \A f \in log : f.at + LockTicks <= clock + 2
      BY <1>1, <2>2, SMT DEF LimiterInv, LockInv
    <3>2. log' = {}
      BY <1>1, <1>2, <1>3, <3>1, SMT
    <3>3. Cardinality(log') = 0
      BY <3>2, FS_EmptySet
    <3> QED  BY <1>1, <2>2, <3>3, SMT DEF ClockTicks, CountInv
  <2>3. CASE lockedUntil <= clock
    BY <1>1, <1>5, <2>3, SMT DEF ClockTicks, LimiterInv, CountInv
  <2> QED  BY <1>1, <2>1, <2>2, <2>3, SMT
<1>11. LockInv'
  BY <1>3, <1>4 DEF ClockTicks, LimiterInv, LockInv
<1> QED  BY <1>6, <1>7, <1>8, <1>9, <1>10, <1>11 DEF LimiterInv

\* Steps of MAX's page, and none.
LEMMA PageKeepsInv ==
  ASSUME LimiterInv, PageMoves \/ UNCHANGED loginVars
  PROVE  LimiterInv'
<1>1. UNCHANGED <<screen, calls1, failures, lockedUntil, log, attempts, clock>> /\ page' \in Pages
  BY DEF PageMoves, loginVars, limiter, Pages, LimiterInv, LoginTypeOK
<1>2. LoginTypeOK'
  BY <1>1 DEF LimiterInv, LoginTypeOK, LoginCalls
<1>3. CallsBounded' /\ OneTick' /\ LogInv' /\ CountInv' /\ LockInv'
  BY <1>1 DEF LimiterInv, CallsBounded, OneTick, LogInv, CountInv, LockInv, UnderWay, Recent
<1> QED  BY <1>2, <1>3 DEF LimiterInv

\* Every step keeps the inductive invariant.
LEMMA LimiterInvStep == LimiterInv /\ [LoginNext]_loginVars => LimiterInv'
<1> SUFFICES ASSUME LimiterInv, [LoginNext]_loginVars
             PROVE  LimiterInv'
  OBVIOUS
<1>1. ASSUME NEW p \in Phones, AskStatus(p) \/ Poll(p) \/ AskPicture(p)
      PROVE  LimiterInv'
  <2>1. UNCHANGED attempts /\ \E op \in Pictures \union Polls \union {"status"} : Ask(p, op)
    <3>1. AskStatus(p) => UNCHANGED attempts /\ Ask(p, "status")
      BY DEF AskStatus
    <3>2. Poll(p) => UNCHANGED attempts /\ (Ask(p, "qr poll") \/ Ask(p, "captcha poll"))
      BY DEF Poll
    <3>3. AskPicture(p) => UNCHANGED attempts /\ (Ask(p, "qr") \/ Ask(p, "captcha"))
      BY DEF AskPicture
    <3> QED  BY <1>1, <3>1, <3>2, <3>3 DEF Pictures, Polls
  <2> QED  BY <2>1, AskKeepsInv DEF LimiterInv, LoginTypeOK
<1>2. ASSUME NEW p \in Phones, Submit(p)
      PROVE  LimiterInv'
  <2>1. attempts' \in 0 .. MaxAttempts
    BY <1>2, LoginBounds, SMT DEF Submit, LimiterInv, LoginTypeOK
  <2>2. \E op \in Forms : Ask(p, op)
    BY <1>2 DEF Submit, Forms
  <2> QED  BY <2>1, <2>2, AskKeepsInv
<1>3. ASSUME NEW p \in Phones, LeaveMax(p)
      PROVE  LimiterInv'
  BY <1>3, LeaveKeepsInv
<1>4. ASSUME NEW p \in Phones, NEW tab \in {"phone", "qr"}, ChooseTab(p, tab)
      PROVE  LimiterInv'
  BY <1>4, ChooseTabKeepsInv
<1>5. ASSUME NEW c \in calls1, Late(c) \/ Perform(c) \/ Answered(c)
      PROVE  LimiterInv'
  BY <1>5, WorkKeepsInv, AnsweredKeepsInv
<1>6. CASE PageMoves \/ UNCHANGED loginVars
  BY <1>6, PageKeepsInv
<1>7. CASE ClockTicks
  BY <1>7, ClockKeepsInv
<1> QED  BY <1>1, <1>2, <1>3, <1>4, <1>5, <1>6, <1>7 DEF LoginNext

\* The invariant behind GuessesBounded: a window holds fewer failures than lock, or it is
\* locked and what is under way was under way when the lock was set.
THEOREM LimiterInvariant == LoginSpec => []LimiterInv
BY LimiterInvInit, LimiterInvStep, PTL DEF LoginSpec

\* For any number of devices, calls, attempts and ticks: no window sees more failures than
\* the limit but for the calls under way when it was reached (LoginRateLimiter).
THEOREM AlwaysGuessesBounded == LoginSpec => []GuessesBounded
<1>1. LimiterInv => GuessesBounded
  <2> SUFFICES ASSUME LimiterInv PROVE GuessesBounded
    OBVIOUS
  <2>1. IsFiniteSet(log) /\ IsFiniteSet(UnderWay)
    BY FS_Subset DEF LimiterInv, LogInv, CallsBounded, UnderWay
  <2>2. Cardinality(log) \in Nat /\ Cardinality(UnderWay) \in Nat
    BY <2>1, FS_CardinalityType
  <2>3. lockedUntil \in Nat /\ clock \in Nat /\ MaxFailures \in Nat /\ Parallel \in Nat
    BY LoginBounds, SMT DEF LimiterInv, LoginTypeOK
  <2> QED  BY <2>2, <2>3, SMT DEF LimiterInv, CountInv, GuessesBounded
<1> QED  BY <1>1, LimiterInvariant, PTL

=============================================================================
