-------------------------- MODULE OrchestratorTypes --------------------------
(***************************************************************************)
(* Type correctness of the reconcile loop, for every value of the          *)
(* constants.                                                              *)
(***************************************************************************)
EXTENDS OrchestratorProps, FiniteSetTheorems, WellFoundedInduction, TLAPS

-----------------------------------------------------------------------------
(* Sums                                                                    *)

\* A nonempty set of naturals has a least element: the only induction used here.
LEMMA HasLeast ==
    ASSUME NEW T \in SUBSET Nat, T # {}
    PROVE  \E x \in T : \A y \in T : x <= y
<1> DEFINE R == OpToRel(<, Nat)
<1>1. IsWellFoundedOn(R, Nat)
  BY NatLessThanWellFounded
<1>2. \A x, y \in Nat : y < x => <<y, x>> \in R
  BY DEF OpToRel
<1> HIDE DEF R
<1>3. PICK x \in T : \A y \in T : ~(<<y, x>> \in R)
  BY <1>1, WFMin
<1>4. \A y \in T : ~(y < x)
  BY <1>2, <1>3
<1> QED
  BY <1>4

\* The element the sum takes next.
First(T) == CHOOSE x \in T : TRUE

\* g adds up the values of a over every set of D.
Adds(g, a, D) ==
    g = [T \in D |-> IF T = {} THEN 0 ELSE a[First(T)] + g[T \ {First(T)}]]

LEMMA OneLess ==
    ASSUME NEW S, IsFiniteSet(S), NEW T \in SUBSET S, T # {}
    PROVE  /\ First(T) \in S /\ T \ {First(T)} \in SUBSET S
           /\ Cardinality(T) \in Nat \ {0}
           /\ Cardinality(T \ {First(T)}) = Cardinality(T) - 1
<1>1. First(T) \in T
  BY DEF First
<1>2. IsFiniteSet(T)
  BY FS_Subset
<1>3. Cardinality(T) \in Nat /\ Cardinality(T) # 0
  BY <1>2, FS_CardinalityType, FS_EmptySet
<1>4. Cardinality(T \ {First(T)}) = Cardinality(T) - 1
  BY <1>1, <1>2, FS_RemoveElement
<1> QED
  BY <1>1, <1>3, <1>4

LEMMA SumExists ==
    ASSUME NEW S, IsFiniteSet(S), NEW a \in [S -> Nat]
    PROVE  \E g : Adds(g, a, SUBSET S)
<1> DEFINE D(n) == {T \in SUBSET S : Cardinality(T) <= n}
           Bad == {n \in Nat : ~\E g \in [D(n) -> Nat] : Adds(g, a, D(n))}
<1>1. Bad = {}
  <2> SUFFICES ASSUME Bad # {} PROVE FALSE
    OBVIOUS
  <2>1. PICK n \in Bad : \A m \in Bad : n <= m
    <3>1. Bad \in SUBSET Nat
      OBVIOUS
    <3> HIDE DEF Bad
    <3> QED
      BY <3>1, HasLeast
  <2>2. n \in Nat
    OBVIOUS
  <2>3. CASE n = 0
    <3>1. ASSUME NEW T \in D(n), T # {} PROVE FALSE
      <4>1. T \in SUBSET S /\ Cardinality(T) <= 0
        BY <2>3
      <4>2. Cardinality(T) \in Nat \ {0}
        BY <3>1, <4>1, OneLess
      <4> QED
        BY <4>1, <4>2
    <3> DEFINE g == [T \in D(n) |-> 0]
    <3>2. g \in [D(n) -> Nat]
      OBVIOUS
    <3>3. Adds(g, a, D(n))
      BY <3>1 DEF Adds
    <3> QED
      BY <3>2, <3>3
  <2>4. CASE n # 0
    <3>1. n - 1 \in Nat /\ n - 1 \notin Bad
      <4>1. n - 1 \in Nat /\ ~(n <= n - 1)
        BY <2>2, <2>4
      <4> HIDE DEF Bad
      <4> QED
        BY <2>1, <4>1
    <3>2. PICK g \in [D(n - 1) -> Nat] : Adds(g, a, D(n - 1))
      BY <3>1
    <3>3. ASSUME NEW T \in D(n), T # {}
          PROVE  First(T) \in S /\ T \ {First(T)} \in D(n - 1)
      BY <2>2, <3>3, OneLess
    <3> DEFINE h == [T \in D(n) |-> IF T = {} THEN 0 ELSE a[First(T)] + g[T \ {First(T)}]]
    <3>4. h \in [D(n) -> Nat]
      <4>1. ASSUME NEW T \in D(n), T # {} PROVE a[First(T)] + g[T \ {First(T)}] \in Nat
        <5>1. a[First(T)] \in Nat /\ g[T \ {First(T)}] \in Nat
          <6> HIDE DEF D
          <6> QED
            BY <3>2, <3>3, <4>1
        <5> QED
          BY <5>1
      <4> HIDE DEF D
      <4> QED
        BY <4>1
    <3>5. ASSUME NEW U \in D(n - 1) PROVE h[U] = g[U]
      <4>1. U \in D(n)
        <5>1. Cardinality(U) <= n - 1 /\ U \in SUBSET S
          OBVIOUS
        <5>2. Cardinality(U) \in Nat
          BY <5>1, FS_Subset, FS_CardinalityType
        <5> QED
          BY <2>2, <5>1, <5>2
      <4> HIDE DEF D
      <4>2. h[U] = IF U = {} THEN 0 ELSE a[First(U)] + g[U \ {First(U)}]
        BY <4>1
      <4>3. g[U] = IF U = {} THEN 0 ELSE a[First(U)] + g[U \ {First(U)}]
        BY <3>2 DEF Adds
      <4> QED
        BY <4>2, <4>3
    <3>6. ASSUME NEW T \in D(n)
          PROVE  h[T] = IF T = {} THEN 0 ELSE a[First(T)] + h[T \ {First(T)}]
      <4>1. T # {} => h[T \ {First(T)}] = g[T \ {First(T)}]
        BY <3>3, <3>5
      <4> HIDE DEF D
      <4>2. h[T] = IF T = {} THEN 0 ELSE a[First(T)] + g[T \ {First(T)}]
        OBVIOUS
      <4> QED
        BY <4>1, <4>2
    <3>7. Adds(h, a, D(n))
      <4>1. h = [T \in D(n) |-> h[T]]
        <5> HIDE DEF D
        <5> QED
          OBVIOUS
      <4>2. [T \in D(n) |-> h[T]]
            = [T \in D(n) |-> IF T = {} THEN 0 ELSE a[First(T)] + h[T \ {First(T)}]]
        <5> HIDE DEF D, h
        <5> QED
          BY <3>6
      <4> HIDE DEF D, h
      <4> QED
        BY <4>1, <4>2 DEF Adds
    <3> HIDE DEF h
    <3> QED
      BY <3>4, <3>7
  <2> QED
    BY <2>3, <2>4
<1>2. Cardinality(S) \in Nat
  BY FS_CardinalityType
<1>3. D(Cardinality(S)) = SUBSET S
  <2>1. \A T \in SUBSET S : Cardinality(T) <= Cardinality(S)
    BY FS_Subset
  <2> QED
    BY <2>1
<1>4. \E g \in [D(Cardinality(S)) -> Nat] : Adds(g, a, D(Cardinality(S)))
  BY <1>1, <1>2
<1> QED
  BY <1>3, <1>4

\* The sum of naturals over a finite set is one.
LEMMA SumIsNat ==
    ASSUME NEW S, IsFiniteSet(S), NEW a \in [S -> Nat]
    PROVE  SumFunction(a) \in Nat
<1> DEFINE f == CHOOSE g : Adds(g, a, SUBSET S)
<1>1. SumFunction(a) = f[S]
  BY DEF SumFunction, SumFunctionOnSet, FoldFunctionOnSet, MapThenFoldSet, Adds, First
<1>2. Adds(f, a, SUBSET S)
  BY SumExists
<1> HIDE DEF f
<1>3. \A T \in SUBSET S : f[T] = IF T = {} THEN 0 ELSE a[First(T)] + f[T \ {First(T)}]
  BY <1>2 DEF Adds
<1> DEFINE Bad == {Cardinality(T) : T \in {U \in SUBSET S : f[U] \notin Nat}}
<1>4. Bad = {}
  <2> SUFFICES ASSUME Bad # {} PROVE FALSE
    OBVIOUS
  <2>1. Bad \in SUBSET Nat
    <3>1. \A T \in SUBSET S : Cardinality(T) \in Nat
      BY FS_Subset, FS_CardinalityType
    <3> QED
      BY <3>1
  <2>2. PICK n \in Bad : \A m \in Bad : n <= m
    <3> HIDE DEF Bad
    <3> QED
      BY <2>1, HasLeast
  <2>3. PICK T \in SUBSET S : f[T] \notin Nat /\ n = Cardinality(T)
    OBVIOUS
  <2>4. T # {}
    <3>1. f[{}] = 0
      BY <1>3
    <3> QED
      BY <2>3, <3>1
  <2> DEFINE U == T \ {First(T)}
  <2>5. U \in SUBSET S /\ Cardinality(U) = n - 1 /\ First(T) \in S /\ n \in Nat
    BY <2>3, <2>4, OneLess
  <2>6. f[U] \in Nat
    <3>1. f[U] \notin Nat => n - 1 \in Bad
      BY <2>5
    <3>2. ~(n <= n - 1)
      BY <2>5
    <3> HIDE DEF Bad, U
    <3> QED
      BY <2>2, <3>1, <3>2
  <2>7. f[T] = a[First(T)] + f[U] /\ a[First(T)] \in Nat
    BY <1>3, <2>4, <2>5
  <2> HIDE DEF U
  <2> QED
    BY <2>3, <2>6, <2>7
<1> QED
  BY <1>1, <1>4

-----------------------------------------------------------------------------
(* Facts about the helpers                                                 *)

\* A nonempty finite set of naturals has a largest element, so Max is one of
\* its elements (latest_session_for_issue).
LEMMA MaxIsIn ==
    ASSUME NEW S, IsFiniteSet(S), S \subseteq Nat, S # {}
    PROVE  Max(S) \in S
<1> DEFINE Above(x) == {y \in S : y > x}
           T == {Above(x) : x \in S}
<1>1. T # {} /\ T \subseteq FiniteSubsetsOf(S)
  <2>1. FiniteSubsetsOf(S) = SUBSET S
    BY FS_FiniteSubsetsOfFinite
  <2>2. T \subseteq SUBSET S /\ T # {}
    OBVIOUS
  <2> QED
    BY <2>1, <2>2
<1>2. PICK U \in T : \A V \in T : <<V, U>> \notin StrictSubsetOrdering(S)
  BY <1>1, FS_StrictSubsetOrderingWellFounded, WFMin
<1>3. PICK x \in S : U = Above(x)
  OBVIOUS
<1>4. \A y \in S : x >= y
  <2> SUFFICES ASSUME NEW y \in S, y > x PROVE FALSE
    OBVIOUS
  <2>1. x \in Nat /\ y \in Nat
    OBVIOUS
  <2>2. ASSUME NEW z \in S, z > y PROVE z > x
    <3>1. z \in Nat
      OBVIOUS
    <3> QED
      BY <2>1, <2>2, <3>1
  <2>3. Above(y) \subseteq U
    BY <2>2, <1>3
  <2>4. y \in U /\ y \notin Above(y)
    BY <2>1, <1>3
  <2>5. Above(y) \in T
    OBVIOUS
  <2>6. Above(y) \in SUBSET S /\ U \in SUBSET S
    BY <1>3
  <2>7. <<Above(y), U>> \in StrictSubsetOrdering(S)
    BY <2>3, <2>4, <2>6 DEF StrictSubsetOrdering
  <2> QED
    BY <2>5, <2>7, <1>2
<1> QED
  BY <1>4 DEF Max

LEMMA SessionIdsFinite == IsFiniteSet(SessionIds)
  BY StoreAssumption, FS_Interval DEF SessionIds

LEMMA LatestIsSession ==
    ASSUME NEW n, LatestSession(n) # 0
    PROVE  LatestSession(n) \in SessionIds /\ session[LatestSession(n)].issue = n
<1>1. SessionsOf(n) # {} /\ SessionsOf(n) \subseteq SessionIds
  BY DEF LatestSession, SessionsOf
<1>2. IsFiniteSet(SessionsOf(n)) /\ SessionsOf(n) \subseteq Nat
  BY <1>1, SessionIdsFinite, FS_Subset, StoreAssumption DEF SessionIds
<1> QED
  BY <1>1, <1>2, MaxIsIn DEF LatestSession, SessionsOf

-----------------------------------------------------------------------------
(* Where a handler goes keeps the types of its locals                      *)

\* The row being drained is there as long as a handler of the inbox runs.
KeepsRow ==
    /\ pass' = pass
    /\ cur' \in Events \cup {NoEvent}
    /\ pass = "drain" => cur' \in Events

LEMMA NoFrameType == NoFrame \in Frame
  BY DEF NoFrame, Frame

LEMMA FinishType ==
    ASSUME HandlerTypeOK, KeepsRow, Finish PROVE HandlerTypeOK'
  BY NoFrameType DEF HandlerTypeOK, KeepsRow, Finish, Steps, InHandler

LEMMA RaiseType ==
    ASSUME HandlerTypeOK, KeepsRow, Raise PROVE HandlerTypeOK'
  BY NoFrameType DEF HandlerTypeOK, KeepsRow, Raise, Steps, InHandler

LEMMA CallFlagType ==
    ASSUME HandlerTypeOK, KeepsRow, NEW n \in Issues, NEW r \in Reasons,
           CallFlag(n, r)
    PROVE  HandlerTypeOK'
<1>1. frame' \in Frame /\ frame'.issue = n /\ frame'.reason = r
  BY DEF CallFlag, NoFrame, Frame
<1> QED
  BY <1>1 DEF HandlerTypeOK, KeepsRow, CallFlag, Steps, InHandler

LEMMA AfterCommentType ==
    ASSUME HandlerTypeOK, KeepsRow, NEW n \in Issues,
           NEW r \in Reasons \cup {None}, AfterComment(n, r)
    PROVE  HandlerTypeOK'
  BY FinishType, CallFlagType DEF AfterComment

LEMMA CallCommentType ==
    ASSUME HandlerTypeOK, KeepsRow, NEW n \in Issues, NEW key \in Keys,
           NEW r \in Reasons \cup {None}, CallComment(n, key, r)
    PROVE  HandlerTypeOK'
<1>1. CASE key \in done
  BY <1>1, AfterCommentType DEF CallComment
<1>2. CASE key \notin done
  <2>1. /\ pc' = "comment"
        /\ frame' = [NoFrame EXCEPT !.issue = n, !.key = key, !.reason = r]
    BY <1>2 DEF CallComment
  <2>2. frame' \in Frame /\ frame'.issue = n /\ frame'.key = key
    BY <2>1 DEF NoFrame, Frame
  <2> QED
    BY <2>1, <2>2 DEF HandlerTypeOK, KeepsRow, Steps, InHandler
<1> QED
  BY <1>1, <1>2

LEMMA CallSendType ==
    ASSUME HandlerTypeOK, KeepsRow, NEW s \in SessionIds, NEW n \in Issues,
           NEW key \in Keys, CallSend(s, n, key)
    PROVE  HandlerTypeOK'
<1>1. /\ frame' \in Frame /\ frame'.issue = n /\ frame'.session = s
      /\ frame'.key = key
  BY DEF CallSend, NoFrame, Frame
<1> QED
  BY <1>1 DEF HandlerTypeOK, KeepsRow, CallSend, Steps, InHandler

\* The keys the effects are recorded under, and what is read back from one.
LEMMA KeyParts ==
    ASSUME NEW key \in Keys
    PROVE  /\ key[1] = "ci" => key[2] \in Pulls /\ key[3] \in Shas
           /\ key[1] = "flag" => key[2] \in Issues /\ key[3] \in Reasons /\ key[4] \in Nat
  BY DEF Keys

\* A row stays a row when one of its columns is set.
LEMMA SessionRowEdits ==
    ASSUME NEW r \in SessionRow
    PROVE  /\ \A b \in BOOLEAN : /\ [r EXCEPT !.grace = b] \in SessionRow
                                 /\ [r EXCEPT !.aged = b] \in SessionRow
           /\ \A k \in Nat : /\ [r EXCEPT !.nudges = k] \in SessionRow
                             /\ [r EXCEPT !.nudge_base = k] \in SessionRow
           /\ \A c \in ClosedReasons \cup {None} : [r EXCEPT !.closed = c] \in SessionRow
           /\ \A a \in Acus : [r EXCEPT !.acus = a] \in SessionRow
           /\ r.nudges \in Nat /\ r.nudge_base \in Nat /\ r.acus \in Acus
           /\ r.closed \in ClosedReasons \cup {None}
           /\ r.issue \in Issues \cup {0} /\ r.produced \in BOOLEAN
  BY DEF SessionRow

\* Setting one row of the sessions table keeps the types of the table.
LEMMA SessionUpdate ==
    ASSUME StoreTypeOK, NEW s \in SessionIds, NEW r \in SessionRow,
           r.issue = session[s].issue, session' = [session EXCEPT ![s] = r]
    PROVE  /\ session' \in [SessionIds -> SessionRow]
           /\ \A t \in SessionIds : session'[t].issue = session[t].issue
  BY DEF StoreTypeOK

-----------------------------------------------------------------------------
(* The steps of the effects keep the types                                 *)

LEMMA FlagTypeOK ==
    ASSUME TypeOK, Flag, UNCHANGED loopVars PROVE TypeOK'
<1> USE DEF TypeOK, loopVars
<1>1. /\ KeepsRow /\ frame.issue \in Issues /\ frame.reason \in Reasons
      /\ EpisodeOf(frame.issue) \in Nat
  BY DEF Flag, KeepsRow, HandlerTypeOK, InHandler, Steps, EpisodeOf, StoreTypeOK,
         IssueRow
<1>2. HandlerTypeOK'
  <2>1. FlagKey(frame.issue, frame.reason) \in Keys
    BY <1>1 DEF FlagKey, Keys
  <2> QED
    BY <1>1, <2>1, CallCommentType, FinishType DEF Flag
<1>3. StoreTypeOK'
  <2>1. issue' \in [Issues -> IssueRow]
    BY <1>1 DEF Flag, FlagForHuman, StoreTypeOK, IssueRow
  <2> QED
    BY <2>1 DEF Flag, StoreTypeOK
<1> QED
  BY <1>2, <1>3 DEF Flag, TodoTypeOK, KnownPull

LEMMA CommentTypeOK ==
    ASSUME TypeOK, Comment, UNCHANGED loopVars PROVE TypeOK'
<1> USE DEF TypeOK, loopVars
<1>1. /\ KeepsRow /\ frame.issue \in Issues /\ frame.key \in Keys
      /\ frame.reason \in Reasons \cup {None}
  BY DEF Comment, KeepsRow, HandlerTypeOK, InHandler, Steps, Frame
<1>2. HandlerTypeOK'
  <2>1. CASE pc' = "commented" /\ UNCHANGED frame
    BY <1>1, <2>1 DEF Comment, HandlerTypeOK, KeepsRow, InHandler, Steps
  <2>2. CASE AfterComment(frame.issue, frame.reason)
    BY <1>1, <2>2, AfterCommentType
  <2> QED
    BY <2>1, <2>2 DEF Comment
<1>3. told' \in [Issues -> SUBSET Reasons]
  BY <1>1, KeyParts DEF Comment, Announce
<1> QED
  BY <1>2, <1>3 DEF Comment, storeVars, StoreTypeOK, TodoTypeOK, KnownPull

LEMMA CommentRecordedTypeOK ==
    ASSUME TypeOK, CommentRecorded, UNCHANGED loopVars PROVE TypeOK'
<1> USE DEF TypeOK, loopVars
<1>1. /\ KeepsRow /\ frame.issue \in Issues /\ frame.key \in Keys
      /\ frame.reason \in Reasons \cup {None}
  BY DEF CommentRecorded, KeepsRow, HandlerTypeOK, InHandler, Steps, Frame
<1>2. HandlerTypeOK'
  BY <1>1, AfterCommentType DEF CommentRecorded
<1>3. StoreTypeOK'
  BY <1>1 DEF CommentRecorded, MarkDone, StoreTypeOK
<1> QED
  BY <1>2, <1>3 DEF CommentRecorded, TodoTypeOK, KnownPull

LEMMA TakeFlagDownType ==
    ASSUME TypeOK, NEW n \in Issues, TakeFlagDown(n)
    PROVE  issue' \in [Issues -> IssueRow] /\ told' \in [Issues -> SUBSET Reasons]
  BY DEF TypeOK, StoreTypeOK, TakeFlagDown, ClearHumanFlag, IssueRow

LEMMA ClearFlagTypeOK ==
    ASSUME TypeOK, ClearFlag, UNCHANGED loopVars PROVE TypeOK'
<1> USE DEF TypeOK, loopVars
<1>1. KeepsRow /\ frame.issue \in Issues
  BY DEF ClearFlag, KeepsRow, HandlerTypeOK, InHandler, Steps
<1>2. HandlerTypeOK'
  BY <1>1, FinishType DEF ClearFlag
<1>3. issue' \in [Issues -> IssueRow] /\ told' \in [Issues -> SUBSET Reasons]
  BY <1>1, TakeFlagDownType DEF ClearFlag
<1> QED
  BY <1>2, <1>3 DEF ClearFlag, StoreTypeOK, TodoTypeOK, KnownPull

LEMMA SendMessageTypeOK ==
    ASSUME TypeOK, SendMessage, UNCHANGED loopVars PROVE TypeOK'
<1> USE DEF TypeOK, loopVars
<1>1. /\ KeepsRow /\ frame.key \in Keys /\ frame.issue \in Issues
      /\ frame.session \in SessionIds
  BY DEF SendMessage, KeepsRow, HandlerTypeOK, InHandler, Steps
<1>2. HandlerTypeOK'
  <2>1. CASE pc' = "mark" /\ UNCHANGED frame
    BY <1>1, <2>1 DEF SendMessage, HandlerTypeOK, KeepsRow, InHandler, Steps
  <2>2. CASE Raise
    BY <1>1, <2>2, RaiseType
  <2> QED
    BY <2>1, <2>2 DEF SendMessage
<1>3. sent' \subseteq Keys /\ resent' \subseteq Keys
  BY <1>1 DEF SendMessage, Received
<1> QED
  BY <1>2, <1>3 DEF SendMessage, storeVars, StoreTypeOK, TodoTypeOK, KnownPull

LEMMA MessageRecordedTypeOK ==
    ASSUME TypeOK, MessageRecorded, UNCHANGED loopVars PROVE TypeOK'
<1> USE DEF TypeOK, loopVars
<1>1. frame.key \in Keys
  BY DEF MessageRecorded, HandlerTypeOK
<1>2. HandlerTypeOK'
  BY DEF MessageRecorded, HandlerTypeOK, InHandler, Steps
<1>3. StoreTypeOK'
  BY <1>1 DEF MessageRecorded, MarkDone, StoreTypeOK
<1> QED
  BY <1>2, <1>3 DEF MessageRecorded, TodoTypeOK, KnownPull

LEMMA MessageStampedTypeOK ==
    ASSUME TypeOK, MessageStamped, UNCHANGED loopVars PROVE TypeOK'
<1> USE DEF TypeOK, loopVars
<1>1. KeepsRow /\ frame.session \in SessionIds
  BY DEF MessageStamped, KeepsRow, HandlerTypeOK, InHandler, Steps
<1>2. HandlerTypeOK'
  <2>1. CASE pc' = "follow" /\ UNCHANGED frame
    BY <2>1 DEF MessageStamped, HandlerTypeOK, InHandler, Steps
  <2>2. CASE Finish
    BY <1>1, <2>2, FinishType
  <2> QED
    BY <2>1, <2>2 DEF MessageStamped
<1>3. /\ session' \in [SessionIds -> SessionRow]
      /\ \A s \in SessionIds : session'[s].issue = session[s].issue
  <2>1. session[frame.session] \in SessionRow
    BY <1>1 DEF StoreTypeOK
  <2>2. session' = [session EXCEPT ![frame.session] =
                      [session[frame.session] EXCEPT !.grace = TRUE]]
    BY DEF MessageStamped, MarkMessageSent
  <2>3. /\ [session[frame.session] EXCEPT !.grace = TRUE] \in SessionRow
        /\ [session[frame.session] EXCEPT !.grace = TRUE].issue
           = session[frame.session].issue
    BY <2>1, SessionRowEdits DEF SessionRow
  <2> QED
    BY <1>1, <2>2, <2>3, SessionUpdate
<1> QED
  BY <1>2, <1>3 DEF MessageStamped, StoreTypeOK, TodoTypeOK, KnownPull

LEMMA NudgeCountedTypeOK ==
    ASSUME TypeOK, NudgeCounted, UNCHANGED loopVars PROVE TypeOK'
<1> USE DEF TypeOK, loopVars
<1>1. KeepsRow /\ frame.session \in SessionIds
  BY DEF NudgeCounted, KeepsRow, HandlerTypeOK, InHandler, Steps
<1>2. HandlerTypeOK'
  BY <1>1, FinishType DEF NudgeCounted
<1>3. /\ session' \in [SessionIds -> SessionRow]
      /\ \A s \in SessionIds : session'[s].issue = session[s].issue
  <2> DEFINE r == [session[frame.session] EXCEPT !.nudges = @ + 1]
  <2>1. session[frame.session] \in SessionRow
    BY <1>1 DEF StoreTypeOK
  <2>2. session' = [session EXCEPT ![frame.session] = r]
    BY DEF NudgeCounted, BumpNudges
  <2>3. session[frame.session].nudges + 1 \in Nat
    BY <2>1, SessionRowEdits
  <2>4. r \in SessionRow
    BY <2>1, <2>3, SessionRowEdits
  <2>5. r.issue = session[frame.session].issue
    BY <2>1 DEF SessionRow
  <2> QED
    BY <1>1, <2>2, <2>4, <2>5, SessionUpdate
<1> QED
  BY <1>2, <1>3 DEF NudgeCounted, StoreTypeOK, TodoTypeOK, KnownPull

LEMMA CiRoundCountedTypeOK ==
    ASSUME TypeOK, CiRoundCounted, UNCHANGED loopVars PROVE TypeOK'
<1> USE DEF TypeOK, loopVars
<1>1. KeepsRow /\ frame.key \in Keys
  BY DEF CiRoundCounted, KeepsRow, HandlerTypeOK, InHandler, Steps
<1>2. HandlerTypeOK'
  BY <1>1, FinishType DEF CiRoundCounted
<1>3. frame.key[2] \in Pulls /\ frame.key[3] \in Shas
  BY <1>1, KeyParts DEF CiRoundCounted
<1>4. /\ pull' \in [Pulls -> PullRow]
      /\ \A p \in Pulls : /\ pull'[p].issue = pull[p].issue
                          /\ pull'[p].session = pull[p].session
  BY <1>3 DEF CiRoundCounted, CountCiRound, StoreTypeOK, PullRow
<1> QED
  BY <1>2, <1>4 DEF CiRoundCounted, StoreTypeOK, TodoTypeOK, KnownPull

LEMMA BudgetsResetTypeOK ==
    ASSUME TypeOK, BudgetsReset, UNCHANGED loopVars PROVE TypeOK'
<1> USE DEF TypeOK, loopVars
<1>1. frame.session \in SessionIds
  BY DEF BudgetsReset, HandlerTypeOK
<1>2. HandlerTypeOK'
  BY DEF BudgetsReset, HandlerTypeOK, InHandler, Steps
<1>3. /\ session' \in [SessionIds -> SessionRow]
      /\ \A s \in SessionIds : session'[s].issue = session[s].issue
  <2> DEFINE r == [session[frame.session] EXCEPT !.nudge_base =
                                           session[frame.session].nudges]
  <2>1. session[frame.session] \in SessionRow
    BY <1>1 DEF StoreTypeOK
  <2>2. session' = [session EXCEPT ![frame.session] = r]
    BY DEF BudgetsReset, ResetBudgets
  <2>3. r \in SessionRow /\ r.issue = session[frame.session].issue
    BY <2>1, SessionRowEdits DEF SessionRow
  <2> QED
    BY <1>1, <2>2, <2>3, SessionUpdate
<1>4. /\ pull' \in [Pulls -> PullRow]
      /\ \A p \in Pulls : /\ pull'[p].issue = pull[p].issue
                          /\ pull'[p].session = pull[p].session
  <2>1. ASSUME NEW p \in Pulls
        PROVE  /\ pull'[p] \in PullRow
               /\ pull'[p].issue = pull[p].issue /\ pull'[p].session = pull[p].session
    <3>1. pull[p] \in PullRow
      BY DEF StoreTypeOK
    <3>2. pull'[p] = pull[p] \/
          pull'[p] = [pull[p] EXCEPT !.rounds_base = pull[p].rounds, !.last_sha = None]
      BY DEF BudgetsReset, ResetBudgets
    <3> QED
      BY <3>1, <3>2 DEF PullRow
  <2> QED
    BY <2>1 DEF BudgetsReset, ResetBudgets
<1> QED
  BY <1>2, <1>3, <1>4 DEF BudgetsReset, StoreTypeOK, TodoTypeOK, KnownPull

LEMMA CreateSessionTypeOK ==
    ASSUME TypeOK, CreateSession, UNCHANGED loopVars PROVE TypeOK'
<1> USE DEF TypeOK, loopVars
<1>1. KeepsRow /\ frame.issue \in Issues
  BY DEF CreateSession, KeepsRow, HandlerTypeOK, InHandler, Steps
<1>2. HandlerTypeOK'
  <2>1. ASSUME NEW s \in UnusedSessions, pc' = "record",
               frame' = [frame EXCEPT !.session = s]
        PROVE  HandlerTypeOK'
    BY <1>1, <2>1 DEF HandlerTypeOK, KeepsRow, InHandler, Steps, Frame, UnusedSessions
  <2>2. CASE CallFlag(frame.issue, "start_failed")
    BY <1>1, <2>2, CallFlagType DEF Reasons
  <2> QED
    BY <2>1, <2>2 DEF CreateSession
<1>3. billed' \in [SessionIds -> (Issues \X Nat) \cup {Unbilled}]
  <2>1. issue[frame.issue].attempts \in Nat
    BY <1>1 DEF StoreTypeOK, IssueRow
  <2>2. <<frame.issue, issue[frame.issue].attempts>> \in Issues \X Nat
    BY <1>1, <2>1
  <2>3. CASE UNCHANGED billed
    BY <2>3
  <2>4. CASE \E s \in SessionIds : Bill(s)
    BY <2>2, <2>4 DEF Bill
  <2> QED
    BY <2>3, <2>4 DEF CreateSession, UnusedSessions
<1> QED
  BY <1>2, <1>3 DEF CreateSession, storeVars, StoreTypeOK, TodoTypeOK, KnownPull

LEMMA SessionRecordedTypeOK ==
    ASSUME TypeOK, SessionRecorded, UNCHANGED loopVars PROVE TypeOK'
<1> USE DEF TypeOK, loopVars
<1>1. KeepsRow /\ frame.issue \in Issues /\ frame.session \in SessionIds
  BY DEF SessionRecorded, KeepsRow, HandlerTypeOK, InHandler, Steps
<1>2. HandlerTypeOK'
  <2>1. <<"started", frame.session>> \in Keys
    BY <1>1 DEF Keys
  <2> QED
    BY <1>1, <2>1, CallCommentType DEF SessionRecorded
<1>3. /\ session' \in [SessionIds -> SessionRow]
      /\ \A s \in SessionIds : session[s].issue # 0 => session'[s].issue # 0
  <2>1. issue[frame.issue].attempts \in Nat /\ 0 \in Acus /\ frame.issue # 0
    BY <1>1, StoreAssumption DEF StoreTypeOK, IssueRow
  <2>2. [NoSession EXCEPT !.issue = frame.issue,
                          !.attempt = issue[frame.issue].attempts] \in SessionRow
    BY <1>1, <2>1 DEF NoSession, SessionRow
  <2> QED
    BY <1>1, <2>1, <2>2 DEF SessionRecorded, CreateSessionRow, StoreTypeOK, NoSession
<1> QED
  BY <1>2, <1>3 DEF SessionRecorded, StoreTypeOK, TodoTypeOK, KnownPull

LEMMA EffectsTypeOK ==
    ASSUME TypeOK, EffectSteps, UNCHANGED loopVars PROVE TypeOK'
  BY FlagTypeOK, CommentTypeOK, CommentRecordedTypeOK, ClearFlagTypeOK,
     SendMessageTypeOK, MessageRecordedTypeOK, MessageStampedTypeOK,
     NudgeCountedTypeOK, CiRoundCountedTypeOK, BudgetsResetTypeOK,
     CreateSessionTypeOK, SessionRecordedTypeOK DEF EffectSteps

-----------------------------------------------------------------------------
(* The steps of the loop keep the types                                    *)

LEMMA TodoShrinks ==
    ASSUME TypeOK, pass' = pass, todo' \subseteq todo,
           \A s \in SessionIds : session[s].issue # 0 => session'[s].issue # 0,
           \A p \in Pulls : pull[p].issue # 0 => pull'[p].issue # 0
    PROVE  TodoTypeOK'
  BY DEF TypeOK, TodoTypeOK, KnownPull

LEMMA AcusSum ==
    ASSUME NEW row, \A s \in SessionIds : row[s].acus \in Acus
    PROVE  SumFunction([s \in SessionIds |-> row[s].acus]) \in Nat
<1> DEFINE a == [s \in SessionIds |-> row[s].acus]
<1>1. a \in [SessionIds -> Nat]
  BY StoreAssumption
<1> HIDE DEF a
<1>2. SumFunction(a) \in Nat
  BY <1>1, SessionIdsFinite, SumIsNat
<1> QED
  BY <1>2 DEF a

LEMMA TotalIsNat ==
    /\ TypeOK  => TotalAcus \in Nat
    /\ TypeOK' => TotalAcus' \in Nat
<1>1. TypeOK => \A s \in SessionIds : session[s].acus \in Acus
  BY DEF TypeOK, StoreTypeOK, SessionRow
<1>2. TypeOK' => \A s \in SessionIds : session'[s].acus \in Acus
  BY DEF TypeOK, StoreTypeOK, SessionRow, SessionIds
<1> QED
  BY <1>1, <1>2, AcusSum DEF TotalAcus, SessionIds

LEMMA BeginPassType ==
    ASSUME TypeOK, NEW p \in Passes, BeginPass(p), UNCHANGED <<session, pull>>
    PROVE  TodoTypeOK' /\ active' \in Nat /\ spent' \in Nat
<1>1. TodoTypeOK'
  BY DEF BeginPass, Work, TodoTypeOK, KnownPull, TrackedPulls
<1>2. Occupying \in SUBSET SessionIds
  BY DEF Occupying
<1>3. Cardinality(Occupying) \in Nat
  BY <1>2, SessionIdsFinite, FS_Subset, FS_CardinalityType
<1> QED
  BY <1>1, <1>3, TotalIsNat DEF BeginPass

LEMMA PeriodType == PrEvery * SlowEvery \in Nat \ {0}
  BY OrchestratorAssumption

LEMMA TickBeginsTypeOK == ASSUME TypeOK, TickBegins PROVE TypeOK'
<1> USE DEF TypeOK
<1>1. HandlerTypeOK'
  BY DEF TickBegins, BeginPass, HandlerTypeOK, InHandler, Steps, Passes
<1>2. TodoTypeOK' /\ active' \in Nat /\ spent' \in Nat
  BY BeginPassType DEF TickBegins, storeVars, Passes
<1>3. tick' \in Nat
  <2> DEFINE period == PrEvery * SlowEvery
  <2>1. period \in Nat \ {0}
    BY PeriodType
  <2>2. tick' = (tick + 1) % period
    BY DEF TickBegins
  <2> HIDE DEF period
  <2> QED
    BY <2>1, <2>2
<1>4. forced' \in BOOLEAN
  BY DEF TickBegins
<1> QED
  BY <1>1, <1>2, <1>3, <1>4 DEF TickBegins, storeVars, history, StoreTypeOK

LEMMA PassEndsTypeOK == ASSUME TypeOK, PassEnds PROVE TypeOK'
<1> USE DEF TypeOK
<1>1. PassAfter(pass) \in Passes \ {"drain"}
  BY DEF PassAfter, Passes
<1>2. HandlerTypeOK'
  BY <1>1 DEF PassEnds, BeginPass, HandlerTypeOK, InHandler, Steps
<1>3. TodoTypeOK' /\ active' \in Nat /\ spent' \in Nat
  BY <1>1, BeginPassType DEF PassEnds, storeVars
<1> QED
  BY <1>2, <1>3 DEF PassEnds, storeVars, history, StoreTypeOK

LEMMA RegisterType ==
    ASSUME TypeOK, KeepsRow, NEW n \in Issues, RegisterIssueVerified(n)
    PROVE  HandlerTypeOK' /\ issue' \in [Issues -> IssueRow]
<1>1. issue' \in [Issues -> IssueRow]
  <2>1. issue \in [Issues -> IssueRow] /\ issue[n] \in IssueRow
    BY DEF TypeOK, StoreTypeOK
  <2>2. /\ [issue[n] EXCEPT !.known = TRUE] \in IssueRow
        /\ [issue[n] EXCEPT !.retry = TRUE] \in IssueRow
    BY <2>1 DEF IssueRow
  <2>3. \/ UNCHANGED issue
        \/ issue' = [issue EXCEPT ![n] = [issue[n] EXCEPT !.known = TRUE]]
        \/ issue' = [issue EXCEPT ![n] = [issue[n] EXCEPT !.retry = TRUE]]
    BY DEF RegisterIssueVerified, RegisterIssue, RequestRetry
  <2> QED
    BY <2>1, <2>2, <2>3
<1>2. ASSUME pc' = "retry", frame' = [NoFrame EXCEPT !.issue = n]
      PROVE  HandlerTypeOK'
  <2>1. frame' \in Frame /\ frame'.issue = n
    BY <1>2 DEF NoFrame, Frame
  <2> QED
    BY <1>2, <2>1 DEF TypeOK, HandlerTypeOK, KeepsRow, InHandler, Steps
<1> QED
  BY <1>1, <1>2, RaiseType, FinishType DEF RegisterIssueVerified, TypeOK

\* Facts about a row of the inbox, by its kind.
LEMMA EventType ==
    ASSUME NEW e \in Events
    PROVE  /\ e.kind \in EventKinds /\ e.id \in Nat /\ e.sha \in Shas \cup {None}
           /\ e.kind \in {"issue_labeled", "issue_comment"} => e.issue \in Issues
           /\ e.kind \notin {"issue_labeled", "issue_comment"} => e.pull \in Pulls
  BY StoreAssumption

LEMMA TakesEventType ==
    ASSUME TypeOK, NEW e \in Events, TakesEvent(e), UNCHANGED pass
    PROVE  KeepsRow /\ pass = "drain" /\ todo' \subseteq todo
  BY DEF TakesEvent, Takes, KeepsRow

LEMMA HandleLabeledTypeOK ==
    ASSUME TypeOK, NEW e \in Events, HandleLabeled(e) PROVE TypeOK'
<1>1. KeepsRow /\ e.issue \in Issues /\ pass = "drain"
  BY EventType, TakesEventType DEF HandleLabeled
<1>2. HandlerTypeOK' /\ issue' \in [Issues -> IssueRow]
  BY <1>1, RegisterType DEF HandleLabeled
<1> QED
  BY <1>1, <1>2 DEF HandleLabeled, TypeOK, history, StoreTypeOK, TodoTypeOK

LEMMA RecoverIssueTypeOK ==
    ASSUME TypeOK, NEW n \in Issues, RecoverIssue(n) PROVE TypeOK'
<1>1. KeepsRow /\ pass = "resync"
  BY DEF RecoverIssue, TakesUnknownIssue, Takes, KeepsRow, TypeOK, HandlerTypeOK
<1>2. HandlerTypeOK' /\ issue' \in [Issues -> IssueRow]
  BY <1>1, RegisterType DEF RecoverIssue
<1> QED
  BY <1>1, <1>2 DEF RecoverIssue, TypeOK, history, StoreTypeOK, TodoTypeOK

LEMMA RetryClearsFlagTypeOK ==
    ASSUME TypeOK, RetryClearsFlag PROVE TypeOK'
<1>1. frame.issue \in Issues
  BY DEF TypeOK, RetryClearsFlag, HandlerTypeOK, InHandler, Steps
<1>2. issue' \in [Issues -> IssueRow] /\ told' \in [Issues -> SUBSET Reasons]
  BY <1>1, TakeFlagDownType DEF RetryClearsFlag
<1>3. HandlerTypeOK'
  BY <1>1 DEF TypeOK, RetryClearsFlag, HandlerTypeOK, InHandler, Steps
<1> QED
  BY <1>2, <1>3 DEF RetryClearsFlag, TypeOK, loopVars, StoreTypeOK, TodoTypeOK,
                    KnownPull

LEMMA SupersedeTypeOK ==
    ASSUME TypeOK, SupersedeOpenSessions PROVE TypeOK'
<1>1. KeepsRow
  BY DEF TypeOK, SupersedeOpenSessions, KeepsRow, HandlerTypeOK, InHandler, Steps
<1>2. HandlerTypeOK'
  BY <1>1, FinishType DEF SupersedeOpenSessions, TypeOK
<1>3. /\ session' \in [SessionIds -> SessionRow]
      /\ \A s \in SessionIds : session'[s].issue = session[s].issue
  <2>1. ASSUME NEW s \in SessionIds
        PROVE  session'[s] \in SessionRow /\ session'[s].issue = session[s].issue
    <3>1. session[s] \in SessionRow
      BY DEF TypeOK, StoreTypeOK
    <3>2. \/ session'[s] = session[s]
          \/ session'[s] = [session[s] EXCEPT !.closed = "superseded"]
      BY DEF SupersedeOpenSessions
    <3>3. /\ [session[s] EXCEPT !.closed = "superseded"] \in SessionRow
          /\ [session[s] EXCEPT !.closed = "superseded"].issue = session[s].issue
      BY <3>1, SessionRowEdits DEF SessionRow, ClosedReasons
    <3> QED
      BY <3>1, <3>2, <3>3
  <2> QED
    BY <2>1 DEF SupersedeOpenSessions
<1> QED
  BY <1>2, <1>3 DEF SupersedeOpenSessions, TypeOK, loopVars, history, StoreTypeOK,
                    TodoTypeOK, KnownPull

LEMMA StartDeferredTypeOK == ASSUME TypeOK, StartDeferred PROVE TypeOK'
  BY DEF StartDeferred, TypeOK, storeVars, history, StoreTypeOK, HandlerTypeOK,
         TodoTypeOK, KnownPull

LEMMA StartOverBudgetTypeOK == ASSUME TypeOK, StartOverBudget PROVE TypeOK'
<1>1. PICK n \in todo : FirstQueued(n) /\ CallFlag(n, "budget_exhausted")
  BY DEF StartOverBudget
<1>2. n \in Issues /\ KeepsRow
  BY <1>1 DEF FirstQueued, TypeOK, TodoTypeOK, StartOverBudget, KeepsRow,
              HandlerTypeOK
<1>3. HandlerTypeOK'
  BY <1>1, <1>2, CallFlagType DEF TypeOK, Reasons
<1> QED
  BY <1>3 DEF StartOverBudget, TypeOK, storeVars, history, StoreTypeOK, TodoTypeOK,
              KnownPull

LEMMA ReserveAttemptTypeOK ==
    ASSUME TypeOK, NEW n \in Issues, ReserveAttempt(n) PROVE TypeOK'
<1>1. pass = "start" /\ UNCHANGED <<pass, cur>>
  BY DEF ReserveAttempt, FirstQueued
<1>2. HandlerTypeOK'
  <2>1. frame' \in Frame /\ frame'.issue = n /\ pc' = "create"
    BY DEF ReserveAttempt, NoFrame, Frame
  <2> QED
    BY <1>1, <2>1 DEF TypeOK, HandlerTypeOK, InHandler, Steps
<1>3. issue' \in [Issues -> IssueRow]
  <2> DEFINE r == [issue[n] EXCEPT !.attempts = @ + 1, !.retry = FALSE]
  <2>1. issue \in [Issues -> IssueRow] /\ issue[n] \in IssueRow
    BY DEF TypeOK, StoreTypeOK
  <2>2. r \in IssueRow
    <3>1. issue[n].attempts + 1 \in Nat
      BY <2>1 DEF IssueRow
    <3>2. \A k \in Nat : [issue[n] EXCEPT !.attempts = k, !.retry = FALSE] \in IssueRow
      BY <2>1 DEF IssueRow
    <3> QED
      BY <3>1, <3>2
  <2>3. issue' = [issue EXCEPT ![n] = r]
    BY DEF ReserveAttempt, BeginAttempt
  <2> QED
    BY <2>1, <2>2, <2>3
<1>4. spent' \in Nat
  BY OrchestratorAssumption DEF ReserveAttempt, Commit, TypeOK
<1> QED
  BY <1>1, <1>2, <1>3, <1>4 DEF ReserveAttempt, TypeOK, history, StoreTypeOK, TodoTypeOK

LEMMA TakesSessionType ==
    ASSUME TypeOK, NEW s \in SessionIds, TakesSession(s), UNCHANGED pass
    PROVE  /\ KeepsRow /\ pass = "track" /\ todo' \subseteq todo
           /\ session[s] \in SessionRow /\ session[s].issue \in Issues
<1>1. KeepsRow /\ pass = "track" /\ todo' \subseteq todo /\ s \in todo
  BY DEF TakesSession, Takes, KeepsRow, TypeOK, HandlerTypeOK
<1>2. session[s] \in SessionRow /\ session[s].issue # 0
  BY <1>1 DEF TypeOK, TodoTypeOK, StoreTypeOK
<1> QED
  BY <1>1, <1>2, SessionRowEdits

LEMMA TimeOutTypeOK ==
    ASSUME TypeOK, NEW s \in SessionIds, TimeOut(s) PROVE TypeOK'
<1> DEFINE r == [session[s] EXCEPT !.closed = IF @ = None THEN "timeout" ELSE @]
<1>1. /\ KeepsRow /\ pass = "track" /\ todo' \subseteq todo
      /\ session[s] \in SessionRow /\ session[s].issue \in Issues
  BY TakesSessionType DEF TimeOut
<1>2. HandlerTypeOK'
  BY <1>1, CallFlagType DEF TimeOut, TypeOK, Reasons
<1>3. /\ session' \in [SessionIds -> SessionRow]
      /\ \A t \in SessionIds : session'[t].issue = session[t].issue
  <2>1. session' = [session EXCEPT ![s] = r]
    BY DEF TimeOut, CloseSession
  <2>2. (IF session[s].closed = None THEN "timeout" ELSE session[s].closed)
        \in ClosedReasons \cup {None}
    BY <1>1, SessionRowEdits DEF ClosedReasons
  <2>3. r \in SessionRow
    BY <1>1, <2>2, SessionRowEdits
  <2>4. r.issue = session[s].issue
    BY <1>1 DEF SessionRow
  <2> QED
    BY <2>1, <2>3, <2>4, SessionUpdate DEF TypeOK
<1>4. TodoTypeOK'
  BY <1>1, <1>3, TodoShrinks DEF TimeOut
<1> QED
  BY <1>2, <1>3, <1>4 DEF TimeOut, TypeOK, history, StoreTypeOK

LEMMA PollFailsTypeOK ==
    ASSUME TypeOK, NEW s \in SessionIds, PollFails(s) PROVE TypeOK'
<1>1. KeepsRow /\ todo' \subseteq todo
  BY TakesSessionType DEF PollFails
<1>2. HandlerTypeOK'
  BY <1>1, RaiseType DEF PollFails, TypeOK
<1>3. TodoTypeOK'
  BY <1>1, TodoShrinks DEF PollFails, storeVars
<1> QED
  BY <1>2, <1>3 DEF PollFails, TypeOK, history, storeVars, StoreTypeOK

\* What a poll may write over closed_reason.
LEMMA ClosingReasonType ==
    ASSUME NEW status, NEW detail
    PROVE  ClosingReason(status, detail) \in ClosedReasons \cup {None}
  BY DEF ClosingReason, ClosedReasons

LEMMA RecordPollType ==
    ASSUME StoreTypeOK, NEW s \in SessionIds, NEW o \in Observations,
           NEW produced \in BOOLEAN, NEW reason \in ClosedReasons \cup {None},
           RecordPoll(s, o, produced, reason)
    PROVE  /\ session' \in [SessionIds -> SessionRow]
           /\ \A t \in SessionIds : session'[t].issue = session[t].issue
<1> DEFINE row == session[s]
           acus == IF o.acus > row.acus THEN o.acus ELSE row.acus
           closed == IF row.closed = None THEN reason ELSE row.closed
           r == [row EXCEPT !.status = o.status, !.detail = o.detail,
                            !.acus = acus, !.produced = row.produced \/ produced,
                            !.closed = closed]
<1>1. row \in SessionRow
  BY DEF StoreTypeOK
<1>2. session' = [session EXCEPT ![s] = r]
  BY DEF RecordPoll
<1>3. /\ acus \in Acus /\ (row.produced \/ produced) \in BOOLEAN
      /\ closed \in ClosedReasons \cup {None}
  BY <1>1, SessionRowEdits, OrchestratorAssumption
<1>4. r \in SessionRow /\ r.issue = row.issue
  <2> HIDE DEF acus, closed, row
  <2> QED
    BY <1>1, <1>3 DEF SessionRow
<1> QED
  BY <1>2, <1>4, SessionUpdate

LEMMA PollTypeOK ==
    ASSUME TypeOK, NEW s \in SessionIds, NEW o \in Observations, Poll(s, o)
    PROVE  TypeOK'
<1>1. /\ KeepsRow /\ pass = "track" /\ todo' \subseteq todo
      /\ session[s].issue \in Issues
  BY TakesSessionType DEF Poll
<1>2. /\ session' \in [SessionIds -> SessionRow]
      /\ \A t \in SessionIds : session'[t].issue = session[t].issue
  <2> DEFINE produced == HasProduced([session[s] EXCEPT !.status = o.status,
                                                       !.detail = o.detail],
                                     o.final, HasPull(o))
  <2>1. produced \in BOOLEAN
    BY OrchestratorAssumption DEF HasProduced
  <2>2. RecordPoll(s, o, produced, ClosingReason(o.status, o.detail))
    BY DEF Poll
  <2> HIDE DEF produced
  <2> QED
    BY <2>1, <2>2, ClosingReasonType, RecordPollType DEF TypeOK
<1>3. HandlerTypeOK'
  <2>1. /\ frame' \in Frame /\ frame'.issue = session[s].issue
        /\ frame'.session = s /\ frame'.poll = o /\ pc' = "act"
    BY <1>1 DEF Poll, NoFrame, Frame
  <2> QED
    BY <1>1, <2>1 DEF Poll, TypeOK, HandlerTypeOK, KeepsRow, InHandler, Steps
<1>4. TodoTypeOK'
  BY <1>1, <1>2, TodoShrinks DEF Poll
<1> QED
  BY <1>2, <1>3, <1>4 DEF Poll, TypeOK, history, StoreTypeOK

LEMMA ActOnType ==
    ASSUME TypeOK, KeepsRow, NEW s \in SessionIds, NEW n \in Issues,
           NEW o \in Observations, ActOn(s, n, o)
    PROVE  HandlerTypeOK'
<1>1. HandlerTypeOK /\ session[s] \in SessionRow
  BY DEF TypeOK, StoreTypeOK
<1>2. <<"completion", s>> \in Keys
  BY DEF Keys
<1>3. NudgeKey(s) \in Keys
  <2>1. session[s].nudges + 1 \in Nat
    BY <1>1, SessionRowEdits
  <2> QED
    BY <2>1 DEF NudgeKey, Keys
<1>4. {"not_fixed", "cost_halt", "session_error", "blocked_on_question"} \subseteq Reasons
  BY DEF Reasons
<1>5. ASSUME HandleBlocked(s, n) PROVE HandlerTypeOK'
  BY <1>1, <1>3, <1>4, <1>5, CallSendType, FinishType, CallFlagType
     DEF HandleBlocked, CallMessage
<1>6. ASSUME NEW r, FlagEnd(n, r) PROVE HandlerTypeOK'
  BY <1>1, <1>4, <1>6, CallFlagType DEF FlagEnd
<1>7. ASSUME CallComment(n, <<"completion", s>>,
                         IF HasPull(o) THEN None ELSE "not_fixed")
      PROVE  HandlerTypeOK'
  <2>1. (IF HasPull(o) THEN None ELSE "not_fixed") \in Reasons \cup {None}
    BY <1>4
  <2> QED
    BY <1>1, <1>2, <1>7, <2>1, CallCommentType
<1> QED
  BY <1>1, <1>5, <1>6, <1>7, FinishType DEF ActOn, ReportCompletion

LEMMA ActOnPollTypeOK == ASSUME TypeOK, ActOnPoll PROVE TypeOK'
<1>1. /\ KeepsRow /\ frame.session \in SessionIds /\ frame.issue \in Issues
      /\ frame.poll \in Observations
  BY DEF ActOnPoll, KeepsRow, TypeOK, HandlerTypeOK, InHandler, Steps
<1>2. HandlerTypeOK'
  BY <1>1, ActOnType DEF ActOnPoll
<1>3. /\ pull' \in [Pulls -> PullRow]
      /\ \A p \in Pulls : /\ pull'[p].issue # 0 => pull'[p].session \in SessionIds
                          /\ pull[p].issue # 0 => pull'[p].issue # 0
  <2>1. session[frame.session].issue \in Issues \cup {0}
    BY <1>1, SessionRowEdits DEF TypeOK, StoreTypeOK
  <2>2. ASSUME NEW p \in Pulls
        PROVE  /\ pull'[p] \in PullRow
               /\ pull'[p].issue # 0 => pull'[p].session \in SessionIds
               /\ pull[p].issue # 0 => pull'[p].issue # 0
    <3>1. CASE pull'[p] = pull[p]
      BY <3>1 DEF TypeOK, StoreTypeOK
    <3>2. CASE /\ pull'[p] = [NoPull EXCEPT !.issue = session[frame.session].issue,
                                            !.session = frame.session]
               /\ ~KnownPull(p)
      <4>1. [NoPull EXCEPT !.issue = session[frame.session].issue,
                           !.session = frame.session] \in PullRow
        BY <1>1, <2>1 DEF NoPull, PullRow
      <4>2. pull'[p].session = frame.session
        BY <3>2 DEF NoPull
      <4> QED
        BY <1>1, <3>2, <4>1, <4>2 DEF KnownPull
    <3> QED
      BY <3>1, <3>2 DEF ActOnPoll, UpsertPulls
  <2> QED
    BY <2>2 DEF ActOnPoll, UpsertPulls
<1>4. TodoTypeOK'
  BY <1>3, TodoShrinks DEF ActOnPoll, loopVars
<1> QED
  BY <1>2, <1>3, <1>4 DEF ActOnPoll, TypeOK, history, loopVars, StoreTypeOK

\* The session a pull request row names.
LEMMA SessionOfPullType ==
    ASSUME TypeOK, NEW p, SessionOfPull(p) # 0
    PROVE  /\ p \in Pulls /\ KnownPull(p) /\ SessionOfPull(p) = pull[p].session
           /\ pull[p].session \in SessionIds /\ pull[p].issue \in Issues
<1>1. KnownPull(p) /\ p \in Pulls /\ SessionOfPull(p) = pull[p].session
  BY DEF SessionOfPull, KnownPull
<1>2. pull[p] \in PullRow /\ pull[p].session \in SessionIds
  BY <1>1 DEF TypeOK, StoreTypeOK, KnownPull
<1> QED
  BY <1>1, <1>2 DEF PullRow, KnownPull

LEMMA PullType ==
    ASSUME TypeOK, NEW p, KnownPull(p)
    PROVE  /\ p \in Pulls /\ pull[p] \in PullRow /\ pull[p].issue \in Issues
           /\ pull[p].session \in SessionIds
<1>1. p \in Pulls /\ pull[p].issue # 0 /\ pull[p] \in PullRow
  BY DEF KnownPull, TypeOK, StoreTypeOK
<1> QED
  BY <1>1 DEF TypeOK, StoreTypeOK, PullRow

LEMMA FeedCiFailureType ==
    ASSUME TypeOK, KeepsRow, NEW p, KnownPull(p), NEW sha \in Shas,
           FeedCiFailure(p, sha)
    PROVE  HandlerTypeOK'
<1>1. /\ pull[p].issue \in Issues /\ pull[p].session \in SessionIds /\ HandlerTypeOK
      /\ <<"ci", p, sha>> \in Keys /\ "ci_unresolved" \in Reasons
  BY PullType DEF TypeOK, Keys, Reasons
<1>2. CallFlag(pull[p].issue, "ci_unresolved") => HandlerTypeOK'
  BY <1>1, CallFlagType
<1>3. ASSUME CallMessage(pull[p].session, pull[p].issue, <<"ci", p, sha>>, TRUE,
                         CallFlag(pull[p].issue, "ci_unresolved"))
      PROVE  HandlerTypeOK'
  BY <1>1, <1>2, <1>3, CallSendType, FinishType DEF CallMessage
<1> QED
  BY <1>1, <1>2, <1>3, FinishType, RaiseType DEF FeedCiFailure

LEMMA FeedMergeConflictType ==
    ASSUME TypeOK, KeepsRow, NEW p, KnownPull(p), NEW sha \in Shas,
           FeedMergeConflict(p, sha)
    PROVE  HandlerTypeOK'
<1>1. /\ pull[p].issue \in Issues /\ HandlerTypeOK
      /\ <<"conflict", p, sha>> \in Keys /\ "merge_conflict" \in Reasons
  BY PullType DEF TypeOK, Keys, Reasons
<1>2. CallFlag(pull[p].issue, "merge_conflict") => HandlerTypeOK'
  BY <1>1, CallFlagType
<1>3. ASSUME ~ConflictExhausted(p),
             CallMessage(SessionOfPull(p), pull[p].issue, <<"conflict", p, sha>>,
                         TRUE, CallFlag(pull[p].issue, "merge_conflict"))
      PROVE  HandlerTypeOK'
  <2>1. SessionOfPull(p) \in SessionIds
    BY <1>3, SessionOfPullType DEF ConflictExhausted
  <2> QED
    BY <1>1, <1>2, <1>3, <2>1, CallSendType, FinishType DEF CallMessage
<1> QED
  BY <1>1, <1>2, <1>3, FinishType DEF FeedMergeConflict

LEMMA AdvancePullType ==
    ASSUME TypeOK, KeepsRow, NEW p, KnownPull(p), AdvancePull(p)
    PROVE  /\ HandlerTypeOK'
           /\ pull' \in [Pulls -> PullRow]
           /\ \A q \in Pulls : /\ pull'[q].issue = pull[q].issue
                               /\ pull'[q].session = pull[q].session
<1>1. /\ p \in Pulls /\ pull[p].issue \in Issues /\ pull[p] \in PullRow
      /\ pull \in [Pulls -> PullRow] /\ HandlerTypeOK
      /\ {"pr_closed_unmerged", "pr_stale"} \subseteq Reasons
  BY PullType DEF TypeOK, StoreTypeOK, Reasons
<1>2. HandlerTypeOK'
  <2>1. ASSUME SettleMerged(p) PROVE HandlerTypeOK'
    <3>1. CASE Finish
      BY <1>1, <3>1, FinishType
    <3>2. CASE pc' = "clear" /\ frame' = [NoFrame EXCEPT !.issue = pull[p].issue]
      <4>1. frame' \in Frame /\ frame'.issue = pull[p].issue
        BY <1>1, <3>2 DEF NoFrame, Frame
      <4> QED
        BY <1>1, <3>2, <4>1 DEF HandlerTypeOK, KeepsRow, InHandler, Steps
    <3> QED
      BY <2>1, <3>1, <3>2 DEF SettleMerged
  <2>2. ASSUME SettleClosed(p) PROVE HandlerTypeOK'
    BY <1>1, <2>2, FinishType, CallFlagType DEF SettleClosed
  <2>3. ASSUME WatchPull(p) PROVE HandlerTypeOK'
    BY <1>1, <2>3, FinishType, CallFlagType DEF WatchPull
  <2> QED
    BY <1>1, <2>1, <2>2, <2>3, FinishType, RaiseType, FeedCiFailureType,
       FeedMergeConflictType DEF AdvancePull
<1>3. \/ UNCHANGED pull
      \/ pull' = [pull EXCEPT ![p] = [pull[p] EXCEPT !.merged = TRUE]]
      \/ pull' = [pull EXCEPT ![p] = [pull[p] EXCEPT !.closed = TRUE]]
  BY DEF AdvancePull, SettleMerged, SettleClosed, MarkMerged, MarkClosed
<1>4. /\ [pull[p] EXCEPT !.merged = TRUE] \in PullRow
      /\ [pull[p] EXCEPT !.closed = TRUE] \in PullRow
      /\ [pull[p] EXCEPT !.merged = TRUE].issue = pull[p].issue
      /\ [pull[p] EXCEPT !.merged = TRUE].session = pull[p].session
      /\ [pull[p] EXCEPT !.closed = TRUE].issue = pull[p].issue
      /\ [pull[p] EXCEPT !.closed = TRUE].session = pull[p].session
  BY <1>1 DEF PullRow
<1> QED
  BY <1>1, <1>2, <1>3, <1>4

LEMMA TrackPullTypeOK ==
    ASSUME TypeOK, NEW p \in Pulls, TrackPull(p) PROVE TypeOK'
<1>1. KeepsRow /\ KnownPull(p) /\ todo' \subseteq todo
  BY DEF TrackPull, TakesPull, Takes, KeepsRow, TypeOK, HandlerTypeOK, TodoTypeOK
<1>2. /\ HandlerTypeOK'
      /\ pull' \in [Pulls -> PullRow]
      /\ \A q \in Pulls : /\ pull'[q].issue = pull[q].issue
                          /\ pull'[q].session = pull[q].session
  BY <1>1, AdvancePullType DEF TrackPull
<1>3. TodoTypeOK'
  BY <1>1, <1>2, TodoShrinks DEF TrackPull
<1> QED
  BY <1>2, <1>3 DEF TrackPull, TypeOK, history, StoreTypeOK

LEMMA HandlePullClosedTypeOK ==
    ASSUME TypeOK, NEW e \in Events, HandlePullClosed(e) PROVE TypeOK'
<1>1. KeepsRow /\ pass = "drain" /\ pass' = "drain"
  BY TakesEventType DEF HandlePullClosed
<1>2. /\ HandlerTypeOK'
      /\ pull' \in [Pulls -> PullRow]
      /\ \A q \in Pulls : /\ pull'[q].issue = pull[q].issue
                          /\ pull'[q].session = pull[q].session
  <2>1. CASE KnownPull(e.pull)
    BY <1>1, <2>1, AdvancePullType DEF HandlePullClosed
  <2>2. CASE Finish /\ UNCHANGED pull
    BY <1>1, <2>2, FinishType DEF TypeOK, StoreTypeOK
  <2> QED
    BY <2>1, <2>2 DEF HandlePullClosed
<1> QED
  BY <1>1, <1>2 DEF HandlePullClosed, TypeOK, history, StoreTypeOK, TodoTypeOK

LEMMA HandleCiFailedTypeOK ==
    ASSUME TypeOK, NEW e \in Events, HandleCiFailed(e) PROVE TypeOK'
<1>1. KeepsRow /\ pass = "drain" /\ pass' = "drain"
  BY TakesEventType DEF HandleCiFailed
<1>2. HandlerTypeOK'
  <2>1. CASE SessionOfPull(e.pull) = 0
    BY <1>1, <2>1, FinishType DEF HandleCiFailed, TypeOK
  <2>2. CASE SessionOfPull(e.pull) # 0
    <3>1. KnownPull(e.pull)
      BY <2>2, SessionOfPullType
    <3>2. e.sha # None => e.sha \in Shas
      BY EventType
    <3> QED
      BY <1>1, <2>2, <3>1, <3>2, FeedCiFailureType, RaiseType DEF HandleCiFailed, TypeOK
  <2> QED
    BY <2>1, <2>2
<1> QED
  BY <1>1, <1>2 DEF HandleCiFailed, TypeOK, storeVars, history, StoreTypeOK, TodoTypeOK

LEMMA HandleReviewTypeOK ==
    ASSUME TypeOK, NEW e \in Events, HandleReview(e) PROVE TypeOK'
<1>1. KeepsRow /\ pass = "drain" /\ pass' = "drain" /\ HandlerTypeOK
  BY TakesEventType DEF HandleReview, TypeOK
<1>2. <<"review", e.id>> \in Keys /\ <<"undelivered", e.id>> \in Keys
  BY EventType DEF Keys
<1>3. HandlerTypeOK'
  <2>1. CASE SessionOfPull(e.pull) = 0
    BY <1>1, <2>1, FinishType DEF HandleReview
  <2>2. CASE SessionOfPull(e.pull) # 0
    <3>1. SessionOfPull(e.pull) \in SessionIds /\ pull[e.pull].issue \in Issues
      BY <2>2, SessionOfPullType
    <3> QED
      BY <1>1, <1>2, <2>2, <3>1, CallSendType, FinishType, CallCommentType
         DEF HandleReview, CallMessage
  <2> QED
    BY <2>1, <2>2
<1> QED
  BY <1>1, <1>3 DEF HandleReview, TypeOK, storeVars, history, StoreTypeOK, TodoTypeOK

LEMMA HandleReplyTypeOK ==
    ASSUME TypeOK, NEW e \in Events, HandleReply(e) PROVE TypeOK'
<1>1. KeepsRow /\ pass = "drain" /\ pass' = "drain" /\ HandlerTypeOK
  BY TakesEventType DEF HandleReply, TypeOK
<1>2. <<"reply", e.id>> \in Keys /\ <<"undelivered", e.id>> \in Keys /\ e.issue \in Issues
  BY EventType DEF Keys, HandleReply
<1>3. HandlerTypeOK'
  <2>1. CASE LatestSession(e.issue) = 0
    BY <1>1, <2>1, FinishType DEF HandleReply
  <2>2. CASE LatestSession(e.issue) # 0
    <3>1. LatestSession(e.issue) \in SessionIds
      BY <2>2, LatestIsSession
    <3> QED
      BY <1>1, <1>2, <2>2, <3>1, CallSendType, FinishType, CallCommentType
         DEF HandleReply, CallMessage
  <2> QED
    BY <2>1, <2>2
<1> QED
  BY <1>1, <1>3 DEF HandleReply, TypeOK, storeVars, history, StoreTypeOK, TodoTypeOK

LEMMA DispatchedTypeOK == ASSUME TypeOK, Dispatched PROVE TypeOK'
<1>1. cur \in Events
  BY DEF Dispatched, TypeOK, HandlerTypeOK
<1>2. HandlerTypeOK'
  BY DEF Dispatched, TypeOK, HandlerTypeOK, InHandler, Steps
<1>3. inbox' \in [Events -> InboxRow]
  BY <1>1 DEF Dispatched, MarkDispatched, TypeOK, StoreTypeOK, InboxRow
<1> QED
  BY <1>2, <1>3 DEF Dispatched, TypeOK, history, loopVars, StoreTypeOK, TodoTypeOK,
                    KnownPull

LEMMA DispatchFailedTypeOK == ASSUME TypeOK, DispatchFailed PROVE TypeOK'
<1>1. cur \in Events /\ KeepsRow /\ HandlerTypeOK
  BY DEF DispatchFailed, TypeOK, HandlerTypeOK, KeepsRow
<1>2. HandlerTypeOK'
  <2>1. IssueFor(cur) # 0 => IssueFor(cur) \in Issues
    BY <1>1, EventType, PullType DEF IssueFor
  <2>2. ASSUME IssueFor(cur) # 0, CallFlag(IssueFor(cur), "inbox_abandoned")
        PROVE  HandlerTypeOK'
    BY <1>1, <2>1, <2>2, CallFlagType DEF Reasons
  <2>3. ASSUME pc' = "next", frame' = NoFrame PROVE HandlerTypeOK'
    BY <1>1, <2>3, NoFrameType DEF HandlerTypeOK, KeepsRow, InHandler, Steps
  <2> QED
    BY <2>2, <2>3 DEF DispatchFailed
<1>3. inbox' \in [Events -> InboxRow]
  <2> DEFINE r == [inbox[cur] EXCEPT
                     !.attempts = @ + 1,
                     !.state = IF GivesUp(cur) THEN "dispatched" ELSE @,
                     !.id = IF GivesUp(cur) THEN 0 ELSE @]
  <2>1. inbox \in [Events -> InboxRow] /\ inbox[cur] \in InboxRow
    BY <1>1 DEF TypeOK, StoreTypeOK
  <2>2. inbox' = [inbox EXCEPT ![cur] = r]
    BY DEF DispatchFailed, RecordInboxFailure
  <2>3. inbox[cur].attempts + 1 \in Nat /\ inbox[cur].id \in Nat
    BY <2>1 DEF InboxRow
  <2>4. \A k, i \in Nat, z \in {"unseen", "pending", "dispatched"} :
           [inbox[cur] EXCEPT !.attempts = k, !.state = z, !.id = i] \in InboxRow
    BY <2>1 DEF InboxRow
  <2>5. /\ (IF GivesUp(cur) THEN "dispatched" ELSE inbox[cur].state)
           \in {"unseen", "pending", "dispatched"}
        /\ (IF GivesUp(cur) THEN 0 ELSE inbox[cur].id) \in Nat
    BY <2>1 DEF InboxRow
  <2>6. r \in InboxRow
    BY <2>3, <2>4, <2>5
  <2> QED
    BY <2>1, <2>2, <2>6
<1> QED
  BY <1>2, <1>3 DEF DispatchFailed, TypeOK, history, loopVars, StoreTypeOK,
                    TodoTypeOK, KnownPull

LEMMA RefreshInsightsTypeOK == ASSUME TypeOK, RefreshInsights PROVE TypeOK'
<1>1. /\ session' \in [SessionIds -> SessionRow]
      /\ \A s \in SessionIds : session'[s].issue = session[s].issue
  <2>1. CASE UNCHANGED session
    BY <2>1 DEF TypeOK, StoreTypeOK
  <2>2. ASSUME NEW f \in [SessionIds -> Acus], ApplyInsights(f)
        PROVE  /\ session' \in [SessionIds -> SessionRow]
               /\ \A s \in SessionIds : session'[s].issue = session[s].issue
    <3>1. ASSUME NEW s \in SessionIds
          PROVE  session'[s] \in SessionRow /\ session'[s].issue = session[s].issue
      <4> DEFINE a == IF f[s] > session[s].acus THEN f[s] ELSE session[s].acus
      <4>1. session[s] \in SessionRow
        BY DEF TypeOK, StoreTypeOK
      <4>2. a \in Acus
        BY <4>1, SessionRowEdits
      <4>3. /\ [session[s] EXCEPT !.acus = a] \in SessionRow
            /\ [session[s] EXCEPT !.acus = a].issue = session[s].issue
        <5> HIDE DEF a
        <5> QED
          BY <4>1, <4>2, SessionRowEdits DEF SessionRow
      <4>4. session'[s] = session[s] \/ session'[s] = [session[s] EXCEPT !.acus = a]
        BY <2>2 DEF ApplyInsights
      <4> QED
        BY <4>1, <4>3, <4>4
    <3> QED
      BY <2>2, <3>1 DEF ApplyInsights
  <2> QED
    BY <2>1, <2>2 DEF RefreshInsights
<1>2. HandlerTypeOK'
  BY DEF RefreshInsights, BeginPass, TypeOK, HandlerTypeOK, InHandler, Steps, Passes
<1>3. TodoTypeOK' /\ active' \in Nat /\ spent' \in Nat
  BY DEF RefreshInsights, BeginPass, TodoTypeOK
<1> QED
  BY <1>1, <1>2, <1>3 DEF RefreshInsights, TypeOK, history, StoreTypeOK

LEMMA ArriveTypeOK == ASSUME TypeOK, NEW e \in Events, Arrive(e) PROVE TypeOK'
<1>1. inbox' \in [Events -> InboxRow]
  <2>1. Arrived \in SUBSET Events
    BY DEF Arrived
  <2>2. 1 + Cardinality(Arrived) \in Nat
    BY <2>1, StoreAssumption, FS_Subset, FS_CardinalityType
  <2> QED
    BY <2>2 DEF Arrive, Enqueue, TypeOK, StoreTypeOK, InboxRow
<1> QED
  BY <1>1 DEF Arrive, TypeOK, history, loopVars, StoreTypeOK, HandlerTypeOK,
              TodoTypeOK, KnownPull

LEMMA SessionDeadlineTypeOK ==
    ASSUME TypeOK, NEW s \in SessionIds, GraceElapses(s) \/ SessionAges(s)
    PROVE  TypeOK'
<1>1. session[s] \in SessionRow
  BY DEF TypeOK, StoreTypeOK
<1>2. /\ [session[s] EXCEPT !.grace = FALSE] \in SessionRow
      /\ [session[s] EXCEPT !.aged = TRUE] \in SessionRow
      /\ [session[s] EXCEPT !.grace = FALSE].issue = session[s].issue
      /\ [session[s] EXCEPT !.aged = TRUE].issue = session[s].issue
  BY <1>1, SessionRowEdits DEF SessionRow
<1>3. /\ session' \in [SessionIds -> SessionRow]
      /\ \A t \in SessionIds : session'[t].issue = session[t].issue
  <2>1. \/ session' = [session EXCEPT ![s] = [session[s] EXCEPT !.grace = FALSE]]
        \/ session' = [session EXCEPT ![s] = [session[s] EXCEPT !.aged = TRUE]]
    BY DEF GraceElapses, SessionAges
  <2> QED
    BY <1>2, <2>1, SessionUpdate DEF TypeOK
<1> QED
  BY <1>3 DEF GraceElapses, SessionAges, TypeOK, history, loopVars, StoreTypeOK,
              HandlerTypeOK, TodoTypeOK, KnownPull

LEMMA PullGoesStaleTypeOK ==
    ASSUME TypeOK, NEW p \in Pulls, PullGoesStale(p) PROVE TypeOK'
<1>1. pull \in [Pulls -> PullRow] /\ pull[p] \in PullRow
  BY DEF TypeOK, StoreTypeOK
<1>2. /\ [pull[p] EXCEPT !.stale = TRUE] \in PullRow
      /\ [pull[p] EXCEPT !.stale = TRUE].issue = pull[p].issue
      /\ [pull[p] EXCEPT !.stale = TRUE].session = pull[p].session
  BY <1>1 DEF PullRow
<1>3. pull' = [pull EXCEPT ![p] = [pull[p] EXCEPT !.stale = TRUE]]
  BY DEF PullGoesStale
<1>4. /\ pull' \in [Pulls -> PullRow]
      /\ \A q \in Pulls : /\ pull'[q].issue = pull[q].issue
                          /\ pull'[q].session = pull[q].session
  BY <1>1, <1>2, <1>3
<1> QED
  BY <1>4 DEF PullGoesStale, TypeOK, history, loopVars, StoreTypeOK, HandlerTypeOK,
              TodoTypeOK, KnownPull

LEMMA CrashTypeOK == ASSUME TypeOK, Crash PROVE TypeOK'
<1>1. HandlerTypeOK'
  BY NoFrameType DEF Crash, HandlerTypeOK, InHandler, Steps, Passes
<1>2. TodoTypeOK'
  BY DEF Crash, TodoTypeOK
<1>3. forced' \in BOOLEAN
  BY Zenon DEF Crash
<1>4. crashes' \in Nat
  <2>1. crashes \in Nat
    BY DEF TypeOK
  <2>2. crashes' = crashes + 1
    BY DEF Crash
  <2> QED
    BY <2>1, <2>2
<1>5. active' = 0 /\ tick' = 0
  BY DEF Crash
<1> QED
  BY <1>1, <1>2, <1>3, <1>4, <1>5 DEF Crash, TypeOK, history, storeVars, StoreTypeOK

-----------------------------------------------------------------------------
(* Type correctness                                                        *)

LEMMA InitTypeOK == ASSUME Init PROVE TypeOK
<1>1. StoreTypeOK
  <2>1. /\ NoIssue \in IssueRow /\ NoPull \in PullRow /\ Unseen \in InboxRow
        /\ NoPull.issue = 0
    BY DEF NoIssue, NoPull, Unseen, IssueRow, PullRow, InboxRow
  <2>2. NoSession \in SessionRow
    BY StoreAssumption DEF NoSession, SessionRow
  <2> QED
    BY <2>1, <2>2 DEF Init, StoreInit, StoreTypeOK
<1>2. HandlerTypeOK /\ TodoTypeOK
  BY NoFrameType DEF Init, EffectsInit, HandlerTypeOK, TodoTypeOK, InHandler, Steps,
                     Passes
<1> QED
  BY <1>1, <1>2 DEF Init, EffectsInit, TypeOK

LEMMA StutterTypeOK == ASSUME TypeOK, UNCHANGED vars PROVE TypeOK'
  BY DEF vars, storeVars, loopVars, TypeOK, StoreTypeOK, HandlerTypeOK, TodoTypeOK,
         KnownPull

LEMMA NextTypeOK == ASSUME TypeOK, [Next]_vars PROVE TypeOK'
<1>1. CASE TickBegins \/ PassEnds \/ RefreshInsights
  BY <1>1, TickBeginsTypeOK, PassEndsTypeOK, RefreshInsightsTypeOK
<1>2. CASE DrainInbox
  BY <1>2, HandleLabeledTypeOK, HandleCiFailedTypeOK, HandleReviewTypeOK,
     HandleReplyTypeOK, HandlePullClosedTypeOK, RetryClearsFlagTypeOK,
     SupersedeTypeOK, DispatchedTypeOK, DispatchFailedTypeOK DEF DrainInbox
<1>3. CASE StartSessions
  BY <1>3, StartDeferredTypeOK, StartOverBudgetTypeOK, ReserveAttemptTypeOK
     DEF StartSessions
<1>4. CASE TrackSessions
  BY <1>4, TimeOutTypeOK, PollFailsTypeOK, PollTypeOK, ActOnPollTypeOK
     DEF TrackSessions
<1>5. CASE \E p \in Pulls : TrackPull(p)
  BY <1>5, TrackPullTypeOK
<1>6. CASE \E n \in Issues : RecoverIssue(n)
  BY <1>6, RecoverIssueTypeOK
<1>7. CASE EffectSteps /\ UNCHANGED loopVars
  BY <1>7, EffectsTypeOK
<1>8. CASE World
  BY <1>8, ArriveTypeOK, SessionDeadlineTypeOK, PullGoesStaleTypeOK DEF World
<1>9. CASE Crash
  BY <1>9, CrashTypeOK
<1>10. CASE UNCHANGED vars
  BY <1>10, StutterTypeOK
<1> QED
  BY <1>1, <1>2, <1>3, <1>4, <1>5, <1>6, <1>7, <1>8, <1>9, <1>10 DEF Next, Loop

\* The tables, the loop's variables and the locals of the running handler keep
\* their types through every pass, handler, failure and crash.
THEOREM TypeCorrect == Spec => []TypeOK
<1>1. Init => TypeOK
  BY InitTypeOK
<1>2. TypeOK /\ [Next]_vars => TypeOK'
  BY NextTypeOK
<1> QED
  BY <1>1, <1>2, PTL DEF Spec
=============================================================================
