---------------------------- MODULE ClientsProofs ----------------------------
(***************************************************************************)
(* Theorems about the two clients: request_with_retry, for every number of *)
(* attempts, and the listings, for every page size and length.             *)
(***************************************************************************)
EXTENDS Clients, SequenceTheorems, FiniteSetTheorems, WellFoundedInduction, TLAPS

Phases == {"idle", "try", "wait", "returned", "raised"}

HttpTypeOK ==
    /\ phase \in Phases /\ repeatable \in BOOLEAN
    /\ attempt \in Nat /\ attempt < MaxAttempts
    /\ onTheWay \in Nat /\ applied \in Nat /\ requests \in Nat /\ backoffs \in Nat
    /\ phase = "idle" => /\ repeatable = TRUE /\ attempt = 0 /\ onTheWay = 0
                         /\ applied = 0 /\ requests = 0 /\ backoffs = 0

\* While a POST may still be sent, it has certainly not been applied.
AppliedInv ==
    /\ ~repeatable => applied + onTheWay <= 1
    /\ ~repeatable /\ phase \in {"try", "wait"} => applied = 0 /\ onTheWay = 0
    /\ phase = "returned" => applied > 0

\* attempt counts the waits that are over.
CountsInv ==
    CASE phase \in {"idle", "try"} -> requests = attempt /\ backoffs = attempt
      [] phase = "wait" -> /\ requests = attempt + 1 /\ backoffs = attempt + 1
                           /\ attempt + 1 < MaxAttempts
      [] OTHER -> requests = attempt + 1 /\ backoffs = attempt

HttpInv == HttpTypeOK /\ AppliedInv /\ CountsInv

LEMMA HttpInitInv == HttpInit => HttpInv
  <1>1. MaxAttempts \in Nat /\ MaxAttempts > 0
    BY HttpAssumption
  <1> QED
    BY <1>1 DEF HttpInit, HttpInv, HttpTypeOK, AppliedInv, CountsInv, Phases

\* The fate of one attempt: applied at most once, and not at all if it was
\* rejected; an attempt that is answered well was applied.
LEMMA FateFacts ==
  ASSUME NEW reply \in Replies, NEW fate \in Fates(reply)
  PROVE  /\ fate[1] \in Nat /\ fate[2] \in Nat /\ fate[1] + fate[2] <= 1
         /\ reply = "rejected" => fate[1] = 0 /\ fate[2] = 0
         /\ reply = "ok" => fate[1] = 1
  BY DEF Replies, Fates

LEMMA AttemptInv ==
  ASSUME HttpInv, NEW reply \in Replies, Attempt(reply)
  PROVE  HttpInv'
  <1>1. PICK fate \in Fates(reply) : /\ applied' = applied + fate[1]
                                     /\ onTheWay' = onTheWay + fate[2]
    BY DEF Attempt
  <1>2. /\ fate[1] \in Nat /\ fate[2] \in Nat /\ fate[1] + fate[2] <= 1
        /\ reply = "rejected" => fate[1] = 0 /\ fate[2] = 0
        /\ reply = "ok" => fate[1] = 1
    BY <1>1, FateFacts
  <1>3. MaxAttempts \in Nat
    BY HttpAssumption
  <1>4. /\ phase = "try" /\ requests' = requests + 1
        /\ repeatable' = repeatable /\ attempt' = attempt
    BY DEF Attempt
  <1>5. CASE MayRepeat(reply) /\ ~IsLastAttempt
    <2>1. phase' = "wait" /\ backoffs' = backoffs + 1
      BY <1>5 DEF Attempt
    <2>2. repeatable \/ reply = "rejected"
      BY <1>5 DEF MayRepeat
    <2>3. attempt + 1 < MaxAttempts
      BY <1>5, <1>3 DEF IsLastAttempt, HttpInv, HttpTypeOK
    <2>4. HttpTypeOK'
      BY <1>1, <1>2, <1>4, <2>1 DEF HttpInv, HttpTypeOK, Phases
    <2>5. AppliedInv'
      BY <1>1, <1>2, <1>4, <2>1, <2>2 DEF HttpInv, HttpTypeOK, AppliedInv
    <2>6. CountsInv'
      BY <1>4, <2>1, <2>3 DEF HttpInv, HttpTypeOK, CountsInv
    <2> QED
      BY <2>4, <2>5, <2>6 DEF HttpInv
  <1>6. CASE ~(MayRepeat(reply) /\ ~IsLastAttempt)
    <2>1. /\ phase' = IF reply = "ok" THEN "returned" ELSE "raised"
          /\ backoffs' = backoffs
      BY <1>6 DEF Attempt
    <2>2. HttpTypeOK'
      BY <1>1, <1>2, <1>4, <2>1 DEF HttpInv, HttpTypeOK, Phases
    <2>3. AppliedInv'
      BY <1>1, <1>2, <1>4, <2>1 DEF HttpInv, HttpTypeOK, AppliedInv
    <2>4. CountsInv'
      BY <1>4, <2>1 DEF HttpInv, HttpTypeOK, CountsInv
    <2> QED
      BY <2>2, <2>3, <2>4 DEF HttpInv
  <1> QED
    BY <1>5, <1>6

LEMMA OtherStepsInv ==
  ASSUME HttpInv,
         (\E r \in BOOLEAN : Call(r)) \/ Waits \/ ArrivesLate \/ Collect
         \/ UNCHANGED httpVars
  PROVE  HttpInv'
  <1> USE DEF HttpInv, HttpTypeOK, AppliedInv, CountsInv, Phases
  <1>0. MaxAttempts \in Nat /\ MaxAttempts > 0
    BY HttpAssumption
  <1>1. CASE \E r \in BOOLEAN : Call(r)
    BY <1>0, <1>1 DEF Call
  <1>2. CASE Waits
    BY <1>0, <1>2 DEF Waits
  <1>3. CASE ArrivesLate
    BY <1>0, <1>3 DEF ArrivesLate
  <1>4. CASE Collect
    BY <1>0, <1>4 DEF Collect, Reset
  <1>5. CASE UNCHANGED httpVars
    BY <1>0, <1>5 DEF httpVars
  <1> QED
    BY <1>1, <1>2, <1>3, <1>4, <1>5

LEMMA HttpInvHolds == HttpSpec => []HttpInv
  <1>1. HttpInv /\ [HttpNext]_httpVars => HttpInv'
    BY AttemptInv, OtherStepsInv DEF HttpNext
  <1> QED
    BY HttpInitInv, <1>1, PTL DEF HttpSpec

\* A POST is applied once at most, however late a lost one arrives: it is sent
\* again only after a rejection, when nothing was applied or is on its way.
THEOREM NoPostRepeated == HttpSpec => []PostAppliedOnce
  <1>1. HttpInv => PostAppliedOnce
    BY DEF HttpInv, AppliedInv, PostAppliedOnce
  <1> QED
    BY HttpInvHolds, <1>1, PTL

\* Every path that leads to another attempt reports one retry.
THEOREM RetriesReported == HttpSpec => []BackoffsCounted
  <1>1. HttpInv => BackoffsCounted
    BY HttpAssumption DEF HttpInv, HttpTypeOK, CountsInv, Phases, BackoffsCounted
  <1> QED
    BY HttpInvHolds, <1>1, PTL

-----------------------------------------------------------------------------
(* The refinement *)

LEMMA AttemptProceeds ==
  ASSUME HttpInv, NEW reply \in Replies, Attempt(reply)
  PROVE  CALL!Proceed
  <1>1. PICK fate \in Fates(reply) : /\ applied' = applied + fate[1]
                                     /\ onTheWay' = onTheWay + fate[2]
    BY DEF Attempt
  <1>2. /\ fate[1] \in Nat /\ fate[2] \in Nat /\ fate[1] + fate[2] <= 1
        /\ reply = "ok" => fate[1] = 1
    BY <1>1, FateFacts
  <1>3. phase = "try" /\ repeatable' = repeatable
    BY DEF Attempt
  <1>4. applied' = applied \/ (CALL!MayApply /\ applied' = applied + 1)
    BY <1>1, <1>2, <1>3 DEF HttpInv, HttpTypeOK, AppliedInv, CALL!MayApply
  <1>5. \/ phase' \in {"wait", "raised"}
        \/ phase' = "returned" /\ applied' > 0
    BY <1>1, <1>2 DEF Attempt, HttpInv, HttpTypeOK
  <1> QED
    BY <1>3, <1>4, <1>5 DEF CALL!Proceed

\* The retry loop implements the one call its callers reckon with: what the
\* effects assume when they treat a raised POST as perhaps applied, once.
THEOREM CallImplemented == HttpSpec => CallSpec
  <1>1. HttpInit => CALL!Init
    BY DEF HttpInit, CALL!Init
  <1>2. HttpInv /\ [HttpNext]_httpVars => [CALL!Next]_CALL!vars
    <2> SUFFICES ASSUME HttpInv, [HttpNext]_httpVars PROVE [CALL!Next]_CALL!vars
      OBVIOUS
    <2> USE DEF CALL!Next
    <2>1. CASE \E r \in BOOLEAN : Call(r)
      BY <2>1 DEF Call, CALL!Begin, HttpInv, HttpTypeOK
    <2>2. CASE \E reply \in Replies : Attempt(reply)
      BY <2>2, AttemptProceeds
    <2>3. CASE Waits
      BY <2>3 DEF Waits, CALL!vars
    <2>4. CASE ArrivesLate
      BY <2>4 DEF ArrivesLate, CALL!ArrivesLate, CALL!MayApply, HttpInv, HttpTypeOK, AppliedInv
    <2>5. CASE Collect
      BY <2>5 DEF Collect, Reset, CALL!End
    <2>6. CASE UNCHANGED httpVars
      BY <2>6 DEF httpVars, CALL!vars
    <2> QED
      BY <2>1, <2>2, <2>3, <2>4, <2>5, <2>6 DEF HttpNext
  <1> QED
    BY HttpInvHolds, <1>1, <1>2, PTL DEF HttpSpec, CallSpec, CALL!Spec

-----------------------------------------------------------------------------
(* Sequences, and sets of natural numbers                                  *)

LEMMA HasLeast ==
  ASSUME NEW T \in SUBSET Nat, T # {}
  PROVE  \E x \in T : \A y \in T : x <= y
  <1> DEFINE R == OpToRel(<, Nat)
  <1>1. IsWellFoundedOn(R, Nat)
    BY NatLessThanWellFounded
  <1>2. \A x, y \in Nat : y < x => <<y, x>> \in R
    BY DEF OpToRel
  <1> HIDE DEF R
  <1>3. PICK x \in T : \A y \in T : ~(<<y, x>> \in R)
    BY <1>1, WFMin
  <1>4. \A y \in T : ~(y < x)
    BY <1>2, <1>3
  <1> QED
    BY <1>4

LEMMA HasGreatest ==
  ASSUME NEW n \in Nat, NEW T \in SUBSET (1..n), T # {}
  PROVE  Max(T) \in T /\ \A y \in T : Max(T) >= y
  <1> DEFINE U == {n - x : x \in T}
  <1>1. U \subseteq Nat
    OBVIOUS
  <1>2. U # {}
    OBVIOUS
  <1>3. PICK u \in U : \A y \in U : u <= y
    BY <1>1, <1>2, HasLeast
  <1>4. PICK x \in T : u = n - x
    OBVIOUS
  <1>5. \A y \in T : n - x <= n - y
    BY <1>3, <1>4
  <1>6. ASSUME NEW y \in T PROVE x >= y
    <2>1. n - x <= n - y /\ x \in Int /\ y \in Int
      BY <1>5
    <2> QED
      BY <2>1
  <1> QED
    BY <1>6 DEF Max

LEMMA InsertAtFacts ==
  ASSUME NEW S, NEW s \in Seq(S), NEW at \in 1..(Len(s) + 1), NEW e \in S
  PROVE  /\ InsertAt(s, at, e) \in Seq(S)
         /\ Len(InsertAt(s, at, e)) = Len(s) + 1
         /\ \A i \in 1..(Len(s) + 1) :
               InsertAt(s, at, e)[i] = IF i < at THEN s[i]
                                       ELSE IF i = at THEN e ELSE s[i - 1]
  <1> DEFINE a == SubSeq(s, 1, at - 1)
             b == SubSeq(s, at, Len(s))
  <1>1. /\ a \in Seq(S) /\ Len(a) = at - 1
        /\ \A i \in 1..(at - 1) : a[i] = s[i]
    BY SubSeqProperties
  <1>2. /\ b \in Seq(S) /\ Len(b) = Len(s) - at + 1
        /\ \A i \in 1..(Len(s) - at + 1) : b[i] = s[at + i - 1]
    BY SubSeqProperties
  <1>3. InsertAt(s, at, e) = a \o <<e>> \o b
    BY DEF InsertAt
  <1> HIDE DEF a, b
  <1> DEFINE c == a \o <<e>>
  <1>4. /\ c \in Seq(S) /\ Len(c) = at
        /\ \A i \in 1..at : c[i] = IF i < at THEN s[i] ELSE e
    BY <1>1
  <1>6. InsertAt(s, at, e) = c \o b
    BY <1>3
  <1> HIDE DEF c
  <1>5. /\ c \o b \in Seq(S) /\ Len(c \o b) = at + (Len(s) - at + 1)
        /\ \A i \in 1..(at + (Len(s) - at + 1)) :
              (c \o b)[i] = IF i <= at THEN c[i] ELSE b[i - at]
    BY <1>2, <1>4, ConcatProperties
  <1>7. Len(s) \in Nat /\ at \in Nat /\ at + (Len(s) - at + 1) = Len(s) + 1
    OBVIOUS
  <1>8. ASSUME NEW i \in 1..(Len(s) + 1)
        PROVE  (c \o b)[i] = IF i < at THEN s[i] ELSE IF i = at THEN e ELSE s[i - 1]
    <2>1. CASE i <= at
      BY <1>4, <1>5, <1>7, <2>1
    <2>2. CASE i > at
      <3>1. i - at \in 1..(Len(s) - at + 1)
        BY <1>7, <2>2
      <3>2. b[i - at] = s[at + (i - at) - 1]
        BY <1>2, <3>1
      <3>3. at + (i - at) - 1 = i - 1
        BY <1>7
      <3> QED
        BY <1>5, <1>7, <2>2, <3>2, <3>3
    <2>3. i <= at \/ i > at
      BY <1>7
    <2> QED
      BY <2>1, <2>2, <2>3, Zenon
  <1>9. Len(c \o b) = Len(s) + 1
    BY <1>5, <1>7
  <1> DEFINE d == c \o b
  <1>10. /\ d \in Seq(S) /\ Len(d) = Len(s) + 1
         /\ \A i \in 1..(Len(s) + 1) :
               d[i] = IF i < at THEN s[i] ELSE IF i = at THEN e ELSE s[i - 1]
    BY <1>5, <1>8, <1>9
  <1> HIDE DEF d
  <1>11. InsertAt(s, at, e) = d
    BY <1>6 DEF d
  <1> QED
    BY <1>10, <1>11

LEMMA InsertAtType ==
  ASSUME NEW S, NEW s \in Seq(S), NEW at \in 1..(Len(s) + 1), NEW e \in S
  PROVE  InsertAt(s, at, e) \in Seq(S)
  BY InsertAtFacts

LEMMA InsertAtLength ==
  ASSUME NEW S, NEW s \in Seq(S), NEW at \in 1..(Len(s) + 1), NEW e \in S
  PROVE  Len(InsertAt(s, at, e)) = Len(s) + 1
  BY InsertAtFacts

LEMMA RemoveAtFacts ==
  ASSUME NEW S, NEW s \in Seq(S), NEW at \in 1..Len(s)
  PROVE  /\ RemoveAt(s, at) \in Seq(S)
         /\ Len(RemoveAt(s, at)) = Len(s) - 1
         /\ \A i \in 1..(Len(s) - 1) :
               RemoveAt(s, at)[i] = IF i < at THEN s[i] ELSE s[i + 1]
  <1> DEFINE a == SubSeq(s, 1, at - 1)
             b == SubSeq(s, at + 1, Len(s))
  <1>1. /\ a \in Seq(S) /\ Len(a) = at - 1
        /\ \A i \in 1..(at - 1) : a[i] = s[i]
    BY SubSeqProperties
  <1>2. /\ b \in Seq(S) /\ Len(b) = Len(s) - at
        /\ \A i \in 1..(Len(s) - at) : b[i] = s[at + i]
    BY SubSeqProperties
  <1>3. RemoveAt(s, at) = a \o b
    BY DEF RemoveAt
  <1> HIDE DEF a, b
  <1>4. /\ a \o b \in Seq(S) /\ Len(a \o b) = Len(a) + Len(b)
        /\ \A i \in 1..(Len(a) + Len(b)) :
              (a \o b)[i] = IF i <= Len(a) THEN a[i] ELSE b[i - Len(a)]
    BY <1>1, <1>2, ConcatProperties
  <1>5. Len(s) \in Nat /\ at \in Nat /\ 1 <= at /\ at <= Len(s)
    OBVIOUS
  <1>6. Len(a) + Len(b) = Len(s) - 1
    BY <1>1, <1>2, <1>5
  <1>7. ASSUME NEW i \in 1..(Len(s) - 1)
        PROVE  (a \o b)[i] = IF i < at THEN s[i] ELSE s[i + 1]
    <2>1. CASE i < at
      BY <1>1, <1>4, <1>5, <1>6, <2>1
    <2>2. CASE ~(i < at)
      <3>1. i - (at - 1) \in 1..(Len(s) - at) /\ at + (i - (at - 1)) = i + 1
        BY <1>5, <2>2
      <3>2. (a \o b)[i] = b[i - (at - 1)]
        BY <1>1, <1>4, <1>5, <1>6, <2>2
      <3> QED
        BY <1>2, <2>2, <3>1, <3>2
    <2> QED
      BY <2>1, <2>2
  <1> QED
    BY <1>3, <1>4, <1>6, <1>7

-----------------------------------------------------------------------------
(* The listings: what has been read at any moment                          *)

Item == [id : Nat \ {0}, is : States(kind)]

ListingTypeOK ==
    /\ kind \in Kinds
    /\ list \in Seq(Item) /\ found \in Seq(Item)
    /\ reading \in {"no", "yes", "returned", "raised"}
    /\ page \in Nat \ {0} /\ cursor \in Nat /\ settled \subseteq Nat /\ red \subseteq Nat
    /\ lost \in Nat /\ changes \in Nat
    /\ reading = "no" => page = 1 /\ cursor = 0 /\ found = <<>>

\* No item is listed twice, and what has been listed all the while is listed.
ListOK ==
    /\ \A i, j \in DOMAIN list : list[i].id = list[j].id => i = j
    /\ settled \subseteq IdsOf(list) /\ IsFiniteSet(settled)

\* What failed has failed for good, in either reading; and what is left of the runs
\* of the first one has been listed ever since the second one began.
RedOK ==
    /\ \A i \in DOMAIN list : list[i].id \in red => list[i].is = "cancelled"
    /\ \A j \in DOMAIN found : found[j].id \in red => found[j].is = "cancelled"
    /\ \A i \in DOMAIN list, j \in DOMAIN found :
          list[i].id = found[j].id /\ found[j].is = "cancelled" => list[i].is = "cancelled"
    /\ reading # "no" => red \cap IdsOf(list) \subseteq settled

\* Item i has been read, an issue in the state it is in.
Read(i) ==
    \E j \in DOMAIN found : /\ found[j].id = list[i].id
                            /\ kind = "issues" => found[j].is = list[i].is

\* The items that have slipped through: they are on the pages already read, and were
\* not when those were read.
Slipped ==
    {id \in settled : \E i \in DOMAIN list : i <= Len(found) /\ list[i].id = id /\ ~Read(i)}

FewSlipped == kind # "messages" => Cardinality(Slipped) <= lost

\* The pages read were full, or there would be no next one; what was read of the
\* messages is how they begin, up to the cursor.
Begun ==
    reading \in {"no", "yes"} =>
        /\ page <= PageLimit
        /\ Len(found) = (page - 1) * PerPage
        /\ kind = "messages" =>
              /\ Len(found) <= Len(list)
              /\ \A i \in DOMAIN found : found[i] = list[i]
              /\ cursor = IF found = <<>> THEN 0 ELSE found[Len(found)].id

Done ==
    reading = "returned" /\ Fits /\ ~cutOff =>
        /\ kind = "messages" => found = list
        /\ Len(found) >= Len(list)

CutOffOK == cutOff \in BOOLEAN /\ (cutOff => kind = "messages")

ListingInv ==
    ListingTypeOK /\ ListOK /\ RedOK /\ FewSlipped /\ CutOffOK /\ Begun /\ Done

LEMMA ListingConstants ==
  /\ PerPage \in Nat /\ PerPage > 0 /\ PageLimit \in Nat /\ PageLimit > 0
  /\ Limit \in Nat /\ Limit > 0 /\ Ids \subseteq Nat \ {0}
  BY ListingAssumption

LEMMA Pages ==
  ASSUME NEW p \in Nat \ {0}
  PROVE  /\ (p - 1) * PerPage \in Nat
         /\ p * PerPage = (p - 1) * PerPage + PerPage
  <1>1. PerPage \in Nat
    BY ListingConstants
  <1> QED
    BY <1>1

LEMMA ListingInitInv == ListingInit => ListingInv
  <1> SUFFICES ASSUME ListingInit PROVE ListingInv
    OBVIOUS
  <1>1. /\ kind \in Kinds /\ reading = "no" /\ page = 1 /\ cursor = 0 /\ found = <<>>
        /\ red = {} /\ settled = {} /\ lost = 0 /\ cutOff = FALSE /\ changes = 0
    BY DEF ListingInit
  <1>2. PICK items \in InitialLists(kind) :
          list = [i \in DOMAIN items |-> [items[i] EXCEPT !.id = i]]
    BY DEF ListingInit
  <1>3. PICK n \in 0..Cardinality(Ids) :
          items \in [1..n -> {[id |-> 0, is |-> s] : s \in States(kind)}]
    BY <1>2 DEF InitialLists
  <1>4. n \in Nat
    BY <1>3, FS_CardinalityType, ListingAssumption
  <1>5. \A i \in 1..n : /\ list[i] \in [id : Nat \ {0}, is : States(kind)]
                        /\ list[i].id = i
    BY <1>2, <1>3, <1>4
  <1>6. DOMAIN list = 1..n
    BY <1>2, <1>3
  <1>7. list = [i \in 1..n |-> list[i]]
    BY <1>2, <1>6
  <1>8. list \in Seq(Item)
    <2>1. \A i \in 1..n : list[i] \in Item
      BY <1>5 DEF Item
    <2>2. list \in [1..n -> Item]
      BY <1>7, <2>1
    <2> QED
      BY <1>4, <2>2
  <1>9. ListingTypeOK
    BY <1>1, <1>8 DEF ListingTypeOK
  <1>13. CutOffOK
    BY <1>1, Zenon DEF CutOffOK
  <1>10. ListOK /\ RedOK
    BY <1>1, <1>5, <1>6, FS_EmptySet DEF ListOK, RedOK
  <1>12. FewSlipped
    <2>1. Slipped = {}
      BY <1>1 DEF Slipped
    <2> QED
      BY <1>1, <2>1, FS_EmptySet DEF FewSlipped
  <1>11. Begun
    <2>1. Len(found) = (page - 1) * PerPage /\ DOMAIN found = {} /\ Len(found) <= Len(list)
      BY <1>1, <1>8, ListingConstants
    <2> QED
      BY <1>1, <2>1, ListingConstants DEF Begun
  <1> QED
    BY <1>1, <1>9, <1>10, <1>11, <1>12, <1>13 DEF ListingInv, Done

\* A step lets nothing slip through, or one item and counts it.
LEMMA SlipsCounted ==
  ASSUME ListingInv, lost' \in Nat, kind' = kind,
         \/ Slipped' \subseteq Slipped /\ lost <= lost'
         \/ \E x : Slipped' \subseteq Slipped \cup {x} /\ lost' = lost + 1
  PROVE  FewSlipped'
  <1> SUFFICES ASSUME kind # "messages" PROVE Cardinality(Slipped') <= lost'
    BY DEF FewSlipped
  <1>1. lost \in Nat /\ Cardinality(Slipped) <= lost
    BY DEF ListingInv, ListingTypeOK, FewSlipped
  <1>2. IsFiniteSet(Slipped)
    <2>1. Slipped \subseteq settled
      BY DEF Slipped
    <2> QED
      BY <2>1, FS_Subset DEF ListingInv, ListOK
  <1> DEFINE S == Slipped
             T == Slipped'
  <1>3. IsFiniteSet(S) /\ Cardinality(S) \in Nat /\ Cardinality(S) <= lost
    BY <1>1, <1>2, FS_CardinalityType
  <1>4. \/ T \subseteq S /\ lost <= lost'
        \/ \E x : T \subseteq S \cup {x} /\ lost' = lost + 1
    OBVIOUS
  <1> HIDE DEF S, T
  <1>5. CASE T \subseteq S /\ lost <= lost'
    <2>1. IsFiniteSet(T) /\ Cardinality(T) <= Cardinality(S)
      BY <1>3, <1>5, FS_Subset
    <2>2. Cardinality(T) \in Nat
      BY <2>1, FS_CardinalityType
    <2> QED
      BY <1>1, <1>3, <1>5, <2>1, <2>2 DEF T
  <1>6. CASE \E x : T \subseteq S \cup {x} /\ lost' = lost + 1
    <2>1. PICK x : T \subseteq S \cup {x} /\ lost' = lost + 1
      BY <1>6
    <2>2. IsFiniteSet(S \cup {x}) /\ Cardinality(S \cup {x}) \in Nat
      BY <1>3, FS_AddElement, FS_CardinalityType
    <2>3. Cardinality(S \cup {x}) <= Cardinality(S) + 1
      BY <1>3, FS_AddElement
    <2>4. IsFiniteSet(T) /\ Cardinality(T) <= Cardinality(S \cup {x})
      BY <2>1, <2>2, FS_Subset
    <2>5. Cardinality(T) \in Nat
      BY <2>4, FS_CardinalityType
    <2> QED
      BY <1>1, <1>3, <2>1, <2>2, <2>3, <2>4, <2>5 DEF T
  <1> QED
    BY <1>4, <1>5, <1>6

\* An item that is still listed, at the place it had or at a later one, and was not
\* read again, has slipped through if it has now.
LEMMA StaysUnread ==
  ASSUME ListingInv, kind' = kind, found' = found, settled' \subseteq settled,
         NEW id \in Slipped', NEW i \in DOMAIN list', i <= Len(found'), list'[i].id = id,
         ~Read(i)', NEW k \in DOMAIN list, k <= Len(found), list[k].id = id,
         kind = "issues" => list[k].is = list'[i].is
  PROVE  id \in Slipped
  BY DEF Slipped, Read

LEMMA AppearsInv ==
  ASSUME ListingInv, Appears
  PROVE  ListingInv'
  <1> USE DEF ListingInv
  <1>1. PICK id \in Ids \ (IdsOf(list) \cup IdsOf(found) \cup red),
             s \in States(kind), at \in 1..(Len(list) + 1) :
          /\ kind = "messages" => at = Len(list) + 1
          /\ list' = InsertAt(list, at, [id |-> id, is |-> s])
    BY DEF Appears
  <1>2. /\ UNCHANGED <<kind, reading, page, cursor, found, red, settled, lost, cutOff>>
        /\ reading \in {"no", "yes"} /\ changes' = changes + 1
    BY DEF Appears, Change
  <1> DEFINE e == [id |-> id, is |-> s]
  <1>3. e \in Item
    BY <1>1, ListingConstants DEF Item
  <1>4. list \in Seq(Item) /\ Len(list) \in Nat /\ DOMAIN list = 1..Len(list)
    BY DEF ListingTypeOK
  <1>13. list' = InsertAt(list, at, e) /\ e.id = id
    BY <1>1
  <1> HIDE DEF e
  <1>5. /\ list' \in Seq(Item)
        /\ Len(list') = Len(list) + 1
        /\ \A i \in 1..(Len(list) + 1) :
              list'[i] = IF i < at THEN list[i] ELSE IF i = at THEN e ELSE list[i - 1]
    <2>1. InsertAt(list, at, e) \in Seq(Item)
      BY <1>3, <1>4, InsertAtType
    <2>2. Len(InsertAt(list, at, e)) = Len(list) + 1
      BY <1>3, <1>4, InsertAtLength
    <2>3. \A i \in 1..(Len(list) + 1) :
            InsertAt(list, at, e)[i] =
              IF i < at THEN list[i] ELSE IF i = at THEN e ELSE list[i - 1]
      BY <1>3, <1>4, InsertAtFacts
    <2> QED
      BY <1>13, <2>1, <2>2, <2>3
  <1>6. e.id \notin IdsOf(list) /\ e.id \notin IdsOf(found) /\ e.id \notin red /\ e.id = id
    BY <1>1, <1>13
  <1>7. DOMAIN list' = 1..(Len(list) + 1)
    BY <1>5
  <1>8. at \in Nat /\ at >= 1 /\ at <= Len(list) + 1
    BY <1>1, <1>4
  <1>9. ListingTypeOK'
    BY <1>2, <1>5 DEF ListingTypeOK, Item
  <1>10. ListOK'
    <2>1. ASSUME NEW i \in DOMAIN list', NEW j \in DOMAIN list', list'[i].id = list'[j].id
          PROVE  i = j
      <3>1. \A k \in 1..Len(list) : list[k].id # e.id
        BY <1>4, <1>6 DEF IdsOf
      <3>2. i \in 1..(Len(list) + 1) /\ j \in 1..(Len(list) + 1)
        BY <1>7
      <3>3. /\ i < at => i \in 1..Len(list) /\ list'[i] = list[i]
            /\ i = at => list'[i] = e
            /\ i > at => i - 1 \in 1..Len(list) /\ list'[i] = list[i - 1]
        BY <1>4, <1>5, <1>8, <3>2
      <3>4. /\ j < at => j \in 1..Len(list) /\ list'[j] = list[j]
            /\ j = at => list'[j] = e
            /\ j > at => j - 1 \in 1..Len(list) /\ list'[j] = list[j - 1]
        BY <1>4, <1>5, <1>8, <3>2
      <3>5. \A k, l \in 1..Len(list) : list[k].id = list[l].id => k = l
        BY <1>4 DEF ListOK
      <3> QED
        BY <1>4, <1>8, <2>1, <3>1, <3>2, <3>3, <3>4, <3>5
    <2>2. ASSUME NEW x \in settled PROVE x \in IdsOf(list')
      <3>1. PICK k \in 1..Len(list) : list[k].id = x
        BY <1>4 DEF ListOK, IdsOf
      <3>2. CASE k < at
        BY <1>4, <1>5, <1>7, <3>1, <3>2 DEF IdsOf
      <3>3. CASE k >= at
        <4>1. k + 1 \in 1..(Len(list) + 1) /\ k + 1 > at /\ (k + 1) - 1 = k
          BY <1>4, <1>8, <3>1, <3>3
        <4>2. list'[k + 1] = list[k]
          BY <1>5, <1>8, <4>1
        <4> QED
          BY <1>7, <3>1, <4>1, <4>2 DEF IdsOf
      <3> QED
        BY <1>8, <3>2, <3>3
    <2>3. settled' \subseteq IdsOf(list')
      BY <1>2, <2>2
    <2> QED
      BY <1>2, <2>1, <2>3 DEF ListOK, IdsOf
  <1>11. ASSUME NEW i \in DOMAIN list', list'[i].id # e.id
         PROVE  \E k \in DOMAIN list : k <= i /\ list'[i] = list[k]
    <2>1. i \in 1..(Len(list) + 1)
      BY <1>7
    <2>2. i # at
      BY <1>5, <1>11, <2>1
    <2>3. CASE i < at
      BY <1>4, <1>5, <1>8, <2>1, <2>3
    <2>4. CASE i > at
      <3>1. i - 1 \in DOMAIN list /\ i - 1 <= i
        BY <1>4, <1>8, <2>1, <2>4
      <3>2. list'[i] = list[i - 1]
        BY <1>5, <1>8, <2>1, <2>4
      <3> QED
        BY <3>1, <3>2
    <2> QED
      BY <1>8, <2>1, <2>2, <2>3, <2>4
  <1>14. RedOK'
    <2>1. ASSUME NEW i \in DOMAIN list', list'[i].id \in red PROVE list'[i].is = "cancelled"
      <3>1. PICK k \in DOMAIN list : k <= i /\ list'[i] = list[k]
        BY <1>6, <1>11, <2>1
      <3> QED
        BY <2>1, <3>1 DEF RedOK
    <2>2. ASSUME NEW i \in DOMAIN list', NEW j \in DOMAIN found,
                 list'[i].id = found[j].id, found[j].is = "cancelled"
          PROVE  list'[i].is = "cancelled"
      <3>1. list'[i].id # e.id
        BY <1>6, <2>2 DEF IdsOf
      <3>2. PICK k \in DOMAIN list : k <= i /\ list'[i] = list[k]
        BY <1>11, <3>1
      <3> QED
        BY <2>2, <3>2 DEF RedOK
    <2>3. ASSUME reading # "no", NEW x \in red \cap IdsOf(list') PROVE x \in settled
      <3>1. PICK i \in DOMAIN list' : list'[i].id = x
        BY DEF IdsOf
      <3>2. PICK k \in DOMAIN list : k <= i /\ list'[i] = list[k]
        BY <1>6, <1>11, <3>1
      <3> QED
        BY <2>3, <3>1, <3>2 DEF RedOK, IdsOf
    <2> QED
      BY <1>2, <2>1, <2>2, <2>3 DEF RedOK, IdsOf
  <1>15. FewSlipped'
    <2>1. ASSUME NEW x \in Slipped' PROVE x \in Slipped
      <3>1. PICK i \in DOMAIN list' : i <= Len(found') /\ list'[i].id = x /\ ~Read(i)'
        BY DEF Slipped, Read
      <3>2. x # e.id
        BY <1>2, <1>6 DEF Slipped, ListOK
      <3>3. PICK k \in DOMAIN list : k <= i /\ list'[i] = list[k]
        BY <1>11, <3>1, <3>2
      <3>4. k <= Len(found)
        <4>1. i \in Nat /\ k \in Nat /\ Len(found) \in Nat
          BY <1>4, <1>7, <3>1, <3>3 DEF ListingTypeOK
        <4> QED
          BY <1>2, <3>1, <3>3, <4>1
      <3> QED
        BY <1>2, <3>1, <3>3, <3>4, StaysUnread
    <2> QED
      BY <1>2, <2>1, SlipsCounted DEF ListingTypeOK
  <1>12. Begun'
    <2>1. Len(found) \in Nat /\ found \in Seq(Item)
      BY DEF ListingTypeOK
    <2>2. ASSUME kind = "messages"
          PROVE  /\ Len(found) <= Len(list')
                 /\ \A i \in DOMAIN found : found[i] = list'[i]
      <3>1. at = Len(list) + 1 /\ Len(found) <= Len(list)
        BY <1>1, <1>2, <2>2 DEF Begun
      <3>2. ASSUME NEW i \in DOMAIN found PROVE found[i] = list'[i]
        <4>1. i \in 1..Len(list) /\ i < at /\ found[i] = list[i]
          BY <1>2, <1>4, <2>1, <2>2, <3>1 DEF Begun
        <4> QED
          BY <1>4, <1>5, <4>1
      <3> QED
        BY <1>4, <1>5, <2>1, <3>1, <3>2
    <2> QED
      BY <1>2, <2>2 DEF Begun
  <1> QED
    BY <1>2, <1>9, <1>10, <1>12, <1>14, <1>15 DEF Done, CutOffOK

LEMMA CompletesInv ==
  ASSUME ListingInv, Completes
  PROVE  ListingInv'
  <1> USE DEF ListingInv
  <1>1. PICK i \in DOMAIN list, s \in {"passed", "cancelled"} :
          /\ list[i].is = "queued"
          /\ list' = [list EXCEPT ![i].is = s]
    BY DEF Completes
  <1>2. /\ UNCHANGED <<kind, reading, page, cursor, found, red, settled, lost, cutOff>>
        /\ reading \in {"no", "yes"} /\ changes' = changes + 1
    BY DEF Completes, Change
  <1>3. list \in Seq(Item) /\ Len(list) \in Nat /\ DOMAIN list = 1..Len(list)
    BY DEF ListingTypeOK
  <1>4. list[i] \in [id : Nat \ {0}, is : States(kind)]
    <2>1. list[i] \in Item
      BY <1>1, <1>3
    <2> QED
      BY <2>1 DEF Item
  <1>5. kind = "check_runs"
    BY <1>1, <1>4 DEF ListingTypeOK, Kinds, States
  <1>6. [list[i] EXCEPT !.is = s] \in Item /\ [list[i] EXCEPT !.is = s].id = list[i].id
    BY <1>4, <1>5 DEF Item, States
  <1>7. /\ list' \in Seq(Item) /\ Len(list') = Len(list) /\ DOMAIN list' = DOMAIN list
        /\ \A k \in DOMAIN list : list'[k].id = list[k].id
    BY <1>1, <1>3, <1>6
  <1>8. ListingTypeOK'
    BY <1>2, <1>7 DEF ListingTypeOK, Item
  <1>9. IdsOf(list') = IdsOf(list)
    BY <1>7 DEF IdsOf
  <1>10. ListOK'
    <2>1. \A k, l \in DOMAIN list' : list'[k].id = list'[l].id => k = l
      BY <1>7 DEF ListOK
    <2>2. settled' \subseteq IdsOf(list')
      BY <1>2, <1>9 DEF ListOK
    <2> QED
      BY <1>2, <2>1, <2>2 DEF ListOK, IdsOf
  <1>12. \A k \in DOMAIN list : k # i => list'[k] = list[k]
    BY <1>1, <1>3
  <1>13. RedOK'
    <2>1. list[i].id \notin red
      BY <1>1 DEF RedOK
    <2>2. ASSUME NEW j \in DOMAIN found, list[i].id = found[j].id
          PROVE  found[j].is # "cancelled"
      BY <1>1, <2>2 DEF RedOK
    <2>3. \A k \in DOMAIN list' : list'[k].id \in red => list'[k].is = "cancelled"
      BY <1>7, <1>12, <2>1 DEF RedOK
    <2>4. \A k \in DOMAIN list', j \in DOMAIN found :
             list'[k].id = found[j].id /\ found[j].is = "cancelled"
             => list'[k].is = "cancelled"
      BY <1>7, <1>12, <2>2 DEF RedOK
    <2>5. reading # "no" => red \cap IdsOf(list') \subseteq settled
      BY <1>9 DEF RedOK
    <2> QED
      BY <1>2, <2>3, <2>4, <2>5 DEF RedOK, IdsOf
  <1>14. FewSlipped'
    <2>1. ASSUME NEW x \in Slipped' PROVE x \in Slipped
      <3>1. PICK k \in DOMAIN list' : k <= Len(found') /\ list'[k].id = x /\ ~Read(k)'
        BY DEF Slipped, Read
      <3>2. k \in DOMAIN list /\ list[k].id = x
        BY <1>7, <3>1
      <3> QED
        BY <1>2, <1>5, <3>1, <3>2, StaysUnread
    <2> QED
      BY <1>2, <2>1, SlipsCounted DEF ListingTypeOK
  <1>11. Begun'
    BY <1>2, <1>5 DEF Begun
  <1> QED
    BY <1>2, <1>8, <1>10, <1>11, <1>13, <1>14 DEF Done, CutOffOK

\* A page by number comes behind what has been read.
LEMMA BehindByNumber ==
  ASSUME ListingInv, kind # "messages", reading \in {"no", "yes"}
  PROVE  Behind = Len(found)
  BY DEF ListingInv, Begun, Behind

LEMMA DisappearsInv ==
  ASSUME ListingInv, Disappears
  PROVE  ListingInv'
  <1> USE DEF ListingInv
  <1>1. PICK at \in DOMAIN list : /\ list' = RemoveAt(list, at)
                                  /\ settled' = settled \ {list[at].id}
                                  /\ lost' = lost + (IF at <= Behind THEN 1 ELSE 0)
    BY DEF Disappears
  <1>2. /\ UNCHANGED <<kind, reading, page, cursor, found, red, cutOff>>
        /\ reading \in {"no", "yes"} /\ changes' = changes + 1 /\ kind # "messages"
    BY DEF Disappears, Change
  <1>3. list \in Seq(Item) /\ Len(list) \in Nat /\ DOMAIN list = 1..Len(list)
    BY DEF ListingTypeOK
  <1>4. RemoveAt(list, at) \in Seq(Item)
    BY <1>3, RemoveAtFacts
  <1>5. Len(RemoveAt(list, at)) = Len(list) - 1
    BY <1>3, RemoveAtFacts
  <1>6. \A i \in 1..(Len(list) - 1) :
          RemoveAt(list, at)[i] = IF i < at THEN list[i] ELSE list[i + 1]
    BY <1>3, RemoveAtFacts
  <1>10. lost' \in Nat /\ settled' \subseteq settled
    BY <1>1 DEF ListingTypeOK
  <1>7. ListingTypeOK'
    <2>1. list' \in Seq(Item) /\ settled' \subseteq Nat
      BY <1>1, <1>4, <1>10 DEF ListingTypeOK
    <2> HIDE <1>1
    <2> QED
      BY <1>2, <1>10, <2>1 DEF ListingTypeOK, Item
  <1>11. ASSUME NEW i \in DOMAIN list'
         PROVE  /\ i \in Nat /\ at \in Nat
                /\ i < at => i \in DOMAIN list /\ list'[i] = list[i]
                /\ ~(i < at) => i + 1 \in DOMAIN list /\ list'[i] = list[i + 1]
    <2>1. i \in 1..(Len(list) - 1)
      BY <1>1, <1>4, <1>5
    <2> QED
      BY <1>1, <1>3, <1>6, <2>1
  <1>12. ASSUME NEW i \in DOMAIN list'
         PROVE  \E k \in DOMAIN list : k # at /\ list'[i] = list[k]
    <2>1. CASE i < at
      BY <1>11, <2>1
    <2>2. CASE ~(i < at)
      <3>1. i + 1 \in DOMAIN list /\ list'[i] = list[i + 1] /\ i + 1 # at
        BY <1>11, <2>2
      <3> QED
        BY <3>1
    <2> QED
      BY <2>1, <2>2
  <1>13. ASSUME NEW x \in IdsOf(list') PROVE x \in IdsOf(list) /\ x # list[at].id
    <2>1. PICK i \in DOMAIN list' : list'[i].id = x
      BY DEF IdsOf
    <2>2. PICK k \in DOMAIN list : k # at /\ list'[i] = list[k]
      BY <1>12
    <2> QED
      BY <2>1, <2>2 DEF IdsOf, ListOK
  <1>8. ListOK'
    <2>1. ASSUME NEW i \in DOMAIN list', NEW j \in DOMAIN list', list'[i].id = list'[j].id
          PROVE  i = j
      <3>1. \A k, l \in DOMAIN list : list[k].id = list[l].id => k = l
        BY DEF ListOK
      <3>2. CASE i < at /\ j < at
        BY <1>11, <2>1, <3>1, <3>2
      <3>3. CASE i < at /\ ~(j < at)
        <4>1. list[i].id = list[j + 1].id /\ i \in DOMAIN list /\ j + 1 \in DOMAIN list
          BY <1>11, <2>1, <3>3
        <4>2. i = j + 1
          BY <3>1, <4>1
        <4> QED
          BY <1>11, <3>3, <4>2
      <3>4. CASE ~(i < at) /\ j < at
        <4>1. list[i + 1].id = list[j].id /\ i + 1 \in DOMAIN list /\ j \in DOMAIN list
          BY <1>11, <2>1, <3>4
        <4>2. i + 1 = j
          BY <3>1, <4>1
        <4> QED
          BY <1>11, <3>4, <4>2
      <3>5. CASE ~(i < at) /\ ~(j < at)
        <4>1. i + 1 = j + 1
          BY <1>11, <2>1, <3>1, <3>5
        <4> QED
          BY <1>11, <4>1
      <3> QED
        BY <3>2, <3>3, <3>4, <3>5
    <2>2. ASSUME NEW x \in settled' PROVE x \in IdsOf(list')
      <3>1. PICK k \in DOMAIN list : list[k].id = x /\ k # at
        BY <1>1 DEF ListOK, IdsOf
      <3>2. DOMAIN list' = 1..(Len(list) - 1)
        BY <1>1, <1>4, <1>5
      <3>3. CASE k < at
        <4>1. k \in DOMAIN list'
          BY <1>3, <3>1, <3>2, <3>3
        <4> QED
          BY <1>11, <3>1, <3>3, <4>1 DEF IdsOf
      <3>4. CASE k > at
        <4>1. k - 1 \in DOMAIN list' /\ ~(k - 1 < at) /\ (k - 1) + 1 = k
          BY <1>3, <3>1, <3>2, <3>4
        <4>2. list'[k - 1] = list[k]
          BY <1>11, <4>1
        <4> QED
          BY <3>1, <4>1, <4>2 DEF IdsOf
      <3>5. k < at \/ k > at
        BY <1>3, <3>1
      <3> QED
        BY <3>3, <3>4, <3>5
    <2>3. IsFiniteSet(settled')
      BY <1>10, FS_Subset DEF ListOK
    <2>4. settled' \subseteq IdsOf(list')
      BY <2>2
    <2> QED
      BY <2>1, <2>3, <2>4 DEF ListOK, IdsOf
  <1>9. Begun'
    BY <1>2 DEF Begun
  <1>14. RedOK'
    <2>1. \A i \in DOMAIN list' : list'[i].id \in red => list'[i].is = "cancelled"
      BY <1>12 DEF RedOK
    <2>2. \A i \in DOMAIN list', j \in DOMAIN found :
             list'[i].id = found[j].id /\ found[j].is = "cancelled"
             => list'[i].is = "cancelled"
      BY <1>12 DEF RedOK
    <2>3. reading # "no" => red \cap IdsOf(list') \subseteq settled'
      BY <1>1, <1>13 DEF RedOK
    <2> QED
      BY <1>2, <2>1, <2>2, <2>3 DEF RedOK, IdsOf
  <1>15. FewSlipped'
    <2>1. Behind = Len(found) /\ Len(found) \in Nat /\ lost \in Nat
      BY <1>2, BehindByNumber DEF ListingTypeOK
    <2> DEFINE next == list[Len(found) + 1].id
    <2>2. ASSUME NEW x \in Slipped', ~(at <= Len(found)) \/ x # next
          PROVE  x \in Slipped
      <3>1. PICK i \in DOMAIN list' : i <= Len(found') /\ list'[i].id = x /\ ~Read(i)'
        BY DEF Slipped, Read
      <3>2. PICK k \in DOMAIN list : k <= Len(found) /\ list'[i] = list[k]
        <4>1. CASE i < at
          BY <1>2, <1>11, <3>1, <4>1
        <4>2. CASE ~(i < at)
          <5>1. /\ i + 1 \in DOMAIN list /\ list'[i] = list[i + 1]
                /\ i \in Nat /\ at \in Nat /\ i <= Len(found)
            BY <1>2, <1>11, <3>1, <4>2
          <5>2. i + 1 # Len(found) + 1
            BY <2>1, <2>2, <3>1, <4>2, <5>1
          <5>3. i + 1 <= Len(found)
            BY <2>1, <5>1, <5>2
          <5> QED
            BY <5>1, <5>3
        <4> QED
          BY <4>1, <4>2
      <3> QED
        BY <1>2, <1>10, <3>1, <3>2, StaysUnread
    <2>3. CASE at <= Len(found)
      <3>1. Slipped' \subseteq Slipped \cup {next} /\ lost' = lost + 1
        BY <1>1, <2>1, <2>2, <2>3
      <3> HIDE DEF next
      <3> QED
        BY <1>2, <1>10, <3>1, SlipsCounted
    <2>4. CASE ~(at <= Len(found))
      <3>1. Slipped' \subseteq Slipped
        BY <2>2, <2>4
      <3>2. lost <= lost'
        BY <1>1, <2>1, <2>4
      <3> QED
        BY <1>2, <1>10, <3>1, <3>2, SlipsCounted
    <2> QED
      BY <2>3, <2>4
  <1> QED
    BY <1>2, <1>7, <1>8, <1>9, <1>14, <1>15 DEF Done, CutOffOK

LEMMA BeginInv ==
  ASSUME ListingInv, Begin
  PROVE  ListingInv'
  <1> USE DEF ListingInv
  <1>1. /\ reading = "no" /\ reading' = "yes" /\ settled' = IdsOf(list)
        /\ UNCHANGED <<kind, list, page, cursor, found, red, lost, cutOff, changes>>
    BY DEF Begin
  <1>2. found = <<>> /\ list \in Seq(Item) /\ page = 1
    BY <1>1 DEF ListingTypeOK
  <1>3. IdsOf(list) \subseteq Nat
    <2>1. \A i \in DOMAIN list : list[i] \in Item
      BY <1>2
    <2> QED
      BY <2>1 DEF IdsOf, Item
  <1>4. ListingTypeOK'
    BY <1>1, <1>3 DEF ListingTypeOK, Item
  <1>5. ListOK'
    <2>1. IsFiniteSet(IdsOf(list))
      <3> DEFINE f == [i \in DOMAIN list |-> list[i].id]
      <3>1. f \in Surjection(DOMAIN list, IdsOf(list))
        BY DEF Surjection, IdsOf
      <3>2. IsFiniteSet(DOMAIN list)
        <4>1. DOMAIN list = 1..Len(list) /\ Len(list) \in Int /\ 1 \in Int
          BY <1>2
        <4> QED
          BY <4>1, FS_Interval
      <3> HIDE DEF f
      <3> QED
        BY <3>1, <3>2, FS_Surjection
    <2> QED
      BY <1>1, <2>1 DEF ListOK, IdsOf
  <1>6. RedOK'
    BY <1>1 DEF RedOK, IdsOf
  <1>8. FewSlipped'
    <2>1. Slipped' = {}
      BY <1>1, <1>2 DEF Slipped
    <2>2. lost \in Nat
      BY DEF ListingTypeOK
    <2> QED
      BY <1>1, <2>1, <2>2, SlipsCounted
  <1>7. Begun'
    BY <1>1, <1>2 DEF Begun
  <1> QED
    BY <1>1, <1>4, <1>5, <1>6, <1>7, <1>8 DEF Done, CutOffOK

\* The page that is read next begins behind what has been read.
LEMMA BatchFacts ==
  ASSUME ListingInv, reading = "yes"
  PROVE  /\ Behind = Len(found)
         /\ Batch \in Seq(Item)
         /\ Len(Batch) = IF Len(found) + PerPage < Len(list) THEN PerPage
                         ELSE IF Len(found) < Len(list) THEN Len(list) - Len(found)
                         ELSE 0
         /\ \A i \in 1..Len(Batch) :
               Len(found) + i \in 1..Len(list) /\ Batch[i] = list[Len(found) + i]
  <1> USE DEF ListingInv
  <1>1. /\ list \in Seq(Item) /\ found \in Seq(Item)
        /\ Len(list) \in Nat /\ DOMAIN list = 1..Len(list)
        /\ Len(found) \in Nat /\ DOMAIN found = 1..Len(found)
    BY DEF ListingTypeOK
  <1>2. Behind = Len(found)
    <2>1. CASE kind # "messages"
      BY <2>1 DEF Behind, Begun
    <2>2. CASE kind = "messages" /\ found = <<>>
      BY <2>2 DEF Behind, Begun
    <2>3. CASE kind = "messages" /\ found # <<>>
      <3>1. /\ Len(found) \in DOMAIN found /\ Len(found) \in DOMAIN list
            /\ found[Len(found)] = list[Len(found)]
            /\ cursor = found[Len(found)].id
        BY <1>1, <2>3 DEF Begun
      <3>2. cursor # 0
        <4>1. found[Len(found)] \in Item
          BY <1>1, <3>1
        <4> QED
          BY <3>1, <4>1 DEF Item
      <3>3. \A i \in DOMAIN list : list[i].id = cursor <=> i = Len(found)
        BY <3>1 DEF ListOK
      <3>4. (CHOOSE i \in DOMAIN list : list[i].id = cursor) = Len(found)
        BY <3>1, <3>3
      <3> QED
        BY <2>3, <3>2, <3>4 DEF Behind
    <2> QED
      BY <2>1, <2>2, <2>3
  <1> DEFINE n == Len(found)
             to == IF n + PerPage < Len(list) THEN n + PerPage ELSE Len(list)
  <1>3. Batch = SubSeq(list, n + 1, to)
    BY <1>2 DEF Batch
  <1>4. to = IF n + PerPage < Len(list) THEN n + PerPage ELSE Len(list)
    OBVIOUS
  <1>9. n \in Nat /\ to \in Nat /\ to <= Len(list) /\ Len(list) \in Nat
    BY <1>1, ListingConstants
  <1> HIDE DEF n, to
  <1>5. ASSUME NEW i \in (n + 1)..to PROVE list[i] \in Item
    <2>1. i \in 1..Len(list)
      BY <1>9
    <2> QED
      BY <1>1, <2>1
  <1>6. /\ Batch \in Seq(Item)
        /\ Len(Batch) = IF n + 1 <= to THEN to - (n + 1) + 1 ELSE 0
        /\ \A i \in 1..(to - (n + 1) + 1) : Batch[i] = list[n + 1 + i - 1]
    BY <1>3, <1>5, <1>9, SubSeqProperties
  <1>7. Len(Batch) = IF n + PerPage < Len(list) THEN PerPage
                     ELSE IF n < Len(list) THEN Len(list) - n ELSE 0
    <2>1. Len(list) \in Nat /\ PerPage \in Nat /\ PerPage > 0
      BY <1>1, ListingConstants
    <2>2. CASE n + PerPage < Len(list)
      <3>1. to = n + PerPage
        BY <1>4, <2>2
      <3> QED
        BY <1>6, <1>9, <2>1, <2>2, <3>1
    <2>3. CASE ~(n + PerPage < Len(list))
      <3>1. to = Len(list)
        BY <1>4, <2>3
      <3> QED
        BY <1>6, <1>9, <2>1, <2>3, <3>1
    <2> QED
      BY <2>2, <2>3
  <1>8. ASSUME NEW i \in 1..Len(Batch)
        PROVE  n + i \in 1..Len(list) /\ Batch[i] = list[n + i]
    <2>1. i \in 1..(to - (n + 1) + 1) /\ n + 1 + i - 1 = n + i
      BY <1>6, <1>9
    <2>2. Batch[i] = list[n + 1 + i - 1]
      BY <1>6, <2>1
    <2>3. n + i \in 1..Len(list)
      <3>1. i \in Nat /\ i >= 1 /\ n + i <= to
        BY <1>9, <2>1
      <3> QED
        BY <1>9, <3>1
    <2> QED
      BY <2>1, <2>2, <2>3
  <1> QED
    BY <1>2, <1>6, <1>7, <1>8 DEF n

\* What a page adds: the items behind those read before.
LEMMA TakenFacts ==
  ASSUME ListingInv, TakePage
  PROVE  /\ reading = "yes" /\ UNCHANGED <<kind, list, red, settled, lost, changes>>
         /\ found' = found \o Batch /\ found' \in Seq(Item)
         /\ Len(found') = Len(found) + Len(Batch)
         /\ \A i \in 1..Len(found) : found'[i] = found[i]
         /\ \A i \in 1..Len(found') : i > Len(found) =>
               i \in 1..Len(list) /\ found'[i] = list[i]
  <1>1. /\ reading = "yes" /\ UNCHANGED <<kind, list, red, settled, lost, changes>>
        /\ found' = found \o Batch
    BY DEF TakePage
  <1>2. found \in Seq(Item) /\ Len(found) \in Nat
    BY DEF ListingInv, ListingTypeOK
  <1>3. /\ Batch \in Seq(Item) /\ Len(Batch) \in Nat
        /\ \A i \in 1..Len(Batch) :
              Len(found) + i \in 1..Len(list) /\ Batch[i] = list[Len(found) + i]
    <2>1. Batch \in Seq(Item)
      BY <1>1, BatchFacts, Zenon
    <2>2. Len(Batch) \in Nat
      BY <2>1, LenProperties
    <2>3. \A i \in 1..Len(Batch) :
             Len(found) + i \in 1..Len(list) /\ Batch[i] = list[Len(found) + i]
      BY <1>1, BatchFacts, Zenon
    <2> QED
      BY <2>1, <2>2, <2>3, Zenon
  <1> DEFINE b == Batch
  <1>a. b \in Seq(Item) /\ found' = found \o b
    BY <1>1, <1>3
  <1>b. /\ found' \in Seq(Item) /\ Len(found') = Len(found) + Len(b)
        /\ \A i \in 1..(Len(found) + Len(b)) :
              found'[i] = IF i <= Len(found) THEN found[i] ELSE b[i - Len(found)]
    <2> HIDE DEF b
    <2> QED
      BY <1>2, <1>a, ConcatProperties
  <1>4. /\ found' \in Seq(Item) /\ Len(found') = Len(found) + Len(Batch)
        /\ \A i \in 1..(Len(found) + Len(Batch)) :
              found'[i] = IF i <= Len(found) THEN found[i] ELSE Batch[i - Len(found)]
    BY <1>b
  <1>5. \A i \in 1..Len(found) : found'[i] = found[i]
    BY <1>2, <1>3, <1>4
  <1>6. ASSUME NEW i \in 1..Len(found'), i > Len(found)
        PROVE  i \in 1..Len(list) /\ found'[i] = list[i]
    <2>1. i - Len(found) \in 1..Len(Batch) /\ Len(found) + (i - Len(found)) = i
      BY <1>2, <1>3, <1>4, <1>6
    <2>2. found'[i] = Batch[i - Len(found)]
      BY <1>2, <1>3, <1>4, <1>6
    <2> QED
      BY <1>3, <2>1, <2>2
  <1> QED
    BY <1>1, <1>4, <1>5, <1>6

\* A page lets nothing slip: what stands among the items read by now, and did not
\* slip before, has been read.
LEMMA TakenReads ==
  ASSUME ListingInv, TakePage
  PROVE  /\ Slipped' \subseteq Slipped
         /\ \A j \in DOMAIN found' :
               \/ j \in DOMAIN found /\ found'[j] = found[j]
               \/ j \in DOMAIN list /\ found'[j] = list[j]
         /\ kind = "messages" => /\ Len(found') <= Len(list)
                                 /\ \A i \in DOMAIN found' : found'[i] = list[i]
  <1> USE DEF ListingInv
  <1>1. /\ list \in Seq(Item) /\ found \in Seq(Item) /\ found' \in Seq(Item)
        /\ Len(list) \in Nat /\ DOMAIN list = 1..Len(list)
        /\ Len(found) \in Nat /\ DOMAIN found = 1..Len(found)
        /\ Len(found') \in Nat /\ DOMAIN found' = 1..Len(found')
        /\ Len(found') >= Len(found)
    <2>1. Len(Batch) \in Nat
      BY TakenFacts, BatchFacts
    <2> QED
      BY <2>1, TakenFacts DEF ListingTypeOK
  <1>2. /\ reading = "yes" /\ UNCHANGED <<kind, list, settled>>
        /\ \A i \in 1..Len(found) : found'[i] = found[i]
        /\ \A i \in 1..Len(found') : i > Len(found) =>
              i \in 1..Len(list) /\ found'[i] = list[i]
    BY TakenFacts
  <1>5. \A j \in DOMAIN found' : \/ j \in DOMAIN found /\ found'[j] = found[j]
                                 \/ j \in DOMAIN list /\ found'[j] = list[j]
    BY <1>1, <1>2
  <1>3. ASSUME NEW id \in Slipped' PROVE id \in Slipped
    <2>1. PICK i \in DOMAIN list : i <= Len(found') /\ list[i].id = id /\ ~Read(i)'
      BY <1>2 DEF Slipped, Read
    <2>2. CASE i <= Len(found)
      <3>1. ASSUME Read(i) PROVE FALSE
        <4>1. PICK j \in DOMAIN found : /\ found[j].id = list[i].id
                                        /\ kind = "issues" => found[j].is = list[i].is
          BY <3>1 DEF Read
        <4>2. j \in DOMAIN found' /\ found'[j] = found[j]
          BY <1>1, <1>2, <4>1
        <4> QED
          BY <1>2, <2>1, <4>1, <4>2 DEF Read
      <3> QED
        BY <1>2, <2>1, <2>2, <3>1 DEF Slipped
    <2>3. CASE i > Len(found)
      <3>1. i \in DOMAIN found' /\ found'[i] = list[i]
        BY <1>1, <1>2, <2>1, <2>3
      <3> QED
        BY <1>2, <2>1, <3>1 DEF Read
    <2> QED
      BY <1>1, <2>2, <2>3
  <1>4. ASSUME kind = "messages"
        PROVE  /\ Len(found') <= Len(list)
               /\ \A i \in DOMAIN found' : found'[i] = list[i]
    <2>1. Len(found) <= Len(list) /\ \A i \in DOMAIN found : found[i] = list[i]
      BY <1>2, <1>4 DEF Begun
    <2>2. ASSUME NEW i \in DOMAIN found' PROVE found'[i] = list[i]
      <3>1. CASE i <= Len(found)
        BY <1>1, <1>2, <2>1, <3>1
      <3>2. CASE i > Len(found)
        BY <1>1, <1>2, <3>2
      <3> QED
        BY <1>1, <3>1, <3>2
    <2>3. Len(found') <= Len(list)
      <3>1. CASE Len(found') > Len(found)
        <4>1. Len(found') \in 1..Len(found')
          BY <1>1, <3>1
        <4> QED
          BY <1>1, <1>2, <3>1, <4>1
      <3> QED
        BY <1>1, <2>1, <3>1
    <2> QED
      BY <2>2, <2>3
  <1> QED
    BY <1>3, <1>4, <1>5

\* A page with another one to come is a full one.
LEMMA PageIsFull ==
  ASSUME ListingInv, reading = "yes", ~IsLastPage(Batch)
  PROVE  Len(Batch) = PerPage /\ page + 1 <= PageLimit
  <1>1. /\ Len(list) \in Nat /\ Len(found) \in Nat
        /\ PerPage \in Nat /\ PerPage > 0 /\ PageLimit \in Nat
        /\ page \in Nat /\ page <= PageLimit /\ kind \in Kinds
    BY ListingConstants DEF ListingInv, ListingTypeOK, Begun
  <1>2. page + 1 <= PageLimit
    BY <1>1 DEF IsLastPage
  <1>3. /\ Behind = Len(found) /\ Batch \in Seq(Item)
        /\ Len(Batch) = IF Len(found) + PerPage < Len(list) THEN PerPage
                        ELSE IF Len(found) < Len(list) THEN Len(list) - Len(found)
                        ELSE 0
    BY BatchFacts
  <1>4. CASE kind = "check_runs"
    <2>1. Batch # <<>> /\ ~(Len(found) + Len(Batch) >= Len(list))
      BY <1>4 DEF IsLastPage
    <2>2. Len(Batch) # 0
      BY <1>3, <2>1
    <2> QED
      BY <1>1, <1>2, <1>3, <2>1, <2>2
  <1>5. CASE kind = "issues"
    <2>1. ~(Len(Batch) < PerPage)
      BY <1>5 DEF IsLastPage
    <2> QED
      BY <1>1, <1>2, <1>3, <2>1
  <1>6. CASE kind = "messages"
    <2>1. Behind + Len(Batch) # Len(list)
      BY <1>6 DEF IsLastPage
    <2>2. Len(found) <= Len(list)
      BY <1>6 DEF ListingInv, Begun
    <2> QED
      BY <1>1, <1>2, <1>3, <2>1, <2>2
  <1> QED
    BY <1>1, <1>4, <1>5, <1>6 DEF Kinds

\* Where a listing ends the whole collection has been read, if it fits.
LEMMA LastPageEnds ==
  ASSUME ListingInv, reading = "yes", IsLastPage(Batch), Fits
  PROVE  Len(found) + Len(Batch) >= Len(list)
  <1>1. /\ Len(list) \in Nat /\ Len(found) \in Nat
        /\ PerPage \in Nat /\ PerPage > 0 /\ PageLimit \in Nat \ {0}
        /\ page \in Nat \ {0}
    BY ListingConstants DEF ListingInv, ListingTypeOK, Begun
  <1>2. /\ Behind = Len(found) /\ Batch \in Seq(Item)
        /\ Len(Batch) = IF Len(found) + PerPage < Len(list) THEN PerPage
                        ELSE IF Len(found) < Len(list) THEN Len(list) - Len(found)
                        ELSE 0
    BY BatchFacts
  <1>3. CASE page = PageLimit
    <2>1. Len(list) <= page * PerPage /\ page * PerPage = (page - 1) * PerPage + PerPage
      BY <1>1, <1>3, Pages DEF Fits
    <2>2. Len(found) = (page - 1) * PerPage
      BY DEF ListingInv, Begun
    <2>3. Len(list) <= Len(found) + PerPage
      BY <2>1, <2>2
    <2> QED
      BY <1>1, <1>2, <2>3
  <1>4. CASE kind = "check_runs" /\ (Batch = <<>> \/ Len(found) + Len(Batch) >= Len(list))
    <2>1. CASE Batch = <<>>
      <3>1. Len(Batch) = 0
        BY <2>1
      <3> QED
        BY <1>1, <1>2, <3>1
    <2> QED
      BY <1>4, <2>1
  <1>5. CASE kind = "issues" /\ Len(Batch) < PerPage
    BY <1>1, <1>2, <1>5
  <1>6. CASE kind = "messages" /\ Behind + Len(Batch) = Len(list)
    BY <1>1, <1>2, <1>6
  <1> QED
    BY <1>3, <1>4, <1>5, <1>6 DEF IsLastPage

LEMMA TakePageInv ==
  ASSUME ListingInv, TakePage
  PROVE  ListingInv'
  <1> USE DEF ListingInv
  <1>1. /\ reading = "yes" /\ UNCHANGED <<kind, list, red, settled, lost, changes>>
        /\ found' \in Seq(Item) /\ Len(found') = Len(found) + Len(Batch)
        /\ found' = found \o Batch
    BY TakenFacts
  <1>2. /\ Len(list) \in Nat /\ Len(found) \in Nat /\ list \in Seq(Item)
        /\ Batch \in Seq(Item) /\ Len(Batch) \in Nat
        /\ page \in Nat \ {0} /\ kind \in Kinds /\ cursor \in Nat
    BY <1>1, BatchFacts DEF ListingTypeOK
  <1>3. ListOK'
    BY <1>1 DEF ListOK, IdsOf
  <1>6. RedOK'
    <2>1. ASSUME NEW j \in DOMAIN found'
          PROVE  /\ found'[j].id \in red => found'[j].is = "cancelled"
                 /\ \A i \in DOMAIN list :
                       list[i].id = found'[j].id /\ found'[j].is = "cancelled"
                       => list[i].is = "cancelled"
      <3>1. CASE j \in DOMAIN found /\ found'[j] = found[j]
        BY <3>1 DEF RedOK
      <3>2. CASE j \in DOMAIN list /\ found'[j] = list[j]
        BY <3>2 DEF RedOK, ListOK
      <3> QED
        BY <3>1, <3>2, TakenReads
    <2> QED
      BY <1>1, <2>1 DEF RedOK, IdsOf
  <1>7. FewSlipped'
    <2>1. lost \in Nat
      BY DEF ListingTypeOK
    <2> QED
      BY <1>1, <2>1, TakenReads, SlipsCounted
  <1>4. CASE IsLastPage(Batch)
    <2>1. reading' = "returned" /\ page' = page /\ cursor' = cursor /\ cutOff' = cutOff
      BY <1>4 DEF TakePage
    <2>2. ListingTypeOK'
      BY <1>1, <1>2, <2>1 DEF ListingTypeOK, Item
    <2>3. ASSUME Fits PROVE Len(found') >= Len(list)
      BY <1>1, <1>4, <2>3, LastPageEnds
    <2>4. ASSUME Fits, kind = "messages" PROVE found' = list
      <3>1. Len(found') = Len(list) /\ \A i \in DOMAIN found' : found'[i] = list[i]
        BY <1>1, <1>2, <2>3, <2>4, TakenReads
      <3>2. DOMAIN found' = 1..Len(list) /\ DOMAIN list = 1..Len(list)
        BY <1>1, <1>2, <3>1
      <3> QED
        BY <1>1, <1>2, <3>1, <3>2, SeqEqual
    <2>6. Fits' <=> Fits
      BY <1>1 DEF Fits
    <2>7. Done'
      BY <1>1, <2>3, <2>4, <2>6 DEF Done
    <2> QED
      BY <1>1, <1>3, <1>6, <1>7, <2>1, <2>2, <2>7 DEF Begun, CutOffOK
  <1>8. CASE cutOff' = TRUE /\ kind = "messages" /\ reading' = "returned"
             /\ cursor' = 0 /\ page' = page
    <2>1. ListingTypeOK'
      BY <1>1, <1>2, <1>8 DEF ListingTypeOK, Item
    <2>2. CutOffOK'
      BY <1>1, <1>8, Zenon DEF CutOffOK
    <2>3. Begun' /\ Done'
      BY <1>8 DEF Begun, Done
    <2> QED
      BY <1>3, <1>6, <1>7, <2>1, <2>2, <2>3
  <1>5. CASE /\ ~IsLastPage(Batch) /\ page' = page + 1
             /\ cursor' = IF kind = "messages" THEN Last(Batch).id ELSE 0
             /\ UNCHANGED <<reading, cutOff>>
    <2>1. /\ reading' = "yes" /\ page' = page + 1 /\ cutOff' = cutOff
          /\ cursor' = IF kind = "messages" THEN Last(Batch).id ELSE 0
      BY <1>1, <1>5
    <2>2. Len(Batch) = PerPage /\ page + 1 <= PageLimit /\ PerPage \in Nat /\ PerPage > 0
      BY <1>1, <1>5, PageIsFull, ListingConstants
    <2>3. Len(found') = (page' - 1) * PerPage
      <3>1. Len(found) = (page - 1) * PerPage
        BY <1>1 DEF Begun
      <3>2. page * PerPage = (page - 1) * PerPage + PerPage
        BY <1>2, Pages
      <3>3. page' - 1 = page
        BY <1>2, <2>1
      <3> QED
        BY <1>1, <2>2, <3>1, <3>2, <3>3
    <2>4. /\ found' # <<>> /\ Last(Batch) = found'[Len(found')] /\ Last(Batch) \in Item
      <3>1. Last(Batch) = Batch[Len(Batch)]
        BY DEF Last
      <3>2. Len(Batch) \in 1..Len(Batch)
        BY <1>2, <2>2
      <3>3. /\ Batch[Len(Batch)] = list[Len(found) + Len(Batch)]
            /\ Batch[Len(Batch)] \in Item
        <4>1. \A i \in 1..Len(Batch) : Batch[i] = list[Len(found) + i]
          BY <1>1, BatchFacts
        <4> QED
          BY <1>2, <3>2, <4>1
      <3>4. Len(found') \in 1..Len(found') /\ Len(found') > Len(found)
        BY <1>1, <1>2, <2>2
      <3>5. found'[Len(found')] = list[Len(found')]
        BY <3>4, TakenFacts
      <3> QED
        BY <1>1, <3>1, <3>3, <3>4, <3>5
    <2>5. Last(Batch).id \in Nat
      BY <2>4 DEF Item
    <2>6. ListingTypeOK'
      BY <1>1, <1>2, <2>1, <2>5 DEF ListingTypeOK, Item
    <2>8. Begun'
      BY <1>1, <2>1, <2>2, <2>3, <2>4, TakenReads DEF Begun
    <2> QED
      BY <1>1, <1>3, <1>6, <1>7, <2>1, <2>6, <2>8 DEF Done, CutOffOK
  <1>9. \/ IsLastPage(Batch)
        \/ /\ ~IsLastPage(Batch) /\ page' = page + 1
           /\ cursor' = IF kind = "messages" THEN Last(Batch).id ELSE 0
           /\ UNCHANGED <<reading, cutOff>>
        \/ cutOff' = TRUE /\ kind = "messages" /\ reading' = "returned"
           /\ cursor' = 0 /\ page' = page
    BY DEF TakePage
  <1> QED
    BY <1>4, <1>5, <1>8, <1>9

LEMMA RestInv ==
  ASSUME ListingInv, PageFails \/ End \/ UNCHANGED listingVars
  PROVE  ListingInv'
  <1> USE DEF ListingInv
  <1>1. CASE PageFails \/ UNCHANGED listingVars
    <2>1. /\ UNCHANGED <<kind, list, page, cursor, found, red, settled, lost, cutOff,
                        changes>>
          /\ (reading = "yes" /\ reading' = "raised") \/ reading' = reading
      BY <1>1 DEF PageFails, listingVars
    <2>2. ListingTypeOK' /\ ListOK' /\ RedOK'
      BY <2>1 DEF ListingTypeOK, Item, ListOK, IdsOf, RedOK
    <2>3. FewSlipped'
      BY <2>1 DEF FewSlipped, Slipped, Read
    <2>4. Begun' /\ Done' /\ CutOffOK'
      BY <2>1 DEF Begun, Done, Fits, CutOffOK
    <2> QED
      BY <2>2, <2>3, <2>4
  <1>2. CASE End
    <2>1. /\ reading' = "no" /\ page' = 1 /\ cursor' = 0 /\ found' = <<>>
          /\ settled' = {} /\ lost' = 0 /\ cutOff' = FALSE /\ changes' = 0
          /\ UNCHANGED <<kind, list>>
      BY <1>2 DEF End
    <2>2. Len(<<>>) = 0 /\ (1 - 1) * PerPage = 0 /\ <<>> \in Seq(Item)
      BY ListingConstants
    <2>6. \A x \in red' : \E j \in DOMAIN found : /\ x = found[j].id
                                                 /\ found[j].is = "cancelled"
      <3>1. CASE red' = {}
        BY <3>1
      <3>2. CASE ReadsRed /\ red' = {found[i].id : i \in Failures(Runs)}
        <4>1. ASSUME NEW i \in Failures(Runs)
              PROVE  i \in DOMAIN found /\ found[i].is = "cancelled"
          <5>1. i \in DOMAIN found /\ Runs[i] = RunOf(found[i]) /\ Failed(Runs[i])
            BY DEF Failures, Runs
          <5>2. found[i] \in Item
            BY <5>1 DEF ListingTypeOK
          <5>3. found[i].is \in {"queued", "passed", "cancelled"}
            BY <3>2, <5>2 DEF ReadsRed, Item, States
          <5> QED
            BY <5>1, <5>3 DEF RunOf, Failed, FailingConclusions, None
        <4> QED
          BY <3>2, <4>1
      <3> QED
        BY <1>2, <3>1, <3>2 DEF End
    <2>7. \A j \in DOMAIN found : found[j].id \in Nat
      <3>1. \A j \in DOMAIN found : found[j] \in Item
        BY DEF ListingTypeOK
      <3> QED
        BY <3>1 DEF Item
    <2>3. ListingTypeOK'
      <3>1. red' \subseteq Nat
        BY <2>6, <2>7
      <3> QED
        BY <2>1, <2>2, <3>1 DEF ListingTypeOK, Item
    <2>4. Len(list) \in Nat
      BY DEF ListingTypeOK
    <2>5. Begun'
      BY <2>1, <2>2, <2>4, ListingConstants DEF Begun
    <2>8. ListOK'
      BY <2>1, FS_EmptySet DEF ListOK, IdsOf
    <2>9. RedOK'
      BY <2>1, <2>6 DEF RedOK
    <2>10. FewSlipped'
      <3>1. Slipped' = {} /\ lost' = 0
        BY <2>1 DEF Slipped
      <3> QED
        BY <3>1, FS_EmptySet DEF FewSlipped
    <2>11. CutOffOK'
      BY <2>1, Zenon DEF CutOffOK
    <2> QED
      BY <2>1, <2>3, <2>5, <2>8, <2>9, <2>10, <2>11 DEF Done
  <1> QED
    BY <1>1, <1>2

LEMMA ListingStepInv ==
  ASSUME ListingInv, [Next]_clientVars
  PROVE  ListingInv'
  <1>1. CASE Post \/ PostEnds \/ Underway
    BY <1>1, RestInv DEF Post, PostEnds, Underway
  <1>2. CASE Changes
    BY <1>2, AppearsInv, CompletesInv, DisappearsInv DEF Changes
  <1>3. CASE Begin
    BY <1>3, BeginInv
  <1>4. CASE AskPage
    BY <1>4, RestInv DEF AskPage
  <1>5. CASE TakePage
    BY <1>5, TakePageInv
  <1>6. CASE PageFails \/ End
    BY <1>6, RestInv
  <1>7. CASE UNCHANGED clientVars
    BY <1>7, RestInv DEF clientVars
  <1> QED
    BY <1>1, <1>2, <1>3, <1>4, <1>5, <1>6, <1>7 DEF Next

LEMMA ListingInvHolds == Spec => []ListingInv
  BY ListingInitInv, ListingStepInv, PTL DEF Spec, Init

-----------------------------------------------------------------------------
(* The listings: what their callers are promised                           *)

\* What is still listed at the end of a reading has been read or has slipped through,
\* and no more items slip through than disappeared from the pages already read.
LEMMA ReadOrSlipped ==
  ASSUME ListingInv, reading = "returned", Fits, kind # "messages", NEW S,
         S \subseteq settled,
         \A i \in DOMAIN list : list[i].id \in S => ~Read(i)
  PROVE  Cardinality(S) <= lost
  <1>1. ~cutOff /\ list \in Seq(Item) /\ found \in Seq(Item) /\ lost \in Nat
    BY DEF ListingInv, ListingTypeOK, CutOffOK
  <1>2. Len(found) >= Len(list)
    BY <1>1 DEF ListingInv, Done
  <1>3. ASSUME NEW id \in S PROVE id \in Slipped
    <2>1. PICK i \in DOMAIN list : list[i].id = id
      BY DEF ListingInv, ListOK, IdsOf
    <2>2. i \in 1..Len(list) /\ Len(list) \in Nat /\ Len(found) \in Nat
      BY <1>1
    <2>3. i <= Len(found)
      BY <1>2, <2>2
    <2> QED
      BY <2>1, <2>3 DEF Slipped
  <1>4. Slipped \subseteq settled /\ IsFiniteSet(settled)
    BY DEF Slipped, ListingInv, ListOK
  <1>5. IsFiniteSet(Slipped) /\ S \subseteq Slipped
    BY <1>3, <1>4, FS_Subset
  <1>6. IsFiniteSet(S) /\ Cardinality(S) <= Cardinality(Slipped)
    BY <1>5, FS_Subset
  <1>7. Cardinality(S) \in Nat /\ Cardinality(Slipped) \in Nat
    BY <1>5, <1>6, FS_CardinalityType
  <1>8. Cardinality(Slipped) <= lost
    BY DEF ListingInv, FewSlipped
  <1> QED
    BY <1>1, <1>6, <1>7, <1>8

\* An issue that had the label as the listing began, and kept it, comes out of it,
\* though others are labelled on pages already read; for each one that is closed
\* there one may be missing, and no more (github.py:94-109).
THEOREM NoIssueMissed == Spec => []IssuesNotMissed
  <1>1. ListingInv => IssuesNotMissed
    <2> SUFFICES ASSUME ListingInv, Returned("issues"), Fits
                 PROVE  Cardinality(IssuesMissed) <= lost
      BY DEF IssuesNotMissed
    <2>1. kind = "issues" /\ reading = "returned"
      BY DEF Returned
    <2>2. ASSUME NEW i \in DOMAIN list, list[i].id \in IssuesMissed, Read(i) PROVE FALSE
      <3>1. PICK k \in DOMAIN list : list[k] = [id |-> list[i].id, is |-> "issue"]
        BY <2>2 DEF IssuesMissed
      <3>2. k = i
        BY <3>1 DEF ListingInv, ListOK
      <3>3. list[i].is = "issue"
        BY <3>1, <3>2
      <3>4. PICK j \in DOMAIN found : found[j].id = list[i].id /\ found[j].is = "issue"
        BY <2>1, <2>2, <3>3 DEF Read
      <3> QED
        BY <2>2, <3>4 DEF IssuesMissed, IssuesFound
    <2>3. IssuesMissed \subseteq settled
      BY DEF IssuesMissed
    <2> QED
      BY <2>1, <2>2, <2>3, ReadOrSlipped
  <1> QED
    BY ListingInvHolds, <1>1, PTL

\* A run that is read: its item, and whether it passed.
LEMMA RunFacts ==
  ASSUME ListingInv, kind = "check_runs", NEW i \in DOMAIN found
  PROVE  /\ i \in DOMAIN Runs /\ Runs[i].id = found[i].id
         /\ Completed(Runs[i]) /\ ~Failed(Runs[i]) => Runs[i].conclusion = "success"
         /\ found[i].is = "cancelled" => Failed(Runs[i])
  <1>1. found[i] \in Item
    BY DEF ListingInv, ListingTypeOK
  <1>2. found[i].is \in {"queued", "passed", "cancelled"}
    BY <1>1 DEF Item, States
  <1>3. Runs[i] = RunOf(found[i]) /\ i \in DOMAIN Runs
    BY DEF Runs
  <1> QED
    BY <1>2, <1>3 DEF RunOf, Completed, Failed, FailingConclusions

\* "success" is said of a commit only if it has checks, and of those listed from the
\* beginning to the end of the reading each was read as passed, but one for each
\* check that was re-run away from a page already read: without re-runs green is
\* earned, with one a failed check may go unread (github.py:131-177).
THEOREM NoGreenUnearned == Spec => []GreenIsEarned
  <1>1. ListingInv => GreenIsEarned
    <2> SUFFICES ASSUME ListingInv, Returned("check_runs"), Fits, Verdict(Runs) = "success"
                 PROVE  /\ found # <<>>
                        /\ Cardinality(settled \ PassedRuns) <= lost
      BY DEF GreenIsEarned
    <2>1. kind = "check_runs" /\ reading = "returned"
      BY DEF Returned
    <2>2. /\ Runs # <<>>
          /\ \A i \in DOMAIN Runs : Completed(Runs[i]) /\ ~Failed(Runs[i])
      BY DEF Verdict
    <2>3. found # <<>>
      BY <2>2 DEF Runs
    <2>4. ASSUME NEW i \in DOMAIN list, list[i].id \in settled \ PassedRuns, Read(i)
          PROVE  FALSE
      <3>1. PICK j \in DOMAIN found : found[j].id = list[i].id
        BY <2>4 DEF Read
      <3> QED
        BY <2>1, <2>2, <2>4, <3>1, RunFacts DEF PassedRuns
    <2>5. Cardinality(settled \ PassedRuns) <= lost
      BY <2>1, <2>4, ReadOrSlipped
    <2> QED
      BY <2>3, <2>5
  <1> QED
    BY ListingInvHolds, <1>1, PTL

\* When checks_settled says "failure" and failed_check_summary, which reads the runs
\* again, has no name to give, every run that failed has been re-run or has slipped
\* past its page: the two readings cannot disagree about a commit whose checks stay
\* as they are (github.py:25-28, 155-168, orchestrator.py:697-702).
THEOREM NoRedUnnamed == Spec => []RedIsNamed
  <1>1. ListingInv => RedIsNamed
    <2> SUFFICES ASSUME ListingInv, Returned("check_runs"), Fits,
                        FailedSummary(Runs, Limit) = {}
                 PROVE  Cardinality(red \cap IdsOf(list)) <= lost
      BY DEF RedIsNamed
    <2>1. kind = "check_runs" /\ reading = "returned"
      BY DEF Returned
    <2>2. found \in Seq(Item) /\ DOMAIN Runs = DOMAIN found
      BY DEF ListingInv, ListingTypeOK, Runs
    <2>3. Failures(Runs) = {}
      <3> SUFFICES ASSUME Failures(Runs) # {} PROVE FALSE
        OBVIOUS
      <3>1. Failures(Runs) \in SUBSET Nat
        BY <2>2 DEF Failures
      <3>2. PICK i \in Failures(Runs) : \A j \in Failures(Runs) : i <= j
        BY <3>1, HasLeast
      <3>3. {j \in Failures(Runs) : j <= i} = {i}
        BY <3>1, <3>2
      <3>4. Cardinality({j \in Failures(Runs) : j <= i}) = 1
        BY <3>3, FS_Singleton
      <3>5. i \in FailedSummary(Runs, Limit)
        BY <3>2, <3>4, ListingConstants DEF FailedSummary
      <3> QED
        BY <3>5
    <2>4. ASSUME NEW i \in DOMAIN list, list[i].id \in red \cap IdsOf(list), Read(i)
          PROVE  FALSE
      <3>1. PICK j \in DOMAIN found : found[j].id = list[i].id
        BY <2>4 DEF Read
      <3>2. found[j].is = "cancelled"
        BY <2>4, <3>1 DEF ListingInv, RedOK
      <3>3. j \in Failures(Runs)
        BY <2>1, <3>1, <3>2, RunFacts DEF Failures
      <3> QED
        BY <2>3, <3>3
    <2>5. red \cap IdsOf(list) \subseteq settled
      BY <2>1 DEF ListingInv, RedOK
    <2> QED
      BY <2>1, <2>4, <2>5, ReadOrSlipped
  <1> QED
    BY ListingInvHolds, <1>1, PTL

\* The message that is quoted comes after every message of Devin's that was there
\* as the reading began, or is one of them, if every page that named a next one gave
\* its cursor (devin.py:129-152).
THEOREM NoOlderQuoted == Spec => []LatestQuoted
  <1>1. ListingInv => LatestQuoted
    <2> SUFFICES ASSUME ListingInv, Returned("messages"), Fits, ~cutOff,
                        NEW i \in DOMAIN list, list[i].is = "devin"
                 PROVE  \E j \in DOMAIN list : i <= j /\ list[j].id = Latest
      BY DEF LatestQuoted
    <2>1. found = list
      BY DEF Returned, ListingInv, Done
    <2>2. Len(found) \in Nat /\ DOMAIN found = 1..Len(found)
      BY DEF ListingInv, ListingTypeOK
    <2>3. DevinsFound \in SUBSET (1..Len(found)) /\ i \in DevinsFound
      BY <2>1, <2>2 DEF DevinsFound
    <2>4. Max(DevinsFound) \in DevinsFound /\ Max(DevinsFound) >= i
      BY <2>2, <2>3, HasGreatest
    <2>5. Max(DevinsFound) \in DOMAIN list /\ i <= Max(DevinsFound)
      BY <2>1, <2>2, <2>3, <2>4
    <2>6. list[Max(DevinsFound)].id = Latest
      BY <2>1, <2>3 DEF Latest
    <2> QED
      BY <2>5, <2>6
  <1> QED
    BY ListingInvHolds, <1>1, PTL

-----------------------------------------------------------------------------
(* Both clients at work are one request_with_retry after the other         *)

LEMMA ClientsMakeCalls == Spec => HttpSpec
  <1>1. Init => HttpInit
    BY DEF Init
  <1>2. [Next]_clientVars => [HttpNext]_httpVars
    <2> SUFFICES ASSUME [Next]_clientVars PROVE [HttpNext]_httpVars
      OBVIOUS
    <2>1. CASE Post \/ AskPage
      BY <2>1 DEF Post, AskPage, HttpNext
    <2>2. CASE PostEnds \/ TakePage \/ PageFails
      BY <2>2 DEF PostEnds, TakePage, PageFails, HttpNext
    <2>3. CASE Underway
      BY <2>3 DEF Underway, HttpNext
    <2>4. CASE Changes \/ Begin \/ End \/ UNCHANGED clientVars
      BY <2>4 DEF Changes, Begin, End, clientVars
    <2> QED
      BY <2>1, <2>2, <2>3, <2>4 DEF Next
  <1> QED
    BY <1>1, <1>2, PTL DEF Spec, HttpSpec

\* Whatever the clients list and post, one after the other, every call of theirs is
\* the one call of the specification, and a POST is applied once at most.
THEOREM EveryCallIsOne == Spec => CallSpec /\ []PostAppliedOnce /\ []BackoffsCounted
  BY ClientsMakeCalls, CallImplemented, NoPostRepeated, RetriesReported
=============================================================================
