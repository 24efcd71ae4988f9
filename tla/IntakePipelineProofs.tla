------------------------- MODULE IntakePipelineProofs -------------------------
(***************************************************************************)
(* Proofs about IntakePipeline, for every set of tiers, every number of     *)
(* cards, successors, requests and rounds, and every budget of faults and   *)
(* findings: gates wait, an approval is final, objections are heard, and a  *)
(* drive takes no more turns than its rounds pay for.                       *)
(***************************************************************************)
EXTENDS IntakePipeline, FiniteSetTheorems, TLAPS

-----------------------------------------------------------------------------
(* The gates: what the tables say of each other.                            *)

RunStates == {"absent", "queued", "running", "parked", "completed",
              "finalized", "crashed", "tombstoned"}
Asked     == [st : {"open", "answered", "approved"}, kind : CardKind, run : Lineage]

Tables ==
    /\ asks \in [Card -> {NoAsk} \cup Asked]
    /\ runs \in [Lineage -> RunStates]

\* One run of the lineage is alive at most: the newest.
OneAlive ==
    \E n \in Lineage : /\ runs[n] # "absent"
                       /\ \A m \in Lineage : /\ m > n => runs[m] = "absent"
                                             /\ m < n => runs[m] = "tombstoned"

\* Cards are numbered without a gap, and only the last may be open.
InOrder ==
    /\ \A j \in Card : asks[j] # NoAsk => \A i \in Card : i < j => asks[i] # NoAsk
    /\ \A k, j \in Card : asks[k].st = "open" /\ j > k => asks[j] = NoAsk

Order == Tables /\ OneAlive /\ InOrder /\ GatesWait /\ ApprovalIsFinal

-----------------------------------------------------------------------------
(* A document, the stored one or a driver's copy, beside the cards `a`.     *)

\* Its own fields agree.
Sound(st) ==
    /\ st \in Documents
    /\ st.coverage <= CoverageRounds /\ st.attacks <= CritiqueRounds
    /\ st.asked <= clarificationRoundLimit /\ st.ask <= st.cards
    /\ st.phase \in {"critique", "approval"} => ~ st.revise

\* An objection is pending at the planner, or its requester has cancelled.
Heard(st) ==
    st.contested => (st.phase = "spine" /\ st.revise) \/ st.phase = "cancelled"

\* It counts only cards that were issued.
Counted(a, st) == \A j \in Card : j <= st.cards => a[j] # NoAsk

\* A document that may go on has not passed a card that is open or approved.
Unpassed(a, st) ==
    st.ask = 0 /\ st.phase # "approved" =>
        \A k \in Card : a[k].st \in {"open", "approved"} => st.cards < k

\* It waits at a card of its own phase.
KindFits(kind, st) ==
    /\ kind = "approval" => st.phase = "approval"
    /\ kind = "doubt" => st.phase = "critique"

Matched(a, st) == st.ask # 0 => KindFits(a[st.ask].kind, st)

Good(a, st) == Sound(st) /\ Heard(st) /\ Counted(a, st) /\ Unpassed(a, st) /\ Matched(a, st)

-----------------------------------------------------------------------------
(* A driver.                                                                *)

\* The tiers a critique may still raise a document to.
Higher(tier) == {u \in Tiers : u > tier /\ u > Standard}

\* The turns its phase takes to the approval when nothing is found.
Straight(st) ==
    (IF st.phase = "interview" THEN 3
     ELSE IF st.phase = "spine" THEN 2 ELSE IF st.phase = "critique" THEN 1 ELSE 0)
    + (IF st.revise THEN 1 ELSE 0)

\* The turns a document's unspent rounds may still take.
Rank(st) ==
    Straight(st)
    + 2 * ((CoverageRounds - st.coverage) + (IF st.bounced THEN 0 ELSE 1))
    + 3 * (CritiqueRounds - st.attacks) + 3 * Cardinality(Higher(st.tier))

Places(e) ==
    /\ e.at = "loop" => /\ e.st.ask = 0 /\ ~ Over(e.st)
                        /\ e.turns + Rank(e.st) <= TurnsPaidFor
                        /\ e.st.triage => e.turns = 0
    /\ e.at = "answer" => e.card \in Card /\ e.st.ask = e.card
    /\ e.at = "approve" => e.st.phase = "approval"
    /\ e.at \in {"bind", "advance", "read", "answer", "lower"} => e.turns = 0
    /\ e.turns <= TurnsPaidFor

Driven(a, e) == e = Idle \/ (e \in DriveStates /\ e # Idle /\ Good(a, e.st) /\ Places(e))

Driving ==
    /\ drive = [d \in Driver |-> drive[d]]
    /\ \A d \in Driver : Driven(asks, drive[d])

Rest ==
    /\ pins \in 0..MaxCards
    /\ exec \in {"absent", "queued", "started", "refused"}
    /\ left = [requests |-> left.requests, faults |-> left.faults,
               snags |-> left.snags, tiers |-> left.tiers]
    /\ left.tiers \subseteq Tiers

IInv == Order /\ Good(asks, doc) /\ Driving /\ Rest

-----------------------------------------------------------------------------
(* The constants.                                                           *)

LEMMA Constants ==
    /\ Tiers \subseteq Nat /\ High \in Tiers
    /\ MaxCards \in Nat /\ MaxForks \in Nat
    /\ CoverageRounds \in Nat /\ CritiqueRounds \in Nat
    /\ \A n \in Lineage : n \in Nat /\ n >= 1
    /\ \A k \in Card : k \in Nat /\ k >= 1
<1>1. PICK t \in Tiers : \A u \in Tiers : u <= t
  BY TiersAssumption DEF TiersAssumption
<1>2. High \in Tiers
  BY <1>1 DEF High
<1> QED
  BY <1>2, TiersAssumption, BoundsAssumption, RoundsAssumption
  DEF TiersAssumption, BoundsAssumption, RoundsAssumption, Lineage, Card

LEMMA TiersAreFinite ==
    \A S \in SUBSET Tiers : IsFiniteSet(S) /\ Cardinality(S) \in Nat
<1>1. PICK t \in Tiers : \A u \in Tiers : u <= t
  BY TiersAssumption DEF TiersAssumption
<1>2. IsFiniteSet(0..t)
  BY <1>1, Constants, FS_Interval
<1> SUFFICES ASSUME NEW S \in SUBSET Tiers PROVE IsFiniteSet(S) /\ Cardinality(S) \in Nat
  OBVIOUS
<1>3. S \in SUBSET (0..t)
  BY <1>1, Constants
<1> QED
  BY <1>2, <1>3, FS_Subset, FS_CardinalityType

\* Raising a tier leaves fewer to raise it to.
LEMMA HigherFalls ==
    ASSUME NEW t \in Tiers, NEW u \in Tiers, t <= u
    PROVE  /\ Cardinality(Higher(t)) \in Nat /\ Cardinality(Higher(u)) \in Nat
           /\ Cardinality(Higher(u)) <= Cardinality(Higher(t))
           /\ t < u /\ t >= Standard => Cardinality(Higher(u)) + 1 <= Cardinality(Higher(t))
<1> USE Constants DEF Standard
<1>1. /\ Higher(t) \in SUBSET Tiers /\ Higher(u) \in SUBSET Tiers
      /\ Higher(u) \in SUBSET Higher(t)
  <2>1. ASSUME NEW v \in Tiers, v > u PROVE v > t
    <3>1. t \in Nat /\ u \in Nat /\ v \in Nat
      OBVIOUS
    <3> QED
      BY <3>1, <2>1
  <2> QED
    BY <2>1 DEF Higher
<1>2. /\ IsFiniteSet(Higher(t))
      /\ Cardinality(Higher(t)) \in Nat /\ Cardinality(Higher(u)) \in Nat
  BY <1>1, TiersAreFinite
<1>3. Cardinality(Higher(u)) <= Cardinality(Higher(t))
  BY <1>1, <1>2, FS_Subset
<1>4. ASSUME t < u, t >= Standard PROVE Cardinality(Higher(u)) # Cardinality(Higher(t))
  <2>1. u \in Higher(t) /\ u \notin Higher(u)
    BY <1>4 DEF Higher
  <2> QED
    BY <1>1, <1>2, <2>1, FS_Subset
<1> QED
  BY <1>2, <1>3, <1>4

\* Whatever document a drive begins with, its rank is within what is paid for.
LEMMA RankIsPaid ==
    ASSUME NEW st, Sound(st)
    PROVE  Rank(st) \in Nat /\ Rank(st) <= TurnsPaidFor /\ TurnsPaidFor \in Nat
<1> USE Constants
<1>1. /\ Cardinality(Higher(st.tier)) \in Nat /\ Cardinality(Above(Standard)) \in Nat
      /\ Cardinality(Higher(st.tier)) <= Cardinality(Above(Standard))
  <2>1. Above(Standard) \in SUBSET Tiers /\ Higher(st.tier) \in SUBSET Above(Standard)
    BY DEF Above, Higher
  <2> QED
    BY <2>1, TiersAreFinite, FS_Subset
<1>2. /\ st.coverage \in Nat /\ st.coverage <= CoverageRounds
      /\ st.attacks \in Nat /\ st.attacks <= CritiqueRounds
  BY DEF Sound, Documents
<1>3. Straight(st) \in Nat /\ Straight(st) <= 4
  BY DEF Straight
<1> QED
  BY <1>1, <1>2, <1>3 DEF Rank, TurnsPaidFor
-----------------------------------------------------------------------------
(* The transactions of the gates keep the tables in order.                  *)

\* A run that is neither absent nor tombstoned is the newest.
LEMMA AliveIsNewest ==
    ASSUME OneAlive, NEW m \in Lineage, runs[m] \notin {"absent", "tombstoned"}
    PROVE  \A i \in Lineage : /\ i > m => runs[i] = "absent"
                              /\ i < m => runs[i] = "tombstoned"
<1>1. PICK n \in Lineage : /\ runs[n] # "absent"
                           /\ \A i \in Lineage : /\ i > n => runs[i] = "absent"
                                                 /\ i < n => runs[i] = "tombstoned"
  BY DEF OneAlive
<1>2. n = m
  BY <1>1, Constants
<1> QED
  BY <1>1, <1>2

LEMMA AliveMoves ==
    ASSUME Tables, OneAlive, NEW m \in Lineage, runs[m] \notin {"absent", "tombstoned"},
           NEW s \in RunStates \ {"absent"}, runs' = [runs EXCEPT ![m] = s]
    PROVE  OneAlive' /\ runs' \in [Lineage -> RunStates]
<1>1. \A i \in Lineage : /\ i > m => runs[i] = "absent"
                         /\ i < m => runs[i] = "tombstoned"
  BY AliveIsNewest
<1>2. \A i \in Lineage : /\ i > m => runs'[i] = "absent"
                         /\ i < m => runs'[i] = "tombstoned"
  BY <1>1, Constants DEF Tables
<1>3. runs'[m] # "absent" /\ runs' \in [Lineage -> RunStates]
  BY DEF Tables, RunStates
<1> QED
  BY <1>2, <1>3 DEF OneAlive

\* No card waits while a run is running: its run would be the newest as well.
LEMMA RunningIsAlone ==
    ASSUME Order, NEW n \in Lineage, runs[n] = "running"
    PROVE  \A k \in Card : asks[k].st # "open"
<1> SUFFICES ASSUME NEW k \in Card, asks[k].st = "open" PROVE FALSE
  OBVIOUS
<1>1. asks[k].run \in Lineage /\ runs[asks[k].run] = "parked"
  BY DEF Order, GatesWait, Waiting, Tables, Asked, NoAsk
<1>2. asks[k].run = n
  BY <1>1, AliveIsNewest, Constants DEF Order
<1> QED
  BY <1>1, <1>2

\* What a document says of the cards outlives a change of the cards that only
\* answers the open ones.
LEMMA AnsweredStaysGood ==
    ASSUME NEW a, NEW b, NEW st, Good(a, st),
           \A k \in Card : /\ a[k] # NoAsk => b[k] # NoAsk /\ b[k].kind = a[k].kind
                           /\ b[k].st \in {"open", "approved"} => a[k].st \in {"open", "approved"}
    PROVE  Good(b, st)
<1>1. st.ask \in 0..MaxCards /\ st.cards \in 0..MaxCards /\ st.ask <= st.cards
  BY DEF Good, Sound, Documents
<1>2. st.ask # 0 => st.ask \in Card /\ a[st.ask] # NoAsk
  BY <1>1, Constants DEF Good, Counted, Card
<1>3. Matched(b, st)
  BY <1>2 DEF Good, Matched, KindFits
<1>4. Counted(b, st) /\ Unpassed(b, st)
  BY DEF Good, Counted, Unpassed
<1> QED
  BY <1>3, <1>4 DEF Good

\* issueCard.
LEMMA IssueKeeps ==
    ASSUME Order, NEW st, Sound(st), Heard(st), Counted(asks, st), Unpassed(asks, st),
           st.ask = 0, ~ Over(st),
           NEW kind \in CardKind, KindFits(kind, st), Issue(st, kind)
    PROVE  Order' /\ Good(asks', doc') /\ \A s : Good(asks, s) => Good(asks', s)
<1> DEFINE c == st.cards + 1
<1> USE Constants
<1>1. /\ c \in Card /\ c \in Nat /\ asks[c] = NoAsk /\ st.run \in Lineage /\ runs[st.run] = "running"
      /\ st.cards \in Nat /\ st.cards < c
  BY DEF Sound, Documents, Issue, CanIssue, Card
<1>2. /\ asks' = [asks EXCEPT ![c] = [st |-> "open", kind |-> kind, run |-> st.run]]
      /\ runs' = [runs EXCEPT ![st.run] = "parked"]
      /\ doc' = [st EXCEPT !.cards = c, !.ask = c]
  BY <1>1 DEF Issue, Carded, Sound, Documents
<1> HIDE DEF c
<1>3. \A k \in Card : asks[k].st # "open"
  BY <1>1, RunningIsAlone
<1>4. OneAlive' /\ runs' \in [Lineage -> RunStates]
  BY <1>1, <1>2, AliveMoves DEF RunStates, Order
<1>5. Tables'
  BY <1>1, <1>2, <1>4 DEF Tables, Asked, Order
<1>6. /\ asks'[c] = [st |-> "open", kind |-> kind, run |-> st.run]
      /\ \A k \in Card : k # c => asks'[k] = asks[k]
      /\ asks'[c] # NoAsk /\ runs'[st.run] = "parked"
  BY <1>1, <1>2 DEF Tables, NoAsk, Order
<1>7. \A i \in Card : i < c => asks[i] # NoAsk
  BY <1>1 DEF Counted, c, Card
<1>8. \A j \in Card : j > c => asks[j] = NoAsk
  BY <1>1 DEF Order, InOrder
<1>9. InOrder'
  <2>1. ASSUME NEW j \in Card, asks'[j] # NoAsk, NEW i \in Card, i < j PROVE asks'[i] # NoAsk
    BY <1>6, <1>7, <2>1 DEF Order, InOrder
  <2>2. ASSUME NEW k \in Card, asks'[k].st = "open", NEW j \in Card, j > k PROVE asks'[j] = NoAsk
    BY <1>3, <1>6, <1>8, <2>2
  <2> QED
    BY <2>1, <2>2 DEF InOrder
<1>10. GatesWait'
  BY <1>3, <1>6 DEF GatesWait, Waiting
<1>11. ApprovalIsFinal'
  <2>1. ASSUME NEW k \in Card, asks'[k].st = "approved", NEW j \in Card, j > k PROVE asks'[j] = NoAsk
    <3>1. k # c /\ asks[k].st = "approved"
      BY <1>6, <2>1
    <3>2. st.cards < k
      BY <3>1 DEF Unpassed, Over
    <3>3. k > c
      BY <1>1, <3>1, <3>2 DEF c
    <3>4. j # c
      BY <1>1, <2>1, <3>3
    <3> QED
      BY <1>6, <2>1, <3>1, <3>4 DEF Order, ApprovalIsFinal
  <2> QED
    BY <2>1 DEF ApprovalIsFinal
<1>12. ASSUME NEW s, Good(asks, s) PROVE Good(asks', s)
  <2>1. s.cards \in Nat /\ s.ask \in Nat /\ s.ask <= s.cards /\ s.cards <= MaxCards
    BY <1>12 DEF Good, Sound, Documents
  <2>2. s.cards < c
    BY <1>1, <1>12, <2>1 DEF Good, Counted
  <2>3. Counted(asks', s)
    BY <1>1, <1>6, <1>12, <2>1, <2>2 DEF Good, Counted
  <2>4. Unpassed(asks', s)
    BY <1>6, <1>12, <2>2 DEF Good, Unpassed
  <2>5. s.ask # 0 => s.ask \in Card /\ s.ask # c
    BY <1>1, <2>1, <2>2 DEF Card
  <2>6. Matched(asks', s)
    BY <1>6, <1>12, <2>5 DEF Good, Matched
  <2> QED
    BY <1>12, <2>3, <2>4, <2>6 DEF Good
<1>13. Good(asks', doc')
  <2>1. doc'.cards = c /\ doc'.ask = c /\ doc'.phase = st.phase
        /\ doc'.contested = st.contested /\ doc'.revise = st.revise
    BY <1>2 DEF Sound, Documents
  <2>2. Sound(doc')
    <3>1. c \in 0..MaxCards /\ c <= c
      BY <1>1 DEF Card
    <3>2. doc' \in Documents
      BY <1>2, <3>1 DEF Sound, Documents
    <3>3. /\ doc'.coverage = st.coverage /\ doc'.attacks = st.attacks /\ doc'.asked = st.asked
      BY <1>2 DEF Sound, Documents
    <3> QED
      BY <2>1, <3>1, <3>2, <3>3 DEF Sound
  <2>3. Heard(doc')
    BY <2>1 DEF Heard
  <2>4. Counted(asks', doc')
    <3> SUFFICES ASSUME NEW j \in Card, j <= c PROVE asks'[j] # NoAsk
      BY <2>1 DEF Counted
    <3>1. CASE j = c
      BY <1>6, <3>1
    <3>2. CASE j < c
      BY <1>6, <1>7, <3>2
    <3> QED
      BY <1>1, <3>1, <3>2
  <2>5. Unpassed(asks', doc')
    BY <1>1, <2>1 DEF Unpassed
  <2>6. Matched(asks', doc')
    BY <1>6, <2>1 DEF Matched, KindFits
  <2> QED
    BY <2>2, <2>3, <2>4, <2>5, <2>6 DEF Good
<1> QED
  BY <1>4, <1>5, <1>9, <1>10, <1>11, <1>12, <1>13 DEF Order

\* closeAndResume and approve's closing transaction.
LEMMA CloseKeeps ==
    ASSUME Order, NEW k \in Card, NEW how \in {"answered", "approved"}, NEW st,
           Sound(st), Heard(st), Counted(asks, st),
           how = "approved" => st.phase = "approved", Close(k, how, st)
    PROVE  Order' /\ Good(asks', doc') /\ \A s : Good(asks, s) => Good(asks', s)
<1> USE Constants
<1>1. /\ asks[k].st = "open" /\ asks[k] # NoAsk /\ st.run \in Lineage
      /\ asks' = [asks EXCEPT ![k].st = how]
      /\ doc' = [st EXCEPT !.ask = 0]
  BY DEF Close, CanClose, Waiting, NoAsk, Sound, Documents
<1>2. asks[k] \in Asked
  BY <1>1 DEF Order, Tables
<1>3. /\ asks'[k] \in Asked /\ asks'[k].st = how /\ asks'[k].kind = asks[k].kind
      /\ asks'[k] # NoAsk
      /\ \A j \in Card : j # k => asks'[j] = asks[j]
  BY <1>1, <1>2 DEF Asked, NoAsk, Order, Tables
<1>4. \A j \in Card : j # k => asks[j].st \notin {"open", "approved"}
  <2> SUFFICES ASSUME NEW j \in Card, j # k, asks[j].st \in {"open", "approved"} PROVE FALSE
    OBVIOUS
  <2>1. asks[j].st = "approved"
    BY <1>1 DEF Order, GatesWait, Waiting
  <2>2. asks[j] # NoAsk
    BY <2>1 DEF NoAsk
  <2>3. CASE j > k
    BY <1>1, <2>2, <2>3 DEF Order, InOrder
  <2>4. CASE k > j
    BY <1>1, <2>1, <2>4 DEF Order, ApprovalIsFinal
  <2> QED
    BY <2>3, <2>4
<1>5. OneAlive' /\ runs' \in [Lineage -> RunStates]
  <2>1. CASE runs[st.run] = "parked"
    <3> DEFINE to == IF st.phase = "cancelled" THEN "finalized" ELSE "running"
    <3>1. runs' = [runs EXCEPT ![st.run] = to] /\ to \in RunStates \ {"absent"}
      BY <2>1 DEF Close, RunStates
    <3> QED
      BY <1>1, <2>1, <3>1, AliveMoves DEF Order
  <2>2. CASE runs[st.run] # "parked"
    BY <2>2 DEF Close, Order, OneAlive, Tables
  <2> QED
    BY <2>1, <2>2
<1>6. Tables'
  <2>1. asks' \in [Card -> {NoAsk} \cup Asked]
    BY <1>1, <1>3 DEF Order, Tables
  <2> QED
    BY <1>5, <2>1 DEF Tables
<1>7. InOrder'
  <2>1. \A j \in Card : asks'[j] # NoAsk <=> asks[j] # NoAsk
    BY <1>1, <1>3
  <2>2. \A j \in Card : asks'[j].st # "open" \/ asks[j].st = "open"
    BY <1>1, <1>3
  <2> QED
    BY <2>1, <2>2 DEF Order, InOrder
<1>8. GatesWait'
  BY <1>3, <1>4 DEF GatesWait, Waiting
<1>9. ApprovalIsFinal'
  <2> SUFFICES ASSUME NEW i \in Card, NEW j \in Card, asks'[i].st = "approved", j > i
               PROVE  asks'[j] = NoAsk
    BY DEF ApprovalIsFinal
  <2>1. i = k
    BY <1>3, <1>4
  <2>2. asks[j] = NoAsk
    BY <1>1, <2>1 DEF Order, InOrder
  <2> QED
    BY <1>3, <2>1, <2>2
<1>10. ASSUME NEW s, Good(asks, s) PROVE Good(asks', s)
  <2>1. \A j \in Card : /\ asks[j] # NoAsk => asks'[j] # NoAsk /\ asks'[j].kind = asks[j].kind
                        /\ asks'[j].st \in {"open", "approved"} => asks[j].st \in {"open", "approved"}
    BY <1>1, <1>3
  <2> QED
    BY <1>10, <2>1, AnsweredStaysGood
<1>11. Good(asks', doc')
  <2>1. doc'.ask = 0 /\ doc'.cards = st.cards /\ doc'.phase = st.phase
        /\ doc'.contested = st.contested /\ doc'.revise = st.revise
    BY <1>1 DEF Sound, Documents
  <2>2. Sound(doc')
    BY <1>1 DEF Sound, Documents
  <2>3. Counted(asks', doc')
    BY <1>1, <1>3, <2>1 DEF Counted
  <2>4. Unpassed(asks', doc')
    BY <1>3, <1>4, <2>1 DEF Unpassed
  <2> QED
    BY <2>1, <2>2, <2>3, <2>4 DEF Good, Heard, Matched
<1> QED
  BY <1>5, <1>6, <1>7, <1>8, <1>9, <1>10, <1>11 DEF Order

\* A run that is alive and not parked takes another state.
LEMMA RunMoves ==
    ASSUME Order, NEW m \in Lineage, runs[m] \notin {"absent", "tombstoned", "parked"},
           NEW s \in RunStates \ {"absent"}, runs' = [runs EXCEPT ![m] = s], asks' = asks
    PROVE  Order'
<1>1. OneAlive' /\ runs' \in [Lineage -> RunStates]
  BY AliveMoves DEF Order
<1>2. \A i \in Lineage : i # m => runs'[i] = runs[i]
  BY DEF Order, Tables
<1>3. GatesWait'
  BY <1>2 DEF Order, GatesWait, Waiting
<1> QED
  BY <1>1, <1>3 DEF Order, Tables, InOrder, ApprovalIsFinal

LEMMA OrderStays ==
    ASSUME Order, UNCHANGED <<asks, runs>> PROVE Order'
BY DEF Order, Tables, OneAlive, InOrder, GatesWait, Waiting, ApprovalIsFinal

\* rebind: no card is open beside a running run, so none changes hands.
LEMMA RebindKeeps ==
    ASSUME Order, NEW n \in Lineage, NEW st, Good(asks, st), CanRebind(st, n), Rebind(st, n)
    PROVE  /\ Order' /\ asks' = asks /\ doc' = [st EXCEPT !.run = n]
           /\ Good(asks, [st EXCEPT !.run = n])
<1>1. Good(asks, [st EXCEPT !.run = n])
  <2> DEFINE t == [st EXCEPT !.run = n]
  <2>1. st \in Documents
    BY DEF Good, Sound
  <2>2. /\ t \in Documents /\ t.coverage = st.coverage /\ t.attacks = st.attacks
        /\ t.asked = st.asked /\ t.ask = st.ask /\ t.cards = st.cards /\ t.phase = st.phase
        /\ t.revise = st.revise /\ t.contested = st.contested
    BY <2>1 DEF Documents
  <2> HIDE DEF t
  <2> QED
    BY <2>2 DEF Good, Sound, Heard, Counted, Unpassed, Matched, KindFits, t
<1>2. CASE st.ask = 0
  <2>1. asks' = asks /\ runs' = runs
    BY <1>2 DEF Rebind, Waiting, Card
  <2> QED
    BY <1>1, <2>1, OrderStays DEF Rebind
<1>3. CASE st.ask # 0
  <2>1. runs[n] = "running" /\ runs' = [runs EXCEPT ![n] = "parked"]
    BY <1>3 DEF CanRebind, Rebind
  <2>2. ~ Waiting(st.ask)
    BY <2>1, RunningIsAlone DEF Waiting
  <2>3. asks' = asks
    BY <2>2 DEF Rebind
  <2> QED
    BY <1>1, <2>1, <2>3, RunMoves DEF Rebind, RunStates
<1> QED
  BY <1>2, <1>3

\* A document edited while it may go on, at no card.
LEMMA EditedIsGood ==
    ASSUME NEW a, NEW s, Good(a, s), s.ask = 0, ~ Over(s),
           NEW t, Sound(t), Heard(t), t.ask = 0, t.cards = s.cards
    PROVE  Good(a, t)
BY DEF Good, Counted, Unpassed, Matched, Over

-----------------------------------------------------------------------------
(* The drivers: what one of them does keeps the others.                     *)

Points == {"bind", "advance", "loop", "approve", "read", "answer", "lower", "after",
           "launch", "fail"}

Monotone == \A s : Good(asks, s) => Good(asks', s)

LEMMA DriverShape ==
    ASSUME IInv, NEW d \in Driver, ~ At(d, "idle")
    PROVE  /\ drive[d] = Entry(d, drive[d].at, Copy(d), drive[d].turns)
           /\ drive[d].at \in Points /\ drive[d].on \in Lineage
           /\ drive[d].card \in 0..MaxCards /\ drive[d].turns \in 0..MaxTurns
           /\ Good(asks, Copy(d)) /\ Places(drive[d])
<1>1. Driven(asks, drive[d]) /\ drive[d] # Idle
  BY DEF IInv, Driving, At, Idle
<1> QED
  BY <1>1 DEF Driven, DriveStates, Entry, Points, Copy, Idle

LEMMA OthersKeep ==
    ASSUME IInv, Order', Good(asks', doc'), Monotone, Rest',
           NEW d \in Driver, NEW e, Driven(asks', e), drive' = [drive EXCEPT ![d] = e]
    PROVE  IInv'
<1>1. \A c \in Driver : c # d => drive'[c] = drive[c]
  BY DEF IInv, Driving
<1>2. drive'[d] = e
  BY DEF IInv, Driving
<1>3. \A c \in Driver : Driven(asks, drive[c]) => Driven(asks', drive[c])
  BY DEF Monotone, Driven
<1>4. drive' = [c \in Driver |-> drive'[c]]
  BY DEF IInv, Driving
<1>5. Driving'
  BY <1>1, <1>2, <1>3, <1>4 DEF IInv, Driving
<1> QED
  BY <1>5 DEF IInv

LEMMA MoveKeeps ==
    ASSUME IInv, Order', Good(asks', doc'), Monotone, Rest',
           NEW d \in Driver, ~ At(d, "idle"), NEW pc \in Points, NEW st, Good(asks', st),
           NEW t \in 0..MaxTurns, Places(Entry(d, pc, st, t)),
           drive' = [drive EXCEPT ![d] = Entry(d, pc, st, t)]
    PROVE  IInv'
<1>1. Entry(d, pc, st, t) \in DriveStates /\ Entry(d, pc, st, t) # Idle
  BY DriverShape DEF Entry, DriveStates, Points, Idle, Good, Sound
<1>2. Driven(asks', Entry(d, pc, st, t))
  BY <1>1 DEF Driven, Entry
<1> QED
  BY <1>2, OthersKeep

LEMMA EndKeeps ==
    ASSUME IInv, Order', Good(asks', doc'), Monotone, Rest', NEW d \in Driver, Ends(d)
    PROVE  IInv'
BY OthersKeep DEF Ends, Driven

\* Off to the continuation, the launch or the error.
LEMMA LeaveKeeps ==
    ASSUME IInv, Order', Good(asks', doc'), Monotone, Rest', NEW d \in Driver, ~ At(d, "idle"),
           NEW pc \in {"after", "launch", "fail"}, Goto(d, pc)
    PROVE  IInv'
<1>1. Places(Entry(d, pc, Copy(d), drive[d].turns))
  BY DriverShape DEF Places, Entry
<1>2. Good(asks', Copy(d)) /\ drive[d].turns \in 0..MaxTurns
  BY DriverShape DEF Monotone
<1> QED
  BY <1>1, <1>2, MoveKeeps DEF Points, Goto, With

\* Nothing is said of the cards and the runs.
LEMMA GatesStay ==
    ASSUME IInv, UNCHANGED gates
    PROVE  Order' /\ Good(asks', doc') /\ Monotone
BY OrderStays DEF IInv, gates, Monotone

LEMMA RestStays ==
    ASSUME IInv, UNCHANGED <<pins, exec, left>> PROVE Rest'
BY DEF IInv, Rest

LEMMA SpendKeeps ==
    ASSUME IInv, NEW what \in {"requests", "faults", "snags"}, Spend(what), UNCHANGED <<pins, exec>>
    PROVE  Rest'
BY DEF IInv, Rest, Spend

\* A driver in its loop.
LEMMA LoopHas ==
    ASSUME IInv, NEW d \in Driver, At(d, "loop")
    PROVE  /\ Good(asks, Copy(d)) /\ Copy(d).ask = 0 /\ ~ Over(Copy(d))
           /\ drive[d].turns + Rank(Copy(d)) <= TurnsPaidFor
           /\ Copy(d).triage => drive[d].turns = 0
           /\ drive[d].turns \in 0..MaxTurns /\ ~ At(d, "idle")
BY DriverShape DEF At, Places, Copy

\* A phase that ends with its document appended, and a lower rank.
LEMMA GoesKeeps ==
    ASSUME IInv, Rest', NEW d \in Driver, At(d, "loop"), drive[d].turns < MaxTurns,
           NEW t, Sound(t), Heard(t), t.ask = 0, t.cards = Copy(d).cards,
           ~ Over(t), ~ t.triage, Rank(t) + 1 <= Rank(Copy(d)), Goes(d, t)
    PROVE  IInv'
<1>1. asks' = asks /\ runs' = runs /\ doc' = t
  BY DEF Goes, AppendState
<1>2. Good(asks', t)
  BY <1>1, LoopHas, EditedIsGood
<1>3. Order' /\ Good(asks', doc') /\ Monotone
  BY <1>1, <1>2, OrderStays DEF IInv, Monotone
<1>4. drive' = [drive EXCEPT ![d] = Entry(d, "loop", t, drive[d].turns + 1)]
  BY DEF Goes
<1>5. Rank(t) \in Nat /\ TurnsPaidFor \in Nat /\ Rank(Copy(d)) \in Nat
  BY LoopHas, RankIsPaid DEF Good
<1>6. drive[d].turns + 1 \in 0..MaxTurns /\ drive[d].turns + 1 + Rank(t) <= TurnsPaidFor
  BY <1>5, LoopHas DEF MaxTurns
<1>7. Places(Entry(d, "loop", t, drive[d].turns + 1))
  BY <1>5, <1>6 DEF Places, Entry
<1> QED
  BY <1>2, <1>3, <1>4, <1>6, <1>7, LoopHas, MoveKeeps DEF Points

\* A phase that ends at a card, or fails at it.
LEMMA AsksKeeps ==
    ASSUME IInv, Rest', NEW d \in Driver, At(d, "loop"),
           NEW t, Sound(t), Heard(t), t.ask = 0, t.cards = Copy(d).cards, ~ Over(t),
           NEW kind \in CardKind, KindFits(kind, t), Asks(d, t, kind)
    PROVE  IInv'
<1>1. Good(asks, t)
  BY LoopHas, EditedIsGood
<1>2. CASE CanIssue(t)
  <2>1. Issue(t, kind) /\ Ends(d)
    BY <1>2 DEF Asks
  <2>2. Order' /\ Good(asks', doc') /\ Monotone
    BY <1>1, <2>1, IssueKeeps DEF IInv, Good, Monotone
  <2> QED
    BY <2>1, <2>2, EndKeeps
<1>3. CASE ~ CanIssue(t)
  <2>1. Goto(d, "fail") /\ UNCHANGED gates
    BY <1>3 DEF Asks
  <2> QED
    BY <2>1, GatesStay, LoopHas, LeaveKeeps
<1> QED
  BY <1>2, <1>3

-----------------------------------------------------------------------------
(* The phases of a drive.                                                   *)

\* What its rounds have left, beside the turns of its phase.
Rounds(st) ==
    2 * ((CoverageRounds - st.coverage) + (IF st.bounced THEN 0 ELSE 1))
    + 3 * (CritiqueRounds - st.attacks)

\* A raised tier never costs a turn.
LEMMA RankFalls ==
    ASSUME NEW s, NEW t, Sound(s), Sound(t), s.tier <= t.tier,
           Straight(t) + Rounds(t) + 1 <= Straight(s) + Rounds(s)
    PROVE  Rank(t) + 1 <= Rank(s)
<1>1. s.tier \in Tiers /\ t.tier \in Tiers
  BY DEF Sound, Documents
<1>2. /\ Cardinality(Higher(s.tier)) \in Nat /\ Cardinality(Higher(t.tier)) \in Nat
      /\ Cardinality(Higher(t.tier)) <= Cardinality(Higher(s.tier))
  BY <1>1, HigherFalls
<1>3. /\ Rank(s) = Straight(s) + Rounds(s) + 3 * Cardinality(Higher(s.tier))
      /\ Rank(t) = Straight(t) + Rounds(t) + 3 * Cardinality(Higher(t.tier))
  <2>1. ASSUME NEW v, Sound(v)
        PROVE  Rank(v) = Straight(v) + Rounds(v) + 3 * Cardinality(Higher(v.tier))
    <3>1. /\ CoverageRounds - v.coverage \in Int /\ CritiqueRounds - v.attacks \in Int
          /\ Cardinality(Higher(v.tier)) \in Nat /\ Straight(v) \in Int
      <4>1. Higher(v.tier) \in SUBSET Tiers
        BY DEF Higher
      <4>2. v.coverage \in Nat /\ v.attacks \in Nat
        BY <2>1 DEF Sound, Documents
      <4>3. Straight(v) \in Int
        BY DEF Straight
      <4> QED
        BY <4>1, <4>2, <4>3, Constants, TiersAreFinite
    <3> HIDE DEF Straight
    <3> QED
      BY <3>1 DEF Rank, Rounds
  <2> QED
    BY <2>1
<1>4. Straight(s) \in Int /\ Straight(t) \in Int
  BY DEF Straight
<1>5. Rounds(s) \in Int /\ Rounds(t) \in Int
  BY Constants DEF Rounds, Sound, Documents
<1> HIDE DEF Straight, Rounds, Rank
<1> QED
  BY <1>2, <1>3, <1>4, <1>5

\* What Turn and its document's place in the loop give.
LEMMA TurnHas ==
    ASSUME IInv, NEW d \in Driver, NEW phase, Turn(d, phase)
    PROVE  /\ At(d, "loop") /\ drive[d].turns < MaxTurns
           /\ Sound(Copy(d)) /\ Heard(Copy(d)) /\ Copy(d) \in Documents
           /\ Copy(d).ask = 0 /\ Copy(d).phase = phase /\ ~ Over(Copy(d))
           /\ ~ Copy(d).triage
           /\ Copy(d).tier \in Tiers /\ Copy(d).tier <= Copy(d).tier
<1>1. /\ At(d, "loop") /\ drive[d].turns < MaxTurns /\ ~ Copy(d).triage
      /\ Copy(d).phase = phase /\ Good(asks, Copy(d)) /\ Copy(d).ask = 0 /\ ~ Over(Copy(d))
  BY LoopHas DEF Turn
<1>2. Copy(d) \in Documents /\ Copy(d).tier \in Tiers
  BY <1>1 DEF Good, Sound, Documents
<1>3. Copy(d).tier \in Nat
  BY <1>2, Constants
<1> QED
  BY <1>1, <1>2, <1>3 DEF Good

LEMMA SnagSpent ==
    ASSUME IInv, Spend("snags"), UNCHANGED <<pins, exec>> PROVE Rest'
BY SpendKeeps

\* A card asked over the copy as it stands.
LEMMA PlainAsk ==
    ASSUME IInv, Rest', NEW d \in Driver, NEW phase, Turn(d, phase),
           NEW kind \in CardKind, KindFits(kind, Copy(d)), Asks(d, Copy(d), kind)
    PROVE  IInv'
BY TurnHas, AsksKeeps

LEMMA EscalatesKeeps ==
    ASSUME IInv, NEW d \in Driver, NEW phase, Turn(d, phase), Escalates(d) \/ Refused(d)
    PROVE  IInv'
<1>1. Rest'
  BY SnagSpent DEF Escalates, Refused, Asks
<1>2. PICK kind \in {"escalation", "emission"} : Asks(d, Copy(d), kind)
  BY DEF Escalates, Refused
<1>3. kind \in CardKind /\ KindFits(kind, Copy(d))
  BY <1>2 DEF CardKind, KindFits
<1> QED
  BY <1>1, <1>2, <1>3, PlainAsk

LEMMA InterviewKeeps ==
    ASSUME IInv, NEW d \in Driver, AskFamily(d) \/ Interview(d) PROVE IInv'
<1>1. Turn(d, "interview") /\ Rest'
  BY RestStays DEF AskFamily, Interview, Asks
<1>2. CASE AskFamily(d)
  <2>1. KindFits("family", Copy(d)) /\ "family" \in CardKind
    BY DEF KindFits, CardKind
  <2> QED
    BY <1>1, <1>2, <2>1, PlainAsk DEF AskFamily
<1>3. CASE Interview(d)
  <2> DEFINE t == [Copy(d) EXCEPT !.reinterview = FALSE]
  <2>1. /\ Sound(t) /\ Heard(t) /\ t.ask = 0 /\ t.cards = Copy(d).cards /\ ~ Over(t)
        /\ KindFits("interview", t) /\ "interview" \in CardKind
    BY ZenonT(60), <1>1, TurnHas DEF Sound, Heard, Documents, Over, KindFits, CardKind
  <2>2. Asks(d, t, "interview") /\ At(d, "loop")
    BY <1>3 DEF Interview, Turn
  <2> HIDE DEF t
  <2> QED
    BY <1>1, <2>1, <2>2, AsksKeeps
<1> QED
  BY <1>2, <1>3

LEMMA DraftKeeps ==
    ASSUME IInv, NEW d \in Driver, Draft(d) PROVE IInv'
<1>1. Turn(d, "interview")
  BY DEF Draft
<1>2. CASE Escalates(d) \/ Refused(d)
  BY <1>1, <1>2, EscalatesKeeps
<1>3. CASE Goes(d, [Copy(d) EXCEPT !.draft = FALSE, !.phase = "spine"]) /\ UNCHANGED left
  <2> DEFINE t == [Copy(d) EXCEPT !.draft = FALSE, !.phase = "spine"]
  <2>1. /\ t \in Documents /\ t.ask = 0 /\ t.cards = Copy(d).cards /\ ~ t.triage
        /\ t.phase = "spine" /\ t.revise = Copy(d).revise /\ t.contested = Copy(d).contested
        /\ t.coverage = Copy(d).coverage /\ t.attacks = Copy(d).attacks
        /\ t.asked = Copy(d).asked /\ t.bounced = Copy(d).bounced /\ t.tier = Copy(d).tier
    BY ZenonT(60), <1>1, TurnHas DEF Documents, Phase
  <2> HIDE DEF t
  <2>2. Sound(t) /\ Heard(t) /\ ~ Over(t)
    BY <1>1, <2>1, TurnHas DEF Sound, Heard, Over
  <2>3. Straight(t) + Rounds(t) + 1 <= Straight(Copy(d)) + Rounds(Copy(d))
    BY <1>1, <2>1, TurnHas, Constants DEF Straight, Rounds, Sound, Documents
  <2>4. Rank(t) + 1 <= Rank(Copy(d))
    BY <1>1, <2>1, <2>2, <2>3, TurnHas, RankFalls
  <2>5. Goes(d, t) /\ Rest'
    BY <1>3, RestStays DEF t, Goes
  <2> QED
    BY <1>1, <2>1, <2>2, <2>4, <2>5, TurnHas, GoesKeeps
<1> QED
  BY <1>2, <1>3 DEF Draft

LEMMA ReviseKeeps ==
    ASSUME IInv, NEW d \in Driver, Revise(d) PROVE IInv'
<1>1. Turn(d, "spine") /\ Copy(d).revise
  BY DEF Revise
<1>2. CASE Escalates(d) \/ Refused(d)
  BY <1>1, <1>2, EscalatesKeeps
<1>3. CASE Goes(d, [Copy(d) EXCEPT !.revise = FALSE, !.contested = FALSE]) /\ UNCHANGED left
  <2> DEFINE t == [Copy(d) EXCEPT !.revise = FALSE, !.contested = FALSE]
  <2>1. /\ t \in Documents /\ t.ask = 0 /\ t.cards = Copy(d).cards /\ ~ t.triage
        /\ t.phase = "spine" /\ ~ t.revise /\ ~ t.contested
        /\ t.coverage = Copy(d).coverage /\ t.attacks = Copy(d).attacks
        /\ t.asked = Copy(d).asked /\ t.bounced = Copy(d).bounced /\ t.tier = Copy(d).tier
    BY ZenonT(60), <1>1, TurnHas DEF Documents, Phase
  <2> HIDE DEF t
  <2>2. Sound(t) /\ Heard(t) /\ ~ Over(t)
    BY <1>1, <2>1, TurnHas DEF Sound, Heard, Over
  <2>3. Straight(t) + Rounds(t) + 1 <= Straight(Copy(d)) + Rounds(Copy(d))
    BY <1>1, <2>1, TurnHas, Constants DEF Straight, Rounds, Sound, Documents
  <2>4. Rank(t) + 1 <= Rank(Copy(d))
    BY <1>1, <2>1, <2>2, <2>3, TurnHas, RankFalls
  <2>5. Goes(d, t) /\ Rest'
    BY <1>3, RestStays DEF t, Goes
  <2> QED
    BY <1>1, <2>1, <2>2, <2>4, <2>5, TurnHas, GoesKeeps
<1> QED
  BY <1>2, <1>3 DEF Revise

\* The spine's findings, over a copy whose tier may have been raised.
LEMMA SpineKeeps ==
    ASSUME IInv, NEW d \in Driver, Spine(d) PROVE IInv'
<1>1. Turn(d, "spine") /\ ~ Copy(d).revise
  BY DEF Spine
<1>2. PICK tier \in {Copy(d).tier} \cup Above(Copy(d).tier) :
        LET st == [Copy(d) EXCEPT !.tier = tier]
        IN  \/ Clean(d, st) /\ (UNCHANGED left \/ Spend("snags"))
            \/ Spend("snags") /\ (Uncovered(d, st) \/ Unresearched(d, st) \/ OpenMarkers(d, st))
  <2>1. Copy(d) = [Copy(d) EXCEPT !.tier = Copy(d).tier]
    BY <1>1, TurnHas DEF Documents
  <2> QED
    BY <2>1 DEF Spine
<1> DEFINE st == [Copy(d) EXCEPT !.tier = tier]
<1>3. tier \in Tiers /\ Copy(d).tier <= tier
  <2>1. Copy(d).tier \in Tiers /\ Copy(d).tier \in Nat
    BY <1>1, TurnHas, Constants
  <2>2. CASE tier \in Above(Copy(d).tier)
    <3>1. tier \in Tiers /\ tier > Copy(d).tier /\ tier \in Nat
      BY <2>2, Constants DEF Above
    <3> QED
      BY <2>1, <3>1
  <2> QED
    BY <2>1, <2>2
<1>4. /\ st \in Documents /\ st.ask = 0 /\ st.cards = Copy(d).cards /\ ~ st.triage
      /\ st.phase = "spine" /\ ~ st.revise /\ ~ st.contested /\ st.tier = tier
      /\ st.coverage = Copy(d).coverage /\ st.attacks = Copy(d).attacks
      /\ st.asked = Copy(d).asked /\ st.bounced = Copy(d).bounced
  BY <1>1, <1>3, TurnHas DEF Documents, Heard
<1> HIDE DEF st
<1>5. Sound(st) /\ Heard(st) /\ ~ Over(st)
  BY <1>1, <1>4, TurnHas DEF Sound, Heard, Over
<1>6. /\ \/ Clean(d, st) /\ (UNCHANGED left \/ Spend("snags"))
         \/ Spend("snags") /\ (Uncovered(d, st) \/ Unresearched(d, st) \/ OpenMarkers(d, st))
  BY <1>2 DEF st
<1>7. Rest'
  BY <1>6, RestStays, SnagSpent DEF Clean, Uncovered, Unresearched, OpenMarkers, Goes, Asks
<1>8. ASSUME NEW t \in Documents, Goes(d, t), t.ask = 0, t.cards = st.cards, ~ t.triage,
             t.coverage <= CoverageRounds, t.attacks = st.attacks, t.asked = st.asked,
             ~ t.contested, t.tier = st.tier, ~ Over(t),
             t.phase \in {"critique", "approval"} => ~ t.revise,
             Straight(t) + Rounds(t) + 1 <= Straight(Copy(d)) + Rounds(Copy(d))
      PROVE  IInv'
  <2>1. Sound(t) /\ Heard(t)
    BY <1>5, <1>8, <1>4 DEF Sound, Heard
  <2>2. Rank(t) + 1 <= Rank(Copy(d))
    BY <1>1, <1>3, <1>4, <1>8, <2>1, TurnHas, RankFalls
  <2> QED
    BY <1>1, <1>4, <1>7, <1>8, <2>1, <2>2, TurnHas, GoesKeeps
<1>9. CASE Clean(d, st)
  <2> DEFINE to == IF st.tier >= Standard /\ ~ st.critiqued THEN "critique" ELSE "approval"
             t  == [st EXCEPT !.phase = to]
  <2>0. to \in {"critique", "approval"}
    OBVIOUS
  <2>1. Goes(d, t)
    BY <1>9 DEF Clean
  <2> HIDE DEF to
  <2>2. /\ t \in Documents /\ t.ask = 0 /\ t.cards = st.cards /\ ~ t.triage
        /\ t.coverage = st.coverage /\ t.attacks = st.attacks /\ t.asked = st.asked
        /\ ~ t.contested /\ t.tier = st.tier /\ t.phase = to /\ ~ t.revise
        /\ t.bounced = st.bounced
    BY <1>4, <2>0 DEF Documents, Phase
  <2> HIDE DEF t
  <2>3. Straight(t) + Rounds(t) + 1 <= Straight(Copy(d)) + Rounds(Copy(d))
    BY <1>1, <1>4, <2>0, <2>2, TurnHas, Constants DEF Straight, Rounds, Sound, Documents
  <2> QED
    BY <1>5, <1>8, <2>0, <2>1, <2>2, <2>3 DEF Over, Sound
<1>10. CASE Uncovered(d, st) /\ st.coverage < CoverageRounds
  <2> DEFINE t == [st EXCEPT !.coverage = @ + 1, !.revise = TRUE]
  <2>1. Goes(d, t)
    BY <1>10 DEF Uncovered
  <2>0. st.coverage + 1 \in Nat
    BY <1>4 DEF Documents
  <2>2. /\ t \in Documents /\ t.ask = 0 /\ t.cards = st.cards /\ ~ t.triage
        /\ t.coverage = st.coverage + 1 /\ t.attacks = st.attacks /\ t.asked = st.asked
        /\ ~ t.contested /\ t.tier = st.tier /\ t.phase = "spine" /\ t.revise
        /\ t.bounced = st.bounced
    BY <1>4, <2>0 DEF Documents
  <2> HIDE DEF t
  <2>3. Straight(t) + Rounds(t) + 1 <= Straight(Copy(d)) + Rounds(Copy(d))
    BY <1>1, <1>4, <2>2, TurnHas, Constants DEF Straight, Rounds, Sound, Documents
  <2>4. t.coverage <= CoverageRounds
    BY <1>4, <1>10, <2>2, Constants DEF Documents
  <2> QED
    BY <1>8, <2>1, <2>2, <2>3, <2>4 DEF Over
<1>11. CASE Uncovered(d, st) /\ ~ st.coverage < CoverageRounds
  <2>1. Asks(d, st, "coverage") /\ KindFits("coverage", st) /\ "coverage" \in CardKind
    BY <1>11 DEF Uncovered, KindFits, CardKind
  <2> QED
    BY <1>1, <1>4, <1>5, <1>7, <2>1, TurnHas, AsksKeeps
<1>12. CASE Unresearched(d, st) /\ ~ st.bounced
  <2> DEFINE t == [st EXCEPT !.bounced = TRUE, !.revise = TRUE]
  <2>1. Goes(d, t)
    BY <1>12 DEF Unresearched
  <2>2. /\ t \in Documents /\ t.ask = 0 /\ t.cards = st.cards /\ ~ t.triage
        /\ t.coverage = st.coverage /\ t.attacks = st.attacks /\ t.asked = st.asked
        /\ ~ t.contested /\ t.tier = st.tier /\ t.phase = "spine" /\ t.revise /\ t.bounced
    BY <1>4 DEF Documents
  <2> HIDE DEF t
  <2>3. Straight(t) + Rounds(t) + 1 <= Straight(Copy(d)) + Rounds(Copy(d))
    BY <1>1, <1>4, <1>12, <2>2, TurnHas, Constants DEF Straight, Rounds, Sound, Documents
  <2> QED
    BY <1>5, <1>8, <2>1, <2>2, <2>3 DEF Over, Sound
<1>13. CASE Unresearched(d, st) /\ st.bounced
  <2>1. Asks(d, st, "research") /\ KindFits("research", st) /\ "research" \in CardKind
    BY <1>13 DEF Unresearched, KindFits, CardKind
  <2> QED
    BY <1>1, <1>4, <1>5, <1>7, <2>1, TurnHas, AsksKeeps
<1>14. CASE OpenMarkers(d, st)
  <2> DEFINE t == [st EXCEPT !.asked = @ + 1]
  <2>1. Asks(d, t, "clarification") /\ st.asked < 2
    BY <1>14 DEF OpenMarkers, clarificationRoundLimit
  <2>2. /\ t \in Documents /\ t.ask = 0 /\ t.cards = st.cards /\ t.phase = "spine"
        /\ t.coverage = st.coverage /\ t.attacks = st.attacks /\ t.asked = st.asked + 1
        /\ ~ t.contested
    BY <1>4 DEF Documents
  <2> HIDE DEF t
  <2>3. t.asked <= clarificationRoundLimit
    BY <1>4, <2>1, <2>2 DEF Documents, clarificationRoundLimit
  <2>4. Sound(t) /\ Heard(t) /\ ~ Over(t)
    BY <1>4, <1>5, <2>2, <2>3 DEF Sound, Heard, Over
  <2>5. KindFits("clarification", t) /\ "clarification" \in CardKind
    BY DEF KindFits, CardKind
  <2> QED
    BY <1>1, <1>4, <1>7, <2>1, <2>2, <2>4, <2>5, TurnHas, AsksKeeps
<1> QED
  BY <1>6, <1>9, <1>10, <1>11, <1>12, <1>13, <1>14

LEMMA CritiqueKeeps ==
    ASSUME IInv, NEW d \in Driver, Critique(d) PROVE IInv'
<1> DEFINE st == Copy(d)
<1>1. Turn(d, "critique")
  BY DEF Critique
<1>2. /\ st \in Documents /\ Sound(st) /\ Heard(st) /\ st.ask = 0 /\ ~ st.triage
      /\ st.phase = "critique" /\ ~ st.revise /\ ~ st.contested /\ st.tier \in Tiers
  BY <1>1, TurnHas DEF Sound, Heard
<1>3. ASSUME NEW t \in Documents, Goes(d, t), UNCHANGED left \/ Spend("snags"),
             t.ask = 0, t.cards = st.cards, ~ t.triage, t.coverage = st.coverage,
             t.attacks <= CritiqueRounds, t.asked = st.asked, ~ t.contested, ~ Over(t),
             t.phase \in {"critique", "approval"} => ~ t.revise,
             Rank(t) + 1 <= Rank(st)
      PROVE  IInv'
  <2>1. Sound(t) /\ Heard(t)
    BY <1>2, <1>3 DEF Sound, Heard
  <2>2. Rest'
    BY <1>3, RestStays, SnagSpent DEF Goes
  <2> QED
    BY <1>1, <1>3, <2>1, <2>2, TurnHas, GoesKeeps
<1>4. ASSUME NEW t \in Documents, Goes(d, t), UNCHANGED left \/ Spend("snags"),
             t.ask = 0, t.cards = st.cards, ~ t.triage, t.coverage = st.coverage,
             t.attacks = st.attacks, t.asked = st.asked, ~ t.contested,
             t.phase = "approval", ~ t.revise, t.tier = st.tier, t.bounced = st.bounced
      PROVE  IInv'
  <2>1. Sound(t) /\ ~ Over(t) /\ t.attacks <= CritiqueRounds
    BY <1>2, <1>4 DEF Sound, Over
  <2>2. Straight(t) + Rounds(t) + 1 <= Straight(st) + Rounds(st)
    BY <1>2, <1>4, Constants DEF Straight, Rounds, Documents
  <2>3. Rank(t) + 1 <= Rank(st)
    BY <1>1, <1>2, <1>4, <2>1, <2>2, TurnHas, RankFalls
  <2> QED
    BY <1>3, <1>4, <2>1, <2>3
<1>5. CASE Pass(d) /\ (UNCHANGED left \/ Spend("snags"))
  <2> DEFINE t == [st EXCEPT !.critiqued = TRUE, !.phase = "approval"]
  <2>1. Goes(d, t)
    BY <1>5 DEF Pass
  <2>2. /\ t \in Documents /\ t.ask = 0 /\ t.cards = st.cards /\ ~ t.triage
        /\ t.coverage = st.coverage /\ t.attacks = st.attacks /\ t.asked = st.asked
        /\ ~ t.contested /\ t.phase = "approval" /\ ~ t.revise /\ t.tier = st.tier
        /\ t.bounced = st.bounced
    BY <1>2 DEF Documents, Phase
  <2> HIDE DEF t
  <2> QED
    BY <1>4, <1>5, <2>1, <2>2
<1>6. CASE Goes(d, [st EXCEPT !.phase = "approval"]) /\ UNCHANGED left
  <2> DEFINE t == [st EXCEPT !.phase = "approval"]
  <2>1. Goes(d, t)
    BY <1>6
  <2>2. /\ t \in Documents /\ t.ask = 0 /\ t.cards = st.cards /\ ~ t.triage
        /\ t.coverage = st.coverage /\ t.attacks = st.attacks /\ t.asked = st.asked
        /\ ~ t.contested /\ t.phase = "approval" /\ ~ t.revise /\ t.tier = st.tier
        /\ t.bounced = st.bounced
    BY <1>2 DEF Documents, Phase
  <2> HIDE DEF t
  <2> QED
    BY <1>4, <1>6, <2>1, <2>2
<1>7. CASE /\ st.attacks < CritiqueRounds /\ Spend("snags")
           /\ Goes(d, [st EXCEPT !.attacks = @ + 1, !.revise = TRUE, !.phase = "spine"])
  <2> DEFINE t == [st EXCEPT !.attacks = @ + 1, !.revise = TRUE, !.phase = "spine"]
  <2>1. Goes(d, t) /\ st.attacks + 1 \in Nat /\ st.attacks + 1 <= CritiqueRounds
    BY <1>2, <1>7, Constants DEF Documents
  <2>2. /\ t \in Documents /\ t.ask = 0 /\ t.cards = st.cards /\ ~ t.triage
        /\ t.coverage = st.coverage /\ t.attacks = st.attacks + 1 /\ t.asked = st.asked
        /\ ~ t.contested /\ t.phase = "spine" /\ t.revise /\ t.tier = st.tier
        /\ t.bounced = st.bounced
    BY <1>2, <2>1 DEF Documents, Phase
  <2> HIDE DEF t
  <2>3. Sound(t) /\ ~ Over(t)
    BY <1>2, <2>1, <2>2 DEF Sound, Over
  <2>4. Straight(t) + Rounds(t) + 1 <= Straight(st) + Rounds(st)
    BY <1>2, <2>2, Constants DEF Straight, Rounds, Documents
  <2>5. Rank(t) + 1 <= Rank(st)
    BY <1>1, <1>2, <2>2, <2>3, <2>4, TurnHas, RankFalls
  <2> QED
    BY <1>3, <1>7, <2>1, <2>2, <2>3, <2>5
<1>8. CASE st.tier >= Standard /\ Spend("snags") /\ TierUp(d)
  <2>1. PICK tier \in Above(st.tier) :
          Goes(d, [st EXCEPT !.tier = tier, !.critiqued = FALSE, !.phase = "interview"])
    BY <1>8 DEF TierUp
  <2> DEFINE t == [st EXCEPT !.tier = tier, !.critiqued = FALSE, !.phase = "interview"]
  <2>2. tier \in Tiers /\ tier > st.tier /\ tier \in Nat /\ st.tier \in Nat
    BY <1>2, Constants DEF Above
  <2>3. /\ t \in Documents /\ t.ask = 0 /\ t.cards = st.cards /\ ~ t.triage
        /\ t.coverage = st.coverage /\ t.attacks = st.attacks /\ t.asked = st.asked
        /\ ~ t.contested /\ t.phase = "interview" /\ ~ t.revise /\ t.tier = tier
        /\ t.bounced = st.bounced
    BY <1>2, <2>2 DEF Documents, Phase
  <2>4. Goes(d, t)
    BY <2>1
  <2> HIDE DEF t
  <2>5. Sound(t) /\ ~ Over(t) /\ t.attacks <= CritiqueRounds
    BY <1>2, <2>3 DEF Sound, Over
  <2>6. /\ Cardinality(Higher(t.tier)) \in Nat /\ Cardinality(Higher(st.tier)) \in Nat
        /\ Cardinality(Higher(t.tier)) + 1 <= Cardinality(Higher(st.tier))
    <3>1. st.tier <= tier /\ st.tier < tier
      BY <2>2
    <3> QED
      BY <1>2, <1>8, <2>2, <2>3, <3>1, HigherFalls
  <2>7. Straight(t) = 3 /\ Straight(st) = 1
    BY <1>2, <2>3 DEF Straight
  <2>8. Rank(t) + 1 <= Rank(st)
    <3>1. /\ st.coverage \in Nat /\ st.attacks \in Nat
          /\ CoverageRounds \in Nat /\ CritiqueRounds \in Nat
      BY <1>2, Constants DEF Documents
    <3> QED
      BY <2>3, <2>6, <2>7, <3>1 DEF Rank
  <2> QED
    BY <1>3, <1>8, <2>3, <2>4, <2>5, <2>8
<1>9. CASE Spend("snags") /\ Asks(d, st, "doubt")
  <2>1. KindFits("doubt", st) /\ "doubt" \in CardKind
    BY <1>2 DEF KindFits, CardKind
  <2>2. Rest'
    BY <1>9, SnagSpent DEF Asks
  <2> QED
    BY <1>1, <1>9, <2>1, <2>2, PlainAsk
<1>10. CASE Escalates(d)
  BY <1>1, <1>10, EscalatesKeeps
<1>11. st.tier \in Nat
  BY <1>2, Constants
<1> HIDE DEF st
<1>12. \/ Pass(d) /\ (UNCHANGED left \/ Spend("snags"))
       \/ Goes(d, [st EXCEPT !.phase = "approval"]) /\ UNCHANGED left
       \/ /\ st.attacks < CritiqueRounds /\ Spend("snags")
          /\ Goes(d, [st EXCEPT !.attacks = @ + 1, !.revise = TRUE, !.phase = "spine"])
       \/ st.tier >= Standard /\ Spend("snags") /\ TierUp(d)
       \/ Spend("snags") /\ Asks(d, st, "doubt")
       \/ Escalates(d)
  BY <1>11 DEF Critique, ReviseVerdict, Standard, st
<1> QED
  BY <1>5, <1>6, <1>7, <1>8, <1>9, <1>10, <1>12

LEMMA ApprovalKeeps ==
    ASSUME IInv, NEW d \in Driver, AskApproval(d) \/ ApproveUngated(d) PROVE IInv'
<1>1. Turn(d, "approval")
  BY DEF AskApproval, ApproveUngated
<1>2. CASE AskApproval(d)
  <2>1. KindFits("approval", Copy(d)) /\ "approval" \in CardKind
    BY <1>1, TurnHas DEF KindFits, CardKind
  <2>2. Rest'
    BY <1>2, RestStays DEF AskApproval, Asks
  <2> QED
    BY <1>1, <1>2, <2>1, <2>2, PlainAsk DEF AskApproval
<1>3. CASE ApproveUngated(d)
  <2>1. Rest'
    BY <1>1, <1>3, TurnHas DEF ApproveUngated, IInv, Rest, Documents
  <2>2. Order' /\ Good(asks', doc') /\ Monotone
    BY <1>3, GatesStay DEF ApproveUngated
  <2>3. Places(Entry(d, "approve", Copy(d), drive[d].turns))
    BY <1>1, TurnHas, LoopHas, DriverShape DEF Places, Entry, Turn
  <2>4. drive' = [drive EXCEPT ![d] = Entry(d, "approve", Copy(d), drive[d].turns)]
    BY <1>3 DEF ApproveUngated, Goto, With
  <2>5. Good(asks', Copy(d)) /\ drive[d].turns \in 0..MaxTurns /\ ~ At(d, "idle")
    BY <1>1, <2>2, TurnHas, LoopHas DEF Monotone
  <2> QED
    BY <2>1, <2>2, <2>3, <2>4, <2>5, MoveKeeps DEF Points
<1> QED
  BY <1>2, <1>3

\* The tier is the classifier's, and no turn was driven before it.
LEMMA ClassifyKeeps ==
    ASSUME IInv, NEW d \in Driver, Classify(d) PROVE IInv'
<1>1. PICK tier \in left.tiers, known \in BOOLEAN :
        LET st == [Copy(d) EXCEPT !.triage = FALSE, !.tier = tier, !.family = @ \/ known]
        IN  AppendState(st) /\ With(d, "loop", st)
  BY DEF Classify
<1> DEFINE st == [Copy(d) EXCEPT !.triage = FALSE, !.tier = tier, !.family = @ \/ known]
<1>2. At(d, "loop") /\ drive[d].turns = 0 /\ Good(asks, Copy(d)) /\ Copy(d).ask = 0
      /\ ~ Over(Copy(d)) /\ ~ At(d, "idle") /\ tier \in Tiers
  BY LoopHas DEF Classify, IInv, Rest
<1>3. (Copy(d).family \/ known) \in BOOLEAN
  OBVIOUS
<1>4. /\ st \in Documents /\ st.ask = 0 /\ st.cards = Copy(d).cards /\ ~ st.triage
      /\ st.phase = Copy(d).phase /\ st.revise = Copy(d).revise
      /\ st.contested = Copy(d).contested /\ st.coverage = Copy(d).coverage
      /\ st.attacks = Copy(d).attacks /\ st.asked = Copy(d).asked
  BY <1>2, <1>3 DEF Good, Sound, Documents
<1>5. AppendState(st) /\ With(d, "loop", st)
  BY <1>1
<1> HIDE DEF st
<1>6. Sound(st) /\ Heard(st) /\ ~ Over(st)
  BY <1>2, <1>4 DEF Good, Sound, Heard, Over
<1>7. Good(asks, st)
  BY <1>2, <1>4, <1>6, EditedIsGood
<1>8. Order' /\ Good(asks', doc') /\ Monotone /\ Good(asks', st)
  BY <1>5, <1>7, OrderStays DEF AppendState, Monotone, IInv
<1>9. Places(Entry(d, "loop", st, 0))
  BY <1>4, <1>6, RankIsPaid DEF Places, Entry
<1>10. drive' = [drive EXCEPT ![d] = Entry(d, "loop", st, 0)] /\ 0 \in 0..MaxTurns
  BY <1>2, <1>5 DEF With, MaxTurns
<1>11. Rest'
  BY RestStays DEF Classify
<1> QED
  BY <1>2, <1>8, <1>9, <1>10, <1>11, MoveKeeps DEF Points

LEMMA PhasesKeep ==
    ASSUME IInv, NEW d \in Driver, Phases(d) PROVE IInv'
BY ClassifyKeeps, InterviewKeeps, DraftKeeps, ReviseKeeps, SpineKeeps, CritiqueKeeps,
   ApprovalKeeps
DEF Phases

-----------------------------------------------------------------------------
(* The entry of a drive, its end and its errors.                            *)

LEMMA AdvanceKeeps ==
    ASSUME IInv, NEW d \in Driver, Advance(d) PROVE IInv'
<1>1. /\ At(d, "advance") /\ ~ At(d, "idle") /\ drive[d].turns = 0
      /\ Good(asks, Copy(d)) /\ drive[d].turns \in 0..MaxTurns
  BY DriverShape DEF Advance, At, Places
<1>2. Order' /\ Good(asks', doc') /\ Monotone /\ Rest'
  BY GatesStay, RestStays DEF Advance
<1>3. CASE Goto(d, "after") \/ Goto(d, "fail")
  BY <1>1, <1>2, <1>3, LeaveKeeps
<1>4. CASE Ends(d)
  BY <1>2, <1>4, EndKeeps
<1>5. CASE Goto(d, "loop") /\ ~ Over(Copy(d)) /\ Copy(d).ask = 0
  <2>1. Places(Entry(d, "loop", Copy(d), drive[d].turns))
    BY <1>1, <1>5, RankIsPaid DEF Places, Entry, Good
  <2> QED
    BY <1>1, <1>2, <1>5, <2>1, MoveKeeps DEF Goto, With, Points, Monotone
<1> QED
  BY <1>3, <1>4, <1>5 DEF Advance

LEMMA StepFailsKeeps ==
    ASSUME IInv, NEW d \in Driver, StepFails(d) PROVE IInv'
<1>1. Order' /\ Good(asks', doc') /\ Monotone /\ Rest'
  BY GatesStay, SpendKeeps DEF StepFails
<1> QED
  BY <1>1, LeaveKeeps DEF StepFails, At

LEMMA ApproveClosesKeeps ==
    ASSUME IInv, NEW d \in Driver, ApproveCloses(d) PROVE IInv'
<1> DEFINE st == [Copy(d) EXCEPT !.phase = "approved", !.ask = 0]
           k  == Copy(d).ask
<1>1. /\ At(d, "approve") /\ ~ At(d, "idle") /\ Good(asks, Copy(d))
      /\ Copy(d).phase = "approval" /\ Places(drive[d]) /\ drive[d].turns \in 0..MaxTurns
      /\ Rest'
  BY DriverShape, RestStays DEF ApproveCloses, At, Places, Copy
<1>2. /\ st \in Documents /\ st.ask = 0 /\ st.phase = "approved" /\ ~ st.contested
      /\ st.cards = Copy(d).cards /\ st.coverage = Copy(d).coverage
      /\ st.attacks = Copy(d).attacks /\ st.asked = Copy(d).asked
      /\ [st EXCEPT !.ask = 0] = st
  <2>1. /\ Copy(d) \in Documents /\ ~ Copy(d).contested
    BY <1>1 DEF Good, Sound, Heard
  <2>2. /\ st \in Documents /\ st.ask = 0 /\ st.phase = "approved"
        /\ st.contested = Copy(d).contested
        /\ st.cards = Copy(d).cards /\ st.coverage = Copy(d).coverage
        /\ st.attacks = Copy(d).attacks /\ st.asked = Copy(d).asked
    <3>1. 0 \in 0..MaxCards /\ "approved" \in Phase
      BY Constants DEF Phase
    <3>2. [Copy(d) EXCEPT !.phase = "approved"] \in Documents
      BY <2>1, <3>1 DEF Documents
    <3> QED
      BY <2>1, <3>1, <3>2 DEF Documents
  <2> HIDE DEF st
  <2>3. [st EXCEPT !.ask = 0] = st
    BY <2>2 DEF Documents
  <2> QED
    BY <2>1, <2>2, <2>3
<1>3. IF k = 0 \/ CanClose(k)
        THEN /\ IF k = 0 THEN AppendState(st) ELSE Close(k, "approved", st)
             /\ With(d, "after", st)
        ELSE Goto(d, "fail") /\ UNCHANGED gates
  BY DEF ApproveCloses
<1> HIDE DEF st
<1>4. Sound(st) /\ Heard(st) /\ Counted(asks, st) /\ Good(asks, st)
  <2>1. Sound(st)
    BY <1>1, <1>2 DEF Good, Sound, Documents
  <2> QED
    BY <1>1, <1>2, <2>1 DEF Good, Heard, Counted, Unpassed, Matched
<1>5. ASSUME Order', Good(asks', doc'), Monotone, With(d, "after", st) PROVE IInv'
  <2>1. Good(asks', st) /\ Places(Entry(d, "after", st, drive[d].turns))
    BY <1>1, <1>4, <1>5 DEF Monotone, Places, Entry
  <2> QED
    BY <1>1, <1>5, <2>1, MoveKeeps DEF With, Points
<1>6. CASE k = 0
  <2>1. Order' /\ Good(asks', doc') /\ Monotone
    BY <1>3, <1>4, <1>6, OrderStays DEF IInv, AppendState, Monotone
  <2> QED
    BY <1>3, <1>5, <1>6, <2>1
<1>7. CASE k # 0 /\ CanClose(k)
  <2>1. Close(k, "approved", st) /\ k \in Card
    BY <1>3, <1>7 DEF CanClose, Waiting
  <2>2. Order' /\ Good(asks', doc') /\ Monotone
    BY <1>2, <1>4, <2>1, CloseKeeps DEF IInv, Monotone
  <2> QED
    BY <1>3, <1>5, <1>7, <2>2
<1>8. CASE k # 0 /\ ~ CanClose(k)
  BY <1>1, <1>3, <1>8, GatesStay, LeaveKeeps
<1> QED
  BY <1>6, <1>7, <1>8

\* The run of a document, or of a leg, leaves "running".
LEMMA RunningEnds ==
    ASSUME IInv, NEW n \in Lineage, NEW s \in {"completed", "crashed"},
           runs' = IF runs[n] = "running" THEN [runs EXCEPT ![n] = s] ELSE runs,
           UNCHANGED <<doc, asks, pins, exec, left>>
    PROVE  Order' /\ Good(asks', doc') /\ Monotone /\ Rest'
<1>1. Order'
  <2>1. CASE runs[n] = "running"
    <3>1. runs' = [runs EXCEPT ![n] = s] /\ s \in RunStates \ {"absent"}
      BY <2>1 DEF RunStates
    <3> QED
      BY <2>1, <3>1, RunMoves DEF IInv
  <2>2. CASE runs[n] # "running"
    BY <2>2, OrderStays DEF IInv
  <2> QED
    BY <2>1, <2>2
<1> QED
  BY <1>1, RestStays DEF IInv, Monotone

LEMMA AfterIntakeKeeps ==
    ASSUME IInv, NEW d \in Driver, AfterIntake(d) PROVE IInv'
<1>1. At(d, "after") /\ ~ At(d, "idle") /\ Copy(d).run \in Lineage
  BY DriverShape DEF AfterIntake, At, Good, Sound, Documents
<1>2. CASE Copy(d).phase = "approved"
  BY <1>1, <1>2, RunningEnds, LeaveKeeps DEF AfterIntake
<1>3. CASE Copy(d).phase # "approved"
  BY <1>3, GatesStay, RestStays, EndKeeps DEF AfterIntake, gates
<1> QED
  BY <1>2, <1>3

LEMMA LaunchKeeps ==
    ASSUME IInv, NEW d \in Driver, Launch(d) PROVE IInv'
<1>1. Rest'
  BY DEF IInv, Rest, Launch
<1> QED
  BY <1>1, GatesStay, EndKeeps, LeaveKeeps DEF Launch, At

LEMMA DriveFailsKeeps ==
    ASSUME IInv, NEW d \in Driver, DriveFails(d) PROVE IInv'
<1>1. drive[d].on \in Lineage
  BY DriverShape DEF DriveFails, At
<1> QED
  BY <1>1, RunningEnds, EndKeeps DEF DriveFails

LEMMA DriveKeeps ==
    ASSUME IInv, NEW d \in Driver, Drive(d) PROVE IInv'
BY AdvanceKeeps, PhasesKeep, StepFailsKeeps, ApproveClosesKeeps, AfterIntakeKeeps,
   LaunchKeeps, DriveFailsKeeps
DEF Drive

-----------------------------------------------------------------------------
(* The dispatch leg.                                                        *)

\* A driver begins with the document as it is stored.
LEMMA BeginsKeeps ==
    ASSUME IInv, Order', UNCHANGED <<doc, asks>>, Rest', NEW d \in Driver,
           NEW pc \in {"bind", "advance", "read"}, NEW on \in Lineage,
           NEW k \in 0..MaxCards, Begins(d, pc, on, k)
    PROVE  IInv'
<1> DEFINE e == [at |-> pc, st |-> doc, on |-> on, card |-> k, turns |-> 0]
<1>1. Sound(doc) /\ Good(asks, doc)
  BY DEF IInv, Good
<1>2. e \in DriveStates /\ e # Idle
  BY <1>1 DEF DriveStates, Sound, MaxTurns, Idle
<1>3. Places(e)
  BY <1>1, RankIsPaid DEF Places
<1>4. Driven(asks', e)
  BY <1>1, <1>2, <1>3 DEF Driven
<1>5. drive' = [drive EXCEPT ![d] = e]
  BY DEF Begins
<1> HIDE DEF e
<1> QED
  BY <1>1, <1>4, <1>5, OthersKeep DEF Monotone

LEMMA DispatchKeeps ==
    ASSUME IInv, NEW n \in Lineage, Dispatch(n) PROVE IInv'
<1>1. Order' /\ Rest'
  BY RunMoves, RestStays DEF Dispatch, IInv, RunStates
<1>2. n \in Driver /\ 0 \in 0..MaxCards
  BY Constants DEF Driver
<1> DEFINE pc == IF doc.run = n THEN "advance" ELSE "bind"
<1>3. Begins(n, pc, n, 0) /\ pc \in {"bind", "advance", "read"} /\ UNCHANGED <<doc, asks>>
  BY DEF Dispatch
<1> HIDE DEF pc
<1> QED
  BY <1>1, <1>2, <1>3, BeginsKeeps

LEMMA BindRunKeeps ==
    ASSUME IInv, NEW n \in Lineage, BindRun(n) PROVE IInv'
<1>1. /\ n \in Driver /\ ~ At(n, "idle") /\ Good(asks, Copy(n)) /\ drive[n].turns = 0
      /\ drive[n].turns \in 0..MaxTurns /\ Places(drive[n]) /\ Rest'
  BY DriverShape, RestStays DEF BindRun, At, Places, Driver
<1>2. CASE CanRebind(Copy(n), n)
  <2> DEFINE st == [Copy(n) EXCEPT !.run = n]
  <2>1. Rebind(Copy(n), n)
    BY <1>2 DEF BindRun
  <2>2. Order' /\ asks' = asks /\ doc' = st /\ Good(asks, st)
    BY <1>1, <1>2, <2>1, RebindKeeps DEF IInv
  <2>3. CASE Ends(n)
    BY <1>1, <2>2, <2>3, EndKeeps DEF Monotone
  <2>4. CASE With(n, "advance", st)
    <3> HIDE DEF st
    <3>1. Places(Entry(n, "advance", st, drive[n].turns))
      BY <1>1 DEF Places, Entry
    <3> QED
      BY <1>1, <2>2, <2>4, <3>1, MoveKeeps DEF With, Points, Monotone
  <2> QED
    BY <1>2, <2>3, <2>4 DEF BindRun
<1>3. CASE ~ CanRebind(Copy(n), n)
  BY <1>1, <1>3, GatesStay, LeaveKeeps DEF BindRun
<1> QED
  BY <1>2, <1>3

-----------------------------------------------------------------------------
(* People.                                                                  *)

\* What an answer makes of the document it answers: the phase and the flags
\* move, the rounds and the cards do not.
LEMMA AnsweredIsSound ==
    ASSUME NEW s, Sound(s), Heard(s), NEW kind \in CardKind, KindFits(kind, s),
           NEW st \in Answers(s, kind)
    PROVE  Sound(st) /\ Heard(st) /\ st.cards = s.cards
<1> DEFINE Kept(t) ==
      /\ t \in Documents /\ t.cards = s.cards /\ t.ask = s.ask
      /\ t.coverage = s.coverage /\ t.attacks = s.attacks /\ t.asked = s.asked
      /\ t.phase \in {"critique", "approval"} => ~ t.revise
      /\ Heard(t)
<1>1. s \in Documents /\ Kept(s)
  BY DEF Sound
<1>2. Kept(Revising(s))
  BY <1>1 DEF Revising, Documents, Phase, Heard
<1>3. Kept([Revising(s) EXCEPT !.contested = TRUE])
  BY <1>1 DEF Revising, Documents, Phase, Heard
<1>4. Kept(Cancelled(s))
  BY <1>1 DEF Cancelled, Documents, Phase, Heard
<1>5. ASSUME NEW tier \in Tiers PROVE Kept([s EXCEPT !.family = TRUE, !.tier = tier])
  BY <1>1, <1>5 DEF Documents, Heard
<1>6. ASSUME kind \in {"doubt", "approval"}
      PROVE  Kept(Reviewed(s)) /\ Kept([Reviewed(s) EXCEPT !.critiqued = FALSE])
  <2>1. ~ s.contested
    BY <1>6 DEF KindFits, Heard
  <2> QED
    BY <1>1, <2>1 DEF Reviewed, Documents, Phase, Heard
<1>7. ASSUME kind = "doubt" PROVE Kept([s EXCEPT !.critiqued = TRUE, !.phase = "approval"])
  <2>1. ~ s.contested /\ ~ s.revise
    BY <1>7 DEF KindFits, Heard, Sound
  <2> QED
    BY <1>1, <2>1 DEF Documents, Phase, Heard
<1> HIDE DEF Kept
<1>8. Kept(st)
  <2>1. CASE kind \in {"interview", "clarification", "escalation", "coverage", "research", "emission"}
    BY <1>1, <1>2, <1>4, <2>1
    DEF Answers, Interviewed, Clarified, Gap, Researched, Retried
  <2>2. CASE kind = "family"
    BY <1>5, <2>2 DEF Answers, Named
  <2>3. CASE kind = "doubt"
    BY <1>4, <1>6, <1>7, <2>3 DEF Answers, Doubted
  <2>4. CASE kind = "approval"
    BY <1>3, <1>4, <1>6, <2>4 DEF Answers, Contested
  <2> QED
    BY <2>1, <2>2, <2>3, <2>4 DEF CardKind
<1> QED
  BY <1>8 DEF Kept, Sound

LEMMA AnswerReadKeeps ==
    ASSUME IInv, NEW r \in Request, NEW k \in Card, AnswerRead(r, k) PROVE IInv'
<1>1. asks[k].run \in Lineage /\ k \in 0..MaxCards /\ r \in Driver
  BY Constants DEF AnswerRead, Waiting, IInv, Order, Tables, Asked, NoAsk, Card, Driver
<1>2. Order' /\ Rest' /\ UNCHANGED <<doc, asks>>
  BY GatesStay, SpendKeeps DEF AnswerRead, Requests, gates
<1>3. Begins(r, "read", asks[k].run, k)
  BY DEF AnswerRead
<1> QED
  BY <1>1, <1>2, <1>3, BeginsKeeps

LEMMA NudgeKeeps ==
    ASSUME IInv, NEW r \in Request, Nudge(r) PROVE IInv'
<1>1. doc.run \in Lineage /\ 0 \in 0..MaxCards /\ r \in Driver
  BY Constants DEF IInv, Good, Sound, Documents, Driver
<1>2. Order' /\ Rest' /\ UNCHANGED <<doc, asks>>
  BY GatesStay, SpendKeeps DEF Nudge, Requests, gates
<1>3. Begins(r, "advance", doc.run, 0)
  BY DEF Nudge
<1> QED
  BY <1>1, <1>2, <1>3, BeginsKeeps

LEMMA AnswerLoadKeeps ==
    ASSUME IInv, NEW r \in Request, AnswerLoad(r) PROVE IInv'
<1>1. /\ r \in Driver /\ ~ At(r, "idle") /\ Places(drive[r]) /\ drive[r].turns = 0
      /\ drive[r].turns \in 0..MaxTurns
  BY DriverShape DEF AnswerLoad, At, Places, Driver
<1>2. Order' /\ Good(asks', doc') /\ Monotone /\ Rest' /\ doc' = doc /\ asks' = asks
  BY GatesStay, RestStays DEF AnswerLoad, gates
<1>3. CASE Waiting(drive[r].card) /\ doc.ask = drive[r].card /\ With(r, "answer", doc)
  <2>1. Places(Entry(r, "answer", doc, drive[r].turns))
    BY <1>1, <1>3 DEF Places, Entry, Waiting
  <2> QED
    BY <1>1, <1>2, <1>3, <2>1, MoveKeeps DEF With, Points
<1>4. CASE Goto(r, "fail")
  BY <1>1, <1>2, <1>4, LeaveKeeps
<1> QED
  BY <1>3, <1>4 DEF AnswerLoad

\* A request with its answer in hand.
LEMMA AnswerHas ==
    ASSUME IInv, NEW r \in Request, At(r, "answer")
    PROVE  /\ r \in Driver /\ ~ At(r, "idle") /\ Good(asks, Copy(r)) /\ Places(drive[r])
           /\ drive[r].card \in Card /\ Copy(r).ask = drive[r].card
           /\ drive[r].turns = 0 /\ drive[r].turns \in 0..MaxTurns
BY DriverShape DEF At, Places, Copy, Driver

LEMMA AnswerClosesKeeps ==
    ASSUME IInv, NEW r \in Request, AnswerCloses(r) PROVE IInv'
<1> DEFINE k == drive[r].card
<1>1. /\ r \in Driver /\ ~ At(r, "idle") /\ Good(asks, Copy(r)) /\ Places(drive[r])
      /\ k \in Card /\ Copy(r).ask = k /\ drive[r].turns \in 0..MaxTurns /\ drive[r].turns = 0
      /\ Rest'
  BY AnswerHas, RestStays DEF AnswerCloses
<1>2. CASE ~ CanClose(k)
  BY <1>1, <1>2, GatesStay, LeaveKeeps DEF AnswerCloses
<1>3. CASE CanClose(k)
  <2>1. PICK st \in Answers(Copy(r), asks[k].kind) :
          /\ Close(k, "answered", st)
          /\ With(r, IF Over(st) THEN "after" ELSE "advance", [st EXCEPT !.ask = 0])
    BY <1>3 DEF AnswerCloses
  <2>2. asks[k].kind \in CardKind /\ KindFits(asks[k].kind, Copy(r))
    <3>1. asks[k] \in Asked
      BY <1>1, <1>3 DEF CanClose, Waiting, IInv, Order, Tables, NoAsk
    <3> QED
      BY <1>1, <3>1, Constants DEF Asked, Good, Matched
  <2>3. Sound(st) /\ Heard(st) /\ st.cards = Copy(r).cards
    BY <1>1, <2>1, <2>2, AnsweredIsSound DEF Good
  <2>4. Counted(asks, st)
    BY <1>1, <2>3 DEF Good, Counted
  <2>5. Order' /\ Good(asks', doc') /\ Monotone
    BY <1>1, <2>1, <2>3, <2>4, CloseKeeps DEF IInv, Monotone
  <2> DEFINE pc == IF Over(st) THEN "after" ELSE "advance"
             t  == [st EXCEPT !.ask = 0]
  <2>6. doc' = t /\ pc \in Points /\ pc \in {"after", "advance"} /\ With(r, pc, t)
    BY <2>1 DEF Close, Points
  <2> HIDE DEF pc, t
  <2>7. Places(Entry(r, pc, t, drive[r].turns))
    BY <1>1, <2>6 DEF Places, Entry
  <2> QED
    BY <1>1, <2>5, <2>6, <2>7, MoveKeeps DEF With
<1> QED
  BY <1>2, <1>3

LEMMA AnswerLeavesKeeps ==
    ASSUME IInv, NEW r \in Request, AnswerRefused(r) \/ ApprovePins(r) \/ Compose(r)
    PROVE  IInv'
<1>1. /\ r \in Driver /\ ~ At(r, "idle") /\ Good(asks, Copy(r)) /\ Places(drive[r])
      /\ drive[r].card \in Card /\ Copy(r).ask = drive[r].card
      /\ drive[r].turns \in 0..MaxTurns
  BY AnswerHas DEF AnswerRefused, ApprovePins, Compose
<1>2. CASE AnswerRefused(r)
  BY <1>1, <1>2, GatesStay, RestStays, LeaveKeeps DEF AnswerRefused
<1>3. CASE ApprovePins(r)
  <2>1. Copy(r).phase = "approval"
    BY <1>1, <1>3, Constants DEF ApprovePins, Good, Matched, KindFits
  <2>2. Rest'
    BY <1>1, <1>3 DEF ApprovePins, IInv, Rest, Card
  <2>3. Order' /\ Good(asks', doc') /\ Monotone
    BY <1>3, GatesStay DEF ApprovePins
  <2>4. Places(Entry(r, "approve", Copy(r), drive[r].turns))
    BY <1>1, <2>1 DEF Places, Entry
  <2> QED
    BY <1>1, <1>3, <2>2, <2>3, <2>4, MoveKeeps DEF ApprovePins, Goto, With, Points, Monotone
<1>4. CASE Compose(r)
  <2>1. Order' /\ Good(asks', doc') /\ Monotone /\ Rest'
    BY <1>1, <1>4, OrderStays, RestStays DEF Compose, AppendState, IInv, Monotone
  <2> QED
    BY <1>1, <1>4, <2>1, EndKeeps DEF Compose
<1> QED
  BY <1>2, <1>3, <1>4

\* Another tier is not another document.
LEMMA TierIsFree ==
    ASSUME NEW a, NEW s, Good(a, s), NEW tier \in Tiers
    PROVE  Good(a, [s EXCEPT !.tier = tier])
<1> DEFINE t == [s EXCEPT !.tier = tier]
<1>1. s \in Documents
  BY DEF Good, Sound
<1>2. /\ t \in Documents /\ t.coverage = s.coverage /\ t.attacks = s.attacks
      /\ t.asked = s.asked /\ t.ask = s.ask /\ t.cards = s.cards /\ t.phase = s.phase
      /\ t.revise = s.revise /\ t.contested = s.contested
  BY <1>1 DEF Documents
<1> HIDE DEF t
<1> QED
  BY <1>2 DEF Good, Sound, Heard, Counted, Unpassed, Matched, KindFits, t

LEMMA LowerTierKeeps ==
    ASSUME IInv, NEW r \in Request, LowerTierLoad(r) \/ LowerTierAppend(r) PROVE IInv'
<1>1. CASE LowerTierLoad(r)
  <2>1. /\ r \in Driver /\ ~ At(r, "idle") /\ Places(drive[r]) /\ drive[r].turns = 0
        /\ drive[r].turns \in 0..MaxTurns
    BY <1>1, AnswerHas DEF LowerTierLoad
  <2>2. Order' /\ Good(asks', doc') /\ Monotone /\ Rest' /\ doc' = doc /\ asks' = asks
    BY <1>1, GatesStay, RestStays DEF LowerTierLoad, gates
  <2>3. CASE Over(doc)
    BY <1>1, <2>1, <2>2, <2>3, LeaveKeeps DEF LowerTierLoad
  <2>4. CASE ~ Over(doc)
    <3>1. PICK tier \in Tiers : With(r, "lower", [doc EXCEPT !.tier = tier])
      BY <1>1, <2>4 DEF LowerTierLoad
    <3> DEFINE st == [doc EXCEPT !.tier = tier]
    <3>2. Good(asks, st)
      BY TierIsFree DEF IInv
    <3>3. With(r, "lower", st)
      BY <3>1
    <3> HIDE DEF st
    <3>4. Places(Entry(r, "lower", st, drive[r].turns))
      BY <2>1 DEF Places, Entry
    <3> QED
      BY <2>1, <2>2, <3>2, <3>3, <3>4, MoveKeeps DEF With, Points
  <2> QED
    BY <2>3, <2>4
<1>2. CASE LowerTierAppend(r)
  <2>1. r \in Driver /\ ~ At(r, "idle") /\ Good(asks, Copy(r))
    BY <1>2, DriverShape DEF LowerTierAppend, At, Driver
  <2>2. Order' /\ Good(asks', doc') /\ Monotone /\ Rest'
    BY <1>2, <2>1, OrderStays, RestStays DEF LowerTierAppend, AppendState, IInv, Monotone
  <2> QED
    BY <1>2, <2>1, <2>2, EndKeeps, LeaveKeeps DEF LowerTierAppend
<1> QED
  BY <1>1, <1>2

LEMMA PersonKeeps ==
    ASSUME IInv, NEW r \in Request, Person(r) PROVE IInv'
BY AnswerReadKeeps, NudgeKeeps, AnswerLoadKeeps, AnswerClosesKeeps, AnswerLeavesKeeps,
   LowerTierKeeps
DEF Person

-----------------------------------------------------------------------------
(* Death and the ladder.                                                    *)

LEMMA DriversStay ==
    ASSUME IInv, Order', Good(asks', doc'), Monotone, Rest', UNCHANGED drive
    PROVE  IInv'
<1>1. \A d \in Driver : Driven(asks, drive[d]) => Driven(asks', drive[d])
  BY DEF Monotone, Driven
<1> QED
  BY <1>1 DEF IInv, Driving

LEMMA NewestIs ==
    ASSUME IInv
    PROVE  /\ Newest \in Lineage /\ runs[Newest] # "absent"
           /\ \A m \in Lineage : /\ m > Newest => runs[m] = "absent"
                                 /\ m < Newest => runs[m] = "tombstoned"
<1>1. PICK n \in Lineage : /\ runs[n] # "absent"
                           /\ \A m \in Lineage : /\ m > n => runs[m] = "absent"
                                                 /\ m < n => runs[m] = "tombstoned"
  BY DEF IInv, Order, OneAlive
<1>2. /\ Newest \in Lineage /\ runs[Newest] # "absent"
      /\ \A m \in Lineage : m > Newest => runs[m] = "absent"
  BY <1>1 DEF Newest
<1>3. Newest = n
  <2>1. ~ n > Newest /\ ~ Newest > n
    BY <1>1, <1>2
  <2> QED
    BY <1>1, <1>2, <2>1, Constants
<1> QED
  BY <1>1, <1>3

LEMMA ExecuteStartsKeeps ==
    ASSUME IInv, ExecuteStarts PROVE IInv'
<1>1. Rest'
  BY DEF IInv, Rest, ExecuteStarts
<1> QED
  BY <1>1, GatesStay, DriversStay DEF ExecuteStarts

LEMMA ProcessDiesKeeps ==
    ASSUME IInv, ProcessDies PROVE IInv'
<1>1. Rest'
  BY SpendKeeps DEF ProcessDies
<1>2. Order' /\ Good(asks', doc')
  BY GatesStay DEF ProcessDies
<1>3. Driving'
  BY DEF ProcessDies, Driving, Driven
<1> QED
  BY <1>1, <1>2, <1>3 DEF IInv

LEMMA ReapKeeps ==
    ASSUME IInv, Reap PROVE IInv'
<1>1. /\ Newest \in Lineage /\ runs[Newest] = "running"
      /\ runs' = [runs EXCEPT ![Newest] = "crashed"] /\ "crashed" \in RunStates \ {"absent"}
  BY NewestIs DEF Reap, RunStates
<1> DEFINE n == Newest
<1>2. n \in Lineage /\ runs[n] = "running" /\ runs' = [runs EXCEPT ![n] = "crashed"]
  BY <1>1
<1> HIDE DEF n
<1>3. Order'
  BY <1>1, <1>2, RunMoves DEF IInv, Reap
<1> QED
  BY <1>3, RestStays, DriversStay DEF Reap, IInv, Monotone

\* The successor is the next of the lineage, if the budget has one.
LEMMA ForkKeeps ==
    ASSUME IInv, Fork PROVE IInv'
<1> DEFINE n == Newest
<1>1. /\ n \in Lineage /\ runs[n] = "crashed"
      /\ \A m \in Lineage : /\ m > n => runs[m] = "absent"
                            /\ m < n => runs[m] = "tombstoned"
      /\ runs' = [m \in Lineage |-> IF m = n THEN "tombstoned"
                                    ELSE IF m = n + 1 THEN "queued" ELSE runs[m]]
  BY NewestIs DEF Fork
<1> HIDE DEF n
<1>2. n \in Nat /\ \A m \in Lineage : m \in Nat
  BY <1>1, Constants
<1>3. runs' \in [Lineage -> RunStates]
  BY <1>1 DEF IInv, Order, Tables, RunStates
<1>4. OneAlive'
  <2>1. CASE n + 1 \in Lineage
    <3>1. runs'[n + 1] # "absent"
      BY <1>1, <1>2, <2>1
    <3>2. ASSUME NEW m \in Lineage
          PROVE  /\ m > n + 1 => runs'[m] = "absent"
                 /\ m < n + 1 => runs'[m] = "tombstoned"
      BY <1>1, <1>2
    <3> QED
      BY <2>1, <3>1, <3>2 DEF OneAlive
  <2>2. CASE n + 1 \notin Lineage
    <3>1. runs'[n] # "absent"
      BY <1>1
    <3>2. ASSUME NEW m \in Lineage
          PROVE  /\ m > n => runs'[m] = "absent"
                 /\ m < n => runs'[m] = "tombstoned"
      <4>1. m # n + 1
        BY <2>2
      <4> QED
        BY <1>1, <1>2, <4>1
    <3> QED
      BY <1>1, <3>1, <3>2 DEF OneAlive
  <2> QED
    BY <2>1, <2>2
<1>5. asks' = asks /\ doc' = doc /\ UNCHANGED <<drive, pins, exec, left>>
  BY DEF Fork
<1>6. GatesWait'
  <2>1. ASSUME NEW k \in Card, Waiting(k) PROVE runs'[asks[k].run] = "parked"
    <3>1. asks[k].run \in Lineage /\ runs[asks[k].run] = "parked"
      BY <2>1 DEF IInv, Order, GatesWait, Waiting, Tables, Asked, NoAsk
    <3>2. asks[k].run # n /\ asks[k].run # n + 1
      BY <1>1, <1>2, <3>1
    <3> QED
      BY <1>1, <3>1, <3>2
  <2> QED
    BY <1>5, <2>1 DEF GatesWait, Waiting, IInv, Order
<1>7. Order'
  BY <1>3, <1>4, <1>5, <1>6 DEF IInv, Order, Tables, InOrder, ApprovalIsFinal
<1> QED
  BY <1>5, <1>7, RestStays, DriversStay DEF IInv, Monotone

-----------------------------------------------------------------------------
(* The invariant, and what it gives.                                        *)

LEMMA InitHolds == Init => IInv
<1> SUFFICES ASSUME Init PROVE IInv
  OBVIOUS
<1> USE Constants
<1>1. 1 \in Lineage /\ 0 \in 0..MaxCards /\ High \in Tiers
  BY DEF Lineage
<1>2. PICK known \in BOOLEAN :
        doc = [phase |-> "interview", run |-> 1, ask |-> 0, cards |-> 0,
               draft |-> TRUE, revise |-> FALSE, contested |-> FALSE,
               coverage |-> 0, attacks |-> 0, asked |-> 0, bounced |-> FALSE,
               critiqued |-> FALSE, reinterview |-> FALSE,
               tier |-> High, triage |-> TRUE, family |-> known]
  BY DEF Init, GatesInit
<1>3. asks = [k \in Card |-> NoAsk]
      /\ runs = [n \in Lineage |-> IF n = 1 THEN "queued" ELSE "absent"]
  BY DEF Init, GatesInit
<1>4. Order
  <2>1. Tables
    BY <1>3 DEF Tables, RunStates
  <2>2. OneAlive
    BY <1>1, <1>3 DEF OneAlive
  <2>3. InOrder /\ GatesWait /\ ApprovalIsFinal
    BY <1>3 DEF InOrder, GatesWait, ApprovalIsFinal, Waiting, NoAsk
  <2> QED
    BY <2>1, <2>2, <2>3 DEF Order
<1>5. Good(asks, doc)
  <2>1. doc \in Documents
    BY <1>1, <1>2 DEF Documents, Phase
  <2>2. Sound(doc) /\ Heard(doc)
    BY <1>2, <2>1 DEF Sound, Heard, clarificationRoundLimit
  <2>3. Counted(asks, doc) /\ Unpassed(asks, doc) /\ Matched(asks, doc)
    BY <1>2, <1>3 DEF Counted, Unpassed, Matched, NoAsk
  <2> QED
    BY <2>2, <2>3 DEF Good
<1>6. Driving
  BY DEF Init, Driving, Driven
<1>7. Rest
  <2>1. left \in [requests : Nat, faults : Nat, snags : Nat, tiers : SUBSET Tiers]
    BY RoundsAssumption DEF Init, RoundsAssumption
  <2> QED
    BY <1>1, <2>1 DEF Init, Rest
<1> QED
  BY <1>4, <1>5, <1>6, <1>7 DEF IInv

LEMMA StepHolds == IInv /\ [Next]_vars => IInv'
<1> SUFFICES ASSUME IInv, [Next]_vars PROVE IInv'
  OBVIOUS
<1>1. CASE UNCHANGED vars
  BY <1>1, GatesStay, RestStays, DriversStay DEF vars, gates
<1>2. CASE \E n \in Lineage : Dispatch(n) \/ BindRun(n)
  BY <1>2, DispatchKeeps, BindRunKeeps
<1>3. CASE \E d \in Driver : Drive(d)
  BY <1>3, DriveKeeps
<1>4. CASE \E r \in Request : Person(r)
  BY <1>4, PersonKeeps
<1>5. CASE ExecuteStarts \/ ProcessDies \/ Reap \/ Fork
  BY <1>5, ExecuteStartsKeeps, ProcessDiesKeeps, ReapKeeps, ForkKeeps
<1> QED
  BY <1>1, <1>2, <1>3, <1>4, <1>5 DEF Next

\* The cards are in order, every document (the stored one and each driver's
\* copy) agrees with them, and every driver is where its document lets it be.
THEOREM Invariant == Spec => []IInv
<1> QED
  BY InitHolds, StepHolds, PTL DEF Spec

\* The state is well typed, and no document, the stored one or a copy, has
\* spent more rounds of coverage, critique or clarification than it had.
THEOREM TypeCorrect == Spec => []IntakeTypeOK
<1>1. IInv => IntakeTypeOK
  <2> SUFFICES ASSUME IInv PROVE IntakeTypeOK
    OBVIOUS
  <2>1. /\ doc \in Documents
        /\ doc.coverage <= CoverageRounds /\ doc.attacks <= CritiqueRounds
        /\ doc.asked <= clarificationRoundLimit /\ doc.ask <= doc.cards
    BY DEF IInv, Good, Sound
  <2>2. \A k \in Card : asks[k] = NoAsk \/
         asks[k] \in [st : {"open", "answered", "approved"}, kind : CardKind, run : Lineage]
    BY DEF IInv, Order, Tables, Asked
  <2>3. \A d \in Driver : drive[d] \in DriveStates
    BY DEF IInv, Driving, Driven, DriveStates
  <2>4. /\ runs \in [Lineage -> {"absent", "queued", "running", "parked", "completed",
                                 "finalized", "crashed", "tombstoned"}]
        /\ pins \in 0..MaxCards
        /\ exec \in {"absent", "queued", "started", "refused"}
    BY DEF IInv, Order, Tables, RunStates, Rest
  <2> QED
    BY <2>1, <2>2, <2>3, <2>4 DEF IntakeTypeOK
<1> QED
  BY <1>1, Invariant, PTL

\* However many drives, answers and successors work on one intake, one card at
\* most is open, and the run it is bound to is parked under it.
THEOREM GatesHold == Spec => []GatesWait
<1>1. IInv => GatesWait
  BY DEF IInv, Order
<1> QED
  BY <1>1, Invariant, PTL

\* No card is ever asked after one that approved its task, however late the
\* driver that would have asked it.
THEOREM ApprovedStays == Spec => []ApprovalIsFinal
<1>1. IInv => ApprovalIsFinal
  BY DEF IInv, Order
<1> QED
  BY <1>1, Invariant, PTL

\* No plan passes the spine with an objection of its requester unanswered: a
\* planner that asks back, or whose emission is refused, has not answered it.
THEOREM ObjectionsStay == Spec => []ObjectionsAreHeard
<1>1. IInv => ObjectionsAreHeard
  BY DEF IInv, Good, Heard, ObjectionsAreHeard
<1> QED
  BY <1>1, Invariant, PTL

\* Every drive's loop ends: the turns it has taken and those its document's
\* unspent rounds may still take are together what is paid for.
THEOREM DrivesSettle == Spec => []DriveSettles
<1>1. IInv => DriveSettles
  BY DEF IInv, Driving, Driven, Places, DriveSettles, At, Idle
<1> QED
  BY <1>1, Invariant, PTL
=============================================================================
