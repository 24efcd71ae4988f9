------------------------- MODULE VerifyDrainProofs --------------------------
(***************************************************************************)
(* Proofs about VerifyDrain, for any clients, findings, remarks, budgets,    *)
(* patience, forks, grants and faults: what a rework session is briefed with *)
(* is what its attempt consumed, a parked run's card tells every round, the  *)
(* stop rules are those of the history, an answer moves only the run that    *)
(* waits on its card, and no drain spends a round nobody granted.            *)
(*                                                                          *)
(* The module reads in four parts.  The invariant IInv says what holds       *)
(* between two steps; the step kinds restate every action field by field,    *)
(* without EXCEPT; one lemma per conjunct of IInv shows that each kind       *)
(* preserves it; the theorems follow, the purse (a second invariant on top   *)
(* of the first) last.                                                       *)
(***************************************************************************)
EXTENDS VerifyDrain, Integers, TLAPS

-----------------------------------------------------------------------------
(* The shape of the state.                                                  *)

Point == {"entry", "next", "mint", "malformed", "judge", "verdict", "findings", "decide",
          "guidance", "collect", "stamp", "revise", "raise", "attention", "park", "ship", "complete"}
Kind  == {"none", "infra", "malformed", "escalate", "reopen", "ship", "revise", "cap"}
RunStatus == {"queued", "running", "parked", "crashed", "completed", "finalized", "tombstoned"}

Round   == [found : Blockers, alike : BOOLEAN]
Attempt == Nat \X Nat
Comment == [what : Finding \cup Remark, rev : Nat, from : Nat, by : {NoAttempt} \cup Attempt]
Legs    == [at : Point, rev : Nat \ {0}, rounds : Seq(Round), start : Nat \ {0}, seeded : BOOLEAN,
            last : Blockers, recur : Nat, alike : Nat, similar : BOOLEAN, batch : SUBSET Comment,
            kind : Kind]
CardKind == {"infra", "malformed", "escalate", "reopen", "cap"}
CardRow == [n : Lineage, kind : CardKind, rev : Nat \ {0}, status : {"open", "answered", "cancelled"},
            rounds : Seq(Round)]

Verb == {"accept", "revise", "retry", "cancel"}
Wish == {Idle} \cup [at : Verb, ask : Nat] \cup [at : {"kill"}, seen : RunStatus, n : Lineage]
        \cup [at : {"done", "cancelled"}]

Shape ==
    /\ run \in [n : Lineage, st : RunStatus, gen : Nat]
    /\ leg = NoLeg \/ leg \in Legs
    /\ asks \in Seq(CardRow)
    /\ request \in [Client -> Wish]
    /\ recorded \in [Lineage -> Nat] /\ grants \in Nat
    /\ current \in Nat /\ comments \subseteq Comment

\* A leg drives a running run, or one a cancel completed under it.
Driven == leg # NoLeg => run.st \in {"running", "completed"}

\* A verdict is of a judged revision, and those the screen refused have none.
Slots ==
    /\ verdicts \subseteq 1..current /\ malformed \subseteq 1..current
    /\ verdicts \cap malformed = {}
    /\ leg.at \in {"judge", "verdict"} => leg.rev \in (1..current) \ malformed
    /\ leg.at = "malformed" => leg.rev \in malformed

-----------------------------------------------------------------------------
(* The cards.                                                               *)

Last == Len(asks)
OpenOf(n) == { a \in DOMAIN asks : asks[a].n = n /\ asks[a].status = "open" }

\* The card a parked run waits on is the last one raised, and no other of its
\* run is open; while a leg drives the run none is.
Cards ==
    /\ \A a \in DOMAIN asks : asks[a].n <= run.n
    /\ run.st = "queued" => \A a \in DOMAIN asks : asks[a].n < run.n
    /\ leg # NoLeg /\ leg.at \notin {"attention", "park"} => OpenOf(run.n) = {}
    /\ leg.at \in {"attention", "park"} => OpenOf(run.n) = {Last} /\ asks[Last] = Card
    /\ run.st = "parked" => OpenOf(run.n) = {Last}
    /\ \A a \in DOMAIN asks : asks[a].kind \in {"cap", "malformed", "escalate"} /\ asks[a].status = "open"
                                => asks[a].rounds # <<>>
    /\ leg.at \in {"raise", "attention", "park"} =>
          leg.kind \in CardKind /\ (leg.kind # "infra" => leg.rounds # <<>>)

\* A request's card is the one its run waits on, or it is closed.
Wishes ==
    \A c \in Client : request[c].at \in Verb =>
        /\ request[c].ask \in DOMAIN asks
        /\ request[c].at \in Choices(Ask(c).kind)
        /\ Ask(c).status = "open" => Ask(c).n = run.n /\ run.st \in {"parked", "finalized"}

-----------------------------------------------------------------------------
(* The count of the rounds.                                                 *)

\* No attempt of this run after round k has consumed a comment.
Used(k)  == \A c \in comments : c.by # NoAttempt /\ c.by[1] = run.n => c.by[2] <= k
Even(k)  == recorded[run.n] = k /\ Used(k)
Ahead(k) == recorded[run.n] = k /\ Used(k + 1)

\* A drain that starts over on a revision with a verdict ends at its slot.
Doomed == leg.start = 1 /\ leg.rev = 1 /\ 1 \in verdicts
Restarts == Even(0) \/ 1 \in verdicts

Reckoned ==
    /\ \A c \in comments : c.by # NoAttempt => c.by[1] <= run.n
    /\ \A m \in Lineage : m > run.n => recorded[m] = 0
    /\ run.st = "queued" => Even(0)
    /\ leg.at = "entry" => leg.rounds = <<>> /\ leg.start = 1 /\ leg.rev = 1 /\ Restarts
    /\ leg.at \in {"mint", "malformed", "judge"} => Ahead(Len(leg.rounds)) \/ Doomed
    /\ leg.at = "verdict" => Even(Len(leg.rounds)) \/ Doomed
    /\ leg.at \in {"findings", "decide", "guidance", "collect", "stamp"} => Even(Len(leg.rounds))
    /\ leg.at \in {"revise", "next"} => Ahead(Len(leg.rounds))
    /\ leg.at \in {"raise", "attention", "park"} =>
          IF leg.kind = "infra" THEN Restarts ELSE Even(Len(leg.rounds))
    /\ run.st = "parked" =>
          IF asks[Last].kind = "infra" THEN Restarts ELSE Even(Len(asks[Last].rounds))
    /\ leg.at = "guidance" => leg.start > 1
    /\ leg # NoLeg /\ leg.start = 1 /\ (leg.rev > 1 \/ leg.at \in {"findings", "decide", "collect", "stamp", "revise", "next"})
          => 1 \in verdicts
    /\ leg.at \in {"verdict", "findings", "decide"} => leg.kind # "infra" 

\* What a rework session is briefed with carries its attempt.
Briefed == BriefIsWhatWasConsumed

-----------------------------------------------------------------------------
(* The stop rules.                                                          *)

Before == {"entry", "next", "mint", "malformed", "judge", "guidance", "collect", "stamp", "revise"}
Fresh  == {"verdict", "findings", "decide"}

First   == IF leg.start = 1 THEN 2 ELSE leg.start
Same(k) == leg.rounds[k].found # {} /\ leg.rounds[k].found = leg.rounds[k - 1].found
Seen    == IF leg.at \in Fresh THEN Len(leg.rounds) - 1 ELSE Len(leg.rounds)

\* recur and alike count the rounds in a row, up to the last one observed.
Trails ==
    /\ leg.recur > 0 => Seen - leg.recur + 1 >= First
    /\ \A k \in (Seen - leg.recur + 1)..Seen : Same(k)
    /\ Seen - leg.recur >= First => ~ Same(Seen - leg.recur)
    /\ leg.alike > 0 => Seen - leg.alike + 1 >= First
    /\ \A k \in (Seen - leg.alike + 1)..Seen : leg.rounds[k].alike
    /\ Seen - leg.alike >= First => ~ leg.rounds[Seen - leg.alike].alike

Paced ==
    /\ leg # NoLeg => leg.start <= Len(leg.rounds) + 1
    /\ leg.at \in Before => Len(leg.rounds) + 1 - leg.start < ReworkRounds
    /\ leg # NoLeg => Len(leg.rounds) + 1 - leg.start <= ReworkRounds
    /\ leg.at \in Fresh => leg.rounds # <<>> /\ leg.start <= Len(leg.rounds) /\ LastRound.alike = leg.similar
    /\ leg.at \in Before \cup Fresh =>
          /\ Trails
          /\ leg.seeded <=> Seen > 0
          /\ leg.seeded => leg.last = leg.rounds[Seen].found
          /\ ~ leg.seeded => leg.start = 1 /\ leg.recur = 0 /\ leg.alike = 0
    /\ leg.at = "guidance" => leg.start = NextRound
    /\ leg.at \in {"collect", "stamp", "revise"} =>
          (Resumed /\ leg.start = NextRound) \/ (leg.recur < Patience /\ leg.alike < Patience)
    /\ leg.at = "raise" /\ leg.kind = "cap" => Inert \/ AtCap

IInv == Shape /\ Driven /\ Slots /\ Cards /\ Wishes /\ Reckoned /\ Briefed /\ Paced

-----------------------------------------------------------------------------
(* What each step does to the leg and the run, field by field.              *)

SameDesk  == UNCHANGED <<asks, request, grants>>
SameStore == UNCHANGED <<current, verdicts, comments, malformed>>
SameWork  == leg'.rev = leg.rev /\ leg'.rounds = leg.rounds /\ leg'.start = leg.start
SameStop  == leg'.seeded = leg.seeded /\ leg'.last = leg.last /\ leg'.recur = leg.recur /\ leg'.alike = leg.alike
SameCase  == leg'.similar = leg.similar /\ leg'.kind = leg.kind
Drives    == leg \in Legs /\ leg' \in Legs

Turns ==
    /\ Drives /\ SameWork /\ SameStop /\ SameDesk /\ SameStore /\ UNCHANGED <<run, recorded>>
    /\ \/ /\ leg.at \in {"entry", "next"} /\ leg'.at = "mint" /\ SameCase
       \/ /\ leg.at \in {"entry", "next"} /\ leg'.at = "raise" /\ leg'.kind = "infra" /\ leg.start = 1
       \/ /\ leg.at = "collect" /\ leg'.at = "stamp" /\ SameCase /\ leg'.batch = OpenComments
       \/ /\ leg.at = "attention" /\ leg'.at = "park" /\ SameCase
       \/ /\ leg.at = "ship" /\ leg'.at = "complete" /\ SameCase

Mints ==
    /\ Drives /\ SameWork /\ SameStop /\ SameCase /\ SameDesk
    /\ UNCHANGED <<run, recorded, verdicts, comments>>
    /\ leg.at = "mint" /\ leg.rev \in 1..(current + 1)
    /\ current' = IF leg.rev > current THEN leg.rev ELSE current
    /\ malformed' = malformed \/ (leg.rev > current /\ malformed' = malformed \cup {leg.rev})
    /\ leg'.at = IF leg.rev \in malformed' THEN "malformed" ELSE "judge"

\* A round is recorded: the screen refused its revision, or the judge spoke.
Records ==
    /\ Drives /\ SameStop /\ SameDesk /\ SameStore /\ UNCHANGED run
    /\ leg'.rev = leg.rev /\ leg'.start = leg.start /\ leg'.similar = leg.similar
    /\ recorded' = [recorded EXCEPT ![run.n] = recorded[run.n] + 1]
    /\ \E found \in Blockers : leg'.rounds = Append(leg.rounds, [found |-> found, alike |-> leg.similar])
    /\ \/ leg.at = "malformed" /\ leg'.at = "raise" /\ leg'.kind = "malformed"
       \/ leg.at = "judge" /\ leg'.at = "verdict" /\ leg'.kind \notin {"infra", "cap"}

Pins ==
    /\ Drives /\ SameWork /\ SameStop /\ SameCase /\ SameDesk
    /\ UNCHANGED <<run, recorded, current, malformed, comments>>
    /\ leg.at = "verdict" /\ leg'.at = "findings"
    /\ leg.rev \in (1..current) \ verdicts /\ verdicts' = verdicts \cup {leg.rev}

\* Open comments are filed.
Files ==
    /\ Drives /\ SameWork /\ SameStop /\ SameCase /\ SameDesk
    /\ UNCHANGED <<run, recorded, current, malformed, verdicts>>
    /\ \/ leg.at = "findings" /\ leg'.at = "decide"
       \/ leg.at = "guidance" /\ leg'.at = "collect"
    /\ \E new \in SUBSET Comment : comments' = comments \cup new /\ \A c \in new : c.by = NoAttempt

Decides ==
    /\ Drives /\ SameWork /\ SameDesk /\ SameStore /\ UNCHANGED <<run, recorded>>
    /\ leg.at = "decide" /\ leg'.similar = leg.similar
    /\ \/ leg'.at = "ship"
       \/ leg'.at = "raise" /\ leg'.kind \in {"escalate", "reopen"}
       \/ /\ leg'.recur = Observed.recur /\ leg'.alike = Observed.alike
          /\ leg'.seeded = TRUE /\ leg'.last = LastRound.found
          /\ LET stops == AtCap \/ leg'.recur >= Patience \/ leg'.alike >= Patience
             IN  \/ stops /\ leg'.at = "raise" /\ leg'.kind = "cap"
                 \/ ~ stops /\ leg'.at = "collect" /\ leg'.kind = "revise"

Stamps ==
    /\ Drives /\ SameWork /\ SameStop /\ SameCase /\ SameDesk
    /\ UNCHANGED <<run, recorded, current, malformed, verdicts>>
    /\ leg.at = "stamp" /\ leg'.at = "revise" /\ leg'.batch = leg.batch
    /\ leg.batch \subseteq OpenComments
    /\ comments' = (comments \ leg.batch) \cup { [c EXCEPT !.by = AttemptOf(NextRound)] : c \in leg.batch }

Reworks ==
    /\ Drives /\ SameStop /\ SameDesk /\ SameStore /\ UNCHANGED <<run, recorded>>
    /\ leg'.rounds = leg.rounds /\ leg'.start = leg.start /\ leg'.rev = leg.rev + 1
    /\ leg.at = "revise" /\ leg'.at \in {"mint", "next"}

Raises ==
    /\ Drives /\ SameWork /\ SameStop /\ SameCase /\ SameStore /\ UNCHANGED <<run, recorded, request, grants>>
    /\ leg.at = "raise" /\ leg'.at = "attention" /\ asks' = Append(asks, Card)

Starts ==
    /\ run.st = "queued" /\ leg = NoLeg /\ run'.n = run.n /\ run'.st = "running"
    /\ leg' = FreshLeg /\ leg' \in Legs
    /\ SameDesk /\ SameStore /\ UNCHANGED recorded

\* The leg ends with its run parked under a card ...
Parks ==
    /\ leg \in Legs /\ leg.at = "park" /\ leg' = NoLeg
    /\ run.st = "running" /\ run'.n = run.n /\ run'.st = "parked"
    /\ SameDesk /\ SameStore /\ UNCHANGED recorded

\* ... or for good; a sweep crashes a run without one.
Ends ==
    /\ leg' = NoLeg /\ run'.n = run.n /\ run'.st \in {"running", "completed", "crashed"}
    /\ run.st \in {"running", "completed"}
    /\ SameDesk /\ SameStore /\ UNCHANGED recorded

Dies ==
    /\ leg' = NoLeg /\ request' = [c \in Client |-> Idle]
    /\ SameStore /\ UNCHANGED <<run, recorded, asks, grants>>

Forks ==
    /\ run.st = "crashed" /\ UNCHANGED leg
    /\ \/ run'.n = run.n + 1 /\ run'.st = "queued"
       \/ run'.n = run.n /\ run'.st = "tombstoned"
    /\ SameDesk /\ SameStore /\ UNCHANGED recorded

Remarks ==
    /\ UNCHANGED <<run, leg, recorded, current, malformed, verdicts>> /\ SameDesk
    /\ \E c \in Comment : c.by = NoAttempt /\ comments' = comments \cup {c}

\* One request moves; the others keep still.
Asks(c) ==
    /\ request' = [request EXCEPT ![c] = request'[c]]
    /\ SameStore /\ UNCHANGED recorded

Reads(c) ==
    /\ Asks(c) /\ UNCHANGED <<run, leg, asks, grants>> /\ request[c] = Idle /\ run.st = "parked"
    /\ \E a \in DOMAIN asks : /\ asks[a].status = "open" /\ asks[a].n = run.n
                              /\ request'[c].at \in Choices(asks[a].kind) /\ request'[c].ask = a

Resumes(c) ==
    /\ Asks(c) /\ run.st = "parked" /\ run'.n = run.n /\ run'.st = "running" /\ leg = NoLeg /\ leg' \in Legs
    /\ request[c].at \in {"retry", "revise"} /\ request'[c] = Idle
    /\ Ask(c).status = "open" /\ asks' = [asks EXCEPT ![request[c].ask] = Closed(Ask(c), "answered")]
    /\ leg' = IF request[c].at = "retry" THEN FreshLeg ELSE ResumedLeg(Ask(c))
    /\ grants' = grants + 1

Settles(c) ==
    /\ Asks(c) /\ run.st = "parked" /\ run'.n = run.n /\ run'.st \in {"completed", "finalized"}
    /\ UNCHANGED <<leg, grants>>
    /\ request[c].at \in {"accept", "cancel"} /\ request'[c].at \in {"done", "cancelled"}
    /\ Ask(c).status = "open" /\ asks' = [asks EXCEPT ![request[c].ask] = Closed(Ask(c), "answered")]

\* A request is dropped, is done, or is a cancel that has read its run; a
\* cancel's ladder may stop the session it finds.
Drops(c) ==
    /\ Asks(c) /\ UNCHANGED <<run, asks, grants>>
    /\ request'[c].at \in {"idle", "kill"} /\ request[c].at # "kill"
    /\ request[c].at \in Verb => Ask(c).status # "open" \/ run.st # "parked"
    /\ leg' = leg \/ (run.st = "running" /\ leg' = NoLeg)

\* A cancel moves its run, a parked one with its open cards, or is refused.
Kills(c) ==
    /\ Asks(c) /\ UNCHANGED <<leg, grants>> /\ request[c].at = "kill" /\ run'.n = run.n
    /\ \/ /\ run.st = "running" /\ run'.st = "completed" /\ UNCHANGED asks
          /\ request'[c].at = "cancelled"
       \/ /\ run.st \in {"queued", "parked"} /\ run'.st = "finalized"
          /\ DOMAIN asks' = DOMAIN asks
          /\ \A a \in DOMAIN asks : asks'[a] = asks[a] \/ asks'[a] = Closed(asks[a], "cancelled")
          /\ request'[c].at = "cancelled"
       \/ UNCHANGED <<run, asks>> /\ request'[c].at = "idle"

-----------------------------------------------------------------------------
(* The actions are of those kinds: the leg's.                               *)

LEMMA Constants == ReworkRounds \in Nat /\ Patience \in Nat /\ 0 < Patience /\ Patience <= ReworkRounds
                   /\ 0 < ReworkRounds /\ MaxForks \in Nat
BY RoundsAssumption DEF RoundsAssumption

LEMMA NotDriven ==
  /\ NoLeg.at = "none" /\ "none" \notin Point
  /\ leg \in Legs => leg # NoLeg /\ leg.at \in Point
  /\ \A l \in Legs : l # NoLeg
  /\ leg = NoLeg => leg.at = "none"
BY DEF NoLeg, Legs, Point

LEMMA LegIs ==
  ASSUME leg \in Legs
  PROVE  leg = [at |-> leg.at, rev |-> leg.rev, rounds |-> leg.rounds, start |-> leg.start,
                seeded |-> leg.seeded, last |-> leg.last, recur |-> leg.recur, alike |-> leg.alike,
                similar |-> leg.similar, batch |-> leg.batch, kind |-> leg.kind]
  BY DEF Legs

LEMMA AtGoes ==
  ASSUME leg \in Legs, NEW pc \in Point, LegAt(pc)
  PROVE  /\ Drives /\ SameWork /\ SameStop /\ SameCase
         /\ leg'.at = pc /\ leg'.batch = leg.batch
<1>1. leg' = [at |-> pc, rev |-> leg.rev, rounds |-> leg.rounds, start |-> leg.start,
              seeded |-> leg.seeded, last |-> leg.last, recur |-> leg.recur, alike |-> leg.alike,
              similar |-> leg.similar, batch |-> leg.batch, kind |-> leg.kind]
  BY LegIs DEF LegAt
<1>2. leg' \in Legs
  BY <1>1 DEF Legs
<1>3. SameWork /\ SameStop /\ SameCase /\ leg'.at = pc /\ leg'.batch = leg.batch
  BY <1>1 DEF SameWork, SameStop, SameCase
<1> QED
  BY <1>2, <1>3 DEF Drives

LEMMA RunIs ==
  ASSUME Shape, NEW to \in RunStatus
  PROVE  /\ Moved(to).n = run.n /\ Moved(to).st = to
         /\ Moved(to) \in [n : Lineage, st : RunStatus, gen : Nat]
<1>1. run = [n |-> run.n, st |-> run.st, gen |-> run.gen] /\ run.n \in Lineage /\ run.gen \in Nat
  BY DEF Shape
<1> DEFINE half == [run EXCEPT !.st = to]
<1>2. half = [n |-> run.n, st |-> to, gen |-> run.gen]
  BY <1>1
<1> DEFINE g == IF run.st = "parked" /\ to = "running" THEN half.gen + 1 ELSE half.gen
<1>3. Moved(to) = [half EXCEPT !.gen = g]
  BY DEF Moved
<1>4. g \in Nat
  BY <1>1, <1>2
<1> HIDE DEF half, g
<1>5. Moved(to) = [n |-> run.n, st |-> to, gen |-> g]
  BY <1>2, <1>3
<1> QED
  BY <1>1, <1>4, <1>5

\* A failed step leaves the run running or ended, or crashes it.
LEMMA LegEnds ==
  ASSUME Shape, Driven, leg # NoLeg, LegDies, SameDesk, SameStore, UNCHANGED recorded
  PROVE  Ends
<1>1. run.st \in {"running", "completed"}
  BY DEF Driven
<1>2. leg' = NoLeg /\ (run' = run \/ run' = Moved("crashed"))
  BY DEF LegDies, Go
<1>3. run'.n = run.n /\ run'.st \in {run.st, "crashed"}
  BY <1>2, RunIs DEF RunStatus
<1> QED
  BY <1>1, <1>2, <1>3 DEF Ends

LEMMA DispatchStarts ==
  ASSUME Shape, Dispatch PROVE Starts
<1>1. run'.n = run.n /\ run'.st = "running"
  BY RunIs DEF Dispatch, Go, RunStatus
<1>2. FreshLeg \in Legs
  BY DEF FreshLeg, Legs, Point, Kind, Blockers
<1> QED
  BY <1>1, <1>2 DEF Dispatch, Starts, SameDesk, SameStore, cards, tally, review

LEMMA TurnsAre ==
  ASSUME Shape, Outage \/ PackResolved \/ Collect \/ Board PROVE Turns
<1>1. leg \in Legs
  BY NotDriven DEF Shape, Outage, PackResolved, Collect, Board
<1>2. CASE PackResolved
  <2>1. Drives /\ SameWork /\ SameStop /\ SameCase /\ leg'.at = "mint"
    BY <1>1, <1>2, AtGoes DEF PackResolved, Point
  <2> QED
    BY <1>2, <2>1 DEF PackResolved, Turns, SameDesk, SameStore, cards, tally, review
<1>3. CASE Outage
  <2>1. leg' = [at |-> "raise", rev |-> leg.rev, rounds |-> leg.rounds, start |-> leg.start,
                seeded |-> leg.seeded, last |-> leg.last, recur |-> leg.recur, alike |-> leg.alike,
                similar |-> leg.similar, batch |-> leg.batch, kind |-> "infra"]
    BY <1>1, <1>3, LegIs DEF Outage
  <2>2. leg' \in Legs
    BY <1>1, <2>1 DEF Legs, Point, Kind
  <2>3. SameWork /\ SameStop /\ leg'.at = "raise" /\ leg'.kind = "infra"
    BY <2>1 DEF SameWork, SameStop
  <2>4. leg.start = 1
    BY <1>1, <1>3 DEF Outage, Resumed, Legs
  <2> QED
    BY <1>1, <1>3, <2>2, <2>3, <2>4 DEF Outage, Turns, Drives, SameDesk, SameStore, cards, review
<1>4. CASE Collect
  <2>1. leg' = [at |-> "stamp", rev |-> leg.rev, rounds |-> leg.rounds, start |-> leg.start,
                seeded |-> leg.seeded, last |-> leg.last, recur |-> leg.recur, alike |-> leg.alike,
                similar |-> leg.similar, batch |-> OpenComments, kind |-> leg.kind]
    BY <1>1, <1>4, LegIs DEF Collect
  <2>2. OpenComments \in SUBSET Comment
    BY DEF OpenComments, Shape
  <2>3. leg' \in Legs
    BY <1>1, <2>1, <2>2 DEF Legs, Point
  <2>4. SameWork /\ SameStop /\ SameCase /\ leg'.at = "stamp" /\ leg'.batch = OpenComments
    BY <2>1 DEF SameWork, SameStop, SameCase
  <2> QED
    BY <1>1, <1>4, <2>3, <2>4 DEF Collect, Turns, Drives, SameDesk, SameStore, cards, tally, review
<1>5. CASE Board
  <2>1. \E pc \in {"complete", "park"} : LegAt(pc) /\ leg.at = IF pc = "park" THEN "attention" ELSE "ship"
    BY <1>5 DEF Board
  <2>2. PICK pc \in {"complete", "park"} : LegAt(pc) /\ leg.at = IF pc = "park" THEN "attention" ELSE "ship"
    BY <2>1
  <2>3. Drives /\ SameWork /\ SameStop /\ SameCase /\ leg'.at = pc
    BY <1>1, <2>2, AtGoes DEF Point
  <2> QED
    BY <1>5, <2>2, <2>3 DEF Board, Turns, SameDesk, SameStore, tally, review
<1> QED
  BY <1>2, <1>3, <1>4, <1>5

LEMMA MintIs ==
  ASSUME Shape, Driven, Mint PROVE Mints \/ Ends
<1>1. leg \in Legs /\ leg # NoLeg
  BY NotDriven DEF Shape, Mint
<1>2. CASE ~ Mintable(leg.rev)
  BY <1>1, <1>2, LegEnds DEF Mint, SameDesk, SameStore, cards
<1>3. CASE Mintable(leg.rev)
  <2>1. \E pc \in {"malformed", "judge"} : LegAt(pc) /\ pc = IF leg.rev \in malformed' THEN "malformed" ELSE "judge"
    BY <1>3 DEF Mint
  <2>2. Drives /\ SameWork /\ SameStop /\ SameCase /\ leg'.at = IF leg.rev \in malformed' THEN "malformed" ELSE "judge"
    BY <1>1, <2>1, AtGoes DEF Point
  <2>3. malformed' = malformed \/ (leg.rev > current /\ malformed' = malformed \cup {leg.rev})
    BY <1>3 DEF Mint
  <2> QED
    BY <1>3, <2>2, <2>3 DEF Mint, Mints, Mintable, MintRevision, SameDesk, cards
<1> QED
  BY <1>2, <1>3

LEMMA BlockersAre == {} \in Blockers /\ Blockers \subseteq SUBSET Finding
BY DEF Blockers

LEMMA RecordsAre ==
  ASSUME Shape, Driven, Malformed \/ Judge PROVE Records \/ Ends
<1>1. leg \in Legs /\ leg # NoLeg
  BY NotDriven DEF Shape, Malformed, Judge
<1>2. ASSUME NEW found \in Blockers, NEW pc \in {"raise", "verdict"}, NEW kind \in Kind,
             leg' = [leg EXCEPT !.at = pc,
                                !.rounds = Append(@, [found |-> found, alike |-> leg.similar]),
                                !.kind = kind]
      PROVE  /\ Drives /\ SameStop /\ leg'.at = pc /\ leg'.kind = kind
             /\ leg'.rev = leg.rev /\ leg'.start = leg.start /\ leg'.similar = leg.similar
             /\ leg'.rounds = Append(leg.rounds, [found |-> found, alike |-> leg.similar])
  <2> DEFINE rounds == Append(leg.rounds, [found |-> found, alike |-> leg.similar])
  <2>1. leg' = [at |-> pc, rev |-> leg.rev, rounds |-> rounds, start |-> leg.start,
                seeded |-> leg.seeded, last |-> leg.last, recur |-> leg.recur, alike |-> leg.alike,
                similar |-> leg.similar, batch |-> leg.batch, kind |-> kind]
    BY <1>1, <1>2, LegIs
  <2>2. [found |-> found, alike |-> leg.similar] \in Round
    BY <1>1 DEF Legs, Round
  <2>3. rounds \in Seq(Round)
    BY <1>1, <2>2 DEF Legs
  <2> HIDE DEF rounds
  <2>4. leg' \in Legs
    BY <1>1, <2>1, <2>3 DEF Legs, Point
  <2>5. /\ SameStop /\ leg'.at = pc /\ leg'.kind = kind
        /\ leg'.rev = leg.rev /\ leg'.start = leg.start /\ leg'.similar = leg.similar
        /\ leg'.rounds = rounds
    BY <2>1 DEF SameStop
  <2> QED
    BY <1>1, <2>4, <2>5 DEF Drives, rounds
<1>3. CASE Malformed
  <2>1. leg' = [leg EXCEPT !.at = "raise",
                           !.rounds = Append(@, [found |-> {}, alike |-> leg.similar]),
                           !.kind = "malformed"]
    BY <1>1, <1>3, LegIs DEF Malformed
  <2>2. /\ Drives /\ SameStop /\ leg'.at = "raise" /\ leg'.kind = "malformed"
        /\ leg'.rev = leg.rev /\ leg'.start = leg.start /\ leg'.similar = leg.similar
        /\ leg'.rounds = Append(leg.rounds, [found |-> {}, alike |-> leg.similar])
    BY <1>2, <2>1, BlockersAre DEF Kind
  <2>3. UNCHANGED run /\ SameDesk /\ SameStore
        /\ recorded' = [recorded EXCEPT ![run.n] = recorded[run.n] + 1] /\ leg.at = "malformed"
    BY <1>3 DEF Malformed, SameDesk, SameStore, cards, review
  <2> QED
    BY <2>2, <2>3, BlockersAre DEF Records
<1>4. CASE Judge /\ run.st = "running"
  <2>1. PICK ks \in Blockers, hand \in {"none", "escalate", "reopen"} :
          leg' = [leg EXCEPT
                           !.at = "verdict",
                           !.rounds = Append(@, [found |-> ks, alike |-> leg.similar]),
                           !.kind = IF hand # "none" THEN hand
                                    ELSE IF ks = {} THEN "ship" ELSE "revise"]
    BY <1>4 DEF Judge
  <2> DEFINE kind == IF hand # "none" THEN hand ELSE IF ks = {} THEN "ship" ELSE "revise"
  <2>2. kind \in Kind /\ kind \notin {"infra", "cap"}
    BY DEF Kind
  <2> HIDE DEF kind
  <2>3. leg' = [leg EXCEPT !.at = "verdict",
                           !.rounds = Append(@, [found |-> ks, alike |-> leg.similar]),
                           !.kind = kind]
    BY <2>1 DEF kind
  <2>4. /\ Drives /\ SameStop /\ leg'.at = "verdict" /\ leg'.kind = kind
        /\ leg'.rev = leg.rev /\ leg'.start = leg.start /\ leg'.similar = leg.similar
        /\ leg'.rounds = Append(leg.rounds, [found |-> ks, alike |-> leg.similar])
    BY <1>2, <2>2, <2>3
  <2>5. UNCHANGED run /\ SameDesk /\ SameStore
        /\ recorded' = [recorded EXCEPT ![run.n] = recorded[run.n] + 1] /\ leg.at = "judge"
    BY <1>4 DEF Judge, SameDesk, SameStore, cards, review
  <2> QED
    BY <2>2, <2>4, <2>5 DEF Records
<1>5. CASE Judge /\ run.st # "running"
  BY <1>1, <1>5, LegEnds DEF Judge, SameDesk, SameStore, cards, review
<1> QED
  BY <1>3, <1>4, <1>5

LEMMA CardsAre ==
  ASSUME Shape
  PROVE  /\ asks \in Seq(CardRow) /\ DOMAIN asks = 1..Last /\ Last \in Nat
         /\ \A a \in DOMAIN asks : a \in Nat /\ asks[a] \in CardRow
                                   /\ asks[a].kind \in CardKind /\ asks[a].n \in Lineage
<1>1. asks \in Seq(CardRow) /\ DOMAIN asks = 1..Last /\ Last \in Nat
  BY DEF Shape, Last
<1>2. \A a \in DOMAIN asks : a \in Nat /\ asks[a] \in CardRow
  BY <1>1
<1> QED
  BY <1>1, <1>2 DEF CardRow

LEMMA VerdictIs ==
  ASSUME Shape, Driven, Verdict PROVE Pins \/ Ends
<1>1. leg \in Legs /\ leg # NoLeg
  BY NotDriven DEF Shape, Verdict
<1>2. CASE ~ SlotFree(leg.rev)
  BY <1>1, <1>2, LegEnds DEF Verdict, SameDesk, SameStore, cards, tally
<1>3. CASE SlotFree(leg.rev)
  <2>1. Drives /\ SameWork /\ SameStop /\ SameCase /\ leg'.at = "findings"
    BY <1>1, <1>3, AtGoes DEF Verdict, Point
  <2> QED
    BY <1>3, <2>1 DEF Verdict, Pins, SlotFree, SetVerdictRef, SameDesk, cards, tally
<1> QED
  BY <1>2, <1>3

\* What is filed is open.
LEMMA FiledIsOpen ==
  ASSUME NEW ks \in SUBSET (Finding \cup Remark), NEW n \in Nat, NEW r \in Nat, AddFindings(ks, n, r)
  PROVE  \E new \in SUBSET Comment : comments' = comments \cup new /\ \A c \in new : c.by = NoAttempt
<1> DEFINE new == { [what |-> k, rev |-> n, from |-> r, by |-> NoAttempt] :
                      k \in { j \in ks : ~ Filed(j, n, r) } }
<1>1. \A c \in new : c \in Comment /\ c.by = NoAttempt
  BY DEF Comment
<1>2. comments' = comments \cup new
  BY DEF AddFindings
<1> QED
  BY <1>1, <1>2

LEMMA FilesAre ==
  ASSUME Shape, Paced, Findings \/ Guidance PROVE Files
<1>1. leg \in Legs /\ run.n \in Nat
  BY NotDriven, Constants DEF Shape, Findings, Guidance, Lineage
<1>2. leg.rev \in Nat
  BY <1>1 DEF Legs
<1>3. CASE Findings
  <2>1. Drives /\ SameWork /\ SameStop /\ SameCase /\ leg'.at = "decide"
    BY <1>1, <1>3, AtGoes DEF Findings, Point
  <2>2. LastRound.found \in SUBSET (Finding \cup Remark)
    <3>1. leg.rounds # <<>> /\ leg.rounds \in Seq(Round)
      BY <1>1, <1>3 DEF Paced, Fresh, Findings, Legs
    <3>2. LastRound \in Round
      BY <3>1 DEF LastRound
    <3> QED
      BY <3>2, BlockersAre DEF Round
  <2>3. \E new \in SUBSET Comment : comments' = comments \cup new /\ \A c \in new : c.by = NoAttempt
    BY <1>1, <1>2, <1>3, <2>2, FiledIsOpen DEF Findings
  <2> QED
    BY <1>3, <2>1, <2>3 DEF Findings, Files, SameDesk, cards, tally
<1>4. CASE Guidance
  <2>1. Drives /\ SameWork /\ SameStop /\ SameCase /\ leg'.at = "collect"
    BY <1>1, <1>4, AtGoes DEF Guidance, Point
  <2>2. PICK h \in Remark : AddFindings({h}, leg.rev, run.n)
    BY <1>4 DEF Guidance
  <2>3. \E new \in SUBSET Comment : comments' = comments \cup new /\ \A c \in new : c.by = NoAttempt
    BY <1>1, <1>2, <2>2, FiledIsOpen
  <2> QED
    BY <1>4, <2>1, <2>3 DEF Guidance, Files, SameDesk, cards, tally
<1> QED
  BY <1>3, <1>4

LEMMA DecideIs ==
  ASSUME Shape, Paced, Reckoned, Decide PROVE Decides
<1>1. leg \in Legs /\ leg.at = "decide"
  BY NotDriven DEF Shape, Decide
<1>2. SameDesk /\ SameStore /\ UNCHANGED <<run, recorded>>
  BY DEF Decide, SameDesk, SameStore, cards, tally, review
<1>3. CASE leg.kind = "ship"
  <2>1. LegAt("ship")
    BY <1>3 DEF Decide, LegAt
  <2> QED
    BY <1>1, <1>2, <2>1, AtGoes DEF Decides, Drives, SameCase, Point
<1>4. CASE leg.kind \in {"escalate", "reopen"}
  <2>1. LegAt("raise")
    BY <1>4 DEF Decide, LegAt
  <2>2. Drives /\ SameWork /\ leg'.similar = leg.similar /\ leg'.at = "raise" /\ leg'.kind = leg.kind
    BY <1>1, <2>1, AtGoes DEF SameCase, Point
  <2>3. leg'.kind \in {"escalate", "reopen"}
    BY <1>4, <2>2
  <2> QED
    BY <1>1, <1>2, <2>2, <2>3 DEF Decides
<1>5. CASE leg.kind \notin {"ship", "escalate", "reopen"}
  <2> DEFINE o     == Observed
             stops == AtCap \/ o.recur >= Patience \/ o.alike >= Patience
             pc    == IF stops THEN "raise" ELSE "collect"
             kind  == IF stops THEN "cap" ELSE "revise"
  <2>1. leg' = [leg EXCEPT !.at = pc, !.kind = kind, !.recur = o.recur, !.alike = o.alike,
                           !.seeded = TRUE, !.last = LastRound.found]
    BY <1>5 DEF Decide
  <2>2. LastRound.found \in Blockers
    <3>1. leg.rounds # <<>> /\ leg.rounds \in Seq(Round)
      BY <1>1 DEF Paced, Fresh, Legs
    <3>2. LastRound \in Round
      BY <3>1 DEF LastRound
    <3> QED
      BY <3>2 DEF Round
  <2>3. o.recur \in Nat /\ o.alike \in Nat
    BY <1>1 DEF Observed, Legs
  <2>4. pc \in Point /\ kind \in Kind
    BY DEF Point, Kind
  <2> HIDE DEF o, pc, kind
  <2>5. leg' = [at |-> pc, rev |-> leg.rev, rounds |-> leg.rounds, start |-> leg.start,
                seeded |-> TRUE, last |-> LastRound.found, recur |-> o.recur, alike |-> o.alike,
                similar |-> leg.similar, batch |-> leg.batch, kind |-> kind]
    BY <1>1, <2>1, LegIs
  <2>6. leg' \in Legs
    BY <1>1, <2>2, <2>3, <2>4, <2>5 DEF Legs
  <2>7. /\ SameWork /\ leg'.similar = leg.similar /\ leg'.at = pc /\ leg'.kind = kind
        /\ leg'.recur = o.recur /\ leg'.alike = o.alike /\ leg'.seeded = TRUE /\ leg'.last = LastRound.found
    BY <2>5 DEF SameWork
  <2>8. stops <=> AtCap \/ leg'.recur >= Patience \/ leg'.alike >= Patience
    BY <2>7
  <2> HIDE DEF stops
  <2>9. \/ stops /\ leg'.at = "raise" /\ leg'.kind = "cap"
        \/ ~ stops /\ leg'.at = "collect" /\ leg'.kind = "revise"
    BY <2>7 DEF pc, kind
  <2> QED
    BY <1>1, <1>2, <2>6, <2>7, <2>8, <2>9 DEF Decides, Drives, o
<1> QED
  BY <1>3, <1>4, <1>5

LEMMA StampIs ==
  ASSUME Shape, Stamp PROVE Stamps
<1>1. leg \in Legs
  BY NotDriven DEF Shape, Stamp
<1>2. Drives /\ SameWork /\ SameStop /\ SameCase /\ leg'.at = "revise" /\ leg'.batch = leg.batch
  BY <1>1, AtGoes DEF Stamp, Point
<1> QED
  BY <1>2 DEF Stamp, Stamps, Drain, SameDesk, cards, tally

LEMMA ReviseIs ==
  ASSUME Shape, Driven, Revise PROVE Reworks \/ Ends
<1>1. leg \in Legs /\ leg # NoLeg
  BY NotDriven DEF Shape, Revise
<1>2. CASE run.st # "running"
  BY <1>1, <1>2, LegEnds DEF Revise, SameDesk, SameStore, cards, tally, review
<1>3. CASE run.st = "running"
  <2> DEFINE pc == IF leg.start = NextRound THEN "mint" ELSE "next"
  <2>1. PICK similar \in BOOLEAN :
          leg' = [leg EXCEPT !.at = pc, !.rev = @ + 1, !.similar = similar, !.batch = {}]
    BY <1>3 DEF Revise
  <2>2. pc \in {"mint", "next"} /\ leg.rev \in Nat
    BY <1>1 DEF Legs
  <2> HIDE DEF pc
  <2>3. leg' = [at |-> pc, rev |-> leg.rev + 1, rounds |-> leg.rounds, start |-> leg.start,
                seeded |-> leg.seeded, last |-> leg.last, recur |-> leg.recur, alike |-> leg.alike,
                similar |-> similar, batch |-> {}, kind |-> leg.kind]
    BY <1>1, <2>1, LegIs
  <2>4. leg' \in Legs
    BY <1>1, <2>2, <2>3 DEF Legs, Point
  <2>5. /\ SameStop /\ leg'.at = pc /\ leg'.rounds = leg.rounds /\ leg'.start = leg.start
        /\ leg'.rev = leg.rev + 1
    BY <2>3 DEF SameStop
  <2> QED
    BY <1>1, <1>3, <2>2, <2>4, <2>5 DEF Revise, Reworks, Drives, SameDesk, SameStore, cards, tally, review
<1> QED
  BY <1>2, <1>3

LEMMA RaiseIs ==
  ASSUME Shape, Raise PROVE Raises
<1>1. leg \in Legs
  BY NotDriven DEF Shape, Raise
<1>2. Drives /\ SameWork /\ SameStop /\ SameCase /\ leg'.at = "attention"
  BY <1>1, AtGoes DEF Raise, Point
<1> QED
  BY <1>2 DEF Raise, Raises, SameStore, tally, review

LEMMA TerminalIs ==
  ASSUME Shape, Driven, Terminal PROVE Parks \/ Ends
<1>1. leg \in Legs /\ leg # NoLeg
  BY NotDriven DEF Shape, Terminal
<1>2. SameDesk /\ SameStore /\ UNCHANGED recorded
  BY DEF Terminal, SameDesk, SameStore, cards, tally, review
<1>3. CASE LegDies
  BY <1>1, <1>2, <1>3, LegEnds
<1>4. CASE leg.at = "park" /\ ~ LegDies
  <2>1. run.st = "running" /\ run' = Moved("parked") /\ leg' = NoLeg
    BY <1>4 DEF Terminal, CanGo, Go
  <2> QED
    BY <1>1, <1>2, <1>4, <2>1, RunIs DEF Parks, RunStatus
<1>5. CASE leg.at = "complete" /\ ~ LegDies
  <2>1. run.st = "running" /\ run' = Moved("completed") /\ leg' = NoLeg
    BY <1>5 DEF Terminal, CanGo, Go
  <2> QED
    BY <1>2, <2>1, RunIs DEF Ends, RunStatus
<1> QED
  BY <1>3, <1>4, <1>5 DEF Terminal

LEMMA OtherSteps ==
  ASSUME Shape, Driven
  PROVE  /\ StepFails => Ends
         /\ Reap => Ends
         /\ ProcessDies => Dies
         /\ Superseded => Forks
         /\ RemarkMade => Remarks
<1>1. ASSUME StepFails PROVE Ends
  <2>1. leg # NoLeg
    BY <1>1, NotDriven DEF StepFails
  <2> QED
    BY <1>1, <2>1, LegEnds DEF StepFails, SameDesk, SameStore, cards, review
<1>2. ASSUME Reap PROVE Ends
  <2>1. run' = Moved("crashed")
    BY <1>2 DEF Reap, Go
  <2> QED
    BY <1>2, <2>1, RunIs DEF Reap, Ends, RunStatus, SameDesk, SameStore, cards, tally, review
<1>3. ASSUME ProcessDies PROVE Dies
  BY <1>3 DEF ProcessDies, Dies, SameStore, review
<1>4. ASSUME Superseded PROVE Forks
  <2>1. run.st = "crashed" /\ UNCHANGED leg /\ SameDesk /\ SameStore /\ UNCHANGED recorded
    BY <1>4 DEF Superseded, SameDesk, SameStore, cards, tally, review
  <2>2. CASE run.n < 1 + MaxForks
    <3>1. run' = [n |-> run.n + 1, st |-> "queued", gen |-> 1]
      BY <1>4, <2>2 DEF Superseded
    <3>2. run'.n = run.n + 1 /\ run'.st = "queued"
      BY <3>1
    <3> QED
      BY <2>1, <3>2 DEF Forks
  <2>3. CASE ~ (run.n < 1 + MaxForks)
    <3>1. run' = [run EXCEPT !.st = "tombstoned"]
      BY <1>4, <2>3 DEF Superseded
    <3>2. run'.n = run.n /\ run'.st = "tombstoned"
      BY <3>1 DEF Shape
    <3> QED
      BY <2>1, <3>2 DEF Forks
  <2> QED
    BY <2>2, <2>3
<1>5. ASSUME RemarkMade PROVE Remarks
  <2>1. PICK h \in Remark : AddComment(h)
    BY <1>5 DEF RemarkMade
  <2> DEFINE row == [what |-> h, rev |-> current, from |-> 0, by |-> NoAttempt]
  <2>2. row \in Comment /\ row.by = NoAttempt /\ comments' = comments \cup {row}
    BY <2>1 DEF AddComment, Comment, Shape
  <2> HIDE DEF row
  <2> QED
    BY <1>5, <2>2 DEF RemarkMade, Remarks, SameDesk, cards, tally
<1> QED
  BY <1>1, <1>2, <1>3, <1>4, <1>5

-----------------------------------------------------------------------------
(* The requests'.                                                           *)

LEMMA ResumedIs ==
  ASSUME NEW card \in CardRow, card.rounds # <<>>
  PROVE  LET r == ResumedLeg(card)
         IN  /\ r \in Legs /\ r.at = "guidance" /\ r.rev = card.rev /\ r.rounds = card.rounds
             /\ r.start = Len(card.rounds) + 1 /\ r.seeded = TRUE
             /\ r.last = card.rounds[Len(card.rounds)].found
             /\ r.recur = 0 /\ r.alike = 0 /\ r.kind = "none"
<1> DEFINE fresh == FreshLeg
           last == card.rounds[Len(card.rounds)].found
           start == Len(card.rounds) + 1
<1>1. fresh = [at |-> "entry", rev |-> 1, rounds |-> <<>>, start |-> 1,
               seeded |-> FALSE, last |-> {}, recur |-> 0, alike |-> 0,
               similar |-> FALSE, batch |-> {}, kind |-> "none"]
  BY DEF FreshLeg
<1>2. card.rounds \in Seq(Round) /\ card.rev \in Nat \ {0}
  BY DEF CardRow
<1>3. last \in Blockers /\ start \in Nat \ {0}
  <2>1. card.rounds[Len(card.rounds)] \in Round
    BY <1>2
  <2> QED
    BY <1>2, <2>1 DEF Round
<1>4. ResumedLeg(card) = [fresh EXCEPT !.at = "guidance", !.rev = card.rev, !.rounds = card.rounds,
                                       !.start = start, !.seeded = TRUE, !.last = last]
  BY DEF ResumedLeg
<1> HIDE DEF fresh, last, start
<1>5. ResumedLeg(card) = [at |-> "guidance", rev |-> card.rev, rounds |-> card.rounds, start |-> start,
                          seeded |-> TRUE, last |-> last, recur |-> 0, alike |-> 0,
                          similar |-> FALSE, batch |-> {}, kind |-> "none"]
  BY <1>1, <1>4
<1>6. ResumedLeg(card) \in Legs
  BY <1>2, <1>3, <1>5 DEF Legs, Point, Kind
<1>7. LET r == ResumedLeg(card)
      IN  /\ r.at = "guidance" /\ r.rev = card.rev /\ r.rounds = card.rounds
          /\ r.start = start /\ r.seeded = TRUE /\ r.last = last
          /\ r.recur = 0 /\ r.alike = 0 /\ r.kind = "none"
  BY <1>5
<1> QED
  BY <1>6, <1>7 DEF start, last

LEMMA FreshIs ==
  /\ FreshLeg \in Legs /\ FreshLeg.at = "entry" /\ FreshLeg.rev = 1 /\ FreshLeg.rounds = <<>>
  /\ FreshLeg.start = 1 /\ FreshLeg.seeded = FALSE /\ FreshLeg.recur = 0 /\ FreshLeg.alike = 0
BY DEF FreshLeg, Legs, Point, Kind, Blockers

\* Which requests are which.
LEMMA WishIs ==
  ASSUME Shape, NEW c \in Client
  PROVE  /\ request[c] \in Wish /\ Idle.at = "idle"
         /\ request[c].at = "kill" => request[c].n \in Lineage
  BY DEF Shape, Wish, Idle, Verb

LEMMA OneMoves ==
  ASSUME Shape, NEW c \in Client, NEW r, Requests(c, r), SameStore, UNCHANGED recorded
  PROVE  Asks(c) /\ request'[c] = r
  BY DEF Shape, Requests, Asks

LEMMA ReadIs ==
  ASSUME Shape, NEW c \in Client, AnswerRead(c) PROVE Reads(c) /\ request'[c] \in Wish
<1>0. PICK a \in DOMAIN asks :
        /\ asks[a].status = "open" /\ asks[a].n = run.n /\ run.st = "parked"
        /\ \E v \in Choices(asks[a].kind) : Requests(c, [at |-> v, ask |-> a])
  BY DEF AnswerRead
<1>1. PICK v \in Choices(asks[a].kind) : Requests(c, [at |-> v, ask |-> a])
  BY <1>0
<1>2. SameStore /\ UNCHANGED <<recorded, run, leg, asks, grants>> /\ request[c] = Idle
  BY DEF AnswerRead, SameStore, tally, review
<1>3. Asks(c) /\ request'[c] = [at |-> v, ask |-> a]
  BY <1>1, <1>2, OneMoves
<1>4. v \in Verb /\ a \in Nat
  <2>1. asks[a].kind \in CardKind /\ a \in Nat
    BY <1>0, CardsAre
  <2> QED
    BY <1>1, <2>1 DEF Choices, Verb, CardKind
<1>5. request'[c].at = v /\ request'[c].ask = a /\ request'[c] \in Wish
  BY <1>3, <1>4 DEF Wish
<1> QED
  BY <1>0, <1>1, <1>2, <1>3, <1>5 DEF Reads

LEMMA AnsweredIs ==
  ASSUME Shape, Wishes, NEW c \in Client, request[c].at \in Verb, AnswerTx(c)
  PROVE  /\ run.st = "parked" /\ Ask(c).status = "open" /\ request[c].ask \in DOMAIN asks
         /\ Ask(c) \in CardRow /\ Ask(c).n = run.n /\ request[c].at \in Choices(Ask(c).kind)
         /\ asks' = [asks EXCEPT ![request[c].ask] = Closed(Ask(c), "answered")]
<1>1. request[c].ask \in DOMAIN asks
  BY DEF Wishes
<1> QED
  BY <1>1 DEF AnswerTx, Answered, Ask, Wishes, Shape

LEMMA ResumesIs ==
  ASSUME Shape, Cards, Wishes, NEW c \in Client, AnswerResumes(c)
  PROVE  Resumes(c) /\ (request[c].at = "revise" => Ask(c).rounds # <<>>)
<1>1. request[c].at \in {"retry", "revise"} /\ leg = NoLeg /\ AnswerTx(c) /\ run' = Moved("running")
      /\ Requests(c, Idle) /\ grants' = grants + 1
      /\ leg' = (IF request[c].at = "retry" THEN FreshLeg ELSE ResumedLeg(Ask(c)))
  BY DEF AnswerResumes, Go
<1>2. /\ run.st = "parked" /\ Ask(c).status = "open" /\ request[c].ask \in DOMAIN asks
      /\ Ask(c) \in CardRow /\ request[c].at \in Choices(Ask(c).kind)
      /\ asks' = [asks EXCEPT ![request[c].ask] = Closed(Ask(c), "answered")]
  BY <1>1, AnsweredIs DEF Verb
<1>3. SameStore /\ UNCHANGED recorded
  BY DEF AnswerResumes, SameStore, tally, review
<1>4. Asks(c) /\ request'[c] = Idle
  BY <1>1, <1>3, OneMoves
<1>5. run'.n = run.n /\ run'.st = "running"
  BY <1>1, RunIs DEF RunStatus
<1>6. request[c].at = "revise" => Ask(c).rounds # <<>>
  BY <1>2 DEF Choices, Cards, Ask, CardRow, CardKind
<1>7. leg' \in Legs
  BY <1>1, <1>2, <1>6, ResumedIs, FreshIs
<1> QED
  BY <1>1, <1>2, <1>4, <1>5, <1>6, <1>7 DEF Resumes

LEMMA SettlesIs ==
  ASSUME Shape, Wishes, NEW c \in Client, AnswerEnds(c)
  PROVE  Settles(c) /\ request'[c] \in Wish /\ run' \in [n : Lineage, st : RunStatus, gen : Nat]
<1>1. request[c].at \in {"accept", "cancel"} /\ AnswerTx(c) /\ UNCHANGED <<leg, grants>>
      /\ run' = (IF request[c].at = "accept" THEN [Moved("running") EXCEPT !.st = "completed"]
                                             ELSE Moved("finalized"))
      /\ Requests(c, [at |-> IF request[c].at = "accept" THEN "done" ELSE "cancelled"])
  BY DEF AnswerEnds
<1>2. /\ run.st = "parked" /\ Ask(c).status = "open"
      /\ asks' = [asks EXCEPT ![request[c].ask] = Closed(Ask(c), "answered")]
  BY <1>1, AnsweredIs DEF Verb
<1>3. SameStore /\ UNCHANGED recorded
  BY DEF AnswerEnds, SameStore, tally, review
<1>4. Asks(c) /\ request'[c] = [at |-> IF request[c].at = "accept" THEN "done" ELSE "cancelled"]
  BY <1>1, <1>3, OneMoves
<1>5. request'[c].at \in {"done", "cancelled"} /\ request'[c] \in Wish
  BY <1>4 DEF Wish
<1>6. run'.n = run.n /\ run'.st \in {"completed", "finalized"} /\ run' \in [n : Lineage, st : RunStatus, gen : Nat]
  <2>1. CASE request[c].at = "accept"
    <3> DEFINE r == Moved("running")
    <3>1. r \in [n : Lineage, st : RunStatus, gen : Nat] /\ r.n = run.n
      BY RunIs DEF RunStatus
    <3>2. run' = [r EXCEPT !.st = "completed"]
      BY <1>1, <2>1
    <3> HIDE DEF r
    <3> QED
      BY <3>1, <3>2 DEF RunStatus
  <2>2. CASE request[c].at # "accept"
    BY <1>1, <2>2, RunIs DEF RunStatus
  <2> QED
    BY <2>1, <2>2
<1> QED
  BY <1>1, <1>2, <1>4, <1>5, <1>6 DEF Settles

LEMMA DropsAre ==
  ASSUME Shape, NEW c \in Client, AnswerRefused(c) \/ CancelRead(c) \/ RequestBoard(c)
  PROVE  Drops(c) /\ request'[c] \in Wish
<1>1. SameStore /\ UNCHANGED <<recorded, run, asks, grants>>
  BY DEF AnswerRefused, CancelRead, RequestBoard, SameStore, tally, review
<1>2. CASE AnswerRefused(c)
  <2>1. Asks(c) /\ request'[c] = Idle
    BY <1>1, <1>2, OneMoves DEF AnswerRefused
  <2> QED
    BY <1>1, <1>2, <2>1, WishIs DEF AnswerRefused, Drops, Wish
<1>3. CASE RequestBoard(c)
  <2>1. Asks(c) /\ request'[c] = Idle
    BY <1>1, <1>3, OneMoves DEF RequestBoard
  <2> QED
    BY <1>1, <1>3, <2>1, WishIs DEF RequestBoard, Drops, Wish, Verb
<1>4. CASE CancelRead(c)
  <2>1. Requests(c, [at |-> "kill", seen |-> run.st, n |-> run.n]) /\ request[c] = Idle
    BY <1>4 DEF CancelRead
  <2>2. Asks(c) /\ request'[c] = [at |-> "kill", seen |-> run.st, n |-> run.n]
    BY <1>1, <2>1, OneMoves
  <2>3. request'[c].at = "kill" /\ request'[c] \in Wish
    BY <2>2 DEF Wish, Shape
  <2>4. leg' = leg \/ (run.st = "running" /\ leg' = NoLeg)
    BY <1>4 DEF CancelRead
  <2> QED
    BY <1>1, <2>1, <2>2, <2>3, <2>4, WishIs DEF Drops, Verb
<1> QED
  BY <1>2, <1>3, <1>4

LEMMA ClosedIs ==
  ASSUME NEW card \in CardRow, NEW status \in {"answered", "cancelled"}
  PROVE  /\ Closed(card, status) \in CardRow /\ Closed(card, status).n = card.n
         /\ Closed(card, status).kind = card.kind /\ Closed(card, status).status = status
<1>1. card = [n |-> card.n, kind |-> card.kind, rev |-> card.rev, status |-> card.status, rounds |-> card.rounds]
  BY DEF CardRow
<1> DEFINE half == [card EXCEPT !.status = status]
<1>3. half = [n |-> card.n, kind |-> card.kind, rev |-> card.rev, status |-> status, rounds |-> card.rounds]
  BY <1>1
<1>4. Closed(card, status) = [half EXCEPT !.rounds = <<>>]
  BY DEF Closed
<1> HIDE DEF half
<1>2. Closed(card, status) = [n |-> card.n, kind |-> card.kind, rev |-> card.rev, status |-> status, rounds |-> <<>>]
  BY <1>3, <1>4
<1> QED
  BY <1>2 DEF CardRow

LEMMA KillsAre ==
  ASSUME Shape, NEW c \in Client, CancelApply(c)
  PROVE  /\ Kills(c) /\ request'[c] \in Wish /\ asks' \in Seq(CardRow)
         /\ run' \in [n : Lineage, st : RunStatus, gen : Nat]
<1>1. SameStore /\ UNCHANGED <<recorded, leg, grants>> /\ request[c].at = "kill"
  BY DEF CancelApply, SameStore, review, tally
<1> DEFINE k  == request[c]
           to == IF k.seen = "running" THEN "completed" ELSE "finalized"
<1>2. CASE k.n = run.n /\ CanGo(to)
  <2>1. run' = Moved(to) /\ Requests(c, [at |-> "cancelled"])
        /\ asks' = [a \in DOMAIN asks |->
                      IF k.seen = "parked" /\ asks[a].n = run.n /\ asks[a].status = "open"
                        THEN Closed(asks[a], "cancelled") ELSE asks[a]]
    BY <1>2 DEF CancelApply, Go
  <2>2. Asks(c) /\ request'[c] = [at |-> "cancelled"]
    BY <1>1, <2>1, OneMoves
  <2>3. request'[c].at = "cancelled" /\ request'[c] \in Wish
    BY <2>2 DEF Wish
  <2>4. run'.n = run.n /\ run'.st = to /\ run' \in [n : Lineage, st : RunStatus, gen : Nat]
    BY <2>1, RunIs DEF RunStatus
  <2>5. asks \in Seq(CardRow) /\ \A a \in DOMAIN asks : asks[a] \in CardRow
    BY DEF Shape
  <2>6. /\ DOMAIN asks' = DOMAIN asks
        /\ \A a \in DOMAIN asks : asks'[a] = asks[a] \/ asks'[a] = Closed(asks[a], "cancelled")
    BY <2>1
  <2>7. \A a \in DOMAIN asks : asks'[a] \in CardRow
    BY <2>5, <2>6, ClosedIs
  <2>8. asks' \in Seq(CardRow)
    BY <2>1, <2>5, <2>6, <2>7
  <2>9. CASE k.seen = "running"
    <3>1. run.st = "running" /\ run'.st = "completed"
      BY <1>2, <2>4, <2>9 DEF CanGo
    <3>2. asks' = asks
      BY <2>1, <2>5, <2>9
    <3> QED
      BY <1>1, <2>2, <2>3, <2>4, <2>8, <3>1, <3>2 DEF Kills
  <2>10. CASE k.seen # "running"
    <3>1. run.st \in {"queued", "parked"} /\ run'.st = "finalized"
      BY <1>2, <2>4, <2>10 DEF CanGo
    <3> QED
      BY <1>1, <2>2, <2>3, <2>4, <2>6, <2>8, <3>1 DEF Kills
  <2> QED
    BY <2>9, <2>10
<1>3. CASE ~ (k.n = run.n /\ CanGo(to))
  <2>1. UNCHANGED <<run, asks>> /\ Requests(c, Idle)
    BY <1>3 DEF CancelApply
  <2>2. Asks(c) /\ request'[c] = Idle
    BY <1>1, <2>1, OneMoves
  <2> QED
    BY <1>1, <2>1, <2>2, WishIs DEF Kills, Wish, Shape
<1> QED
  BY <1>2, <1>3

-----------------------------------------------------------------------------
(* Every step is of one of the kinds.                                       *)

LegKinds == \/ Turns \/ Mints \/ Records \/ Pins \/ Files \/ Decides \/ Stamps \/ Reworks \/ Raises
            \/ Starts \/ Parks \/ Ends

LEMMA LegKindsAre ==
  ASSUME Shape, Driven, Reckoned, Paced, LegStep PROVE LegKinds
<1>1. CASE Dispatch
  BY <1>1, DispatchStarts DEF LegKinds
<1>2. CASE Outage \/ PackResolved \/ Collect \/ Board
  BY <1>2, TurnsAre DEF LegKinds
<1>3. CASE Mint
  BY <1>3, MintIs DEF LegKinds
<1>4. CASE Malformed \/ Judge
  BY <1>4, RecordsAre DEF LegKinds
<1>5. CASE Verdict
  BY <1>5, VerdictIs DEF LegKinds
<1>6. CASE Findings \/ Guidance
  BY <1>6, FilesAre DEF LegKinds
<1>7. CASE Decide
  BY <1>7, DecideIs DEF LegKinds
<1>8. CASE Stamp
  BY <1>8, StampIs DEF LegKinds
<1>9. CASE Revise
  BY <1>9, ReviseIs DEF LegKinds
<1>10. CASE Raise
  BY <1>10, RaiseIs DEF LegKinds
<1>11. CASE Terminal
  BY <1>11, TerminalIs DEF LegKinds
<1> QED
  BY <1>1, <1>2, <1>3, <1>4, <1>5, <1>6, <1>7, <1>8, <1>9, <1>10, <1>11 DEF LegStep

LEMMA CloseIs ==
  ASSUME Shape, Wishes, NEW c \in Client, request[c].at \in Verb,
         asks' = [asks EXCEPT ![request[c].ask] = Closed(Ask(c), "answered")]
  PROVE  asks' \in Seq(CardRow)
<1>1. request[c].ask \in DOMAIN asks
  BY DEF Wishes
<1>2. Closed(Ask(c), "answered") \in CardRow
  BY <1>1, CardsAre, ClosedIs DEF Ask
<1> QED
  BY <1>1, <1>2, CardsAre

ClientKinds(c) ==
    /\ request'[c] \in Wish /\ asks' \in Seq(CardRow)
    /\ \/ Reads(c)
       \/ Resumes(c) /\ (request[c].at = "revise" => Ask(c).rounds # <<>>)
       \/ Settles(c) \/ Drops(c) \/ Kills(c)

LEMMA ClientKindsAre ==
  ASSUME Shape, Cards, Wishes, NEW c \in Client, ClientStep(c) PROVE ClientKinds(c)
<1>0. asks \in Seq(CardRow)
  BY CardsAre
<1>1. CASE AnswerRead(c)
  BY <1>0, <1>1, ReadIs DEF ClientKinds, Reads
<1>2. CASE AnswerResumes(c)
  <2>1. Resumes(c) /\ (request[c].at = "revise" => Ask(c).rounds # <<>>)
    BY <1>2, ResumesIs
  <2>2. request'[c] \in Wish
    BY <2>1 DEF Resumes, Wish
  <2>3. request[c].at \in Verb
    BY <2>1 DEF Resumes, Verb
  <2>4. asks' \in Seq(CardRow)
    BY <2>1, <2>3, CloseIs DEF Resumes
  <2> QED
    BY <2>1, <2>2, <2>4 DEF ClientKinds
<1>3. CASE AnswerEnds(c)
  <2>1. Settles(c) /\ request'[c] \in Wish
    BY <1>3, SettlesIs
  <2>2. request[c].at \in Verb
    BY <2>1 DEF Settles, Verb
  <2>3. asks' \in Seq(CardRow)
    BY <2>1, <2>2, CloseIs DEF Settles
  <2> QED
    BY <2>1, <2>3 DEF ClientKinds
<1>4. CASE AnswerRefused(c) \/ CancelRead(c) \/ RequestBoard(c)
  BY <1>0, <1>4, DropsAre DEF ClientKinds, Drops
<1>5. CASE CancelApply(c)
  BY <1>5, KillsAre DEF ClientKinds
<1> QED
  BY <1>1, <1>2, <1>3, <1>4, <1>5 DEF ClientStep

StepKind == LegKinds \/ Dies \/ Forks \/ Remarks \/ \E c \in Client : ClientKinds(c)

LEMMA StepKinds ==
  ASSUME Shape, Driven, Cards, Wishes, Reckoned, Paced, Next PROVE StepKind
<1>1. CASE LegStep
  BY <1>1, LegKindsAre DEF StepKind
<1>2. CASE StepFails \/ RemarkMade \/ ProcessDies \/ Reap \/ Superseded
  BY <1>2, OtherSteps DEF StepKind, LegKinds
<1>3. CASE \E c \in Client : ClientStep(c)
  BY <1>3, ClientKindsAre DEF StepKind
<1> QED
  BY <1>1, <1>2, <1>3 DEF Next

-----------------------------------------------------------------------------
(* The run, the cards that close, and the shape of the state.               *)

Run == [n : Lineage, st : RunStatus, gen : Nat]

LEMMA RunMoves ==
  ASSUME Shape, Cards, Wishes, Next PROVE run' \in Run
<1>1. run \in Run /\ \A to \in RunStatus : Moved(to) \in Run
  BY RunIs DEF Shape, Run
<1>2. ASSUME LegDies PROVE run' \in Run
  BY <1>1, <1>2 DEF LegDies, Go, RunStatus
<1>3. CASE LegStep
  BY <1>1, <1>2, <1>3 DEF LegStep, Dispatch, Outage, PackResolved, Mint, Malformed, Judge, Verdict, Findings,
     Decide, Guidance, Collect, Stamp, Revise, Raise, Board, Terminal, Go, RunStatus
<1>4. CASE StepFails \/ RemarkMade \/ ProcessDies \/ Reap
  BY <1>1, <1>2, <1>4 DEF StepFails, RemarkMade, ProcessDies, Reap, Go, RunStatus
<1>5. CASE Superseded
  <2>1. run.n < 1 + MaxForks => run.n + 1 \in Lineage
    BY <1>1, Constants DEF Run, Lineage
  <2> QED
    BY <1>1, <1>5, <2>1 DEF Superseded, Run, RunStatus
<1>6. CASE \E c \in Client : ClientStep(c)
  <2>1. PICK c \in Client : ClientStep(c)
    BY <1>6
  <2>2. CASE AnswerEnds(c)
    BY <2>2, SettlesIs DEF Run
  <2>3. CASE CancelApply(c)
    BY <2>3, KillsAre DEF Run
  <2> QED
    BY <1>1, <2>1, <2>2, <2>3 DEF ClientStep, AnswerRead, AnswerResumes, AnswerRefused, CancelRead,
       RequestBoard, Go, RunStatus
<1> QED
  BY <1>3, <1>4, <1>5, <1>6 DEF Next

\* Cards keep their run and kind, and an open one is as it was.
Closes ==
    /\ DOMAIN asks' = DOMAIN asks
    /\ \A a \in DOMAIN asks :
         /\ asks'[a].n = asks[a].n /\ asks'[a].kind = asks[a].kind
         /\ asks'[a].status = "open" => asks'[a] = asks[a]

LEMMA AnswerCloses ==
  ASSUME Shape, Wishes, NEW c \in Client, Resumes(c) \/ Settles(c)
  PROVE  /\ Closes /\ request[c].ask \in DOMAIN asks /\ asks'[request[c].ask].status # "open"
         /\ request[c].at \in Verb
<1>1. request[c].at \in Verb /\ asks' = [asks EXCEPT ![request[c].ask] = Closed(Ask(c), "answered")]
  BY DEF Resumes, Settles, Verb
<1>2. request[c].ask \in DOMAIN asks
  BY <1>1 DEF Wishes
<1>3. /\ Closed(Ask(c), "answered").n = Ask(c).n /\ Closed(Ask(c), "answered").kind = Ask(c).kind
      /\ Closed(Ask(c), "answered").status # "open"
  BY <1>2, CardsAre, ClosedIs DEF Ask
<1> QED
  BY <1>1, <1>2, <1>3 DEF Closes, Ask

LEMMA KillCloses ==
  ASSUME Shape, NEW c \in Client, Kills(c) PROVE Closes
<1>1. \A a \in DOMAIN asks : /\ Closed(asks[a], "cancelled").n = asks[a].n
                             /\ Closed(asks[a], "cancelled").kind = asks[a].kind
                             /\ Closed(asks[a], "cancelled").status # "open"
  BY CardsAre, ClosedIs
<1> QED
  BY <1>1 DEF Kills, Closes

LEMMA CardIs ==
  ASSUME Shape, Cards, Raises
  PROVE  /\ Card \in CardRow /\ Card.n = run.n /\ Card.kind = leg.kind /\ Card.status = "open"
         /\ Card.rounds = IF leg.kind = "infra" THEN <<>> ELSE leg.rounds
         /\ asks' \in Seq(CardRow) /\ DOMAIN asks' = 1..(Last + 1) /\ Last' = Last + 1
         /\ asks'[Last + 1] = Card /\ \A a \in DOMAIN asks : a \in DOMAIN asks' /\ asks'[a] = asks[a]
<1>1. leg \in Legs /\ leg.kind \in CardKind /\ run.n \in Lineage
  BY DEF Cards, Raises, Drives, Shape
<1> DEFINE rounds == IF leg.kind = "infra" THEN <<>> ELSE leg.rounds
<1>2. leg.rev \in Nat \ {0} /\ rounds \in Seq(Round)
  BY <1>1 DEF Legs
<1>3. Card = [n |-> run.n, kind |-> leg.kind, rev |-> leg.rev, status |-> "open", rounds |-> rounds]
  BY DEF Card
<1> HIDE DEF rounds
<1>4. Card \in CardRow /\ Card.n = run.n /\ Card.kind = leg.kind /\ Card.status = "open" /\ Card.rounds = rounds
  BY <1>1, <1>2, <1>3 DEF CardRow
<1>5. asks' = Append(asks, Card)
  BY DEF Raises
<1>6. /\ asks' \in Seq(CardRow) /\ DOMAIN asks' = 1..(Last + 1) /\ Last' = Last + 1
      /\ asks'[Last + 1] = Card /\ \A a \in DOMAIN asks : a \in DOMAIN asks' /\ asks'[a] = asks[a]
  BY <1>4, <1>5, CardsAre DEF Last
<1> QED
  BY <1>4, <1>6 DEF rounds

LEMMA ShapeMoves ==
  ASSUME Shape, Cards, Wishes, StepKind, run' \in Run PROVE Shape'
<1>1. run' \in [n : Lineage, st : RunStatus, gen : Nat]
  BY DEF Run
<1>2. leg' = NoLeg \/ leg' \in Legs
  BY DEF StepKind, LegKinds, Turns, Mints, Records, Pins, Files, Decides, Stamps, Reworks, Raises, Starts, Parks,
     Ends, Dies, Forks, Remarks, ClientKinds, Reads, Resumes, Settles, Drops, Kills, Drives, Shape
<1>3. asks' \in Seq(CardRow)
  <2>1. CASE Raises
    BY <2>1, CardIs
  <2> QED
    BY <2>1 DEF StepKind, LegKinds, Turns, Mints, Records, Pins, Files, Decides, Stamps, Reworks, Starts, Parks,
       Ends, Dies, Forks, Remarks, ClientKinds, SameDesk, Shape
<1>4. request' \in [Client -> Wish]
  <2>1. CASE Dies
    BY <2>1 DEF Dies, Wish
  <2>2. CASE \E c \in Client : ClientKinds(c)
    <3>1. PICK c \in Client : ClientKinds(c)
      BY <2>2
    <3>2. request' = [request EXCEPT ![c] = request'[c]] /\ request'[c] \in Wish
      BY <3>1 DEF ClientKinds, Reads, Resumes, Settles, Drops, Kills, Asks
    <3> QED
      BY <3>2 DEF Shape
  <2> QED
    BY <2>1, <2>2 DEF StepKind, LegKinds, Turns, Mints, Records, Pins, Files, Decides, Stamps, Reworks, Raises,
       Starts, Parks, Ends, Forks, Remarks, SameDesk, Shape
<1>5. recorded' \in [Lineage -> Nat]
  <2>1. CASE Records
    BY <2>1 DEF Records, Shape
  <2> QED
    BY <2>1 DEF StepKind, LegKinds, Turns, Mints, Pins, Files, Decides, Stamps, Reworks, Raises, Starts, Parks,
       Ends, Dies, Forks, Remarks, ClientKinds, Reads, Resumes, Settles, Drops, Kills, Asks, Shape
<1>6. grants' \in Nat
  BY DEF StepKind, LegKinds, Turns, Mints, Records, Pins, Files, Decides, Stamps, Reworks, Raises, Starts, Parks,
     Ends, Dies, Forks, Remarks, ClientKinds, Reads, Resumes, Settles, Drops, Kills, SameDesk, Shape
<1>7. current' \in Nat
  <2>1. CASE Mints
    BY <2>1 DEF Mints, Shape
  <2> QED
    BY <2>1 DEF StepKind, LegKinds, Turns, Records, Pins, Files, Decides, Stamps, Reworks, Raises, Starts, Parks,
       Ends, Dies, Forks, Remarks, ClientKinds, Reads, Resumes, Settles, Drops, Kills, Asks, SameStore, Shape
<1>8. comments' \subseteq Comment
  <2>1. CASE Stamps
    <3>1. comments \subseteq Comment /\ leg.batch \subseteq comments /\ run.n \in Nat /\ leg \in Legs
      BY <2>1, Constants DEF Stamps, OpenComments, Shape, Drives, Lineage
    <3>2. AttemptOf(NextRound) \in Attempt
      BY <3>1 DEF AttemptOf, NextRound, Attempt, Legs
    <3>3. \A c \in leg.batch : [c EXCEPT !.by = AttemptOf(NextRound)] \in Comment
      BY <3>1, <3>2 DEF Comment
    <3> QED
      BY <2>1, <3>1, <3>3 DEF Stamps
  <2>2. CASE Files \/ Remarks
    BY <2>2 DEF Files, Remarks, Shape
  <2> QED
    BY <2>1, <2>2 DEF StepKind, LegKinds, Turns, Mints, Records, Pins, Decides, Reworks, Raises, Starts, Parks,
       Ends, Dies, Forks, ClientKinds, Reads, Resumes, Settles, Drops, Kills, Asks, SameStore, Shape
<1> QED
  BY <1>1, <1>2, <1>3, <1>4, <1>5, <1>6, <1>7, <1>8 DEF Shape

LEMMA DrivenMoves ==
  ASSUME Shape, Driven, StepKind PROVE Driven'
<1>1. ASSUME leg' # NoLeg PROVE run'.st \in {"running", "completed"}
  BY <1>1, NotDriven DEF Driven, StepKind, LegKinds, Turns, Mints, Records, Pins, Files, Decides, Stamps, Reworks,
     Raises, Starts, Parks, Ends, Dies, Forks, Remarks, ClientKinds, Reads, Resumes, Settles, Drops, Kills, Drives
<1> QED
  BY <1>1 DEF Driven

LEMMA SlotsMove ==
  ASSUME Shape, Slots, StepKind PROVE Slots'
<1>1. CASE Mints
  <2>1. /\ current \in Nat /\ leg.rev \in 1..(current + 1) /\ leg'.rev = leg.rev /\ verdicts' = verdicts
        /\ current' = (IF leg.rev > current THEN leg.rev ELSE current)
        /\ malformed' = malformed \/ (leg.rev > current /\ malformed' = malformed \cup {leg.rev})
        /\ leg'.at = (IF leg.rev \in malformed' THEN "malformed" ELSE "judge")
    BY <1>1 DEF Mints, Shape, SameWork
  <2>2. current' \in Nat /\ current <= current' /\ leg.rev \in 1..current'
    BY <2>1
  <2>3. verdicts' \subseteq 1..current' /\ malformed' \subseteq 1..current'
    <3>1. 1..current \subseteq 1..current'
      BY <2>1, <2>2
    <3> QED
      BY <2>1, <2>2, <3>1 DEF Slots
  <2>4. verdicts' \cap malformed' = {}
    <3>1. leg.rev > current => leg.rev \notin verdicts
      BY <2>1 DEF Slots
    <3> QED
      BY <2>1, <3>1 DEF Slots
  <2> QED
    BY <2>1, <2>2, <2>3, <2>4 DEF Slots
<1>2. CASE Records
  BY <1>2 DEF Records, Slots, SameStore
<1>3. CASE Pins
  BY <1>3 DEF Pins, Slots, SameWork
<1>4. CASE Turns \/ Decides \/ Reworks \/ Raises
  BY <1>4 DEF Turns, Decides, Reworks, Raises, SameStore, SameWork, Slots
<1>5. CASE Files \/ Stamps
  BY <1>5 DEF Files, Stamps, SameWork, Slots
<1>6. CASE Starts \/ Parks \/ Ends \/ Dies
  BY <1>6, NotDriven, FreshIs DEF Starts, Parks, Ends, Dies, SameStore, Slots
<1>7. CASE Forks \/ Remarks
  BY <1>7 DEF Forks, Remarks, SameStore, Slots
<1>8. ASSUME NEW c \in Client, ClientKinds(c) PROVE Slots'
  <2>1. CASE Resumes(c) /\ (request[c].at = "revise" => Ask(c).rounds # <<>>)
    BY <2>1, FreshIs DEF Resumes, Asks, SameStore, Slots, ResumedLeg, FreshLeg
  <2>2. CASE Reads(c) \/ Settles(c) \/ Drops(c) \/ Kills(c)
    BY <2>2, NotDriven DEF Reads, Settles, Drops, Kills, Asks, SameStore, Slots
  <2> QED
    BY <1>8, <2>1, <2>2 DEF ClientKinds
<1> QED
  BY <1>1, <1>2, <1>3, <1>4, <1>5, <1>6, <1>7, <1>8 DEF StepKind, LegKinds

-----------------------------------------------------------------------------
(* The cards and the requests.                                              *)

\* No card of a queued run, nor of one that a leg drives, is open.
LEMMA ClosedBefore ==
  ASSUME Shape, Driven, Cards
  PROVE  /\ run.st = "queued" => OpenOf(run.n) = {}
         /\ leg # NoLeg => run.st \in {"running", "completed"}
<1>1. \A a \in DOMAIN asks : asks[a].n \in Nat
  BY CardsAre, Constants DEF Lineage
<1>2. run.n \in Nat
  BY Constants DEF Shape, Lineage
<1>3. run.st = "queued" => \A a \in DOMAIN asks : asks[a].n # run.n
  BY <1>1, <1>2 DEF Cards
<1> QED
  BY <1>3 DEF OpenOf, Driven

\* A step that leaves the cards and the run's number alone leaves what is open.
LEMMA SameOpen ==
  ASSUME asks' = asks, run'.n = run.n
  PROVE  OpenOf(run.n)' = OpenOf(run.n) /\ Last' = Last
  BY DEF OpenOf, Last

\* Answering the one open card leaves none.
LEMMA LastCloses ==
  ASSUME Shape, Cards, Wishes, NEW c \in Client, Resumes(c) \/ Settles(c)
  PROVE  /\ request[c].ask = Last /\ OpenOf(run.n)' = {} /\ Ask(c).n = run.n /\ run'.n = run.n
         /\ \A a \in DOMAIN asks : asks[a].status = "open" /\ asks[a].n = run.n => a = Last
<1>1. run.st = "parked" /\ Ask(c).status = "open" /\ run'.n = run.n
  BY DEF Resumes, Settles
<1>2. /\ Closes /\ request[c].ask \in DOMAIN asks /\ asks'[request[c].ask].status # "open"
      /\ request[c].at \in Verb
  BY AnswerCloses
<1>3. Ask(c).n = run.n /\ OpenOf(run.n) = {Last}
  BY <1>1, <1>2 DEF Wishes, Cards
<1>4. request[c].ask = Last
  BY <1>1, <1>2, <1>3 DEF OpenOf, Ask
<1>5. \A a \in DOMAIN asks' : ~ (asks'[a].n = run.n /\ asks'[a].status = "open")
  BY <1>2, <1>3, <1>4 DEF OpenOf, Closes
<1>6. \A a \in DOMAIN asks : asks[a].status = "open" /\ asks[a].n = run.n => a = Last
  BY <1>3 DEF OpenOf
<1>7. OpenOf(run.n)' = {}
  BY <1>1, <1>5 DEF OpenOf
<1> QED
  BY <1>1, <1>3, <1>4, <1>6, <1>7

\* What Cards says of the leg and the run, when the cards are as they were.
LEMMA CardsKept ==
  ASSUME Shape, Driven, Cards, asks' = asks, run'.n = run.n,
         leg' # NoLeg /\ leg'.at \notin {"attention", "park"} => OpenOf(run.n) = {},
         leg'.at \in {"attention", "park"} => OpenOf(run.n) = {Last} /\ asks[Last] = Card',
         run'.st = "parked" => OpenOf(run.n) = {Last},
         run'.st = "queued" => run.st = "queued",
         leg'.at \in {"raise", "attention", "park"} =>
            leg'.kind \in CardKind /\ (leg'.kind # "infra" => leg'.rounds # <<>>)
  PROVE  Cards'
<1>1. OpenOf(run.n)' = OpenOf(run.n) /\ Last' = Last
  BY SameOpen
<1> QED
  BY <1>1 DEF Cards

LEMMA CardsMove ==
  ASSUME Shape, Driven, Cards, Wishes, Paced, StepKind PROVE Cards'
<1>0. /\ run.st = "queued" => OpenOf(run.n) = {}
      /\ leg # NoLeg => run.st \in {"running", "completed"}
      /\ \A a \in DOMAIN asks : a \in Nat /\ asks[a].n \in Nat
      /\ run.n \in Nat
  BY ClosedBefore, CardsAre, Constants DEF Lineage, Shape
<1>1. CASE Turns \/ Mints \/ Pins \/ Files \/ Stamps
  <2>1. /\ asks' = asks /\ run' = run /\ leg \in Legs /\ leg' \in Legs
        /\ leg'.at \in {"attention", "park"} => leg.at = "attention" /\ leg'.at = "park"
        /\ leg'.at \notin {"attention", "park"} => leg.at \notin {"attention", "park"}
        /\ leg'.rounds = leg.rounds /\ leg'.rev = leg.rev
        /\ leg'.at = "raise" => leg'.kind = "infra"
        /\ leg.at = "attention" => SameCase
    BY <1>1 DEF Turns, Mints, Pins, Files, Stamps, SameDesk, Drives, SameWork
  <2>2. leg.at = "attention" => Card' = Card
    BY <2>1 DEF Card, SameCase
  <2>3. leg'.at \in {"raise", "attention", "park"} =>
            leg'.kind \in CardKind /\ (leg'.kind # "infra" => leg'.rounds # <<>>)
    BY <2>1 DEF Cards, SameCase, CardKind
  <2> QED
    BY <1>0, <2>1, <2>2, <2>3, NotDriven, CardsKept DEF Cards
<1>2. CASE Records \/ Decides \/ Reworks
  <2>1. /\ asks' = asks /\ run' = run /\ leg \in Legs /\ leg' \in Legs
        /\ leg.at \notin {"attention", "park"} /\ leg'.at \notin {"attention", "park"}
    BY <1>2 DEF Records, Decides, Reworks, SameDesk, Drives
  <2>2. leg'.at = "raise" => leg'.kind \in CardKind /\ leg'.rounds # <<>>
    <3>1. CASE Records
      <4>1. leg.rounds \in Seq(Round) /\ leg.similar \in BOOLEAN /\ (leg'.at = "raise" => leg'.kind = "malformed")
        BY <2>1, <3>1 DEF Records, Legs
      <4>2. PICK found \in Blockers : leg'.rounds = Append(leg.rounds, [found |-> found, alike |-> leg.similar])
        BY <3>1 DEF Records
      <4>3. [found |-> found, alike |-> leg.similar] \in Round
        BY <4>1 DEF Round
      <4>4. leg'.rounds # <<>>
        BY <4>1, <4>2, <4>3
      <4> QED
        BY <4>1, <4>4 DEF CardKind
    <3>2. CASE Decides
      BY <3>2 DEF Decides, Paced, Fresh, SameWork, CardKind
    <3>3. CASE Reworks
      BY <3>3 DEF Reworks
    <3> QED
      BY <1>2, <3>1, <3>2, <3>3
  <2> QED
    BY <1>0, <2>1, <2>2, NotDriven, CardsKept DEF Cards
<1>3. CASE Raises
  <2>1. /\ run' = run /\ leg \in Legs /\ leg' \in Legs /\ leg.at = "raise" /\ leg'.at = "attention"
        /\ SameWork /\ SameCase
    BY <1>3 DEF Raises, Drives
  <2>2. /\ Card \in CardRow /\ Card.n = run.n /\ Card.kind = leg.kind /\ Card.status = "open"
        /\ Card.rounds = IF leg.kind = "infra" THEN <<>> ELSE leg.rounds
        /\ DOMAIN asks' = 1..(Last + 1) /\ Last' = Last + 1 /\ Last \in Nat /\ DOMAIN asks = 1..Last
        /\ asks'[Last + 1] = Card /\ \A a \in DOMAIN asks : a \in DOMAIN asks' /\ asks'[a] = asks[a]
    BY <1>3, CardIs, CardsAre
  <2>3. Card' = Card
    BY <2>1 DEF Card, SameWork, SameCase
  <2>4. \A a \in DOMAIN asks' : a = Last + 1 \/ (a \in DOMAIN asks /\ asks'[a] = asks[a])
    BY <2>2
  <2>5. OpenOf(run.n) = {} /\ run.st # "queued" /\ run.st # "parked"
    BY <1>0, <2>1, NotDriven DEF Cards
  <2>6. \A a \in DOMAIN asks' : asks'[a].n = run.n /\ asks'[a].status = "open" <=> a = Last + 1
    BY <2>2, <2>4, <2>5 DEF OpenOf
  <2>7. OpenOf(run.n)' = {Last + 1}
    BY <2>1, <2>2, <2>6 DEF OpenOf
  <2>8. \A a \in DOMAIN asks' : asks'[a].n <= run.n
    BY <1>0, <2>2, <2>4 DEF Cards
  <2>9. leg.kind \in CardKind /\ (leg.kind # "infra" => leg.rounds # <<>>)
    BY <2>1 DEF Cards
  <2>10. \A a \in DOMAIN asks' : asks'[a].kind \in {"cap", "malformed", "escalate"} /\ asks'[a].status = "open"
                                   => asks'[a].rounds # <<>>
    BY <2>2, <2>4, <2>9 DEF Cards
  <2> QED
    BY <2>1, <2>2, <2>3, <2>5, <2>7, <2>8, <2>9, <2>10 DEF Cards, SameWork, SameCase
<1>4. CASE Starts \/ Parks \/ Ends
  BY <1>0, <1>4, NotDriven, FreshIs, CardsKept DEF Starts, Parks, Ends, SameDesk, Cards
<1>5. CASE Dies
  BY <1>5, NotDriven, CardsKept DEF Dies, Cards
<1>6. CASE Forks
  <2>1. asks' = asks /\ leg' = leg /\ leg = NoLeg /\ leg.at = "none"
    BY <1>0, <1>6, NotDriven DEF Forks, SameDesk
  <2>2. CASE run'.n = run.n /\ run'.st = "tombstoned"
    BY <2>1, <2>2, CardsKept DEF Cards
  <2>3. CASE run'.n = run.n + 1 /\ run'.st = "queued"
    BY <1>0, <2>1, <2>3 DEF Cards
  <2> QED
    BY <1>6, <2>2, <2>3 DEF Forks
<1>7. CASE Remarks
  BY <1>7, CardsKept DEF Remarks, SameDesk, Cards, Card
<1>8. ASSUME NEW c \in Client, ClientKinds(c) PROVE Cards'
  <2>1. CASE Reads(c) \/ Drops(c)
    BY <1>0, <2>1, NotDriven, CardsKept DEF Reads, Drops, Cards, Card
  <2>2. CASE Settles(c) \/ (Resumes(c) /\ (request[c].at = "revise" => Ask(c).rounds # <<>>))
    <3>1. Closes /\ OpenOf(run.n)' = {} /\ run'.n = run.n
      BY <2>2, AnswerCloses, LastCloses
    <3>2. /\ leg = NoLeg /\ run'.st \notin {"queued", "parked"}
          /\ leg' = NoLeg \/ leg'.at \in {"entry", "guidance"}
      BY <1>0, <2>2, FreshIs DEF Settles, Resumes, ResumedLeg, FreshLeg
    <3> QED
      BY <3>1, <3>2, NotDriven DEF Cards, Closes
  <2>3. CASE Kills(c)
    <3>1. CASE UNCHANGED asks
      BY <1>0, <2>3, <3>1, CardsKept, NotDriven DEF Kills, Cards, Card
    <3>2. CASE run.st \in {"queued", "parked"} /\ run'.st = "finalized"
      BY <1>0, <2>3, <3>2, KillCloses, NotDriven DEF Kills, Cards, Closes
    <3> QED
      BY <2>3, <3>1, <3>2 DEF Kills
  <2> QED
    BY <1>8, <2>1, <2>2, <2>3 DEF ClientKinds
<1> QED
  BY <1>1, <1>2, <1>3, <1>4, <1>5, <1>6, <1>7, <1>8 DEF StepKind, LegKinds

LEMMA WishesKept ==
  ASSUME Shape, Wishes, NEW d \in Client, request'[d] = request[d], request[d].at \in Verb,
         request[d].ask \in DOMAIN asks', Ask(d)'.kind = Ask(d).kind,
         Ask(d)'.status = "open" =>
            \/ Ask(d)' = Ask(d) /\ run' = run
            \/ Ask(d)' = Ask(d) /\ run'.n = run.n /\ run.st \in {"parked", "finalized"} /\ run'.st = "finalized"
            \/ Ask(d)' = Ask(d) /\ run.st \notin {"parked", "finalized"}
  PROVE  /\ request'[d].ask \in DOMAIN asks' /\ request'[d].at \in Choices(Ask(d)'.kind)
         /\ Ask(d)'.status = "open" => Ask(d)'.n = run'.n /\ run'.st \in {"parked", "finalized"}
  BY DEF Wishes

LEMMA WishesMove ==
  ASSUME Shape, Driven, Cards, Wishes, StepKind PROVE Wishes'
<1> DEFINE Good(d) == request'[d].at \in Verb =>
              /\ request'[d].ask \in DOMAIN asks' /\ request'[d].at \in Choices(Ask(d)'.kind)
              /\ Ask(d)'.status = "open" => Ask(d)'.n = run'.n /\ run'.st \in {"parked", "finalized"}
<1>0. \A d \in Client : request[d].at \in Verb => request[d].ask \in DOMAIN asks
  BY DEF Wishes
<1>1. ASSUME request' = request, NEW d \in Client,
             asks' = asks \/ (Raises /\ run' = run),
             run' = run \/ run.st \notin {"parked", "finalized"}
      PROVE  Good(d)
  <2>1. request[d].at \in Verb => request[d].ask \in DOMAIN asks' /\ Ask(d)' = Ask(d)
    BY <1>0, <1>1, CardIs DEF Ask
  <2> QED
    BY <1>1, <2>1, WishesKept
<1>2. CASE LegKinds
  <2>1. request' = request
    BY <1>2 DEF LegKinds, Turns, Mints, Records, Pins, Files, Decides, Stamps, Reworks, Raises, Starts, Parks,
       Ends, SameDesk
  <2>2. asks' = asks \/ (Raises /\ run' = run)
    BY <1>2 DEF LegKinds, Turns, Mints, Records, Pins, Files, Decides, Stamps, Reworks, Raises, Starts, Parks,
       Ends, SameDesk
  <2>3. run' = run \/ run.st \notin {"parked", "finalized"}
    BY <1>2 DEF LegKinds, Turns, Mints, Records, Pins, Files, Decides, Stamps, Reworks, Raises, Starts, Parks, Ends
  <2> QED
    BY <1>1, <2>1, <2>2, <2>3 DEF Wishes, Ask
<1>3. CASE Forks \/ Remarks
  BY <1>1, <1>3 DEF Forks, Remarks, SameDesk, Wishes, Ask
<1>4. CASE Dies
  BY <1>4 DEF Dies, Wishes, Idle, Verb
<1>5. ASSUME NEW c \in Client, ClientKinds(c) PROVE Wishes'
  <2>0. \A d \in Client \ {c} : request'[d] = request[d]
    BY <1>5 DEF ClientKinds, Reads, Resumes, Settles, Drops, Kills, Asks, Shape
  <2>1. ASSUME NEW d \in Client \ {c}, asks' = asks, run' = run PROVE Good(d)
    BY <1>0, <2>0, <2>1, WishesKept DEF Ask
  <2>2. CASE Reads(c)
    <3>1. asks' = asks /\ run' = run
      BY <2>2 DEF Reads
    <3>2. Good(c)
      BY <2>2 DEF Reads, Ask
    <3> QED
      BY <2>1, <3>1, <3>2 DEF Wishes, Ask
  <2>3. CASE Drops(c)
    <3>1. asks' = asks /\ run' = run
      BY <2>3 DEF Drops
    <3>2. Good(c)
      BY <2>3 DEF Drops, Verb
    <3> QED
      BY <2>1, <3>1, <3>2 DEF Wishes, Ask
  <2>4. CASE Settles(c) \/ (Resumes(c) /\ (request[c].at = "revise" => Ask(c).rounds # <<>>))
    <3>1. /\ Closes /\ asks'[request[c].ask].status # "open" /\ request[c].ask = Last
          /\ \A a \in DOMAIN asks : asks[a].status = "open" /\ asks[a].n = run.n => a = Last
      BY <2>4, AnswerCloses, LastCloses
    <3>2. ASSUME NEW d \in Client \ {c}, request[d].at \in Verb PROVE Good(d)
      <4>1. request[d].ask \in DOMAIN asks /\ request'[d] = request[d]
        BY <1>0, <2>0, <3>2
      <4>2. Ask(d).status = "open" => request[d].ask = Last
        BY <3>1, <3>2, <4>1 DEF Wishes, Ask
      <4>3. Ask(d)'.status # "open"
        BY <3>1, <4>1, <4>2 DEF Closes, Ask
      <4>4. request[d].ask \in DOMAIN asks' /\ Ask(d)'.kind = Ask(d).kind
        BY <3>1, <4>1 DEF Closes, Ask
      <4> QED
        BY <3>2, <4>1, <4>3, <4>4, WishesKept
    <3>3. Good(c)
      BY <2>4 DEF Settles, Resumes, Idle, Verb
    <3> QED
      BY <2>0, <3>2, <3>3 DEF Wishes, Ask
  <2>5. CASE Kills(c)
    <3>1. Closes
      BY <2>5, KillCloses
    <3>2. run' = run \/ run.st \notin {"parked", "finalized"}
          \/ (run'.n = run.n /\ run.st \in {"parked", "finalized"} /\ run'.st = "finalized")
      BY <2>5 DEF Kills
    <3>3. ASSUME NEW d \in Client \ {c}, request[d].at \in Verb PROVE Good(d)
      <4>1. request[d].ask \in DOMAIN asks /\ request'[d] = request[d]
        BY <1>0, <2>0, <3>3
      <4>2. /\ request[d].ask \in DOMAIN asks' /\ Ask(d)'.kind = Ask(d).kind
            /\ Ask(d)'.status = "open" => Ask(d)' = Ask(d)
        BY <3>1, <4>1 DEF Closes, Ask
      <4> QED
        BY <3>2, <3>3, <4>1, <4>2, WishesKept
    <3>4. Good(c)
      BY <2>5 DEF Kills, Verb
    <3> QED
      BY <2>0, <3>3, <3>4 DEF Wishes, Ask
  <2> QED
    BY <1>5, <2>2, <2>3, <2>4, <2>5 DEF ClientKinds
<1> QED
  BY <1>2, <1>3, <1>4, <1>5 DEF StepKind

-----------------------------------------------------------------------------
(* The count of the rounds.                                                 *)

LEMMA UsedMore ==
  ASSUME Shape, NEW k \in Nat, Used(k) PROVE Used(k + 1)
<1>1. ASSUME NEW c \in comments, c.by # NoAttempt, c.by[1] = run.n PROVE c.by[2] <= k + 1
  <2>1. c.by \in Nat \X Nat
    BY <1>1 DEF Shape, Comment, Attempt
  <2>2. c.by[2] \in Nat /\ c.by[2] <= k
    BY <1>1, <2>1 DEF Used
  <2> QED
    BY <2>2
<1> QED
  BY <1>1 DEF Used

\* The comments and the counts of other runs.
Others ==
    /\ \A c \in comments : c.by # NoAttempt => c.by[1] <= run.n
    /\ \A m \in Lineage : m > run.n => recorded[m] = 0
    /\ run.st = "queued" => Even(0)
    /\ run.st = "parked" =>
          IF asks[Last].kind = "infra" THEN Restarts ELSE Even(Len(asks[Last].rounds))

\* What Reckoned says at each point of a leg.
Counted ==
    /\ leg.at = "entry" => leg.rounds = <<>> /\ leg.start = 1 /\ leg.rev = 1 /\ Restarts
    /\ leg.at \in {"mint", "malformed", "judge"} => Ahead(Len(leg.rounds)) \/ Doomed
    /\ leg.at = "verdict" => Even(Len(leg.rounds)) \/ Doomed
    /\ leg.at \in {"findings", "decide", "guidance", "collect", "stamp"} => Even(Len(leg.rounds))
    /\ leg.at \in {"revise", "next"} => Ahead(Len(leg.rounds))
    /\ leg.at \in {"raise", "attention", "park"} =>
          IF leg.kind = "infra" THEN Restarts ELSE Even(Len(leg.rounds))
    /\ leg.at = "guidance" => leg.start > 1
    /\ leg # NoLeg /\ leg.start = 1 /\ (leg.rev > 1 \/ leg.at \in {"findings", "decide", "collect", "stamp", "revise", "next"})
          => 1 \in verdicts
    /\ leg.at \in {"verdict", "findings", "decide"} => leg.kind # "infra"

LEMMA ReckonedIs == Reckoned <=> Others /\ Counted
  BY DEF Reckoned, Others, Counted

\* The count stands while a step records nothing and stamps nothing.
Still ==
    /\ UNCHANGED recorded /\ run'.n = run.n /\ verdicts \subseteq verdicts'
    /\ \A c \in comments' : c \in comments \/ c.by = NoAttempt

\* The same predicates of the state a step ends in.
UsedThen(k)  == \A c \in comments' : c.by # NoAttempt /\ c.by[1] = run'.n => c.by[2] <= k
EvenThen(k)  == recorded'[run'.n] = k /\ UsedThen(k)
AheadThen(k) == recorded'[run'.n] = k /\ UsedThen(k + 1)
RestartsThen == EvenThen(0) \/ 1 \in verdicts'
DoomedThen   == leg'.start = 1 /\ leg'.rev = 1 /\ 1 \in verdicts'

CountedThen ==
    /\ leg'.at = "entry" => leg'.rounds = <<>> /\ leg'.start = 1 /\ leg'.rev = 1 /\ RestartsThen
    /\ leg'.at \in {"mint", "malformed", "judge"} => AheadThen(Len(leg'.rounds)) \/ DoomedThen
    /\ leg'.at = "verdict" => EvenThen(Len(leg'.rounds)) \/ DoomedThen
    /\ leg'.at \in {"findings", "decide", "guidance", "collect", "stamp"} => EvenThen(Len(leg'.rounds))
    /\ leg'.at \in {"revise", "next"} => AheadThen(Len(leg'.rounds))
    /\ leg'.at \in {"raise", "attention", "park"} =>
          IF leg'.kind = "infra" THEN RestartsThen ELSE EvenThen(Len(leg'.rounds))
    /\ leg'.at = "guidance" => leg'.start > 1
    /\ leg' # NoLeg /\ leg'.start = 1
          /\ (leg'.rev > 1 \/ leg'.at \in {"findings", "decide", "collect", "stamp", "revise", "next"})
          => 1 \in verdicts'
    /\ leg'.at \in {"verdict", "findings", "decide"} => leg'.kind # "infra"

OthersThen ==
    /\ \A c \in comments' : c.by # NoAttempt => c.by[1] <= run'.n
    /\ \A m \in Lineage : m > run'.n => recorded'[m] = 0
    /\ run'.st = "queued" => EvenThen(0)
    /\ run'.st = "parked" =>
          IF asks'[Last'].kind = "infra" THEN RestartsThen ELSE EvenThen(Len(asks'[Last'].rounds))

LEMMA ThenIs ==
  /\ CountedThen => Counted'
  /\ OthersThen => Others'
<1>1. CountedThen => Counted'
  BY DEF CountedThen, Counted, UsedThen, EvenThen, AheadThen, RestartsThen, DoomedThen, Used, Even, Ahead,
         Restarts, Doomed
<1>2. OthersThen => Others'
  BY DEF OthersThen, Others, UsedThen, EvenThen, RestartsThen, Used, Even, Restarts
<1> QED
  BY <1>1, <1>2

LEMMA StillCounts ==
  ASSUME Still
  PROVE  /\ \A k : Used(k) => UsedThen(k)
         /\ \A k : Even(k) => EvenThen(k)
         /\ \A k : Ahead(k) => AheadThen(k)
         /\ Restarts => RestartsThen
<1>1. recorded'[run'.n] = recorded[run.n]
  BY DEF Still
<1>2. \A k : Used(k) => UsedThen(k)
  BY DEF Still, Used, UsedThen
<1>3. \A k : Even(k) => EvenThen(k)
  BY <1>1, <1>2 DEF Even, EvenThen
<1>4. \A k : Ahead(k) => AheadThen(k)
  BY <1>1, <1>2 DEF Ahead, AheadThen
<1> QED
  BY <1>2, <1>3, <1>4 DEF Restarts, RestartsThen, Still

LEMMA OthersStill ==
  ASSUME Others, Still,
         run'.st = "queued" => run.st = "queued",
         run'.st = "parked" => run.st = "parked" /\ asks' = asks
  PROVE  Others'
<1>1. \A c \in comments' : c.by # NoAttempt => c.by[1] <= run'.n
  BY DEF Others, Still
<1>2. \A m \in Lineage : m > run'.n => recorded'[m] = 0
  BY DEF Others, Still
<1>3. run'.st = "queued" => EvenThen(0)
  BY StillCounts DEF Others
<1>4. run'.st = "parked" =>
          IF asks'[Last'].kind = "infra" THEN RestartsThen ELSE EvenThen(Len(asks'[Last'].rounds))
  BY StillCounts DEF Others, Last
<1> QED
  BY <1>1, <1>2, <1>3, <1>4, ThenIs DEF OthersThen

LEMMA NoneCounts ==
  ASSUME leg' = NoLeg PROVE Counted'
<1>1. leg'.at = "none"
  BY NotDriven
<1> QED
  BY <1>1 DEF Counted

\* A leg that stays where it is.
LEMMA StaysCounts ==
  ASSUME Counted, Still, leg' = leg PROVE Counted'
<1>1. CountedThen
  BY StillCounts DEF Counted, CountedThen, Doomed, DoomedThen, Still
<1> QED
  BY <1>1, ThenIs

LEMMA TurnsCount ==
  ASSUME Shape, Driven, Others, Counted, Turns PROVE Others' /\ Counted'
<1>1. Still /\ leg \in Legs /\ leg # NoLeg /\ leg' \in Legs /\ SameWork
  BY NotDriven DEF Turns, Still, Drives, SameStore
<1>2. Others'
  BY <1>1, OthersStill DEF Turns, Driven, SameDesk
<1>3. /\ \A k : Even(k) => EvenThen(k)
      /\ \A k : Ahead(k) => AheadThen(k)
      /\ Restarts => RestartsThen
      /\ verdicts' = verdicts
  BY <1>1, StillCounts DEF Turns, SameStore
<1>4. leg.rev \in Nat \ {0} /\ leg.start \in Nat \ {0}
  BY <1>1 DEF Legs
<1>5. CASE leg.at = "entry" /\ leg'.at = "mint" /\ SameCase
  <2>1. leg.rounds = <<>> /\ leg.start = 1 /\ leg.rev = 1 /\ Restarts
    BY <1>5 DEF Counted
  <2>2. Even(0) => Ahead(0)
    BY UsedMore DEF Even, Ahead
  <2>3. AheadThen(Len(leg'.rounds)) \/ DoomedThen
    BY <1>1, <1>3, <2>1, <2>2 DEF Restarts, DoomedThen, SameWork
  <2>4. CountedThen
    BY <1>1, <1>5, <2>1, <2>3 DEF CountedThen, SameWork
  <2> QED
    BY <1>2, <2>4, ThenIs
<1>6. CASE leg.at = "next" /\ leg'.at = "mint" /\ SameCase
  <2>1. CountedThen
    BY <1>1, <1>3, <1>6 DEF Counted, CountedThen, SameWork
  <2> QED
    BY <1>2, <2>1, ThenIs
<1>7. CASE leg.at \in {"entry", "next"} /\ leg'.at = "raise" /\ leg'.kind = "infra" /\ leg.start = 1
  <2>1. Restarts
    BY <1>1, <1>7 DEF Counted, Restarts
  <2>2. leg.start = 1 /\ leg.rev > 1 => 1 \in verdicts
    BY <1>1 DEF Counted
  <2>3. CountedThen
    BY <1>1, <1>3, <1>7, <2>1, <2>2 DEF CountedThen, SameWork
  <2> QED
    BY <1>2, <2>3, ThenIs
<1>8. CASE leg.at \in {"collect", "attention", "ship"} /\ leg'.at \in {"stamp", "park", "complete"} /\ SameCase
           /\ (leg'.at = "stamp" => leg.at = "collect") /\ (leg'.at = "park" => leg.at = "attention")
  <2>1. CountedThen
    BY <1>1, <1>3, <1>8 DEF Counted, CountedThen, SameWork, SameCase
  <2> QED
    BY <1>2, <2>1, ThenIs
<1> QED
  BY <1>5, <1>6, <1>7, <1>8 DEF Turns

\* A step of the leg that records nothing and stamps nothing.
LEMMA StillStep ==
  ASSUME Shape, Driven, Others, Counted,
         Mints \/ Pins \/ Files \/ Decides \/ Reworks \/ Raises
  PROVE  /\ Still /\ leg \in Legs /\ leg # NoLeg /\ leg' \in Legs /\ Others'
         /\ \A k : Even(k) => EvenThen(k)
         /\ \A k : Ahead(k) => AheadThen(k)
         /\ Restarts => RestartsThen
         /\ leg.rev \in Nat \ {0} /\ leg.start \in Nat \ {0}
         /\ leg'.rounds = leg.rounds /\ leg'.start = leg.start /\ (1 \in verdicts => 1 \in verdicts')
<1>1. leg \in Legs /\ leg # NoLeg /\ leg' \in Legs /\ run' = run /\ run.st \in {"running", "completed"}
  BY NotDriven DEF Mints, Pins, Files, Decides, Reworks, Raises, Drives, Driven
<1>2. Still
  <2>1. verdicts \subseteq verdicts' /\ UNCHANGED recorded
    BY DEF Mints, Pins, Files, Decides, Reworks, Raises, SameStore
  <2>2. \A c \in comments' : c \in comments \/ c.by = NoAttempt
    BY DEF Mints, Pins, Files, Decides, Reworks, Raises, SameStore
  <2> QED
    BY <1>1, <2>1, <2>2 DEF Still
<1>3. Others'
  BY <1>1, <1>2, OthersStill
<1>4. leg'.rounds = leg.rounds /\ leg'.start = leg.start
  BY DEF Mints, Pins, Files, Decides, Reworks, Raises, SameWork
<1> QED
  BY <1>1, <1>2, <1>3, <1>4, StillCounts DEF Legs, Still

LEMMA StillStepCounts ==
  ASSUME Shape, Driven, Slots, Others, Counted,
         Mints \/ Pins \/ Files \/ Decides \/ Reworks \/ Raises
  PROVE  Others' /\ Counted'
<1>0. /\ Still /\ leg \in Legs /\ leg # NoLeg /\ leg' \in Legs /\ Others'
      /\ \A k : Even(k) => EvenThen(k)
      /\ \A k : Ahead(k) => AheadThen(k)
      /\ Restarts => RestartsThen
      /\ leg.rev \in Nat \ {0} /\ leg.start \in Nat \ {0}
      /\ leg'.rounds = leg.rounds /\ leg'.start = leg.start /\ (1 \in verdicts => 1 \in verdicts')
  BY StillStep
<1>1. CASE Mints
  <2>1. leg.at = "mint" /\ leg'.at \in {"malformed", "judge"} /\ leg'.rev = leg.rev
    BY <1>1 DEF Mints, SameWork
  <2>2. CountedThen
    BY <1>0, <2>1 DEF Counted, CountedThen, Doomed, DoomedThen
  <2> QED
    BY <1>0, <2>2, ThenIs
<1>2. CASE Pins
  <2>1. leg.at = "verdict" /\ leg'.at = "findings" /\ leg'.rev = leg.rev /\ leg'.kind = leg.kind
        /\ leg.rev \notin verdicts /\ leg.rev \in verdicts'
    BY <1>2 DEF Pins, SameWork, SameCase
  <2>2. CountedThen
    BY <1>0, <2>1 DEF Counted, CountedThen, Doomed
  <2> QED
    BY <1>0, <2>2, ThenIs
<1>3. CASE Files
  <2>1. /\ leg'.rev = leg.rev /\ leg'.kind = leg.kind
        /\ \/ leg.at = "findings" /\ leg'.at = "decide"
           \/ leg.at = "guidance" /\ leg'.at = "collect"
    BY <1>3 DEF Files, SameWork, SameCase
  <2>2. CountedThen
    BY <1>0, <2>1 DEF Counted, CountedThen
  <2> QED
    BY <1>0, <2>2, ThenIs
<1>4. CASE Decides
  <2>1. /\ leg.at = "decide" /\ leg'.rev = leg.rev
        /\ leg'.at \in {"ship", "raise", "collect"} /\ (leg'.at = "raise" => leg'.kind # "infra")
    BY <1>4 DEF Decides, SameWork
  <2>2. CountedThen
    BY <1>0, <2>1 DEF Counted, CountedThen
  <2> QED
    BY <1>0, <2>2, ThenIs
<1>5. CASE Reworks
  <2>1. leg.at = "revise" /\ leg'.at \in {"mint", "next"}
    BY <1>5 DEF Reworks
  <2>2. CountedThen
    BY <1>0, <2>1 DEF Counted, CountedThen
  <2> QED
    BY <1>0, <2>2, ThenIs
<1>6. CASE Raises
  <2>1. leg.at = "raise" /\ leg'.at = "attention" /\ leg'.rev = leg.rev /\ leg'.kind = leg.kind
    BY <1>6 DEF Raises, SameWork, SameCase
  <2>2. CountedThen
    BY <1>0, <2>1 DEF Counted, CountedThen
  <2> QED
    BY <1>0, <2>2, ThenIs
<1> QED
  BY <1>1, <1>2, <1>3, <1>4, <1>5, <1>6

LEMMA RecordsCount ==
  ASSUME Shape, Driven, Slots, Others, Counted, Records PROVE Others' /\ Counted'
<1> DEFINE k == Len(leg.rounds)
<1>1. /\ leg \in Legs /\ leg # NoLeg /\ leg' \in Legs /\ run' = run /\ run.st \in {"running", "completed"}
      /\ leg'.rev = leg.rev /\ leg'.start = leg.start /\ verdicts' = verdicts /\ comments' = comments
      /\ recorded' = [recorded EXCEPT ![run.n] = recorded[run.n] + 1]
      /\ run.n \in Lineage /\ recorded \in [Lineage -> Nat]
  BY NotDriven DEF Records, Drives, Driven, SameStore, Shape
<1>2. k \in Nat /\ Len(leg'.rounds) = k + 1 /\ leg.rev \in Nat \ {0}
  <2>1. leg.rounds \in Seq(Round) /\ leg.similar \in BOOLEAN /\ leg.rev \in Nat \ {0}
    BY <1>1 DEF Legs
  <2>2. PICK found \in Blockers : leg'.rounds = Append(leg.rounds, [found |-> found, alike |-> leg.similar])
    BY DEF Records
  <2> QED
    BY <2>1, <2>2 DEF Round
<1>3. Ahead(k) => EvenThen(k + 1)
  <2>1. \A j : Used(j) => UsedThen(j)
    BY <1>1 DEF Used, UsedThen
  <2>2. recorded'[run'.n] = recorded[run.n] + 1
    BY <1>1
  <2> QED
    BY <2>1, <2>2 DEF Ahead, EvenThen
<1>4. Others'
  <2>1. \A m \in Lineage : m > run'.n => recorded'[m] = 0
    <3>1. run.n \in Nat
      BY <1>1, Constants DEF Lineage
    <3> QED
      BY <1>1, <3>1 DEF Others
  <2> QED
    BY <1>1, <2>1, ThenIs DEF Others, OthersThen
<1>5. Doomed => DoomedThen
  BY <1>1 DEF Doomed, DoomedThen
<1>6. CASE leg.at = "judge" /\ leg'.at = "verdict" /\ leg'.kind \notin {"infra", "cap"}
  <2>1. CountedThen
    BY <1>1, <1>2, <1>3, <1>5, <1>6 DEF Counted, CountedThen
  <2> QED
    BY <1>4, <2>1, ThenIs
<1>7. CASE leg.at = "malformed" /\ leg'.at = "raise" /\ leg'.kind = "malformed"
  <2>1. ~ Doomed
    BY <1>7 DEF Slots, Doomed
  <2>2. CountedThen
    BY <1>1, <1>2, <1>3, <1>7, <2>1 DEF Counted, CountedThen
  <2> QED
    BY <1>4, <2>2, ThenIs
<1> QED
  BY <1>6, <1>7 DEF Records

LEMMA StampsCount ==
  ASSUME Shape, Driven, Others, Counted, Stamps PROVE Others' /\ Counted'
<1> DEFINE k == Len(leg.rounds)
           a == AttemptOf(NextRound)
<1>1. /\ leg \in Legs /\ leg # NoLeg /\ leg' \in Legs /\ run' = run /\ run.st \in {"running", "completed"}
      /\ leg'.rev = leg.rev /\ leg'.start = leg.start /\ leg'.rounds = leg.rounds
      /\ verdicts' = verdicts /\ recorded' = recorded /\ leg.at = "stamp" /\ leg'.at = "revise"
      /\ comments \subseteq Comment /\ leg.batch \subseteq comments
  BY NotDriven DEF Stamps, Drives, Driven, SameWork, Shape, OpenComments
<1>2. k \in Nat /\ run.n \in Nat /\ a[1] = run.n /\ a[2] = k + 1
  BY <1>1, Constants DEF Legs, AttemptOf, NextRound, Shape, Lineage
<1>3. \A c \in comments' : c \in comments \/ c.by = a
  <2>1. \A c \in leg.batch : [c EXCEPT !.by = a].by = a
    BY <1>1 DEF Comment
  <2> QED
    BY <2>1 DEF Stamps
<1>4. Ahead(k) => AheadThen(k)
  BY <1>1, <1>2, <1>3 DEF Ahead, AheadThen, Used, UsedThen
<1>5. Even(k) => Ahead(k)
  BY <1>2, UsedMore DEF Even, Ahead
<1>6. OthersThen
  <2>1. \A c \in comments' : c.by # NoAttempt => c.by[1] <= run'.n
    BY <1>1, <1>2, <1>3 DEF Others
  <2> QED
    BY <1>1, <2>1 DEF Others, OthersThen
<1>7. CountedThen
  BY <1>1, <1>4, <1>5 DEF Counted, CountedThen
<1> QED
  BY <1>6, <1>7, ThenIs

LEMMA RunStepCounts ==
  ASSUME Shape, Driven, Cards, Others, Counted, Starts \/ Parks \/ Ends \/ Dies \/ Remarks
  PROVE  Others' /\ Counted'
<1>1. Still
  BY DEF Starts, Parks, Ends, Dies, Remarks, SameStore, Still
<1>2. /\ \A k : Even(k) => EvenThen(k)
      /\ \A k : Ahead(k) => AheadThen(k)
      /\ Restarts => RestartsThen
  BY <1>1, StillCounts
<1>3. CASE Starts
  <2>1. Restarts /\ leg' = FreshLeg /\ run'.st = "running"
    BY <1>3 DEF Starts, Others, Restarts
  <2>2. CountedThen
    BY <1>2, <2>1, FreshIs DEF CountedThen
  <2>3. Others'
    BY <1>1, <2>1, OthersStill
  <2> QED
    BY <2>2, <2>3, ThenIs
<1>4. CASE Parks
  <2>1. leg' = NoLeg /\ leg.at = "park" /\ asks' = asks /\ run'.st = "parked" /\ run'.n = run.n
    BY <1>4 DEF Parks, SameDesk
  <2>2. asks[Last].kind = leg.kind /\ (leg.kind # "infra" => asks[Last].rounds = leg.rounds)
    BY <2>1 DEF Cards, Card
  <2>3. IF leg.kind = "infra" THEN Restarts ELSE Even(Len(leg.rounds))
    BY <2>1 DEF Counted
  <2>4. IF asks'[Last'].kind = "infra" THEN RestartsThen ELSE EvenThen(Len(asks'[Last'].rounds))
    BY <1>2, <2>1, <2>2, <2>3 DEF Last
  <2>5. OthersThen
    BY <1>1, <2>1, <2>4 DEF Others, OthersThen, Still
  <2> QED
    BY <2>1, <2>5, ThenIs, NoneCounts
<1>5. CASE Ends
  <2>1. Others'
    BY <1>1, <1>5, OthersStill DEF Ends
  <2> QED
    BY <1>5, <2>1, NoneCounts DEF Ends
<1>6. CASE Dies
  <2>1. Others'
    BY <1>1, <1>6, OthersStill DEF Dies
  <2> QED
    BY <1>6, <2>1, NoneCounts DEF Dies
<1>7. CASE Remarks
  <2>1. Others'
    BY <1>1, <1>7, OthersStill DEF Remarks, SameDesk
  <2> QED
    BY <1>1, <1>7, <2>1, StaysCounts DEF Remarks
<1> QED
  BY <1>3, <1>4, <1>5, <1>6, <1>7

LEMMA ForksCount ==
  ASSUME Shape, Driven, Others, Forks, run' \in Run PROVE Others' /\ Counted'
<1>1. leg' = NoLeg /\ recorded' = recorded /\ verdicts' = verdicts /\ comments' = comments
  BY DEF Forks, Driven, SameStore
<1>2. run.n \in Nat /\ run'.n \in Lineage /\ \A m \in Lineage : m \in Nat
  BY Constants DEF Shape, Lineage, Run
<1>3. \A c \in comments : c.by # NoAttempt => c.by[1] \in Nat
  BY DEF Shape, Comment, Attempt
<1>4. CASE run'.n = run.n /\ run'.st = "tombstoned"
  <2>1. OthersThen
    BY <1>1, <1>4 DEF Others, OthersThen
  <2> QED
    BY <1>1, <2>1, ThenIs, NoneCounts
<1>5. CASE run'.n = run.n + 1 /\ run'.st = "queued"
  <2>1. UsedThen(0)
    BY <1>1, <1>2, <1>3, <1>5 DEF Others, UsedThen
  <2>2. EvenThen(0)
    BY <1>1, <1>2, <1>5, <2>1 DEF Others, EvenThen
  <2>3. \A c \in comments' : c.by # NoAttempt => c.by[1] <= run'.n
    BY <1>1, <1>2, <1>3, <1>5 DEF Others
  <2>4. \A m \in Lineage : m > run'.n => recorded'[m] = 0
    BY <1>1, <1>2, <1>5 DEF Others
  <2>5. OthersThen
    BY <1>5, <2>2, <2>3, <2>4 DEF OthersThen
  <2> QED
    BY <1>1, <2>5, ThenIs, NoneCounts
<1> QED
  BY <1>4, <1>5 DEF Forks

LEMMA ClientStepCounts ==
  ASSUME Shape, Driven, Cards, Wishes, Others, Counted, NEW c \in Client, ClientKinds(c)
  PROVE  Others' /\ Counted'
<1>1. Still
  BY DEF ClientKinds, Reads, Resumes, Settles, Drops, Kills, Asks, SameStore, Still
<1>2. /\ \A k : Even(k) => EvenThen(k)
      /\ \A k : Ahead(k) => AheadThen(k)
      /\ Restarts => RestartsThen
  BY <1>1, StillCounts
<1>3. CASE Reads(c) \/ Drops(c)
  <2>1. Others'
    BY <1>1, <1>3, OthersStill DEF Reads, Drops
  <2> QED
    BY <1>1, <1>3, <2>1, StaysCounts, NoneCounts DEF Reads, Drops
<1>4. CASE Settles(c) \/ Kills(c)
  <2>1. Others'
    BY <1>1, <1>4, OthersStill DEF Settles, Kills
  <2> QED
    BY <1>1, <1>4, <2>1, StaysCounts DEF Settles, Kills
<1>5. CASE Resumes(c) /\ (request[c].at = "revise" => Ask(c).rounds # <<>>)
  <2>1. /\ run.st = "parked" /\ run'.st = "running" /\ run'.n = run.n /\ request[c].at \in {"retry", "revise"}
        /\ leg' = IF request[c].at = "retry" THEN FreshLeg ELSE ResumedLeg(Ask(c))
    BY <1>5 DEF Resumes
  <2>2. Others'
    BY <1>1, <2>1, OthersStill
  <2>3. /\ request[c].ask = Last /\ request[c].ask \in DOMAIN asks /\ Ask(c) \in CardRow
        /\ Ask(c).kind \in CardKind /\ request[c].at \in Choices(Ask(c).kind)
    BY <1>5, <2>1, LastCloses, AnswerCloses, CardsAre DEF Wishes, Ask
  <2>4. CASE request[c].at = "retry"
    <3>1. Ask(c).kind = "infra"
      BY <2>3, <2>4 DEF Choices, CardKind
    <3>2. Restarts
      BY <2>1, <2>3, <3>1 DEF Others, Ask
    <3>3. CountedThen
      BY <1>2, <2>1, <2>4, <3>2, FreshIs DEF CountedThen
    <3> QED
      BY <2>2, <3>3, ThenIs
  <2>5. CASE request[c].at = "revise"
    <3>1. Ask(c).kind # "infra"
      BY <2>3, <2>5 DEF Choices, CardKind
    <3>2. Even(Len(Ask(c).rounds))
      BY <2>1, <2>3, <3>1 DEF Others, Ask
    <3> DEFINE r == ResumedLeg(Ask(c))
    <3>3. r.at = "guidance" /\ r.rounds = Ask(c).rounds /\ r.start = Len(Ask(c).rounds) + 1
      BY <1>5, <2>3, <2>5, ResumedIs
    <3>4. Len(Ask(c).rounds) \in Nat \ {0}
      BY <1>5, <2>3, <2>5 DEF CardRow
    <3>5. leg' = r
      BY <2>1, <2>5
    <3> HIDE DEF r
    <3>6. CountedThen
      BY <1>2, <3>2, <3>3, <3>4, <3>5 DEF CountedThen
    <3> QED
      BY <2>2, <3>6, ThenIs
  <2> QED
    BY <2>1, <2>4, <2>5
<1> QED
  BY <1>3, <1>4, <1>5 DEF ClientKinds

LEMMA ReckonedMoves ==
  ASSUME Shape, Driven, Slots, Cards, Wishes, Reckoned, StepKind, run' \in Run PROVE Reckoned'
<1>1. Others /\ Counted
  BY ReckonedIs
<1>2. Others' /\ Counted'
  <2>1. CASE Turns
    BY <1>1, <2>1, TurnsCount
  <2>2. CASE Mints \/ Pins \/ Files \/ Decides \/ Reworks \/ Raises
    BY <1>1, <2>2, StillStepCounts
  <2>3. CASE Records
    BY <1>1, <2>3, RecordsCount
  <2>4. CASE Stamps
    BY <1>1, <2>4, StampsCount
  <2>5. CASE Starts \/ Parks \/ Ends \/ Dies \/ Remarks
    BY <1>1, <2>5, RunStepCounts
  <2>6. CASE Forks
    BY <1>1, <2>6, ForksCount
  <2>7. CASE \E c \in Client : ClientKinds(c)
    BY <1>1, <2>7, ClientStepCounts
  <2> QED
    BY <2>1, <2>2, <2>3, <2>4, <2>5, <2>6, <2>7 DEF StepKind, LegKinds
<1>3. (Others' /\ Counted') => Reckoned'
  BY DEF Reckoned, Others, Counted
<1> QED
  BY <1>2, <1>3

-----------------------------------------------------------------------------
(* The brief.                                                               *)

\* The attempts of this run that comments carry, and those of a batch.
LEMMA BriefKept ==
  ASSUME Shape, Briefed, leg \in Legs, leg' = leg, run'.n = run.n,
         \A c \in comments' : c \in comments \/ c.by = NoAttempt, comments \subseteq comments'
  PROVE  Briefed'
<1> DEFINE a == AttemptOf(NextRound)
<1>1. a' = a /\ a # NoAttempt
  <2>1. a \in Nat \X Nat
    BY Constants DEF AttemptOf, NextRound, Legs, Shape, Lineage
  <2> QED
    BY <2>1, AttemptAssumption DEF AttemptAssumption, AttemptOf, NextRound
<1> HIDE DEF a
<1>2. { c \in comments' : c.by = a } = { c \in comments : c.by = a }
  BY <1>1
<1>3. leg.at = "revise" => { c \in comments : c.by = a } = { [c EXCEPT !.by = a] : c \in leg.batch }
  BY DEF Briefed, BriefIsWhatWasConsumed, a
<1>4. leg'.at = "revise" => { c \in comments' : c.by = a } = { [c EXCEPT !.by = a] : c \in leg'.batch }
  BY <1>2, <1>3
<1> QED
  BY <1>1, <1>4 DEF Briefed, BriefIsWhatWasConsumed, a

LEMMA BriefStamped ==
  ASSUME Shape, Counted, Stamps PROVE Briefed'
<1> DEFINE a == AttemptOf(NextRound)
           stamped == { [c EXCEPT !.by = a] : c \in leg.batch }
<1>1. leg \in Legs /\ leg.at = "stamp" /\ leg.batch \subseteq comments /\ comments \subseteq Comment /\ run.n \in Nat
      /\ comments' = (comments \ leg.batch) \cup stamped /\ leg'.batch = leg.batch /\ leg'.rounds = leg.rounds
      /\ run' = run
  BY Constants DEF Stamps, Drives, OpenComments, Shape, Lineage, SameWork
<1>2. a' = a /\ a = <<run.n, Len(leg.rounds) + 1>> /\ Len(leg.rounds) \in Nat
  BY <1>1 DEF AttemptOf, NextRound, Legs
<1>3. a # NoAttempt /\ a[1] = run.n /\ a[2] = Len(leg.rounds) + 1
  BY <1>1, <1>2, AttemptAssumption DEF AttemptAssumption
<1>4. Even(Len(leg.rounds))
  BY <1>1 DEF Counted
<1>5. \A c \in comments : c.by # a
  BY <1>2, <1>3, <1>4 DEF Even, Used
<1>6. \A c \in leg.batch : [c EXCEPT !.by = a].by = a
  BY <1>1 DEF Comment
<1> HIDE DEF a
<1>7. { c \in comments' : c.by = a } = stamped
  BY <1>1, <1>5, <1>6
<1> QED
  BY <1>1, <1>2, <1>7 DEF Briefed, BriefIsWhatWasConsumed, a

LEMMA BriefMoves ==
  ASSUME Shape, Driven, Counted, Briefed, StepKind PROVE Briefed'
<1>1. CASE Stamps
  BY <1>1, BriefStamped
<1>2. CASE leg'.at # "revise"
  BY <1>2 DEF Briefed, BriefIsWhatWasConsumed
<1>3. ASSUME ~ Stamps, leg'.at = "revise" PROVE Briefed'
  <2>1. ~ LegKinds
    BY <1>3, NotDriven, FreshIs DEF LegKinds, Turns, Mints, Records, Pins, Files, Decides, Reworks, Raises,
       Starts, Parks, Ends
  <2>2. ~ Dies
    BY <1>3, NotDriven DEF Dies
  <2>3. CASE Forks
    BY <1>3, <2>3, NotDriven DEF Forks, Driven
  <2>4. CASE Remarks
    <3>1. leg' = leg /\ leg \in Legs /\ run' = run
      BY <1>3, <2>4, NotDriven DEF Remarks, Shape
    <3> QED
      BY <2>4, <3>1, BriefKept DEF Remarks
  <2>5. ASSUME NEW c \in Client, ClientKinds(c) PROVE Briefed'
    <3>1. comments' = comments
      BY <2>5 DEF ClientKinds, Reads, Resumes, Settles, Drops, Kills, Asks, SameStore
    <3>2. leg' = leg
      BY <1>3, <2>5, NotDriven, FreshIs DEF ClientKinds, Reads, Resumes, Settles, Drops, Kills, ResumedLeg, FreshLeg
    <3>3. leg \in Legs /\ run'.n = run.n
      BY <1>3, <2>5, <3>2, NotDriven DEF ClientKinds, Reads, Resumes, Settles, Drops, Kills, Shape
    <3> QED
      BY <3>1, <3>2, <3>3, BriefKept
  <2> QED
    BY <2>1, <2>2, <2>3, <2>4, <2>5 DEF StepKind
<1> QED
  BY <1>1, <1>2, <1>3

-----------------------------------------------------------------------------
(* The stop rules.                                                          *)

LEMMA PacedNone ==
  ASSUME leg' = NoLeg PROVE Paced'
<1>1. leg'.at = "none"
  BY NotDriven
<1> QED
  BY <1>1 DEF Paced, Before, Fresh

LEMMA PacedSame ==
  ASSUME Paced, leg' = leg PROVE Paced'
  BY DEF Paced, Trails, Seen, First, Same, LastRound, NextRound, Resumed, Inert, AtCap

\* A step between two points of the same side of a round.
LEMMA PacedOn ==
  ASSUME Shape, Counted, Paced, leg \in Legs, leg' \in Legs, leg'.rounds = leg.rounds, leg'.start = leg.start, SameStop,
         \/ leg.at \in Before /\ leg'.at \in Before
         \/ leg.at \in Fresh /\ leg'.at \in Fresh /\ leg'.similar = leg.similar,
         leg'.at # "guidance",
         leg'.at \in {"collect", "stamp", "revise"} => leg.at \in {"guidance", "collect", "stamp", "revise"}
  PROVE  Paced'
<1>1. leg # NoLeg /\ leg' # NoLeg /\ (leg.at \in Before <=> leg'.at \in Before)
      /\ (leg.at \in Fresh <=> leg'.at \in Fresh) /\ leg'.at # "raise"
  BY NotDriven DEF Before, Fresh
<1>2. Seen' = Seen /\ First' = First /\ \A k : Same(k)' <=> Same(k)
  BY <1>1 DEF Seen, First, Same
<1>3. Trails => Trails'
  BY <1>1 DEF Trails, Seen, First, Same, SameStop
<1>4. leg'.at \in Before => Len(leg'.rounds) + 1 - leg'.start < ReworkRounds
  BY <1>1 DEF Paced
<1>7. leg'.at \in Fresh => leg'.rounds # <<>> /\ leg'.start <= Len(leg'.rounds) /\ LastRound'.alike = leg'.similar
  <2>1. leg'.at \in Fresh => leg'.similar = leg.similar /\ leg.at \in Fresh
    BY DEF Before, Fresh
  <2>2. LastRound' = LastRound
    BY DEF LastRound
  <2> QED
    BY <2>1, <2>2 DEF Paced
<1>8. leg'.start <= Len(leg'.rounds) + 1 /\ Len(leg'.rounds) + 1 - leg'.start <= ReworkRounds
  BY <1>1 DEF Paced
<1>5. leg'.at \in Before \cup Fresh =>
          /\ Trails'
          /\ leg'.seeded <=> Seen' > 0
          /\ leg'.seeded => leg'.last = leg'.rounds[Seen'].found
          /\ ~ leg'.seeded => leg'.start = 1 /\ leg'.recur = 0 /\ leg'.alike = 0
  BY <1>1, <1>2, <1>3 DEF Paced, SameStop
<1>6. leg'.at \in {"collect", "stamp", "revise"} =>
          (Resumed' /\ leg'.start = NextRound') \/ (leg'.recur < Patience /\ leg'.alike < Patience)
  <2>1. ASSUME leg.at = "guidance" PROVE Resumed' /\ leg'.start = NextRound'
    <3>1. leg.start = NextRound /\ leg.start > 1
      BY <2>1 DEF Paced, Counted
    <3> QED
      BY <3>1 DEF NextRound, Resumed
  <2> QED
    BY <2>1 DEF Paced, SameStop, Resumed, NextRound
<1> QED
  BY <1>1, <1>4, <1>5, <1>6, <1>7, <1>8 DEF Paced

\* A step out of the rounds.
LEMMA PacedOff ==
  ASSUME Paced, leg \in Legs, leg' \in Legs, leg'.rounds = leg.rounds, leg'.start = leg.start,
         leg'.at \in {"raise", "attention", "park", "ship", "complete"}, leg'.at = "raise" => leg'.kind # "cap"
  PROVE  Paced'
<1>1. leg # NoLeg /\ leg' # NoLeg /\ leg'.at \notin Before /\ leg'.at \notin Fresh
  BY NotDriven DEF Before, Fresh
<1> QED
  BY <1>1 DEF Paced

LEMMA PacedTurns ==
  ASSUME Shape, Counted, Paced, Turns PROVE Paced'
<1>1. leg \in Legs /\ leg' \in Legs /\ leg'.rounds = leg.rounds /\ leg'.start = leg.start /\ SameStop
  BY DEF Turns, Drives, SameWork
<1>2. CASE leg'.at \in {"mint", "stamp"}
  BY <1>1, <1>2, PacedOn DEF Turns, Before
<1>3. CASE leg'.at \in {"raise", "park", "complete"}
  BY <1>1, <1>3, PacedOff DEF Turns
<1> QED
  BY <1>2, <1>3 DEF Turns

LEMMA PacedSteps ==
  ASSUME Shape, Counted, Paced, Mints \/ Pins \/ Files \/ Stamps \/ Reworks \/ Raises PROVE Paced'
<1>1. leg \in Legs /\ leg' \in Legs /\ leg'.rounds = leg.rounds /\ leg'.start = leg.start /\ SameStop
  BY DEF Mints, Pins, Files, Stamps, Reworks, Raises, Drives, SameWork
<1>2. CASE Mints
  BY <1>1, <1>2, PacedOn DEF Mints, Before
<1>3. CASE Pins
  BY <1>1, <1>3, PacedOn DEF Pins, Fresh, SameCase
<1>4. CASE Files
  BY <1>1, <1>4, PacedOn DEF Files, Before, Fresh, SameCase
<1>5. CASE Stamps
  BY <1>1, <1>5, PacedOn DEF Stamps, Before
<1>6. CASE Reworks
  BY <1>1, <1>6, PacedOn DEF Reworks, Before
<1>7. CASE Raises
  BY <1>1, <1>7, PacedOff DEF Raises
<1> QED
  BY <1>2, <1>3, <1>4, <1>5, <1>6, <1>7

\* What a leg needs that has just recorded a round.
LEMMA PacedVerdict ==
  ASSUME leg'.at = "verdict", leg'.rounds # <<>>, leg'.start <= Len(leg'.rounds) + 1,
         leg'.start <= Len(leg'.rounds), Len(leg'.rounds) + 1 - leg'.start <= ReworkRounds,
         LastRound'.alike = leg'.similar, Trails', leg'.seeded <=> Seen' > 0,
         leg'.seeded => leg'.last = leg'.rounds[Seen'].found,
         ~ leg'.seeded => leg'.start = 1 /\ leg'.recur = 0 /\ leg'.alike = 0
  PROVE  Paced'
<1>1. leg'.at \notin Before
  BY DEF Before
<1> QED
  BY <1>1 DEF Paced

LEMMA PacedRecords ==
  ASSUME Shape, Paced, Records PROVE Paced'
<1> DEFINE k == Len(leg.rounds)
<1>1. /\ leg \in Legs /\ leg' \in Legs /\ leg # NoLeg /\ leg' # NoLeg /\ SameStop
      /\ leg'.start = leg.start /\ leg'.similar = leg.similar /\ leg.at \in Before
  BY NotDriven DEF Records, Drives, Before
<1>2. /\ k \in Nat /\ leg.start \in Nat \ {0} /\ Len(leg'.rounds) = k + 1 /\ leg'.rounds # <<>>
      /\ \A i \in 1..k : leg'.rounds[i] = leg.rounds[i]
      /\ leg'.rounds[k + 1].alike = leg.similar
      /\ leg.recur \in Nat /\ leg.alike \in Nat
  <2>1. leg.rounds \in Seq(Round) /\ leg.similar \in BOOLEAN /\ leg.start \in Nat \ {0}
        /\ leg.recur \in Nat /\ leg.alike \in Nat
    BY <1>1 DEF Legs
  <2>2. PICK found \in Blockers : leg'.rounds = Append(leg.rounds, [found |-> found, alike |-> leg.similar])
    BY DEF Records
  <2>3. [found |-> found, alike |-> leg.similar] \in Round /\ [found |-> found, alike |-> leg.similar].alike = leg.similar
    BY <2>1 DEF Round
  <2> HIDE DEF Round
  <2> QED
    BY <2>1, <2>2, <2>3
<1>3. leg.start <= k + 1 /\ k + 1 - leg.start < ReworkRounds
  BY <1>1 DEF Paced
<1>4. leg'.rounds # <<>> /\ leg'.start <= Len(leg'.rounds) + 1
      /\ Len(leg'.rounds) + 1 - leg'.start <= ReworkRounds
  <2>1. leg'.start = leg.start /\ leg.start \in Nat /\ k \in Nat /\ Len(leg'.rounds) = k + 1 /\ leg'.rounds # <<>>
    BY <1>1, <1>2
  <2> HIDE DEF k
  <2> QED
    BY <1>3, <2>1, Constants
<1>5. CASE leg'.at = "raise" /\ leg'.kind = "malformed"
  <2>1. leg'.at \notin Before /\ leg'.at \notin Fresh
    BY <1>5 DEF Before, Fresh
  <2> QED
    BY <1>1, <1>2, <1>4, <1>5, <2>1 DEF Paced
<1>6. CASE leg.at = "judge" /\ leg'.at = "verdict"
  <2>1. leg'.at \in Fresh /\ leg'.at \notin Before /\ leg.at \notin Fresh
    BY <1>6 DEF Before, Fresh
  <2>2. Seen = k /\ Seen' = k /\ First' = First /\ First \in Nat /\ First >= 2
    BY <1>1, <1>2, <2>1 DEF Seen, First
  <2>3. \A i \in 2..k : /\ i \in 1..k /\ i - 1 \in 1..k
                        /\ leg'.rounds[i] = leg.rounds[i] /\ leg'.rounds[i - 1] = leg.rounds[i - 1]
    BY <1>2
  <2>8. \A i \in 2..k : (leg'.rounds[i].found # {} /\ leg'.rounds[i].found = leg'.rounds[i - 1].found) <=> Same(i)
    BY <2>3 DEF Same
  <2>4. Trails
    BY <1>1 DEF Paced
  <2>5. Trails'
    <3>1. leg'.recur = leg.recur /\ leg'.alike = leg.alike
      BY <1>1 DEF SameStop
    <3>2. /\ leg'.recur > 0 => Seen' - leg'.recur + 1 >= First'
          /\ leg'.alike > 0 => Seen' - leg'.alike + 1 >= First'
      BY <2>2, <2>4, <3>1 DEF Trails
    <3>3. /\ \A i \in (k - leg.recur + 1)..k : i \in 2..k /\ Same(i)
          /\ \A i \in (k - leg.alike + 1)..k : i \in 2..k /\ leg.rounds[i].alike
      <4>1. /\ leg.recur > 0 => k - leg.recur + 1 >= 2
            /\ leg.alike > 0 => k - leg.alike + 1 >= 2
        BY <1>2, <2>2, <2>4 DEF Trails
      <4>2. /\ \A i \in (k - leg.recur + 1)..k : i \in 2..k
            /\ \A i \in (k - leg.alike + 1)..k : i \in 2..k
        BY <1>2, <4>1
      <4> QED
        BY <2>2, <2>4, <4>2 DEF Trails
    <3>4. /\ k - leg.recur >= First => k - leg.recur \in 2..k /\ ~ Same(k - leg.recur)
          /\ k - leg.alike >= First => k - leg.alike \in 2..k /\ ~ leg.rounds[k - leg.alike].alike
      <4>0. k \in Nat /\ leg.recur \in Nat /\ leg.alike \in Nat /\ First \in Nat /\ First >= 2
        BY <1>2, <2>2
      <4>1. /\ k - leg.recur >= First => k - leg.recur \in 2..k
            /\ k - leg.alike >= First => k - leg.alike \in 2..k
        <5> HIDE DEF k
        <5> QED
          BY <4>0
      <4> QED
        BY <2>2, <2>4, <4>1 DEF Trails
    <3>5. \A i \in (k - leg.recur + 1)..k :
             leg'.rounds[i].found # {} /\ leg'.rounds[i].found = leg'.rounds[i - 1].found
      BY <2>8, <3>3
    <3>6. k - leg.recur >= First => ~ (/\ leg'.rounds[k - leg.recur].found # {}
                                       /\ leg'.rounds[k - leg.recur].found = leg'.rounds[k - leg.recur - 1].found)
      BY <2>8, <3>4
    <3>7. \A i \in (k - leg.alike + 1)..k : leg'.rounds[i].alike
      BY <2>3, <3>3
    <3>8. k - leg.alike >= First => ~ leg'.rounds[k - leg.alike].alike
      BY <2>3, <3>4
    <3> QED
      BY <2>2, <3>1, <3>2, <3>5, <3>6, <3>7, <3>8 DEF Trails, Same
  <2>6. /\ leg'.seeded <=> Seen' > 0
        /\ leg'.seeded => leg'.last = leg'.rounds[Seen'].found
        /\ ~ leg'.seeded => leg'.start = 1 /\ leg'.recur = 0 /\ leg'.alike = 0
    <3>1. /\ leg'.start = leg.start /\ leg'.seeded = leg.seeded /\ leg'.last = leg.last
          /\ leg'.recur = leg.recur /\ leg'.alike = leg.alike
      BY <1>1 DEF SameStop
    <3>2. /\ leg.seeded <=> k > 0
          /\ leg.seeded => leg.last = leg.rounds[k].found
          /\ ~ leg.seeded => leg.start = 1 /\ leg.recur = 0 /\ leg.alike = 0
      BY <1>1, <2>2 DEF Paced
    <3>3. k > 0 => leg'.rounds[k] = leg.rounds[k]
      BY <1>2
    <3> HIDE DEF k
    <3> QED
      BY <2>2, <3>1, <3>2, <3>3
  <2>7. leg'.start <= Len(leg'.rounds) /\ LastRound'.alike = leg'.similar
    <3>1. leg'.rounds[Len(leg'.rounds)].alike = leg'.similar
      BY <1>1, <1>2
    <3>2. leg'.start <= Len(leg'.rounds)
      BY <1>1, <1>2, <1>3
    <3> QED
      BY <3>1, <3>2 DEF LastRound
  <2> QED
    BY <1>4, <1>6, <2>5, <2>6, <2>7, PacedVerdict
<1> QED
  BY <1>5, <1>6 DEF Records

\* The stop state after a round is the trail of the rounds up to it.
LEMMA ObservedIs ==
  ASSUME Paced, leg \in Legs, leg.at = "decide", NEW k, k = Len(leg.rounds),
         NEW r, r = Observed.recur, NEW a, a = Observed.alike
  PROVE  /\ k \in Nat /\ k > 0 /\ r \in Nat /\ a \in Nat
         /\ r > 0 => k - r + 1 >= First
         /\ \A i \in (k - r + 1)..k : Same(i)
         /\ k - r >= First => ~ Same(k - r)
         /\ a > 0 => k - a + 1 >= First
         /\ \A i \in (k - a + 1)..k : leg.rounds[i].alike
         /\ k - a >= First => ~ leg.rounds[k - a].alike
<1> DEFINE again == leg.seeded /\ LastRound.found # {} /\ LastRound.found = leg.last
           minor == leg.seeded /\ leg.similar
<1>1. r = (IF again THEN leg.recur + 1 ELSE 0) /\ a = (IF minor THEN leg.alike + 1 ELSE 0)
  BY DEF Observed
<1>2. /\ leg.rounds \in Seq(Round) /\ leg.start \in Nat \ {0} /\ leg.recur \in Nat /\ leg.alike \in Nat
      /\ leg.at \in Fresh
  BY DEF Legs, Fresh
<1>3. /\ k \in Nat /\ k > 0 /\ leg.start <= k /\ LastRound = leg.rounds[k] /\ LastRound.alike = leg.similar
      /\ Seen = k - 1
  BY <1>2 DEF Paced, LastRound, Seen
<1>4. Trails /\ (leg.seeded <=> k - 1 > 0) /\ (leg.seeded => leg.last = leg.rounds[k - 1].found)
  BY <1>2, <1>3 DEF Paced
<1>5. First \in Nat /\ First >= 2 /\ (leg.start > 1 => First = leg.start)
  BY <1>2 DEF First
<1>6. /\ again <=> k >= First /\ Same(k)
      /\ minor <=> k >= First /\ leg.rounds[k].alike
  <2>1. leg.seeded <=> k >= First
    BY <1>2, <1>3, <1>4, <1>5 DEF First
  <2> QED
    BY <1>3, <1>4, <2>1 DEF Same
<1> HIDE DEF again, minor
<1>7. r \in Nat /\ a \in Nat
  BY <1>1, <1>2
<1>8. /\ r > 0 => k - r + 1 >= First
      /\ \A i \in (k - r + 1)..k : Same(i)
      /\ k - r >= First => ~ Same(k - r)
  <2>1. CASE again
    <3>0. r = leg.recur + 1
      BY <1>1, <2>1
    <3>1. r = leg.recur + 1 /\ k - r = Seen - leg.recur /\ k - r + 1 = Seen - leg.recur + 1
      <4>1. leg.recur \in Nat /\ k \in Nat /\ Seen = k - 1
        BY <1>2, <1>3
      <4> QED
        BY <3>0, <4>1
    <3>2. k - r + 1 >= First
      BY <1>2, <1>3, <1>4, <1>5, <1>6, <2>1, <3>1 DEF Trails
    <3>3. ASSUME NEW i \in (k - r + 1)..k PROVE Same(i)
      <4>1. i = k \/ i \in (Seen - leg.recur + 1)..Seen
        BY <1>2, <1>3, <3>1
      <4> QED
        BY <1>4, <1>6, <2>1, <4>1 DEF Trails
    <3>4. k - r >= First => ~ Same(k - r)
      BY <1>4, <3>1 DEF Trails
    <3> QED
      BY <3>2, <3>3, <3>4
  <2>2. CASE ~ again
    <3>1. r = 0 /\ k - r = k /\ (\A i \in (k - r + 1)..k : FALSE)
      BY <1>1, <1>3, <2>2
    <3> QED
      BY <1>6, <2>2, <3>1
  <2> QED
    BY <2>1, <2>2
<1>9. /\ a > 0 => k - a + 1 >= First
      /\ \A i \in (k - a + 1)..k : leg.rounds[i].alike
      /\ k - a >= First => ~ leg.rounds[k - a].alike
  <2>1. CASE minor
    <3>0. a = leg.alike + 1
      BY <1>1, <2>1
    <3>1. a = leg.alike + 1 /\ k - a = Seen - leg.alike /\ k - a + 1 = Seen - leg.alike + 1
      <4>1. leg.alike \in Nat /\ k \in Nat /\ Seen = k - 1
        BY <1>2, <1>3
      <4> QED
        BY <3>0, <4>1
    <3>2. k - a + 1 >= First
      BY <1>2, <1>3, <1>4, <1>5, <1>6, <2>1, <3>1 DEF Trails
    <3>3. ASSUME NEW i \in (k - a + 1)..k PROVE leg.rounds[i].alike
      <4>1. i = k \/ i \in (Seen - leg.alike + 1)..Seen
        BY <1>2, <1>3, <3>1
      <4> QED
        BY <1>4, <1>6, <2>1, <4>1 DEF Trails
    <3>4. k - a >= First => ~ leg.rounds[k - a].alike
      BY <1>4, <3>1 DEF Trails
    <3> QED
      BY <3>2, <3>3, <3>4
  <2>2. CASE ~ minor
    <3>1. a = 0 /\ k - a = k /\ (\A i \in (k - a + 1)..k : FALSE)
      BY <1>1, <1>3, <2>2
    <3> QED
      BY <1>6, <2>2, <3>1
  <2> QED
    BY <2>1, <2>2
<1> QED
  BY <1>3, <1>7, <1>8, <1>9

\* Patience is over exactly when the last rounds, as many as that, made no
\* progress.
LEMMA InertIs ==
  ASSUME NEW k \in Nat, k = Len(leg.rounds), NEW r \in Nat, NEW a \in Nat, First \in Nat,
         r > 0 => k - r + 1 >= First,
         \A i \in (k - r + 1)..k : Same(i),
         k - r >= First => ~ Same(k - r),
         a > 0 => k - a + 1 >= First,
         \A i \in (k - a + 1)..k : leg.rounds[i].alike,
         k - a >= First => ~ leg.rounds[k - a].alike
  PROVE  Inert <=> r >= Patience \/ a >= Patience
<1> DEFINE counted == (k - Patience + 1)..k
<1>1. Inert <=> /\ \A i \in counted : i >= First
                /\ (\A i \in counted : Same(i)) \/ (\A i \in counted : leg.rounds[i].alike)
  BY DEF Inert, First, Same
<1>2. ASSUME r >= Patience PROVE Inert
  <2>1. r > 0 /\ \A i \in counted : i \in (k - r + 1)..k /\ i >= k - r + 1
    BY <1>2, Constants
  <2>2. \A i \in counted : i >= First
    BY <2>1, Constants
  <2> QED
    BY <1>1, <2>1, <2>2
<1>3. ASSUME a >= Patience PROVE Inert
  <2>1. a > 0 /\ \A i \in counted : i \in (k - a + 1)..k /\ i >= k - a + 1
    BY <1>3, Constants
  <2>2. \A i \in counted : i >= First
    BY <2>1, Constants
  <2> QED
    BY <1>1, <2>1, <2>2
<1>4. ASSUME r < Patience, a < Patience PROVE ~ Inert
  <2>1. k - r \in counted /\ k - a \in counted
    BY <1>4, Constants
  <2> QED
    BY <1>1, <2>1
<1> QED
  BY <1>2, <1>3, <1>4, Constants

LEMMA PacedDecides ==
  ASSUME Shape, Paced, Decides PROVE Paced'
<1>1. leg \in Legs /\ leg' \in Legs /\ leg.at = "decide" /\ leg'.rounds = leg.rounds /\ leg'.start = leg.start
      /\ leg # NoLeg /\ leg' # NoLeg
  BY NotDriven DEF Decides, Drives, SameWork
<1>2. CASE leg'.at = "ship" \/ (leg'.at = "raise" /\ leg'.kind \in {"escalate", "reopen"})
  BY <1>1, <1>2, PacedOff
<1>3. CASE /\ leg'.recur = Observed.recur /\ leg'.alike = Observed.alike
           /\ leg'.seeded = TRUE /\ leg'.last = LastRound.found
           /\ LET stops == AtCap \/ leg'.recur >= Patience \/ leg'.alike >= Patience
              IN  \/ stops /\ leg'.at = "raise" /\ leg'.kind = "cap"
                  \/ ~ stops /\ leg'.at = "collect" /\ leg'.kind = "revise"
  <2> DEFINE k == Len(leg.rounds)
             r == Observed.recur
             a == Observed.alike
  <2>1. /\ k \in Nat /\ k > 0 /\ r \in Nat /\ a \in Nat
        /\ r > 0 => k - r + 1 >= First
        /\ \A i \in (k - r + 1)..k : Same(i)
        /\ k - r >= First => ~ Same(k - r)
        /\ a > 0 => k - a + 1 >= First
        /\ \A i \in (k - a + 1)..k : leg.rounds[i].alike
        /\ k - a >= First => ~ leg.rounds[k - a].alike
    BY <1>1, ObservedIs
  <2>2. /\ leg.start <= k /\ k + 1 - leg.start <= ReworkRounds /\ leg.start \in Nat \ {0}
        /\ LastRound = leg.rounds[k]
    BY <1>1 DEF Paced, Fresh, Legs, LastRound
  <2>3. leg'.recur = r /\ leg'.alike = a
    BY <1>3
  <2>4. First \in Nat /\ First' = First
    BY <1>1, <2>2 DEF First
  <2> HIDE DEF k, r, a
  <2>5. k = Len(leg.rounds) /\ Len(leg'.rounds) = k
    BY <1>1 DEF k
  <2>6. Inert <=> r >= Patience \/ a >= Patience
    BY <2>1, <2>4, <2>5, InertIs
  <2>7. CASE leg'.at = "raise" /\ leg'.kind = "cap"
    <3>1. AtCap \/ Inert
      BY <1>3, <2>3, <2>6, <2>7
    <3>2. AtCap' = AtCap /\ Inert' = Inert
      BY <1>1 DEF AtCap, Inert
    <3>3. leg'.at \notin Before /\ leg'.at \notin Fresh
      BY <2>7 DEF Before, Fresh
    <3> QED
      BY <1>1, <2>1, <2>2, <2>5, <2>7, <3>1, <3>2, <3>3 DEF Paced
  <2>8. CASE leg'.at = "collect" /\ ~ (AtCap \/ leg'.recur >= Patience \/ leg'.alike >= Patience)
    <3>1. k - leg.start + 1 < ReworkRounds
      BY <2>1, <2>2, <2>5, <2>8, Constants DEF AtCap
    <3>2. leg'.at \in Before /\ leg'.at \notin Fresh /\ Seen' = k
      BY <2>5, <2>8 DEF Before, Fresh, Seen
    <3>3. \A i : Same(i) <=> (leg'.rounds[i].found # {} /\ leg'.rounds[i].found = leg'.rounds[i - 1].found)
      BY <1>1 DEF Same
    <3>4. Trails'
      <4>1. \A i \in (k - r + 1)..k : leg'.rounds[i].found # {} /\ leg'.rounds[i].found = leg'.rounds[i - 1].found
        BY <2>1, <3>3
      <4>2. k - r >= First => ~ (/\ leg'.rounds[k - r].found # {}
                                 /\ leg'.rounds[k - r].found = leg'.rounds[k - r - 1].found)
        BY <2>1, <3>3
      <4> QED
        BY <1>1, <2>1, <2>3, <2>4, <3>2, <4>1, <4>2 DEF Trails, Same
    <3>5. leg'.recur < Patience /\ leg'.alike < Patience
      BY <2>1, <2>3, <2>8, Constants
    <3> QED
      BY <1>1, <1>3, <2>1, <2>2, <2>5, <2>8, <3>1, <3>2, <3>4, <3>5, Constants DEF Paced
  <2> QED
    BY <1>3, <2>7, <2>8
<1> QED
  BY <1>2, <1>3 DEF Decides

LEMMA PacedFresh ==
  ASSUME leg' = FreshLeg PROVE Paced'
<1>1. leg' # NoLeg /\ leg'.at = "entry" /\ leg'.rounds = <<>> /\ leg'.start = 1 /\ leg'.seeded = FALSE
      /\ leg'.recur = 0 /\ leg'.alike = 0
  BY FreshIs, NotDriven
<1>2. Seen' = 0 /\ First' = 2 /\ leg'.at \in Before /\ leg'.at \notin Fresh
  BY <1>1 DEF Seen, First, Before, Fresh
<1>3. Trails'
  BY <1>1, <1>2 DEF Trails
<1> QED
  BY <1>1, <1>2, <1>3, Constants DEF Paced

LEMMA PacedResumed ==
  ASSUME NEW card \in CardRow, card.rounds # <<>>, leg' = ResumedLeg(card) PROVE Paced'
<1> DEFINE k == Len(card.rounds)
<1>1. card.rounds \in Seq(Round) /\ k \in Nat /\ k > 0
  BY DEF CardRow
<1>2. leg' \in Legs /\ leg' # NoLeg /\ leg'.at = "guidance" /\ leg'.rounds = card.rounds /\ leg'.start = k + 1
      /\ leg'.seeded = TRUE /\ leg'.last = card.rounds[k].found /\ leg'.recur = 0 /\ leg'.alike = 0
  BY ResumedIs, NotDriven
<1>3. Seen' = k /\ First' = k + 1 /\ leg'.at \in Before /\ leg'.at \notin Fresh
  BY <1>1, <1>2 DEF Seen, First, Before, Fresh
<1>4. Trails'
  BY <1>1, <1>2, <1>3 DEF Trails
<1>5. leg'.start = NextRound'
  BY <1>2 DEF NextRound
<1> QED
  BY <1>1, <1>2, <1>3, <1>4, <1>5, Constants DEF Paced

LEMMA PacedMoves ==
  ASSUME Shape, Driven, Wishes, Counted, Paced, StepKind PROVE Paced'
<1>1. CASE Turns
  BY <1>1, PacedTurns
<1>2. CASE Mints \/ Pins \/ Files \/ Stamps \/ Reworks \/ Raises
  BY <1>2, PacedSteps
<1>3. CASE Records
  BY <1>3, PacedRecords
<1>4. CASE Decides
  BY <1>4, PacedDecides
<1>5. CASE Starts
  BY <1>5, PacedFresh DEF Starts
<1>6. CASE Parks \/ Ends \/ Dies
  BY <1>6, PacedNone DEF Parks, Ends, Dies
<1>7. CASE Forks \/ Remarks
  BY <1>7, PacedSame DEF Forks, Remarks
<1>8. ASSUME NEW c \in Client, ClientKinds(c) PROVE Paced'
  <2>1. CASE Reads(c) \/ Settles(c) \/ Drops(c) \/ Kills(c)
    BY <2>1, PacedSame, PacedNone DEF Reads, Settles, Drops, Kills
  <2>2. CASE Resumes(c) /\ (request[c].at = "revise" => Ask(c).rounds # <<>>)
    <3>1. CASE request[c].at = "retry"
      BY <2>2, <3>1, PacedFresh DEF Resumes
    <3>2. CASE request[c].at = "revise"
      <4>1. Ask(c) \in CardRow /\ Ask(c).rounds # <<>>
        BY <2>2, <3>2, AnswerCloses, CardsAre DEF Ask
      <4>2. leg' = ResumedLeg(Ask(c))
        BY <2>2, <3>2 DEF Resumes
      <4> QED
        BY <4>1, <4>2, PacedResumed
    <3> QED
      BY <2>2, <3>1, <3>2 DEF Resumes
  <2> QED
    BY <1>8, <2>1, <2>2 DEF ClientKinds
<1> QED
  BY <1>1, <1>2, <1>3, <1>4, <1>5, <1>6, <1>7, <1>8 DEF StepKind, LegKinds

-----------------------------------------------------------------------------
(* The invariant holds.                                                     *)

LEMMA Begins == Init => IInv
<1> SUFFICES ASSUME Init PROVE IInv
  OBVIOUS
<1>1. /\ run.n = 1 /\ run.st = "queued" /\ run.gen = 1 /\ 1 \in Lineage /\ leg = NoLeg /\ leg.at = "none"
      /\ asks = <<>> /\ Last = 0 /\ grants = 0 /\ current = 0 /\ verdicts = {} /\ comments = {} /\ malformed = {}
      /\ recorded = [n \in Lineage |-> 0] /\ request = [c \in Client |-> Idle]
      /\ run = [n |-> 1, st |-> "queued", gen |-> 1]
  BY NotDriven, Constants DEF Init, ReviewInit, Lineage, Last
<1>2. Shape
  BY <1>1 DEF Shape, RunStatus, Wish
<1>3. Driven /\ Slots
  BY <1>1 DEF Driven, Slots
<1>4. Cards
  BY <1>1 DEF Cards
<1>5. Wishes
  BY <1>1 DEF Wishes, Idle, Verb
<1>6. Even(0)
  BY <1>1 DEF Even, Used
<1>7. Reckoned
  <2>1. \A m \in Lineage : m > run.n => recorded[m] = 0
    BY <1>1
  <2> QED
    BY <1>1, <1>6, <2>1 DEF Reckoned
<1>8. Briefed /\ Paced
  BY <1>1 DEF Briefed, BriefIsWhatWasConsumed, Paced, Before, Fresh
<1> QED
  BY <1>2, <1>3, <1>4, <1>5, <1>7, <1>8 DEF IInv

LEMMA Stutters == IInv /\ UNCHANGED vars => IInv'
<1> SUFFICES ASSUME IInv, UNCHANGED vars PROVE IInv'
  OBVIOUS
<1>1. UNCHANGED <<run, leg, asks, request, malformed, recorded, grants, current, verdicts, comments>>
  BY DEF vars, cards, tally, review
<1>2. Shape' /\ Driven' /\ Slots' /\ Wishes'
  BY <1>1 DEF IInv, Shape, Driven, Slots, Wishes, Ask
<1>3. Cards'
  BY <1>1 DEF IInv, Cards, OpenOf, Last, Card
<1>4. Reckoned'
  BY <1>1 DEF IInv, Reckoned, Even, Ahead, Used, Doomed, Restarts, Last
<1>5. Briefed'
  BY <1>1 DEF IInv, Briefed, BriefIsWhatWasConsumed, AttemptOf, NextRound
<1>6. Paced'
  BY <1>1, PacedSame DEF IInv
<1> QED
  BY <1>2, <1>3, <1>4, <1>5, <1>6 DEF IInv

LEMMA Steps == IInv /\ Next => IInv' /\ StepKind
<1> SUFFICES ASSUME IInv, Next PROVE IInv' /\ StepKind
  OBVIOUS
<1>1. Shape /\ Driven /\ Slots /\ Cards /\ Wishes /\ Reckoned /\ Briefed /\ Paced
  BY DEF IInv
<1>2. StepKind /\ run' \in Run
  BY <1>1, StepKinds, RunMoves
<1>3. Counted
  BY <1>1, ReckonedIs
<1>4. Shape'
  BY <1>1, <1>2, ShapeMoves
<1>5. Driven'
  BY <1>1, <1>2, DrivenMoves
<1>6. Slots'
  BY <1>1, <1>2, SlotsMove
<1>7. Cards'
  BY <1>1, <1>2, CardsMove
<1>8. Wishes'
  BY <1>1, <1>2, WishesMove
<1>9. Reckoned'
  BY <1>1, <1>2, ReckonedMoves
<1>10. Briefed'
  BY <1>1, <1>2, <1>3, BriefMoves
<1>11. Paced'
  BY <1>1, <1>2, <1>3, PacedMoves
<1> QED
  BY <1>2, <1>4, <1>5, <1>6, <1>7, <1>8, <1>9, <1>10, <1>11 DEF IInv

\* Every reachable state satisfies IInv.
THEOREM DrainHolds == Spec => []IInv
<1>1. Init => IInv
  BY Begins
<1>2. IInv /\ [Next]_vars => IInv'
  BY Steps, Stutters
<1> QED
  BY <1>1, <1>2, PTL DEF Spec

-----------------------------------------------------------------------------
(* The properties.                                                          *)

\* The rework session's brief and the store's consumption never disagree
\* (review_sink.go DrainOpen, stamped between the read and the session),
\* however remarks and deaths fall between the two.
THEOREM BriefHolds == Spec => []BriefIsWhatWasConsumed
<1>1. IInv => BriefIsWhatWasConsumed
  BY DEF IInv, Briefed
<1> QED
  BY <1>1, DrainHolds, PTL

\* A parked run's open card carries every round recorded under the run
\* (escalate.go Raise), across the drains that fed it.
THEOREM CardTells == Spec => []CardTellsAll
<1>1. IInv => CardTellsAll
  <2> SUFFICES ASSUME Cards, Reckoned, run.st = "parked",
                      NEW a \in DOMAIN asks, asks[a].status = "open", asks[a].n = run.n, asks[a].kind # "infra"
               PROVE  Len(asks[a].rounds) = recorded[run.n]
    BY DEF IInv, CardTellsAll
  <2>1. a = Last
    BY DEF Cards, OpenOf
  <2> QED
    BY <2>1 DEF Reckoned, Even
<1> QED
  BY <1>1, DrainHolds, PTL

\* observe's counters are the trailing rounds of the history itself
\* (rework.go): no rework is paid past the rules, and the cap card is raised
\* for nothing else.
THEOREM StopsAsRuled == Spec => []StopRule
<1>1. IInv => StopRule
  <2> SUFFICES ASSUME Shape, Paced PROVE StopRule
    BY DEF IInv
  <2>1. ASSUME leg.at \in {"collect", "stamp", "revise"}, ~ (Resumed /\ leg.start = NextRound)
        PROVE  ~ Inert /\ ~ AtCap
    <3> DEFINE k == Len(leg.rounds)
    <3>1. leg \in Legs /\ leg.at \in Before /\ leg.at \notin Fresh
      BY <2>1, NotDriven DEF Shape, Before, Fresh
    <3>2. /\ k \in Nat /\ leg.recur \in Nat /\ leg.alike \in Nat /\ leg.start \in Nat \ {0} /\ Seen = k
      BY <3>1 DEF Legs, Seen
    <3>3. First \in Nat
      BY <3>2 DEF First
    <3>4. leg.recur < Patience /\ leg.alike < Patience /\ Trails /\ k + 1 - leg.start < ReworkRounds
      BY <2>1, <3>1 DEF Paced
    <3>5. ~ AtCap
      BY <3>2, <3>4, Constants DEF AtCap
    <3> DEFINE r == leg.recur
               a == leg.alike
    <3>6. /\ r > 0 => k - r + 1 >= First
          /\ \A i \in (k - r + 1)..k : Same(i)
          /\ k - r >= First => ~ Same(k - r)
          /\ a > 0 => k - a + 1 >= First
          /\ \A i \in (k - a + 1)..k : leg.rounds[i].alike
          /\ k - a >= First => ~ leg.rounds[k - a].alike
      BY <3>2, <3>4 DEF Trails
    <3> HIDE DEF k, r, a
    <3>7. Inert <=> r >= Patience \/ a >= Patience
      BY <3>2, <3>3, <3>6, InertIs DEF k, r, a
    <3> QED
      BY <3>2, <3>4, <3>5, <3>7, Constants DEF r, a
  <2>2. leg.at = "raise" /\ leg.kind = "cap" => Inert \/ AtCap
    BY DEF Paced
  <2> QED
    BY <2>1, <2>2 DEF StopRule
<1> QED
  BY <1>1, DrainHolds, PTL

\* An answer moves only the run that waits on the card it was read against
\* (answer.go), whatever other answers and cancels came between.
THEOREM AnswersOwnPark == Spec => AnswerMovesItsOwnPark
<1> DEFINE Own(c) ==
      request[c].at \in {"accept", "revise", "retry", "cancel"} /\ request'[c] # request[c] /\ run' # run =>
             /\ run.st = "parked" /\ Ask(c).n = run.n /\ Ask(c).status = "open"
             /\ \A a \in DOMAIN asks : asks[a].n = run.n => a <= request[c].ask
<1>1. IInv /\ Next => \A c \in Client : Own(c)
  <2> SUFFICES ASSUME IInv, Next, NEW c \in Client, request[c].at \in {"accept", "revise", "retry", "cancel"},
                      request'[c] # request[c], run' # run
               PROVE  /\ run.st = "parked" /\ Ask(c).n = run.n /\ Ask(c).status = "open"
                      /\ \A a \in DOMAIN asks : asks[a].n = run.n => a <= request[c].ask
    OBVIOUS
  <2>1. Shape /\ Cards /\ Wishes /\ StepKind
    BY Steps DEF IInv
  <2>2. ~ LegKinds /\ ~ Dies /\ ~ Forks /\ ~ Remarks
    BY DEF LegKinds, Turns, Mints, Records, Pins, Files, Decides, Stamps, Reworks, Raises, Starts, Parks, Ends,
       Dies, Forks, Remarks, SameDesk
  <2>3. PICK d \in Client : ClientKinds(d)
    BY <2>1, <2>2 DEF StepKind
  <2>4. d = c
    BY <2>1, <2>3 DEF ClientKinds, Reads, Resumes, Settles, Drops, Kills, Asks, Shape
  <2>5. Resumes(c) \/ Settles(c)
    BY <2>3, <2>4 DEF ClientKinds, Reads, Drops, Kills, Idle
  <2>6. request[c].ask = Last /\ Ask(c).n = run.n
    BY <2>1, <2>5, LastCloses
  <2>7. run.st = "parked" /\ Ask(c).status = "open"
    BY <2>5 DEF Resumes, Settles
  <2>8. \A a \in DOMAIN asks : a <= Last
    BY <2>1, CardsAre
  <2> QED
    BY <2>6, <2>7, <2>8
<1>2. IInv /\ [Next]_vars => [\A c \in Client : Own(c)]_vars
  BY <1>1
<1> QED
  BY <1>2, DrainHolds, PTL DEF AnswerMovesItsOwnPark, Spec

-----------------------------------------------------------------------------
(* The purse.                                                               *)

Runs == 0..(1 + MaxForks)

\* What the run's grant still covers of the rounds it has recorded.
Spent == IF leg # NoLeg THEN Len(leg.rounds) + 1 - leg.start
         ELSE IF run.st = "queued" THEN 0 ELSE ReworkRounds

\* f adds up the rounds recorded under the first runs of the lineage, up to
\* the newest.
Adds(f) ==
    /\ f = [i \in Runs |-> f[i]] /\ f[0] = 0
    /\ \A i \in 1..run.n : f[i] = f[i - 1] + recorded[i]

\* What any such sum is bounded by: what the grants of the earlier drains
\* paid for, and what the current one has spent of its own.
Purse ==
    \A f : Adds(f) => /\ f[run.n] \in Nat /\ f[run.n - 1] \in Nat
                      /\ f[run.n] <= ReworkRounds * (run.n + grants - 1) + Spent

\* Such a sum exists, for the whole lineage.
Summed == \E g \in [Runs -> Nat] : g[0] = 0 /\ \A i \in Lineage : g[i] = g[i - 1] + recorded[i]

LEMMA RunsAre ==
  ASSUME Shape
  PROVE  /\ run.n \in Nat /\ run.n > 0 /\ run.n \in Lineage /\ Lineage \subseteq Runs /\ 0 \in Runs
         /\ \A i \in Lineage : i \in Nat /\ i > 0 /\ i - 1 \in Runs /\ i \in Runs
         /\ \A i \in 1..run.n : i \in Lineage
         /\ \A i \in Lineage : recorded[i] \in Nat
         /\ grants \in Nat
<1>1. run.n \in 1..(1 + MaxForks) /\ MaxForks \in Nat
  BY Constants DEF Shape, Lineage
<1>2. \A i \in Lineage : recorded[i] \in Nat
  BY DEF Shape
<1>3. grants \in Nat
  BY DEF Shape
<1> QED
  BY <1>1, <1>2, <1>3 DEF Lineage, Runs

LEMMA SpentIs == Shape /\ Paced => Spent \in 0..ReworkRounds
<1> SUFFICES ASSUME Shape, Paced PROVE Spent \in 0..ReworkRounds
  OBVIOUS
<1>1. CASE leg # NoLeg
  <2>1. Len(leg.rounds) \in Nat /\ leg.start \in Nat
    BY <1>1 DEF Shape, Legs
  <2> QED
    BY <1>1, <2>1, Constants DEF Paced, Spent
<1>2. CASE leg = NoLeg
  BY <1>2, Constants DEF Spent
<1> QED
  BY <1>1, <1>2

\* Multiplication by the budget of one grant.
LEMMA OneMore ==
  ASSUME NEW x \in Nat
  PROVE  ReworkRounds * (x + 1) = ReworkRounds * x + ReworkRounds /\ ReworkRounds * x \in Nat
  BY Constants

\* A step that records nothing, grants nothing and gives nothing back.
LEMMA PurseKept ==
  ASSUME Shape, Paced, Shape', Paced', Purse, recorded' = recorded, run'.n = run.n, grants' = grants, Spent <= Spent'
  PROVE  Purse'
<1>1. \A f : Adds(f)' => Adds(f)
  BY DEF Adds
<1>2. run.n + grants - 1 \in Nat /\ ReworkRounds * (run.n + grants - 1) \in Nat /\ Spent \in Int /\ Spent' \in Int
  <2>1. run.n + grants - 1 \in Nat
    BY RunsAre
  <2>2. Spent' \in 0..ReworkRounds
    <3>1. (Spent \in 0..ReworkRounds)'
      BY SpentIs, PTL
    <3> QED
      BY <3>1
  <2> QED
    BY <2>1, <2>2, OneMore, SpentIs, Constants
<1> DEFINE B == ReworkRounds * (run.n + grants - 1)
<1>3. B \in Nat /\ ReworkRounds * (run'.n + grants' - 1) = B
  BY <1>2
<1> HIDE DEF B
<1>4. ASSUME NEW f, Adds(f)'
      PROVE  f[run'.n] \in Nat /\ f[run'.n - 1] \in Nat /\ f[run'.n] <= B + Spent'
  <2>1. f[run.n] \in Nat /\ f[run.n - 1] \in Nat /\ f[run.n] <= B + Spent
    BY <1>1, <1>4 DEF Purse, B
  <2> QED
    BY <1>2, <1>3, <2>1
<1> QED
  BY <1>3, <1>4 DEF Purse

LEMMA PurseRecords ==
  ASSUME Shape, Paced, Purse, Records PROVE Purse'
<1> DEFINE n == run.n
           B == ReworkRounds * (n + grants - 1)
<1>1. /\ leg \in Legs /\ leg' \in Legs /\ leg # NoLeg /\ leg' # NoLeg /\ run' = run /\ grants' = grants
      /\ leg'.start = leg.start
      /\ recorded' = [recorded EXCEPT ![n] = recorded[n] + 1]
  BY NotDriven DEF Records, Drives, SameDesk
<1>2. /\ n \in Nat /\ n > 0 /\ n \in Runs /\ recorded[n] \in Nat /\ B \in Nat
      /\ recorded'[n] = recorded[n] + 1 /\ \A i \in 1..n : i # n => recorded'[i] = recorded[i]
      /\ Spent \in Nat
  <2>1. n + grants - 1 \in Nat
    BY RunsAre
  <2>2. n \in Nat /\ n > 0 /\ n \in Runs /\ n \in Lineage /\ recorded[n] \in Nat /\ Spent \in Nat
    BY RunsAre, SpentIs
  <2>3. B \in Nat
    BY <2>1, OneMore, Constants
  <2>4. recorded'[n] = recorded[n] + 1 /\ \A i \in 1..n : i # n => recorded'[i] = recorded[i]
    <3>1. \A i \in 1..n : i \in Lineage
      BY RunsAre
    <3> QED
      BY <1>1, <2>2, <3>1 DEF Shape
  <2> QED
    BY <2>2, <2>3, <2>4
<1>3. Spent' = Spent + 1
  <2>1. leg.rounds \in Seq(Round) /\ leg.similar \in BOOLEAN /\ leg.start \in Nat
    BY <1>1 DEF Legs
  <2>2. PICK found \in Blockers : leg'.rounds = Append(leg.rounds, [found |-> found, alike |-> leg.similar])
    BY DEF Records
  <2>3. Len(leg'.rounds) = Len(leg.rounds) + 1 /\ Len(leg.rounds) \in Nat
    BY <2>1, <2>2 DEF Round
  <2> QED
    BY <1>1, <2>1, <2>3 DEF Spent
<1> HIDE DEF B
<1>4. ASSUME NEW f, Adds(f)' PROVE f[n] \in Nat /\ f[n - 1] \in Nat /\ f[n] <= B + Spent'
  <2> DEFINE h == [i \in Runs |-> IF i = n THEN f[n - 1] + recorded[n] ELSE f[i]]
  <2>1. f[0] = 0 /\ \A i \in 1..n : f[i] = f[i - 1] + recorded'[i]
    BY <1>1, <1>4 DEF Adds
  <2>2. \A i \in 1..n : i - 1 # n /\ i - 1 \in Runs /\ i \in Runs
    BY <1>2, RunsAre
  <2>3. h[n] = f[n - 1] + recorded[n] /\ h[0] = 0 /\ h[n - 1] = f[n - 1]
    BY <1>2, <2>1, <2>2, RunsAre
  <2>4. ASSUME NEW i \in 1..n PROVE h[i] = h[i - 1] + recorded[i]
    <3>1. h[i - 1] = f[i - 1]
      BY <2>2
    <3>2. CASE i = n
      BY <2>3, <3>2
    <3>3. CASE i # n
      BY <1>2, <2>1, <2>2, <3>1, <3>3
    <3> QED
      BY <3>2, <3>3
  <2>5. h = [i \in Runs |-> h[i]]
    OBVIOUS
  <2> HIDE DEF h
  <2>6. Adds(h)
    BY <2>3, <2>4, <2>5 DEF Adds
  <2>7. h[n] \in Nat /\ h[n - 1] \in Nat /\ h[n] <= B + Spent
    BY <2>6 DEF Purse, B
  <2>8. f[n] = f[n - 1] + (recorded[n] + 1)
    BY <1>2, <2>1
  <2> QED
    BY <1>2, <1>3, <2>3, <2>7, <2>8
<1> QED
  BY <1>1, <1>4 DEF Purse, B

LEMMA PurseForks ==
  ASSUME Shape, Driven, Paced, Reckoned, Purse, Forks, Shape' PROVE Purse'
<1> DEFINE n == run.n
           B == ReworkRounds * (n + grants - 1)
<1>1. leg = NoLeg /\ leg' = NoLeg /\ recorded' = recorded /\ grants' = grants /\ run.st = "crashed"
  BY DEF Forks, Driven, SameDesk
<1>2. n \in Nat /\ n > 0 /\ B \in Nat /\ n + grants - 1 \in Nat /\ Spent = ReworkRounds /\ ReworkRounds \in Nat
  BY <1>1, RunsAre, OneMore, Constants DEF Spent
<1> HIDE DEF B
<1>3. ASSUME NEW f, Adds(f) PROVE f[n] \in Nat /\ f[n - 1] \in Nat /\ f[n] <= B + ReworkRounds
  BY <1>2, <1>3 DEF Purse, B
<1>4. CASE run'.n = run.n /\ run'.st = "tombstoned"
  <2>1. Spent' = ReworkRounds
    BY <1>1, <1>4 DEF Spent
  <2>2. \A f : Adds(f)' => Adds(f)
    BY <1>1, <1>4 DEF Adds
  <2> QED
    BY <1>1, <1>3, <1>4, <2>1, <2>2 DEF Purse, B
<1>5. CASE run'.n = run.n + 1 /\ run'.st = "queued"
  <2>1. Spent' = 0
    BY <1>1, <1>5 DEF Spent
  <2>2. ReworkRounds * (run'.n + grants' - 1) = B + ReworkRounds
    <3>1. run'.n + grants' - 1 = (n + grants - 1) + 1
      BY <1>1, <1>2, <1>5, RunsAre
    <3> QED
      BY <1>2, <3>1, OneMore DEF B
  <2>3. recorded[n + 1] = 0
    <3>1. n + 1 \in Lineage
      BY <1>5 DEF Shape
    <3> QED
      BY <1>2, <3>1 DEF Reckoned
  <2>4. ASSUME NEW f, Adds(f)'
        PROVE  f[n + 1] \in Nat /\ f[n] \in Nat /\ f[n + 1] <= B + ReworkRounds
    <3>1. Adds(f) /\ f[n + 1] = f[n] + recorded[n + 1]
      <4>1. f = [i \in Runs |-> f[i]] /\ f[0] = 0 /\ \A i \in 1..(n + 1) : f[i] = f[i - 1] + recorded[i]
        BY <1>1, <1>5, <2>4 DEF Adds
      <4>2. (n + 1) - 1 = n /\ n + 1 \in 1..(n + 1) /\ \A i \in 1..n : i \in 1..(n + 1)
        BY <1>2
      <4> QED
        BY <4>1, <4>2 DEF Adds
    <3>2. f[n] \in Nat /\ f[n] <= B + ReworkRounds
      BY <1>3, <3>1
    <3> QED
      BY <2>3, <3>1, <3>2
  <2>5. run'.n - 1 = n
    BY <1>2, <1>5
  <2>6. B + ReworkRounds + 0 = B + ReworkRounds
    BY <1>2
  <2> HIDE DEF n
  <2> QED
    BY <1>5, <2>1, <2>2, <2>4, <2>5, <2>6 DEF Purse, n
<1> QED
  BY <1>4, <1>5 DEF Forks

LEMMA PurseResumes ==
  ASSUME Shape, Driven, Cards, Wishes, Paced, Purse, NEW c \in Client,
         Resumes(c) /\ (request[c].at = "revise" => Ask(c).rounds # <<>>)
  PROVE  Purse'
<1> DEFINE n == run.n
           B == ReworkRounds * (n + grants - 1)
<1>1. leg = NoLeg /\ leg' \in Legs /\ leg' # NoLeg /\ recorded' = recorded /\ grants' = grants + 1
      /\ run.st = "parked" /\ run'.n = n
  BY NotDriven DEF Resumes, Asks
<1>2. n \in Nat /\ n > 0 /\ B \in Nat /\ n + grants - 1 \in Nat /\ Spent = ReworkRounds /\ ReworkRounds \in Nat
  BY <1>1, RunsAre, OneMore, Constants DEF Spent
<1>3. Spent' = 0
  <2>1. CASE request[c].at = "retry"
    <3>1. leg'.rounds = <<>> /\ leg'.start = 1
      BY <2>1, FreshIs DEF Resumes
    <3> QED
      BY <1>1, <3>1 DEF Spent
  <2>2. CASE request[c].at = "revise"
    <3>1. Ask(c) \in CardRow /\ leg' = ResumedLeg(Ask(c)) /\ Ask(c).rounds # <<>>
      BY <2>2, AnswerCloses, CardsAre DEF Ask, Resumes
    <3> DEFINE r == ResumedLeg(Ask(c))
    <3>2. r.rounds = Ask(c).rounds /\ r.start = Len(Ask(c).rounds) + 1
      BY <3>1, ResumedIs
    <3>3. leg' = r /\ Len(Ask(c).rounds) \in Nat
      BY <3>1 DEF CardRow
    <3> HIDE DEF r
    <3> QED
      BY <1>1, <3>2, <3>3 DEF Spent
  <2> QED
    BY <2>1, <2>2 DEF Resumes
<1>4. ReworkRounds * (run'.n + grants' - 1) = B + ReworkRounds
  <2>1. run'.n + grants' - 1 = (n + grants - 1) + 1
    BY <1>1, <1>2, RunsAre
  <2> QED
    BY <1>2, <2>1, OneMore
<1>5. \A f : Adds(f)' => Adds(f)
  BY <1>1 DEF Adds
<1> HIDE DEF B
<1>6. ASSUME NEW f, Adds(f) PROVE f[n] \in Nat /\ f[n - 1] \in Nat /\ f[n] <= B + ReworkRounds + 0
  BY <1>2, <1>6 DEF Purse, B
<1> QED
  BY <1>1, <1>3, <1>4, <1>5, <1>6 DEF Purse

LEMMA PurseMoves ==
  ASSUME Shape, Driven, Cards, Wishes, Reckoned, Paced, Purse, StepKind, Shape', Paced' PROVE Purse'
<1>1. CASE Records
  BY <1>1, PurseRecords
<1>2. CASE Forks
  BY <1>2, PurseForks
<1>3. Spent \in 0..ReworkRounds /\ ReworkRounds \in Nat
  BY SpentIs, Constants
<1>4. CASE LegKinds /\ ~ Records
  <2>1. recorded' = recorded /\ run'.n = run.n /\ grants' = grants
    BY <1>4 DEF LegKinds, Turns, Mints, Pins, Files, Decides, Stamps, Reworks, Raises, Starts, Parks, Ends, SameDesk
  <2>2. Spent <= Spent'
    <3>1. CASE Starts
      <4>1. Spent = 0
        BY <3>1 DEF Starts, Spent
      <4>2. Spent' = 0
        BY <3>1, FreshIs, NotDriven DEF Starts, Spent
      <4> QED
        BY <4>1, <4>2
    <3>2. CASE Parks \/ Ends
      <4>1. leg' = NoLeg /\ run'.st # "queued"
        BY <3>2 DEF Parks, Ends
      <4>2. Spent' = ReworkRounds
        BY <4>1 DEF Spent
      <4> QED
        BY <1>3, <4>2
    <3>3. CASE ~ (Starts \/ Parks \/ Ends)
      <4>1. leg \in Legs /\ leg' \in Legs /\ leg'.rounds = leg.rounds /\ leg'.start = leg.start
        BY <1>4, <3>3 DEF LegKinds, Turns, Mints, Pins, Files, Decides, Stamps, Reworks, Raises, Drives, SameWork
      <4>2. Spent' = Spent
        BY <4>1, NotDriven DEF Spent
      <4> QED
        BY <1>3, <4>2
    <3> QED
      BY <3>1, <3>2, <3>3
  <2> QED
    BY <2>1, <2>2, PurseKept
<1>5. ASSUME recorded' = recorded, run'.n = run.n, grants' = grants,
             leg' = leg \/ leg' = NoLeg, leg # NoLeg => run.st # "queued",
             run'.st = run.st \/ run'.st # "queued"
      PROVE  Purse'
  <2>1. Spent <= Spent'
    BY <1>3, <1>5 DEF Spent
  <2> QED
    BY <1>5, <2>1, PurseKept
<1>6. leg # NoLeg => run.st # "queued"
  BY DEF Driven
<1>7. CASE Dies \/ Remarks
  BY <1>5, <1>6, <1>7 DEF Dies, Remarks, SameDesk
<1>8. ASSUME NEW c \in Client, ClientKinds(c) PROVE Purse'
  <2>1. CASE Reads(c) \/ Settles(c) \/ Drops(c) \/ Kills(c)
    BY <1>5, <1>6, <2>1 DEF Reads, Settles, Drops, Kills, Asks
  <2>2. CASE Resumes(c) /\ (request[c].at = "revise" => Ask(c).rounds # <<>>)
    BY <2>2, PurseResumes
  <2> QED
    BY <1>8, <2>1, <2>2 DEF ClientKinds
<1> QED
  BY <1>1, <1>2, <1>4, <1>7, <1>8 DEF StepKind

LEMMA SummedMoves ==
  ASSUME Shape, Summed, StepKind PROVE Summed'
<1>1. PICK g \in [Runs -> Nat] : g[0] = 0 /\ \A i \in Lineage : g[i] = g[i - 1] + recorded[i]
  BY DEF Summed
<1>2. CASE recorded' = recorded
  BY <1>1, <1>2 DEF Summed
<1>3. CASE Records
  <2> DEFINE n == run.n
             h == [i \in Runs |-> IF i >= n THEN g[i] + 1 ELSE g[i]]
  <2>1. /\ n \in Nat /\ n > 0 /\ 0 \in Runs /\ recorded \in [Lineage -> Nat] /\ n \in Lineage
        /\ \A i \in Lineage : i \in Nat /\ i - 1 \in Runs /\ i \in Runs /\ recorded[i] \in Nat
        /\ \A i \in Runs : i \in Nat /\ g[i] \in Nat
    BY RunsAre, Constants DEF Shape, Runs
  <2>2. /\ recorded'[n] = recorded[n] + 1 /\ \A i \in Lineage : i # n => recorded'[i] = recorded[i]
    BY <1>3, <2>1 DEF Records
  <2>3. h \in [Runs -> Nat] /\ h[0] = 0
    BY <1>1, <2>1
  <2>4. ASSUME NEW i \in Lineage PROVE h[i] = h[i - 1] + recorded'[i]
    <3>1. h[i] = (IF i >= n THEN g[i] + 1 ELSE g[i]) /\ h[i - 1] = (IF i - 1 >= n THEN g[i - 1] + 1 ELSE g[i - 1])
      BY <2>1
    <3>2. g[i] = g[i - 1] + recorded[i] /\ g[i] \in Nat /\ g[i - 1] \in Nat /\ recorded[i] \in Nat /\ i \in Nat
      BY <1>1, <2>1
    <3>3. CASE i = n
      BY <2>1, <2>2, <3>1, <3>2, <3>3
    <3>4. CASE i # n
      BY <2>1, <2>2, <3>1, <3>2, <3>4
    <3> QED
      BY <3>3, <3>4
  <2> HIDE DEF h
  <2> QED
    BY <2>3, <2>4 DEF Summed
<1> QED
  BY <1>2, <1>3 DEF StepKind, LegKinds, Turns, Mints, Pins, Files, Decides, Stamps, Reworks, Raises, Starts, Parks,
     Ends, Dies, Forks, Remarks, ClientKinds, Reads, Resumes, Settles, Drops, Kills, Asks

\* Where such a sum exists, Paid is one.
LEMMA PaidAdds ==
  ASSUME Shape, Summed PROVE Adds(Paid)
<1> DEFINE Sum(f) == f = [n \in 0..(1 + MaxForks) |-> IF n = 0 THEN 0 ELSE f[n - 1] + recorded[n]]
<1>1. PICK g \in [Runs -> Nat] : g[0] = 0 /\ \A i \in Lineage : g[i] = g[i - 1] + recorded[i]
  BY DEF Summed
<1>2. Sum(g)
  <2>1. \A i \in Runs : i = 0 \/ i \in Lineage
    BY Constants DEF Runs, Lineage
  <2> QED
    BY <1>1, <2>1 DEF Runs
<1>3. Paid = CHOOSE f : Sum(f)
  BY DEF Paid
<1>4. Sum(Paid)
  <2> HIDE DEF Sum
  <2> QED
    BY <1>2, <1>3
<1>5. \A i \in 1..run.n : i # 0 /\ i \in Runs
  BY RunsAre
<1>6. 0 \in Runs
  BY RunsAre
<1> QED
  BY <1>4, <1>5, <1>6 DEF Adds, Runs

\* The invariant of the purse, on top of that of the drain.
LEMMA PurseBegins == Init => Purse /\ Summed
<1> SUFFICES ASSUME Init PROVE Purse /\ Summed
  OBVIOUS
<1>1. run.n = 1 /\ run.st = "queued" /\ leg = NoLeg /\ grants = 0 /\ recorded = [n \in Lineage |-> 0] /\ 1 \in Lineage
  BY Constants DEF Init, Lineage
<1>2. Spent = 0
  BY <1>1 DEF Spent
<1>3. Purse
  <2>1. ASSUME NEW f, Adds(f) PROVE f[1] = 0 /\ f[0] = 0
    BY <1>1, <2>1 DEF Adds
  <2>2. ReworkRounds * (1 + 0 - 1) + 0 = 0
    BY Constants
  <2> QED
    BY <1>1, <1>2, <2>1, <2>2 DEF Purse
<1>4. Summed
  <2> DEFINE g == [i \in Runs |-> 0]
  <2>1. g \in [Runs -> Nat] /\ g[0] = 0 /\ \A i \in Lineage : g[i] = g[i - 1] + recorded[i]
    <3>1. 0 \in Runs /\ \A i \in Lineage : i \in Runs /\ i - 1 \in Runs
      BY Constants DEF Runs, Lineage
    <3> QED
      BY <1>1, <3>1
  <2> QED
    BY <2>1 DEF Summed
<1> QED
  BY <1>3, <1>4

\* No interleaving of deaths, forks, answers and cancels spends a judge's
\* round that neither a run's budget nor a person's answer granted
\* (pipeline.go's cap per invocation of the drain).
THEOREM RoundsGranted == Spec => []RoundsAreGranted
<1>1. IInv /\ IInv' /\ Purse /\ Summed /\ [Next]_vars => Purse' /\ Summed'
  <2> SUFFICES ASSUME IInv, IInv', Purse, Summed, [Next]_vars PROVE Purse' /\ Summed'
    OBVIOUS
  <2>1. CASE Next
    BY <2>1, Steps, PurseMoves, SummedMoves DEF IInv
  <2>2. CASE UNCHANGED vars
    BY <2>2 DEF vars, cards, tally, Purse, Summed, Adds, Spent
  <2> QED
    BY <2>1, <2>2
<1>2. IInv /\ Purse /\ Summed => RoundsAreGranted
  <2> SUFFICES ASSUME IInv, Purse, Summed PROVE RoundsAreGranted
    OBVIOUS
  <2>1. Shape /\ Paced
    BY DEF IInv
  <2> DEFINE B == ReworkRounds * (run.n + grants - 1)
  <2>2. Paid[run.n] \in Nat /\ Paid[run.n] <= B + Spent
    BY <2>1, PaidAdds DEF Purse
  <2>3. Spent \in 0..ReworkRounds /\ run.n + grants - 1 \in Nat /\ B \in Nat
    BY <2>1, SpentIs, RunsAre, OneMore
  <2>4. ReworkRounds * (run.n + grants) = B + ReworkRounds
    <3>1. run.n + grants = (run.n + grants - 1) + 1
      BY <2>1, RunsAre
    <3> QED
      BY <2>3, <3>1, OneMore
  <2> HIDE DEF B
  <2> QED
    BY <2>2, <2>3, <2>4, Constants DEF RoundsAreGranted
<1> QED
  BY <1>1, <1>2, PurseBegins, DrainHolds, PTL DEF Spec
=============================================================================
