----------------------------- MODULE IntakeGates -----------------------------
(***************************************************************************)
(* What an intake keeps (src/internal/intake): the pipeline's state, one    *)
(* document appended to the event log of the run it names, the latest event *)
(* being the state; the cards, each a numbered ask row; and the lineage of  *)
(* intake runs.                                                             *)
(*                                                                          *)
(* Every driver works on its own copy of the document and appends the whole *)
(* of it.  An append compares nothing with what is there: only the closing  *)
(* of a card and the transitions of a run can refuse.                       *)
(***************************************************************************)
EXTENDS Naturals, FiniteSets

CONSTANTS
    Tiers,      \* the stakes tiers, 0 for trivial and 2 for standard
    MaxCards,   \* bound: cards issued
    MaxForks    \* recovery.max_attempts

ASSUME TiersAssumption ==
    Tiers \subseteq Nat /\ \E t \in Tiers : \A u \in Tiers : u <= t

ASSUME BoundsAssumption == MaxCards \in Nat /\ MaxForks \in Nat

VARIABLES
    doc,        \* the latest intake.state event
    asks,       \* the ask rows, by card number
    runs        \* the intake runs, by place in the lineage

gates == <<doc, asks, runs>>

Lineage == 1..(1 + MaxForks)
Card    == 1..MaxCards

\* Stakes: trivial is the zero-interaction band, standard the first tier
\* whose plan must be attacked.
Trivial  == 0
Standard == 2
High     == CHOOSE t \in Tiers : \A u \in Tiers : u <= t

Phase    == {"interview", "spine", "critique", "approval", "approved", "cancelled"}
CardKind == {"family", "interview", "clarification", "escalation", "emission",
             "coverage", "research", "doubt", "approval"}
Over(st) == st.phase \in {"approved", "cancelled"}

\* draft: NeedsDraft; revise: a PendingRevise; contested: an objection of the
\* requester that no accepted plan has answered yet; coverage, attacks,
\* asked, bounced: the rounds spent on coverage, critique, clarification and
\* research; critiqued: CritiqueDone; ask: the gate it waits at, 0 for none.
Documents ==
    [phase : Phase, run : Lineage, ask : 0..MaxCards, cards : 0..MaxCards,
     draft : BOOLEAN, revise : BOOLEAN, contested : BOOLEAN,
     coverage : Nat, attacks : Nat, asked : Nat, bounced : BOOLEAN,
     critiqued : BOOLEAN, reinterview : BOOLEAN,
     tier : Tiers, triage : BOOLEAN, family : BOOLEAN]

NoAsk == [st |-> "none", kind |-> "none", run |-> 0]

\* Start: the document of a new request, whose project may declare its family.
GatesInit ==
    /\ \E known \in BOOLEAN :
        doc = [phase |-> "interview", run |-> 1, ask |-> 0, cards |-> 0,
               draft |-> TRUE, revise |-> FALSE, contested |-> FALSE,
               coverage |-> 0, attacks |-> 0, asked |-> 0, bounced |-> FALSE,
               critiqued |-> FALSE, reinterview |-> FALSE,
               tier |-> High, triage |-> TRUE, family |-> known]
    /\ asks = [k \in Card |-> NoAsk]
    /\ runs = [n \in Lineage |-> IF n = 1 THEN "queued" ELSE "absent"]

Newest == CHOOSE n \in Lineage :
            runs[n] # "absent" /\ \A m \in Lineage : m > n => runs[m] = "absent"

Waiting(k) == k \in Card /\ asks[k].st = "open"

-----------------------------------------------------------------------------
(* The transactions on a document `st`.                                     *)

AppendState(st) == doc' = st /\ UNCHANGED <<asks, runs>>

\* The document that waits at its next card.
Carded(st) == [st EXCEPT !.cards = @ + 1, !.ask = st.cards + 1]

CanIssue(st) ==
    st.cards < MaxCards /\ asks[st.cards + 1] = NoAsk /\ runs[st.run] = "running"

\* Mutant: the run is left running under its card.
IssueUnparked(st, kind) ==
    /\ CanIssue(st)
    /\ asks' = [asks EXCEPT ![st.cards + 1] = [st |-> "open", kind |-> kind, run |-> st.run]]
    /\ UNCHANGED runs
    /\ doc' = Carded(st)

\* issueCard: the ask row, the park and the state, in one transaction.
Issue(st, kind) ==
    /\ CanIssue(st)
    /\ asks' = [asks EXCEPT ![st.cards + 1] = [st |-> "open", kind |-> kind, run |-> st.run]]
    /\ runs' = [runs EXCEPT ![st.run] = "parked"]
    /\ doc' = Carded(st)

\* Mutant: the status of the row is not compared.
CanCloseAny(k) == k \in Card /\ asks[k] # NoAsk

\* closeAskTx answers an open row only.
CanClose(k) == Waiting(k)

\* closeAndResume, and approve's closing transaction: the row, the resume (or
\* the end) of a parked run, and the state.
Close(k, how, st) ==
    /\ CanClose(k)
    /\ asks' = [asks EXCEPT ![k].st = how]
    /\ runs' = IF runs[st.run] = "parked"
                 THEN [runs EXCEPT ![st.run] =
                        IF st.phase = "cancelled" THEN "finalized" ELSE "running"]
                 ELSE runs
    /\ doc' = [st EXCEPT !.ask = 0]

\* rebind's transaction: the successor takes over the document and the card it
\* waits at, and parks on it.
CanRebind(st, n) == st.ask = 0 \/ runs[n] = "running"
Rebind(st, n) ==
    /\ CanRebind(st, n)
    /\ doc' = [st EXCEPT !.run = n]
    /\ asks' = IF Waiting(st.ask) THEN [asks EXCEPT ![st.ask].run = n] ELSE asks
    /\ runs' = IF st.ask # 0 THEN [runs EXCEPT ![n] = "parked"] ELSE runs

=============================================================================
