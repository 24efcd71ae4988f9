----------------------------- MODULE OwnerVerbs -----------------------------
(***************************************************************************)
(* What a person, the watchdog and a shutdown do to a run that somebody     *)
(* else may be driving: the cancel and resume verbs, the gate-card answer,  *)
(* the ladder card's retry and cancel, the watchdog's park-and-flag and the *)
(* maintenance park (src/internal/stage, intake, watchdog, scheduler).      *)
(*                                                                          *)
(* One request is in flight at a time.  A verb reads the run, decides on    *)
(* what it read, and applies the decision in a later transaction.           *)
(***************************************************************************)
EXTENDS DispatchLegs

CONSTANT MaxGen       \* bound: no resume takes a run past this generation

ASSUME MaxGenAssumption == MaxGen \in Nat

VARIABLE verb         \* the request in flight

\* at: the verb's next step; run, seen: what it read; todo: the runs of the
\* task a cancel has still to visit; door: the ladder card it was answered at.
IdleVerb == [at |-> "idle", run |-> NoRun, seen |-> "absent", todo |-> {}, door |-> NoRun]
Verb == [ at : {"idle", "cancel", "apply", "settle", "resume", "beat", "retry", "kanban"},
          run : Run \cup {NoRun}, seen : State \cup {"absent"}, todo : SUBSET Run,
          door : Run \cup {NoRun} ]

VerbTypeOK == verb \in Verb
VerbInit   == verb = IdleVerb

VerbAt(at) == verb' = [verb EXCEPT !.at = at]

-----------------------------------------------------------------------------
(* Cancel: one run (CancelRun), or every run of the task (the ladder card). *)

CancelRun(r) ==
    /\ verb.at = "idle" /\ Exists(r)
    /\ verb' = [IdleVerb EXCEPT !.at = "cancel", !.todo = {r}]
    /\ UNCHANGED <<store, legVars>>

LadderCancel(r) ==
    /\ verb.at = "idle" /\ card[r] = "open"
    /\ verb' = [IdleVerb EXCEPT !.at = "cancel", !.todo = { q \in Run : Exists(q) }, !.door = r]
    /\ UNCHANGED <<store, legVars>>

\* cancelOne reads the row.  An ended or crashed run is left alone; a run
\* being dispatched refuses the whole call; a running run is marked and its
\* live session told to stop.
CancelRead(r) ==
    /\ verb.at = "cancel" /\ r \in verb.todo
    /\ IF state[r] \in {"new", "claimed"} THEN verb' = IdleVerb /\ UNCHANGED marks
       ELSE IF IsTerminal(state[r]) \/ state[r] = "crashed"
         THEN verb' = [verb EXCEPT !.todo = @ \ {r}] /\ UNCHANGED marks
         ELSE /\ verb' = [verb EXCEPT !.at = "apply", !.run = r, !.seen = state[r], !.todo = @ \ {r}]
              /\ marks' = IF state[r] \in {"running", "draining"}
                            THEN { m \in marks : m[1] # r } \cup {<<r, gen[r]>>} ELSE marks
    /\ UNCHANGED <<store, legs>>

CancelTo(seen) == IF seen \in {"running", "draining"} THEN "completed" ELSE "finalized"

\* The mapped edge from the state that was READ: running completes, parked
\* finalizes and closes its ask, queued finalizes and settles its queue row.
\* The transition checks only the edge out of the state the row has NOW.
CancelApply ==
    /\ verb.at = "apply"
    /\ LET r == verb.run
       IN  IF CanTransition(state[r], CancelTo(verb.seen))
             THEN /\ Transition(r, CancelTo(verb.seen))
                  /\ ask' = IF verb.seen = "parked" /\ ask[r] = "open"
                              THEN [ask EXCEPT ![r] = "closed"] ELSE ask
                  /\ queue' = IF verb.seen = "queued" /\ queue[r] = "queued"
                                THEN [queue EXCEPT ![r] = "done"] ELSE queue
                  /\ VerbAt(IF verb.seen = "queued" THEN "cancel" ELSE "settle")
                  /\ UNCHANGED marks
             ELSE /\ verb' = IdleVerb
                  /\ marks' = IF verb.seen \in {"running", "draining"}
                                THEN { m \in marks : m[1] # r } ELSE marks
                  /\ UNCHANGED <<state, gen, runEvent, ask, queue>>
    /\ UNCHANGED <<attempts, origin, lease, card, receipts, column, legs>>

CancelSettle ==
    /\ verb.at = "settle"
    /\ IF IsTerminal(state[verb.run]) THEN SettleTerminal(verb.run)
                                      ELSE UNCHANGED <<queue, receipts>>
    /\ VerbAt("cancel")
    /\ UNCHANGED <<runRow, runEvent, cards, column, legVars>>

\* Every run was visited.  The board follows a cancel that ended something;
\* at a ladder card the door closes last, and the answer moves the board.
CancelEnd ==
    /\ verb.at = "cancel" /\ verb.todo = {}
    /\ LET shuts == verb.door # NoRun /\ card[verb.door] = "open"
       IN  /\ card' = IF shuts THEN [card EXCEPT ![verb.door] = "closed"] ELSE card
           /\ column' = IF shuts \/ verb.seen # "absent" THEN "cancelled" ELSE column
    /\ verb' = IdleVerb
    /\ UNCHANGED <<runRow, runEvent, ask, queue, receipts, legVars>>

-----------------------------------------------------------------------------
(* Resume: a person releases a park that has no open ask.                   *)

ResumeRead(r) ==
    /\ verb.at = "idle" /\ state[r] = "parked" /\ ask[r] # "open" /\ gen[r] < MaxGen
    /\ verb' = [IdleVerb EXCEPT !.at = "resume", !.run = r, !.seen = "parked"]
    /\ UNCHANGED <<store, legVars>>

ResumeApply ==
    /\ verb.at = "resume"
    /\ IF CanTransition(state[verb.run], "running") /\ gen[verb.run] < MaxGen
          THEN Transition(verb.run, "running") /\ VerbAt("beat")
          ELSE verb' = IdleVerb /\ UNCHANGED <<state, gen, runEvent>>
    /\ UNCHANGED <<attempts, origin, lease, cards, queue, receipts, column, legVars>>

\* One beat, at the generation read now; no leg is started.
ResumeBeat ==
    /\ verb.at = "beat"
    /\ Renew(verb.run, gen[verb.run])
    /\ verb' = IdleVerb
    /\ UNCHANGED <<state, gen, attempts, origin, runEvent, cards, queue, receipts, column, legVars>>

\* A gate answer: the ask closes and a parked run resumes in one transaction,
\* and the answering request drives it from there.
AnswerGate(r) ==
    /\ ask[r] = "open" /\ gen[r] < MaxGen
    /\ ask' = [ask EXCEPT ![r] = "closed"]
    /\ IF state[r] = "parked"
          THEN /\ Transition(r, "running")
               /\ legs' = legs \cup {[run |-> r, gen |-> gen[r] + 1, by |-> "answer", pc |-> "working"]}
          ELSE UNCHANGED <<state, gen, runEvent, legs>>
    /\ UNCHANGED <<attempts, origin, lease, card, queue, receipts, column, marks, verb>>

-----------------------------------------------------------------------------
(* Retry at the ladder's card: a person buys the lineage a fresh budget.    *)

\* The refusal by the board column is read before the transaction.
RetryRead(r) ==
    /\ verb.at = "idle" /\ card[r] = "open" /\ column # "cancelled" /\ gen[r] < MaxGen
    /\ verb' = [IdleVerb EXCEPT !.at = "retry", !.run = r, !.seen = state[r]]
    /\ UNCHANGED <<store, legVars>>

\* Close the card, fence the ended generation, create the queued successor.
RetryApply ==
    /\ verb.at = "retry"
    /\ LET r == verb.run
       IN  \/ /\ card[r] = "open"
              /\ \E s \in Run \ Root :
                   /\ state[s] = "absent"
                   /\ state' = [state EXCEPT ![s] = "queued"]
                   /\ Birth(s, r, gen[r] + 1, "answer", 0)
                   /\ cursor' = [cursor EXCEPT ![s] = "fresh"]
                   /\ flagged' = flagged \ {s}
                   /\ verb' = [verb EXCEPT !.at = "kanban", !.run = s]
              /\ card' = [card EXCEPT ![r] = "closed"]
           \/ /\ card[r] # "open"
              /\ verb' = IdleVerb
              /\ UNCHANGED <<state, gen, attempts, origin, runEvent, card>>
    /\ UNCHANGED <<lease, ask, queue, receipts, column, legVars>>

\* Admit the successor, then put the task back in its stage column.
RetryAdmit ==
    /\ verb.at = "kanban"
    /\ IF state[verb.run] = "queued" THEN Materialize(verb.run) /\ column' = "moving"
                                     ELSE UNCHANGED <<queue, column>>
    /\ verb' = IdleVerb
    /\ UNCHANGED <<runRow, runEvent, cards, receipts, legVars>>

-----------------------------------------------------------------------------
(* Parks that leave the leg alone.                                          *)

\* Watchdog containment, never a kill: park where the edge exists, and append
\* the flag.  A rule that asks for no park, or a run past parking, is flagged
\* alone.
ParkAndFlag(r, park) ==
    /\ Exists(r)
    /\ IF park /\ CanTransition(state[r], "parked")
          THEN Transition(r, "parked")
          ELSE Append(r) /\ UNCHANGED <<state, gen>>
    /\ UNCHANGED <<attempts, origin, lease, cards, queue, receipts, column, legVars, verb>>

\* Maintenance: park what this process still dispatches.
ParkInFlight(r) ==
    /\ \E l \in legs : l.run = r /\ l.by = "dispatch"
    /\ state[r] \in {"running", "draining"}
    /\ Transition(r, "parked")
    /\ UNCHANGED <<attempts, origin, lease, cards, queue, receipts, column, legVars, verb>>

CancelStep == CancelApply \/ CancelSettle \/ CancelEnd \/ \E r \in verb.todo : CancelRead(r)
VerbFollows == CancelStep \/ ResumeApply \/ ResumeBeat \/ RetryApply \/ RetryAdmit
VerbStarts(r) == CancelRun(r) \/ LadderCancel(r) \/ ResumeRead(r) \/ RetryRead(r)
=============================================================================
