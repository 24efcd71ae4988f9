---------------------------- MODULE DispatchLegs ----------------------------
(***************************************************************************)
(* The goroutines that drive runs: the dispatch leg a claim starts          *)
(* (scheduler.dispatch around stage.Dispatch) and the leg a card answer     *)
(* drives inline.  A leg works on its run between transactions, and nothing *)
(* stops it when somebody else moves its run: it finds out only where it    *)
(* next touches the store.                                                  *)
(*                                                                          *)
(* A leg is [run, gen, by, pc]; gen is the generation it took the run at.   *)
(*   claimed    dispatched, claimed -> running not yet taken                *)
(*   working    inside a stage session or between two of them               *)
(*   unwinding  a step failed; the cancel marks are consulted next          *)
(*   filing     the crash transition comes next                             *)
(*   ended      the drive returned; the settle comes next                   *)
(***************************************************************************)
EXTENDS RunStore

VARIABLES
    legs,    \* the live legs of this process
    marks    \* liveSessions.requested: cancels requested at <<run, generation>>

legVars == <<legs, marks>>

Leg == [ run : Run, gen : Nat, by : {"dispatch", "answer"},
         pc : {"claimed", "working", "unwinding", "filing", "ended"} ]

LegsTypeOK == legs \subseteq Leg /\ marks \subseteq Run \X Nat
LegsInit   == legs = {} /\ marks = {}

\* A leg that still holds its run's lease and can append to its event log.
Drives(l, r) == l.run = r /\ l.gen = gen[r] /\ l.pc # "ended"
Driven(r)    == \E l \in legs : Drives(l, r)

LegAt(l, pc) == legs' = (legs \ {l}) \cup {[l EXCEPT !.pc = pc]}
\* Only a dispatch leg re-reads the run when its drive returns.
LegReturns(l) == IF l.by = "dispatch" THEN LegAt(l, "ended") ELSE legs' = legs \ {l}

-----------------------------------------------------------------------------
\* The lease keeper's beat, at the generation pinned when the hold was taken.
LegBeat(l) ==
    /\ l.pc # "ended" /\ lease[l.run] # "live"
    /\ Renew(l.run, l.gen)
    /\ UNCHANGED <<state, gen, attempts, origin, runEvent, cards, queue, receipts, column, legVars>>

\* The leg takes its claimed run; a refused edge returns without a crash.
LegStart(l) ==
    /\ l.pc = "claimed"
    /\ IF CanTransition(state[l.run], "running")
          THEN Transition(l.run, "running") /\ LegAt(l, "working")
          ELSE LegReturns(l) /\ UNCHANGED <<state, gen, runEvent>>
    /\ UNCHANGED <<attempts, origin, lease, cards, queue, receipts, column, marks>>

\* A step of the work lands its event.  At a superseded generation the event
\* log refuses it, and the leg takes the refusal for a failed step.
LegProgress(l) ==
    /\ l.pc = "working"
    /\ IF Fenced(l.run, l.gen)
          THEN /\ cursor[l.run] # "fresh" \/ l.run \in flagged
               /\ Append(l.run) /\ legs' = legs
          ELSE LegAt(l, "unwinding") /\ UNCHANGED runEvent
    /\ UNCHANGED <<runRow, cards, queue, receipts, column, marks>>

\* Any error of a step: engine, checkpoint store, disk.
LegFail(l) ==
    /\ l.pc \in {"claimed", "working"}
    /\ LegAt(l, "unwinding")
    /\ UNCHANGED <<store, marks>>

\* crashWith reads the run and consumes a cancel mark taken at its current
\* generation.  The answer path crashes only a run it reads as running.
LegUnwind(l) ==
    /\ l.pc = "unwinding"
    /\ \/ /\ l.by = "answer" /\ state[l.run] # "running"
          /\ LegReturns(l) /\ UNCHANGED marks
       \/ /\ l.by = "dispatch" \/ state[l.run] = "running"
          /\ <<l.run, gen[l.run]>> \in marks
          /\ marks' = marks \ {<<l.run, gen[l.run]>>} /\ LegReturns(l)
       \/ /\ l.by = "dispatch" \/ state[l.run] = "running"
          /\ <<l.run, gen[l.run]>> \notin marks
          /\ LegAt(l, "filing") /\ UNCHANGED marks
    /\ UNCHANGED store

\* The crash transition, at whatever generation the row has by now.
LegFileCrash(l) ==
    /\ l.pc = "filing"
    /\ IF CanTransition(state[l.run], "crashed")
          THEN Transition(l.run, "crashed") ELSE UNCHANGED <<state, gen, runEvent>>
    /\ LegReturns(l)
    /\ UNCHANGED <<attempts, origin, lease, cards, queue, receipts, column, marks>>

\* The work is done: running -> completed, or a refused edge and no crash.
LegComplete(l) ==
    /\ l.pc = "working"
    /\ IF CanTransition(state[l.run], "completed")
          THEN Transition(l.run, "completed") /\ LegAt(l, "ended")
          ELSE LegReturns(l) /\ UNCHANGED <<state, gen, runEvent>>
    /\ UNCHANGED <<attempts, origin, lease, cards, queue, receipts, column, marks>>

\* Mutant: the ask row is written whether or not the park is refused.
LegGateUnchecked(l) ==
    /\ l.pc = "working"
    /\ IF CanTransition(state[l.run], "parked")
          THEN Transition(l.run, "parked") /\ LegReturns(l)
          ELSE LegAt(l, "unwinding") /\ UNCHANGED <<state, gen, runEvent>>
    /\ ask' = [ask EXCEPT ![l.run] = "open"]
    /\ UNCHANGED <<attempts, origin, lease, card, queue, receipts, column, marks>>

\* issueCard: the ask row and the park are one transaction; a refused park is
\* a failed step.
LegGate(l) ==
    /\ l.pc = "working"
    /\ IF CanTransition(state[l.run], "parked")
          THEN /\ Transition(l.run, "parked")
               /\ ask' = [ask EXCEPT ![l.run] = "open"]
               /\ LegReturns(l)
          ELSE LegAt(l, "unwinding") /\ UNCHANGED <<state, gen, runEvent, ask>>
    /\ UNCHANGED <<attempts, origin, lease, card, queue, receipts, column, marks>>

\* The owner's pause switch, read at a stage boundary: park with no ask.  A
\* refused park lets the leg go on.
LegPausePark(l) ==
    /\ l.pc = "working" /\ l.by = "dispatch"
    /\ CanTransition(state[l.run], "parked")
    /\ Transition(l.run, "parked")
    /\ LegReturns(l)
    /\ UNCHANGED <<attempts, origin, lease, cards, queue, receipts, column, marks>>

\* Mutant: a returned drive is taken for a finished run.
LegSettleBlind(l) ==
    /\ l.pc = "ended"
    /\ SettleTerminal(l.run)
    /\ legs' = legs \ {l}
    /\ UNCHANGED <<runRow, runEvent, cards, column, marks>>

\* The drive returned: re-read the run and settle it if it has ended.
LegSettle(l) ==
    /\ l.pc = "ended"
    /\ IF IsTerminal(state[l.run]) THEN SettleTerminal(l.run)
                                   ELSE UNCHANGED <<queue, receipts>>
    /\ legs' = legs \ {l}
    /\ UNCHANGED <<runRow, runEvent, cards, column, marks>>

LegStep(l) ==
    \/ LegBeat(l) \/ LegStart(l) \/ LegProgress(l) \/ LegFail(l) \/ LegUnwind(l)
    \/ LegFileCrash(l) \/ LegComplete(l) \/ LegGate(l) \/ LegPausePark(l) \/ LegSettle(l)
=============================================================================
