--------------------------- MODULE AcceptCeremony ----------------------------
(***************************************************************************)
(* Accepting a deliverable onto a project's default branch                   *)
(* (src/internal/accept/accept.go), the only way onto it: the effect is      *)
(* journaled, the candidate is squashed onto a pinned base, pushed against   *)
(* that base (or, without a remote, advanced in the project's own store),    *)
(* and only then recorded.  Several accept calls, the recovery pass, the     *)
(* boot's re-drive, people at the inbox, other people's pushes and crashes   *)
(* interleave.                                                               *)
(*                                                                          *)
(* A commit is the history it ends: a squash appends one entry to its base,  *)
(* which names the effect and the instant of its approval, so that the same  *)
(* effect approved once always squashes to the same commit.  One project;    *)
(* one effect per call.                                                      *)
(***************************************************************************)
EXTENDS EffectJournal, Sequences, SequencesExt

CONSTANTS
    Deliverable,    \* deliverable ids, repo-backed and in review at first
    Boot,           \* the startup re-drive, which works like a caller
    None,           \* no effect, no deliverable, no answer yet
    MaxCrashes,     \* bound on crashes
    MaxOthers       \* bound on other people's pushes

ASSUME NamesAssumption == Boot \notin Effect /\ None \notin Effect \cup Deliverable

VARIABLES
    what,       \* the deliverable an effect's payload pins
    onto,       \* the base its payload pins (expect_sha)
    dstate,     \* deliverables.state
    remote,     \* the remote's protected ref
    local,      \* the store's default branch
    hasRemote,  \* whether the registry entry records a remote
    inflight,   \* the pushed effect local has not caught up with
    pc,         \* where each caller, and the re-drive, stands
    driving,    \* the effect the re-drive works on
    redrive,    \* effects the re-drive has still to take
    phase,      \* startup: "ladder", then "redrive", then "up"
    told,       \* what the requester was answered
    spent       \* bounded environment steps used so far

git  == <<remote, local>>
call == <<pc, driving, redrive>>
vars == <<journal, what, onto, dstate, git, hasRemote, inflight, call, phase, told, spent>>

Driver == Effect \cup {Boot}
\* The effect a driver works on, and the commit its squash yields.
Of(p)     == IF p = Boot THEN driving ELSE p
Commit(e) == Append(onto[e], <<e, stamp[e]>>)
Branch    == IF hasRemote THEN remote ELSE local
Landed(e) == \E i \in DOMAIN Branch : Branch[i][1] = e

Init ==
    /\ JournalInit
    /\ what = [e \in Effect |-> None] /\ onto = [e \in Effect |-> <<>>]
    /\ dstate = [d \in Deliverable |-> "in-review"]
    /\ remote = <<>> /\ local = <<>> /\ hasRemote \in BOOLEAN /\ inflight = None
    /\ pc = [p \in Driver |-> "off"] /\ driving = None /\ redrive = {}
    /\ phase = "ladder" /\ told = [e \in Effect |-> None]
    /\ spent = [crashes |-> 0, others |-> 0]

Goto(p, s) == pc' = [pc EXCEPT ![p] = s] /\ UNCHANGED <<driving, redrive, told>>

\* A driver returns: the caller is answered; the re-drive takes the next
\* effect, or gives up on the rest after an error.
Return(p, answer) ==
    /\ pc' = [pc EXCEPT ![p] = "off"]
    /\ told' = IF p = Boot THEN told ELSE [told EXCEPT ![p] = answer]
    /\ driving' = IF p = Boot THEN None ELSE driving
    /\ redrive' = IF p = Boot /\ answer \in {"error", "failed"} THEN {} ELSE redrive

ClearInflight(e) == inflight' = IF inflight = e THEN None ELSE inflight

-----------------------------------------------------------------------------
\* Accept: read the deliverable; read the base, which is a pushed commit that
\* local has not caught up with before it is the default branch; merge; journal.
Start(e, d) ==
    /\ pc[e] = "off" /\ what[e] = None /\ dstate[d] = "in-review"
    /\ what' = [what EXCEPT ![e] = d]
    /\ Goto(e, "base")
    /\ UNCHANGED <<journal, onto, dstate, git, hasRemote, inflight, phase, spent>>

Base(e) ==
    /\ pc[e] = "base"
    /\ \/ /\ onto' = [onto EXCEPT ![e] = IF inflight # None THEN Commit(inflight) ELSE local]
          /\ Goto(e, "propose")
       \/ Return(e, "card") /\ UNCHANGED onto      \* a merge collision
    /\ UNCHANGED <<journal, what, dstate, git, hasRemote, inflight, phase, spent>>

ProposeStep(e) ==
    /\ pc[e] = "propose" /\ Propose(e) /\ Goto(e, "approve")
    /\ UNCHANGED <<what, onto, dstate, git, hasRemote, inflight, phase, spent>>

ApproveStep(e) ==
    /\ pc[e] = "approve"
    /\ \/ Approve(e) /\ Goto(e, "execute")
       \/ estate[e] # "proposed" /\ Return(e, "error") /\ UNCHANGED journal
    /\ UNCHANGED <<what, onto, dstate, git, hasRemote, inflight, phase, spent>>

\* executeAccept, for a caller and for the re-drive alike.  Only an approval
\* that waited for a boot can have expired.
ExecuteStep(p) ==
    /\ pc[p] = "execute"
    /\ \/ BeginExecute(Of(p)) /\ Goto(p, "squash")
       \/ p = Boot /\ pc[driving] = "off" /\ ExpireApproval(driving) /\ Return(p, "error")
       \/ estate[Of(p)] # "approved" /\ Return(p, "error") /\ UNCHANGED journal
    /\ UNCHANGED <<what, onto, dstate, git, hasRemote, inflight, phase, spent>>

\* The squash writes an object no ref names yet; the signing posture, the
\* signature or git may fail.
SquashStep(p) ==
    /\ pc[p] = "squash"
    /\ \E s \in {"land", "failError"} : Goto(p, s)
    /\ UNCHANGED <<journal, what, onto, dstate, git, hasRemote, inflight, phase, spent>>

\* Mutant: the push is not held to the pinned base.
LeaseHoldsForced(e) == TRUE

\* What git accepts: the ref is still the pinned base, or already the commit.
LeaseHolds(e) == remote \in {onto[e], Commit(e)}

\* Mutant: the rejection in the broker's reply is not read.
PushStepUnread(p) ==
    /\ pc[p] = "land" /\ hasRemote
    /\ remote' = IF LeaseHolds(Of(p)) THEN Commit(Of(p)) ELSE remote
    /\ Goto(p, "succeed") /\ inflight' = Of(p)
    /\ UNCHANGED <<journal, what, onto, dstate, local, hasRemote, phase, spent>>

\* The broker's push: refused, lost before or after it landed, or landed.
PushStep(p) ==
    /\ pc[p] = "land" /\ hasRemote
    /\ \/ Goto(p, "failError") /\ UNCHANGED <<remote, inflight>>
       \/ ~LeaseHolds(Of(p)) /\ Goto(p, "failCard") /\ UNCHANGED <<remote, inflight>>
       \/ LeaseHolds(Of(p)) /\ remote' = Commit(Of(p))
          /\ \/ Goto(p, "failError") /\ UNCHANGED inflight
             \/ Goto(p, "succeed") /\ inflight' = Of(p)
    /\ UNCHANGED <<journal, what, onto, dstate, local, hasRemote, phase, spent>>

\* AdvanceDefaultBranch: nothing to do, or a fast-forward.
FastForward(commit) ==
    /\ IsPrefix(commit, local) \/ IsPrefix(local, commit)
    /\ local' = IF IsPrefix(commit, local) THEN local ELSE commit

Diverged(commit) == ~IsPrefix(commit, local) /\ ~IsPrefix(local, commit)

\* landLocal: the advance is the landing.
LandLocalStep(p) ==
    /\ pc[p] = "land" /\ ~hasRemote
    /\ \/ FastForward(Commit(Of(p))) /\ Goto(p, "succeed")
       \/ Diverged(Commit(Of(p))) /\ Goto(p, "failCard") /\ UNCHANGED local
    /\ UNCHANGED <<journal, what, onto, dstate, remote, hasRemote, inflight, phase, spent>>

\* failEffect, best-effort, and the answer.
FailStep(p) ==
    /\ pc[p] \in {"failCard", "failError"}
    /\ \/ Finish(Of(p), "failed")
       \/ estate[Of(p)] # "executing" /\ UNCHANGED journal
    /\ Return(p, IF pc[p] = "failCard" THEN "card" ELSE "failed")
    /\ UNCHANGED <<what, onto, dstate, git, hasRemote, inflight, phase, spent>>

SucceedStep(p) ==
    /\ pc[p] = "succeed"
    /\ \/ Finish(Of(p), "succeeded") /\ Goto(p, "review") /\ UNCHANGED inflight
       \/ /\ estate[Of(p)] # "executing" /\ UNCHANGED journal
          /\ Return(p, "error") /\ ClearInflight(Of(p))
    /\ UNCHANGED <<what, onto, dstate, git, hasRemote, phase, spent>>

\* review.Store.Accept, idempotent.
ReviewStep(p) ==
    /\ pc[p] = "review"
    /\ dstate' = [dstate EXCEPT ![what[Of(p)]] = "accepted"]
    /\ IF hasRemote THEN Goto(p, "advance") ELSE Return(p, "accepted")
    /\ UNCHANGED <<journal, what, onto, git, hasRemote, inflight, phase, spent>>

AdvanceStep(p) ==
    /\ pc[p] = "advance"
    /\ \/ FastForward(Commit(Of(p))) /\ Return(p, "accepted")
       \/ Diverged(Commit(Of(p))) /\ UNCHANGED local /\ Return(p, "error")
    /\ ClearInflight(Of(p))
    /\ UNCHANGED <<journal, what, onto, dstate, remote, hasRemote, phase, spent>>

-----------------------------------------------------------------------------
\* A recovery pass resolves the journal's in-doubt rows: the startup pass
\* before anything is re-driven, the periodic ones beside live calls.
PassList ==
    /\ phase \in {"ladder", "up"} /\ doubt = {}
    /\ ListInDoubt
    /\ phase' = IF phase = "ladder" THEN "redrive" ELSE phase
    /\ UNCHANGED <<what, onto, dstate, git, hasRemote, inflight, call, told, spent>>

PassResolve(e) ==
    /\ ResolveInDoubt(e)
    /\ UNCHANGED <<what, onto, dstate, git, hasRemote, inflight, call, phase, told, spent>>

\* ReDriveApproved lists the approved effects once the startup pass is done.
ReDriveList ==
    /\ phase = "redrive" /\ doubt = {}
    /\ redrive' = {e \in Effect : estate[e] = "approved"}
    /\ phase' = "up"
    /\ UNCHANGED <<journal, what, onto, dstate, git, hasRemote, inflight, pc, driving, told, spent>>

\* Mutant: the re-drive squashes onto the branch as it finds it.
ReDriveRebased(e) ==
    /\ pc[Boot] = "off" /\ e \in redrive
    /\ redrive' = redrive \ {e}
    /\ \/ /\ estate[e] = "approved" /\ driving' = e /\ pc' = [pc EXCEPT ![Boot] = "execute"]
          /\ onto' = [onto EXCEPT ![e] = Branch]
       \/ estate[e] # "approved" /\ UNCHANGED <<driving, pc, onto>>
    /\ UNCHANGED <<journal, what, dstate, git, hasRemote, inflight, phase, told, spent>>

\* ReDrive: the pinned payload, never a new base.
ReDrive(e) ==
    /\ pc[Boot] = "off" /\ e \in redrive
    /\ \/ /\ estate[e] = "approved" /\ driving' = e /\ redrive' = redrive \ {e}
          /\ pc' = [pc EXCEPT ![Boot] = "execute"]
       \/ estate[e] # "approved" /\ redrive' = {} /\ UNCHANGED <<driving, pc>>
    /\ UNCHANGED <<journal, what, onto, dstate, git, hasRemote, inflight, phase, told, spent>>

\* A proposal is also an approval card: people answer it at the inbox.
InboxAnswer(e) ==
    /\ Approve(e) \/ Deny(e)
    /\ UNCHANGED <<what, onto, dstate, git, hasRemote, inflight, call, phase, told, spent>>

\* Somebody else pushes to the remote; nothing here fetches it.
OtherPush ==
    /\ hasRemote /\ spent.others < MaxOthers
    /\ spent' = [spent EXCEPT !.others = @ + 1]
    /\ remote' = Append(remote, <<None, 0>>)
    /\ UNCHANGED <<journal, what, onto, dstate, local, hasRemote, inflight, call, phase, told>>

\* The process dies and starts again.
Crash ==
    /\ spent.crashes < MaxCrashes
    /\ spent' = [spent EXCEPT !.crashes = @ + 1]
    /\ pc' = [p \in Driver |-> "off"] /\ driving' = None /\ redrive' = {}
    /\ doubt' = {} /\ inflight' = None /\ phase' = "ladder"
    /\ UNCHANGED <<estate, stamp, clock, what, onto, dstate, git, hasRemote, told>>

Next ==
    \/ \E e \in Effect : \/ \E d \in Deliverable : Start(e, d)
                         \/ Base(e) \/ ProposeStep(e) \/ ApproveStep(e)
                         \/ PassResolve(e) \/ ReDrive(e) \/ InboxAnswer(e)
    \/ \E p \in Driver : \/ ExecuteStep(p) \/ SquashStep(p) \/ PushStep(p) \/ LandLocalStep(p)
                         \/ FailStep(p) \/ SucceedStep(p) \/ ReviewStep(p) \/ AdvanceStep(p)
    \/ PassList \/ ReDriveList \/ OtherPush \/ Crash

Spec == Init /\ [][Next]_vars

-----------------------------------------------------------------------------
\* "Never a silent overwrite": whatever is driven twice, re-driven stale or
\* raced by other people's pushes, neither branch ever loses a commit.
BranchesOnlyGrow == [][IsPrefix(remote, remote') /\ IsPrefix(local, local')]_vars

\* The at-least-once replay is invisible: however often an effect is executed,
\* expired, approved again and re-driven, its work is on the branch once.
EffectLandsOnce ==
    \A i, j \in DOMAIN Branch : Branch[i][1] \in Effect /\ Branch[i][1] = Branch[j][1] => i = j

\* A deliverable is accepted only for work that is on the project's branch.
AcceptedIsLanded ==
    \A d \in Deliverable : dstate[d] = "accepted" =>
        \E e \in Effect : what[e] = d /\ estate[e] = "succeeded" /\ Landed(e)

\* The store's default branch holds nothing the remote does not.
LocalFollowsRemote == hasRemote => IsPrefix(local, remote)

\* The ceremony implements LandingLog: its log names whose commits the branch
\* holds, its claims are what the payloads pin, its accepted deliverables the
\* recorded ones.
Landing == INSTANCE LandingLog WITH
    log      <- [i \in DOMAIN Branch |-> Branch[i][1]],
    work     <- what,
    accepted <- {d \in Deliverable : dstate[d] = "accepted"}
LandingIsKept == Landing!Spec
=============================================================================
