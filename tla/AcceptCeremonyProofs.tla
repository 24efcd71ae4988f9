------------------------ MODULE AcceptCeremonyProofs -------------------------
(***************************************************************************)
(* Proofs about AcceptCeremony, for any effects, deliverables, crashes and   *)
(* pushes of other people, with and without a remote.                        *)
(*                                                                          *)
(* The argument: an effect's base never changes once the effect is proposed  *)
(* and is always a prefix of the branch, so the lease of a push, and the     *)
(* fast-forward of a local landing, leave its commit one place only: right   *)
(* after its base.                                                           *)
(***************************************************************************)
EXTENDS AcceptCeremony, SequenceTheorems, TLAPS

-----------------------------------------------------------------------------
\* What holds in every reachable state.

Entry    == (Effect \cup {None}) \X Nat
History  == Seq(Entry)
EState   == {"none", "proposed", "approved", "executing", "succeeded", "failed"}
Place    == {"off", "base", "propose", "approve", "execute", "squash", "land",
             "failCard", "failError", "succeed", "review", "advance"}
MaybeNone(S) == S \cup {None}

Types ==
    /\ estate \in [Effect -> EState] /\ stamp \in [Effect -> Nat] /\ clock \in Nat
    /\ doubt \subseteq Effect
    /\ what \in [Effect -> MaybeNone(Deliverable)]
    /\ onto \in [Effect -> History]
    /\ dstate \in [Deliverable -> {"in-review", "accepted"}]
    /\ remote \in History /\ local \in History /\ hasRemote \in BOOLEAN
    /\ inflight \in MaybeNone(Effect)
    /\ pc \in [Driver -> Place] /\ driving \in MaybeNone(Effect)
    /\ redrive \subseteq Effect

\* A driver that has begun its effect, and one whose push has been accepted.
Pushed(p)  == pc[p] \in {"succeed", "review", "advance"}
Working(p) == pc[p] \in {"squash", "land", "failCard", "failError"} \/ Pushed(p)

\* A driver past its approval works on an effect that cannot be re-approved,
\* and records the review only of one that succeeded.
Drivers ==
    /\ pc[Boot] # "off" => driving \in Effect
    /\ \A p \in Driver : Working(p) => estate[Of(p)] \notin {"none", "proposed"}
    /\ \A p \in Driver : pc[p] \in {"review", "advance"} => estate[Of(p)] = "succeeded"

\* Until its base is pinned an effect is not in the journal.
Pinned ==
    \A e \in Effect : /\ what[e] = None => pc[e] = "off" /\ estate[e] = "none"
                      /\ pc[e] \in {"base", "propose"} => estate[e] = "none"

Control == Types /\ Drivers /\ Pinned

\* An effect's entry comes right after its base ...
Placed ==
    \A i \in DOMAIN Branch : \A e \in Effect :
        Branch[i][1] = e => i = Len(onto[e]) + 1 /\ estate[e] # "none"

\* ... and its base is the beginning of the branch.
Based == \A e \in Effect : IsPrefix(onto[e], Branch)

PushedIsLanded == \A p \in Driver : Pushed(p) => IsPrefix(Commit(Of(p)), Branch)

InflightIsPushed ==
    inflight # None => hasRemote /\ \E p \in Driver : Pushed(p) /\ Of(p) = inflight

SucceededIsLanded == \A e \in Effect : estate[e] = "succeeded" => Landed(e)

Ledger ==
    /\ Placed /\ Based /\ PushedIsLanded /\ InflightIsPushed
    /\ SucceededIsLanded /\ LocalFollowsRemote

IInv == Control /\ Ledger /\ AcceptedIsLanded

-----------------------------------------------------------------------------
\* Prefixes.

LEMMA PrefixIs ==
    ASSUME NEW S, NEW s \in Seq(S), NEW t \in Seq(S)
    PROVE  (IsPrefix(s, t) <=> (/\ Len(s) <= Len(t)
                               /\ \A i \in 1..Len(s) : s[i] = t[i]))
<1>1. Len(s) \in Nat /\ Len(t) \in Nat
  OBVIOUS
<1>2. SubSeq(s, 1, Len(s)) = s
  OBVIOUS
<1>3. ASSUME Len(s) <= Len(t)
      PROVE  /\ SubSeq(t, 1, Len(s)) \in Seq(S)
             /\ Len(SubSeq(t, 1, Len(s))) = Len(s)
             /\ \A i \in 1..Len(s) : SubSeq(t, 1, Len(s))[i] = t[i]
  BY <1>1, <1>3
<1>4. ASSUME Len(s) <= Len(t), \A i \in 1..Len(s) : s[i] = t[i]
      PROVE  s = SubSeq(t, 1, Len(s))
  BY <1>1, <1>3, <1>4, SeqEqual
<1> QED
  BY <1>1, <1>2, <1>3, <1>4 DEF IsPrefix

LEMMA PrefixReflexive == ASSUME NEW S, NEW s \in Seq(S) PROVE IsPrefix(s, s)
BY PrefixIs

LEMMA PrefixTransitive ==
    ASSUME NEW S, NEW s \in Seq(S), NEW t \in Seq(S), NEW u \in Seq(S),
           IsPrefix(s, t), IsPrefix(t, u)
    PROVE  IsPrefix(s, u)
<1>1. Len(s) \in Nat /\ Len(t) \in Nat /\ Len(u) \in Nat
  OBVIOUS
<1>2. Len(s) <= Len(t) /\ \A i \in 1..Len(s) : s[i] = t[i]
  BY PrefixIs
<1>3. Len(t) <= Len(u) /\ \A i \in 1..Len(t) : t[i] = u[i]
  BY PrefixIs
<1>4. Len(s) <= Len(u) /\ \A i \in 1..Len(s) : s[i] = u[i]
  BY <1>1, <1>2, <1>3
<1> QED
  BY <1>4, PrefixIs

LEMMA PrefixAntisymmetric ==
    ASSUME NEW S, NEW s \in Seq(S), NEW t \in Seq(S), IsPrefix(s, t), IsPrefix(t, s)
    PROVE  s = t
<1>1. Len(s) = Len(t) /\ \A i \in 1..Len(s) : s[i] = t[i]
  BY PrefixIs
<1> QED
  BY <1>1, SeqEqual

LEMMA PrefixOfAppend ==
    ASSUME NEW S, NEW s \in Seq(S), NEW x \in S
    PROVE  Append(s, x) \in Seq(S) /\ IsPrefix(s, Append(s, x))
<1> DEFINE t == Append(s, x)
<1>1. t \in Seq(S) /\ Len(s) <= Len(t) /\ \A i \in 1..Len(s) : s[i] = t[i]
  OBVIOUS
<1> HIDE DEF t
<1>2. IsPrefix(s, t)
  BY <1>1, PrefixIs
<1> QED
  BY <1>1, <1>2 DEF t

\* Between a sequence and its extension by one there is nothing.
LEMMA NothingBetween ==
    ASSUME NEW S, NEW s \in Seq(S), NEW t \in Seq(S), NEW x \in S,
           IsPrefix(s, t), IsPrefix(t, Append(s, x))
    PROVE  t = s \/ t = Append(s, x)
<1> DEFINE u == Append(s, x)
<1>1. u \in Seq(S) /\ Len(u) = Len(s) + 1 /\ Len(s) \in Nat /\ Len(t) \in Nat
  OBVIOUS
<1>2. Len(s) <= Len(t) /\ \A i \in 1..Len(s) : s[i] = t[i]
  BY PrefixIs
<1>3. Len(t) <= Len(u) /\ \A i \in 1..Len(t) : t[i] = u[i]
  <2>1. IsPrefix(t, u)
    OBVIOUS
  <2> HIDE DEF u
  <2> QED
    BY <1>1, <2>1, PrefixIs
<1>4. CASE Len(t) = Len(s)
  <2>1. t = s
    BY <1>2, <1>4, SeqEqual
  <2> QED
    BY <2>1
<1>5. CASE Len(t) = Len(u)
  <2>1. t = u
    BY <1>1, <1>3, <1>5, SeqEqual
  <2> QED
    BY <2>1
<1> QED
  BY <1>1, <1>2, <1>3, <1>4, <1>5

-----------------------------------------------------------------------------
\* The journal and the drivers.

LEMMA OfIsEffect ==
    ASSUME Types, Drivers, NEW p \in Driver, pc[p] # "off"
    PROVE  Of(p) \in Effect
BY DEF Types, Drivers, Driver, Of

LEMMA CommitIsHistory ==
    ASSUME Types, NEW e \in Effect
    PROVE  /\ onto[e] \in History /\ <<e, stamp[e]>> \in Entry
           /\ Commit(e) \in History /\ Commit(e) = Append(onto[e], <<e, stamp[e]>>)
<1>1. onto[e] \in Seq(Entry) /\ <<e, stamp[e]>> \in Entry
  BY DEF Types, History, Entry
<1> QED
  BY <1>1 DEF Commit, History

LEMMA BootApart == Boot \in Driver /\ Effect \subseteq Driver /\ Boot \notin Effect /\ None \notin Effect
BY NamesAssumption DEF Driver, NamesAssumption

LEMMA TypesInductive == Types /\ Drivers /\ [Next]_vars => Types'
<1> SUFFICES ASSUME Types, Drivers, [Next]_vars PROVE Types'
  OBVIOUS
<1> USE BootApart
<1>1. ASSUME NEW e \in Effect, NEW d \in Deliverable, Start(e, d) PROVE Types'
  BY <1>1 DEF Start, Types, MaybeNone, Goto, journal, git, Place
<1>2. ASSUME NEW e \in Effect, Base(e) PROVE Types'
  <2>1. inflight # None => inflight \in Effect
    BY DEF Types, MaybeNone
  <2>2. (IF inflight # None THEN Commit(inflight) ELSE local) \in History
    BY <2>1, CommitIsHistory DEF Types
  <2>3. onto' \in [Effect -> History]
    BY <1>2, <2>2 DEF Base, Types
  <2>4. pc' \in [Driver -> Place] /\ driving' = driving /\ redrive' = redrive
    BY <1>2 DEF Base, Goto, Return, Types, Place
  <2> QED
    BY <1>2, <2>3, <2>4 DEF Base, Types, journal, git
<1>3. ASSUME NEW e \in Effect, ProposeStep(e) PROVE Types'
  BY <1>3 DEF ProposeStep, Propose, Types, Goto, git, Place, EState
<1>4. ASSUME NEW e \in Effect, ApproveStep(e) PROVE Types'
  BY <1>4 DEF ApproveStep, Approve, Types, Goto, Return, git, journal, Place, EState
<1>5. ASSUME NEW e \in Effect, PassResolve(e) PROVE Types'
  BY <1>5 DEF PassResolve, ResolveInDoubt, Types, call, git, EState
<1>6. ASSUME NEW e \in Effect, ReDrive(e) PROVE Types'
  BY <1>6 DEF ReDrive, Types, MaybeNone, journal, git, Place
<1>7. ASSUME NEW e \in Effect, InboxAnswer(e) PROVE Types'
  BY <1>7 DEF InboxAnswer, Approve, Deny, Types, call, git, EState
<1>8. ASSUME NEW p \in Driver, ExecuteStep(p) PROVE Types'
  <2>1. Of(p) \in Effect /\ (p = Boot => driving \in Effect)
    BY <1>8, OfIsEffect DEF ExecuteStep, Drivers
  <2>2. estate' \in [Effect -> EState] /\ stamp' \in [Effect -> Nat] /\ clock' = clock /\ doubt' = doubt
    BY <1>8, <2>1 DEF ExecuteStep, BeginExecute, ExpireApproval, Types, journal, EState
  <2>3. /\ pc' \in [Driver -> Place] /\ driving' \in MaybeNone(Effect)
        /\ redrive' \subseteq Effect
    BY <1>8 DEF ExecuteStep, Goto, Return, Types, MaybeNone, Place
  <2> QED
    BY <1>8, <2>2, <2>3 DEF ExecuteStep, Types, git
<1>9. ASSUME NEW p \in Driver, SquashStep(p) PROVE Types'
  BY <1>9 DEF SquashStep, Goto, Types, journal, git, Place
<1>10. ASSUME NEW p \in Driver, PushStep(p) PROVE Types'
  <2>1. Of(p) \in Effect /\ Commit(Of(p)) \in History
    BY <1>10, OfIsEffect, CommitIsHistory DEF PushStep
  <2>2. remote' \in History /\ inflight' \in MaybeNone(Effect)
    BY <1>10, <2>1 DEF PushStep, Types, MaybeNone
  <2>3. pc' \in [Driver -> Place] /\ driving' = driving /\ redrive' = redrive
    BY <1>10 DEF PushStep, Goto, Types, Place
  <2> QED
    BY <1>10, <2>2, <2>3 DEF PushStep, Types, journal
<1>11. ASSUME NEW p \in Driver, LandLocalStep(p) PROVE Types'
  <2>1. Of(p) \in Effect /\ Commit(Of(p)) \in History
    BY <1>11, OfIsEffect, CommitIsHistory DEF LandLocalStep
  <2>2. local' \in History
    BY <1>11, <2>1 DEF LandLocalStep, FastForward, Types
  <2>3. pc' \in [Driver -> Place] /\ driving' = driving /\ redrive' = redrive
    BY <1>11 DEF LandLocalStep, Goto, Types, Place
  <2> QED
    BY <1>11, <2>2, <2>3 DEF LandLocalStep, Types, journal
<1>12. ASSUME NEW p \in Driver, FailStep(p) PROVE Types'
  <2>1. Of(p) \in Effect
    BY <1>12, OfIsEffect DEF FailStep
  <2>2. estate' \in [Effect -> EState] /\ UNCHANGED <<stamp, clock, doubt>>
    BY <1>12, <2>1 DEF FailStep, Finish, journal, Types, EState
  <2>3. /\ pc' \in [Driver -> Place] /\ driving' \in MaybeNone(Effect)
        /\ redrive' \subseteq Effect
    BY <1>12 DEF FailStep, Return, Types, MaybeNone, Place
  <2> QED
    BY <1>12, <2>2, <2>3 DEF FailStep, Types, git
<1>13. ASSUME NEW p \in Driver, SucceedStep(p) PROVE Types'
  <2>1. Of(p) \in Effect
    BY <1>13, OfIsEffect DEF SucceedStep
  <2>2. estate' \in [Effect -> EState] /\ UNCHANGED <<stamp, clock, doubt>>
    BY <1>13, <2>1 DEF SucceedStep, Finish, journal, Types, EState
  <2>3. /\ pc' \in [Driver -> Place] /\ driving' \in MaybeNone(Effect)
        /\ redrive' \subseteq Effect /\ inflight' \in MaybeNone(Effect)
    BY <1>13 DEF SucceedStep, Goto, Return, ClearInflight, Types, MaybeNone, Place
  <2> QED
    BY <1>13, <2>2, <2>3 DEF SucceedStep, Types, git
<1>14. ASSUME NEW p \in Driver, ReviewStep(p) PROVE Types'
  <2>1. dstate' \in [Deliverable -> {"in-review", "accepted"}]
    BY <1>14 DEF ReviewStep, Types
  <2>2. /\ pc' \in [Driver -> Place] /\ driving' \in MaybeNone(Effect)
        /\ redrive' \subseteq Effect
    BY <1>14 DEF ReviewStep, Goto, Return, Types, MaybeNone, Place
  <2> QED
    BY <1>14, <2>1, <2>2 DEF ReviewStep, Types, journal, git
<1>15. ASSUME NEW p \in Driver, AdvanceStep(p) PROVE Types'
  <2>1. Of(p) \in Effect /\ Commit(Of(p)) \in History
    BY <1>15, OfIsEffect, CommitIsHistory DEF AdvanceStep
  <2>2. local' \in History
    BY <1>15, <2>1 DEF AdvanceStep, FastForward, Types
  <2>3. /\ pc' \in [Driver -> Place] /\ driving' \in MaybeNone(Effect)
        /\ redrive' \subseteq Effect /\ inflight' \in MaybeNone(Effect)
    BY <1>15 DEF AdvanceStep, Return, ClearInflight, Types, MaybeNone, Place
  <2> QED
    BY <1>15, <2>2, <2>3 DEF AdvanceStep, Types, journal
<1>16. CASE PassList
  BY <1>16 DEF PassList, ListInDoubt, Types, call, git
<1>17. CASE ReDriveList
  BY <1>17 DEF ReDriveList, Types, journal, git
<1>18. CASE OtherPush
  <2>1. remote \in Seq(Entry) /\ <<None, 0>> \in Entry
    BY DEF Types, History, Entry
  <2>2. remote' \in History
    BY <1>18, <2>1 DEF OtherPush, History
  <2> QED
    BY <1>18, <2>2 DEF OtherPush, Types, journal, call
<1>19. CASE Crash
  BY <1>19 DEF Crash, Types, MaybeNone, git, Place
<1>20. CASE UNCHANGED vars
  BY <1>20 DEF vars, Types, journal, git, call
<1> QED
  BY <1>1, <1>2, <1>3, <1>4, <1>5, <1>6, <1>7, <1>8, <1>9, <1>10, <1>11, <1>12,
     <1>13, <1>14, <1>15, <1>16, <1>17, <1>18, <1>19, <1>20 DEF Next

\* What a step may do to an effect of the journal.
EffectMoves(e) ==
    /\ estate[e] # "none" => estate'[e] # "none" /\ onto'[e] = onto[e]
    /\ estate[e] = "succeeded" => estate'[e] = "succeeded"
    /\ what[e] # None => what'[e] = what[e] /\ what'[e] # None
    /\ estate[e] = "none" /\ estate'[e] # "none" => pc[e] = "propose" /\ pc'[e] = "approve"
    /\ estate[e] \notin {"none", "proposed"} =>
          \/ estate'[e] \notin {"none", "proposed"} /\ stamp'[e] = stamp[e]
          \/ pc[e] = "off" /\ driving = e /\ pc[Boot] = "execute" /\ pc'[Boot] = "off"
             /\ pc'[e] = "off" /\ inflight' = inflight

LEMMA JournalStep ==
    ASSUME Control, [Next]_vars, NEW e \in Effect PROVE EffectMoves(e)
<1> USE BootApart DEF Control, EffectMoves
<1>1. ASSUME NEW f \in Effect, NEW d \in Deliverable, Start(f, d) PROVE EffectMoves(e)
  BY <1>1 DEF Start, Types, journal
<1>2. ASSUME NEW f \in Effect, Base(f) PROVE EffectMoves(e)
  <2>1. estate[f] = "none" /\ estate' = estate /\ stamp' = stamp /\ what' = what
    BY <1>2 DEF Base, Pinned, journal
  <2>2. e # f => onto'[e] = onto[e]
    BY <1>2 DEF Base, Types
  <2> QED
    BY <2>1, <2>2
<1>3. ASSUME NEW f \in Effect, ProposeStep(f) PROVE EffectMoves(e)
  BY <1>3 DEF ProposeStep, Propose, Goto, Types
<1>4. ASSUME NEW f \in Effect, ApproveStep(f) PROVE EffectMoves(e)
  BY <1>4 DEF ApproveStep, Approve, Types, journal
<1>5. ASSUME NEW f \in Effect, PassResolve(f) PROVE EffectMoves(e)
  BY <1>5 DEF PassResolve, ResolveInDoubt, Types
<1>6. ASSUME NEW f \in Effect, ReDrive(f) PROVE EffectMoves(e)
  BY <1>6 DEF ReDrive, journal
<1>7. ASSUME NEW f \in Effect, InboxAnswer(f) PROVE EffectMoves(e)
  BY <1>7 DEF InboxAnswer, Approve, Deny, Types
<1>8. ASSUME NEW p \in Driver, ExecuteStep(p) PROVE EffectMoves(e)
  <2>1. Of(p) \in Effect /\ UNCHANGED <<what, onto, inflight>>
    BY <1>8, OfIsEffect DEF ExecuteStep
  <2>2. CASE BeginExecute(Of(p))
    BY <2>1, <2>2 DEF BeginExecute, Types
  <2>3. CASE p = Boot /\ pc[driving] = "off" /\ ExpireApproval(driving) /\ Return(p, "error")
    <3>1. driving \in Effect /\ pc[Boot] = "execute"
      BY <1>8, <2>3 DEF ExecuteStep, Drivers
    <3>2. e = driving \/ UNCHANGED <<estate[e], stamp[e]>>
      BY <2>3, <3>1 DEF ExpireApproval, Types
    <3>3. CASE e = driving
      <4>1. pc'[Boot] = "off" /\ pc'[e] = "off" /\ pc[e] = "off"
        BY <2>3, <3>3 DEF Return, Types
      <4>2. estate[e] = "approved" /\ estate'[e] = "proposed"
        BY <2>3, <3>1, <3>3 DEF ExpireApproval, Types
      <4> QED
        BY <2>1, <3>1, <3>3, <4>1, <4>2
    <3> QED
      BY <2>1, <3>2, <3>3
  <2>4. CASE UNCHANGED journal
    BY <2>1, <2>4 DEF journal
  <2> QED
    BY <1>8, <2>2, <2>3, <2>4 DEF ExecuteStep
<1>9. ASSUME NEW p \in Driver, SquashStep(p) PROVE EffectMoves(e)
  BY <1>9 DEF SquashStep, journal
<1>10. ASSUME NEW p \in Driver, PushStep(p) PROVE EffectMoves(e)
  BY <1>10 DEF PushStep, journal
<1>11. ASSUME NEW p \in Driver, LandLocalStep(p) PROVE EffectMoves(e)
  BY <1>11 DEF LandLocalStep, journal
<1>12. ASSUME NEW p \in Driver, FailStep(p) PROVE EffectMoves(e)
  <2>1. Of(p) \in Effect
    BY <1>12, OfIsEffect DEF FailStep
  <2> QED
    BY <1>12, <2>1 DEF FailStep, Finish, Types, journal
<1>13. ASSUME NEW p \in Driver, SucceedStep(p) PROVE EffectMoves(e)
  <2>1. Of(p) \in Effect
    BY <1>13, OfIsEffect DEF SucceedStep
  <2> QED
    BY <1>13, <2>1 DEF SucceedStep, Finish, Types, journal
<1>14. ASSUME NEW p \in Driver, ReviewStep(p) PROVE EffectMoves(e)
  BY <1>14 DEF ReviewStep, journal
<1>15. ASSUME NEW p \in Driver, AdvanceStep(p) PROVE EffectMoves(e)
  BY <1>15 DEF AdvanceStep, journal
<1>16. CASE PassList
  BY <1>16 DEF PassList, ListInDoubt
<1>17. CASE ReDriveList
  BY <1>17 DEF ReDriveList, journal
<1>18. CASE OtherPush
  BY <1>18 DEF OtherPush, journal
<1>19. CASE Crash
  BY <1>19 DEF Crash
<1>20. CASE UNCHANGED vars
  BY <1>20 DEF vars, journal
<1> QED
  BY <1>1, <1>2, <1>3, <1>4, <1>5, <1>6, <1>7, <1>8, <1>9, <1>10, <1>11, <1>12,
     <1>13, <1>14, <1>15, <1>16, <1>17, <1>18, <1>19, <1>20 DEF Next

\* What a step may do to a driver: a caller is in place of its own effect only,
\* and where each place is reached from.
PlaceMoves(p) ==
    /\ pc'[p] # "off" => pc[p] # "off" \/ pc'[p] \in {"base", "execute"}
    /\ pc[p] # "off" /\ pc'[p] # "off" => Of(p)' = Of(p)
    /\ pc[p] = "off" /\ pc'[p] # "off" =>
          IF p = Boot THEN driving' \in Effect
                      ELSE what[p] = None /\ what'[p] # None /\ estate' = estate
    /\ pc'[p] \in {"base", "propose"} => pc[p] \in {"off", "base", "propose"}
    /\ pc'[p] \in {"failCard", "failError"} => pc[p] \in {"squash", "land"} \/ pc[p] = pc'[p]
    /\ pc'[p] = "land" => pc[p] \in {"squash", "land"}
    /\ pc'[p] = "squash" =>
          pc[p] = "squash" \/ (pc[p] = "execute" /\ estate'[Of(p)] = "executing")
    /\ pc'[p] = "succeed" => pc[p] \in {"land", "succeed"}
    /\ pc'[p] = "review" =>
          pc[p] = "review" \/ (pc[p] = "succeed" /\ estate'[Of(p)] = "succeeded")
    /\ pc'[p] = "advance" => pc[p] = "advance" \/ (pc[p] = "review" /\ hasRemote)

LEMMA DriverStep ==
    ASSUME Control, [Next]_vars, NEW p \in Driver PROVE PlaceMoves(p)
<1> USE BootApart DEF Control, PlaceMoves, Of
<1>1. ASSUME NEW f \in Effect, NEW d \in Deliverable, Start(f, d) PROVE PlaceMoves(p)
  BY <1>1, NamesAssumption DEF Start, Goto, Types, journal, NamesAssumption
<1>2. ASSUME NEW f \in Effect, Base(f) PROVE PlaceMoves(p)
  BY <1>2 DEF Base, Goto, Return, Types
<1>3. ASSUME NEW f \in Effect, ProposeStep(f) PROVE PlaceMoves(p)
  BY <1>3 DEF ProposeStep, Goto, Types
<1>4. ASSUME NEW f \in Effect, ApproveStep(f) PROVE PlaceMoves(p)
  BY <1>4 DEF ApproveStep, Goto, Return, Types
<1>5. ASSUME NEW f \in Effect, PassResolve(f) PROVE PlaceMoves(p)
  BY <1>5 DEF PassResolve, call
<1>6. ASSUME NEW f \in Effect, ReDrive(f) PROVE PlaceMoves(p)
  BY <1>6 DEF ReDrive, Types
<1>7. ASSUME NEW f \in Effect, InboxAnswer(f) PROVE PlaceMoves(p)
  BY <1>7 DEF InboxAnswer, call
<1>8. ASSUME NEW q \in Driver, ExecuteStep(q) PROVE PlaceMoves(p)
  <2>1. Of(q) \in Effect
    BY <1>8, OfIsEffect DEF ExecuteStep
  <2>2. CASE BeginExecute(Of(q)) /\ Goto(q, "squash")
    <3>1. estate'[Of(q)] = "executing"
      BY <2>1, <2>2 DEF BeginExecute, Types
    <3> QED
      BY <1>8, <2>2, <3>1 DEF ExecuteStep, Goto, Types
  <2>3. CASE Return(q, "error")
    BY <1>8, <2>3 DEF ExecuteStep, Return, Types
  <2> QED
    BY <1>8, <2>2, <2>3 DEF ExecuteStep
<1>9. ASSUME NEW q \in Driver, SquashStep(q) PROVE PlaceMoves(p)
  BY <1>9 DEF SquashStep, Goto, Types
<1>10. ASSUME NEW q \in Driver, PushStep(q) PROVE PlaceMoves(p)
  BY <1>10 DEF PushStep, Goto, Types
<1>11. ASSUME NEW q \in Driver, LandLocalStep(q) PROVE PlaceMoves(p)
  BY <1>11 DEF LandLocalStep, Goto, Types
<1>12. ASSUME NEW q \in Driver, FailStep(q) PROVE PlaceMoves(p)
  BY <1>12 DEF FailStep, Return, Types
<1>13. ASSUME NEW q \in Driver, SucceedStep(q) PROVE PlaceMoves(p)
  <2>1. Of(q) \in Effect
    BY <1>13, OfIsEffect DEF SucceedStep
  <2>2. CASE Finish(Of(q), "succeeded") /\ Goto(q, "review")
    <3>1. estate'[Of(q)] = "succeeded"
      BY <2>1, <2>2 DEF Finish, Types
    <3> QED
      BY <1>13, <2>2, <3>1 DEF SucceedStep, Goto, Types
  <2>3. CASE Return(q, "error")
    BY <1>13, <2>3 DEF SucceedStep, Return, Types
  <2> QED
    BY <1>13, <2>2, <2>3 DEF SucceedStep
<1>14. ASSUME NEW q \in Driver, ReviewStep(q) PROVE PlaceMoves(p)
  BY <1>14 DEF ReviewStep, Goto, Return, Types
<1>15. ASSUME NEW q \in Driver, AdvanceStep(q) PROVE PlaceMoves(p)
  BY <1>15 DEF AdvanceStep, Return, Types
<1>16. CASE PassList
  BY <1>16 DEF PassList, call
<1>17. CASE ReDriveList
  BY <1>17 DEF ReDriveList
<1>18. CASE OtherPush
  BY <1>18 DEF OtherPush, call
<1>19. CASE Crash
  BY <1>19 DEF Crash
<1>20. CASE UNCHANGED vars
  BY <1>20 DEF vars, call
<1> QED
  BY <1>1, <1>2, <1>3, <1>4, <1>5, <1>6, <1>7, <1>8, <1>9, <1>10, <1>11, <1>12,
     <1>13, <1>14, <1>15, <1>16, <1>17, <1>18, <1>19, <1>20 DEF Next

LEMMA DriversInductive == Control /\ Types' /\ [Next]_vars => Drivers'
<1> SUFFICES ASSUME Control, Types', [Next]_vars PROVE Drivers'
  OBVIOUS
<1> USE BootApart DEF Control
<1>1. pc'[Boot] # "off" => driving' \in Effect
  BY DriverStep DEF PlaceMoves, Of, Drivers
<1>2. ASSUME NEW p \in Driver, Working(p)'
      PROVE  /\ Of(p)' \in Effect /\ estate'[Of(p)'] \notin {"none", "proposed"}
             /\ pc'[p] \in {"review", "advance"} => estate'[Of(p)'] = "succeeded"
  <2> USE <1>2
  <2>1. pc'[p] # "off"
    BY DEF Working, Pushed
  <2>2. PlaceMoves(p)
    BY DriverStep
  <2>3. pc[p] # "off"
    BY <2>2 DEF PlaceMoves, Working, Pushed
  <2>4. Of(p) \in Effect /\ Of(p)' = Of(p) /\ EffectMoves(Of(p))
    BY <2>1, <2>2, <2>3, OfIsEffect, JournalStep DEF PlaceMoves
  <2>5. CASE Working(p)
    <3>1. estate[Of(p)] \notin {"none", "proposed"}
      BY <2>5 DEF Drivers
    <3>2. ~ (/\ pc[Of(p)] = "off" /\ driving = Of(p) /\ pc[Boot] = "execute"
             /\ pc'[Boot] = "off" /\ pc'[Of(p)] = "off" /\ inflight' = inflight)
      BY <2>1, <2>5 DEF Working, Pushed, Of
    <3>3. estate'[Of(p)] \notin {"none", "proposed"}
      BY <2>4, <3>1, <3>2 DEF EffectMoves
    <3>4. pc'[p] \in {"review", "advance"} => estate'[Of(p)] = "succeeded"
      BY <2>2, <2>4 DEF PlaceMoves, EffectMoves, Drivers
    <3> QED
      BY <2>4, <3>3, <3>4
  <2>6. CASE ~ Working(p)
    <3>1. pc'[p] = "squash" /\ estate'[Of(p)] = "executing"
      BY <2>2, <2>6, <1>2 DEF PlaceMoves, Working, Pushed
    <3> QED
      BY <2>4, <3>1
  <2> QED
    BY <2>5, <2>6
<1> QED
  BY <1>1, <1>2 DEF Drivers, Working, Pushed

LEMMA PinnedInductive == Control /\ Types' /\ [Next]_vars => Pinned'
<1> SUFFICES ASSUME Control, Types', [Next]_vars, NEW e \in Effect
             PROVE  /\ what'[e] = None => pc'[e] = "off" /\ estate'[e] = "none"
                    /\ pc'[e] \in {"base", "propose"} => estate'[e] = "none"
  BY DEF Pinned
<1> USE BootApart DEF Control
<1>1. EffectMoves(e) /\ PlaceMoves(e) /\ e # Boot
  BY JournalStep, DriverStep
<1>2. what'[e] = None => pc'[e] = "off" /\ estate'[e] = "none"
  BY <1>1 DEF Pinned, EffectMoves, PlaceMoves
<1>3. pc'[e] \in {"base", "propose"} => estate'[e] = "none"
  BY <1>1 DEF Pinned, EffectMoves, PlaceMoves
<1> QED
  BY <1>2, <1>3

LEMMA ControlInductive == Control /\ [Next]_vars => Control'
BY TypesInductive, DriversInductive, PinnedInductive DEF Control

-----------------------------------------------------------------------------
\* The branch.

\* What a step may do to the branch: nothing, or put one entry after it, of
\* somebody else or of an effect whose base is the whole branch.
LandStep ==
    \E p \in Driver : /\ pc[p] = "land" /\ Branch = onto[Of(p)]
                      /\ Branch' = Commit(Of(p)) /\ onto' = onto /\ estate' = estate
BranchMoves ==
    \/ Branch' = Branch
    \/ LandStep
    \/ Branch' = Append(Branch, <<None, 0>>) /\ onto' = onto /\ estate' = estate

\* Every accepted push or advance is of a commit that is then on the branch.
PushedNow(p) ==
    pc[p] = "land" /\ pc'[p] = "succeed" =>
        IsPrefix(Commit(Of(p)), Branch') /\ onto' = onto /\ stamp' = stamp

LEMMA BranchIsHistory == Types => Branch \in History
BY DEF Types, Branch

LEMMA BranchStep ==
    ASSUME Control, Ledger, [Next]_vars
    PROVE  /\ hasRemote' = hasRemote /\ BranchMoves
           /\ \A p \in Driver : PushedNow(p)
<1> USE BootApart DEF Control
<1>1. ASSUME UNCHANGED <<remote, hasRemote>>, local' = local \/ hasRemote
      PROVE  hasRemote' = hasRemote /\ BranchMoves
  BY <1>1 DEF Branch, BranchMoves
<1>2. ASSUME \A p \in Driver : ~ (pc[p] = "land" /\ pc'[p] = "succeed")
      PROVE  \A p \in Driver : PushedNow(p)
  BY <1>2 DEF PushedNow
<1>3. ASSUME NEW p \in Driver, PushStep(p)
      PROVE  /\ hasRemote' = hasRemote /\ BranchMoves
             /\ \A q \in Driver : PushedNow(q)
  <2>1. Of(p) \in Effect /\ Commit(Of(p)) \in History
    BY <1>3, OfIsEffect, CommitIsHistory DEF PushStep
  <2>2. /\ hasRemote' = hasRemote /\ hasRemote /\ Branch = remote /\ Branch' = remote'
        /\ onto' = onto /\ estate' = estate /\ stamp' = stamp /\ pc[p] = "land"
    BY <1>3 DEF PushStep, Branch, journal
  <2>3. remote' = remote \/ (LeaseHolds(Of(p)) /\ remote' = Commit(Of(p)))
    BY <1>3 DEF PushStep
  <2>4. BranchMoves
    BY <2>2, <2>3 DEF BranchMoves, LandStep, LeaseHolds
  <2>5. pc'[p] = "succeed" => remote' = Commit(Of(p))
    BY <1>3 DEF PushStep, Goto, Types
  <2>6. IsPrefix(Commit(Of(p)), Commit(Of(p)))
    BY <2>1, PrefixReflexive DEF History
  <2>7. PushedNow(p)
    BY <2>2, <2>5, <2>6 DEF PushedNow
  <2>8. \A q \in Driver : q # p => pc'[q] = pc[q]
    BY <1>3 DEF PushStep, Goto, Types
  <2> QED
    BY <2>2, <2>4, <2>7, <2>8 DEF PushedNow
<1>4. ASSUME NEW p \in Driver, LandLocalStep(p)
      PROVE  /\ hasRemote' = hasRemote /\ BranchMoves
             /\ \A q \in Driver : PushedNow(q)
  <2>1. Of(p) \in Effect /\ Commit(Of(p)) \in History
    BY <1>4, OfIsEffect, CommitIsHistory DEF LandLocalStep
  <2>2. /\ hasRemote' = hasRemote /\ ~ hasRemote /\ Branch = local /\ Branch' = local'
        /\ onto' = onto /\ estate' = estate /\ stamp' = stamp /\ pc[p] = "land"
    BY <1>4 DEF LandLocalStep, Branch, journal
  <2>3. \A q \in Driver : q # p => pc'[q] = pc[q]
    BY <1>4 DEF LandLocalStep, Goto, Types
  <2>4. CASE FastForward(Commit(Of(p))) /\ IsPrefix(Commit(Of(p)), local)
    <3>1. local' = local
      BY <2>4 DEF FastForward
    <3>2. PushedNow(p)
      BY <2>2, <2>4, <3>1 DEF PushedNow
    <3> QED
      BY <2>2, <2>3, <3>1, <3>2 DEF BranchMoves, PushedNow
  <2>5. CASE FastForward(Commit(Of(p))) /\ ~ IsPrefix(Commit(Of(p)), local)
    <3>1. local' = Commit(Of(p)) /\ IsPrefix(local, Commit(Of(p)))
      BY <2>5 DEF FastForward
    <3>2. /\ onto[Of(p)] \in Seq(Entry) /\ <<Of(p), stamp[Of(p)]>> \in Entry
          /\ Commit(Of(p)) = Append(onto[Of(p)], <<Of(p), stamp[Of(p)]>>)
      BY <2>1, CommitIsHistory DEF History
    <3>3. local \in Seq(Entry) /\ IsPrefix(onto[Of(p)], local)
      BY <2>1, <2>2 DEF Types, History, Ledger, Based
    <3>4. local = onto[Of(p)] \/ local = Commit(Of(p))
      BY <3>1, <3>2, <3>3, NothingBetween
    <3>5. BranchMoves
      BY <2>2, <3>1, <3>4 DEF BranchMoves, LandStep
    <3>6. IsPrefix(Commit(Of(p)), Commit(Of(p)))
      BY <2>1, PrefixReflexive DEF History
    <3>7. PushedNow(p)
      BY <2>2, <3>1, <3>6 DEF PushedNow
    <3> QED
      BY <2>2, <2>3, <3>5, <3>7 DEF PushedNow
  <2>6. CASE local' = local /\ Goto(p, "failCard")
    <3>1. pc'[p] # "succeed"
      BY <2>6 DEF Goto, Types
    <3> QED
      BY <2>2, <2>3, <2>6, <3>1 DEF BranchMoves, PushedNow
  <2> QED
    BY <1>4, <2>4, <2>5, <2>6 DEF LandLocalStep
<1>5. ASSUME NEW p \in Driver, AdvanceStep(p)
      PROVE  /\ hasRemote' = hasRemote /\ BranchMoves
             /\ \A q \in Driver : PushedNow(q)
  <2>1. UNCHANGED <<remote, hasRemote>>
    BY <1>5 DEF AdvanceStep
  <2>2. local' = local \/ hasRemote
    <3>1. ~ hasRemote => IsPrefix(Commit(Of(p)), local)
      BY <1>5 DEF AdvanceStep, Ledger, PushedIsLanded, Pushed, Branch
    <3> QED
      BY <1>5, <3>1 DEF AdvanceStep, FastForward
  <2>3. \A q \in Driver : ~ (pc[q] = "land" /\ pc'[q] = "succeed")
    BY <1>5 DEF AdvanceStep, Return, Types
  <2> QED
    BY <1>1, <1>2, <2>1, <2>2, <2>3
<1>6. CASE OtherPush
  <2>1. /\ hasRemote' = hasRemote /\ Branch = remote /\ Branch' = remote'
        /\ pc' = pc /\ onto' = onto /\ estate' = estate
    BY <1>6 DEF OtherPush, Branch, call, journal
  <2>2. BranchMoves
    BY <1>6, <2>1 DEF BranchMoves, OtherPush
  <2> QED
    BY <1>2, <2>1, <2>2
<1>7. ASSUME UNCHANGED <<git, hasRemote>>,
             \A p \in Driver : ~ (pc[p] = "land" /\ pc'[p] = "succeed")
      PROVE  /\ hasRemote' = hasRemote /\ BranchMoves
             /\ \A q \in Driver : PushedNow(q)
  BY <1>1, <1>2, <1>7 DEF git
<1>8. ASSUME NEW e \in Effect,
             \/ \E d \in Deliverable : Start(e, d)
             \/ Base(e) \/ ProposeStep(e) \/ ApproveStep(e)
             \/ PassResolve(e) \/ ReDrive(e) \/ InboxAnswer(e)
      PROVE  /\ UNCHANGED <<git, hasRemote>>
             /\ \A p \in Driver : ~ (pc[p] = "land" /\ pc'[p] = "succeed")
  BY <1>8 DEF Start, Base, ProposeStep, ApproveStep, PassResolve, ReDrive, InboxAnswer,
              Goto, Return, call, Types
<1>9. ASSUME NEW p \in Driver,
             \/ ExecuteStep(p) \/ SquashStep(p) \/ FailStep(p) \/ SucceedStep(p) \/ ReviewStep(p)
      PROVE  /\ UNCHANGED <<git, hasRemote>>
             /\ \A q \in Driver : ~ (pc[q] = "land" /\ pc'[q] = "succeed")
  BY <1>9 DEF ExecuteStep, SquashStep, FailStep, SucceedStep, ReviewStep, Goto, Return, Types
<1>10. ASSUME PassList \/ ReDriveList \/ Crash \/ UNCHANGED vars
       PROVE  /\ UNCHANGED <<git, hasRemote>>
              /\ \A q \in Driver : ~ (pc[q] = "land" /\ pc'[q] = "succeed")
  BY <1>10 DEF PassList, ReDriveList, Crash, vars, call
<1> QED
  BY <1>3, <1>4, <1>5, <1>6, <1>7, <1>8, <1>9, <1>10 DEF Next

\* Where a new base, a success, an accepted deliverable, the store's branch and
\* the in-flight mark come from.
BaseMoves(e) ==
    \/ onto'[e] = onto[e]
    \/ Branch' = Branch /\ (onto'[e] = local \/ (inflight # None /\ onto'[e] = Commit(inflight)))
SuccessMoves(e) ==
    estate[e] # "succeeded" /\ estate'[e] = "succeeded" => \E p \in Driver : Pushed(p) /\ Of(p) = e
ReviewMoves(d) ==
    dstate[d] # "accepted" /\ dstate'[d] = "accepted" =>
        \E p \in Driver : pc[p] = "review" /\ what[Of(p)] = d
LocalMoves ==
    hasRemote => local' = local \/ \E p \in Driver : Pushed(p) /\ local' = Commit(Of(p))
InflightMoves ==
    /\ \/ inflight' \in {None, inflight}
       \/ hasRemote /\ \E p \in Driver : pc'[p] = "succeed" /\ Of(p)' = inflight'
    /\ inflight' = inflight /\ inflight # None /\ hasRemote =>
          \A p \in Driver : Pushed(p) /\ Of(p) = inflight => Pushed(p)'

LEMMA BaseStep == ASSUME Control, [Next]_vars, NEW e \in Effect PROVE BaseMoves(e)
<1> USE DEF Control, BaseMoves
<1>1. ASSUME NEW f \in Effect, Base(f) PROVE BaseMoves(e)
  <2>1. UNCHANGED <<git, hasRemote>>
    BY <1>1 DEF Base
  <2>2. Branch' = Branch
    BY <2>1 DEF Branch, git
  <2> QED
    BY <1>1, <2>2 DEF Base, Types
<1>2. CASE ~ \E f \in Effect : Base(f)
  <2>1. onto' = onto
    BY <1>2 DEF Next, vars, Start, ProposeStep, ApproveStep, PassResolve, ReDrive, InboxAnswer,
                ExecuteStep, SquashStep, PushStep, LandLocalStep, FailStep, SucceedStep,
                ReviewStep, AdvanceStep, PassList, ReDriveList, OtherPush, Crash
  <2> QED
    BY <2>1
<1> QED
  BY <1>1, <1>2

LEMMA SuccessStep == ASSUME Control, [Next]_vars, NEW e \in Effect PROVE SuccessMoves(e)
<1> USE BootApart DEF Control, SuccessMoves
<1>1. ASSUME NEW p \in Driver, SucceedStep(p) PROVE SuccessMoves(e)
  <2>1. Of(p) \in Effect /\ Pushed(p)
    BY <1>1, OfIsEffect DEF SucceedStep, Pushed
  <2>2. estate' = estate \/ estate' = [estate EXCEPT ![Of(p)] = "succeeded"]
    BY <1>1 DEF SucceedStep, Finish, journal
  <2> QED
    BY <2>1, <2>2 DEF Types
<1>2. ASSUME NEW f \in Effect, \/ \E d \in Deliverable : Start(f, d)
                               \/ Base(f) \/ ProposeStep(f) \/ ApproveStep(f)
                               \/ PassResolve(f) \/ ReDrive(f) \/ InboxAnswer(f)
      PROVE  SuccessMoves(e)
  BY <1>2 DEF Start, Base, ProposeStep, ApproveStep, PassResolve, ReDrive, InboxAnswer,
              Propose, Approve, Deny, ResolveInDoubt, journal, Types
<1>3. ASSUME NEW p \in Driver, ExecuteStep(p) \/ SquashStep(p) \/ PushStep(p) \/ LandLocalStep(p)
                               \/ FailStep(p) \/ ReviewStep(p) \/ AdvanceStep(p)
      PROVE  SuccessMoves(e)
  BY <1>3 DEF ExecuteStep, SquashStep, PushStep, LandLocalStep, FailStep, ReviewStep,
              AdvanceStep, BeginExecute, ExpireApproval, Finish, journal, Types
<1>4. ASSUME PassList \/ ReDriveList \/ OtherPush \/ Crash \/ UNCHANGED vars
      PROVE  SuccessMoves(e)
  BY <1>4 DEF PassList, ListInDoubt, ReDriveList, OtherPush, Crash, vars, journal
<1> QED
  BY <1>1, <1>2, <1>3, <1>4 DEF Next

LEMMA ReviewStepMoves == ASSUME Control, [Next]_vars, NEW d \in Deliverable PROVE ReviewMoves(d)
<1> USE DEF Control, ReviewMoves
<1>1. ASSUME NEW p \in Driver, ReviewStep(p) PROVE ReviewMoves(d)
  BY <1>1 DEF ReviewStep, Types
<1>2. CASE ~ \E p \in Driver : ReviewStep(p)
  <2>1. dstate' = dstate
    BY <1>2 DEF Next, vars, Start, Base, ProposeStep, ApproveStep, PassResolve, ReDrive,
                InboxAnswer, ExecuteStep, SquashStep, PushStep, LandLocalStep, FailStep,
                SucceedStep, AdvanceStep, PassList, ReDriveList, OtherPush, Crash
  <2> QED
    BY <2>1
<1> QED
  BY <1>1, <1>2

LEMMA LocalStep == Control /\ [Next]_vars => LocalMoves
<1> SUFFICES ASSUME Control, [Next]_vars, hasRemote, local' # local
             PROVE  \E p \in Driver : Pushed(p) /\ local' = Commit(Of(p))
  BY DEF LocalMoves
<1>1. \E p \in Driver : AdvanceStep(p)
  BY DEF Next, vars, git, Start, Base, ProposeStep, ApproveStep, PassResolve, ReDrive,
         InboxAnswer, ExecuteStep, SquashStep, PushStep, LandLocalStep, FailStep,
         SucceedStep, ReviewStep, PassList, ReDriveList, OtherPush, Crash
<1>2. PICK p \in Driver : AdvanceStep(p)
  BY <1>1
<1>3. local' = Commit(Of(p)) /\ Pushed(p)
  BY <1>2 DEF AdvanceStep, FastForward, Pushed
<1> QED
  BY <1>3

LEMMA InflightStep == Control /\ [Next]_vars => InflightMoves
<1> SUFFICES ASSUME Control, [Next]_vars PROVE InflightMoves
  OBVIOUS
<1> USE BootApart DEF Control, InflightMoves, Pushed
<1>1. ASSUME NEW e \in Effect, \/ \E d \in Deliverable : Start(e, d)
                               \/ Base(e) \/ ProposeStep(e) \/ ApproveStep(e)
                               \/ PassResolve(e) \/ ReDrive(e) \/ InboxAnswer(e)
      PROVE  InflightMoves
  BY <1>1 DEF Start, Base, ProposeStep, ApproveStep, PassResolve, ReDrive, InboxAnswer,
              Goto, Return, call, Types
<1>2. ASSUME NEW q \in Driver, ExecuteStep(q) \/ SquashStep(q) \/ LandLocalStep(q) \/ FailStep(q)
      PROVE  InflightMoves
  BY <1>2 DEF ExecuteStep, SquashStep, LandLocalStep, FailStep, Goto, Return, Types
<1>3. ASSUME NEW q \in Driver, PushStep(q) PROVE InflightMoves
  <2>1. hasRemote /\ pc[q] = "land" /\ Of(q)' = Of(q) /\ \A p \in Driver : p # q => pc'[p] = pc[p]
    BY <1>3 DEF PushStep, Goto, Types, Of
  <2>2. inflight' = inflight \/ (pc'[q] = "succeed" /\ inflight' = Of(q))
    BY <1>3 DEF PushStep, Goto, Types
  <2> QED
    BY <2>1, <2>2
<1>4. ASSUME NEW q \in Driver, SucceedStep(q) PROVE InflightMoves
  <2>1. \A p \in Driver : p # q => pc'[p] = pc[p]
    BY <1>4 DEF SucceedStep, Goto, Return, Types
  <2>2. \/ inflight' = inflight /\ pc'[q] = "review"
        \/ inflight' = IF inflight = Of(q) THEN None ELSE inflight
    BY <1>4 DEF SucceedStep, Goto, ClearInflight, Types
  <2> QED
    BY <2>1, <2>2
<1>5. ASSUME NEW q \in Driver, ReviewStep(q) PROVE InflightMoves
  BY <1>5 DEF ReviewStep, Goto, Return, Types
<1>6. ASSUME NEW q \in Driver, AdvanceStep(q) PROVE InflightMoves
  BY <1>6 DEF AdvanceStep, ClearInflight, Return, Types
<1>7. ASSUME PassList \/ ReDriveList \/ OtherPush \/ Crash \/ UNCHANGED vars
      PROVE  InflightMoves
  BY <1>7 DEF PassList, ReDriveList, OtherPush, Crash, vars, call
<1> QED
  BY <1>1, <1>2, <1>3, <1>4, <1>5, <1>6, <1>7 DEF Next

LEMMA BranchGrows ==
    ASSUME Control, Ledger, [Next]_vars
    PROVE  Branch \in History /\ Branch' \in History /\ IsPrefix(Branch, Branch')
<1> USE BootApart
<1>1. Branch \in History /\ Branch' \in History
  <2>1. Types'
    BY ControlInductive DEF Control
  <2> QED
    BY <2>1, BranchIsHistory DEF Control, Types, Branch
<1>2. CASE Branch' = Branch
  BY <1>1, <1>2, PrefixReflexive DEF History
<1>3. CASE LandStep
  <2>1. PICK p \in Driver : pc[p] = "land" /\ Branch = onto[Of(p)] /\ Branch' = Commit(Of(p))
    BY <1>3 DEF LandStep
  <2>2. Of(p) \in Effect
    BY <2>1, OfIsEffect DEF Control
  <2>3. Branch' = Append(Branch, <<Of(p), stamp[Of(p)]>>) /\ <<Of(p), stamp[Of(p)]>> \in Entry
    BY <2>1, <2>2, CommitIsHistory DEF Control
  <2> QED
    BY <1>1, <2>3, PrefixOfAppend DEF History
<1>4. CASE Branch' = Append(Branch, <<None, 0>>)
  <2>1. <<None, 0>> \in Entry
    BY DEF Entry
  <2> QED
    BY <1>1, <1>4, <2>1, PrefixOfAppend DEF History
<1> QED
  BY <1>2, <1>3, <1>4, BranchStep DEF BranchMoves

\* A commit on the branch has landed its effect.
LEMMA CommitLands ==
    ASSUME Types, NEW e \in Effect, IsPrefix(Commit(e), Branch)
    PROVE  Landed(e)
<1> DEFINE c == Commit(e)
           n == Len(onto[e]) + 1
<1>1. onto[e] \in Seq(Entry) /\ c \in Seq(Entry) /\ Branch \in Seq(Entry)
      /\ c = Append(onto[e], <<e, stamp[e]>>)
  BY CommitIsHistory, BranchIsHistory DEF History
<1>2. n \in 1..Len(c) /\ c[n] = <<e, stamp[e]>> /\ Len(c) \in Nat
  BY <1>1
<1>3. Len(c) <= Len(Branch) /\ \A i \in 1..Len(c) : c[i] = Branch[i]
  <2>1. IsPrefix(c, Branch) /\ c \in Seq(Entry) /\ Branch \in Seq(Entry)
    BY <1>1
  <2> HIDE DEF c
  <2> QED
    BY <2>1, PrefixIs
<1> HIDE DEF c, n
<1>4. Branch[n] = <<e, stamp[e]>>
  BY <1>2, <1>3
<1>5. DOMAIN Branch = 1..Len(Branch) /\ Len(Branch) \in Nat
  BY <1>1
<1>6. n \in DOMAIN Branch /\ Branch[n][1] = e
  BY <1>2, <1>3, <1>4, <1>5
<1> QED
  BY <1>6 DEF Landed

LEMMA LandedStays ==
    ASSUME Control, Ledger, [Next]_vars, NEW e \in Effect, Landed(e)
    PROVE  Landed(e)'
<1>1. Branch \in Seq(Entry) /\ Branch' \in Seq(Entry) /\ IsPrefix(Branch, Branch')
  BY BranchGrows DEF History
<1>2. Len(Branch) <= Len(Branch') /\ \A i \in 1..Len(Branch) : Branch[i] = Branch'[i]
  BY <1>1, PrefixIs
<1>3. PICK i \in DOMAIN Branch : Branch[i][1] = e
  BY DEF Landed
<1>4. i \in DOMAIN Branch' /\ Branch'[i][1] = e
  BY <1>1, <1>2, <1>3
<1> QED
  BY <1>4 DEF Landed

\* A driver's commit does not change between its push and its return.
LEMMA CommitStays ==
    ASSUME Control, [Next]_vars, NEW p \in Driver, Working(p), Working(p)'
    PROVE  Of(p)' = Of(p) /\ Of(p) \in Effect /\ Commit(Of(p))' = Commit(Of(p))
<1> USE BootApart
<1>1. pc[p] # "off" /\ pc'[p] # "off"
  BY DEF Working, Pushed
<1>2. Of(p)' = Of(p) /\ Of(p) \in Effect
  BY <1>1, DriverStep, OfIsEffect DEF Control, PlaceMoves
<1>3. EffectMoves(Of(p)) /\ estate[Of(p)] \notin {"none", "proposed"}
  BY <1>2, JournalStep DEF Control, Drivers
<1>4. ~ (/\ pc[Of(p)] = "off" /\ pc[Boot] = "execute" /\ pc'[Boot] = "off")
  BY DEF Working, Pushed, Of
<1>5. onto'[Of(p)] = onto[Of(p)] /\ stamp'[Of(p)] = stamp[Of(p)]
  BY <1>3, <1>4 DEF EffectMoves
<1> QED
  BY <1>2, <1>5 DEF Commit

LEMMA LedgerInductive == Control /\ Ledger /\ [Next]_vars => Ledger'
<1> SUFFICES ASSUME Control, Ledger, [Next]_vars PROVE Ledger'
  OBVIOUS
<1> USE BootApart
<1>0. Control' /\ Types /\ Types'
  BY ControlInductive DEF Control
<1>1. Branch \in Seq(Entry) /\ Branch' \in Seq(Entry) /\ IsPrefix(Branch, Branch')
  BY BranchGrows DEF History
<1>2. Placed'
  <2> SUFFICES ASSUME NEW i \in DOMAIN Branch', NEW e \in Effect, Branch'[i][1] = e
               PROVE  i = Len(onto'[e]) + 1 /\ estate'[e] # "none"
    BY DEF Placed
  <2>1. EffectMoves(e)
    BY JournalStep
  <2>2. ASSUME i \in DOMAIN Branch, Branch[i][1] = e
        PROVE  i = Len(onto'[e]) + 1 /\ estate'[e] # "none"
    BY <2>1, <2>2 DEF Ledger, Placed, EffectMoves
  <2>3. CASE Branch' = Branch
    BY <2>2, <2>3
  <2>4. CASE LandStep
    <3>1. PICK p \in Driver : /\ pc[p] = "land" /\ Branch = onto[Of(p)]
                              /\ Branch' = Commit(Of(p)) /\ onto' = onto /\ estate' = estate
      BY <2>4 DEF LandStep
    <3>2. Of(p) \in Effect /\ estate[Of(p)] # "none"
      BY <3>1, OfIsEffect DEF Control, Drivers, Working
    <3>3. Branch' = Append(Branch, <<Of(p), stamp[Of(p)]>>) /\ <<Of(p), stamp[Of(p)]>> \in Entry
      BY <1>0, <3>1, <3>2, CommitIsHistory
    <3>4. CASE i = Len(Branch) + 1
      <4>1. Branch'[i] = <<Of(p), stamp[Of(p)]>>
        BY <1>1, <3>3, <3>4
      <4>2. e = Of(p)
        BY <4>1
      <4> QED
        BY <3>1, <3>2, <3>4, <4>2
    <3>5. CASE i # Len(Branch) + 1
      <4>1. i \in DOMAIN Branch /\ Branch[i] = Branch'[i]
        BY <1>1, <3>3, <3>5
      <4> QED
        BY <2>2, <4>1
    <3> QED
      BY <3>4, <3>5
  <2>5. CASE Branch' = Append(Branch, <<None, 0>>)
    <3>0. <<None, 0>> \in Entry
      BY DEF Entry
    <3>1. i # Len(Branch) + 1
      <4>1. ASSUME i = Len(Branch) + 1 PROVE Branch'[i] = <<None, 0>>
        BY <1>1, <2>5, <3>0, <4>1
      <4> QED
        BY <4>1
    <3>2. i \in DOMAIN Branch /\ Branch[i] = Branch'[i]
      BY <1>1, <2>5, <3>0, <3>1
    <3> QED
      BY <2>2, <3>2
  <2> QED
    BY <2>3, <2>4, <2>5, BranchStep DEF BranchMoves
<1>3. Based'
  <2> SUFFICES ASSUME NEW e \in Effect PROVE IsPrefix(onto'[e], Branch')
    BY DEF Based
  <2>1. onto[e] \in Seq(Entry) /\ onto'[e] \in Seq(Entry)
    BY <1>0 DEF Types, History
  <2>2. CASE onto'[e] = onto[e]
    BY <1>1, <2>1, <2>2, PrefixTransitive DEF Ledger, Based
  <2>3. CASE Branch' = Branch /\ onto'[e] = local
    <3>1. IsPrefix(local, Branch)
      BY <1>1, <2>1, <2>3, PrefixReflexive DEF Ledger, LocalFollowsRemote, Branch
    <3> QED
      BY <2>3, <3>1
  <2>4. CASE Branch' = Branch /\ inflight # None /\ onto'[e] = Commit(inflight)
    <3>1. IsPrefix(Commit(inflight), Branch)
      BY <2>4 DEF Ledger, InflightIsPushed, PushedIsLanded
    <3> QED
      BY <2>4, <3>1
  <2> QED
    BY <2>2, <2>3, <2>4, BaseStep DEF BaseMoves
<1>4. PushedIsLanded'
  <2> SUFFICES ASSUME NEW p \in Driver, Pushed(p)' PROVE IsPrefix(Commit(Of(p))', Branch')
    BY DEF PushedIsLanded
  <2>1. PlaceMoves(p) /\ PushedNow(p)
    BY DriverStep, BranchStep
  <2>2. Working(p) /\ Working(p)' /\ (Pushed(p) \/ (pc[p] = "land" /\ pc'[p] = "succeed"))
    BY <2>1 DEF PlaceMoves, Working, Pushed
  <2>3. Of(p) \in Effect /\ Commit(Of(p))' = Commit(Of(p))
    BY <2>2, CommitStays
  <2>4. CASE Pushed(p)
    <3>1. IsPrefix(Commit(Of(p)), Branch) /\ Commit(Of(p)) \in Seq(Entry)
      BY <1>0, <2>3, <2>4, CommitIsHistory DEF Ledger, PushedIsLanded, History
    <3> QED
      BY <1>1, <2>3, <3>1, PrefixTransitive
  <2>5. CASE pc[p] = "land" /\ pc'[p] = "succeed"
    BY <2>1, <2>3, <2>5 DEF PushedNow
  <2> QED
    BY <2>2, <2>4, <2>5
<1>5. InflightIsPushed'
  <2> SUFFICES ASSUME inflight' # None
               PROVE  hasRemote' /\ \E p \in Driver : Pushed(p)' /\ Of(p)' = inflight'
    BY DEF InflightIsPushed
  <2>1. InflightMoves /\ hasRemote' = hasRemote
    BY InflightStep, BranchStep
  <2>2. CASE inflight' = inflight
    <3>1. PICK p \in Driver : Pushed(p) /\ Of(p) = inflight
      BY <2>2 DEF Ledger, InflightIsPushed
    <3>2. hasRemote /\ Pushed(p)'
      BY <2>1, <2>2, <3>1 DEF InflightMoves, Ledger, InflightIsPushed
    <3>3. Of(p)' = Of(p)
      BY <3>1, <3>2, CommitStays DEF Working
    <3> QED
      BY <2>1, <2>2, <3>1, <3>2, <3>3
  <2>3. CASE hasRemote /\ \E p \in Driver : pc'[p] = "succeed" /\ Of(p)' = inflight'
    BY <2>1, <2>3 DEF Pushed
  <2> QED
    BY <2>1, <2>2, <2>3 DEF InflightMoves
<1>6. SucceededIsLanded'
  <2> SUFFICES ASSUME NEW e \in Effect, estate'[e] = "succeeded" PROVE Landed(e)'
    BY DEF SucceededIsLanded, Landed
  <2>1. Landed(e)
    <3>1. CASE estate[e] = "succeeded"
      BY <3>1 DEF Ledger, SucceededIsLanded
    <3>2. CASE estate[e] # "succeeded"
      <4>1. PICK p \in Driver : Pushed(p) /\ Of(p) = e
        BY <3>2, SuccessStep DEF SuccessMoves
      <4>2. IsPrefix(Commit(e), Branch)
        BY <4>1 DEF Ledger, PushedIsLanded
      <4> QED
        BY <1>0, <4>2, CommitLands
    <3> QED
      BY <3>1, <3>2
  <2> QED
    BY <2>1, LandedStays
<1>7. LocalFollowsRemote'
  <2> SUFFICES ASSUME hasRemote PROVE IsPrefix(local', remote')
    BY BranchStep DEF LocalFollowsRemote
  <2>1. Branch = remote /\ Branch' = remote'
    BY BranchStep DEF Branch
  <2>2. local \in Seq(Entry) /\ local' \in Seq(Entry)
    BY <1>0 DEF Types, History
  <2>3. CASE local' = local
    BY <1>1, <2>1, <2>2, <2>3, PrefixTransitive DEF Ledger, LocalFollowsRemote
  <2>4. CASE \E p \in Driver : Pushed(p) /\ local' = Commit(Of(p))
    <3>1. IsPrefix(local', Branch)
      BY <2>4 DEF Ledger, PushedIsLanded
    <3> QED
      BY <1>1, <2>1, <2>2, <3>1, PrefixTransitive
  <2> QED
    BY <2>3, <2>4, LocalStep DEF LocalMoves
<1> QED
  BY <1>2, <1>3, <1>4, <1>5, <1>6, <1>7 DEF Ledger

LEMMA AcceptedInductive ==
    Control /\ Ledger /\ AcceptedIsLanded /\ [Next]_vars => AcceptedIsLanded'
<1> SUFFICES ASSUME Control, Ledger, AcceptedIsLanded, [Next]_vars,
                    NEW d \in Deliverable, dstate'[d] = "accepted"
             PROVE  \E e \in Effect : what'[e] = d /\ estate'[e] = "succeeded" /\ Landed(e)'
  BY DEF AcceptedIsLanded, Landed
<1> USE BootApart
<1>1. \E e \in Effect : what[e] = d /\ estate[e] = "succeeded" /\ Landed(e)
  <2>1. CASE dstate[d] = "accepted"
    BY <2>1 DEF AcceptedIsLanded
  <2>2. CASE dstate[d] # "accepted"
    <3>1. PICK p \in Driver : pc[p] = "review" /\ what[Of(p)] = d
      BY <2>2, ReviewStepMoves DEF ReviewMoves
    <3>2. Of(p) \in Effect /\ estate[Of(p)] = "succeeded"
      BY <3>1, OfIsEffect DEF Control, Drivers
    <3>3. Landed(Of(p))
      BY <3>2 DEF Ledger, SucceededIsLanded
    <3> QED
      BY <3>1, <3>2, <3>3
  <2> QED
    BY <2>1, <2>2
<1>2. PICK e \in Effect : what[e] = d /\ estate[e] = "succeeded" /\ Landed(e)
  BY <1>1
<1>3. what'[e] = d /\ estate'[e] = "succeeded"
  BY <1>2, NamesAssumption, JournalStep DEF EffectMoves, NamesAssumption
<1>4. Landed(e)'
  BY <1>2, LandedStays
<1> QED
  BY <1>3, <1>4

LEMMA InitEstablishes == Init => IInv
<1> SUFFICES ASSUME Init PROVE IInv
  OBVIOUS
<1> USE BootApart
<1>1. <<>> \in Seq(Entry) /\ IsPrefix(<<>>, <<>>)
  <2>1. <<>> \in Seq(Entry)
    OBVIOUS
  <2> QED
    BY <2>1, PrefixReflexive
<1>2. Types
  BY <1>1 DEF Init, JournalInit, Types, EState, MaybeNone, History, Place
<1>3. Branch = <<>> /\ \A p \in Driver : pc[p] = "off"
  BY DEF Init, Branch
<1>4. Drivers /\ Pinned
  BY <1>3 DEF Init, JournalInit, Drivers, Pinned, Working, Pushed
<1>5. Ledger
  BY <1>1, <1>3 DEF Init, JournalInit, Ledger, Placed, Based, PushedIsLanded, Pushed,
                    InflightIsPushed, SucceededIsLanded, LocalFollowsRemote
<1>6. AcceptedIsLanded
  BY DEF Init, AcceptedIsLanded
<1> QED
  BY <1>2, <1>4, <1>5, <1>6 DEF IInv, Control

-----------------------------------------------------------------------------
\* However calls, passes, re-drives, other people's pushes and crashes
\* interleave, the journal, the drivers and the branch stay in step.
THEOREM CeremonyHolds == Spec => []IInv
<1>1. IInv /\ [Next]_vars => IInv'
  BY ControlInductive, LedgerInductive, AcceptedInductive DEF IInv
<1> QED
  BY InitEstablishes, <1>1, PTL DEF Spec

\* The at-least-once replay is invisible: an effect executed, expired,
\* re-approved and re-driven any number of times is on the branch once.
THEOREM LandsOnce == Spec => []EffectLandsOnce
<1>1. IInv => EffectLandsOnce
  BY DEF IInv, Ledger, Placed, EffectLandsOnce
<1> QED
  BY CeremonyHolds, <1>1, PTL

\* No deliverable is recorded accepted before its work is on the branch.
THEOREM AcceptedHasLanded == Spec => []AcceptedIsLanded
<1>1. IInv => AcceptedIsLanded
  BY DEF IInv
<1> QED
  BY CeremonyHolds, <1>1, PTL

\* The store's default branch is never ahead of the remote, nor beside it.
THEOREM LocalNeverAhead == Spec => []LocalFollowsRemote
<1>1. IInv => LocalFollowsRemote
  BY DEF IInv, Ledger
<1> QED
  BY CeremonyHolds, <1>1, PTL

\* No step takes a commit off the remote's branch or off the store's.
LEMMA NothingIsLost == IInv /\ [Next]_vars => IsPrefix(remote, remote') /\ IsPrefix(local, local')
<1> SUFFICES ASSUME IInv, [Next]_vars
             PROVE  IsPrefix(remote, remote') /\ IsPrefix(local, local')
  OBVIOUS
<1> USE DEF IInv
<1>1. remote \in Seq(Entry) /\ local \in Seq(Entry)
  BY DEF Control, Types, History
<1>2. IsPrefix(remote, remote) /\ IsPrefix(local, local)
  BY <1>1, PrefixReflexive
<1>3. hasRemote' = hasRemote /\ IsPrefix(Branch, Branch')
  BY BranchStep, BranchGrows
<1>4. hasRemote => IsPrefix(remote, remote')
  BY <1>3 DEF Branch
<1>5. ~ hasRemote => IsPrefix(local, local')
  BY <1>3 DEF Branch
<1>6. ~ hasRemote => remote' = remote
  BY DEF Next, vars, git, Start, Base, ProposeStep, ApproveStep, PassResolve, ReDrive,
         InboxAnswer, ExecuteStep, SquashStep, PushStep, LandLocalStep, FailStep, SucceedStep,
         ReviewStep, AdvanceStep, PassList, ReDriveList, OtherPush, Crash
<1>7. hasRemote => IsPrefix(local, local')
  <2>1. ASSUME NEW p \in Driver, AdvanceStep(p) PROVE IsPrefix(local, local')
    BY <1>2, <2>1 DEF AdvanceStep, FastForward
  <2>2. CASE hasRemote /\ ~ \E p \in Driver : AdvanceStep(p)
    <3>1. local' = local
      BY <2>2 DEF Next, vars, git, Start, Base, ProposeStep, ApproveStep, PassResolve, ReDrive,
             InboxAnswer, ExecuteStep, SquashStep, PushStep, LandLocalStep, FailStep,
             SucceedStep, ReviewStep, PassList, ReDriveList, OtherPush, Crash
    <3> QED
      BY <1>2, <3>1
  <2> QED
    BY <2>1, <2>2
<1> QED
  BY <1>2, <1>4, <1>5, <1>6, <1>7

\* Never a silent overwrite, whatever is driven twice, re-driven stale or raced.
THEOREM NeverAnOverwrite == Spec => BranchesOnlyGrow
<1>1. IInv /\ [Next]_vars => [IsPrefix(remote, remote') /\ IsPrefix(local, local')]_vars
  BY NothingIsLost
<1> QED
  BY CeremonyHolds, <1>1, PTL DEF Spec, BranchesOnlyGrow

-----------------------------------------------------------------------------
(* The refinement.                                                          *)

\* Only a call's start claims, and only the review's record accepts.
LEMMA OthersKeepClaims ==
    [Next]_vars =>
        \/ \E e \in Effect, d \in Deliverable : Start(e, d)
        \/ \E p \in Driver : ReviewStep(p)
        \/ UNCHANGED <<what, dstate>>
<1> SUFFICES ASSUME [Next]_vars, ~ \E e \in Effect, d \in Deliverable : Start(e, d),
                    ~ \E p \in Driver : ReviewStep(p)
             PROVE  UNCHANGED <<what, dstate>>
  OBVIOUS
<1> QED
  BY DEF Next, vars, Base, ProposeStep, ApproveStep, PassResolve, ReDrive, InboxAnswer,
         ExecuteStep, SquashStep, PushStep, LandLocalStep, FailStep, SucceedStep,
         AdvanceStep, PassList, ReDriveList, OtherPush, Crash

LEMMA LoggedIsLanded == ASSUME NEW e \in Effect PROVE (Landing!InLog(e) <=> Landed(e))
BY DEF Landing!InLog, Landed

LEMMA StepMaps == IInv /\ [Next]_vars => [Landing!Next]_(Landing!vars)
<1> SUFFICES ASSUME IInv, [Next]_vars PROVE [Landing!Next]_(Landing!vars)
  OBVIOUS
<1> USE BootApart DEF IInv
<1> DEFINE Names(h) == [i \in DOMAIN h |-> h[i][1]]
<1>1. Types /\ Drivers /\ Pinned /\ Branch \in Seq(Entry) /\ Branch' \in Seq(Entry)
  BY BranchGrows DEF Control, History
<1>2. ASSUME NEW x \in Entry PROVE Names(Append(Branch, x)) = Append(Names(Branch), x[1])
  <2>1. /\ Append(Branch, x) \in Seq(Entry) /\ Len(Append(Branch, x)) = Len(Branch) + 1
        /\ DOMAIN Append(Branch, x) = 1..(Len(Branch) + 1) /\ Len(Branch) \in Nat
        /\ DOMAIN Branch = 1..Len(Branch)
        /\ \A i \in 1..Len(Branch) : Append(Branch, x)[i] = Branch[i]
        /\ Append(Branch, x)[Len(Branch) + 1] = x
    BY <1>1
  <2>2. \A b \in Entry : b[1] \in Effect \cup {None}
    BY DEF Entry
  <2>3. Names(Branch) \in Seq(Effect \cup {None}) /\ Len(Names(Branch)) = Len(Branch)
    BY <1>1, <2>2
  <2>4. Names(Append(Branch, x)) \in Seq(Effect \cup {None})
        /\ Len(Names(Append(Branch, x))) = Len(Branch) + 1
    BY <2>1, <2>2
  <2>5. /\ Append(Names(Branch), x[1]) \in Seq(Effect \cup {None})
        /\ Len(Append(Names(Branch), x[1])) = Len(Branch) + 1
        /\ \A i \in 1..Len(Branch) : Append(Names(Branch), x[1])[i] = Names(Branch)[i]
        /\ Append(Names(Branch), x[1])[Len(Branch) + 1] = x[1]
    BY <2>2, <2>3
  <2>6. \A i \in 1..(Len(Branch) + 1) :
            Names(Append(Branch, x))[i] = Append(Names(Branch), x[1])[i]
    BY <2>1, <2>5
  <2> QED
    BY <2>4, <2>5, <2>6, SeqEqual
<1>3. ASSUME NEW e \in Effect, NEW d \in Deliverable, Start(e, d)
      PROVE  Landing!Claim(e, d)
  <2>1. Branch' = Branch /\ dstate' = dstate
    BY <1>3 DEF Start, git, Branch
  <2> QED
    BY <1>3, <2>1 DEF Start, Landing!Claim
<1>4. ASSUME NEW p \in Driver, ReviewStep(p)
      PROVE  \E e \in Effect : Landing!Accept(e)
  <2>1. Of(p) \in Effect /\ estate[Of(p)] = "succeeded" /\ estate[Of(p)] # "none"
    BY <1>1, <1>4, OfIsEffect DEF ReviewStep, Drivers
  <2>2. what[Of(p)] \in Deliverable
    BY <1>1, <2>1 DEF Types, MaybeNone, Pinned
  <2>3. Landing!InLog(Of(p))
    BY <2>1, LoggedIsLanded DEF Ledger, SucceededIsLanded
  <2>4. Branch' = Branch /\ what' = what
    BY <1>4 DEF ReviewStep, git, Branch
  <2>5. {d \in Deliverable : dstate'[d] = "accepted"}
            = {d \in Deliverable : dstate[d] = "accepted"} \cup {what[Of(p)]}
    BY <1>1, <1>4, <2>2 DEF ReviewStep, Types
  <2>6. PICK e \in Effect : e = Of(p)
    BY <2>1
  <2>7. Landing!Accept(e)
    BY <2>3, <2>4, <2>5, <2>6 DEF Landing!Accept
  <2> QED
    BY <2>7
<1>5. CASE UNCHANGED <<what, dstate>>
  <2>1. CASE Branch' = Branch
    BY <1>5, <2>1 DEF Landing!vars
  <2>2. CASE LandStep
    <3>1. PICK p \in Driver : /\ pc[p] = "land" /\ Branch = onto[Of(p)]
                              /\ Branch' = Commit(Of(p))
      BY <2>2 DEF LandStep
    <3>2. Of(p) \in Effect /\ estate[Of(p)] # "none"
      BY <1>1, <3>1, OfIsEffect DEF Drivers, Working
    <3>3. Branch' = Append(Branch, <<Of(p), stamp[Of(p)]>>) /\ <<Of(p), stamp[Of(p)]>> \in Entry
      BY <1>1, <3>1, <3>2, CommitIsHistory
    <3>4. Names(Branch') = Append(Names(Branch), Of(p))
      BY <1>2, <3>3
    <3>5. ~ Landed(Of(p))
      <4>1. ASSUME NEW i \in DOMAIN Branch, Branch[i][1] = Of(p) PROVE FALSE
        <5>1. i = Len(Branch) + 1
          BY <3>1, <3>2, <4>1 DEF Ledger, Placed
        <5>2. i \in 1..Len(Branch) /\ Len(Branch) \in Nat
          BY <1>1
        <5> QED
          BY <5>1, <5>2
      <4> QED
        BY <4>1 DEF Landed
    <3>6. what[Of(p)] # None
      BY <1>1, <3>2 DEF Pinned
    <3>7. PICK e \in Effect : e = Of(p)
      BY <3>2
    <3>8. Landing!Land(e)
      BY <1>5, <3>4, <3>5, <3>6, <3>7, LoggedIsLanded DEF Landing!Land
    <3> QED
      BY <3>8 DEF Landing!Next
  <2>3. CASE Branch' = Append(Branch, <<None, 0>>)
    <3>1. <<None, 0>> \in Entry
      BY DEF Entry
    <3>2. Names(Branch') = Append(Names(Branch), None)
      BY <1>2, <2>3, <3>1
    <3>3. Landing!OthersLand
      BY <1>5, <3>2 DEF Landing!OthersLand
    <3> QED
      BY <3>3 DEF Landing!Next
  <2> QED
    BY <2>1, <2>2, <2>3, BranchStep DEF BranchMoves
<1> QED
  BY <1>3, <1>4, <1>5, OthersKeepClaims DEF Landing!Next

\* The ceremony implements LandingLog: every step of its callers, passes,
\* re-drives, crashes and competitors is a step of that log or a stutter.
THEOREM Implements == Spec => LandingIsKept
<1>1. Init => Landing!Init
  <2> SUFFICES ASSUME Init PROVE Landing!Init
    OBVIOUS
  <2>1. Branch = <<>>
    BY DEF Init, Branch
  <2>2. [i \in DOMAIN Branch |-> Branch[i][1]] = <<>>
    BY <2>1
  <2> QED
    BY <2>2 DEF Init, Landing!Init
<1> QED
  BY <1>1, CeremonyHolds, StepMaps, PTL DEF Spec, LandingIsKept, Landing!Spec
=============================================================================
