------------------------- MODULE PreviewSessionsProofs -------------------------
(***************************************************************************)
(* Proofs about PreviewSessions, for any number of ports, previews and      *)
(* clients and any settings: the cap holds, a live preview is served, and a *)
(* preview that is over has left nothing but what its failed calls leave.    *)
(***************************************************************************)
EXTENDS PreviewSessions, FiniteSetTheorems, TLAPS

-----------------------------------------------------------------------------
(* What the state is made of.                                               *)

Stages == {"idle", "slot", "bind", "advance", "settle", "route", "giveup", "return",
           "live", "over", "dead", "asked", "held"}
Sessions ==
    [at : Stages, port : 0..NPorts, addr : 0..NPorts, tried : SUBSET Port,
     hook : BOOLEAN, routed : BOOLEAN, hasty : BOOLEAN,
     kept : SUBSET Port, late : {"none", "add", "remove"}]

StopStages == {"none", "backend", "port", "route", "forget"}
Stops      == [at : StopStages, failed : BOOLEAN]
Bounds     == [cap : Nat, ports : Port, deaths : Nat, snags : Nat, squats : Nat, hasty : Nat,
               clients : BOOLEAN]

CallStages == {"claim", "look", "lock", "break", "relock", "recheck", "remove",
               "link", "won", "lost", "done"}
Calls      == [at : CallStages, port : 0..NPorts, last : Port, for : Owner]

PoolTypes ==
    /\ files \in [Port -> [owner : Owner \cup {Nobody}, old : BOOLEAN]]
    /\ alloc \in [Proc -> {NoCall} \cup Calls]

SessionTypes ==
    /\ sess \in [Owner -> Sessions]
    /\ stop \in [Preview -> Stops]
    /\ known \subseteq Preview
    /\ bound \in [Port -> Preview \cup {Nobody, Stranger}]
    /\ routes \in [Preview -> 0..None]
    /\ left \in Bounds

\* Whom a call of a process is for, and where its caller waits.
Callers ==
    /\ alloc[Hub] # NoCall => /\ alloc[Hub].for \in Preview
                              /\ sess[alloc[Hub].for].at \in {"slot", "advance"}
    /\ alloc[Daemon] # NoCall => alloc[Daemon].for \in Client
    /\ \A c \in Proc : alloc[c] # NoCall /\ alloc[c].at # "done" => alloc[c].port \in Port

-----------------------------------------------------------------------------
(* The cap.                                                                 *)

Counted == { s \in Holding : ~ sess[s].hasty }

\* Whoever holds the mutex has room for one more, and only it takes a slot.
Slots ==
    /\ \A s \in Preview : sess[s].at = "slot" => mu = s
    /\ Cardinality(Counted) <= left.cap
    /\ mu # Nobody => Cardinality(Counted) + 1 <= left.cap

-----------------------------------------------------------------------------
(* A preview that was not stopped while it was launching.                   *)

\* Which stages are in the manager's map, and what each has of the session.
Course(s) ==
    /\ s \in known <=> sess[s].at \in {"bind", "advance", "settle", "giveup", "route", "live"}
    /\ sess[s].at \in {"idle", "slot"} => sess[s] = [Fresh EXCEPT !.at = sess[s].at]
    /\ sess[s].at \in {"bind", "advance", "settle", "giveup", "route", "return"} =>
            sess[s].port \in Port
    /\ sess[s].at = "advance" => sess[s].port \in sess[s].tried
    /\ sess[s].at \in {"route", "live", "return", "over"} => sess[s].tried = {}
    /\ sess[s].at = "over" => sess[s].port = 0
    /\ sess[s].routed => sess[s].at = "live"

\* Only a live one is stopped, in order; what did not fail is done.
Stopping(s) ==
    /\ stop[s].at # "none" => sess[s].at = "live"
    /\ stop[s].at \in {"port", "route", "forget"} => ~ sess[s].hook
    /\ stop[s].at \in {"route", "forget"} /\ ~ stop[s].failed => sess[s].port = 0
    /\ stop[s].at = "forget" /\ ~ stop[s].failed => ~ sess[s].routed

\* Its listener is its own from the bind to the close.
Listening(s) ==
    /\ sess[s].hook => sess[s].at \in {"route", "live"}
    /\ sess[s].at = "route" => sess[s].hook
    /\ sess[s].at = "settle" => bound[sess[s].port] = s
    /\ sess[s].hook => sess[s].addr \in Port /\ bound[sess[s].addr] = s
    /\ \A p \in Port : bound[p] = s => sess[s].at = "settle" \/ sess[s].hook
    /\ s \notin stray

\* Its route leads to its address; one that records none has none, unless Caddy
\* was told to add it in a call that failed.
Routed(s) ==
    /\ sess[s].at = "live" /\ sess[s].hook => sess[s].routed /\ routes[s] = sess[s].addr
    /\ ~ sess[s].routed /\ sess[s].at # "dead" => routes[s] = None \/ sess[s].late = "add"
    /\ sess[s].late = "add" => sess[s].at \in {"giveup", "return", "over", "dead"}
    /\ sess[s].late = "remove" => ~ sess[s].hook /\ sess[s].at \in {"live", "over", "dead"}

Kept(s) ==
    /\ sess[s].at \in {"idle", "slot"} => ~ sess[s].hasty
    /\ ~ sess[s].hasty => Course(s) /\ Stopping(s) /\ Listening(s) /\ Routed(s)

\* A reservation in its name is one it has recorded, its call's, or one whose
\* release failed.
Pending(s, p) ==
    /\ alloc[Hub] # NoCall /\ alloc[Hub].for = s
    /\ alloc[Hub].port = p /\ alloc[Hub].at \in {"won", "done"}

Owning(s) ==
    ~ sess[s].hasty /\ sess[s].at # "dead" =>
        \A p \in Port : files[p].owner = s =>
            p = sess[s].port \/ p \in sess[s].tried \cup sess[s].kept \/ Pending(s, p)

IInv ==
    /\ PoolTypes /\ SessionTypes /\ Callers /\ Slots
    /\ \A s \in Preview : Kept(s) /\ Owning(s)

-----------------------------------------------------------------------------
(* The constants, and what a step of one session leaves alone.              *)

LEMMA Constants ==
    /\ NPorts \in Nat /\ NPorts >= 1 /\ 1 \in Port
    /\ \A p \in Port : p \in Nat /\ p # 0 /\ p \in 0..NPorts
    /\ Hub \in Proc /\ Daemon \in Proc /\ Hub # Daemon
    /\ Preview \subseteq Owner /\ Client \subseteq Owner /\ Preview \cap Client = {}
    /\ \A s \in Owner : s # Nobody /\ s # Stranger
BY RangeAssumption, PreviewAssumption DEF RangeAssumption, PreviewAssumption, Port

LEMMA BecomesHas ==
    ASSUME SessionTypes, NEW s \in Owner, NEW e \in Sessions, Becomes(s, e)
    PROVE  /\ sess' \in [Owner -> Sessions] /\ sess'[s] = e
           /\ \A t \in Owner : t # s => sess'[t] = sess[t]
BY DEF SessionTypes, Becomes

\* What a preview keeps when a step is not about it.
LEMMA KeptStays ==
    ASSUME NEW t \in Preview, Kept(t), sess'[t] = sess[t], stop'[t] = stop[t],
           t \in known' <=> t \in known, routes'[t] = routes[t], t \in stray' => t \in stray,
           \A p \in Port : bound'[p] = t <=> bound[p] = t
    PROVE  Kept(t)'
<1>1. Course(t) => Course(t)'
  BY DEF Course
<1>2. Stopping(t) => Stopping(t)'
  BY DEF Stopping
<1>3. Course(t) /\ Listening(t) => Listening(t)'
  BY DEF Course, Listening
<1>4. Routed(t) => Routed(t)'
  BY DEF Routed
<1> QED
  BY <1>1, <1>2, <1>3, <1>4 DEF Kept

LEMMA OwningStays ==
    ASSUME NEW t \in Preview, Owning(t), sess'[t] = sess[t],
           \A p \in Port : /\ files'[p].owner = t => files[p].owner = t
                           /\ Pending(t, p) => Pending(t, p)'
    PROVE  Owning(t)'
BY DEF Owning

\* A step about the session of s, and nobody else's.
Apart(s) ==
    \A t \in Preview \ {s} :
        /\ sess'[t] = sess[t] /\ stop'[t] = stop[t] /\ (t \in known' <=> t \in known)
        /\ routes'[t] = routes[t] /\ (t \in stray' => t \in stray)
        /\ \A p \in Port : /\ bound'[p] = t <=> bound[p] = t
                           /\ files'[p].owner = t => files[p].owner = t
                           /\ Pending(t, p) => Pending(t, p)'

LEMMA OthersKeep ==
    ASSUME IInv, NEW s, Apart(s), PoolTypes', SessionTypes', Callers', Slots',
           s \in Preview => Kept(s)' /\ Owning(s)'
    PROVE  IInv'
<1>1. ASSUME NEW t \in Preview PROVE Kept(t)' /\ Owning(t)'
  <2>1. CASE t = s
    BY <2>1
  <2>2. CASE t # s
    <3>1. Kept(t) /\ Owning(t)
      BY DEF IInv
    <3>2. Kept(t)'
      BY <2>2, <3>1, KeptStays DEF Apart
    <3>3. Owning(t)'
      BY <2>2, <3>1, OwningStays DEF Apart
    <3> QED
      BY <3>2, <3>3
  <2> QED
    BY <2>1, <2>2
<1> QED
  BY <1>1 DEF IInv

-----------------------------------------------------------------------------
(* The cap.                                                                 *)

LEMMA CountedIsFinite ==
    ASSUME SessionTypes
    PROVE  /\ IsFiniteSet(Counted) /\ Cardinality(Counted) \in Nat
           /\ IsFiniteSet(Holding) /\ Cardinality(Holding) \in Nat
           /\ Cardinality(Counted) <= Cardinality(Holding)
<1>1. Holding \in SUBSET Preview /\ Counted \in SUBSET Holding
  BY DEF SessionTypes, Holding, Counted
<1>2. IsFiniteSet(Preview)
  BY PreviewAssumption DEF PreviewAssumption
<1> QED
  BY <1>1, <1>2, FS_Subset, FS_CardinalityType

\* Nobody takes a slot: the count may fall, the mutex be let go.
LEMMA SlotsStay ==
    ASSUME SessionTypes, Slots, left'.cap = left.cap, mu' \in {mu, Nobody},
           Counted' \in SUBSET Counted,
           \A s \in Preview : sess'[s].at = "slot" => mu' = s
    PROVE  Slots'
<1>1. IsFiniteSet(Counted) /\ Cardinality(Counted) \in Nat
  BY CountedIsFinite
<1>2. Cardinality(Counted') \in Nat /\ Cardinality(Counted') <= Cardinality(Counted)
  BY <1>1, FS_Subset, FS_CardinalityType
<1>3. left.cap \in Nat
  BY DEF SessionTypes, Bounds
<1>4. Cardinality(Counted)' = Cardinality(Counted')
  OBVIOUS
<1>5. /\ Cardinality(Counted') <= left'.cap
      /\ mu' # Nobody => Cardinality(Counted') + 1 <= left'.cap
  BY <1>1, <1>2, <1>3 DEF Slots
<1> QED
  BY <1>4, <1>5 DEF Slots

-----------------------------------------------------------------------------
(* The pool.                                                                *)

\* What a step of a call does: it moves on with the same owner, and at most
\* frees its port or takes it for its owner.
LEMMA CallMoves ==
    ASSUME PoolTypes, Callers, NEW c \in Proc, AllocStep(c)
    PROVE  /\ alloc[c] \in Calls /\ alloc[c] # NoCall /\ alloc[c].at # "done"
           /\ \E x \in Calls :
                /\ alloc' = [alloc EXCEPT ![c] = x] /\ x.for = alloc[c].for
                /\ x.at # "done" => x.port \in Port
                /\ alloc[c].at = "won" => x.at = "done" /\ x.port = alloc[c].port
                /\ \/ files' = files
                   \/ files' = [files EXCEPT ![alloc[c].port] = Free]
                   \/ /\ files' = [files EXCEPT ![alloc[c].port] =
                                        [owner |-> alloc[c].for, old |-> FALSE]]
                      /\ x.at \in {"won", "done"} /\ x.port = alloc[c].port
<1> USE Constants
<1>1. alloc[c].at \in {"claim", "look", "lock", "break", "relock", "recheck", "remove",
                       "link", "won", "lost"}
  BY DEF AllocStep, TryClaim, Look, TakeLock, BreakLock, Relock, Recheck, Remove, Link, Unlock
<1>2. alloc[c] # NoCall /\ alloc[c] \in Calls /\ alloc[c].port \in Port
  <2>1. alloc[c] # NoCall
    BY <1>1 DEF NoCall
  <2> QED
    BY <1>1, <2>1 DEF PoolTypes, Callers
<1> DEFINE a == alloc[c]
           To(pc)  == [a EXCEPT !.at = pc]
           Further == IF a.port < a.last THEN [a EXCEPT !.at = "claim", !.port = @ + 1]
                                         ELSE [a EXCEPT !.at = "done", !.port = 0]
           Moves(x) == /\ alloc' = [alloc EXCEPT ![c] = x] /\ x.for = a.for
                       /\ x \in Calls /\ (x.at # "done" => x.port \in Port)
<1>3. ASSUME NEW pc \in CallStages, CallAt(c, pc)
      PROVE  Moves(To(pc)) /\ To(pc).at = pc /\ To(pc).port = a.port
  <2>1. To(pc) \in Calls /\ To(pc).for = a.for /\ To(pc).at = pc /\ To(pc).port = a.port
    BY <1>2 DEF Calls
  <2>2. alloc' = [alloc EXCEPT ![c] = To(pc)]
    BY <1>3 DEF CallAt
  <2> QED
    BY <1>2, <2>1, <2>2
<1>4. ASSUME Beyond(c) PROVE Moves(Further)
  <2>1. alloc' = [alloc EXCEPT ![c] = Further]
    BY <1>4 DEF Beyond
  <2>2. Further \in Calls /\ Further.for = a.for /\ (Further.at # "done" => Further.port \in Port)
    <3>1. CASE a.port < a.last
      <4>1. a.port + 1 \in Port /\ a.port + 1 \in 0..NPorts
        BY <1>2, <3>1 DEF Port, Calls
      <4> QED
        BY <1>2, <3>1, <4>1 DEF Calls, CallStages
    <3>2. CASE ~ a.port < a.last
      <4>1. 0 \in 0..NPorts
        OBVIOUS
      <4> QED
        BY <1>2, <3>2, <4>1 DEF Calls, CallStages
    <3> QED
      BY <3>1, <3>2
  <2> QED
    BY <2>1, <2>2
<1> HIDE DEF Moves, To, Further
<1> SUFFICES \E x \in Calls :
                /\ Moves(x)
                /\ a.at = "won" => x.at = "done" /\ x.port = a.port
                /\ \/ files' = files
                   \/ files' = [files EXCEPT ![a.port] = Free]
                   \/ /\ files' = [files EXCEPT ![a.port] = [owner |-> a.for, old |-> FALSE]]
                      /\ x.at \in {"won", "done"} /\ x.port = a.port
  BY <1>1, <1>2 DEF Moves
<1>5. ASSUME UNCHANGED files, a.at # "won",
             Beyond(c) \/ \E pc \in CallStages : CallAt(c, pc)
      PROVE  \E x \in Calls : Moves(x) /\ files' = files
  BY <1>3, <1>4, <1>5 DEF Moves
<1>6. CASE TryClaim(c) \/ Link(c)
  <2>1. CASE Reserved(a.port)
    BY <1>5, <1>6, <2>1 DEF TryClaim, Link, CallStages
  <2>2. CASE ~ Reserved(a.port)
    <3>1. /\ files' = [files EXCEPT ![a.port] = [owner |-> a.for, old |-> FALSE]]
          /\ \E pc \in {"won", "done"} : CallAt(c, pc)
          /\ a.at # "won"
      BY <1>6, <2>2 DEF TryClaim, Link
    <3>2. PICK pc \in {"won", "done"} : CallAt(c, pc)
      BY <3>1
    <3>3. Moves(To(pc)) /\ To(pc).at = pc /\ To(pc).port = a.port /\ To(pc) \in Calls
      BY <1>3, <3>2 DEF CallStages, Moves
    <3> QED
      BY <3>1, <3>3
  <2> QED
    BY <2>1, <2>2
<1>7. CASE Look(c) \/ TakeLock(c) \/ BreakLock(c) \/ Relock(c) \/ Recheck(c)
  <2>1. /\ UNCHANGED files /\ a.at # "won"
        /\ Beyond(c) \/ \E pc \in {"lock", "recheck", "break", "relock", "remove", "lost"} : CallAt(c, pc)
    BY <1>7 DEF Look, TakeLock, BreakLock, Relock, Recheck
  <2> QED
    BY <1>5, <2>1 DEF CallStages
<1>8. CASE Remove(c)
  <2>1. CallAt(c, "link") /\ files' = [files EXCEPT ![a.port] = Free] /\ a.at # "won"
    BY <1>8 DEF Remove
  <2>2. Moves(To("link")) /\ To("link") \in Calls
    BY <1>3, <2>1 DEF CallStages, Moves
  <2> QED
    BY <2>1, <2>2
<1>9. CASE Unlock(c) /\ a.at = "won"
  <2>1. CallAt(c, "done") /\ files' = files
    BY <1>9 DEF Unlock
  <2>2. Moves(To("done")) /\ To("done") \in Calls /\ To("done").at = "done"
        /\ To("done").port = a.port
    BY <1>3, <2>1 DEF CallStages, Moves
  <2> QED
    BY <2>1, <2>2
<1>10. CASE Unlock(c) /\ a.at = "lost"
  BY <1>5, <1>10 DEF Unlock
<1> QED
  BY <1>6, <1>7, <1>8, <1>9, <1>10 DEF AllocStep, Unlock

LEMMA PoolStepKeeps ==
    ASSUME IInv, NEW c \in Proc, PoolStep(c) PROVE IInv'
<1> USE Constants
<1>1. /\ PoolTypes /\ SessionTypes /\ Callers /\ Slots /\ AllocStep(c) /\ UNCHANGED others
      /\ sess' = sess /\ stop' = stop /\ known' = known /\ mu' = mu /\ bound' = bound
      /\ stray' = stray /\ routes' = routes /\ left' = left
  BY DEF IInv, PoolStep, others
<1>2. /\ alloc[c] \in Calls /\ alloc[c] # NoCall /\ alloc[c].at # "done"
      /\ \E x \in Calls :
           /\ alloc' = [alloc EXCEPT ![c] = x] /\ x.for = alloc[c].for
           /\ x.at # "done" => x.port \in Port
           /\ alloc[c].at = "won" => x.at = "done" /\ x.port = alloc[c].port
           /\ \/ files' = files
              \/ files' = [files EXCEPT ![alloc[c].port] = Free]
              \/ /\ files' = [files EXCEPT ![alloc[c].port] =
                                   [owner |-> alloc[c].for, old |-> FALSE]]
                 /\ x.at \in {"won", "done"} /\ x.port = alloc[c].port
  BY <1>1, CallMoves
<1>3. PICK x \in Calls :
           /\ alloc' = [alloc EXCEPT ![c] = x] /\ x.for = alloc[c].for
           /\ x.at # "done" => x.port \in Port
           /\ alloc[c].at = "won" => x.at = "done" /\ x.port = alloc[c].port
           /\ \/ files' = files
              \/ files' = [files EXCEPT ![alloc[c].port] = Free]
              \/ /\ files' = [files EXCEPT ![alloc[c].port] =
                                   [owner |-> alloc[c].for, old |-> FALSE]]
                 /\ x.at \in {"won", "done"} /\ x.port = alloc[c].port
  BY <1>2
<1>4. alloc[c].port \in Port /\ alloc[c].for \in Owner
  BY <1>1, <1>2 DEF Callers, Calls
<1>5. x # NoCall
  BY DEF Calls, NoCall, CallStages
<1>6. alloc'[c] = x /\ \A b \in Proc : b # c => alloc'[b] = alloc[b]
  BY <1>1, <1>3 DEF PoolTypes
<1>7. PoolTypes'
  <2>1. files' \in [Port -> [owner : Owner \cup {Nobody}, old : BOOLEAN]]
    <3> DEFINE R == [owner : Owner \cup {Nobody}, old : BOOLEAN]
    <3>1. Free \in R /\ [owner |-> alloc[c].for, old |-> FALSE] \in R
      BY <1>4 DEF Free
    <3> HIDE DEF R
    <3>2. files \in [Port -> R]
      BY <1>1 DEF PoolTypes, R
    <3>3. files' \in [Port -> R]
      BY <1>3, <3>1, <3>2
    <3> QED
      BY <3>3 DEF R
  <2>2. alloc' \in [Proc -> {NoCall} \cup Calls]
    BY <1>1, <1>3 DEF PoolTypes
  <2> QED
    BY <2>1, <2>2 DEF PoolTypes
<1>8. Callers'
  <2>1. alloc'[Hub] # NoCall => alloc[Hub] # NoCall /\ alloc'[Hub].for = alloc[Hub].for
    BY <1>2, <1>3, <1>6
  <2>2. alloc'[Daemon] # NoCall => alloc[Daemon] # NoCall /\ alloc'[Daemon].for = alloc[Daemon].for
    BY <1>2, <1>3, <1>6
  <2>3. \A b \in Proc : alloc'[b] # NoCall /\ alloc'[b].at # "done" => alloc'[b].port \in Port
    BY <1>1, <1>3, <1>6 DEF Callers
  <2> QED
    BY <1>1, <2>1, <2>2, <2>3 DEF Callers
<1>9. SessionTypes' /\ Slots'
  BY <1>1 DEF SessionTypes, Slots, Counted, Holding
<1>10. ASSUME NEW t \in Preview, NEW p \in Port
       PROVE  /\ Pending(t, p) => Pending(t, p)'
              /\ files'[p].owner = t => files[p].owner = t \/ Pending(t, p)'
  <2>1. CASE c = Hub
    <3>1. Pending(t, p) => Pending(t, p)'
      BY <1>2, <1>3, <1>5, <1>6, <2>1 DEF Pending
    <3>2. ASSUME files'[p].owner = t, files[p].owner # t PROVE Pending(t, p)'
      <4>1. p = alloc[c].port /\ files'[p] # files[p]
        BY <1>1, <1>3, <1>4, <3>2 DEF PoolTypes
      <4>2. files'[p] # Free
        BY <3>2, <4>1 DEF Free
      <4>3. /\ files' = [files EXCEPT ![alloc[c].port] = [owner |-> alloc[c].for, old |-> FALSE]]
            /\ x.at \in {"won", "done"} /\ x.port = alloc[c].port
        BY <1>1, <1>3, <1>4, <4>1, <4>2 DEF PoolTypes
      <4>4. files'[p] = [owner |-> alloc[c].for, old |-> FALSE]
        BY <1>1, <4>1, <4>3 DEF PoolTypes
      <4>5. alloc[c].for = t
        BY <3>2, <4>4
      <4> QED
        BY <1>3, <1>5, <1>6, <2>1, <4>1, <4>3, <4>5 DEF Pending
    <3> QED
      BY <3>1, <3>2
  <2>2. CASE c # Hub
    <3>1. alloc'[Hub] = alloc[Hub] /\ c = Daemon
      BY <1>6, <2>2, PreviewAssumption DEF PreviewAssumption
    <3>2. alloc[c].for \in Client
      BY <1>1, <1>2, <3>1 DEF Callers
    <3>3. alloc[c].for # t
      BY <3>2
    <3>4. files'[p].owner = t => files[p].owner = t
      BY <1>1, <1>3, <1>4, <3>3 DEF PoolTypes, Free
    <3> QED
      BY <3>1, <3>4 DEF Pending
  <2> QED
    BY <2>1, <2>2
<1>11. ASSUME NEW t \in Preview PROVE Kept(t)' /\ Owning(t)'
  <2>1. Kept(t) /\ Owning(t)
    BY DEF IInv
  <2>2. Kept(t)'
    BY <1>1, <2>1, KeptStays
  <2>3. Owning(t)'
    BY <1>1, <1>10, <2>1 DEF Owning
  <2> QED
    BY <2>2, <2>3
<1> QED
  BY <1>7, <1>8, <1>9, <1>11 DEF IInv

\* Age changes no owner.
LEMMA AgeingKeeps ==
    ASSUME IInv, Ageing PROVE IInv'
<1>1. /\ PoolTypes /\ SessionTypes /\ Callers /\ Slots /\ alloc' = alloc
      /\ sess' = sess /\ stop' = stop /\ known' = known /\ mu' = mu /\ bound' = bound
      /\ stray' = stray /\ routes' = routes /\ left' = left
  BY DEF IInv, Ageing, others, Age, AgeLock
<1>2. /\ files' \in [Port -> [owner : Owner \cup {Nobody}, old : BOOLEAN]]
      /\ \A p \in Port : files'[p].owner = files[p].owner
  <2>1. CASE files' = files
    BY <1>1, <2>1 DEF PoolTypes
  <2>2. CASE \E q \in Port : files' = [files EXCEPT ![q].old = TRUE]
    BY ZenonT(60), <1>1, <2>2 DEF PoolTypes
  <2> QED
    BY <2>1, <2>2 DEF Ageing, Age, AgeLock
<1>3. PoolTypes' /\ SessionTypes' /\ Callers' /\ Slots'
  BY <1>1, <1>2 DEF PoolTypes, SessionTypes, Callers, Slots, Counted, Holding
<1>4. ASSUME NEW t \in Preview PROVE Kept(t)' /\ Owning(t)'
  <2>1. Kept(t) /\ Owning(t)
    BY DEF IInv
  <2>2. Kept(t)'
    BY <1>1, <2>1, KeptStays
  <2>3. \A p \in Port : Pending(t, p) => Pending(t, p)'
    BY <1>1 DEF Pending
  <2> QED
    BY <1>1, <1>2, <2>1, <2>2, <2>3, OwningStays
<1> QED
  BY <1>3, <1>4 DEF IInv

\* A release frees the port, whosever it is.
LEMMA ReleaseIs ==
    ASSUME PoolTypes, NEW c \in Proc, NEW p, Release(c, p)
    PROVE  /\ PoolTypes' /\ alloc' = alloc /\ alloc[c] = NoCall
           /\ \A q \in Port : files'[q].owner = IF q = p THEN Nobody ELSE files[q].owner
<1>1. files' = [files EXCEPT ![p] = Free] /\ alloc' = alloc /\ alloc[c] = NoCall
  BY DEF Release
<1>2. \A q \in Port : files'[q] = IF q = p THEN Free ELSE files[q]
  BY <1>1 DEF PoolTypes
<1>3. files' \in [Port -> [owner : Owner \cup {Nobody}, old : BOOLEAN]]
  BY <1>1 DEF PoolTypes, Free
<1> QED
  BY <1>1, <1>2, <1>3 DEF PoolTypes, Free

LEMMA HangupIs ==
    ASSUME PoolTypes, NEW c \in Proc, Hangup(c)
    PROVE  /\ PoolTypes' /\ files' = files /\ alloc'[c] = NoCall
           /\ \A b \in Proc : b # c => alloc'[b] = alloc[b]
BY DEF PoolTypes, Hangup

\* Nothing is said of the pool.
LEMMA PoolStays ==
    ASSUME PoolTypes, UNCHANGED pool
    PROVE  PoolTypes' /\ files' = files /\ alloc' = alloc
BY DEF PoolTypes, pool

-----------------------------------------------------------------------------
(* A step of one preview's launch or stop.                                  *)

LEMMA Uncounted ==
    ASSUME SessionTypes, NEW s \in Owner, NEW e \in Sessions, Becomes(s, e),
           known' \subseteq known,
           s \in known' /\ ~ e.hasty /\ e.port # 0 => ~ sess[s].hasty /\ sess[s].port # 0
    PROVE  Counted' \in SUBSET Counted
<1>1. sess'[s] = e /\ \A t \in Owner : t # s => sess'[t] = sess[t]
  BY BecomesHas
<1>2. known \subseteq Owner
  BY Constants DEF SessionTypes
<1>3. ASSUME NEW t \in known', sess'[t].port # 0, ~ sess'[t].hasty
      PROVE  t \in known /\ sess[t].port # 0 /\ ~ sess[t].hasty
  <2>1. CASE t = s
    BY <1>1, <1>3, <2>1
  <2>2. CASE t # s
    BY <1>1, <1>2, <1>3, <2>2
  <2> QED
    BY <2>1, <2>2
<1> QED
  BY <1>3 DEF Counted, Holding

\* The preview s becomes e; the caller says what becomes of its own facts.
LEMMA MoveKeeps ==
    ASSUME IInv, NEW s \in Preview, NEW e \in Sessions, Becomes(s, e), e.at # "slot",
           PoolTypes', Callers', mu' = mu, left'.cap = left.cap,
           left' \in Bounds,
           stop' \in [Preview -> Stops],
           known' \subseteq known,
           bound' \in [Port -> Preview \cup {Nobody, Stranger}],
           routes' \in [Preview -> 0..None],
           s \in known' /\ ~ e.hasty /\ e.port # 0 => ~ sess[s].hasty /\ sess[s].port # 0,
           Apart(s), Kept(s)', Owning(s)'
    PROVE  IInv'
<1> USE Constants
<1>1. sess' \in [Owner -> Sessions] /\ sess'[s] = e /\ \A t \in Owner : t # s => sess'[t] = sess[t]
  BY BecomesHas DEF IInv
<1>2. SessionTypes'
  BY <1>1 DEF IInv, SessionTypes
<1>3. Counted' \in SUBSET Counted
  BY Uncounted DEF IInv
<1>4. \A t \in Preview : sess'[t].at = "slot" => mu' = t
  BY <1>1 DEF IInv, Slots
<1>5. Slots'
  BY <1>3, <1>4, SlotsStay DEF IInv
<1> QED
  BY <1>2, <1>5, OthersKeep

\* Its fields, in the types of the state.
LEMMA SessionHas ==
    ASSUME IInv, NEW s \in Preview
    PROVE  /\ s \in Owner /\ sess[s] \in Sessions /\ PoolTypes /\ SessionTypes
           /\ known \subseteq known /\ Kept(s) /\ Owning(s)
           /\ stop[s] \in Stops
BY Constants DEF IInv, SessionTypes

\* A call under way is still its caller's.
LEMMA CallersStay ==
    ASSUME IInv, NEW s \in Owner, NEW e \in Sessions, Becomes(s, e), alloc' = alloc,
           sess[s].at \in {"slot", "advance"} => e.at = sess[s].at
    PROVE  Callers'
<1>1. sess'[s] = e /\ \A t \in Owner : t # s => sess'[t] = sess[t]
  BY BecomesHas DEF IInv
<1>2. alloc[Hub] # NoCall => alloc[Hub].for \in Owner
  BY Constants DEF IInv, Callers
<1> QED
  BY <1>1, <1>2 DEF IInv, Callers

\* A release that fails frees nothing.
LEMMA ReleaseFailsIs ==
    ASSUME PoolTypes, NEW c \in Proc, ReleaseFails(c)
    PROVE  UNCHANGED pool /\ PoolTypes' /\ files' = files /\ alloc' = alloc /\ alloc[c] = NoCall
BY PoolStays DEF ReleaseFails

\* The pool is left alone, or a port is released.
LEMMA PoolQuiet ==
    ASSUME PoolTypes, UNCHANGED pool \/ \E c \in Proc : \E p : Release(c, p)
    PROVE  /\ PoolTypes' /\ alloc' = alloc
           /\ \A p \in Port : \A t \in Owner : /\ files'[p].owner = t => files[p].owner = t
                                               /\ Pending(t, p) => Pending(t, p)'
<1>1. PoolTypes' /\ alloc' = alloc
      /\ \A p \in Port : files'[p].owner = files[p].owner \/ files'[p].owner = Nobody
  BY PoolStays, ReleaseIs
<1> QED
  BY <1>1, Constants DEF Pending

\* The call of s has its answer taken.
LEMMA PoolAnswered ==
    ASSUME IInv, NEW s \in Preview, Answers(Hub, s), Hangup(Hub)
    PROVE  /\ PoolTypes' /\ alloc'[Hub] = NoCall /\ files' = files
           /\ \A b \in Proc : b # Hub => alloc'[b] = alloc[b]
           /\ alloc[Hub].port \in 0..NPorts
           /\ \A t \in Preview \ {s} : \A p \in Port : ~ Pending(t, p)
           /\ \A p \in Port : Pending(s, p) => p = alloc[Hub].port
<1> USE Constants
<1>1. alloc[Hub] # NoCall /\ alloc[Hub].for = s
  BY DEF Answers, NoCall
<1>2. alloc[Hub] \in Calls
  BY <1>1 DEF IInv, PoolTypes
<1> QED
  BY <1>1, <1>2, HangupIs DEF IInv, Pending, Calls

LEMMA AnsweredCallers ==
    ASSUME IInv, alloc'[Hub] = NoCall, \A b \in Proc : b # Hub => alloc'[b] = alloc[b]
    PROVE  Callers'
BY Constants DEF IInv, Callers

LEMMA AskPortKeeps ==
    ASSUME IInv, NEW s \in Preview, AskPort(s) PROVE IInv'
<1> USE Constants
<1>1. /\ alloc[Hub] = NoCall
      /\ alloc' = [alloc EXCEPT ![Hub] =
                     [at |-> "claim", port |-> 1, last |-> left.ports, for |-> s]]
      /\ files' = files /\ sess' = sess /\ stop' = stop /\ known' = known /\ mu' = mu
      /\ bound' = bound /\ stray' = stray /\ routes' = routes /\ left' = left
      /\ sess[s].at \in {"slot", "advance"}
  BY DEF AskPort, Allocate
<1>2. [at |-> "claim", port |-> 1, last |-> left.ports, for |-> s] \in Calls
  BY DEF IInv, SessionTypes, Bounds, Calls, CallStages
<1>3. alloc'[Hub] = [at |-> "claim", port |-> 1, last |-> left.ports, for |-> s]
      /\ \A b \in Proc : b # Hub => alloc'[b] = alloc[b]
  BY <1>1 DEF IInv, PoolTypes
<1>4. PoolTypes'
  BY <1>1, <1>2 DEF IInv, PoolTypes
<1>5. Callers'
  BY <1>1, <1>3 DEF IInv, Callers
<1>6. SessionTypes' /\ Slots'
  BY <1>1 DEF IInv, SessionTypes, Slots, Counted, Holding
<1>7. ASSUME NEW t \in Preview PROVE Kept(t)' /\ Owning(t)'
  <2>1. \A p \in Port : ~ Pending(t, p)
    BY <1>1 DEF Pending
  <2> QED
    BY <1>1, <2>1, KeptStays, OwningStays DEF IInv
<1> QED
  BY <1>4, <1>5, <1>6, <1>7 DEF IInv

\* The cap is checked and the slot taken under the mutex.
LEMMA ReserveKeeps ==
    ASSUME IInv, NEW s \in Preview, Reserve(s) PROVE IInv'
<1> USE Constants
<1> DEFINE e == [sess[s] EXCEPT !.at = "slot"]
<1>1. /\ Becomes(s, e) /\ sess[s].at = "idle" /\ mu = Nobody /\ mu' = s
      /\ Cardinality(Holding) < left.cap
      /\ stop' = stop /\ known' = known /\ bound' = bound
      /\ stray' = stray /\ routes' = routes /\ left' = left /\ UNCHANGED pool
  BY DEF Reserve, Goes
<1>2. e \in Sessions /\ e.at = "slot" /\ e.port = sess[s].port /\ e.hasty = sess[s].hasty
         /\ e.kept = sess[s].kept /\ e.late = sess[s].late
      /\ e.hook = sess[s].hook /\ e.routed = sess[s].routed /\ e.tried = sess[s].tried
  BY SessionHas DEF Sessions, Stages
<1>3. ~ sess[s].hasty => e = [Fresh EXCEPT !.at = "slot"] /\ s \notin known
  BY <1>1, SessionHas DEF Kept, Course, Fresh
<1> HIDE DEF e
<1>4. sess' \in [Owner -> Sessions] /\ sess'[s] = e /\ \A t \in Owner : t # s => sess'[t] = sess[t]
  BY <1>1, <1>2, BecomesHas DEF IInv
<1>5. /\ PoolTypes' /\ alloc' = alloc /\ files' = files
  BY <1>1, PoolStays DEF IInv
<1>6. alloc[Hub] # NoCall => alloc[Hub].for # s
  BY <1>1 DEF IInv, Callers
<1>7. Callers'
  BY <1>4, <1>5, <1>6 DEF IInv, Callers
<1>8. SessionTypes'
  BY <1>1, <1>4 DEF IInv, SessionTypes
<1>9. Counted' \in SUBSET Counted
  BY <1>1, <1>2, Uncounted DEF IInv
<1>10. Slots'
  <2>1. \A t \in Preview : sess'[t].at = "slot" => mu' = t
    BY <1>1, <1>4 DEF IInv, Slots
  <2>2. /\ IsFiniteSet(Counted) /\ Cardinality(Counted) \in Nat /\ Cardinality(Holding) \in Nat
        /\ Cardinality(Counted) <= Cardinality(Holding) /\ left.cap \in Nat
    BY CountedIsFinite DEF IInv, SessionTypes, Bounds
  <2>3. Cardinality(Counted') \in Nat /\ Cardinality(Counted') <= Cardinality(Counted)
    BY <1>9, <2>2, FS_Subset, FS_CardinalityType
  <2>4. Cardinality(Counted') + 1 <= left'.cap
    BY <1>1, <2>2, <2>3
  <2> QED
    BY <1>1, <2>1, <2>2, <2>3, <2>4 DEF Slots
<1>11. Apart(s)
  BY <1>1, <1>4, <1>5 DEF Apart, Pending
<1>12. Kept(s)'
  <2> SUFFICES ASSUME ~ sess[s].hasty PROVE Course(s)' /\ Stopping(s)' /\ Listening(s)' /\ Routed(s)'
    BY <1>1, <1>2, <1>4, SessionHas DEF Kept
  <2>1. Course(s) /\ Stopping(s) /\ Listening(s) /\ Routed(s)
    BY SessionHas DEF Kept
  <2>2. Course(s)'
    BY <1>1, <1>2, <1>3, <1>4 DEF Course, Fresh
  <2>3. Stopping(s)'
    BY <1>1, <1>2, <1>4, <2>1 DEF Stopping
  <2>4. Listening(s)'
    BY <1>1, <1>2, <1>4, <2>1 DEF Listening
  <2>5. Routed(s)'
    BY <1>1, <1>2, <1>4, <2>1 DEF Routed
  <2> QED
    BY <2>2, <2>3, <2>4, <2>5
<1>13. Owning(s)'
  BY <1>1, <1>2, <1>4, <1>5, SessionHas DEF Owning, Pending
<1> QED
  BY <1>5, <1>7, <1>8, <1>10, <1>11, <1>12, <1>13, OthersKeep

-----------------------------------------------------------------------------
(* Launch.                                                                  *)

\* With a port the session enters the map; without, it is no session.
LEMMA SlotTakenKeeps ==
    ASSUME IInv, NEW s \in Preview, SlotTaken(s) PROVE IInv'
<1> USE Constants
<1>1. /\ sess[s].at = "slot" /\ Answers(Hub, s) /\ Hangup(Hub) /\ mu = s /\ mu' = Nobody
      /\ stop' = stop /\ bound' = bound /\ stray' = stray /\ routes' = routes /\ left' = left
  BY DEF SlotTaken, IInv, Slots
<1>2. /\ PoolTypes' /\ alloc'[Hub] = NoCall /\ files' = files
      /\ \A b \in Proc : b # Hub => alloc'[b] = alloc[b]
      /\ alloc[Hub].port \in 0..NPorts
      /\ \A t \in Preview \ {s} : \A p \in Port : ~ Pending(t, p)
      /\ \A p \in Port : Pending(s, p) => p = alloc[Hub].port
  BY <1>1, PoolAnswered
<1>3. Callers'
  BY <1>2, AnsweredCallers
<1>4. /\ sess[s] \in Sessions
      /\ ~ sess[s].hasty /\ s \notin known
      /\ sess[s] = [Fresh EXCEPT !.at = "slot"]
  BY <1>1, SessionHas DEF Kept, Course
<1> DEFINE e == IF alloc[Hub].port = 0 THEN Fresh
                ELSE [sess[s] EXCEPT !.at = "bind", !.port = alloc[Hub].port]
<1>5. Becomes(s, e)
  BY DEF SlotTaken
<1>6. /\ e \in Sessions /\ e.at # "slot"
      /\ alloc[Hub].port = 0 => e = Fresh
      /\ alloc[Hub].port # 0 => /\ e.at = "bind" /\ e.port = alloc[Hub].port
                                /\ e.hasty = sess[s].hasty
         /\ e.kept = sess[s].kept /\ e.late = sess[s].late /\ e.tried = sess[s].tried
                                /\ e.hook = sess[s].hook /\ e.routed = sess[s].routed
  <2>1. Fresh \in Sessions
    BY DEF Fresh, Sessions, Stages
  <2>2. CASE alloc[Hub].port = 0
    BY <2>1, <2>2 DEF Fresh
  <2>3. CASE alloc[Hub].port # 0
    BY <1>2, <1>4, <2>3 DEF Sessions, Stages
  <2> QED
    BY <2>2, <2>3
<1>7. /\ alloc[Hub].port = 0 => known' = known
      /\ alloc[Hub].port # 0 => known' = known \cup {s}
  BY DEF SlotTaken
<1> HIDE DEF e
<1>8. sess' \in [Owner -> Sessions] /\ sess'[s] = e /\ \A t \in Owner : t # s => sess'[t] = sess[t]
  BY <1>5, <1>6, BecomesHas DEF IInv
<1>9. SessionTypes'
  BY <1>1, <1>7, <1>8 DEF IInv, SessionTypes
<1>10. Slots'
  <2>1. \A t \in Preview : sess'[t].at # "slot"
    BY <1>1, <1>6, <1>8 DEF IInv, Slots
  <2>2. Counted' \subseteq Counted \cup {s}
    <3>1. ASSUME NEW t \in known', t # s, sess'[t].port # 0, ~ sess'[t].hasty
          PROVE  t \in known /\ sess[t].port # 0 /\ ~ sess[t].hasty
      BY <1>7, <1>8, <3>1 DEF IInv, SessionTypes
    <3> QED
      BY <3>1 DEF Counted, Holding
  <2>3. /\ IsFiniteSet(Counted) /\ Cardinality(Counted) \in Nat /\ left.cap \in Nat
        /\ Cardinality(Counted) + 1 <= left.cap
    BY <1>1, CountedIsFinite DEF IInv, SessionTypes, Bounds, Slots
  <2>4. IsFiniteSet(Counted \cup {s}) /\ Cardinality(Counted \cup {s}) <= Cardinality(Counted) + 1
        /\ Cardinality(Counted \cup {s}) \in Nat
    <3> DEFINE C == Counted
               n == Cardinality(C)
    <3>1. IsFiniteSet(C) /\ n \in Nat
      BY <2>3
    <3> HIDE DEF C
    <3>2. /\ IsFiniteSet(C \cup {s})
          /\ Cardinality(C \cup {s}) = IF s \in C THEN n ELSE n + 1
      BY <3>1, FS_AddElement
    <3> HIDE DEF n
    <3>3. Cardinality(C \cup {s}) \in {n, n + 1}
      BY <3>2
    <3>4. /\ IsFiniteSet(C \cup {s}) /\ Cardinality(C \cup {s}) <= n + 1
          /\ Cardinality(C \cup {s}) \in Nat
      BY <3>1, <3>2, <3>3
    <3> QED
      BY <3>4 DEF C, n
  <2>5. Cardinality(Counted') \in Nat /\ Cardinality(Counted') <= Cardinality(Counted \cup {s})
    BY <2>2, <2>4, FS_Subset, FS_CardinalityType
  <2>6. Cardinality(Counted') <= left'.cap
    BY <1>1, <2>3, <2>4, <2>5
  <2> QED
    BY <1>1, <2>1, <2>6 DEF Slots
<1>11. Apart(s)
  BY <1>1, <1>2, <1>7, <1>8 DEF Apart
<1>12. Kept(s)'
  <2>1. Stopping(s) /\ Listening(s) /\ Routed(s)
    BY <1>4, SessionHas DEF Kept
  <2>2. /\ sess[s].port = 0 /\ sess[s].tried = {} /\ ~ sess[s].hook /\ ~ sess[s].routed
        /\ sess[s].at = "slot" /\ sess[s].late = "none"
    BY <1>4 DEF Fresh
  <2>3. /\ ~ e.hook /\ ~ e.routed /\ ~ e.hasty /\ e.tried = {} /\ e.at \in {"idle", "bind"}
        /\ e.late = "none"
        /\ e.at = "bind" <=> alloc[Hub].port # 0
        /\ e.at = "bind" => e.port \in Port
    <3>1. CASE alloc[Hub].port = 0
      <4>1. e = Fresh
        BY <1>6, <3>1
      <4> QED
        BY <3>1, <4>1 DEF Fresh
    <3>2. CASE alloc[Hub].port # 0
      <4>1. alloc[Hub].port \in Port
        BY <1>2, <3>2 DEF Port
      <4> QED
        BY <1>4, <1>6, <2>2, <3>2, <4>1
    <3> QED
      BY <3>1, <3>2
  <2>4. Course(s)'
    BY <1>4, <1>6, <1>7, <1>8, <2>3 DEF Course, Fresh
  <2>5. Stopping(s)' /\ Listening(s)'
    BY <1>1, <1>8, <2>1, <2>2, <2>3 DEF Stopping, Listening
  <2>6. Routed(s)'
    <3>1. routes[s] = None /\ routes' = routes
      BY <1>1, <2>1, <2>2 DEF Routed
    <3> QED
      BY <1>8, <2>3, <3>1 DEF Routed
  <2> QED
    BY <1>8, <2>3, <2>4, <2>5, <2>6 DEF Kept
<1>13. Owning(s)'
  <2>1. \A p \in Port : files[p].owner = s => Pending(s, p)
    BY <1>1, <1>4, SessionHas DEF Owning, Fresh, Port
  <2>2. \A p \in Port : files[p].owner = s => p = alloc[Hub].port /\ alloc[Hub].port # 0
    BY <1>2, <2>1
  <2> QED
    BY <1>2, <1>6, <1>8, <2>2 DEF Owning
<1> QED
  BY <1>2, <1>3, <1>9, <1>10, <1>11, <1>12, <1>13, OthersKeep

\* The port is bound, or found bound and another asked for.
LEMMA BindKeeps ==
    ASSUME IInv, NEW s \in Preview, Bind(s) PROVE IInv'
<1> USE Constants
<1> DEFINE p == sess[s].port
           e == IF p # 0 /\ bound[p] # Nobody
                  THEN [sess[s] EXCEPT !.at = "advance", !.tried = @ \cup {p}]
                  ELSE [sess[s] EXCEPT !.at = "settle"]
<1>1. /\ sess[s].at = "bind" /\ stop' = stop /\ known' = known /\ mu' = mu /\ routes' = routes
      /\ left' = left /\ UNCHANGED pool
  BY DEF Bind
<1>2. /\ Becomes(s, e)
      /\ p = 0 => bound' = bound /\ stray' = stray \cup {s}
      /\ p # 0 /\ bound[p] = Nobody => bound' = [bound EXCEPT ![p] = s] /\ stray' = stray
      /\ p # 0 /\ bound[p] # Nobody => bound' = bound /\ stray' = stray
  BY DEF Bind, Goes
<1>3. /\ sess[s] \in Sessions /\ (p # 0 => p \in Port)
      /\ bound \in [Port -> Preview \cup {Nobody, Stranger}]
  <2>1. sess[s] \in Sessions /\ p \in 0..NPorts
    BY SessionHas DEF Sessions
  <2> QED
    BY <2>1 DEF IInv, SessionTypes, Port
<1>4. /\ e \in Sessions /\ e.port = p /\ e.hasty = sess[s].hasty
         /\ e.kept = sess[s].kept /\ e.late = sess[s].late /\ e.hook = sess[s].hook
      /\ e.routed = sess[s].routed /\ e.at \in {"settle", "advance"}
      /\ e.at = "settle" => (p = 0 \/ bound[p] = Nobody) /\ e.tried = sess[s].tried
      /\ e.at = "advance" => p # 0 /\ bound[p] # Nobody /\ e.tried = sess[s].tried \cup {p}
  <2>1. CASE p # 0 /\ bound[p] # Nobody
    BY <1>3, <2>1 DEF Sessions, Stages
  <2>2. CASE ~ (p # 0 /\ bound[p] # Nobody)
    BY <1>3, <2>2 DEF Sessions, Stages
  <2> QED
    BY <2>1, <2>2
<1>5. /\ bound' \in [Port -> Preview \cup {Nobody, Stranger}]
      /\ \A t \in Preview \ {s} : \A q \in Port : bound'[q] = t <=> bound[q] = t
  BY <1>2, <1>3
<1> HIDE DEF e, p
<1>6. sess'[s] = e /\ \A t \in Owner : t # s => sess'[t] = sess[t]
  BY <1>2, <1>4, BecomesHas DEF IInv
<1>7. /\ PoolTypes' /\ alloc' = alloc
      /\ \A q \in Port : \A t \in Owner : /\ files'[q].owner = t => files[q].owner = t
                                          /\ Pending(t, q) => Pending(t, q)'
  BY <1>1, PoolQuiet DEF IInv
<1>8. Callers'
  BY <1>1, <1>2, <1>4, <1>7, CallersStay
<1>9. Apart(s)
  BY <1>1, <1>2, <1>5, <1>6, <1>7 DEF Apart, p
<1>10. Kept(s)'
  <2> SUFFICES ASSUME ~ sess[s].hasty PROVE Course(s)' /\ Stopping(s)' /\ Listening(s)' /\ Routed(s)'
    BY <1>4, <1>6 DEF Kept
  <2>1. Course(s) /\ Stopping(s) /\ Listening(s) /\ Routed(s)
    BY SessionHas DEF Kept
  <2>2. p \in Port /\ ~ sess[s].hook /\ ~ sess[s].routed /\ stop[s].at = "none"
    BY <1>1, <2>1 DEF Course, Stopping, Listening, p
  <2>3. Course(s)'
    BY <1>1, <1>4, <1>6, <2>1, <2>2 DEF Course
  <2>4. Stopping(s)'
    BY <1>1, <1>4, <1>6, <2>1, <2>2 DEF Stopping
  <2>5. Listening(s)'
    BY <1>1, <1>2, <1>3, <1>4, <1>6, <2>1, <2>2 DEF Listening
  <2>6. Routed(s)'
    BY <1>1, <1>4, <1>6, <2>1, <2>2 DEF Routed
  <2> QED
    BY <2>3, <2>4, <2>5, <2>6
<1>11. Owning(s)'
  BY <1>1, <1>4, <1>6, <1>7, SessionHas DEF Owning, p
<1> QED
  BY <1>1, <1>2, <1>4, <1>5, <1>7, <1>8, <1>9, <1>10, <1>11, MoveKeeps
  DEF IInv, SessionTypes, p

\* Another port, or none.
LEMMA AdvanceKeeps ==
    ASSUME IInv, NEW s \in Preview, Advance(s) PROVE IInv'
<1> USE Constants
<1> DEFINE e == IF alloc[Hub].port = 0 THEN [sess[s] EXCEPT !.at = "giveup"]
                ELSE [sess[s] EXCEPT !.at = "bind", !.port = alloc[Hub].port]
<1>1. /\ sess[s].at = "advance" /\ Answers(Hub, s) /\ Hangup(Hub) /\ Becomes(s, e)
      /\ stop' = stop /\ known' = known /\ mu' = mu /\ bound' = bound /\ stray' = stray
      /\ routes' = routes /\ left' = left
  BY DEF Advance, Goes
<1>2. /\ PoolTypes' /\ alloc'[Hub] = NoCall /\ files' = files
      /\ \A b \in Proc : b # Hub => alloc'[b] = alloc[b]
      /\ alloc[Hub].port \in 0..NPorts
      /\ \A t \in Preview \ {s} : \A p \in Port : ~ Pending(t, p)
      /\ \A p \in Port : Pending(s, p) => p = alloc[Hub].port
  BY <1>1, PoolAnswered
<1>3. Callers'
  BY <1>2, AnsweredCallers
<1>4. /\ e \in Sessions /\ e.hasty = sess[s].hasty
         /\ e.kept = sess[s].kept /\ e.late = sess[s].late /\ e.tried = sess[s].tried
      /\ e.hook = sess[s].hook /\ e.routed = sess[s].routed /\ e.at \in {"giveup", "bind"}
      /\ e.at = "bind" => e.port = alloc[Hub].port /\ alloc[Hub].port \in Port
      /\ e.at = "giveup" => e.port = sess[s].port /\ alloc[Hub].port = 0
  <2>1. sess[s] \in Sessions /\ (alloc[Hub].port # 0 => alloc[Hub].port \in Port)
    BY <1>2, SessionHas DEF Port
  <2>2. CASE alloc[Hub].port = 0
    BY <2>1, <2>2 DEF Sessions, Stages
  <2>3. CASE alloc[Hub].port # 0
    BY <1>2, <2>1, <2>3 DEF Sessions, Stages
  <2> QED
    BY <2>2, <2>3
<1> HIDE DEF e
<1>5. sess'[s] = e /\ \A t \in Owner : t # s => sess'[t] = sess[t]
  BY <1>1, <1>4, BecomesHas DEF IInv
<1>6. Apart(s)
  BY <1>1, <1>2, <1>5 DEF Apart
<1>7. ~ sess[s].hasty => Course(s) /\ Stopping(s) /\ Listening(s) /\ Routed(s)
                         /\ sess[s].port \in Port /\ sess[s].port \in sess[s].tried
                         /\ ~ sess[s].hook /\ ~ sess[s].routed
  BY <1>1, SessionHas DEF Kept, Course, Listening
<1>8. Kept(s)'
  <2> SUFFICES ASSUME ~ sess[s].hasty PROVE Course(s)' /\ Stopping(s)' /\ Listening(s)' /\ Routed(s)'
    BY <1>4, <1>5 DEF Kept
  <2>1. Course(s)'
    BY <1>1, <1>4, <1>5, <1>7 DEF Course
  <2>2. Stopping(s)' /\ Listening(s)' /\ Routed(s)'
    BY <1>1, <1>4, <1>5, <1>7 DEF Stopping, Listening, Routed
  <2> QED
    BY <2>1, <2>2
<1>9. Owning(s)'
  <2> SUFFICES ASSUME ~ sess[s].hasty, NEW p \in Port, files[p].owner = s
               PROVE  p = e.port \/ p \in e.tried \cup e.kept
    BY <1>2, <1>4, <1>5 DEF Owning
  <2>1. p = sess[s].port \/ p \in sess[s].tried \cup sess[s].kept \/ Pending(s, p)
    BY <1>1, SessionHas DEF Owning
  <2> QED
    BY <1>2, <1>4, <1>7, <2>1
<1>10. ~ e.hasty /\ e.port # 0 => ~ sess[s].hasty /\ sess[s].port # 0
  BY <1>4, <1>7
<1> QED
  BY <1>1, <1>2, <1>3, <1>4, <1>6, <1>8, <1>9, <1>10, MoveKeeps DEF IInv, SessionTypes

\* A step inside the hub that moves a launch on: no port, no listener, no route.
LEMMA OnwardKeeps ==
    ASSUME IInv, NEW s \in Preview, NEW e \in Sessions, Becomes(s, e),
           UNCHANGED pool \/ (\E c \in Proc : \E p : Release(c, p)),
           UNCHANGED <<stop, mu, bound, stray, routes>>, known' \in {known, known \ {s}},
           left'.cap = left.cap,
           left' \in Bounds,
           sess[s].at \notin {"slot", "advance"}, e.at # "slot",
           s \in known' /\ ~ e.hasty /\ e.port # 0 => ~ sess[s].hasty /\ sess[s].port # 0,
           Kept(s)', Owning(s)'
    PROVE  IInv'
<1>1. sess'[s] = e /\ \A t \in Owner : t # s => sess'[t] = sess[t]
  BY Constants, BecomesHas DEF IInv
<1>2. /\ PoolTypes' /\ alloc' = alloc
      /\ \A p \in Port : \A t \in Owner : /\ files'[p].owner = t => files[p].owner = t
                                          /\ Pending(t, p) => Pending(t, p)'
  BY PoolQuiet DEF IInv
<1>3. Callers'
  BY <1>2, Constants, CallersStay
<1>4. Apart(s)
  BY <1>1, <1>2, Constants DEF Apart
<1> QED
  BY <1>2, <1>3, <1>4, MoveKeeps DEF IInv, SessionTypes

LEMMA Leftover ==
    ASSUME IInv, UNCHANGED left \/ Spend("snags") \/ Spend("hasty") \/ Spend("squats") \/ Spend("deaths")
    PROVE  /\ left'.cap = left.cap
           /\ left' \in Bounds
BY DEF IInv, SessionTypes, Bounds, Spend

LEMMA BindFailsKeeps ==
    ASSUME IInv, NEW s \in Preview, BindFails(s) PROVE IInv'
<1> DEFINE e == [sess[s] EXCEPT !.at = "giveup"]
<1>1. Becomes(s, e) /\ sess[s].at = "bind" /\ known' = known
      /\ UNCHANGED <<pool, stop, mu, bound, stray, routes>>
  BY DEF BindFails, Goes
<1>2. /\ e \in Sessions /\ e.at = "giveup" /\ e.port = sess[s].port /\ e.tried = sess[s].tried
      /\ e.hook = sess[s].hook /\ e.routed = sess[s].routed /\ e.hasty = sess[s].hasty
         /\ e.kept = sess[s].kept /\ e.late = sess[s].late
  BY SessionHas DEF Sessions, Stages
<1> HIDE DEF e
<1>3. sess'[s] = e
  BY <1>1, <1>2, Constants, BecomesHas DEF IInv
<1>4. Kept(s)'
  <2> SUFFICES ASSUME ~ sess[s].hasty PROVE Course(s)' /\ Stopping(s)' /\ Listening(s)' /\ Routed(s)'
    BY <1>2, <1>3 DEF Kept
  <2>1. Course(s) /\ Stopping(s) /\ Listening(s) /\ Routed(s)
    BY SessionHas DEF Kept
  <2>2. ~ sess[s].hook /\ ~ sess[s].routed /\ stop[s].at = "none"
    BY <1>1, <2>1 DEF Course, Stopping, Listening
  <2>3. Course(s)'
    BY <1>1, <1>2, <1>3, <2>1, <2>2 DEF Course
  <2>4. Stopping(s)'
    BY <1>1, <1>2, <1>3, <2>1, <2>2 DEF Stopping
  <2>5. Listening(s)'
    BY <1>1, <1>2, <1>3, <2>1, <2>2 DEF Listening
  <2>6. Routed(s)'
    BY <1>1, <1>2, <1>3, <2>1, <2>2 DEF Routed
  <2> QED
    BY <2>3, <2>4, <2>5, <2>6
<1>5. Owning(s)'
  BY <1>1, <1>2, <1>3, SessionHas, PoolStays DEF Owning, Pending
<1>6. /\ left'.cap = left.cap
      /\ left' \in Bounds
  BY Leftover DEF BindFails, Snag
<1> QED
  BY <1>1, <1>2, <1>4, <1>5, <1>6, OnwardKeeps

\* A port found bound goes back.
LEMMA LetGoKeeps ==
    ASSUME IInv, NEW s \in Preview, NEW p \in Port, LetGo(s, p) PROVE IInv'
<1> DEFINE e == [sess[s] EXCEPT !.tried = @ \ {p}]
<1>1. Becomes(s, e) /\ sess[s].at \in {"settle", "giveup"} /\ Release(Hub, p) /\ left' = left
      /\ known' = known /\ UNCHANGED <<stop, mu, bound, stray, routes>>
  BY DEF LetGo
<1>2. /\ e \in Sessions /\ e.at = sess[s].at /\ e.port = sess[s].port
      /\ e.tried = sess[s].tried \ {p}
      /\ e.hook = sess[s].hook /\ e.routed = sess[s].routed /\ e.hasty = sess[s].hasty
         /\ e.kept = sess[s].kept /\ e.late = sess[s].late
  BY SessionHas DEF Sessions, Stages
<1> HIDE DEF e
<1>3. sess'[s] = e
  BY <1>1, <1>2, Constants, BecomesHas DEF IInv
<1>4. Kept(s)'
  <2> SUFFICES ASSUME ~ sess[s].hasty PROVE Course(s)' /\ Stopping(s)' /\ Listening(s)' /\ Routed(s)'
    BY <1>1, <1>2, <1>3 DEF Kept
  <2>1. Course(s) /\ Stopping(s) /\ Listening(s) /\ Routed(s)
    BY SessionHas DEF Kept
  <2>2. ~ sess[s].hook /\ ~ sess[s].routed /\ stop[s].at = "none"
    BY <1>1, <2>1 DEF Course, Stopping, Listening
  <2>3. Course(s)'
    BY <1>1, <1>2, <1>3, <2>1, <2>2 DEF Course
  <2>4. Stopping(s)'
    BY <1>1, <1>2, <1>3, <2>1, <2>2 DEF Stopping
  <2>5. Listening(s)'
    BY <1>1, <1>2, <1>3, <2>1, <2>2 DEF Listening
  <2>6. Routed(s)'
    BY <1>1, <1>2, <1>3, <2>1, <2>2 DEF Routed
  <2> QED
    BY <2>3, <2>4, <2>5, <2>6
<1>5. Owning(s)'
  <2>1. /\ alloc' = alloc
        /\ \A q \in Port : files'[q].owner = IF q = p THEN Nobody ELSE files[q].owner
    BY <1>1, Constants, ReleaseIs DEF IInv
  <2>2. s # Nobody
    BY Constants
  <2> QED
    BY <1>1, <1>2, <1>3, <2>1, <2>2, SessionHas DEF Owning, Pending
<1>6. \E c \in Proc : \E q : Release(c, q)
  BY <1>1, Constants
<1>7. /\ left'.cap = left.cap
      /\ left' \in Bounds
  BY <1>1, Leftover
<1> QED
  BY <1>1, <1>2, <1>4, <1>5, <1>6, <1>7, OnwardKeeps

\* One that cannot go back is remembered.
LEMMA LetGoFailsKeeps ==
    ASSUME IInv, NEW s \in Preview, NEW p \in Port, LetGoFails(s, p) PROVE IInv'
<1> DEFINE e == [sess[s] EXCEPT !.tried = @ \ {p}, !.kept = @ \cup {p}]
<1>1. Becomes(s, e) /\ sess[s].at \in {"settle", "giveup"} /\ Spend("snags")
      /\ known' = known /\ UNCHANGED <<stop, mu, bound, stray, routes>>
  BY DEF LetGoFails, Snag
<1>2. /\ e \in Sessions /\ e.at = sess[s].at /\ e.port = sess[s].port
      /\ e.tried = sess[s].tried \ {p} /\ e.kept = sess[s].kept \cup {p}
      /\ e.hook = sess[s].hook /\ e.routed = sess[s].routed
      /\ e.hasty = sess[s].hasty /\ e.late = sess[s].late
  BY SessionHas DEF Sessions, Stages
<1> HIDE DEF e
<1>3. sess'[s] = e
  BY <1>1, <1>2, Constants, BecomesHas DEF IInv
<1>4. Kept(s)'
  <2> SUFFICES ASSUME ~ sess[s].hasty PROVE Course(s)' /\ Stopping(s)' /\ Listening(s)' /\ Routed(s)'
    BY <1>1, <1>2, <1>3 DEF Kept
  <2>1. Course(s) /\ Stopping(s) /\ Listening(s) /\ Routed(s)
    BY SessionHas DEF Kept
  <2>2. ~ sess[s].hook /\ ~ sess[s].routed /\ stop[s].at = "none"
    BY <1>1, <2>1 DEF Course, Stopping, Listening
  <2>3. Course(s)'
    BY <1>1, <1>2, <1>3, <2>1, <2>2 DEF Course
  <2>4. Stopping(s)'
    BY <1>1, <1>2, <1>3, <2>1, <2>2 DEF Stopping
  <2>5. Listening(s)'
    BY <1>1, <1>2, <1>3, <2>1, <2>2 DEF Listening
  <2>6. Routed(s)'
    BY <1>1, <1>2, <1>3, <2>1, <2>2 DEF Routed
  <2> QED
    BY <2>3, <2>4, <2>5, <2>6
<1>5. UNCHANGED pool /\ files' = files /\ alloc' = alloc
  BY Constants, ReleaseFailsIs DEF IInv, LetGoFails
<1>6. Owning(s)'
  BY <1>2, <1>3, <1>5, SessionHas DEF Owning, Pending
<1>7. left'.cap = left.cap /\ left' \in Bounds
  BY <1>1, Leftover
<1> QED
  BY <1>1, <1>2, <1>4, <1>5, <1>6, <1>7, OnwardKeeps

\* Its address is the port it listens on.
LEMMA ServeKeeps ==
    ASSUME IInv, NEW s \in Preview, Serve(s) PROVE IInv'
<1> DEFINE e == [sess[s] EXCEPT !.at = "route", !.addr = sess[s].port, !.hook = TRUE]
<1>1. Becomes(s, e) /\ sess[s].at = "settle" /\ sess[s].tried = {} /\ left' = left
      /\ known' = known /\ UNCHANGED <<pool, stop, mu, bound, stray, routes>>
  BY DEF Serve
<1>2. /\ e \in Sessions /\ e.at = "route" /\ e.port = sess[s].port /\ e.addr = sess[s].port
      /\ e.tried = {} /\ e.hook /\ e.routed = sess[s].routed /\ e.hasty = sess[s].hasty
         /\ e.kept = sess[s].kept /\ e.late = sess[s].late
  BY <1>1, SessionHas DEF Sessions, Stages
<1> HIDE DEF e
<1>3. sess'[s] = e
  BY <1>1, <1>2, Constants, BecomesHas DEF IInv
<1>4. Kept(s)'
  <2> SUFFICES ASSUME ~ sess[s].hasty PROVE Course(s)' /\ Stopping(s)' /\ Listening(s)' /\ Routed(s)'
    BY <1>2, <1>3 DEF Kept
  <2>1. Course(s) /\ Stopping(s) /\ Listening(s) /\ Routed(s)
    BY SessionHas DEF Kept
  <2>2. ~ sess[s].routed /\ stop[s].at = "none" /\ sess[s].port \in Port /\ bound[sess[s].port] = s
    BY <1>1, <2>1 DEF Course, Stopping, Listening
  <2>3. Course(s)'
    BY <1>1, <1>2, <1>3, <2>1, <2>2 DEF Course
  <2>4. Stopping(s)'
    BY <1>1, <1>2, <1>3, <2>1, <2>2 DEF Stopping
  <2>5. Listening(s)'
    BY <1>1, <1>2, <1>3, <2>1, <2>2 DEF Listening
  <2>6. Routed(s)'
    BY <1>1, <1>2, <1>3, <2>1, <2>2 DEF Routed
  <2> QED
    BY <2>3, <2>4, <2>5, <2>6
<1>5. Owning(s)'
  BY <1>1, <1>2, <1>3, SessionHas, PoolStays DEF Owning, Pending
<1>6. /\ left'.cap = left.cap
      /\ left' \in Bounds
  BY <1>1, Leftover
<1> QED
  BY <1>1, <1>2, <1>4, <1>5, <1>6, OnwardKeeps

\* The route is set to the address.
LEMMA GoLiveKeeps ==
    ASSUME IInv, NEW s \in Preview, GoLive(s) PROVE IInv'
<1> USE Constants
<1> DEFINE e == [sess[s] EXCEPT !.at = "live", !.routed = TRUE]
<1>1. /\ Becomes(s, e) /\ sess[s].at = "route" /\ routes' = [routes EXCEPT ![s] = sess[s].addr]
      /\ stop' = stop /\ known' = known /\ mu' = mu /\ bound' = bound /\ stray' = stray
      /\ left' = left /\ UNCHANGED pool
  BY DEF GoLive
<1>2. /\ e \in Sessions /\ e.at = "live" /\ e.port = sess[s].port /\ e.addr = sess[s].addr
      /\ e.tried = sess[s].tried /\ e.hook = sess[s].hook /\ e.routed /\ e.hasty = sess[s].hasty
         /\ e.kept = sess[s].kept /\ e.late = sess[s].late
  BY ZenonT(60), SessionHas DEF Sessions, Stages
<1> HIDE DEF e
<1>3. sess'[s] = e /\ \A t \in Owner : t # s => sess'[t] = sess[t]
  BY <1>1, <1>2, BecomesHas DEF IInv
<1>4. /\ routes' \in [Preview -> 0..None] /\ routes'[s] = sess[s].addr
      /\ \A t \in Preview \ {s} : routes'[t] = routes[t]
  <2>1. sess[s].addr \in 0..None
    BY SessionHas DEF Sessions, None
  <2> QED
    BY <1>1, <2>1 DEF IInv, SessionTypes
<1>5. /\ PoolTypes' /\ alloc' = alloc
      /\ \A q \in Port : \A t \in Owner : /\ files'[q].owner = t => files[q].owner = t
                                          /\ Pending(t, q) => Pending(t, q)'
  BY <1>1, PoolQuiet DEF IInv
<1>6. Callers'
  BY <1>1, <1>2, <1>5, CallersStay
<1>7. Apart(s)
  BY <1>1, <1>3, <1>4, <1>5 DEF Apart
<1>8. Kept(s)'
  <2> SUFFICES ASSUME ~ sess[s].hasty PROVE Course(s)' /\ Stopping(s)' /\ Listening(s)' /\ Routed(s)'
    BY <1>2, <1>3 DEF Kept
  <2>1. Course(s) /\ Stopping(s) /\ Listening(s) /\ Routed(s)
    BY SessionHas DEF Kept
  <2>2. stop[s].at = "none" /\ sess[s].tried = {} /\ sess[s].hook
    BY <1>1, <2>1 DEF Course, Stopping, Listening
  <2>3. Course(s)'
    BY <1>1, <1>2, <1>3, <2>1, <2>2 DEF Course
  <2>4. Stopping(s)'
    BY <1>1, <1>2, <1>3, <2>1, <2>2 DEF Stopping
  <2>5. Listening(s)'
    BY <1>1, <1>2, <1>3, <2>1, <2>2 DEF Listening
  <2>6. Routed(s)'
    <3>1. e.late = "none"
      BY <1>1, <1>2, <2>1, <2>2, SessionHas DEF Routed, Sessions
    <3> QED
      BY <1>2, <1>3, <1>4, <3>1 DEF Routed
  <2> QED
    BY <2>3, <2>4, <2>5, <2>6
<1>9. Owning(s)'
  BY <1>1, <1>2, <1>3, <1>5, SessionHas DEF Owning
<1> QED
  BY <1>1, <1>2, <1>4, <1>5, <1>6, <1>7, <1>8, <1>9, MoveKeeps DEF IInv, SessionTypes

\* Closing a session's listeners leaves the others'.
LEMMA UnbindIs ==
    ASSUME SessionTypes, NEW s \in Preview, Unbind(s)
    PROVE  /\ bound' \in [Port -> Preview \cup {Nobody, Stranger}]
           /\ \A p \in Port : bound'[p] # s
           /\ \A p \in Port : \A t \in Preview \ {s} : bound'[p] = t <=> bound[p] = t
           /\ stray' = stray \ {s}
BY Constants DEF SessionTypes, Unbind

\* The server is closed before the slot is given up.
LEMMA RouteFailsKeeps ==
    ASSUME IInv, NEW s \in Preview, RouteFails(s) PROVE IInv'
<1> USE Constants
<1> DEFINE e == [sess[s] EXCEPT !.at = "giveup", !.hook = FALSE, !.late = "add"]
<1>1. /\ Becomes(s, e) /\ sess[s].at = "route"
      /\ \E r \in {routes[s], None, sess[s].addr} : routes' = [routes EXCEPT ![s] = r]
      /\ stop' = stop /\ known' = known /\ mu' = mu /\ UNCHANGED pool
      /\ sess[s].hook => Unbind(s)
      /\ ~ sess[s].hook => bound' = bound /\ stray' = stray
  BY DEF RouteFails
<1>2. /\ e \in Sessions /\ e.at = "giveup" /\ e.port = sess[s].port /\ e.addr = sess[s].addr
      /\ e.tried = sess[s].tried /\ ~ e.hook /\ e.routed = sess[s].routed
      /\ e.hasty = sess[s].hasty
         /\ e.kept = sess[s].kept /\ e.late = "add"
  BY SessionHas DEF Sessions, Stages
<1> HIDE DEF e
<1>3. sess'[s] = e /\ \A t \in Owner : t # s => sess'[t] = sess[t]
  BY <1>1, <1>2, BecomesHas DEF IInv
<1>4. /\ bound' \in [Port -> Preview \cup {Nobody, Stranger}]
      /\ \A p \in Port : \A t \in Preview \ {s} : bound'[p] = t <=> bound[p] = t
      /\ stray' \subseteq stray
      /\ sess[s].hook => \A p \in Port : bound'[p] # s
  BY <1>1, UnbindIs DEF IInv, SessionTypes
<1>11. /\ routes' \in [Preview -> 0..None]
       /\ \A t \in Preview \ {s} : routes'[t] = routes[t]
  <2>1. routes[s] \in 0..None /\ None \in 0..None /\ sess[s].addr \in 0..None
    BY SessionHas DEF SessionTypes, Sessions, None
  <2> QED
    BY <1>1, <2>1 DEF IInv, SessionTypes
<1>5. /\ PoolTypes' /\ alloc' = alloc
      /\ \A q \in Port : \A t \in Owner : /\ files'[q].owner = t => files[q].owner = t
                                          /\ Pending(t, q) => Pending(t, q)'
  BY <1>1, PoolQuiet DEF IInv
<1>6. Callers'
  BY <1>1, <1>2, <1>5, CallersStay
<1>7. Apart(s)
  BY <1>1, <1>3, <1>4, <1>5, <1>11 DEF Apart
<1>8. Kept(s)'
  <2> SUFFICES ASSUME ~ sess[s].hasty PROVE Course(s)' /\ Stopping(s)' /\ Listening(s)' /\ Routed(s)'
    BY <1>2, <1>3 DEF Kept
  <2>1. Course(s) /\ Stopping(s) /\ Listening(s) /\ Routed(s)
    BY SessionHas DEF Kept
  <2>2. stop[s].at = "none" /\ sess[s].tried = {} /\ sess[s].hook /\ ~ sess[s].routed
    BY <1>1, <2>1 DEF Course, Stopping, Listening
  <2>3. Course(s)'
    BY <1>1, <1>2, <1>3, <2>1, <2>2 DEF Course
  <2>4. Stopping(s)'
    BY <1>1, <1>2, <1>3, <2>1, <2>2 DEF Stopping
  <2>5. Listening(s)'
    BY <1>1, <1>2, <1>3, <1>4, <2>1, <2>2 DEF Listening
  <2>6. Routed(s)'
    BY <1>2, <1>3 DEF Routed
  <2> QED
    BY <2>3, <2>4, <2>5, <2>6
<1>9. Owning(s)'
  BY <1>1, <1>2, <1>3, <1>5, SessionHas DEF Owning
<1>10. /\ left'.cap = left.cap
       /\ left' \in Bounds
  BY Leftover DEF RouteFails, Snag
<1> QED
  BY <1>1, <1>2, <1>4, <1>5, <1>6, <1>7, <1>8, <1>9, <1>10, <1>11, MoveKeeps DEF IInv, SessionTypes

\* A route call that was given up is carried out.
LEMMA RouteLandsKeeps ==
    ASSUME IInv, NEW s \in Preview, RouteLands(s) PROVE IInv'
<1> USE Constants
<1> DEFINE r == IF sess[s].late = "add" THEN sess[s].addr ELSE None
<1>1. /\ sess[s].late \in {"add", "remove"} /\ routes' = [routes EXCEPT ![s] = r] /\ sess' = sess
      /\ stop' = stop /\ known' = known /\ mu' = mu /\ bound' = bound /\ stray' = stray
      /\ left' = left /\ UNCHANGED pool
  BY SessionHas DEF RouteLands, Sessions
<1>2. r \in 0..None /\ (sess[s].late = "remove" => r = None)
  BY <1>1, SessionHas DEF Sessions, None
<1> HIDE DEF r
<1>3. /\ routes' \in [Preview -> 0..None] /\ routes'[s] = r
      /\ \A t \in Preview \ {s} : routes'[t] = routes[t]
  BY <1>1, <1>2 DEF IInv, SessionTypes
<1>4. PoolTypes' /\ files' = files /\ alloc' = alloc
  BY <1>1, PoolStays DEF IInv
<1>5. SessionTypes' /\ Slots' /\ Callers'
  BY <1>1, <1>3, <1>4 DEF IInv, SessionTypes, Slots, Callers, Counted, Holding
<1>6. Apart(s)
  BY <1>1, <1>3, <1>4 DEF Apart, Pending
<1>7. Kept(s)'
  <2> SUFFICES ASSUME ~ sess[s].hasty PROVE Course(s)' /\ Stopping(s)' /\ Listening(s)' /\ Routed(s)'
    BY <1>1, SessionHas DEF Kept
  <2>1. Course(s) /\ Stopping(s) /\ Listening(s) /\ Routed(s)
    BY SessionHas DEF Kept
  <2>2. Course(s)' /\ Stopping(s)' /\ Listening(s)'
    BY <1>1, <2>1 DEF Course, Stopping, Listening
  <2>3. ~ (sess[s].at = "live" /\ sess[s].hook)
    BY <1>1, <2>1 DEF Routed
  <2>4. Routed(s)'
    BY <1>1, <1>2, <1>3, <2>1, <2>3 DEF Routed
  <2> QED
    BY <2>2, <2>4
<1>8. Owning(s)'
  BY <1>1, <1>4, SessionHas DEF Owning, Pending
<1> QED
  BY <1>4, <1>5, <1>6, <1>7, <1>8, OthersKeep

\* Out of the map, the port still to be returned.
LEMMA UnreserveKeeps ==
    ASSUME IInv, NEW s \in Preview, Unreserve(s) PROVE IInv'
<1> DEFINE e == [sess[s] EXCEPT !.at = "return"]
<1>1. Becomes(s, e) /\ sess[s].at = "giveup" /\ sess[s].tried = {} /\ left' = left
      /\ known' = known \ {s} /\ UNCHANGED <<pool, stop, mu, bound, stray, routes>>
  BY DEF Unreserve, Goes
<1>2. /\ e \in Sessions /\ e.at = "return" /\ e.port = sess[s].port /\ e.tried = sess[s].tried
      /\ e.hook = sess[s].hook /\ e.routed = sess[s].routed /\ e.hasty = sess[s].hasty
         /\ e.kept = sess[s].kept /\ e.late = sess[s].late
  BY SessionHas DEF Sessions, Stages
<1> HIDE DEF e
<1>3. sess'[s] = e
  BY <1>1, <1>2, Constants, BecomesHas DEF IInv
<1>4. Kept(s)'
  <2> SUFFICES ASSUME ~ sess[s].hasty PROVE Course(s)' /\ Stopping(s)' /\ Listening(s)' /\ Routed(s)'
    BY <1>2, <1>3 DEF Kept
  <2>1. Course(s) /\ Stopping(s) /\ Listening(s) /\ Routed(s)
    BY SessionHas DEF Kept
  <2>2. ~ sess[s].hook /\ ~ sess[s].routed /\ stop[s].at = "none"
    BY <1>1, <2>1 DEF Course, Stopping, Listening
  <2>3. Course(s)'
    BY <1>1, <1>2, <1>3, <2>1, <2>2 DEF Course
  <2>4. Stopping(s)'
    BY <1>1, <1>2, <1>3, <2>1, <2>2 DEF Stopping
  <2>5. Listening(s)'
    BY <1>1, <1>2, <1>3, <2>1, <2>2 DEF Listening
  <2>6. Routed(s)'
    BY <1>1, <1>2, <1>3, <2>1, <2>2 DEF Routed
  <2> QED
    BY <2>3, <2>4, <2>5, <2>6
<1>5. Owning(s)'
  BY <1>1, <1>2, <1>3, SessionHas, PoolStays DEF Owning, Pending
<1>6. /\ left'.cap = left.cap
      /\ left' \in Bounds
  BY <1>1, Leftover
<1> QED
  BY <1>1, <1>2, <1>4, <1>5, <1>6, OnwardKeeps

\* How a session ends: with what its failed calls leave, or as a fresh one.
EndsAs(e, d) ==
    /\ e.at \in {"idle", "over"} /\ e.port = 0 /\ e.tried = {} /\ ~ e.hook /\ ~ e.routed
    /\ e.at = "idle" => e = Fresh
    /\ e.hasty = d.hasty /\ e.kept = d.kept
    /\ e.late \in {"none", "add", "remove"} /\ (e.late = "add" <=> d.late = "add")

LEMMA OverIs ==
    ASSUME NEW d \in Sessions PROVE Over(d) \in Sessions /\ EndsAs(Over(d), d)
<1> DEFINE o == [Fresh EXCEPT !.at = "over", !.addr = d.addr, !.hasty = d.hasty,
                              !.kept = d.kept, !.late = d.late]
<1>1. /\ Fresh \in Sessions /\ Fresh.at = "idle" /\ Fresh.port = 0 /\ Fresh.tried = {}
      /\ ~ Fresh.hook /\ ~ Fresh.routed /\ Fresh.hasty = FALSE /\ Fresh.kept = {}
      /\ Fresh.late = "none"
  BY Constants DEF Fresh, Sessions, Stages
<1>2. /\ o \in Sessions /\ o.at = "over" /\ o.port = 0 /\ o.tried = {} /\ ~ o.hook /\ ~ o.routed
      /\ o.hasty = d.hasty /\ o.kept = d.kept /\ o.late = d.late
  BY <1>1 DEF Sessions, Stages
<1>3. d.hasty \in BOOLEAN /\ d.late \in {"none", "add", "remove"}
  BY DEF Sessions
<1> HIDE DEF o
<1>4. CASE d.hasty \/ d.kept # {} \/ d.late = "add"
  <2>1. Over(d) = o
    BY <1>4 DEF Over, o
  <2> QED
    BY <1>2, <1>3, <2>1 DEF EndsAs
<1>5. CASE ~ (d.hasty \/ d.kept # {} \/ d.late = "add")
  <2>1. Over(d) = Fresh
    BY <1>5 DEF Over
  <2> QED
    BY <1>1, <1>3, <1>5, <2>1 DEF EndsAs
<1> QED
  BY <1>4, <1>5

\* It is well formed when nothing of it is left elsewhere.
LEMMA EndedKeeps ==
    ASSUME NEW s \in Preview, NEW e, NEW d, EndsAs(e, d), sess'[s] = e, ~ e.hasty,
           stop'[s].at = "none", s \notin known', s \notin stray',
           \A p \in Port : bound'[p] # s, routes'[s] = None \/ e.late = "add"
    PROVE  Kept(s)'
<1>1. Course(s)'
  BY DEF Course, EndsAs, Fresh
<1>2. Stopping(s)' /\ Listening(s)'
  BY DEF Stopping, Listening, EndsAs
<1>3. e.at = "idle" => e.late = "none"
  BY DEF EndsAs, Fresh
<1>4. Routed(s)'
  BY <1>3 DEF Routed, EndsAs
<1> QED
  BY <1>1, <1>2, <1>4 DEF Kept, EndsAs

\* The slot is given up: the port returned, or kept in the session's name.
LEMMA GivesUp ==
    ASSUME IInv, NEW s \in Preview, NEW d \in Sessions, sess[s].at = "return",
           Becomes(s, Over(d)), d.hasty = sess[s].hasty, d.late = sess[s].late,
           UNCHANGED <<known, stop, mu, bound, stray, routes>>,
           UNCHANGED left \/ Spend("snags"),
           UNCHANGED pool \/ (\E c \in Proc : \E p : Release(c, p)),
           \A p \in Port : files'[p].owner = s =>
                p \in d.kept \/ ~ (p \in {sess[s].port} \cup sess[s].kept)
    PROVE  IInv'
<1> DEFINE e == Over(d)
<1>1. e \in Sessions /\ EndsAs(e, d)
  BY OverIs
<1>2. Becomes(s, e)
  OBVIOUS
<1> HIDE DEF e
<1>3. sess'[s] = e /\ e.at \in {"idle", "over"} /\ e.port = 0 /\ e.hasty = sess[s].hasty
  BY <1>1, <1>2, Constants, BecomesHas DEF IInv, EndsAs
<1>4. left'.cap = left.cap /\ left' \in Bounds
  BY Leftover
<1>5. CASE sess[s].hasty
  <2>1. e.hasty = TRUE /\ e.at \in {"idle", "over"}
    BY <1>1, <1>3, <1>5 DEF Sessions
  <2>2. e.at # "idle"
    BY <1>1, <2>1 DEF EndsAs, Fresh
  <2>3. Kept(s)' /\ Owning(s)'
    BY <1>3, <2>1, <2>2 DEF Kept, Owning
  <2> QED
    BY <1>1, <1>2, <1>3, <1>4, <2>3, OnwardKeeps
<1>6. CASE ~ sess[s].hasty
  <2>1. Course(s) /\ Stopping(s) /\ Listening(s) /\ Routed(s)
    BY <1>6, SessionHas DEF Kept
  <2>2. /\ ~ sess[s].hook /\ ~ sess[s].routed /\ stop[s].at = "none"
        /\ sess[s].tried = {} /\ s \notin known
        /\ routes[s] = None \/ sess[s].late = "add"
    BY <2>1 DEF Course, Stopping, Listening, Routed
  <2>3. stop'[s].at = "none" /\ s \notin known' /\ s \notin stray'
        /\ \A p \in Port : bound'[p] # s
    BY <2>1, <2>2 DEF Listening
  <2>4. Kept(s)'
    BY <1>1, <1>3, <1>6, <2>2, <2>3, EndedKeeps DEF EndsAs
  <2>5. Owning(s)'
    <3>1. \A p \in Port : ~ Pending(s, p)
      BY DEF IInv, Callers, Pending
    <3>2. \A p \in Port : files'[p].owner = s => files[p].owner = s
      BY PoolQuiet, Constants DEF IInv
    <3>3. \A p \in Port : files'[p].owner = s => p \in d.kept
      BY <1>6, <2>2, <3>1, <3>2, SessionHas DEF Owning
    <3> QED
      BY <1>1, <1>3, <3>3 DEF Owning, EndsAs
  <2> QED
    BY <1>1, <1>2, <1>3, <1>4, <1>6, <2>4, <2>5, OnwardKeeps
<1> QED
  BY <1>5, <1>6

LEMMA ReturnKeeps ==
    ASSUME IInv, NEW s \in Preview, Return(s) PROVE IInv'
<1>1. /\ Becomes(s, Over(sess[s])) /\ sess[s].at = "return"
      /\ UNCHANGED <<known, stop, mu, bound, stray, routes>> /\ UNCHANGED left
      /\ sess[s].port # 0 => Release(Hub, sess[s].port)
      /\ sess[s].port = 0 => UNCHANGED pool
  BY DEF Return, Ended
<1>2. UNCHANGED pool \/ (\E c \in Proc : \E p : Release(c, p))
  BY <1>1, Constants
<1>3. \A p \in Port : files'[p].owner = s => p # sess[s].port
  <2>1. CASE sess[s].port # 0
    <3>1. \A p \in Port : files'[p].owner = IF p = sess[s].port THEN Nobody ELSE files[p].owner
      BY <1>1, <2>1, Constants, ReleaseIs DEF IInv
    <3> QED
      BY <3>1, Constants
  <2>2. CASE sess[s].port = 0
    BY <2>2, Constants
  <2> QED
    BY <2>1, <2>2
<1>4. sess[s] \in Sessions
  BY SessionHas
<1> QED
  BY <1>1, <1>2, <1>3, <1>4, GivesUp

LEMMA ReturnFailsKeeps ==
    ASSUME IInv, NEW s \in Preview, ReturnFails(s) PROVE IInv'
<1> DEFINE d == [sess[s] EXCEPT !.kept = @ \cup {sess[s].port}]
<1>1. /\ Becomes(s, Over(d)) /\ sess[s].at = "return" /\ sess[s].port # 0
      /\ UNCHANGED <<known, stop, mu, bound, stray, routes>> /\ Spend("snags")
      /\ ReleaseFails(Hub)
  BY DEF ReturnFails, Snag
<1>2. /\ d \in Sessions /\ d.hasty = sess[s].hasty /\ d.late = sess[s].late
      /\ d.kept = sess[s].kept \cup {sess[s].port}
  <2>1. sess[s] \in Sessions /\ sess[s].port \in Port
    BY <1>1, SessionHas DEF Sessions, Port
  <2> QED
    BY <2>1 DEF Sessions
<1> HIDE DEF d
<1>3. UNCHANGED pool
  BY <1>1, Constants, ReleaseFailsIs DEF IInv
<1> QED
  BY <1>1, <1>2, <1>3, GivesUp

-----------------------------------------------------------------------------
(* Stop.                                                                    *)

\* A step of a stop moves it on, with what failed or not.
StopMoves(s) == \E x \in Stops : stop' = [stop EXCEPT ![s] = x]

LEMMA StopIs ==
    ASSUME IInv, NEW s \in Preview, NEW pc \in StopStages, StopAt(s, pc)
    PROVE  StopMoves(s) /\ stop'[s].at = pc /\ stop'[s].failed = stop[s].failed
<1> DEFINE x == [stop[s] EXCEPT !.at = pc]
<1>1. stop[s] \in Stops /\ stop \in [Preview -> Stops]
  BY DEF IInv, SessionTypes
<1>2. x \in Stops /\ x.at = pc /\ x.failed = stop[s].failed
  BY <1>1 DEF Stops
<1>3. stop' = [stop EXCEPT ![s] = x]
  BY DEF StopAt
<1> QED
  BY <1>1, <1>2, <1>3 DEF StopMoves

LEMMA StopFailsIs ==
    ASSUME IInv, NEW s \in Preview, NEW pc \in StopStages, StopFails(s, pc)
    PROVE  StopMoves(s) /\ stop'[s].at = pc /\ stop'[s].failed /\ Spend("snags")
BY DEF IInv, SessionTypes, StopFails, StopMoves, Stops, Snag

LEMMA StopEndsIs ==
    ASSUME IInv, NEW s \in Preview, stop' = [stop EXCEPT ![s] = NoStop]
    PROVE  StopMoves(s) /\ stop'[s].at = "none"
BY DEF IInv, SessionTypes, StopMoves, Stops, StopStages, NoStop

\* The session stays where it is in its course, or ends.
LEMMA StopKeeps ==
    ASSUME IInv, NEW s \in Preview, NEW e \in Sessions, Becomes(s, e), e.at # "slot",
           sess[s].at \in {"slot", "advance"} => e.at = sess[s].at,
           StopMoves(s),
           UNCHANGED pool \/ (\E c \in Proc : \E p : Release(c, p)),
           mu' = mu, known' \in {known, known \ {s}},
           UNCHANGED left \/ Spend("snags") \/ Spend("hasty"),
           UNCHANGED <<bound, stray>> \/ Unbind(s),
           \E q \in {routes[s], None} : routes' = [routes EXCEPT ![s] = q],
           s \in known' /\ ~ e.hasty /\ e.port # 0 => ~ sess[s].hasty /\ sess[s].port # 0,
           Kept(s)', Owning(s)'
    PROVE  IInv'
<1> USE Constants
<1>1. sess'[s] = e /\ \A t \in Owner : t # s => sess'[t] = sess[t]
  BY BecomesHas DEF IInv
<1>2. /\ PoolTypes' /\ alloc' = alloc
      /\ \A p \in Port : \A t \in Owner : /\ files'[p].owner = t => files[p].owner = t
                                          /\ Pending(t, p) => Pending(t, p)'
  BY PoolQuiet DEF IInv
<1>3. Callers'
  BY <1>2, CallersStay
<1>4. /\ stop' \in [Preview -> Stops]
      /\ \A t \in Preview \ {s} : stop'[t] = stop[t]
  BY DEF IInv, SessionTypes, StopMoves
<1>5. /\ routes' \in [Preview -> 0..None]
      /\ \A t \in Preview \ {s} : routes'[t] = routes[t]
  BY DEF IInv, SessionTypes, None
<1>6. /\ bound' \in [Port -> Preview \cup {Nobody, Stranger}]
      /\ \A t \in Preview \ {s} : /\ t \in stray' => t \in stray
                                  /\ \A p \in Port : bound'[p] = t <=> bound[p] = t
  BY UnbindIs DEF IInv, SessionTypes
<1>7. Apart(s)
  BY <1>1, <1>2, <1>4, <1>5, <1>6 DEF Apart
<1>8. /\ left'.cap = left.cap
      /\ left' \in Bounds
  BY Leftover
<1> QED
  BY <1>2, <1>3, <1>4, <1>5, <1>6, <1>7, <1>8, MoveKeeps

\* A route left alone.
LEMMA SameRoute ==
    ASSUME IInv, NEW s \in Preview, routes' = routes
    PROVE  \E q \in {routes[s], None} : routes' = [routes EXCEPT ![s] = q]
BY DEF IInv, SessionTypes

\* One that is launching is marked; a live one is as it was.
LEMMA StopBeginsKeeps ==
    ASSUME IInv, NEW s \in Preview, StopBegins(s) PROVE IInv'
<1> USE Constants
<1>1. /\ s \in known /\ stop[s] = NoStop /\ StopAt(s, "backend") /\ mu' = mu /\ known' = known
      /\ UNCHANGED pool /\ UNCHANGED <<bound, stray>> /\ routes' = routes
  BY DEF StopBegins
<1>2. StopMoves(s) /\ stop'[s].at = "backend"
  BY <1>1, StopIs DEF StopStages
<1>3. sess[s].at \notin {"idle", "slot"}
  BY <1>1, SessionHas DEF Kept, Course
<1>4. CASE sess[s].at = "live"
  <2>1. sess' = sess /\ left' = left
    BY <1>4 DEF StopBegins
  <2>2. Becomes(s, sess[s])
    BY <2>1 DEF Becomes, IInv, SessionTypes
  <2>3. Kept(s)'
    <3> SUFFICES ASSUME ~ sess[s].hasty PROVE Course(s)' /\ Stopping(s)' /\ Listening(s)' /\ Routed(s)'
      BY <1>4, <2>1 DEF Kept
    <3>1. Course(s) /\ Stopping(s) /\ Listening(s) /\ Routed(s)
      BY SessionHas DEF Kept
    <3>2. Course(s)'
      BY <1>1, <2>1, <3>1 DEF Course
    <3>3. Stopping(s)'
      BY <1>2, <1>4, <2>1, <3>1 DEF Stopping
    <3>4. Listening(s)'
      BY <1>1, <2>1, <3>1 DEF Listening
    <3>5. Routed(s)'
      BY <1>1, <2>1, <3>1 DEF Routed
    <3> QED
      BY <3>2, <3>3, <3>4, <3>5
  <2>4. Owning(s)'
    BY <1>1, <2>1, PoolStays, SessionHas DEF Owning, Pending
  <2> QED
    BY <1>1, <1>2, <1>3, <2>1, <2>2, <2>3, <2>4, SessionHas, SameRoute, StopKeeps
<1>5. CASE sess[s].at # "live"
  <2> DEFINE e == [sess[s] EXCEPT !.hasty = TRUE]
  <2>1. Becomes(s, e) /\ Spend("hasty")
    BY <1>5 DEF StopBegins
  <2>2. e \in Sessions /\ e.at = sess[s].at /\ e.hasty
    BY SessionHas DEF Sessions
  <2> HIDE DEF e
  <2>3. sess'[s] = e
    BY <2>1, <2>2, BecomesHas DEF IInv
  <2>4. Kept(s)' /\ Owning(s)'
    BY <1>3, <2>2, <2>3 DEF Kept, Owning
  <2> QED
    BY <1>1, <1>2, <1>3, <2>1, <2>2, <2>4, SameRoute, StopKeeps
<1> QED
  BY <1>4, <1>5

\* The server is closed, and its listeners with it.
LEMMA StopBackendKeeps ==
    ASSUME IInv, NEW s \in Preview, StopBackend(s) PROVE IInv'
<1> USE Constants
<1> DEFINE e == [sess[s] EXCEPT !.hook = FALSE]
<1>1. /\ Becomes(s, e) /\ stop[s].at = "backend" /\ StopAt(s, "port")
      /\ mu' = mu /\ known' = known /\ left' = left /\ UNCHANGED pool /\ routes' = routes
      /\ sess[s].hook => Unbind(s)
      /\ ~ sess[s].hook => UNCHANGED <<bound, stray>>
  BY DEF StopBackend
<1>2. /\ e \in Sessions /\ e.at = sess[s].at /\ e.port = sess[s].port /\ e.addr = sess[s].addr
      /\ e.tried = sess[s].tried /\ ~ e.hook /\ e.routed = sess[s].routed
      /\ e.hasty = sess[s].hasty
         /\ e.kept = sess[s].kept /\ e.late = sess[s].late
  BY SessionHas DEF Sessions
<1> HIDE DEF e
<1>3. sess'[s] = e /\ StopMoves(s) /\ stop'[s].at = "port"
  BY <1>1, <1>2, BecomesHas, StopIs DEF IInv, StopStages
<1>4. CASE sess[s].hasty
  <2>1. sess[s].at # "slot"
    BY <1>4, SessionHas DEF Kept
  <2>2. Kept(s)' /\ Owning(s)'
    BY <1>2, <1>3, <1>4, SessionHas DEF Kept, Owning
  <2> QED
    BY <1>1, <1>2, <1>3, <1>4, <2>1, <2>2, SameRoute, StopKeeps
<1>5. CASE ~ sess[s].hasty
  <2>1. Course(s) /\ Stopping(s) /\ Listening(s) /\ Routed(s)
    BY <1>5, SessionHas DEF Kept
  <2>2. sess[s].at = "live"
    BY <1>1, <2>1 DEF Stopping
  <2>3. /\ \A p \in Port : bound'[p] # s
        /\ s \notin stray'
    <3>1. CASE sess[s].hook
      BY <1>1, <3>1, UnbindIs DEF IInv
    <3>2. CASE ~ sess[s].hook
      BY <1>1, <2>1, <2>2, <3>2 DEF Listening
    <3> QED
      BY <3>1, <3>2
  <2>4. Course(s)'
    BY <1>1, <1>2, <1>3, <2>1, <2>2 DEF Course
  <2>5. Stopping(s)'
    BY <1>2, <1>3, <2>2 DEF Stopping
  <2>6. Listening(s)'
    BY <1>2, <1>3, <2>2, <2>3 DEF Listening
  <2>7. Routed(s)'
    BY <1>1, <1>2, <1>3, <2>1, <2>2 DEF Routed
  <2>8. Kept(s)'
    BY <1>2, <1>3, <2>2, <2>4, <2>5, <2>6, <2>7 DEF Kept
  <2>9. Owning(s)'
    BY <1>1, <1>2, <1>3, PoolStays, SessionHas DEF Owning, Pending
  <2> QED
    BY <1>1, <1>2, <1>3, <2>2, <2>8, <2>9, SameRoute, StopKeeps
<1> QED
  BY <1>4, <1>5

\* The port goes back, and the session forgets it.
LEMMA StopPortKeeps ==
    ASSUME IInv, NEW s \in Preview, StopPort(s) PROVE IInv'
<1> USE Constants
<1> DEFINE e == IF sess[s].port # 0 THEN [sess[s] EXCEPT !.port = 0] ELSE sess[s]
<1>1. /\ stop[s].at = "port" /\ StopAt(s, "route")
      /\ mu' = mu /\ known' = known /\ left' = left /\ routes' = routes
      /\ bound' = bound /\ stray' = stray /\ UNCHANGED <<bound, stray>>
      /\ sess[s].port # 0 => Release(Hub, sess[s].port)
      /\ sess[s].port = 0 => UNCHANGED pool
  BY DEF StopPort
<1>2. Becomes(s, e)
  <2>1. CASE sess[s].port # 0
    BY <2>1 DEF StopPort
  <2>2. CASE sess[s].port = 0
    BY <2>2 DEF StopPort, Becomes, IInv, SessionTypes
  <2> QED
    BY <2>1, <2>2
<1>3. /\ e \in Sessions /\ e.at = sess[s].at /\ e.port = 0 /\ e.addr = sess[s].addr
      /\ e.tried = sess[s].tried /\ e.hook = sess[s].hook /\ e.routed = sess[s].routed
      /\ e.hasty = sess[s].hasty
         /\ e.kept = sess[s].kept /\ e.late = sess[s].late
  <2>1. CASE sess[s].port # 0
    BY <2>1, SessionHas DEF Sessions
  <2>2. CASE sess[s].port = 0
    BY <2>2, SessionHas
  <2> QED
    BY <2>1, <2>2
<1> HIDE DEF e
<1>4. sess'[s] = e /\ StopMoves(s) /\ stop'[s].at = "route"
  BY <1>1, <1>2, <1>3, BecomesHas, StopIs DEF IInv, StopStages
<1>5. UNCHANGED pool \/ (\E c \in Proc : \E p : Release(c, p))
  BY <1>1
<1>6. CASE sess[s].hasty
  <2>1. sess[s].at # "slot"
    BY <1>6, SessionHas DEF Kept
  <2>2. Kept(s)' /\ Owning(s)'
    BY <1>3, <1>4, <1>6, SessionHas DEF Kept, Owning
  <2> QED
    BY <1>1, <1>2, <1>3, <1>4, <1>5, <1>6, <2>1, <2>2, SameRoute, StopKeeps
<1>7. CASE ~ sess[s].hasty
  <2>1. Course(s) /\ Stopping(s) /\ Listening(s) /\ Routed(s)
    BY <1>7, SessionHas DEF Kept
  <2>2. sess[s].at = "live" /\ ~ sess[s].hook /\ sess[s].tried = {}
    BY <1>1, <2>1 DEF Stopping, Course
  <2>3. Course(s)'
    BY <1>1, <1>3, <1>4, <2>1, <2>2 DEF Course
  <2>4. Stopping(s)'
    BY <1>3, <1>4, <2>2 DEF Stopping
  <2>5. Listening(s)'
    BY <1>1, <1>3, <1>4, <2>1, <2>2 DEF Listening
  <2>6. Routed(s)'
    BY <1>1, <1>3, <1>4, <2>1, <2>2 DEF Routed
  <2>7. Kept(s)'
    BY <1>3, <1>4, <2>2, <2>3, <2>4, <2>5, <2>6 DEF Kept
  <2>8. \A p \in Port : files'[p].owner = s => p \in sess[s].kept
    <3>1. \A p \in Port : ~ Pending(s, p)
      BY <2>2 DEF IInv, Callers, Pending
    <3>2. \A p \in Port : files[p].owner = s => p = sess[s].port \/ p \in sess[s].kept
      BY <1>7, <2>2, <3>1, SessionHas DEF Owning
    <3>3. CASE sess[s].port # 0
      BY <1>1, <3>2, <3>3, ReleaseIs DEF IInv
    <3>4. CASE sess[s].port = 0
      BY <1>1, <3>2, <3>4, PoolStays DEF IInv
    <3> QED
      BY <3>3, <3>4
  <2>9. Owning(s)'
    BY <1>3, <1>4, <2>8 DEF Owning
  <2> QED
    BY <1>1, <1>2, <1>3, <1>4, <1>5, <2>2, <2>7, <2>9, SameRoute, StopKeeps
<1> QED
  BY <1>6, <1>7

\* The port stays with the session, and the stop goes on as one that failed.
LEMMA StopPortFailsKeeps ==
    ASSUME IInv, NEW s \in Preview, StopPortFails(s) PROVE IInv'
<1> USE Constants
<1>1. /\ stop[s].at = "port" /\ StopFails(s, "route") /\ ReleaseFails(Hub) /\ sess' = sess
      /\ mu' = mu /\ known' = known /\ routes' = routes
      /\ bound' = bound /\ stray' = stray /\ UNCHANGED <<bound, stray>>
  BY DEF StopPortFails
<1>2. StopMoves(s) /\ stop'[s].at = "route" /\ stop'[s].failed /\ Spend("snags")
  BY <1>1, StopFailsIs DEF StopStages
<1>3. UNCHANGED pool /\ files' = files /\ alloc' = alloc
  BY <1>1, ReleaseFailsIs DEF IInv
<1>4. Becomes(s, sess[s])
  BY <1>1 DEF Becomes, IInv, SessionTypes
<1>5. Kept(s)'
  <2> SUFFICES ASSUME ~ sess[s].hasty PROVE Course(s)' /\ Stopping(s)' /\ Listening(s)' /\ Routed(s)'
    BY <1>1, SessionHas DEF Kept
  <2>1. Course(s) /\ Stopping(s) /\ Listening(s) /\ Routed(s)
    BY SessionHas DEF Kept
  <2>2. Course(s)'
    BY <1>1, <2>1 DEF Course
  <2>3. Stopping(s)'
    BY <1>1, <1>2, <2>1 DEF Stopping
  <2>4. Listening(s)'
    BY <1>1, <2>1 DEF Listening
  <2>5. Routed(s)'
    BY <1>1, <2>1 DEF Routed
  <2> QED
    BY <2>2, <2>3, <2>4, <2>5
<1>6. Owning(s)'
  BY <1>1, <1>3, SessionHas DEF Owning, Pending
<1>7. sess[s].at # "slot"
  BY <1>1, SessionHas DEF Kept, Stopping
<1> QED
  BY <1>1, <1>2, <1>3, <1>4, <1>5, <1>6, <1>7, SessionHas, SameRoute, StopKeeps

\* The route goes, and the session forgets it.
LEMMA StopRouteKeeps ==
    ASSUME IInv, NEW s \in Preview, StopRoute(s) PROVE IInv'
<1> USE Constants
<1> DEFINE e == IF sess[s].routed THEN [sess[s] EXCEPT !.routed = FALSE] ELSE sess[s]
<1>1. /\ stop[s].at = "route" /\ StopAt(s, "forget")
      /\ mu' = mu /\ known' = known /\ left' = left /\ UNCHANGED pool
      /\ bound' = bound /\ stray' = stray /\ UNCHANGED <<bound, stray>>
      /\ sess[s].routed => routes' = [routes EXCEPT ![s] = None]
      /\ ~ sess[s].routed => routes' = routes
  BY DEF StopRoute
<1>2. Becomes(s, e)
  <2>1. CASE sess[s].routed
    BY <2>1 DEF StopRoute
  <2>2. CASE ~ sess[s].routed
    BY <2>2 DEF StopRoute, Becomes, IInv, SessionTypes
  <2> QED
    BY <2>1, <2>2
<1>3. /\ e \in Sessions /\ e.at = sess[s].at /\ e.port = sess[s].port /\ e.addr = sess[s].addr
      /\ e.tried = sess[s].tried /\ e.hook = sess[s].hook /\ ~ e.routed
      /\ e.hasty = sess[s].hasty
         /\ e.kept = sess[s].kept /\ e.late = sess[s].late
  <2>1. CASE sess[s].routed
    BY <2>1, SessionHas DEF Sessions
  <2>2. CASE ~ sess[s].routed
    BY <2>2, SessionHas
  <2> QED
    BY <2>1, <2>2
<1> HIDE DEF e
<1>4. sess'[s] = e /\ StopMoves(s) /\ stop'[s].at = "forget" /\ stop'[s].failed = stop[s].failed
  BY <1>1, <1>2, <1>3, BecomesHas, StopIs DEF IInv, StopStages
<1>0. \E q \in {routes[s], None} : routes' = [routes EXCEPT ![s] = q]
  BY <1>1, SameRoute
<1>5. CASE sess[s].hasty
  <2>1. sess[s].at # "slot"
    BY <1>5, SessionHas DEF Kept
  <2>2. Kept(s)' /\ Owning(s)'
    BY <1>3, <1>4, <1>5, SessionHas DEF Kept, Owning
  <2> QED
    BY <1>0, <1>1, <1>2, <1>3, <1>4, <1>5, <2>1, <2>2, StopKeeps
<1>6. CASE ~ sess[s].hasty
  <2>1. Course(s) /\ Stopping(s) /\ Listening(s) /\ Routed(s)
    BY <1>6, SessionHas DEF Kept
  <2>2. sess[s].at = "live" /\ ~ sess[s].hook /\ (~ stop[s].failed => sess[s].port = 0)
    BY <1>1, <2>1 DEF Stopping
  <2>3. routes'[s] = None \/ sess[s].late = "add"
    <3>1. CASE sess[s].routed
      BY <1>1, <3>1 DEF IInv, SessionTypes
    <3>2. CASE ~ sess[s].routed
      BY <1>1, <2>1, <2>2, <3>2 DEF Routed
    <3> QED
      BY <3>1, <3>2
  <2>4. Course(s)'
    BY <1>1, <1>3, <1>4, <2>1, <2>2 DEF Course
  <2>5. Stopping(s)'
    BY <1>3, <1>4, <2>2 DEF Stopping
  <2>6. Listening(s)'
    BY <1>1, <1>3, <1>4, <2>1, <2>2 DEF Listening
  <2>7. Routed(s)'
    BY <1>3, <1>4, <2>1, <2>2, <2>3 DEF Routed
  <2>8. Kept(s)'
    BY <1>3, <1>4, <2>2, <2>4, <2>5, <2>6, <2>7 DEF Kept
  <2>9. Owning(s)'
    BY <1>1, <1>3, <1>4, PoolStays, SessionHas DEF Owning, Pending
  <2> QED
    BY <1>0, <1>1, <1>2, <1>3, <1>4, <2>2, <2>8, <2>9, StopKeeps
<1> QED
  BY <1>5, <1>6

\* The route may be gone or go yet; the session still records it.
LEMMA StopRouteFailsKeeps ==
    ASSUME IInv, NEW s \in Preview, StopRouteFails(s) PROVE IInv'
<1> USE Constants
<1> DEFINE e == [sess[s] EXCEPT !.late = "remove"]
<1>1. /\ stop[s].at = "route" /\ StopFails(s, "forget") /\ sess[s].routed /\ Becomes(s, e)
      /\ mu' = mu /\ known' = known /\ UNCHANGED pool
      /\ \E q \in {routes[s], None} : routes' = [routes EXCEPT ![s] = q]
      /\ bound' = bound /\ stray' = stray /\ UNCHANGED <<bound, stray>>
  BY DEF StopRouteFails
<1>2. /\ e \in Sessions /\ e.at = sess[s].at /\ e.port = sess[s].port /\ e.addr = sess[s].addr
      /\ e.tried = sess[s].tried /\ e.hook = sess[s].hook /\ e.routed = sess[s].routed
      /\ e.hasty = sess[s].hasty /\ e.kept = sess[s].kept /\ e.late = "remove"
  BY SessionHas DEF Sessions
<1> HIDE DEF e
<1>3. /\ sess'[s] = e /\ StopMoves(s) /\ stop'[s].at = "forget" /\ stop'[s].failed
      /\ Spend("snags")
  BY <1>1, <1>2, BecomesHas, StopFailsIs DEF IInv, StopStages
<1>4. Kept(s)'
  <2>1. CASE sess[s].hasty
    BY <1>2, <1>3, <2>1, SessionHas DEF Kept
  <2>2. CASE ~ sess[s].hasty
    <3>1. Course(s) /\ Stopping(s) /\ Listening(s) /\ Routed(s)
      BY <2>2, SessionHas DEF Kept
    <3>2. sess[s].at = "live" /\ ~ sess[s].hook
      BY <1>1, <3>1 DEF Stopping
    <3>3. Course(s)'
      BY <1>1, <1>2, <1>3, <3>1, <3>2 DEF Course
    <3>4. Stopping(s)'
      BY <1>2, <1>3, <3>2 DEF Stopping
    <3>5. Listening(s)'
      BY <1>1, <1>2, <1>3, <3>1, <3>2 DEF Listening
    <3>6. Routed(s)'
      BY <1>1, <1>2, <1>3, <3>2 DEF Routed
    <3> QED
      BY <1>2, <1>3, <3>2, <3>3, <3>4, <3>5, <3>6 DEF Kept
  <2> QED
    BY <2>1, <2>2
<1>5. Owning(s)'
  BY <1>1, <1>2, <1>3, PoolStays, SessionHas DEF Owning, Pending
<1>6. sess[s].at # "slot"
  BY <1>1, SessionHas DEF Kept, Stopping
<1> QED
  BY <1>1, <1>2, <1>3, <1>4, <1>5, <1>6, StopKeeps

\* A stop that failed leaves the session as it is, for another.
LEMMA StopGivesUpKeeps ==
    ASSUME IInv, NEW s \in Preview, StopGivesUp(s) PROVE IInv'
<1> USE Constants
<1>1. /\ stop[s].at = "forget" /\ stop' = [stop EXCEPT ![s] = NoStop]
      /\ mu' = mu /\ known' = known /\ UNCHANGED pool /\ routes' = routes /\ sess' = sess
      /\ bound' = bound /\ stray' = stray /\ UNCHANGED <<bound, stray>> /\ left' = left
  BY DEF StopGivesUp
<1>2. StopMoves(s) /\ stop'[s].at = "none"
  BY <1>1, StopEndsIs
<1>3. Becomes(s, sess[s])
  BY <1>1 DEF Becomes, IInv, SessionTypes
<1>4. Kept(s)'
  <2> SUFFICES ASSUME ~ sess[s].hasty PROVE Course(s)' /\ Stopping(s)' /\ Listening(s)' /\ Routed(s)'
    BY <1>1, SessionHas DEF Kept
  <2>1. Course(s) /\ Stopping(s) /\ Listening(s) /\ Routed(s)
    BY SessionHas DEF Kept
  <2>2. Course(s)'
    BY <1>1, <2>1 DEF Course
  <2>3. Stopping(s)'
    BY <1>2 DEF Stopping
  <2>4. Listening(s)'
    BY <1>1, <2>1 DEF Listening
  <2>5. Routed(s)'
    BY <1>1, <2>1 DEF Routed
  <2> QED
    BY <2>2, <2>3, <2>4, <2>5
<1>5. Owning(s)'
  BY <1>1, PoolStays, SessionHas DEF Owning, Pending
<1>6. sess[s].at # "slot"
  BY <1>1, SessionHas DEF Kept, Stopping
<1> QED
  BY <1>1, <1>2, <1>3, <1>4, <1>5, <1>6, SessionHas, SameRoute, StopKeeps

\* Out of the map; what was launching goes on.
LEMMA StopForgetsKeeps ==
    ASSUME IInv, NEW s \in Preview, StopForgets(s) PROVE IInv'
<1> USE Constants
<1>1. /\ stop[s].at = "forget" /\ ~ stop[s].failed /\ stop' = [stop EXCEPT ![s] = NoStop]
      /\ mu' = mu /\ known' = known \ {s} /\ left' = left /\ UNCHANGED pool /\ routes' = routes
      /\ bound' = bound /\ stray' = stray /\ UNCHANGED <<bound, stray>>
  BY DEF StopForgets
<1>2. StopMoves(s) /\ stop'[s].at = "none"
  BY <1>1, StopEndsIs
<1>3. CASE sess[s].hasty
  <2>1. sess' = sess
    BY <1>3 DEF StopForgets
  <2>2. Becomes(s, sess[s])
    BY <2>1 DEF Becomes, IInv, SessionTypes
  <2>3. sess[s].at # "slot"
    BY <1>3, SessionHas DEF Kept
  <2>4. Kept(s)' /\ Owning(s)'
    BY <1>3, <2>1, SessionHas DEF Kept, Owning
  <2> QED
    BY <1>1, <1>2, <1>3, <2>2, <2>3, <2>4, SessionHas, SameRoute, StopKeeps
<1>4. CASE ~ sess[s].hasty
  <2>1. Course(s) /\ Stopping(s) /\ Listening(s) /\ Routed(s)
    BY <1>4, SessionHas DEF Kept
  <2>2. /\ sess[s].at = "live" /\ ~ sess[s].hook /\ sess[s].port = 0 /\ ~ sess[s].routed
        /\ sess[s].tried = {}
    BY <1>1, <2>1 DEF Stopping, Course
  <2> DEFINE e == Ended(s)
  <2>3. Becomes(s, e)
    BY <1>4 DEF StopForgets
  <2>4. EndsAs(e, sess[s]) /\ e \in Sessions
    BY SessionHas, OverIs DEF Ended
  <2> HIDE DEF e
  <2>5. sess'[s] = e
    BY <2>3, <2>4, BecomesHas DEF IInv
  <2>6. routes'[s] = None /\ s \notin known' /\ \A p \in Port : bound'[p] # s
    BY <1>1, <2>1, <2>2 DEF Routed, Listening
  <2>7. Kept(s)'
    <3>1. ~ e.hasty /\ s \notin stray'
      BY <1>1, <1>4, <2>1, <2>4 DEF EndsAs, Listening
    <3> QED
      BY <1>2, <2>4, <2>5, <2>6, <3>1, EndedKeeps
  <2>8. Owning(s)'
    <3>1. \A p \in Port : ~ Pending(s, p)
      BY <2>2 DEF IInv, Callers, Pending
    <3>2. \A p \in Port : files[p].owner = s => p \in e.kept
      BY <1>4, <2>2, <2>4, <3>1, SessionHas DEF Owning, EndsAs
    <3> QED
      BY <1>1, <2>5, <3>2, PoolStays DEF Owning, IInv
  <2>9. e.at \in {"idle", "over"} /\ e.port = 0
    BY <2>4 DEF EndsAs
  <2> QED
    BY <1>1, <1>2, <2>2, <2>3, <2>4, <2>7, <2>8, <2>9, SameRoute, StopKeeps
<1> QED
  BY <1>3, <1>4

-----------------------------------------------------------------------------
(* The daemon's clients, the ports and the deaths.                          *)

\* A step of no preview: only ports that nobody previews on may change hands.
LEMMA ElsewhereKeeps ==
    ASSUME IInv, PoolTypes', Callers', alloc'[Hub] = alloc[Hub],
           sess' \in [Owner -> Sessions], \A t \in Preview : sess'[t] = sess[t],
           UNCHANGED <<stop, known, mu, stray, routes>>,
           UNCHANGED left \/ Spend("squats") \/ Spend("deaths"),
           bound' \in [Port -> Preview \cup {Nobody, Stranger}],
           \A t \in Preview : \A p \in Port : /\ bound'[p] = t <=> bound[p] = t
                                              /\ files'[p].owner = t => files[p].owner = t
    PROVE  IInv'
<1>1. /\ left'.cap = left.cap
      /\ left' \in Bounds
  BY Leftover
<1>2. SessionTypes'
  BY <1>1 DEF IInv, SessionTypes
<1>3. Slots'
  <2>1. Counted' \in SUBSET Counted
    BY DEF IInv, SessionTypes, Counted, Holding
  <2>2. \A t \in Preview : sess'[t].at = "slot" => mu' = t
    BY DEF IInv, Slots
  <2> QED
    BY <1>1, <2>1, <2>2, SlotsStay DEF IInv
<1>4. Apart(Nobody)
  BY DEF Apart, Pending
<1>5. Nobody \notin Preview
  BY Constants
<1> QED
  BY <1>2, <1>3, <1>4, <1>5, OthersKeep

LEMMA ClientsKeep ==
    ASSUME IInv, NEW d \in Client, Ask(d) \/ Told(d) \/ GiveBack(d) PROVE IInv'
<1> USE Constants
<1>1. /\ UNCHANGED <<stop, known, mu, stray, routes>> /\ left' = left /\ bound' = bound
      /\ d \in Owner /\ d \notin Preview
  BY DEF Ask, Told, GiveBack
<1>2. /\ PoolTypes /\ SessionTypes /\ Callers
      /\ bound' \in [Port -> Preview \cup {Nobody, Stranger}]
  BY <1>1 DEF IInv, SessionTypes
<1>3. sess[d] \in Sessions
  BY <1>1, <1>2 DEF SessionTypes
<1>4. \E e \in Sessions : Becomes(d, e)
  <2>1. CASE Ask(d)
    <3>1. [sess[d] EXCEPT !.at = "asked"] \in Sessions
      BY <1>3 DEF Sessions, Stages
    <3> QED
      BY <2>1, <3>1 DEF Ask, Goes
  <2>2. CASE Told(d)
    <3>1. alloc[Daemon] # NoCall
      BY <2>2 DEF Told, Answers, NoCall
    <3>2. alloc[Daemon].port \in 0..NPorts
      BY <1>2, <3>1 DEF PoolTypes, Calls
    <3>3. [sess[d] EXCEPT !.at = "held", !.port = alloc[Daemon].port] \in Sessions
      BY <1>3, <3>2 DEF Sessions, Stages
    <3>4. Fresh \in Sessions
      BY DEF Fresh, Sessions, Stages
    <3> QED
      BY <2>2, <3>3, <3>4 DEF Told
  <2>3. CASE GiveBack(d)
    <3>1. Fresh \in Sessions
      BY DEF Fresh, Sessions, Stages
    <3> QED
      BY <2>3, <3>1 DEF GiveBack
  <2> QED
    BY <2>1, <2>2, <2>3
<1>5. PICK e \in Sessions : Becomes(d, e)
  BY <1>4
<1>6. /\ sess' \in [Owner -> Sessions]
      /\ \A t \in Preview : sess'[t] = sess[t]
  BY <1>1, <1>2, <1>5, BecomesHas
<1>7. /\ PoolTypes' /\ alloc'[Hub] = alloc[Hub] /\ Callers'
      /\ \A t \in Preview : \A p \in Port : files'[p].owner = t => files[p].owner = t
  <2>1. alloc[Hub] # NoCall => alloc[Hub].for \in Preview /\ sess'[alloc[Hub].for] = sess[alloc[Hub].for]
    BY <1>2, <1>6 DEF Callers
  <2>2. CASE Ask(d)
    <3> DEFINE x == [at |-> "claim", port |-> 1, last |-> left.ports, for |-> d]
    <3>1. x \in Calls /\ x.for = d /\ x.port = 1
      BY <1>1, <1>2 DEF SessionTypes, Bounds, Calls, CallStages
    <3>2. alloc' = [alloc EXCEPT ![Daemon] = x] /\ files' = files
      BY <2>2 DEF Ask, Allocate
    <3> HIDE DEF x
    <3>3. PoolTypes' /\ alloc'[Daemon] = x /\ alloc'[Hub] = alloc[Hub]
          /\ \A b \in Proc : b # Daemon => alloc'[b] = alloc[b]
      BY <1>2, <3>1, <3>2 DEF PoolTypes
    <3>4. Callers'
      BY <1>2, <2>1, <3>1, <3>3 DEF Callers
    <3> QED
      BY <3>2, <3>3, <3>4
  <2>3. CASE Told(d)
    <3>1. PoolTypes' /\ files' = files /\ alloc'[Daemon] = NoCall
          /\ \A b \in Proc : b # Daemon => alloc'[b] = alloc[b]
      BY <1>2, <2>3, HangupIs DEF Told
    <3>2. Callers'
      BY <1>2, <2>1, <3>1 DEF Callers
    <3> QED
      BY <3>1, <3>2
  <2>4. CASE GiveBack(d)
    <3>1. PoolTypes' /\ alloc' = alloc
          /\ \A p \in Port : \A t \in Owner : files'[p].owner = t => files[p].owner = t
      BY <1>2, <2>4, PoolQuiet DEF GiveBack
    <3>2. Callers'
      BY <1>2, <2>1, <3>1 DEF Callers
    <3> QED
      BY <3>1, <3>2
  <2> QED
    BY <2>2, <2>3, <2>4
<1> QED
  BY <1>1, <1>2, <1>6, <1>7, ElsewhereKeeps

LEMMA SquatKeeps ==
    ASSUME IInv, NEW p \in Port, Squat(p) PROVE IInv'
<1> USE Constants
<1>1. /\ UNCHANGED <<stop, known, mu, stray, routes>> /\ sess' = sess /\ UNCHANGED pool
      /\ UNCHANGED left \/ Spend("squats")
      /\ \/ bound[p] = Nobody /\ bound' = [bound EXCEPT ![p] = Stranger]
         \/ bound[p] = Stranger /\ bound' = [bound EXCEPT ![p] = Nobody]
  BY DEF Squat
<1>2. /\ bound' \in [Port -> Preview \cup {Nobody, Stranger}]
      /\ \A t \in Preview : \A q \in Port : bound'[q] = t <=> bound[q] = t
  BY <1>1 DEF IInv, SessionTypes
<1>3. PoolTypes' /\ alloc' = alloc /\ files' = files
  BY <1>1, PoolStays DEF IInv
<1>4. Callers'
  BY <1>1, <1>3 DEF IInv, Callers
<1>5. sess' \in [Owner -> Sessions]
  BY <1>1 DEF IInv, SessionTypes
<1> QED
  BY <1>1, <1>2, <1>3, <1>4, <1>5, ElsewhereKeeps

\* A call that is cut leaves the files.
LEMMA DiesIs ==
    ASSUME PoolTypes, NEW c \in Proc, Dies(c)
    PROVE  /\ PoolTypes' /\ files' = files /\ routes' = routes /\ alloc'[c] = NoCall
           /\ \A b \in Proc : b # c => alloc'[b] = alloc[b]
           /\ Spend("deaths")
BY DEF PoolTypes, Dies

LEMMA DaemonDiesKeeps ==
    ASSUME IInv, DaemonDies PROVE IInv'
<1> USE Constants
<1>1. /\ Dies(Daemon) /\ UNCHANGED <<stop, known, mu, bound, stray>>
      /\ sess' = [s \in Owner |-> IF s \in Client /\ sess[s].at = "asked"
                                     THEN [Fresh EXCEPT !.at = "dead"] ELSE sess[s]]
  BY DEF DaemonDies
<1>2. /\ PoolTypes' /\ files' = files /\ routes' = routes /\ alloc'[Daemon] = NoCall
      /\ \A b \in Proc : b # Daemon => alloc'[b] = alloc[b]
      /\ Spend("deaths")
  BY <1>1, DiesIs DEF IInv
<1>3. [Fresh EXCEPT !.at = "dead"] \in Sessions
  <2>1. Fresh \in Sessions
    BY DEF Fresh, Sessions, Stages
  <2> QED
    BY <2>1 DEF Sessions, Stages
<1>4. /\ sess' \in [Owner -> Sessions]
      /\ \A t \in Preview : sess'[t] = sess[t]
  BY <1>1, <1>3 DEF IInv, SessionTypes
<1>5. Callers'
  BY <1>2, <1>4 DEF IInv, Callers
<1>6. bound' = bound /\ bound \in [Port -> Preview \cup {Nobody, Stranger}]
  BY <1>1 DEF IInv, SessionTypes
<1> QED
  BY <1>1, <1>2, <1>4, <1>5, <1>6, ElsewhereKeeps

\* Every preview under way is dead, and holds nothing but its reservations and route.
LEMMA HubDiesKeeps ==
    ASSUME IInv, HubDies PROVE IInv'
<1> USE Constants
<1>1. /\ Dies(Hub) /\ stop' = [s \in Preview |-> NoStop] /\ known' = {} /\ mu' = Nobody
      /\ bound' = [p \in Port |-> IF bound[p] \in Preview THEN Nobody ELSE bound[p]]
      /\ stray' = {}
      /\ sess' = [s \in Owner |-> IF s \in Preview /\ sess[s].at # "idle" THEN Cut(sess[s]) ELSE sess[s]]
  BY DEF HubDies
<1>2. /\ PoolTypes' /\ files' = files /\ routes' = routes /\ alloc'[Hub] = NoCall
      /\ \A b \in Proc : b # Hub => alloc'[b] = alloc[b]
      /\ Spend("deaths")
  BY <1>1, DiesIs DEF IInv
<1>3. ASSUME NEW s \in Preview
      PROVE  LET d == Cut(sess[s])
             IN  /\ d \in Sessions /\ d.at = "dead" /\ ~ d.hook /\ ~ d.routed /\ ~ d.hasty
  <2> DEFINE l == IF sess[s].at = "route" THEN "add" ELSE sess[s].late
             d == Cut(sess[s])
  <2>1. d = [Fresh EXCEPT !.at = "dead", !.addr = sess[s].addr, !.late = l]
    BY DEF Cut
  <2>2. sess[s].addr \in 0..NPorts /\ l \in {"none", "add", "remove"}
    BY SessionHas DEF Sessions
  <2>3. Fresh \in Sessions /\ ~ Fresh.hook /\ ~ Fresh.routed /\ ~ Fresh.hasty
    BY DEF Fresh, Sessions, Stages
  <2> HIDE DEF l
  <2> QED
    BY <2>1, <2>2, <2>3 DEF Sessions, Stages
<1>4. /\ left'.cap = left.cap
      /\ left' \in Bounds
  BY <1>2, Leftover
<1>5. /\ sess' \in [Owner -> Sessions]
      /\ bound' \in [Port -> Preview \cup {Nobody, Stranger}]
      /\ \A t \in Preview : \A p \in Port : bound'[p] # t
  BY <1>1, <1>3 DEF IInv, SessionTypes
<1>6. SessionTypes'
  BY <1>1, <1>2, <1>4, <1>5 DEF IInv, SessionTypes, Stops, StopStages, NoStop
<1>7. Callers'
  BY <1>2 DEF IInv, Callers
<1>8. Slots'
  <2>1. Counted' \in SUBSET Counted
    BY <1>1 DEF Counted, Holding
  <2>2. \A t \in Preview : sess'[t].at = "slot" => mu' = t
    BY <1>1, <1>3
  <2> QED
    BY <1>1, <1>4, <2>1, <2>2, SlotsStay DEF IInv
<1>9. ASSUME NEW t \in Preview PROVE Kept(t)' /\ Owning(t)'
  <2>1. stop'[t] = NoStop /\ stop'[t].at = "none" /\ t \notin known' /\ t \notin stray'
    BY <1>1 DEF NoStop
  <2>2. CASE sess[t].at # "idle"
    <3>1. sess'[t] = Cut(sess[t])
      BY <1>1, <2>2
    <3>2. Course(t)' /\ Stopping(t)' /\ Listening(t)' /\ Routed(t)'
      BY <1>3, <1>5, <2>1, <3>1 DEF Course, Stopping, Listening, Routed
    <3> QED
      BY <1>3, <3>1, <3>2 DEF Kept, Owning
  <2>3. CASE sess[t].at = "idle"
    <3>1. sess'[t] = sess[t]
      BY <1>1, <2>3
    <3>2. ~ sess[t].hasty /\ Course(t) /\ Stopping(t) /\ Listening(t) /\ Routed(t)
      BY <2>3, SessionHas DEF Kept
    <3>3. Course(t)'
      BY <2>1, <2>3, <3>1, <3>2 DEF Course
    <3>4. Stopping(t)'
      BY <2>1, <3>1, <3>2 DEF Stopping
    <3>5. Listening(t)'
      BY <1>5, <2>1, <2>3, <3>1, <3>2 DEF Listening
    <3>6. Routed(t)'
      BY <1>2, <3>1, <3>2 DEF Routed
    <3>7. \A p \in Port : ~ Pending(t, p)
      BY <2>3 DEF IInv, Callers, Pending
    <3>8. Owning(t)'
      BY <1>2, <3>1, <3>7, SessionHas DEF Owning
    <3> QED
      BY <3>1, <3>2, <3>3, <3>4, <3>5, <3>6, <3>8 DEF Kept
  <2> QED
    BY <2>2, <2>3
<1> QED
  BY <1>2, <1>6, <1>7, <1>8, <1>9 DEF IInv

-----------------------------------------------------------------------------
(* The theorems.                                                            *)

LEMMA InitHolds == Init => IInv
<1> SUFFICES ASSUME Init PROVE IInv
  OBVIOUS
<1> USE Constants DEF Init, PoolInit
<1>1. PoolTypes
  BY DEF PoolTypes, Free
<1>2. SessionTypes
  <2>1. Fresh \in Sessions
    BY DEF Fresh, Sessions, Stages
  <2>2. routes \in [Preview -> 0..None]
    BY DEF None
  <2> QED
    BY <2>1, <2>2, PreviewAssumption DEF SessionTypes, Stops, StopStages, NoStop, Bounds, PreviewAssumption
<1>3. Callers
  BY DEF Callers
<1>4. Slots
  <2>1. Counted = {}
    BY DEF Counted, Holding
  <2>2. Cardinality(Counted) = 0 /\ left.cap \in Nat
    BY <1>2, <2>1, FS_EmptySet DEF SessionTypes, Bounds
  <2>3. \A s \in Preview : sess[s].at = "idle"
    BY DEF Fresh
  <2> QED
    BY <2>2, <2>3 DEF Slots
<1>5. ASSUME NEW s \in Preview PROVE Kept(s) /\ Owning(s)
  <2>1. /\ sess[s] = Fresh /\ stop[s] = NoStop /\ known = {} /\ stray = {} /\ routes[s] = None
        /\ \A p \in Port : bound[p] # s /\ files[p].owner # s
    BY DEF Free
  <2>2. Course(s) /\ Stopping(s) /\ Listening(s) /\ Routed(s)
    BY <2>1 DEF Course, Stopping, Listening, Routed, Fresh, NoStop
  <2> QED
    BY <2>1, <2>2 DEF Kept, Owning, Fresh
<1> QED
  BY <1>1, <1>2, <1>3, <1>4, <1>5 DEF IInv

LEMMA LaunchKeeps ==
    ASSUME IInv, NEW s \in Preview, LaunchStep(s) \/ LaunchFails(s) \/ RouteLands(s)
    PROVE  IInv'
BY AskPortKeeps, SlotTakenKeeps, BindKeeps, AdvanceKeeps, ServeKeeps, GoLiveKeeps,
   UnreserveKeeps, ReturnKeeps, LetGoKeeps, BindFailsKeeps, RouteFailsKeeps, LetGoFailsKeeps,
   ReturnFailsKeeps, RouteLandsKeeps DEF LaunchStep, LaunchFails

LEMMA StopStepKeeps ==
    ASSUME IInv, NEW s \in Preview, StopBegins(s) \/ StopStep(s) \/ StopPortFails(s) \/ StopRouteFails(s)
    PROVE  IInv'
BY StopBeginsKeeps, StopBackendKeeps, StopPortKeeps, StopRouteKeeps, StopForgetsKeeps,
   StopPortFailsKeeps, StopRouteFailsKeeps, StopGivesUpKeeps DEF StopStep

LEMMA StutterKeeps == IInv /\ UNCHANGED vars => IInv'
<1> SUFFICES ASSUME IInv, UNCHANGED vars PROVE IInv'
  OBVIOUS
<1>1. /\ files' = files /\ alloc' = alloc /\ sess' = sess /\ stop' = stop /\ known' = known
      /\ mu' = mu /\ bound' = bound /\ stray' = stray /\ routes' = routes /\ left' = left
  BY DEF vars, pool
<1>2. PoolTypes' /\ SessionTypes' /\ Callers' /\ Slots'
  BY <1>1 DEF IInv, PoolTypes, SessionTypes, Callers, Slots, Counted, Holding
<1>3. ASSUME NEW t \in Preview PROVE Kept(t)' /\ Owning(t)'
  BY <1>1, KeptStays, OwningStays DEF IInv, Pending
<1> QED
  BY <1>2, <1>3 DEF IInv

LEMMA StepHolds == IInv /\ [Next]_vars => IInv'
<1> SUFFICES ASSUME IInv, [Next]_vars PROVE IInv'
  OBVIOUS
<1>1. CASE \E s \in Preview : LaunchStep(s) \/ LaunchFails(s) \/ RouteLands(s)
  BY <1>1, LaunchKeeps
<1>2. CASE \E s \in Preview :
              StopBegins(s) \/ StopStep(s) \/ StopPortFails(s) \/ StopRouteFails(s)
  BY <1>2, StopStepKeeps
<1>3. CASE \E d \in Client : Told(d) \/ GiveBack(d)
  BY <1>3, ClientsKeep
<1>4. CASE Demand
  BY <1>4, ReserveKeeps, ClientsKeep DEF Demand
<1>5. CASE \E c \in Proc : PoolStep(c)
  BY <1>5, PoolStepKeeps
<1>6. CASE Ageing
  BY <1>6, AgeingKeeps
<1>7. CASE \E p \in Port : Squat(p)
  BY <1>7, SquatKeeps
<1>8. CASE HubDies \/ DaemonDies
  BY <1>8, HubDiesKeeps, DaemonDiesKeeps
<1>9. CASE UNCHANGED vars
  BY <1>9, StutterKeeps
<1> QED
  BY <1>1, <1>2, <1>3, <1>4, <1>5, <1>6, <1>7, <1>8, <1>9 DEF Next

\* Every reachable state is well formed: the holder of the mutex has room for
\* one more, each preview stands at one stage of its launch or of its stop
\* with the listener, the route and the place in the manager's map of that
\* stage, unless it was stopped while launching, and a reservation in its name
\* is one it records, its call's, or one whose release failed.
THEOREM Invariant == Spec => []IInv
BY InitHolds, StepHolds, PTL DEF Spec

\* The cap of preview.max_concurrent holds, for any number of previews that
\* launch and stop at once: the count is checked and the slot taken under one
\* hold of the manager's mutex (preview/manager.go).  Sessions stopped while
\* they were launching are not counted.
THEOREM CapHolds == Spec => []CapHeld
<1>1. IInv => CapHeld
  BY DEF IInv, Slots, Counted, CapHeld
<1> QED
  BY <1>1, Invariant, PTL

\* A live preview is served where its address says and its route leads there,
\* whatever becomes of the pool's files, the daemon's calls and other
\* programs' listeners: bound ports are given up for others, never shared.
\* One stopped before it was live is not covered.
THEOREM LiveStaysServed == Spec => []LiveIsServed
<1>1. IInv => LiveIsServed
  <2> SUFFICES ASSUME IInv, NEW s \in known,
                      sess[s].at = "live", sess[s].hook, ~ sess[s].hasty
               PROVE  /\ sess[s].addr \in Port /\ bound[sess[s].addr] = s
                      /\ routes[s] = sess[s].addr
    BY DEF LiveIsServed
  <2>1. s \in Preview
    BY DEF IInv, SessionTypes
  <2>2. Listening(s) /\ Routed(s)
    BY <2>1, SessionHas DEF Kept
  <2> QED
    BY <2>2 DEF Listening, Routed
<1> QED
  BY <1>1, Invariant, PTL

\* A preview that is over, after a stop that was not cut off, a refusal at
\* capacity or a failed launch, has no listener and no place in the manager's
\* list; a reservation in its name is of a port whose release failed, and a
\* route one whose AddRoute failed.  Not covered is one that was stopped while
\* it was launching.
THEOREM OverStaysClean == Spec => []OverIsClean
<1>1. IInv => OverIsClean
  <2> SUFFICES ASSUME IInv, NEW s \in Preview, sess[s].at \in {"idle", "over"}, ~ sess[s].hasty
               PROVE  /\ s \notin stray \cup known
                      /\ \A p \in Port : bound[p] # s /\ (files[p].owner = s => p \in sess[s].kept)
                      /\ routes[s] # None => sess[s].late = "add"
    BY DEF OverIsClean
  <2>1. Course(s) /\ Listening(s) /\ Routed(s)
    BY SessionHas DEF Kept
  <2>2. /\ sess[s].port = 0 /\ sess[s].tried = {} /\ ~ sess[s].hook /\ ~ sess[s].routed
        /\ s \notin known
    BY <2>1 DEF Course, Listening, Fresh
  <2>3. \A p \in Port : ~ Pending(s, p)
    BY DEF IInv, Callers, Pending
  <2>4. \A p \in Port : files[p].owner = s => p \in sess[s].kept
    BY <2>2, <2>3, Constants, SessionHas DEF Owning
  <2> QED
    BY <2>1, <2>2, <2>4 DEF Listening, Routed
<1> QED
  BY <1>1, Invariant, PTL
=============================================================================
