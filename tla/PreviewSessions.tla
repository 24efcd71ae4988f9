---------------------------- MODULE PreviewSessions ----------------------------
(***************************************************************************)
(* Preview sessions (preview/manager.go) over the port pool: a launch takes *)
(* a slot under the manager's mutex, binds a loopback port, gives up ports   *)
(* that are bound already and adds a Caddy route; a stop tears the four      *)
(* down again.  The hub runs them; the pool's daemon (portpool/serve.go)     *)
(* serves clients of its own from the same directory.                        *)
(*                                                                          *)
(* Only the static lane holds anything: the other lanes end without a port. *)
(* Checkouts and clones are left out.                                        *)
(***************************************************************************)
EXTENDS PortPool, FiniteSets

CONSTANTS
    Hub, Daemon,    \* the two processes
    Preview,        \* preview sessions
    Client,         \* clients of the daemon
    Stranger,       \* a listener of another program
    Settings        \* preview.max_concurrent, the pool's last port, with bounds: deaths of a process,
                    \* binds, releases and route calls that fail, ports another program takes,
                    \* stops of launches; and whether the daemon has clients

ASSUME PreviewAssumption ==
    /\ Proc = {Hub, Daemon} /\ Hub # Daemon
    /\ Owner = Preview \cup Client /\ Preview \cap Client = {} /\ IsFiniteSet(Preview)
    /\ Nobody \notin Owner \cup Proc /\ Stranger \notin Owner \cup {Nobody}
    /\ Settings \subseteq [cap : Nat, ports : Port, deaths : Nat, snags : Nat, squats : Nat, hasty : Nat,
                          clients : BOOLEAN]

VARIABLES
    sess,       \* per owner, where it stands and what its session records
    stop,       \* per preview, the Stop call under way
    known,      \* the manager's map of sessions
    mu,         \* the launch that holds the manager's mutex
    bound,      \* per port, who listens on it
    stray,      \* previews that listen on a port outside the range
    routes,     \* per preview, the port its Caddy route leads to, or none
    left        \* the setting, and what is left of the bounds

vars == <<pool, sess, stop, known, mu, bound, stray, routes, left>>

\* `port` is the session's pool port, `addr` its backend address, `tried` the
\* ports found bound, `hook` whether its server can be closed, `routed`
\* whether it records a route, `hasty` whether it was stopped while launching.
\* What failed calls may leave: `kept`, the ports whose release failed unheeded,
\* and `late`, a route call given up on, which Caddy may have carried out or
\* may yet.
Fresh == [at |-> "idle", port |-> 0, addr |-> 0, tried |-> {}, hook |-> FALSE,
          routed |-> FALSE, hasty |-> FALSE, kept |-> {}, late |-> "none"]

None   == NPorts + 1        \* no route
NoStop == [at |-> "none", failed |-> FALSE]

Init ==
    /\ PoolInit
    /\ sess = [s \in Owner |-> Fresh]
    /\ stop = [s \in Preview |-> NoStop]
    /\ known = {} /\ mu = Nobody
    /\ bound = [p \in Port |-> Nobody] /\ stray = {}
    /\ routes = [s \in Preview |-> None]
    /\ left \in Settings

Becomes(s, e) == sess' = [sess EXCEPT ![s] = e]
Goes(s, pc)   == Becomes(s, [sess[s] EXCEPT !.at = pc])
Spend(kind) == left[kind] > 0 /\ left' = [left EXCEPT ![kind] = @ - 1]
Snag == Spend("snags")

\* The end of a session.  A name that may have left something, after a stop of
\* the launch or a failed call, does not serve again.
Over(e) ==
    IF e.hasty \/ e.kept # {} \/ e.late = "add"
       THEN [Fresh EXCEPT !.at = "over", !.addr = e.addr, !.hasty = e.hasty,
                          !.kept = e.kept, !.late = e.late]
       ELSE Fresh
Ended(s) == Over(sess[s])

\* Its listeners are closed.
Unbind(s) ==
    /\ bound' = [p \in Port |-> IF bound[p] = s THEN Nobody ELSE bound[p]]
    /\ stray' = stray \ {s}

-----------------------------------------------------------------------------
(* Launch.                                                                  *)

Holding == { s \in known : sess[s].port # 0 }

\* Mutant: the check and the slot are not under one lock.
ReserveUnlocked(s) ==
    /\ sess[s].at = "idle"
    /\ Cardinality(Holding) < left.cap
    /\ mu' = s
    /\ Goes(s, "slot")
    /\ UNCHANGED <<pool, stop, known, bound, stray, routes, left>>

\* The cap is checked and the slot taken under one hold of the mutex; at
\* capacity the launch answers so.
Reserve(s) ==
    /\ sess[s].at = "idle" /\ mu = Nobody
    /\ Cardinality(Holding) < left.cap
    /\ mu' = s
    /\ Goes(s, "slot")
    /\ UNCHANGED <<pool, stop, known, bound, stray, routes, left>>

AskPort(s) ==
    /\ sess[s].at \in {"slot", "advance"}
    /\ Allocate(Hub, s, left.ports)
    /\ UNCHANGED <<sess, stop, known, mu, bound, stray, routes, left>>

SlotTaken(s) ==
    /\ sess[s].at = "slot" /\ Answers(Hub, s)
    /\ Hangup(Hub)
    /\ mu' = Nobody
    /\ IF alloc[Hub].port = 0
          THEN Becomes(s, Fresh) /\ UNCHANGED known
          ELSE /\ Becomes(s, [sess[s] EXCEPT !.at = "bind", !.port = alloc[Hub].port])
               /\ known' = known \cup {s}
    /\ UNCHANGED <<stop, bound, stray, routes, left>>

\* Port 0, left by a stop, is any port at all.
Bind(s) ==
    /\ sess[s].at = "bind"
    /\ LET p == sess[s].port
       IN  \/ /\ p = 0
              /\ stray' = stray \cup {s} /\ UNCHANGED bound
              /\ Goes(s, "settle")
           \/ /\ p # 0 /\ bound[p] = Nobody
              /\ bound' = [bound EXCEPT ![p] = s] /\ UNCHANGED stray
              /\ Goes(s, "settle")
           \/ /\ p # 0 /\ bound[p] # Nobody
              /\ Becomes(s, [sess[s] EXCEPT !.at = "advance", !.tried = @ \cup {p}])
              /\ UNCHANGED <<bound, stray>>
    /\ UNCHANGED <<pool, stop, known, mu, routes, left>>

BindFails(s) ==
    /\ sess[s].at = "bind" /\ Snag
    /\ Goes(s, "giveup")
    /\ UNCHANGED <<pool, stop, known, mu, bound, stray, routes>>

Advance(s) ==
    /\ sess[s].at = "advance" /\ Answers(Hub, s)
    /\ Hangup(Hub)
    /\ IF alloc[Hub].port = 0
          THEN Goes(s, "giveup")
          ELSE Becomes(s, [sess[s] EXCEPT !.at = "bind", !.port = alloc[Hub].port])
    /\ UNCHANGED <<stop, known, mu, bound, stray, routes, left>>

\* The ports found bound go back, one by one.
LetGo(s, p) ==
    /\ sess[s].at \in {"settle", "giveup"} /\ p \in sess[s].tried
    /\ Release(Hub, p)
    /\ Becomes(s, [sess[s] EXCEPT !.tried = @ \ {p}])
    /\ UNCHANGED <<stop, known, mu, bound, stray, routes, left>>

\* Mutant: the address of the first port that was tried.
ServeFirst(s) ==
    /\ sess[s].at = "settle" /\ sess[s].tried = {}
    /\ Becomes(s, [sess[s] EXCEPT !.at = "route", !.addr = 1, !.hook = TRUE])
    /\ UNCHANGED <<pool, stop, known, mu, bound, stray, routes, left>>

LetGoFails(s, p) ==
    /\ sess[s].at \in {"settle", "giveup"} /\ p \in sess[s].tried /\ Snag
    /\ ReleaseFails(Hub)
    /\ Becomes(s, [sess[s] EXCEPT !.tried = @ \ {p}, !.kept = @ \cup {p}])
    /\ UNCHANGED <<stop, known, mu, bound, stray, routes>>

\* The server serves; its address is read off the session.
Serve(s) ==
    /\ sess[s].at = "settle" /\ sess[s].tried = {}
    /\ Becomes(s, [sess[s] EXCEPT !.at = "route", !.addr = sess[s].port, !.hook = TRUE])
    /\ UNCHANGED <<pool, stop, known, mu, bound, stray, routes, left>>

GoLive(s) ==
    /\ sess[s].at = "route"
    /\ routes' = [routes EXCEPT ![s] = sess[s].addr]
    /\ Becomes(s, [sess[s] EXCEPT !.at = "live", !.routed = TRUE])
    /\ UNCHANGED <<pool, stop, known, mu, bound, stray, left>>

\* AddRoute removes any route of that id and adds the new one; it may fail after
\* neither, one or both, or give up a call that Caddy carries out later.  The
\* server is closed and the slot given up, but not the route.
RouteFails(s) ==
    /\ sess[s].at = "route" /\ Snag
    /\ \E r \in {routes[s], None, sess[s].addr} : routes' = [routes EXCEPT ![s] = r]
    /\ IF sess[s].hook THEN Unbind(s) ELSE UNCHANGED <<bound, stray>>
    /\ Becomes(s, [sess[s] EXCEPT !.at = "giveup", !.hook = FALSE, !.late = "add"])
    /\ UNCHANGED <<pool, stop, known, mu>>

\* Caddy carries out a call the manager gave up on.
RouteLands(s) ==
    /\ sess[s].late # "none"
    /\ routes' = [routes EXCEPT ![s] = IF sess[s].late = "add" THEN sess[s].addr ELSE None]
    /\ UNCHANGED <<pool, sess, stop, known, mu, bound, stray, left>>

\* Unreserve: out of the map under the mutex, then the port goes back.
Unreserve(s) ==
    /\ sess[s].at = "giveup" /\ sess[s].tried = {} /\ mu = Nobody
    /\ known' = known \ {s}
    /\ Goes(s, "return")
    /\ UNCHANGED <<pool, stop, mu, bound, stray, routes, left>>

Return(s) ==
    /\ sess[s].at = "return"
    /\ IF sess[s].port # 0 THEN Release(Hub, sess[s].port) ELSE UNCHANGED pool
    /\ Becomes(s, Ended(s))
    /\ UNCHANGED <<stop, known, mu, bound, stray, routes, left>>

\* A release that fails goes unheeded.
ReturnFails(s) ==
    /\ sess[s].at = "return" /\ sess[s].port # 0 /\ Snag
    /\ ReleaseFails(Hub)
    /\ Becomes(s, Over([sess[s] EXCEPT !.kept = @ \cup {sess[s].port}]))
    /\ UNCHANGED <<stop, known, mu, bound, stray, routes>>

LaunchStep(s) ==
    \/ AskPort(s) \/ SlotTaken(s) \/ Bind(s) \/ Advance(s) \/ Serve(s) \/ GoLive(s)
    \/ Unreserve(s) \/ Return(s) \/ \E p \in Port : LetGo(s, p)

LaunchFails(s) ==
    \/ BindFails(s) \/ RouteFails(s) \/ ReturnFails(s) \/ \E p \in Port : LetGoFails(s, p)

-----------------------------------------------------------------------------
(* Stop.  A part that fails keeps the session, for another stop; the other   *)
(* parts are done all the same.                                              *)

StopAt(s, pc)    == stop' = [stop EXCEPT ![s].at = pc]
StopFails(s, pc) == Snag /\ stop' = [stop EXCEPT ![s] = [at |-> pc, failed |-> TRUE]]

StopBegins(s) ==
    /\ stop[s] = NoStop /\ s \in known /\ mu = Nobody
    /\ StopAt(s, "backend")
    /\ IF sess[s].at = "live"
          THEN UNCHANGED <<sess, left>>
          ELSE Spend("hasty") /\ Becomes(s, [sess[s] EXCEPT !.hasty = TRUE])
    /\ UNCHANGED <<pool, known, mu, bound, stray, routes>>

StopBackend(s) ==
    /\ stop[s].at = "backend"
    /\ StopAt(s, "port")
    /\ IF sess[s].hook THEN Unbind(s) ELSE UNCHANGED <<bound, stray>>
    /\ Becomes(s, [sess[s] EXCEPT !.hook = FALSE])
    /\ UNCHANGED <<pool, known, mu, routes, left>>

StopPort(s) ==
    /\ stop[s].at = "port"
    /\ StopAt(s, "route")
    /\ IF sess[s].port # 0
          THEN Release(Hub, sess[s].port) /\ Becomes(s, [sess[s] EXCEPT !.port = 0])
          ELSE UNCHANGED <<pool, sess>>
    /\ UNCHANGED <<known, mu, bound, stray, routes, left>>

StopPortFails(s) ==
    /\ stop[s].at = "port" /\ sess[s].port # 0
    /\ ReleaseFails(Hub) /\ StopFails(s, "route")
    /\ UNCHANGED <<sess, known, mu, bound, stray, routes>>

StopRoute(s) ==
    /\ stop[s].at = "route"
    /\ StopAt(s, "forget")
    /\ IF sess[s].routed
          THEN /\ routes' = [routes EXCEPT ![s] = None]
               /\ Becomes(s, [sess[s] EXCEPT !.routed = FALSE])
          ELSE UNCHANGED <<routes, sess>>
    /\ UNCHANGED <<pool, known, mu, bound, stray, left>>

\* The route may be gone all the same, now or later.
StopRouteFails(s) ==
    /\ stop[s].at = "route" /\ sess[s].routed /\ StopFails(s, "forget")
    /\ \E r \in {routes[s], None} : routes' = [routes EXCEPT ![s] = r]
    /\ Becomes(s, [sess[s] EXCEPT !.late = "remove"])
    /\ UNCHANGED <<pool, known, mu, bound, stray>>

\* Mutant: the session is forgotten whatever failed.
ForgetAnyway(s) ==
    /\ stop[s].at = "forget" /\ mu = Nobody
    /\ stop' = [stop EXCEPT ![s] = NoStop]
    /\ known' = known \ {s}
    /\ IF sess[s].hasty THEN UNCHANGED sess ELSE Becomes(s, Ended(s))
    /\ UNCHANGED <<pool, mu, bound, stray, routes, left>>

\* The session is out of the map; a launch of it that still runs goes on.
StopForgets(s) ==
    /\ stop[s].at = "forget" /\ ~ stop[s].failed /\ mu = Nobody
    /\ stop' = [stop EXCEPT ![s] = NoStop]
    /\ known' = known \ {s}
    /\ IF sess[s].hasty THEN UNCHANGED sess ELSE Becomes(s, Ended(s))
    /\ UNCHANGED <<pool, mu, bound, stray, routes, left>>

\* The session stays, for another stop.
StopGivesUp(s) ==
    /\ stop[s].at = "forget" /\ stop[s].failed
    /\ stop' = [stop EXCEPT ![s] = NoStop]
    /\ UNCHANGED <<pool, sess, known, mu, bound, stray, routes, left>>

StopStep(s) ==
    StopBackend(s) \/ StopPort(s) \/ StopRoute(s) \/ StopForgets(s) \/ StopGivesUp(s)

-----------------------------------------------------------------------------
(* The daemon's clients, and what befalls the processes.                    *)

Ask(d) ==
    /\ sess[d].at = "idle" /\ left.clients
    /\ Allocate(Daemon, d, left.ports)
    /\ Goes(d, "asked")
    /\ UNCHANGED <<stop, known, mu, bound, stray, routes, left>>

Told(d) ==
    /\ sess[d].at = "asked" /\ Answers(Daemon, d)
    /\ Hangup(Daemon)
    /\ Becomes(d, IF alloc[Daemon].port = 0 THEN Fresh
                  ELSE [sess[d] EXCEPT !.at = "held", !.port = alloc[Daemon].port])
    /\ UNCHANGED <<stop, known, mu, bound, stray, routes, left>>

GiveBack(d) ==
    /\ sess[d].at = "held"
    /\ Release(Daemon, sess[d].port)
    /\ Becomes(d, Fresh)
    /\ UNCHANGED <<stop, known, mu, bound, stray, routes, left>>

\* Another program comes to listen on a port of the range, and goes.
Squat(p) ==
    /\ \/ bound[p] = Nobody /\ Spend("squats") /\ bound' = [bound EXCEPT ![p] = Stranger]
       \/ bound[p] = Stranger /\ UNCHANGED left /\ bound' = [bound EXCEPT ![p] = Nobody]
    /\ UNCHANGED <<pool, sess, stop, known, mu, stray, routes>>

Dies(c) ==
    /\ Spend("deaths")
    /\ alloc' = [alloc EXCEPT ![c] = NoCall]
    /\ UNCHANGED <<files, locks, routes>>

\* What is left of a session: a route call under way may still be carried out.
Cut(e) ==
    [Fresh EXCEPT !.at = "dead", !.addr = e.addr, !.late = IF e.at = "route" THEN "add" ELSE e.late]

\* The hub dies: its listeners close; reservations, locks and routes stay.
HubDies ==
    /\ Dies(Hub)
    /\ sess' = [s \in Owner |-> IF s \in Preview /\ sess[s].at # "idle"
                                   THEN Cut(sess[s]) ELSE sess[s]]
    /\ stop' = [s \in Preview |-> NoStop]
    /\ known' = {} /\ mu' = Nobody
    /\ bound' = [p \in Port |-> IF bound[p] \in Preview THEN Nobody ELSE bound[p]]
    /\ stray' = {}

\* A client whose call was under way has no answer.
DaemonDies ==
    /\ alloc[Daemon] # NoCall
    /\ Dies(Daemon)
    /\ sess' = [s \in Owner |-> IF s \in Client /\ sess[s].at = "asked"
                                   THEN [Fresh EXCEPT !.at = "dead"] ELSE sess[s]]
    /\ UNCHANGED <<stop, known, mu, bound, stray>>

-----------------------------------------------------------------------------
others == <<sess, stop, known, mu, bound, stray, routes, left>>

PoolStep(c) == AllocStep(c) /\ UNCHANGED others
Ageing      == (\E p \in Port : Age(p) \/ AgeLock(p)) /\ UNCHANGED others
Demand      == (\E s \in Preview : Reserve(s)) \/ (\E d \in Client : Ask(d))

Next ==
    \/ \E s \in Preview : LaunchStep(s) \/ LaunchFails(s) \/ RouteLands(s)
    \/ \E s \in Preview :
          StopBegins(s) \/ StopStep(s) \/ StopPortFails(s) \/ StopRouteFails(s)
    \/ \E d \in Client : Told(d) \/ GiveBack(d)
    \/ Demand \/ \E c \in Proc : PoolStep(c)
    \/ Ageing \/ \E p \in Port : Squat(p)
    \/ HubDies \/ DaemonDies

\* Goroutines that run go on, time passes and previews are asked for; nobody
\* has to stop one.
Fairness ==
    /\ \A s \in Preview : WF_vars(LaunchStep(s)) /\ WF_vars(StopStep(s))
    /\ \A d \in Client : WF_vars(Told(d))
    /\ \A c \in Proc : WF_vars(PoolStep(c))
    /\ \A p \in Port : WF_vars(Age(p) /\ UNCHANGED others) /\ WF_vars(AgeLock(p) /\ UNCHANGED others)
    /\ WF_vars(Demand)

Spec     == Init /\ [][Next]_vars
FairSpec == Spec /\ Fairness

-----------------------------------------------------------------------------
(* Properties.                                                              *)

\* Never more sessions with a port than preview.max_concurrent, however
\* launches and stops interleave (preview/manager.go:520), a session stopped
\* while it was launching not counted: its launch may take a port anew.
CapHeld == Cardinality({ s \in Holding : ~ sess[s].hasty }) <= left.cap

\* A preview in the manager's list, live and not being stopped, is served at
\* its address and its route leads there, whatever the pool, other previews
\* and other programs did meanwhile.  One stopped before it was live is not
\* covered.
LiveIsServed ==
    \A s \in known :
        sess[s].at = "live" /\ sess[s].hook /\ ~ sess[s].hasty =>
            /\ sess[s].addr \in Port /\ bound[sess[s].addr] = s
            /\ stop[s].at \in {"none", "backend"} => routes[s] = sess[s].addr

\* A session that is over has left no listener and no place in the manager's
\* list, no reservation but of a port whose release failed unheeded, and no
\* route but one whose AddRoute failed: a stop that says it is done has removed
\* the route and returned the port, also when it took several, each port tried
\* on the way is returned, and so is a failed launch's.  One stopped while it
\* was launching, or cut by the death of its process, may leave any of them.
OverIsClean ==
    \A s \in Preview :
        sess[s].at \in {"idle", "over"} /\ ~ sess[s].hasty =>
            /\ s \notin stray \cup known
            /\ \A p \in Port : bound[p] # s /\ (files[p].owner = s => p \in sess[s].kept)
            /\ routes[s] # None => sess[s].late = "add"

\* A pool whose every reservation is one nobody will give back, because its
\* owner died or could not release it, does not stay so for ever while somebody
\* who lives wants a port: a crash, in a reclaim or out of one, never strands a
\* port for good, although it leaves the port's lock (portpool/portpool.go:98).
AllLost ==
    \A p \in 1..left.ports :
        files[p].owner \in Owner /\ sess[files[p].owner].at \in {"dead", "over"}
Wanted ==
    \/ left.clients /\ \E d \in Client : sess[d].at \in {"idle", "asked"}
    \/ Cardinality(Holding) < left.cap /\ \E s \in Preview : sess[s].at \in {"idle", "slot"}
PoolRecovers == AllLost /\ Wanted ~> ~ (AllLost /\ Wanted)
=============================================================================
