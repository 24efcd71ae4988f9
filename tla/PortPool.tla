-------------------------------- MODULE PortPool --------------------------------
(***************************************************************************)
(* The file-backed port pool (portpool/portpool.go): one reservation file   *)
(* per port in a directory several processes share.  A claim is a hard      *)
(* link, which fails when the file is there; a reservation too old is       *)
(* removed and claimed anew under the port's lock file, itself broken when   *)
(* its holder has died.  Each file operation is a step; inside one process  *)
(* a mutex admits one call at a time.                                        *)
(***************************************************************************)
EXTENDS Naturals

CONSTANTS
    NPorts,     \* ports of the widest range
    Proc,       \* processes with an allocator over the directory
    Owner,      \* whom ports are reserved for
    Nobody

ASSUME RangeAssumption == NPorts \in Nat \ {0}     \* New refuses an empty range

VARIABLES
    files,  \* per port, its reservation: the owner, and whether it is stale by age
    locks,  \* per port, its reclaim lock: the process that made it, and whether it is old
    alloc   \* per process, the Allocate call under way

pool == <<files, locks, alloc>>

Port     == 1..NPorts
Free     == [owner |-> Nobody, old |-> FALSE]
Unlocked == [by |-> Nobody, old |-> FALSE]
NoCall   == [at |-> "none"]

PoolInit ==
    /\ files = [p \in Port |-> Free]
    /\ locks = [p \in Port |-> Unlocked]
    /\ alloc = [c \in Proc |-> NoCall]

Reserved(p) == files[p] # Free

\* A reservation that is not there cannot be read, and counts as stale.
Stale(p) == files[p] = Free \/ files[p].old

CallAt(c, pc) == alloc' = [alloc EXCEPT ![c] = [@ EXCEPT !.at = pc]]

\* The next port is tried, or the range is exhausted.
Beyond(c) ==
    alloc' = [alloc EXCEPT ![c] =
                IF alloc[c].port < alloc[c].last
                  THEN [alloc[c] EXCEPT !.at = "claim", !.port = @ + 1]
                  ELSE [alloc[c] EXCEPT !.at = "done", !.port = 0]]

\* `last` is the last port of the allocator's configured range.
Allocate(c, s, last) ==
    /\ alloc[c] = NoCall
    /\ alloc' = [alloc EXCEPT ![c] = [at |-> "claim", port |-> 1, last |-> last, for |-> s]]
    /\ UNCHANGED <<files, locks>>

\* The claim outside the lock: whoever links first has the port.
TryClaim(c) ==
    /\ alloc[c].at = "claim"
    /\ IF Reserved(alloc[c].port)
          THEN CallAt(c, "look") /\ UNCHANGED files
          ELSE /\ files' = [files EXCEPT ![alloc[c].port] = [owner |-> alloc[c].for, old |-> FALSE]]
               /\ CallAt(c, "done")
    /\ UNCHANGED locks

Look(c) ==
    /\ alloc[c].at = "look"
    /\ IF Stale(alloc[c].port) THEN CallAt(c, "lock") ELSE Beyond(c)
    /\ UNCHANGED <<files, locks>>

\* Mutant: a lock is never broken.
TakeFreeLock(c) ==
    /\ alloc[c].at = "lock"
    /\ LET p == alloc[c].port
       IN  IF locks[p] = Unlocked
              THEN /\ locks' = [locks EXCEPT ![p] = [by |-> c, old |-> FALSE]]
                   /\ CallAt(c, "recheck")
              ELSE Beyond(c) /\ UNCHANGED locks
    /\ UNCHANGED files

\* A lock that is there is another reclaimer's, and the port is passed over;
\* one too old is a dead holder's.
TakeLock(c) ==
    /\ alloc[c].at = "lock"
    /\ LET p == alloc[c].port
       IN  \/ /\ locks[p] = Unlocked
              /\ locks' = [locks EXCEPT ![p] = [by |-> c, old |-> FALSE]]
              /\ CallAt(c, "recheck")
           \/ /\ locks[p] # Unlocked
              /\ IF locks[p].old THEN CallAt(c, "break") ELSE Beyond(c)
              /\ UNCHANGED locks
    /\ UNCHANGED files

\* Whatever lock file is there by now is removed.
BreakLock(c) ==
    /\ alloc[c].at = "break"
    /\ locks' = [locks EXCEPT ![alloc[c].port] = Unlocked]
    /\ CallAt(c, "relock")
    /\ UNCHANGED files

Relock(c) ==
    /\ alloc[c].at = "relock"
    /\ IF locks[alloc[c].port] = Unlocked
          THEN /\ locks' = [locks EXCEPT ![alloc[c].port] = [by |-> c, old |-> FALSE]]
               /\ CallAt(c, "recheck")
          ELSE Beyond(c) /\ UNCHANGED locks
    /\ UNCHANGED files

Recheck(c) ==
    /\ alloc[c].at = "recheck"
    /\ CallAt(c, IF Stale(alloc[c].port) THEN "remove" ELSE "lost")
    /\ UNCHANGED <<files, locks>>

Remove(c) ==
    /\ alloc[c].at = "remove"
    /\ files' = [files EXCEPT ![alloc[c].port] = Free]
    /\ CallAt(c, "link")
    /\ UNCHANGED locks

\* A claim from outside the lock may have come first.
Link(c) ==
    /\ alloc[c].at = "link"
    /\ IF Reserved(alloc[c].port)
          THEN CallAt(c, "lost") /\ UNCHANGED files
          ELSE /\ files' = [files EXCEPT ![alloc[c].port] = [owner |-> alloc[c].for, old |-> FALSE]]
               /\ CallAt(c, "won")
    /\ UNCHANGED locks

\* The lock file goes, whosever it is.
Unlock(c) ==
    /\ alloc[c].at \in {"won", "lost"}
    /\ locks' = [locks EXCEPT ![alloc[c].port] = Unlocked]
    /\ IF alloc[c].at = "won" THEN CallAt(c, "done") ELSE Beyond(c)
    /\ UNCHANGED files

AllocStep(c) ==
    \/ TryClaim(c) \/ Look(c) \/ TakeLock(c) \/ BreakLock(c) \/ Relock(c)
    \/ Recheck(c) \/ Remove(c) \/ Link(c) \/ Unlock(c)

\* The call has its answer: a port, or 0.
Answers(c, s) == alloc[c].at = "done" /\ alloc[c].for = s
Hangup(c)     == alloc' = [alloc EXCEPT ![c] = NoCall] /\ UNCHANGED <<files, locks>>

\* Release is by port, whoever holds it; one not reserved is no error.
Release(c, p) ==
    /\ alloc[c] = NoCall
    /\ files' = [files EXCEPT ![p] = Free]
    /\ UNCHANGED <<locks, alloc>>

\* The file cannot be removed.
ReleaseFails(c) == alloc[c] = NoCall /\ UNCHANGED pool

-----------------------------------------------------------------------------
(* Time.  A reservation is stale after two days and a lock after half a      *)
(* minute: longer than the call that made it takes.                          *)

Age(p) ==
    /\ Reserved(p) /\ ~ files[p].old
    /\ \A c \in Proc : alloc[c] # NoCall => alloc[c].for # files[p].owner
    /\ files' = [files EXCEPT ![p].old = TRUE]
    /\ UNCHANGED <<locks, alloc>>

Reclaims(c, p) ==
    /\ alloc[c].at \in {"recheck", "remove", "link", "won", "lost"}
    /\ alloc[c].port = p

AgeLock(p) ==
    /\ locks[p] # Unlocked /\ ~ locks[p].old /\ ~ Reclaims(locks[p].by, p)
    /\ locks' = [locks EXCEPT ![p].old = TRUE]
    /\ UNCHANGED <<files, alloc>>

-----------------------------------------------------------------------------

\* A reclaimer never removes a fresh reservation: portpool.go:249 says of the
\* section under the lock that it "never removes a fresh one".
FreshIsNotRemoved ==
    \A c \in Proc : alloc[c].at = "remove" => Stale(alloc[c].port)
=============================================================================
