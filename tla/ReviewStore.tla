----------------------------- MODULE ReviewStore -----------------------------
(***************************************************************************)
(* The review store of one deliverable: its revisions, the verdict slot of  *)
(* each, and the one schema of human comments and verification findings.    *)
(*                                                                          *)
(* Revisions are 1..current, minted in order.  A verdict slot fills once.   *)
(* A comment row is [what, rev, from, by]: `what` is its text (a finding    *)
(* key or a person's remark), `from` the run that filed it (0 for a         *)
(* person), `by` the attempt whose drain consumed it or NoAttempt while it  *)
(* is open.  An attempt is <<lineage run, round it feeds>>.                 *)
(***************************************************************************)
EXTENDS Naturals

CONSTANTS
    Finding,    \* keys a judge's blocker findings may have
    Remark,     \* what people may say about the deliverable
    NoAttempt   \* consumed by nobody

VARIABLES
    current,    \* deliverables.current_revision
    verdicts,   \* revisions whose verdict_ref is filled
    comments    \* review_comments

ASSUME AttemptAssumption == NoAttempt \notin Nat \X Nat

review == <<current, verdicts, comments>>

ReviewInit == current = 0 /\ verdicts = {} /\ comments = {}

OpenComments == { c \in comments : c.by = NoAttempt }

\* The next revision is minted, an existing one is read back, and a gap in
\* the numbering is refused.
Mintable(n) == n \in 1..(current + 1)

MintRevision(n) == current' = IF n > current THEN n ELSE current

\* Filled once; a second verdict on the same revision is refused.
SlotFree(n)      == n \in (1..current) \ verdicts
SetVerdictRef(n) == verdicts' = verdicts \cup {n}

\* A run files the same words once per revision, whatever became of them.
Filed(k, n, r) == \E c \in comments : c.what = k /\ c.rev = n /\ c.from = r
AddFindings(ks, n, r) ==
    comments' = comments \cup
        { [what |-> k, rev |-> n, from |-> r, by |-> NoAttempt] :
            k \in { j \in ks : ~ Filed(j, n, r) } }

\* A person's own remark, on the current revision; here each is made once.
AddComment(h) ==
    /\ current > 0 /\ ~ \E c \in comments : c.what = h /\ c.from = 0
    /\ comments' = comments \cup {[what |-> h, rev |-> current, from |-> 0, by |-> NoAttempt]}

\* Mutant: the stamp takes whatever is open when it is written.
DrainAllOpen(batch, a) ==
    comments' = (comments \ OpenComments) \cup { [c EXCEPT !.by = a] : c \in OpenComments }

\* The drain stamps the batch it read with the attempt that receives it, in
\* one transaction that fails when a row of the batch is no longer open.
Drain(batch, a) ==
    /\ batch \subseteq OpenComments
    /\ comments' = (comments \ batch) \cup { [c EXCEPT !.by = a] : c \in batch }
=============================================================================
