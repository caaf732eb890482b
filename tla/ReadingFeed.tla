---------------------------- MODULE ReadingFeed ----------------------------
(***************************************************************************)
(* What ingestion promises to whoever counts readings or watches them, and *)
(* nothing of the buffer, the threads and the retries behind it: rows that *)
(* nobody has stored are committed a batch at a time, a row stays once it  *)
(* is there, and what one commit has added to a session is shown row by    *)
(* row after the commit, each once, unless showing them fails.  A reading  *)
(* may also be shown once, ahead of its row, as provisional.               *)
(***************************************************************************)
EXTENDS Naturals

CONSTANT Readings

VARIABLES
  stored,    \* committed rows
  pending,   \* rows of committed batches that are still to be shown
  frames,    \* how often each row was shown
  previews   \* readings shown as provisional

vars == <<stored, pending, frames, previews>>

Init ==
  /\ stored = {}
  /\ pending = {}
  /\ frames = [r \in Readings |-> 0]
  /\ previews = {}

\* A batch belongs to a session, or to none and is not shown.
Store ==
  \E batch \in SUBSET (Readings \ stored) :
    /\ batch # {}
    /\ stored' = stored \cup batch
    /\ pending' \in {pending, pending \cup batch}
    /\ UNCHANGED <<frames, previews>>

Show ==
  \E r \in pending :
    /\ pending' = pending \ {r}
    /\ frames' = [frames EXCEPT ![r] = @ + 1]
    /\ UNCHANGED <<stored, previews>>

Lose ==
  /\ pending' \in SUBSET pending
  /\ UNCHANGED <<stored, frames, previews>>

Preview ==
  \E r \in Readings \ previews :
    /\ previews' = previews \cup {r}
    /\ UNCHANGED <<stored, pending, frames>>

Next == Store \/ Show \/ Lose \/ Preview

Spec == Init /\ [][Next]_vars
=============================================================================
