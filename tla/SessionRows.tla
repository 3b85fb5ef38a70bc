---------------------------- MODULE SessionRows ----------------------------
(***************************************************************************)
(* What the local reading-session table of one browser profile promises,   *)
(* whatever tabs, locks, leases and crashes produce it.                    *)
(*                                                                         *)
(* A row is one foreground reading run.  At most one run is open; a run    *)
(* only grows; a closed run never changes again; each change of a run      *)
(* takes the next revision; and no two runs share a moment of time.        *)
(* SessionTracker implements this specification with the code's own steps  *)
(* and CheckpointSync assumes it of the rows it uploads.                   *)
(***************************************************************************)
EXTENDS Naturals

CONSTANTS Sids,      \* the client session ids a profile can draw
          Instants   \* the instants a clock can show

VARIABLE rows     \* [Sids -> Row]: the sessions table

Row == [state : {"none", "open", "closed"}, start : Nat, beat : Nat, rev : Nat]

\* An id nobody has drawn yet.
NoRow == [state |-> "none", start |-> 0, beat |-> 0, rev |-> 0]

\* createSessionRow: revision 1, an empty run that starts now.
NewRow(at) == [state |-> "open", start |-> at, beat |-> at, rev |-> 1]

\* sealSession: close the run at its last durable checkpoint, or at `at'.
Seal(row, at) == [row EXCEPT !.state = "closed", !.beat = at,
                             !.rev = row.rev + 1]

\* sealAbandonedSessions: every open row closes at its own last heartbeat.
SealAll(table) ==
  [s \in Sids |-> IF table[s].state = "open"
                    THEN Seal(table[s], table[s].beat) ELSE table[s]]

Open == {s \in Sids : rows[s].state = "open"}

Used == {s \in Sids : rows[s].state # "none"}

-----------------------------------------------------------------------------
Init == rows = [s \in Sids |-> NoRow]

\* A new run takes the place of any run left open, and starts no earlier
\* than any other run has ended.
Begin(s, at) ==
  /\ rows[s].state = "none"
  /\ \A other \in Used : rows[other].beat <= at
  /\ rows' = [SealAll(rows) EXCEPT ![s] = NewRow(at)]

\* The open run grows to `at', and may end there.
Grow(s, at) ==
  /\ rows[s].state = "open"
  /\ rows[s].beat <= at
  /\ \E row \in {Seal(rows[s], at),
                 [rows[s] EXCEPT !.beat = at, !.rev = rows[s].rev + 1]} :
        rows' = [rows EXCEPT ![s] = row]

\* The run left open by a document that is gone ends where it was saved.
Abandon ==
  /\ Open # {}
  /\ rows' = SealAll(rows)

Next ==
  \/ \E s \in Sids, at \in Instants : Begin(s, at) \/ Grow(s, at)
  \/ Abandon

Spec == Init /\ [][Next]_rows

-----------------------------------------------------------------------------
(* What the promise comes to.                                              *)

TypeOK == rows \in [Sids -> Row]

\* At most one run is recorded at a time in a profile, whatever its tabs do
\* (createSessionRow follows sealAbandonedSessions in one transaction).
OneOpen == \A r, s \in Open : r = s

\* Two runs of a profile never share time, so a duplicate tab adds none to a
\* total that sums them (sessionSpan).
DisjointRuns ==
  \A r, s \in Used : r # s =>
    rows[r].beat <= rows[s].start \/ rows[s].beat <= rows[r].start

\* A closed run never changes, and an open one never shrinks, moves or takes a
\* revision back: the server may count a run by its greatest revision.
RunsOnlyGrow ==
  [][\A s \in Used :
       /\ rows'[s].start = rows[s].start /\ rows'[s].beat >= rows[s].beat
       /\ rows'[s] # rows[s] => rows[s].state = "open" /\ rows'[s].rev = rows[s].rev + 1]_rows
=============================================================================
