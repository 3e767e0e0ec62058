------------------------------- MODULE LogRing -------------------------------
(***************************************************************************)
(* The in-memory log of the status page (log.go): every log.Print goes to  *)
(* the journal and then into a ring of the last Size lines; the status     *)
(* handlers copy the ring.  Goroutines log and copy at the same time.  The *)
(* standard logger keeps its own mutex over both writes; the ring has a    *)
(* mutex of its own against the copies.                                    *)
(***************************************************************************)
EXTENDS Naturals, Sequences

CONSTANTS
    Writer, Reader, Line,
    Size,       \* edgecommanderLogTail
    MaxLines    \* bound: lines logged

ASSUME LogRingAssumption == Size \in Nat \ {0} /\ MaxLines \in Nat

VARIABLES
    journal,    \* everything logged, as stderr has it
    lines,      \* the ring
    logging,    \* the writers in the standard logger, one at a time
    pc,         \* where the writer in it is
    taken       \* per reader, the last snapshot it got

vars == <<journal, lines, logging, pc, taken>>

Init ==
    /\ journal = <<>>
    /\ lines = <<>>
    /\ logging = {}
    /\ pc = "out"
    /\ taken = [r \in Reader |-> <<>>]

\* The last of s, at most Size of them.
LastOf(s) == IF Len(s) <= Size THEN s ELSE SubSeq(s, Len(s) - Size + 1, Len(s))

RingIsLocked == pc = "trim"

\* The logger's mutex, then the first writer of the MultiWriter.
Log(w, l) ==
    /\ logging = {}
    /\ Len(journal) < MaxLines
    /\ logging' = {w}
    /\ journal' = Append(journal, l)
    /\ pc' = "ring"
    /\ UNCHANGED <<lines, taken>>

\* logRing.Write, under the ring's mutex: append, then copy the tail.
AppendLine(w) ==
    /\ logging = {w}
    /\ pc = "ring"
    /\ lines' = Append(lines, journal[Len(journal)])
    /\ pc' = "trim"
    /\ UNCHANGED <<journal, logging, taken>>

Trimmed_Reset == IF Len(lines) > Size THEN <<lines[Len(lines)]>> ELSE lines
Trimmed == IF Len(lines) > Size
           THEN SubSeq(lines, Len(lines) - Size + 1, Len(lines)) ELSE lines

Trim(w) ==
    /\ logging = {w}
    /\ pc = "trim"
    /\ lines' = Trimmed
    /\ logging' = {}
    /\ pc' = "out"
    /\ UNCHANGED <<journal, taken>>

Snapshot_Unlocked(r) ==
    /\ taken' = [taken EXCEPT ![r] = lines]
    /\ UNCHANGED <<journal, lines, logging, pc>>
Snapshot(r) ==
    /\ ~RingIsLocked
    /\ taken' = [taken EXCEPT ![r] = lines]
    /\ UNCHANGED <<journal, lines, logging, pc>>

Next ==
    \/ \E w \in Writer : AppendLine(w) \/ Trim(w) \/ \E l \in Line : Log(w, l)
    \/ \E r \in Reader : Snapshot(r)

Spec == Init /\ [][Next]_vars

-----------------------------------------------------------------------------
TypeOK ==
    /\ journal \in Seq(Line) /\ Len(journal) <= MaxLines
    /\ lines \in Seq(Line) /\ Len(lines) <= Size + 1
    /\ logging \subseteq Writer
    /\ pc \in {"out", "ring", "trim"}
    /\ taken \in [Reader -> Seq(Line)]

\* The lines the ring has taken in: all but the one on its way to it.
Ringed == IF pc = "ring" THEN SubSeq(journal, 1, Len(journal) - 1) ELSE journal

\* Between two writes the ring is the end of the journal: no line is lost,
\* repeated or out of order, however the goroutines interleave, and none older
\* than the last Size is kept (log.go:35-47).
RingIsTheTail == ~RingIsLocked => lines = LastOf(Ringed)

\* What the status page shows is the end of the journal as it is, or as it was
\* one line ago; never a ring in the middle of a write (log.go:49-57).
SnapshotIsCurrent ==
    [][\A r \in Reader : taken'[r] # taken[r] => taken'[r] = LastOf(Ringed)]_vars
=============================================================================
