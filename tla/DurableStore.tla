------------------------------ MODULE DurableStore ------------------------------
(***************************************************************************)
(* The append-only store (DurableStore in src/src/persistence.cpp): a      *)
(* journal file, a snapshot file that is replaced by renaming, and the     *)
(* process that appends, compacts, is killed and loads what it left.       *)
(*                                                                         *)
(* A file is the sequence of the pieces written to it.  A complete record  *)
(* is its sequence number; its type, payload and checksum are right.  A    *)
(* piece that is not a complete record is Header, or the rest of an        *)
(* interrupted write: Part of a header, Torn of a record.  No snapshot and *)
(* a snapshot of no records load alike and are both <<>>.                  *)
(*                                                                         *)
(* A crash may end the process between any two steps and loses what stdio  *)
(* had not written; what the operating system took stays.  A failed write  *)
(* drops the stdio buffer.                                                 *)
(***************************************************************************)
EXTENDS Integers, Sequences, SequencesExt, FiniteSetsExt

CONSTANTS
  Faults,              \* what may go wrong, of "header", "write", "sync":
                       \*   header: the write of a journal header fails
                       \*   write:  an append fails with its bytes written in part
                       \*   sync:   an append fails with its bytes written in full
  MaxJournalRecords,   \* limits.max_journal_records
  MaxSequence,         \* bound of the model on the record sequences
  MaxPieces            \* bound of the model on the pieces in the journal

ASSUME StoreAssumption ==
  /\ Faults \subseteq {"header", "write", "sync"}
  /\ MaxJournalRecords \in Nat /\ MaxSequence \in Nat /\ MaxPieces \in Nat

Header == -1
Part   == -2
Torn   == -3

VARIABLES
  exists,     \* the journal file exists
  journal,    \* its pieces
  buffered,   \* the header is in the stdio buffer, not in the file
  snapshot,   \* the records of the snapshot file
  phase,      \* "down", "loaded", "open", "renamed", "emptied", "closed", "refused"
  records,    \* records_, whose last sequence is highest_sequence_
  good,       \* journal_good_bytes_, in pieces
  acked,      \* history: the records whose append returned true
  headless    \* history: the journal was left without its header

vars == <<exists, journal, buffered, snapshot, phase, records, good, acked, headless>>

Init ==
  /\ exists = FALSE /\ journal = <<>> /\ buffered = FALSE /\ snapshot = <<>>
  /\ phase = "down" /\ records = <<>> /\ good = 0 /\ acked = <<>>
  /\ headless = FALSE

FirstOf(s) == IF s = <<>> THEN 0 ELSE Head(s)
LastOf(s)  == IF s = <<>> THEN 0 ELSE Last(s)

-----------------------------------------------------------------------------
(* load.                                                                   *)

\* The leading pieces of the body that are complete records.
Whole(body) ==
  SubSeq(body, 1, Min({Len(body)} \cup {i - 1 : i \in {j \in 1..Len(body) : body[j] = Torn}}))

\* The records that are above a watermark, in their order.  (SelectSeq without
\* its recursion.)
Above(s, n) ==
  LET places == {i \in 1..Len(s) : s[i] > n}
  IN  [k \in 1..Cardinality(places) |->
         s[CHOOSE i \in places : Cardinality({j \in places : j <= i}) = k]]

\* The comparison with the watermark off by one.
BeyondNext(image, body) == Above(Whole(body), LastOf(image) + 1)

\* The journal records the snapshot does not contain already.
Beyond(image, body) == Above(Whole(body), LastOf(image))

Increasing(s) == \A i, j \in 1..Len(s) : i < j => s[i] < s[j]

\* An incomplete record with bytes after it is read on into those bytes: they
\* fail the checksum, or are too few for the length it declares and pass for
\* a torn tail.
Spliced(body) == Len(Whole(body)) + 1 < Len(body)

\* An empty file counts as a journal of no records; any other has its header.
Readable(file) == FirstOf(file) \in {0, Header}

Body(file) == SubSeq(file, 2, Len(file))

\* A load that does not expect journal records the snapshot already has.
LoadableInOrder ==
  /\ Len(snapshot) <= MaxJournalRecords
  /\ exists => Readable(journal) /\ Increasing(snapshot \o Whole(Body(journal)))

\* load finds nothing to refuse.
Loadable ==
  /\ Len(snapshot) <= MaxJournalRecords
  /\ exists => Readable(journal) /\ Increasing(snapshot \o Beyond(snapshot, Body(journal)))

\* What load replays.
Replayed == snapshot \o Beyond(snapshot, Body(journal))

Load ==
  /\ phase = "down" /\ Loadable
  /\ phase' = "loaded"
  /\ records' = Replayed
  /\ good' = IF journal = <<>> THEN 0 ELSE 1 + Len(Whole(Body(journal)))
  /\ UNCHANGED <<exists, journal, buffered, snapshot, acked, headless>>

RefuseLoad ==
  /\ phase = "down"
  /\ ~Loadable \/ Spliced(Body(journal))
  /\ phase' = "refused"
  /\ UNCHANGED <<exists, journal, buffered, snapshot, records, good, acked, headless>>

-----------------------------------------------------------------------------
(* open_for_append and append.                                             *)

\* A torn tail is kept.
Trimmed(file, size) == file

\* The file cut back to the pieces load found good; left alone if there were
\* none, the header missing included.
Trim(file, size) == IF size > 0 THEN SubSeq(file, 1, size) ELSE file

\* A new journal gets its header when stdio next writes.
OpenForAppend ==
  /\ phase = "loaded"
  /\ phase' = "open"
  /\ exists' = TRUE
  /\ buffered' = ~exists
  /\ journal' = Trim(journal, good)
  /\ good' = IF exists THEN good ELSE 1
  /\ UNCHANGED <<snapshot, records, acked, headless>>

\* The file once the buffered header, if any, is written.
Flushed == IF buffered THEN Append(journal, Header) ELSE journal

\* The sequence commit_record gives the next record.
NextSequence == LastOf(records) + 1

CanAppend == phase = "open" /\ NextSequence <= MaxSequence /\ Len(journal) < MaxPieces

AppendRecord ==
  /\ CanAppend
  /\ journal' = Append(Flushed, NextSequence)
  /\ buffered' = FALSE
  /\ records' = Append(records, NextSequence)
  /\ good' = good + 1
  /\ acked' = Append(acked, NextSequence)
  /\ UNCHANGED <<exists, snapshot, phase, headless>>

\* What may be in the file after an append that does not return true.
Leftover(how) ==
  CASE how = "none"   -> journal
    [] how = "part"   -> IF buffered THEN Append(journal, Part) ELSE journal
    [] how = "header" -> Flushed
    [] how = "torn"   -> Append(Flushed, Torn)
    [] how = "whole"  -> Append(Flushed, NextSequence)

Interruptions == {"none", "part", "header", "torn", "whole"}

\* The journal is left without its header: now, or when it was last left empty.
Headless(file) == FirstOf(file) # Header /\ (headless \/ file \in {<<>>, <<Part>>})

\* The fault behind an append that returns false.
FaultOf(how) ==
  IF how = "whole" THEN "sync"
  ELSE IF buffered /\ how \in {"none", "part"} THEN "header" ELSE "write"

\* append returns false: nothing is remembered of what was written, the header
\* that was to go before it included.
FailAppend(how) ==
  /\ CanAppend
  /\ FaultOf(how) \in Faults
  /\ journal' = Leftover(how)
  /\ headless' = Headless(journal')
  /\ buffered' = FALSE
  /\ UNCHANGED <<exists, snapshot, phase, records, good, acked>>

-----------------------------------------------------------------------------
(* compact, close and the end of the process.                              *)

\* A compaction that never renames the temporary file.
SkipSnapshot ==
  /\ phase = "open"
  /\ phase' = "renamed"
  /\ UNCHANGED <<exists, journal, buffered, snapshot, records, good, acked, headless>>

\* write_snapshot: the temporary file is complete when it is renamed.
WriteSnapshot ==
  /\ phase = "open"
  /\ snapshot' = records
  /\ phase' = "renamed"
  /\ UNCHANGED <<exists, journal, buffered, records, good, acked, headless>>

\* truncate_journal, first half: the journal is flushed, closed and opened
\* again, which empties it.
TruncateJournal ==
  /\ phase = "renamed"
  /\ journal' = <<>>
  /\ buffered' = FALSE
  /\ phase' = "emptied"
  /\ UNCHANGED <<exists, snapshot, records, good, acked, headless>>

\* truncate_journal, second half: the header is written and synced and the
\* journal opened for append again.
RewriteHeader ==
  /\ phase = "emptied"
  /\ journal' = <<Header>>
  /\ good' = 1
  /\ phase' = "open"
  /\ headless' = FALSE
  /\ UNCHANGED <<exists, buffered, snapshot, records, acked>>

\* The journal cannot be flushed (its header is still buffered): it stays open.
FailFlush ==
  /\ phase = "renamed" /\ buffered /\ "header" \in Faults
  /\ journal' \in {<<>>, <<Part>>}
  /\ headless' = TRUE
  /\ phase' = "open"
  /\ buffered' = FALSE
  /\ UNCHANGED <<exists, snapshot, records, good, acked>>

\* The journal cannot be opened to empty it: the store is left closed.
FailEmpty ==
  /\ phase = "renamed"
  /\ journal' = Flushed
  /\ phase' = "closed"
  /\ buffered' = FALSE
  /\ UNCHANGED <<exists, snapshot, records, good, acked, headless>>

\* The header cannot be written, or not be synced, or the journal not be opened
\* again after it: the store is left closed.
FailRewrite ==
  /\ phase = "emptied"
  /\ journal' \in {<<Header>>} \cup {f \in {<<>>, <<Part>>} : "header" \in Faults}
  /\ headless' = (journal' # <<Header>>)
  /\ phase' = "closed"
  /\ UNCHANGED <<exists, buffered, snapshot, records, good, acked>>

Close ==
  /\ phase = "open"
  /\ journal' = Flushed
  /\ buffered' = FALSE
  /\ phase' = "closed"
  /\ UNCHANGED <<exists, snapshot, records, good, acked, headless>>

\* The process ends, in the middle of an append or a compaction too.
Crash ==
  /\ phase \notin {"down", "refused"}
  /\ journal' \in {journal}
        \cup {Leftover(how) : how \in {i \in Interruptions : CanAppend}}
        \cup {f \in {<<Part>>, <<Header>>} : phase = "emptied"}
  /\ headless' = IF exists THEN Headless(journal') ELSE headless
  /\ phase' = "down"
  /\ buffered' = FALSE /\ records' = <<>> /\ good' = 0
  /\ UNCHANGED <<exists, snapshot, acked>>

Next ==
  \/ Load \/ RefuseLoad \/ OpenForAppend
  \/ AppendRecord \/ \E how \in Interruptions : FailAppend(how)
  \/ WriteSnapshot \/ TruncateJournal \/ RewriteHeader
  \/ FailFlush \/ FailEmpty \/ FailRewrite \/ Close \/ Crash

Spec == Init /\ [][Next]_vars

-----------------------------------------------------------------------------
(* Properties.                                                             *)

\* The journal is made of a header, records and torn ends, and every record,
\* of the files and in memory, is numbered from one up to the bound: the first
\* append does not take the zero of an empty store (commit_record).
TypeOK ==
  /\ exists \in BOOLEAN /\ buffered \in BOOLEAN
  /\ journal \in Seq({Header, Part, Torn} \cup 1..MaxSequence)
  /\ snapshot \in Seq(1..MaxSequence) /\ records \in Seq(1..MaxSequence)
  /\ phase \in {"down", "loaded", "open", "renamed", "emptied", "closed", "refused"}
  /\ good \in Nat /\ headless \in BOOLEAN

\* No acknowledged record is missing from what a load has accepted: a record
\* whose append returned true is found again or the store is refused, across
\* crashes in appends and in compactions (load, append and compact together).
NoSilentLoss == phase \notin {"down", "refused"} => ToSet(acked) \subseteq ToSet(records)

\* A load refuses a store for one of two causes only.  A process ended after it
\* had created or emptied the journal and before the header was in it, so that
\* the journal does not begin with one (open_for_append, truncate_journal); or
\* the snapshot has more records than max_journal_records.  Killed anywhere
\* else, in an append or a compaction, a store loads.
RefusalHasCause ==
  phase = "refused" =>
    \/ headless /\ ~Readable(journal)
    \/ Len(snapshot) > MaxJournalRecords

\* A torn write is always the end of the journal, never followed by another
\* record (append's comment on its single fwrite, and the truncation in
\* open_for_append).
TornOnlyLast == \A i \in 1..Len(journal) : journal[i] = Torn => i = Len(journal)

\* What follows the place of the header, whether a header is there or not.
Pieces(file) == IF FirstOf(file) \in {Header, Part} THEN Body(file) ELSE file

\* The records the two files hold, readable or not.
OnFile == snapshot \o Beyond(snapshot, Pieces(journal))

HeaderState ==
  CASE journal = <<>> -> "absent"
    [] FirstOf(journal) = Header -> "whole"
    [] OTHER -> "lost"

\* The records on file only grow, by the record being appended, and a process
\* that loads them has all of them: the steps of a compaction and a crash
\* between any two of them leave the records as they are.  What such a crash
\* can cost is the header, and then no process is given the records again.
Log == INSTANCE DurableLog WITH
         log    <- OnFile,
         view   <- IF phase \in {"down", "refused"} THEN <<>> ELSE records,
         header <- HeaderState

ImplementsLog == Log!Spec

-----------------------------------------------------------------------------
(* What the documentation says and the code does not do.                   *)

\* Nothing was ever acknowledged from a store that is refused.
RefusedStoreIsEmpty == phase = "refused" => acked = <<>>

\* A record is never the first thing in a journal, where its header belongs.
NoHeaderlessRecords == FirstOf(journal) <= 0

\* The table of journal records is bounded by its limit.
RecordsBounded == Len(records) <= MaxJournalRecords
=============================================================================
