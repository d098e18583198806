---------------------------- MODULE JsonlWriter ----------------------------
(***************************************************************************)
(* The metrics JSONL file and its writers (src/jsonl.rs): processes that   *)
(* open the file under an advisory lock, check what is there, write the    *)
(* header of an empty file and append sample rows.                         *)
(*                                                                         *)
(* write_all hands one buffer (the object and its newline) to the kernel,  *)
(* which may take it piece by piece: an object is two pieces here, and the *)
(* newline a third.  A process may be killed, or a write may fail (a full  *)
(* disk), between two pieces.  The file is a sequence of lines; the last   *)
(* one is the one that has no newline yet.                                 *)
(*                                                                         *)
(* Headers that differ only in created_at are one header here, as          *)
(* headers_are_compatible has it.  A sample that validate_sample_row       *)
(* refuses changes nothing, and neither does an open while the file is     *)
(* locked: neither is a step.                                              *)
(***************************************************************************)
EXTENDS Naturals, Sequences, FiniteSets

CONSTANTS
  Processes,
  Headers,     \* the headers processes ask for, up to created_at
  MaxRows,     \* bound on the rows that are begun
  MaxFaults,   \* bound on crashes and failed writes
  Nobody

ASSUME JsonlBounds == MaxRows \in Nat /\ MaxFaults \in Nat
ASSUME JsonlNames == Nobody \notin Processes /\ "sample" \notin Headers

VARIABLES
  file,      \* the lines
  holder,    \* who holds the exclusive lock
  pc,        \* per process: what it is doing with the file
  header,    \* per process: the header it asked for
  buffer,    \* per process: what write_all has yet to write
  spoiled,   \* history: the contents, not valid, that a process left behind
  rows,      \* history: the rows that were begun
  acked,     \* history: the rows whose append returned Ok
  faults     \* history: the crashes and failed writes

history == <<rows, acked, faults>>
vars == <<file, holder, pc, header, buffer, spoiled, history>>

Values == Headers \cup {"sample"}
Newline == [value |-> "newline", piece |-> 0]
Object(v) == <<[value |-> v, piece |-> 1], [value |-> v, piece |-> 2]>>
Pieces == [value : Values, piece : {1, 2}] \cup {Newline}

\* Each variable has its type: a line is a sequence of pieces.
TypeOK ==
  /\ file \in Seq(Seq(Pieces \ {Newline})) /\ file # <<>>
  /\ holder \in Processes \cup {Nobody}
  /\ pc \in [Processes -> {"closed", "validate", "header", "open", "row"}]
  /\ header \in [Processes -> Headers]
  /\ buffer \in [Processes -> Seq(Pieces)]
  /\ spoiled \subseteq Seq(Seq(Pieces \ {Newline}))
  /\ rows \in 0 .. MaxRows /\ acked \in 0 .. MaxRows /\ faults \in 0 .. MaxFaults

Init ==
  /\ file = << <<>> >>
  /\ holder = Nobody
  /\ pc = [p \in Processes |-> "closed"]
  /\ header \in [Processes -> Headers]
  /\ buffer = [p \in Processes |-> <<>>]
  /\ spoiled = {}
  /\ rows = 0 /\ acked = 0 /\ faults = 0

----------------------------------------------------------------------------
(* What a reader of the file sees *)

NonEmpty == {i \in DOMAIN file : file[i] # <<>>}
First(i) == \A j \in NonEmpty : i <= j
IsHeader(line) == \E h \in Headers : line = Object(h)
IsSample(line) == line = Object("sample")

\* validate_existing_header_reader: nothing, or one header and then samples.
\* Half an object, or two on one line, is not JSON.
IsValid ==
  \A i \in NonEmpty : IF First(i) THEN IsHeader(file[i]) ELSE IsSample(file[i])

headers_are_compatible(p) == \E i \in NonEmpty : First(i) /\ file[i] = Object(header[p])

----------------------------------------------------------------------------
(* open_jsonl_append_file *)

Goto(p, stage) == pc' = [pc EXCEPT ![p] = stage]

\* Mutant of Open: the lock is not asked for.
OpenUnlocked(p) ==
  /\ pc[p] = "closed"
  /\ holder' = p
  /\ Goto(p, "validate")
  /\ UNCHANGED <<file, header, buffer, spoiled, history>>

\* The file is opened or created, and try_lock_exclusive succeeds.
Open(p) ==
  /\ pc[p] = "closed"
  /\ holder = Nobody
  /\ holder' = p
  /\ Goto(p, "validate")
  /\ UNCHANGED <<file, header, buffer, spoiled, history>>

\* The file is dropped, and with it the lock.
Drop(p) ==
  /\ Goto(p, "closed")
  /\ holder' = IF holder = p THEN Nobody ELSE holder
  /\ buffer' = [buffer EXCEPT ![p] = <<>>]
  /\ spoiled' = IF IsValid THEN spoiled ELSE spoiled \cup {file}

\* The content is invalid, or its header is another one.
Reject(p) ==
  /\ pc[p] = "validate"
  /\ NonEmpty # {}
  /\ ~IsValid \/ ~headers_are_compatible(p)
  /\ Drop(p)
  /\ UNCHANGED <<file, header, history>>

\* Mutant of Accept: only the first line is looked at.
AcceptByHeader(p) ==
  /\ pc[p] = "validate"
  /\ NonEmpty # {}
  /\ headers_are_compatible(p)
  /\ Goto(p, "open")
  /\ UNCHANGED <<file, holder, header, buffer, spoiled, history>>

Accept(p) ==
  /\ pc[p] = "validate"
  /\ NonEmpty # {}
  /\ IsValid /\ headers_are_compatible(p)
  /\ Goto(p, "open")
  /\ UNCHANGED <<file, holder, header, buffer, spoiled, history>>

\* Nothing there yet: the header is to be written.
BeginHeader(p) ==
  /\ pc[p] = "validate"
  /\ NonEmpty = {}
  /\ buffer' = [buffer EXCEPT ![p] = Append(Object(header[p]), Newline)]
  /\ Goto(p, "header")
  /\ UNCHANGED <<file, holder, header, spoiled, history>>

----------------------------------------------------------------------------
(* append_sample_row, append_jsonl_sample_row and write_json_line *)

BeginRow(p) ==
  /\ pc[p] = "open"
  /\ rows < MaxRows
  /\ rows' = rows + 1
  /\ buffer' = [buffer EXCEPT ![p] = Append(Object("sample"), Newline)]
  /\ Goto(p, "row")
  /\ UNCHANGED <<file, holder, header, spoiled, acked, faults>>

\* O_APPEND: the piece goes to the end of the file.
Appended(piece) ==
  IF piece = Newline THEN Append(file, <<>>)
  ELSE [file EXCEPT ![Len(file)] = Append(@, piece)]

\* One piece of the buffer reaches the file; with the last, write_all returns.
Write(p) ==
  /\ buffer[p] # <<>>
  /\ file' = Appended(Head(buffer[p]))
  /\ buffer' = [buffer EXCEPT ![p] = Tail(@)]
  /\ IF Tail(buffer[p]) = <<>>
     THEN /\ Goto(p, "open")
          /\ acked' = IF pc[p] = "row" THEN acked + 1 ELSE acked
     ELSE UNCHANGED <<pc, acked>>
  /\ UNCHANGED <<holder, header, spoiled, rows, faults>>

Fault == faults < MaxFaults /\ faults' = faults + 1

\* write_all fails.  While it opens the file the process gives up; a writer
\* that is open stays open, and may append again.
WriteFails(p) ==
  /\ buffer[p] # <<>>
  /\ Fault
  /\ IF pc[p] = "header" THEN Drop(p)
     ELSE /\ Goto(p, "open")
          /\ buffer' = [buffer EXCEPT ![p] = <<>>]
          /\ UNCHANGED <<holder, spoiled>>
  /\ UNCHANGED <<file, header, rows, acked>>

\* The process is done with the file.
Close(p) ==
  /\ pc[p] = "open"
  /\ Drop(p)
  /\ UNCHANGED <<file, header, history>>

\* The process is killed.
Crash(p) ==
  /\ pc[p] # "closed"
  /\ Fault
  /\ Drop(p)
  /\ UNCHANGED <<file, header, rows, acked>>

Next ==
  \E p \in Processes :
    \/ Open(p) \/ Reject(p) \/ Accept(p) \/ BeginHeader(p)
    \/ BeginRow(p) \/ Write(p) \/ WriteFails(p) \/ Close(p) \/ Crash(p)

Spec == Init /\ [][Next]_vars

----------------------------------------------------------------------------
(* Properties *)

HasPiece(line, piece) == \E h \in Headers : \E i \in DOMAIN line :
                           line[i] = [value |-> h, piece |-> piece]

\* A file never gets a second header, nor a header after anything else,
\* whoever races to create it and whenever one of them dies: whatever part of
\* a header is there, is there once and on the first line (docs/metrics.md:
\* exactly one header is written per file).
OneHeader ==
  \A i \in DOMAIN file, piece \in {1, 2} : HasPiece(file[i], piece) =>
    /\ i = 1
    /\ HasPiece(<<file[1][piece]>>, piece)
    /\ Cardinality({j \in DOMAIN file[1] : HasPiece(<<file[1][j]>>, piece)}) = 1

\* Lines other than the one being written that are neither blank, nor a
\* header, nor a sample.
Damaged == {i \in 1 .. Len(file) - 1 :
              file[i] # <<>> /\ ~IsHeader(file[i]) /\ ~IsSample(file[i])}

\* Writers never interleave: a line is damaged only where one was interrupted,
\* and then only one line.
DamageBounded == Cardinality(Damaged) <= faults

\* A file that a process leaves invalid behind it (half a header, half a row,
\* two objects on a line), by dying, on a full disk or after going on past a
\* failed append, never changes again, whoever opens it later and with
\* whatever header: it has to be moved away first.
DamageFrozen == \A content \in spoiled : file = content

SampleLines == {i \in 1 .. Len(file) - 1 : IsSample(file[i])}

\* A row whose append returned Ok is a line of its own that a reader can parse,
\* and stays one; an interruption costs at most one such row, the one that was
\* put on the line it left unfinished.
RowsKept == acked <= Cardinality(SampleLines) + faults
=============================================================================
