-------------------------- MODULE MctxSendProofs --------------------------
(***************************************************************************)
(* For any processes, headers, counts and bounds: what the writers of a    *)
(* metrics file do to it, that mctx_send is one of them, and that its rows *)
(* account for its sends.                                                  *)
(***************************************************************************)
EXTENDS MctxSend, FiniteSetTheorems, SequenceTheorems, TLAPS

----------------------------------------------------------------------------
(* The file: what its lines are, and what a writer has written of its line *)

\* The two pieces of a header or of a row, and the line being written.
Piece(v, n) == [value |-> v, piece |-> n]
LinePieces == [value : Values, piece : {1, 2}]
LastLine == file[Len(file)]

\* The types of the file's variables: lines are pieces of headers and rows.
Types ==
  /\ file \in Seq(Seq(LinePieces)) /\ file # <<>>
  /\ holder \in Processes \cup {Nobody}
  /\ pc \in [Processes -> {"closed", "validate", "header", "open", "row"}]
  /\ header \in [Processes -> Headers]
  /\ buffer \in [Processes -> Seq(Pieces)]
  /\ rows \in Nat /\ acked \in Nat /\ faults \in Nat
  /\ rows <= MaxRows /\ faults <= MaxFaults

\* The lock is held by the one process that has the file open.
Locked == \A p \in Processes : pc[p] # "closed" <=> holder = p

\* write_all has b left of an object v, and wrote w.
Progress(v, b, w) ==
  \/ b = <<Piece(v, 1), Piece(v, 2), Newline>> /\ w = <<>>
  \/ b = <<Piece(v, 2), Newline>> /\ w = <<Piece(v, 1)>>
  \/ b = <<Newline>> /\ w = <<Piece(v, 1), Piece(v, 2)>>

\* The last line ends with a piece of a row.
EndsInRow == LastLine # <<>> /\ LastLine[Len(LastLine)].value = "sample"

\* A header is written to a file that has nothing else in it; a row goes to
\* the end of whatever is there.
Buffers == \A p \in Processes :
  /\ pc[p] = "header" => \E w : Progress(header[p], buffer[p], w) /\ file = <<w>>
  /\ pc[p] = "row" => \E w : Progress("sample", buffer[p], w) /\ (w # <<>> => EndsInRow)
  /\ pc[p] \notin {"header", "row"} => buffer[p] = <<>>

\* Only the last line can be blank.
NoBlank == \A i \in 1 .. Len(file) - 1 : file[i] # <<>>

\* Pieces of headers stand on the first line, at their own place.
HeaderPlace ==
  \A i \in DOMAIN file : \A j \in DOMAIN file[i] :
    file[i][j].value \in Headers => i = 1 /\ j = file[i][j].piece

\* A row is acknowledged after it was begun.
Acknowledged == acked <= rows /\ \A p \in Processes : pc[p] = "row" => acked < rows

\* The last line is blank, or holds exactly what its writer wrote of it.
Clean == \/ LastLine = <<>>
         \/ \E p \in Processes, v \in Values : Progress(v, buffer[p], LastLine)

\* Each damaged line, the last one included, has cost a fault.
Charged == /\ Clean => Cardinality(Damaged) <= faults
           /\ ~Clean => Cardinality(Damaged) + 1 <= faults

\* All of it.
FileInv == Types /\ Locked /\ Buffers /\ NoBlank /\ HeaderPlace /\ Acknowledged /\ Charged

----------------------------------------------------------------------------
(* Pieces and lines *)

\* Short sequences.
LEMMA ShortSequences ==
  ASSUME NEW a, NEW b, NEW c
  PROVE  /\ Append(<<>>, a) = <<a>> /\ Append(<<a>>, b) = <<a, b>>
         /\ Head(<<a>>) = a /\ Head(<<a, b>>) = a /\ Head(<<a, b, c>>) = a
         /\ Tail(<<a>>) = <<>> /\ Tail(<<a, b>>) = <<b>> /\ Tail(<<a, b, c>>) = <<b, c>>
         /\ Len(<<a>>) = 1 /\ Len(<<a, b>>) = 2
<1> DEFINE T == {a, b, c}
<1>1. <<a>> \in Seq(T) /\ <<a, b>> \in Seq(T) /\ <<b>> \in Seq(T)
  OBVIOUS
<1>2. Append(<<>>, a) = <<a>>
  OBVIOUS
<1>3. Append(<<a>>, b) = <<a, b>>
  <2>1. /\ Append(<<a>>, b) \in Seq(T) /\ Len(Append(<<a>>, b)) = 2
        /\ Append(<<a>>, b)[1] = a /\ Append(<<a>>, b)[2] = b
    BY <1>1, AppendProperties
  <2>2. \A i \in 1 .. 2 : i = 1 \/ i = 2
    OBVIOUS
  <2>3. \A i \in 1 .. Len(Append(<<a>>, b)) : Append(<<a>>, b)[i] = <<a, b>>[i]
    BY <2>1, <2>2
  <2> QED
    BY <1>1, <2>1, <2>3, SeqEqual
<1>4. Head(<<a>>) = a /\ Head(<<a, b>>) = a /\ Head(<<a, b, c>>) = a
  OBVIOUS
<1>5. Tail(<<a>>) = <<>> /\ Tail(<<a, b>>) = <<b>> /\ Tail(<<a, b, c>>) = <<b, c>>
  OBVIOUS
<1> QED
  BY <1>2, <1>3, <1>4, <1>5

\* A line grows by one piece.
LEMMA AppendThird ==
  ASSUME NEW a, NEW b, NEW c
  PROVE  Append(<<a, b>>, c) = <<a, b, c>>
<1> DEFINE T == {a, b, c}
<1>0. <<a, b>> \in Seq(T) /\ <<a, b, c>> \in Seq(T)
  OBVIOUS
<1>1. /\ Append(<<a, b>>, c) \in Seq(T) /\ Len(Append(<<a, b>>, c)) = 3
      /\ Append(<<a, b>>, c)[1] = a /\ Append(<<a, b>>, c)[2] = b
      /\ Append(<<a, b>>, c)[3] = c
  BY <1>0, AppendProperties
<1>2. \A i \in 1 .. 3 : i = 1 \/ i = 2 \/ i = 3
  OBVIOUS
<1>3. \A i \in 1 .. Len(Append(<<a, b>>, c)) : Append(<<a, b>>, c)[i] = <<a, b, c>>[i]
  BY <1>1, <1>2
<1> QED
  BY <1>0, <1>1, <1>3, SeqEqual

\* A piece of a line is no newline, and says what it belongs to.
LEMMA PieceFacts ==
  ASSUME NEW v \in Values, NEW n \in {1, 2}
  PROVE  /\ Piece(v, n) \in LinePieces /\ Piece(v, n) \in Pieces /\ Piece(v, n) # Newline
         /\ Piece(v, n).value = v /\ Piece(v, n).piece = n
  BY DEF Piece, LinePieces, Pieces, Newline

\* write_all goes from piece to piece, and from the object to the newline.
LEMMA ProgressSteps ==
  ASSUME NEW v \in Values, NEW b, NEW w, Progress(v, b, w)
  PROVE  /\ b # <<>> /\ w \in Seq(LinePieces) /\ Tail(b) \in Seq(Pieces)
         /\ \/ \E n \in {1, 2} : /\ Head(b) = Piece(v, n) /\ Tail(b) # <<>> /\ Len(w) = n - 1
                                 /\ Progress(v, Tail(b), Append(w, Piece(v, n)))
            \/ Head(b) = Newline /\ Tail(b) = <<>> /\ w = Object(v)
<1>1. /\ Piece(v, 1) \in LinePieces /\ Piece(v, 2) \in LinePieces
      /\ Piece(v, 1) \in Pieces /\ Piece(v, 2) \in Pieces /\ Newline \in Pieces
  BY PieceFacts DEF Pieces
<1>2. CASE b = <<Piece(v, 1), Piece(v, 2), Newline>> /\ w = <<>>
  <2>1. /\ Head(b) = Piece(v, 1) /\ Tail(b) = <<Piece(v, 2), Newline>> /\ b # <<>>
        /\ Append(w, Piece(v, 1)) = <<Piece(v, 1)>> /\ Len(w) = 0
    BY <1>2
  <2>2. Progress(v, Tail(b), Append(w, Piece(v, 1)))
    BY <2>1 DEF Progress
  <2>3. w \in Seq(LinePieces) /\ Tail(b) \in Seq(Pieces) /\ Tail(b) # <<>>
    BY <1>1, <1>2, <2>1
  <2> QED
    BY <2>1, <2>2, <2>3
<1>3. CASE b = <<Piece(v, 2), Newline>> /\ w = <<Piece(v, 1)>>
  <2>1. /\ Head(b) = Piece(v, 2) /\ Tail(b) = <<Newline>> /\ b # <<>>
        /\ Append(w, Piece(v, 2)) = <<Piece(v, 1), Piece(v, 2)>> /\ Len(w) = 1
    BY <1>3, ShortSequences
  <2>2. Progress(v, Tail(b), Append(w, Piece(v, 2)))
    BY <2>1 DEF Progress
  <2>3. w \in Seq(LinePieces) /\ Tail(b) \in Seq(Pieces) /\ Tail(b) # <<>>
    BY <1>1, <1>3, <2>1
  <2> QED
    BY <2>1, <2>2, <2>3
<1>4. CASE b = <<Newline>> /\ w = <<Piece(v, 1), Piece(v, 2)>>
  <2>1. Head(b) = Newline /\ Tail(b) = <<>> /\ b # <<>>
    BY <1>4
  <2>2. w = Object(v)
    BY <1>4 DEF Object, Piece
  <2>3. w \in Seq(LinePieces) /\ Tail(b) \in Seq(Pieces)
    BY <1>1, <1>4, <2>1
  <2> QED
    BY <2>1, <2>2, <2>3
<1> QED
  BY <1>2, <1>3, <1>4 DEF Progress

\* A new object begins with nothing written.
LEMMA ProgressBegins ==
  ASSUME NEW v \in Values
  PROVE  /\ Progress(v, Append(Object(v), Newline), <<>>)
         /\ Append(Object(v), Newline) \in Seq(Pieces)
<1>1. Append(Object(v), Newline) = <<Piece(v, 1), Piece(v, 2), Newline>>
  <2>1. Object(v) = <<Piece(v, 1), Piece(v, 2)>>
    BY DEF Object, Piece
  <2>2. PICK a, b : a = Piece(v, 1) /\ b = Piece(v, 2)
    OBVIOUS
  <2>3. Append(<<a, b>>, Newline) = <<a, b, Newline>>
    BY AppendThird
  <2> QED
    BY <2>1, <2>2, <2>3, Zenon
<1>2. Piece(v, 1) \in Pieces /\ Piece(v, 2) \in Pieces /\ Newline \in Pieces
  BY PieceFacts DEF Pieces
<1> QED
  BY <1>1, <1>2 DEF Progress

\* The file always has a last line.
LEMMA FileFacts ==
  ASSUME Types
  PROVE  /\ Len(file) \in Nat \ {0} /\ DOMAIN file = 1 .. Len(file)
         /\ \A i \in 1 .. Len(file) : file[i] \in Seq(LinePieces)
         /\ LastLine \in Seq(LinePieces)
<1>1. file \in Seq(Seq(LinePieces)) /\ file # <<>>
  BY DEF Types
<1>2. /\ Len(file) \in Nat \ {0} /\ DOMAIN file = 1 .. Len(file)
      /\ \A i \in 1 .. Len(file) : file[i] \in Seq(LinePieces)
  BY <1>1, EmptySeq, LenProperties, ElementOfSeq
<1> QED
  BY <1>2 DEF LastLine

\* A piece is added to the last line ...
LEMMA PieceWritten ==
  ASSUME Types, NEW x \in LinePieces, file' = [file EXCEPT ![Len(file)] = Append(@, x)]
  PROVE  /\ file' \in Seq(Seq(LinePieces)) /\ file' # <<>> /\ Len(file') = Len(file)
         /\ DOMAIN file' = 1 .. Len(file)
         /\ \A i \in 1 .. Len(file) - 1 : file'[i] = file[i]
         /\ LastLine' = Append(LastLine, x) /\ LastLine' # <<>>
         /\ file'[Len(file)] = Append(LastLine, x)
<1>1. /\ file \in Seq(Seq(LinePieces)) /\ Len(file) \in Nat \ {0}
      /\ LastLine \in Seq(LinePieces) /\ Len(file) \in 1 .. Len(file)
  BY FileFacts DEF Types
<1>2. Append(LastLine, x) \in Seq(LinePieces) /\ Append(LastLine, x) # <<>>
  BY <1>1, AppendProperties
<1> DEFINE line == Append(LastLine, x)
<1>3. file' = [file EXCEPT ![Len(file)] = line]
  BY DEF LastLine
<1> HIDE DEF line
<1>4. line \in Seq(LinePieces) /\ line # <<>>
  BY <1>2 DEF line
<1>5. /\ file' \in Seq(Seq(LinePieces)) /\ Len(file') = Len(file)
      /\ \A j \in 1 .. Len(file) : file'[j] = IF j = Len(file) THEN line ELSE file[j]
  <2>1. PICK f \in Seq(Seq(LinePieces)) : f = file
    BY <1>1
  <2>2. PICK k \in 1 .. Len(f) : k = Len(file)
    BY <1>1, <2>1
  <2>3. /\ [f EXCEPT ![k] = line] \in Seq(Seq(LinePieces))
        /\ Len([f EXCEPT ![k] = line]) = Len(f)
        /\ \A j \in 1 .. Len(f) : [f EXCEPT ![k] = line][j] = IF j = k THEN line ELSE f[j]
    BY <1>4, ExceptSeq
  <2> QED
    BY <1>3, <2>1, <2>2, <2>3, Zenon
<1>6. file' # <<>> /\ DOMAIN file' = 1 .. Len(file)
  BY <1>1, <1>5, LenProperties, EmptySeq
<1>7. file'[Len(file)] = line
  BY <1>1, <1>5
<1>8. LastLine' = line
  BY <1>5, <1>7 DEF LastLine
<1>9. ASSUME NEW i \in 1 .. Len(file) - 1 PROVE file'[i] = file[i]
  <2>1. i \in 1 .. Len(file) /\ i # Len(file)
    BY <1>1
  <2> QED
    BY <1>5, <2>1, Zenon
<1> QED
  BY <1>4, <1>5, <1>6, <1>7, <1>8, <1>9 DEF line

\* ... and a newline ends it.
LEMMA LineEnded ==
  ASSUME Types, file' = Append(file, <<>>)
  PROVE  /\ file' \in Seq(Seq(LinePieces)) /\ file' # <<>> /\ Len(file') = Len(file) + 1
         /\ DOMAIN file' = 1 .. Len(file) + 1
         /\ \A i \in 1 .. Len(file) : file'[i] = file[i]
         /\ LastLine' = <<>>
<1>1. file \in Seq(Seq(LinePieces)) /\ <<>> \in Seq(LinePieces)
  BY DEF Types
<1>2. /\ file' \in Seq(Seq(LinePieces)) /\ file' # <<>> /\ Len(file') = Len(file) + 1
      /\ \A i \in 1 .. Len(file) : file'[i] = file[i]
      /\ file'[Len(file) + 1] = <<>>
  BY <1>1, AppendProperties
<1>3. DOMAIN file' = 1 .. Len(file) + 1
  BY <1>2, LenProperties
<1>4. LastLine' = <<>>
  BY <1>2 DEF LastLine
<1> QED
  BY <1>2, <1>3, <1>4

\* Damaged lines can be counted.
LEMMA DamageFinite ==
  ASSUME Types
  PROVE  IsFiniteSet(Damaged) /\ Cardinality(Damaged) \in Nat
<1>1. IsFiniteSet(1 .. Len(file) - 1)
  BY FileFacts, FS_Interval
<1>2. Damaged \subseteq 1 .. Len(file) - 1
  BY DEF Damaged
<1>3. IsFiniteSet(Damaged)
  BY <1>1, <1>2, FS_Subset
<1> QED
  BY <1>3, FS_CardinalityType

----------------------------------------------------------------------------
(* Steps of the file's users *)

\* The file is empty, and nobody has it open.
LEMMA FileInit == Init => FileInv
<1> SUFFICES ASSUME Init PROVE FileInv
  OBVIOUS
<1> USE DEF Init
<1>1. << <<>> >> \in Seq(Seq(LinePieces)) /\ Len(<< <<>> >>) = 1 /\ << <<>> >>[1] = <<>>
  OBVIOUS
<1>2. Types
  BY <1>1, JsonlBounds DEF Types
<1>3. Locked /\ Buffers /\ Acknowledged
  BY JsonlNames DEF Locked, Buffers, Acknowledged
<1>4. NoBlank /\ HeaderPlace
  BY <1>1 DEF NoBlank, HeaderPlace
<1>5. Damaged = {} /\ Clean
  BY <1>1 DEF Damaged, Clean, LastLine
<1> QED
  BY <1>2, <1>3, <1>4, <1>5, FS_EmptySet DEF FileInv, Charged

\* While the file is as it was, so is what is damaged, and what was charged for
\* it covers a writer that is interrupted.
LEMMA SameFile ==
  ASSUME FileInv, file' = file, faults' \in Nat,
         (faults' = faults /\ (Clean => Clean')) \/ faults' = faults + 1
  PROVE  NoBlank' /\ HeaderPlace' /\ Charged'
<1>1. NoBlank' /\ HeaderPlace'
  BY DEF FileInv, NoBlank, HeaderPlace
<1>2. Damaged' = Damaged
  BY DEF Damaged, IsHeader, IsSample, Object
<1>3. Cardinality(Damaged) \in Nat /\ faults \in Nat /\ Cardinality(Damaged) <= faults
  BY DamageFinite DEF FileInv, Types, Charged
<1>4. Charged'
  BY <1>2, <1>3 DEF FileInv, Charged
<1> QED
  BY <1>1, <1>4

\* The process that has the file open is the only one.
LEMMA OneUser ==
  ASSUME FileInv, NEW p \in Processes, NEW q \in Processes, pc[p] # "closed", pc[q] # "closed"
  PROVE  p = q
  BY DEF FileInv, Locked

\* open takes the lock, and goes on with a file it finds valid.
LEMMA OpenKeeps ==
  ASSUME FileInv, NEW p \in Processes, Open(p) \/ Accept(p)
  PROVE  FileInv'
<1>1. /\ UNCHANGED <<file, header, buffer, history>> /\ pc[p] \in {"closed", "validate"}
      /\ \E s \in {"validate", "open"} : pc' = [pc EXCEPT ![p] = s]
  BY DEF Open, Accept, Goto
<1>2. PICK s \in {"validate", "open"} : pc' = [pc EXCEPT ![p] = s]
  BY <1>1
<1>3. pc'[p] = s /\ \A q \in Processes \ {p} : pc'[q] = pc[q]
  BY <1>2 DEF FileInv, Types
<1>4. holder' = p
  BY DEF Open, Accept, FileInv, Locked
<1>5. Types'
  BY <1>1, <1>2, <1>4 DEF FileInv, Types, history
<1>6. Locked'
  <2>1. holder = Nobody \/ holder = p
    BY DEF Open, Accept, FileInv, Locked
  <2>2. \A q \in Processes \ {p} : pc[q] = "closed"
    BY <2>1, JsonlNames DEF FileInv, Locked
  <2> QED
    BY <1>3, <1>4, <2>2 DEF Locked
<1>7. Buffers'
  BY <1>1, <1>3 DEF FileInv, Buffers, LastLine, EndsInRow
<1>8. Acknowledged'
  BY <1>1, <1>3 DEF FileInv, Acknowledged, history
<1>9. NoBlank' /\ HeaderPlace' /\ Charged'
  <2>1. Clean => Clean'
    BY <1>1 DEF Clean, LastLine
  <2> QED
    BY <1>1, <1>5, <2>1, SameFile DEF history, FileInv, Types
<1> QED
  BY <1>5, <1>6, <1>7, <1>8, <1>9 DEF FileInv

\* The process lets go of the file: with nothing half written, or by a fault.
LEMMA DropKeeps ==
  ASSUME FileInv, NEW p \in Processes, Drop(p), pc[p] # "closed",
         UNCHANGED <<file, header, rows, acked>>, faults' \in Nat, faults' <= MaxFaults,
         (faults' = faults /\ buffer[p] = <<>>) \/ faults' = faults + 1
  PROVE  FileInv'
<1>1. /\ pc' = [pc EXCEPT ![p] = "closed"] /\ buffer' = [buffer EXCEPT ![p] = <<>>]
      /\ holder = p /\ holder' = Nobody
  BY DEF Drop, Goto, FileInv, Locked
<1>2. /\ pc'[p] = "closed" /\ \A q \in Processes \ {p} : pc'[q] = pc[q]
      /\ buffer'[p] = <<>> /\ \A q \in Processes \ {p} : buffer'[q] = buffer[q]
      /\ buffer' \in [Processes -> Seq(Pieces)]
  BY <1>1 DEF FileInv, Types
<1>3. Types'
  BY <1>1, <1>2 DEF FileInv, Types
<1>4. Locked'
  BY <1>1, <1>2, JsonlNames DEF FileInv, Locked
<1>5. Buffers'
  BY <1>2 DEF FileInv, Buffers, LastLine, EndsInRow
<1>6. Acknowledged'
  BY <1>2 DEF FileInv, Acknowledged
<1>7. ASSUME buffer[p] = <<>> PROVE Clean => Clean'
  <2>1. buffer' = buffer
    BY <1>1, <1>7 DEF FileInv, Types
  <2> QED
    BY <2>1 DEF Clean, LastLine
<1>8. NoBlank' /\ HeaderPlace' /\ Charged'
  BY <1>7, SameFile
<1> QED
  BY <1>3, <1>4, <1>5, <1>6, <1>8 DEF FileInv

\* An object is put into the buffer.
LEMMA BeginKeeps ==
  ASSUME FileInv, NEW p \in Processes, BeginHeader(p) \/ BeginRow(p)
  PROVE  FileInv'
<1>1. PICK v \in Values, s \in {"header", "row"} :
        /\ buffer' = [buffer EXCEPT ![p] = Append(Object(v), Newline)]
        /\ pc' = [pc EXCEPT ![p] = s]
        /\ s = "header" => v = header[p] /\ BeginHeader(p)
        /\ s = "row" => v = "sample" /\ BeginRow(p)
  BY DEF BeginHeader, BeginRow, Goto, Values, FileInv, Types
<1>2. Progress(v, Append(Object(v), Newline), <<>>) /\ Append(Object(v), Newline) \in Seq(Pieces)
  BY ProgressBegins
<1>3. /\ UNCHANGED <<file, holder, header, acked, faults>> /\ pc[p] \in {"validate", "open"}
      /\ rows' \in Nat /\ rows <= rows' /\ rows' <= MaxRows /\ (s = "row" => rows' = rows + 1)
  BY <1>1, JsonlBounds DEF BeginHeader, BeginRow, history, FileInv, Types
<1>4. /\ pc'[p] = s /\ \A q \in Processes \ {p} : pc'[q] = pc[q]
      /\ buffer'[p] = Append(Object(v), Newline)
      /\ \A q \in Processes \ {p} : buffer'[q] = buffer[q]
      /\ buffer' \in [Processes -> Seq(Pieces)]
  BY <1>1, <1>2 DEF FileInv, Types
<1>5. Types'
  BY <1>1, <1>3, <1>4 DEF FileInv, Types
<1>6. Locked'
  BY <1>3, <1>4 DEF FileInv, Locked
<1>7. buffer[p] = <<>>
  BY <1>3 DEF FileInv, Buffers
<1>8. ASSUME s = "header" PROVE file = << <<>> >>
  <2>1. \A i \in 1 .. Len(file) : file[i] = <<>>
    BY <1>1, <1>8, FileFacts DEF BeginHeader, NonEmpty, FileInv
  <2>2. Len(file) = 1
    BY <2>1, FileFacts DEF FileInv, NoBlank
  <2>3. file \in Seq(Seq(LinePieces)) /\ << <<>> >> \in Seq(Seq(LinePieces))
    BY DEF FileInv, Types
  <2> QED
    BY <2>1, <2>2, <2>3, SeqEqual
<1>9. Buffers'
  <2>1. ASSUME pc'[p] = "header"
        PROVE  \E w : Progress(header'[p], buffer'[p], w) /\ file' = <<w>>
    BY <1>1, <1>2, <1>3, <1>4, <1>8, <2>1
  <2>2. ASSUME pc'[p] = "row"
        PROVE  Progress("sample", buffer'[p], <<>>)
    BY <1>1, <1>2, <1>4, <2>2
  <2>3. ASSUME NEW q \in Processes, q # p
        PROVE  pc'[q] = "closed" /\ buffer'[q] = <<>>
    BY <1>3, <1>4, <2>3, OneUser DEF FileInv, Buffers
  <2> QED
    BY <1>1, <1>4, <2>1, <2>2, <2>3 DEF Buffers
<1>10. Acknowledged'
  <2>1. \A q \in Processes \ {p} : pc'[q] # "row"
    BY <1>3, <1>4, OneUser
  <2> QED
    BY <1>3, <1>4, <2>1 DEF FileInv, Types, Acknowledged
<1>11. Clean => Clean'
  <2> SUFFICES ASSUME Clean PROVE Clean'
    OBVIOUS
  <2>1. LastLine' = LastLine
    BY <1>3 DEF LastLine
  <2>2. CASE LastLine = <<>>
    BY <2>1, <2>2 DEF Clean
  <2>3. CASE LastLine # <<>>
    <3>1. PICK q \in Processes, u \in Values : Progress(u, buffer[q], LastLine)
      BY <2>3 DEF Clean
    <3>2. buffer[q] # <<>>
      BY <3>1, ProgressSteps
    <3>3. buffer'[q] = buffer[q]
      BY <1>4, <1>7, <3>2
    <3> QED
      BY <2>1, <3>1, <3>3 DEF Clean
  <2> QED
    BY <2>2, <2>3
<1>12. NoBlank' /\ HeaderPlace' /\ Charged'
  BY <1>3, <1>5, <1>11, SameFile DEF Types
<1> QED
  BY <1>5, <1>6, <1>9, <1>10, <1>12 DEF FileInv

\* What a process with a line under way has written of it.
Underway(p, v, w) ==
  /\ Progress(v, buffer[p], w)
  /\ \/ pc[p] = "header" /\ v = header[p] /\ file = <<w>>
     \/ pc[p] = "row" /\ v = "sample" /\ (w # <<>> => EndsInRow)

\* Who has something to write holds the lock, and nobody else has the file open.
LEMMA WriterFacts ==
  ASSUME FileInv, NEW p \in Processes, buffer[p] # <<>>
  PROVE  /\ pc[p] \in {"header", "row"}
         /\ \E v \in Values : \E w : Underway(p, v, w)
         /\ \A q \in Processes \ {p} : pc[q] = "closed" /\ buffer[q] = <<>>
<1>1. pc[p] \in {"header", "row"}
  BY DEF FileInv, Buffers
<1>2. \E v \in Values : \E w : Underway(p, v, w)
  BY <1>1 DEF FileInv, Types, Buffers, Underway, Values
<1>3. ASSUME NEW q \in Processes \ {p} PROVE pc[q] = "closed" /\ buffer[q] = <<>>
  BY <1>1, OneUser DEF FileInv, Buffers
<1> QED
  BY <1>1, <1>2, <1>3

\* A clean last line is what the writer wrote.
LEMMA CleanLine ==
  ASSUME FileInv, NEW p \in Processes, buffer[p] # <<>>, Clean, LastLine # <<>>
  PROVE  \E u \in Values : Progress(u, buffer[p], LastLine)
<1>1. PICK q \in Processes, u \in Values : Progress(u, buffer[q], LastLine)
  BY DEF Clean
<1>2. buffer[q] # <<>>
  BY <1>1, ProgressSteps
<1>3. q = p
  BY <1>2, WriterFacts
<1> QED
  BY <1>1, <1>3

\* A piece of the object reaches the last line.
LEMMA WritePieceKeeps ==
  ASSUME FileInv, NEW p \in Processes, Write(p), Head(buffer[p]) # Newline
  PROVE  FileInv'
<1>1. buffer[p] # <<>>
  BY DEF Write
<1>value. PICK v \in Values : \E w : Underway(p, v, w)
  BY <1>1, WriterFacts
<1>2. PICK w : Underway(p, v, w)
  BY <1>value
<1>3. Progress(v, buffer[p], w)
  BY <1>2 DEF Underway
<1>4. PICK n \in {1, 2} : /\ Head(buffer[p]) = Piece(v, n) /\ Tail(buffer[p]) # <<>>
                          /\ Len(w) = n - 1
                          /\ Progress(v, Tail(buffer[p]), Append(w, Piece(v, n)))
  BY <1>3, ProgressSteps
<1>5. w \in Seq(LinePieces) /\ Tail(buffer[p]) \in Seq(Pieces)
  BY <1>3, ProgressSteps
<1>6. PICK x \in LinePieces : x = Piece(v, n) /\ x # Newline /\ x.value = v /\ x.piece = n
  BY PieceFacts
<1>7. /\ file' = [file EXCEPT ![Len(file)] = Append(@, x)]
      /\ buffer' = [buffer EXCEPT ![p] = Tail(@)]
      /\ UNCHANGED <<holder, header, pc, rows, acked, faults>>
  BY <1>4, <1>6 DEF Write, Appended
<1>8. /\ buffer'[p] = Tail(buffer[p]) /\ \A q \in Processes \ {p} : buffer'[q] = buffer[q]
      /\ buffer' \in [Processes -> Seq(Pieces)]
  BY <1>5, <1>7 DEF FileInv, Types
<1>9. /\ file' \in Seq(Seq(LinePieces)) /\ file' # <<>> /\ Len(file') = Len(file)
      /\ DOMAIN file' = 1 .. Len(file)
      /\ \A i \in 1 .. Len(file) - 1 : file'[i] = file[i]
      /\ LastLine' = Append(LastLine, x) /\ LastLine' # <<>>
      /\ file'[Len(file)] = Append(LastLine, x)
  BY <1>7, PieceWritten DEF FileInv
<1>10. Types' /\ Locked' /\ Acknowledged'
  BY <1>7, <1>8, <1>9 DEF FileInv, Types, Locked, Acknowledged
<1>11. Len(file) \in Nat \ {0} /\ LastLine \in Seq(LinePieces)
  BY FileFacts DEF FileInv
<1>12. ASSUME file = <<w>> PROVE Len(file) = 1 /\ LastLine = w
  BY <1>12 DEF LastLine
<1>13. Buffers'
  <2>1. ASSUME pc[p] = "header" PROVE file' = <<Append(w, x)>>
    <3>1. Len(file) = 1 /\ LastLine = w
      BY <1>2, <1>12, <2>1 DEF Underway
    <3>2. PICK l : l = Append(w, x)
      OBVIOUS
    <3>3. l \in Seq(LinePieces) /\ file' \in Seq(Seq(LinePieces)) /\ Len(file') = 1 /\ file'[1] = l
      BY <1>5, <1>9, <3>1, <3>2, AppendProperties
    <3>4. file' = <<l>>
      <4>1. <<l>> \in Seq(Seq(LinePieces)) /\ Len(<<l>>) = 1 /\ <<l>>[1] = l
        BY <3>3
      <4>2. \A i \in 1 .. Len(file') : file'[i] = <<l>>[i]
        BY <3>3, <4>1
      <4> QED
        BY <3>3, <4>1, <4>2, SeqEqual
    <3> QED
      BY <3>2, <3>4
  <2>2. Progress(v, buffer'[p], Append(w, x))
    BY <1>4, <1>6, <1>8
  <2>3. ASSUME NEW q \in Processes \ {p} PROVE pc'[q] = "closed" /\ buffer'[q] = <<>>
    BY <1>1, <1>7, <1>8, WriterFacts
  <2>4. \/ pc'[p] = "header" /\ v = header'[p]
        \/ pc'[p] = "row" /\ v = "sample"
    BY <1>2, <1>7 DEF Underway
  <2>5. ASSUME v = "sample" PROVE EndsInRow'
    <3>1. Len(Append(LastLine, x)) = Len(LastLine) + 1 /\ Append(LastLine, x)[Len(LastLine) + 1] = x
      BY <1>11, AppendProperties
    <3> QED
      BY <1>6, <1>9, <2>5, <3>1 DEF EndsInRow
  <2>6. \/ /\ pc'[p] = "header"
           /\ \E l : Progress(header'[p], buffer'[p], l) /\ file' = <<l>>
        \/ /\ pc'[p] = "row"
           /\ \E l : Progress("sample", buffer'[p], l) /\ (l # <<>> => EndsInRow')
    BY <1>7, <2>1, <2>2, <2>4, <2>5
  <2> QED
    BY <2>3, <2>6 DEF Buffers
<1>14. NoBlank'
  BY <1>9 DEF FileInv, NoBlank
<1>15. HeaderPlace'
  <2> SUFFICES ASSUME NEW i \in DOMAIN file', NEW j \in DOMAIN file'[i], file'[i][j].value \in Headers
               PROVE  i = 1 /\ j = file'[i][j].piece
    BY DEF HeaderPlace
  <2>1. i \in 1 .. Len(file) - 1 \/ i = Len(file)
    BY <1>9, <1>11
  <2>2. CASE i \in 1 .. Len(file) - 1
    BY <1>9, <1>11, <2>2, FileFacts DEF FileInv, HeaderPlace
  <2>3. CASE i = Len(file)
    <3>1. /\ DOMAIN Append(LastLine, x) = 1 .. Len(LastLine) + 1 /\ Len(LastLine) \in Nat
          /\ \A k \in 1 .. Len(LastLine) : Append(LastLine, x)[k] = LastLine[k]
          /\ Append(LastLine, x)[Len(LastLine) + 1] = x
          /\ DOMAIN LastLine = 1 .. Len(LastLine)
      BY <1>11, AppendProperties, LenProperties
    <3>2. j \in 1 .. Len(LastLine) \/ j = Len(LastLine) + 1
      BY <1>9, <2>3, <3>1
    <3>3. CASE j \in 1 .. Len(LastLine)
      <4>1. file'[i][j] = file[i][j] /\ j \in DOMAIN file[i] /\ i \in DOMAIN file
        BY <1>9, <1>11, <2>3, <3>1, <3>3, FileFacts DEF LastLine, FileInv
      <4> QED
        BY <4>1 DEF FileInv, HeaderPlace
    <3>4. CASE j = Len(LastLine) + 1
      <4>1. file'[i][j] = x
        BY <1>9, <2>3, <3>1, <3>4
      <4>2. v \in Headers
        BY <1>6, <4>1
      <4>3. file = <<w>>
        BY <1>2, <4>2, JsonlNames DEF Underway
      <4>4. Len(file) = 1 /\ LastLine = w
        BY <1>12, <4>3
      <4> QED
        BY <1>4, <1>6, <2>3, <3>4, <4>1, <4>4
    <3> QED
      BY <3>2, <3>3, <3>4
  <2> QED
    BY <2>1, <2>2, <2>3
<1>16. Clean => Clean'
  <2> SUFFICES ASSUME Clean PROVE Clean'
    OBVIOUS
  <2>1. \E u \in Values : Progress(u, Tail(buffer[p]), Append(LastLine, x))
    <3>1. CASE LastLine = <<>>
      <4>1. w = <<>>
        BY <1>2, <1>12, <3>1 DEF Underway, EndsInRow
      <4> QED
        BY <1>4, <1>6, <3>1, <4>1
    <3>2. CASE LastLine # <<>>
      <4>1. PICK u \in Values : Progress(u, buffer[p], LastLine)
        BY <1>1, <3>2, CleanLine
      <4>2. PICK m \in {1, 2} : /\ Head(buffer[p]) = Piece(u, m)
                                /\ Progress(u, Tail(buffer[p]), Append(LastLine, Piece(u, m)))
        BY <4>1, ProgressSteps
      <4> QED
        BY <1>4, <1>6, <4>2
    <3> QED
      BY <3>1, <3>2
  <2> QED
    BY <1>8, <1>9, <2>1 DEF Clean
<1>17. Charged'
  <2>1. Damaged' = Damaged
    BY <1>9 DEF Damaged, IsHeader, IsSample, Object
  <2>2. Cardinality(Damaged) \in Nat /\ faults \in Nat
    BY DamageFinite DEF FileInv, Types
  <2> QED
    BY <1>7, <1>16, <2>1, <2>2 DEF FileInv, Charged
<1> QED
  BY <1>10, <1>13, <1>14, <1>15, <1>17 DEF FileInv

\* The newline ends the line, and begins an empty one.
LEMMA WriteNewlineKeeps ==
  ASSUME FileInv, NEW p \in Processes, Write(p), Head(buffer[p]) = Newline
  PROVE  FileInv'
<1>1. buffer[p] # <<>>
  BY DEF Write
<1>value. PICK v \in Values : \E w : Underway(p, v, w)
  BY <1>1, WriterFacts
<1>2. PICK w : Underway(p, v, w)
  BY <1>value
<1>3. Tail(buffer[p]) = <<>> /\ w = Object(v)
  BY <1>2, ProgressSteps, PieceFacts DEF Underway
<1>4. /\ file' = Append(file, <<>>)
      /\ buffer' = [buffer EXCEPT ![p] = <<>>] /\ pc' = [pc EXCEPT ![p] = "open"]
      /\ acked' = (IF pc[p] = "row" THEN acked + 1 ELSE acked)
      /\ UNCHANGED <<holder, header, rows, faults>>
  BY <1>3 DEF Write, Appended, Goto
<1>5. /\ pc'[p] = "open" /\ \A q \in Processes \ {p} : pc'[q] = pc[q]
      /\ buffer'[p] = <<>> /\ \A q \in Processes \ {p} : buffer'[q] = buffer[q]
      /\ buffer' \in [Processes -> Seq(Pieces)]
  BY <1>4 DEF FileInv, Types
<1>6. /\ file' \in Seq(Seq(LinePieces)) /\ file' # <<>> /\ Len(file') = Len(file) + 1
      /\ DOMAIN file' = 1 .. Len(file) + 1
      /\ \A i \in 1 .. Len(file) : file'[i] = file[i]
      /\ LastLine' = <<>>
  BY <1>4, LineEnded DEF FileInv
<1>7. \A q \in Processes \ {p} : pc[q] = "closed" /\ buffer[q] = <<>>
  BY <1>1, WriterFacts
<1>8. Types' /\ Locked'
  BY <1>1, <1>4, <1>5, <1>6, WriterFacts DEF FileInv, Types, Locked
<1>9. Acknowledged'
  BY <1>4, <1>5, <1>7 DEF FileInv, Types, Acknowledged
<1>10. Buffers'
  BY <1>5, <1>7 DEF Buffers
<1>11. LastLine # <<>>
  <2>1. w # <<>>
    BY <1>3 DEF Object
  <2>2. ASSUME file = <<w>> PROVE LastLine = w
    BY <2>2 DEF LastLine
  <2> QED
    BY <1>2, <2>1, <2>2 DEF Underway, EndsInRow
<1>12. Len(file) \in Nat \ {0} /\ DOMAIN file = 1 .. Len(file)
  BY FileFacts DEF FileInv
<1>13. NoBlank'
  BY <1>6, <1>11, <1>12 DEF FileInv, NoBlank, LastLine
<1>14. HeaderPlace'
  <2> SUFFICES ASSUME NEW i \in DOMAIN file', NEW j \in DOMAIN file'[i], file'[i][j].value \in Headers
               PROVE  i = 1 /\ j = file'[i][j].piece
    BY DEF HeaderPlace
  <2>1. i \in 1 .. Len(file)
    <3>1. i \in 1 .. Len(file) \/ i = Len(file) + 1
      BY <1>6, <1>12
    <3>2. file'[Len(file) + 1] = <<>>
      BY <1>6 DEF LastLine
    <3> QED
      BY <3>1, <3>2
  <2> QED
    BY <1>6, <1>12, <2>1 DEF FileInv, HeaderPlace
<1>15. Charged'
  <2>1. /\ IsFiniteSet(Damaged) /\ Cardinality(Damaged) \in Nat /\ faults \in Nat
    BY DamageFinite DEF FileInv, Types
  <2>2. Damaged' \subseteq Damaged \cup {Len(file)}
    BY <1>6, <1>12 DEF Damaged, IsHeader, IsSample, Object
  <2>3. CASE Clean
    <3>1. PICK u \in Values : Progress(u, buffer[p], LastLine)
      BY <1>1, <1>11, <2>3, CleanLine
    <3>2. LastLine = Object(u)
      BY <3>1, ProgressSteps, PieceFacts
    <3>3. Len(file) \notin Damaged'
      <4>1. IsHeader(LastLine) \/ IsSample(LastLine)
        BY <3>2 DEF IsHeader, IsSample, Values
      <4>2. file'[Len(file)] = LastLine
        BY <1>6, <1>12 DEF LastLine
      <4> QED
        BY <4>1, <4>2 DEF Damaged, IsHeader, IsSample, Object
    <3>4. Damaged' \subseteq Damaged
      BY <2>2, <3>3
    <3>5. Cardinality(Damaged') <= Cardinality(Damaged) /\ Cardinality(Damaged') \in Nat
      BY <2>1, <3>4, FS_Subset, FS_CardinalityType
    <3> QED
      BY <1>4, <1>6, <2>1, <2>3, <3>5 DEF FileInv, Charged, Clean
  <2>4. CASE ~Clean
    <3>1. /\ IsFiniteSet(Damaged \cup {Len(file)})
          /\ Cardinality(Damaged \cup {Len(file)}) <= Cardinality(Damaged) + 1
          /\ Cardinality(Damaged \cup {Len(file)}) \in Nat
      <4>1. PICK D, x : D = Damaged /\ x = Len(file)
        OBVIOUS
      <4>2. /\ IsFiniteSet(D \cup {x})
            /\ Cardinality(D \cup {x}) = IF x \in D THEN Cardinality(D) ELSE Cardinality(D) + 1
        BY <2>1, <4>1, FS_AddElement
      <4> QED
        BY <2>1, <4>1, <4>2, FS_CardinalityType
    <3>2. /\ Cardinality(Damaged') <= Cardinality(Damaged \cup {Len(file)})
          /\ Cardinality(Damaged') \in Nat
      BY <2>2, <3>1, FS_Subset, FS_CardinalityType
    <3> QED
      BY <1>4, <1>6, <2>1, <2>4, <3>1, <3>2 DEF FileInv, Charged, Clean
  <2> QED
    BY <2>3, <2>4
<1> QED
  BY <1>8, <1>9, <1>10, <1>13, <1>14, <1>15 DEF FileInv

\* A write that fails leaves its partial line; only an open gives the lock back.
LEMMA FailKeeps ==
  ASSUME FileInv, NEW p \in Processes, WriteFails(p)
  PROVE  FileInv'
<1>1. /\ buffer[p] # <<>> /\ faults' = faults + 1 /\ faults' \in Nat /\ faults' <= MaxFaults
      /\ UNCHANGED <<file, header, rows, acked>>
  BY JsonlBounds DEF WriteFails, Fault, FileInv, Types
<1>2. pc[p] \in {"header", "row"} /\ \A q \in Processes \ {p} : pc[q] = "closed" /\ buffer[q] = <<>>
  BY <1>1, WriterFacts
<1>3. CASE pc[p] = "header"
  <2>1. Drop(p)
    BY <1>3 DEF WriteFails
  <2> QED
    BY <1>1, <1>2, <2>1, DropKeeps
<1>4. CASE pc[p] # "header"
  <2>1. /\ pc' = [pc EXCEPT ![p] = "open"] /\ buffer' = [buffer EXCEPT ![p] = <<>>]
        /\ holder' = holder
    BY <1>4 DEF WriteFails, Goto
  <2>2. /\ pc'[p] = "open" /\ \A q \in Processes \ {p} : pc'[q] = pc[q]
        /\ buffer'[p] = <<>> /\ \A q \in Processes \ {p} : buffer'[q] = buffer[q]
        /\ buffer' \in [Processes -> Seq(Pieces)]
    BY <2>1 DEF FileInv, Types
  <2>3. Types' /\ Locked'
    BY <1>1, <1>2, <2>1, <2>2 DEF FileInv, Types, Locked
  <2>4. Buffers' /\ Acknowledged'
    BY <1>1, <1>2, <2>2 DEF FileInv, Buffers, Acknowledged
  <2>5. NoBlank' /\ HeaderPlace' /\ Charged'
    BY <1>1, SameFile
  <2> QED
    BY <2>3, <2>4, <2>5 DEF FileInv
<1> QED
  BY <1>3, <1>4

\* Every step of every process keeps the file's invariant.
LEMMA FileStep == FileInv /\ [Next]_vars => FileInv'
<1> SUFFICES ASSUME FileInv, [Next]_vars PROVE FileInv'
  OBVIOUS
<1>1. ASSUME NEW p \in Processes, Reject(p) \/ Close(p) PROVE FileInv'
  <2>1. /\ Drop(p) /\ pc[p] \in {"validate", "open"}
        /\ UNCHANGED <<file, header, rows, acked, faults>>
    BY <1>1 DEF Reject, Close, history
  <2>2. buffer[p] = <<>> /\ faults' \in Nat /\ faults' <= MaxFaults
    BY <2>1 DEF FileInv, Types, Buffers
  <2> QED
    BY <2>1, <2>2, DropKeeps
<1>2. ASSUME NEW p \in Processes, Crash(p) PROVE FileInv'
  <2>1. /\ Drop(p) /\ pc[p] # "closed" /\ UNCHANGED <<file, header, rows, acked>>
        /\ faults' = faults + 1 /\ faults' \in Nat /\ faults' <= MaxFaults
    BY <1>2, JsonlBounds DEF Crash, Fault, FileInv, Types
  <2> QED
    BY <2>1, DropKeeps
<1>3. ASSUME NEW p \in Processes, Write(p) PROVE FileInv'
  BY <1>3, WritePieceKeeps, WriteNewlineKeeps
<1>4. CASE UNCHANGED vars
  <2>1. UNCHANGED <<file, holder, pc, header, buffer, rows, acked, faults>>
    BY <1>4 DEF vars, history
  <2>2. Types' /\ Locked' /\ Buffers' /\ Acknowledged'
    BY <2>1 DEF FileInv, Types, Locked, Buffers, Acknowledged, LastLine, EndsInRow
  <2>3. Clean => Clean'
    BY <2>1 DEF Clean, LastLine
  <2>4. NoBlank' /\ HeaderPlace' /\ Charged'
    BY <2>1, <2>2, <2>3, SameFile DEF Types
  <2> QED
    BY <2>2, <2>4 DEF FileInv
<1> QED
  BY <1>1, <1>2, <1>3, <1>4, OpenKeeps, BeginKeeps, FailKeeps DEF Next

\* The file's invariant holds whatever its users do.
LEMMA FileInductive == Spec => []FileInv
  BY FileInit, FileStep, PTL DEF Spec

----------------------------------------------------------------------------
(* Results about the file *)

\* A content that was left invalid is still there, is still invalid, and nobody
\* has got past validate_existing_header since.
Frozen ==
  /\ spoiled \subseteq {file}
  /\ spoiled # {} => ~IsValid /\ \A p \in Processes : pc[p] \in {"closed", "validate"}

\* Letting go of the file is when an invalid content is noted.
LEMMA DropFreezes ==
  ASSUME FileInv, Frozen, NEW p \in Processes, pc[p] # "closed", Drop(p), file' = file
  PROVE  Frozen'
<1>1. /\ spoiled' = (IF IsValid THEN spoiled ELSE spoiled \cup {file})
      /\ pc' = [pc EXCEPT ![p] = "closed"]
  BY DEF Drop, Goto
<1>2. IsValid' <=> IsValid
  BY DEF IsValid, NonEmpty, First, IsHeader, IsSample, Object
<1>3. \A q \in Processes : pc'[q] = "closed"
  BY <1>1, OneUser DEF FileInv, Types
<1> QED
  BY <1>1, <1>2, <1>3 DEF Frozen

\* A file that was left invalid lets nobody in, so that it stays as it is.
LEMMA FrozenStep == FileInv /\ Frozen /\ [Next]_vars => Frozen'
<1> SUFFICES ASSUME FileInv, Frozen, [Next]_vars PROVE Frozen'
  OBVIOUS
<1>1. ASSUME NEW p \in Processes, Reject(p) \/ Close(p) \/ Crash(p) PROVE Frozen'
  BY <1>1, DropFreezes DEF Reject, Close, Crash
<1>2. ASSUME NEW p \in Processes, WriteFails(p), pc[p] = "header" PROVE Frozen'
  BY <1>2, DropFreezes DEF WriteFails
<1>3. ASSUME NEW p \in Processes, Open(p) PROVE Frozen'
  <2>1. file' = file /\ spoiled' = spoiled /\ pc' = [pc EXCEPT ![p] = "validate"]
    BY <1>3 DEF Open, Goto
  <2>2. IsValid' <=> IsValid
    BY <2>1 DEF IsValid, NonEmpty, First, IsHeader, IsSample, Object
  <2>3. \A q \in Processes : pc[q] \in {"closed", "validate"} => pc'[q] \in {"closed", "validate"}
    BY <2>1 DEF FileInv, Types
  <2> QED
    BY <2>1, <2>2, <2>3 DEF Frozen
<1>4. ASSUME NEW p \in Processes,
             \/ Accept(p) \/ BeginHeader(p) \/ BeginRow(p) \/ Write(p)
             \/ WriteFails(p) /\ pc[p] # "header"
      PROVE  Frozen'
  <2>1. spoiled' = spoiled
    BY <1>4 DEF Accept, BeginHeader, BeginRow, Write, WriteFails
  <2>2. IsValid \/ pc[p] \notin {"closed", "validate"}
    <3>1. NonEmpty = {} => IsValid
      BY DEF IsValid
    <3>2. buffer[p] # <<>> => pc[p] \in {"header", "row"}
      BY WriterFacts
    <3> QED
      BY <1>4, <3>1, <3>2 DEF Accept, BeginHeader, BeginRow, Write, WriteFails
  <2>3. spoiled = {}
    BY <2>2 DEF Frozen
  <2> QED
    BY <2>1, <2>3 DEF Frozen
<1>5. CASE UNCHANGED vars
  <2>1. file' = file /\ spoiled' = spoiled /\ pc' = pc
    BY <1>5 DEF vars
  <2>2. IsValid' <=> IsValid
    BY <2>1 DEF IsValid, NonEmpty, First, IsHeader, IsSample, Object
  <2> QED
    BY <2>1, <2>2 DEF Frozen
<1> QED
  BY <1>1, <1>2, <1>3, <1>4, <1>5 DEF Next

\* It holds whatever the file's users do.
LEMMA FrozenInductive == Spec => []Frozen
<1>1. Init => Frozen
  BY DEF Init, Frozen
<1> QED
  BY <1>1, FrozenStep, FileInductive, PTL DEF Spec

\* A line is a sequence of pieces, and no more rows are acknowledged by
\* append_sample_row than were begun.
THEOREM FileTypesCorrect == Spec => []TypeOK
<1>1. FileInv /\ Frozen => TypeOK
  <2> SUFFICES ASSUME FileInv, Frozen PROVE TypeOK
    OBVIOUS
  <2>1. LinePieces = Pieces \ {Newline}
    <3>1. Newline \notin LinePieces
      BY DEF LinePieces, Newline
    <3>2. Pieces = LinePieces \cup {Newline}
      BY DEF LinePieces, Pieces
    <3> QED
      BY <3>1, <3>2
  <2>2. file \in Seq(Seq(Pieces \ {Newline}))
    BY <2>1 DEF FileInv, Types
  <2>3. rows \in 0 .. MaxRows /\ acked \in 0 .. MaxRows /\ faults \in 0 .. MaxFaults
    BY JsonlBounds DEF FileInv, Types, Acknowledged
  <2>4. spoiled \subseteq Seq(Seq(Pieces \ {Newline}))
    BY <2>2 DEF Frozen
  <2> QED
    BY <2>2, <2>3, <2>4 DEF FileInv, Types, TypeOK
<1> QED
  BY <1>1, FileInductive, FrozenInductive, PTL

\* With the invariant, at most the first line is a header.
LEMMA OneHeaderInv == FileInv => OneHeader
<1> SUFFICES ASSUME FileInv, NEW i \in DOMAIN file, NEW n \in {1, 2}, HasPiece(file[i], n)
             PROVE  /\ i = 1 /\ HasPiece(<<file[1][n]>>, n)
                    /\ Cardinality({j \in DOMAIN file[1] : HasPiece(<<file[1][j]>>, n)}) = 1
  BY DEF OneHeader
<1>1. PICK h \in Headers, j \in DOMAIN file[i] : file[i][j] = [value |-> h, piece |-> n]
  BY DEF HasPiece
<1>2. i = 1 /\ j = n
  BY <1>1 DEF FileInv, HeaderPlace
<1>3. ASSUME NEW x
      PROVE  HasPiece(<<x>>, n) <=> \E k \in Headers : x = [value |-> k, piece |-> n]
  <2>1. \A k \in DOMAIN <<x>> : <<x>>[k] = x
    OBVIOUS
  <2>2. 1 \in DOMAIN <<x>>
    OBVIOUS
  <2> QED
    BY <2>1, <2>2, Zenon DEF HasPiece
<1>4. HasPiece(<<file[1][n]>>, n) /\ n \in DOMAIN file[1]
  BY <1>1, <1>2, <1>3
<1>5. ASSUME NEW k \in DOMAIN file[1], HasPiece(<<file[1][k]>>, n) PROVE k = n
  <2>1. PICK g \in Headers : file[1][k] = [value |-> g, piece |-> n]
    BY <1>3, <1>5
  <2> QED
    BY <1>2, <2>1 DEF FileInv, HeaderPlace
<1>6. {k \in DOMAIN file[1] : HasPiece(<<file[1][k]>>, n)} = {n}
  BY <1>4, <1>5
<1> QED
  BY <1>2, <1>4, <1>6, FS_Singleton

\* Whoever races to create the file, and wherever a writer of write_json_line
\* is interrupted, its header is written once and comes first.
THEOREM HeaderWrittenOnce == Spec => []OneHeader
  BY OneHeaderInv, FileInductive, PTL

\* Under the lock of open_jsonl_append_file a line is damaged only where
\* a writer was interrupted: there are at most as many as faults.
THEOREM DamageCorrect == Spec => []DamageBounded
<1>1. FileInv => DamageBounded
  BY DamageFinite DEF FileInv, Types, Charged, DamageBounded
<1> QED
  BY <1>1, FileInductive, PTL

\* A content of the file that a process left invalid is never written to again:
\* validate_existing_header stops whoever opens it, and under the lock nobody
\* else had got past it.
THEOREM DamageFrozenCorrect == Spec => []DamageFrozen
<1>1. Frozen => DamageFrozen
  BY DEF Frozen, DamageFrozen
<1> QED
  BY <1>1, FrozenInductive, PTL

\* Every acknowledged row ended a line, which is a row or is damaged.
Counted == acked <= Cardinality(SampleLines) + Cardinality(Damaged)

\* The lines that are rows can be counted.
LEMMA SamplesFinite ==
  ASSUME Types
  PROVE  IsFiniteSet(SampleLines) /\ Cardinality(SampleLines) \in Nat
<1>1. IsFiniteSet(1 .. Len(file) - 1)
  BY FileFacts, FS_Interval
<1>2. SampleLines \subseteq 1 .. Len(file) - 1
  BY DEF SampleLines
<1>3. IsFiniteSet(SampleLines)
  BY <1>1, <1>2, FS_Subset
<1> QED
  BY <1>3, FS_CardinalityType

\* A newline ends a line that is neither lost nor counted twice.
LEMMA NewlineCounted ==
  ASSUME FileInv, Counted, NEW p \in Processes, Write(p), Head(buffer[p]) = Newline
  PROVE  Counted'
<1>1. buffer[p] # <<>>
  BY DEF Write
<1>value. PICK v \in Values : \E w : Underway(p, v, w)
  BY <1>1, WriterFacts
<1>2. PICK w : Underway(p, v, w)
  BY <1>value
<1>3. Tail(buffer[p]) = <<>> /\ w = Object(v)
  BY <1>2, ProgressSteps, PieceFacts DEF Underway
<1>4. /\ file' = Append(file, <<>>)
      /\ acked' = (IF pc[p] = "row" THEN acked + 1 ELSE acked)
  BY <1>3 DEF Write, Appended, Goto
<1>5. /\ file' \in Seq(Seq(LinePieces)) /\ Len(file') = Len(file) + 1
      /\ \A i \in 1 .. Len(file) : file'[i] = file[i]
  BY <1>4, LineEnded DEF FileInv
<1>6. Len(file) \in Nat \ {0}
  BY FileFacts DEF FileInv
<1> DEFINE n == Len(file)
<1>7. /\ SampleLines \subseteq SampleLines' /\ Damaged \subseteq Damaged'
      /\ IsSample(LastLine) => n \in SampleLines'
      /\ LastLine # <<>> /\ ~IsHeader(LastLine) /\ ~IsSample(LastLine) => n \in Damaged'
  <2>1. /\ \A i \in 1 .. n - 1 : i \in 1 .. Len(file') - 1 /\ file'[i] = file[i]
        /\ n \in 1 .. Len(file') - 1 /\ file'[n] = LastLine
    BY <1>5, <1>6 DEF LastLine
  <2> QED
    BY <2>1 DEF SampleLines, Damaged, IsHeader, IsSample, Object
<1>8. n \notin SampleLines /\ n \notin Damaged
  BY <1>6 DEF SampleLines, Damaged
<1>9. /\ IsFiniteSet(SampleLines) /\ Cardinality(SampleLines) \in Nat
      /\ IsFiniteSet(Damaged) /\ Cardinality(Damaged) \in Nat /\ acked \in Nat
  BY SamplesFinite, DamageFinite DEF FileInv, Types
<1>10. /\ Cardinality(SampleLines \cup {n}) = Cardinality(SampleLines) + 1
       /\ Cardinality(Damaged \cup {n}) = Cardinality(Damaged) + 1
  BY <1>8, <1>9, FS_AddElement
<1>11. ASSUME pc[p] = "row" PROVE LastLine # <<>> /\ ~IsHeader(LastLine)
  <2>1. w # <<>>
    BY <1>3 DEF Object
  <2>2. EndsInRow
    BY <1>2, <1>11, <2>1 DEF Underway
  <2>3. ASSUME NEW h \in Headers, LastLine = Object(h) PROVE FALSE
    <3>1. Len(Object(h)) = 2 /\ Object(h)[2].value = h
      BY DEF Object
    <3> QED
      BY <2>2, <2>3, <3>1, JsonlNames DEF EndsInRow
  <2> QED
    BY <2>2, <2>3 DEF EndsInRow, IsHeader
<1>13. /\ IsFiniteSet(SampleLines') /\ Cardinality(SampleLines') \in Nat
       /\ IsFiniteSet(Damaged') /\ Cardinality(Damaged') \in Nat
  <2>1. IsFiniteSet(1 .. Len(file') - 1)
    BY <1>5, <1>6, FS_Interval
  <2>2. SampleLines' \subseteq 1 .. Len(file') - 1 /\ Damaged' \subseteq 1 .. Len(file') - 1
    BY DEF SampleLines, Damaged
  <2>3. IsFiniteSet(SampleLines') /\ IsFiniteSet(Damaged')
    BY <2>1, <2>2, FS_Subset
  <2> QED
    BY <2>3, FS_CardinalityType
<1>14. /\ Cardinality(SampleLines) <= Cardinality(SampleLines')
       /\ Cardinality(Damaged) <= Cardinality(Damaged')
  BY <1>7, <1>13, FS_Subset
<1>15. CASE pc[p] # "row"
  BY <1>4, <1>9, <1>13, <1>14, <1>15 DEF Counted
<1>16. CASE pc[p] = "row" /\ IsSample(LastLine)
  <2>1. SampleLines \cup {n} \subseteq SampleLines'
    BY <1>7, <1>16
  <2>2. Cardinality(SampleLines) + 1 <= Cardinality(SampleLines')
    BY <1>10, <1>13, <2>1, FS_Subset
  <2> QED
    BY <1>4, <1>9, <1>13, <1>14, <1>16, <2>2 DEF Counted
<1>17. CASE pc[p] = "row" /\ ~IsSample(LastLine)
  <2>1. Damaged \cup {n} \subseteq Damaged'
    BY <1>7, <1>11, <1>17
  <2>2. Cardinality(Damaged) + 1 <= Cardinality(Damaged')
    BY <1>10, <1>13, <2>1, FS_Subset
  <2> QED
    BY <1>4, <1>9, <1>13, <1>14, <1>17, <2>2 DEF Counted
<1> QED
  BY <1>15, <1>16, <1>17

\* No other step ends a line or acknowledges a row.
LEMMA CountedStep == FileInv /\ Counted /\ [Next]_vars => Counted'
<1> SUFFICES ASSUME FileInv, Counted, [Next]_vars PROVE Counted'
  OBVIOUS
<1>1. ASSUME acked' = acked, Len(file') = Len(file),
             \A i \in 1 .. Len(file) - 1 : file'[i] = file[i]
      PROVE  Counted'
  <2>1. SampleLines' = SampleLines /\ Damaged' = Damaged
    BY <1>1 DEF SampleLines, Damaged, IsHeader, IsSample, Object
  <2> QED
    BY <1>1, <2>1 DEF Counted
<1>2. ASSUME NEW p \in Processes, Write(p), Head(buffer[p]) # Newline PROVE Counted'
  <2>1. buffer[p] # <<>>
    BY <1>2 DEF Write
  <2>value. PICK v \in Values : \E w : Underway(p, v, w)
    BY <2>1, WriterFacts
  <2>2. PICK w : Underway(p, v, w)
    BY <2>value
  <2>3. PICK n \in {1, 2} : Head(buffer[p]) = Piece(v, n) /\ Tail(buffer[p]) # <<>>
    BY <1>2, <2>2, ProgressSteps DEF Underway
  <2>4. PICK x \in LinePieces : x = Piece(v, n)
    BY PieceFacts
  <2>5. file' = [file EXCEPT ![Len(file)] = Append(@, x)] /\ acked' = acked
    BY <1>2, <2>3, <2>4 DEF Write, Appended
  <2>6. /\ file' \in Seq(Seq(LinePieces)) /\ file' # <<>> /\ Len(file') = Len(file)
        /\ DOMAIN file' = 1 .. Len(file)
        /\ \A i \in 1 .. Len(file) - 1 : file'[i] = file[i]
        /\ LastLine' = Append(LastLine, x) /\ LastLine' # <<>>
        /\ file'[Len(file)] = Append(LastLine, x)
    BY <2>5, PieceWritten DEF FileInv
  <2> QED
    BY <1>1, <2>5, <2>6
<1>3. ASSUME NEW p \in Processes,
             \/ Open(p) \/ Reject(p) \/ Accept(p) \/ BeginHeader(p)
             \/ BeginRow(p) \/ WriteFails(p) \/ Close(p) \/ Crash(p)
      PROVE  Counted'
  <2>1. file' = file /\ acked' = acked
    BY <1>3 DEF Open, Reject, Accept, BeginHeader, BeginRow, WriteFails, Close, Crash, history
  <2> QED
    BY <1>1, <2>1
<1>4. CASE UNCHANGED vars
  BY <1>1, <1>4 DEF vars, history
<1> QED
  BY <1>2, <1>3, <1>4, NewlineCounted DEF Next

\* A row that append_sample_row acknowledged is a line of its own in the file,
\* but for at most one row per process that died or write that failed.
THEOREM RowsKeptCorrect == Spec => []RowsKept
<1>1. Init => Counted
  <2>1. ASSUME Init PROVE SampleLines = {} /\ Damaged = {} /\ acked = 0
    BY <2>1 DEF Init, SampleLines, Damaged
  <2> QED
    BY <2>1, FS_EmptySet DEF Counted
<1>2. FileInv /\ Counted => RowsKept
  <2> SUFFICES ASSUME FileInv, Counted PROVE RowsKept
    OBVIOUS
  <2>1. Cardinality(Damaged) <= faults /\ Cardinality(Damaged) \in Nat /\ faults \in Nat
    BY DamageFinite DEF FileInv, Types, Charged
  <2>2. Cardinality(SampleLines) \in Nat /\ acked \in Nat
    BY SamplesFinite DEF FileInv, Types
  <2> QED
    BY <2>1, <2>2 DEF Counted, RowsKept
<1> QED
  BY <1>1, <1>2, CountedStep, FileInductive, PTL DEF Spec

----------------------------------------------------------------------------
(* The command *)

Looping == {"send", "check", "sample", "last_sample", "row", "last_row", "done", "last_done"}

\* The types of the command's variables.
MainTypes ==
  /\ output \in BOOLEAN /\ stage \in Looping \cup {"start", "baseline", "ok", "failed"}
  /\ count \in 0 .. Count /\ now \in 0 .. MaxTime /\ written \in Nat

\* Before the loop nothing was sent, and the baseline says so.
Baseline ==
  /\ stage \in {"start", "baseline"} => count = 0 /\ written = 0 /\ previous = None
  /\ stage = "baseline" => current \in S!Snapshots /\ current.count = 0

\* In the loop the sampler has a baseline that is not ahead of the counter or
\* of the clock, so that a summary always has a delta.
Sampling ==
  /\ stage \in Looping => /\ previous \in S!Snapshots /\ previous.count <= count
                          /\ previous_sampled_at \in 0 .. MaxTime /\ previous_sampled_at <= now
  /\ stage \in {"sample", "last_sample"} => held \in S!Snapshots /\ held.count = count
  /\ Writing => output /\ delta \in S!Deltas

\* Rows written and the one under way report what the sampler reported.
Accounted ==
  /\ stage \in Looping \cup {"ok"} => IF output THEN written + InRow = previous.count ELSE written = 0
  /\ previous # None => /\ previous.count \in Nat
                        /\ written <= previous.count /\ previous.count <= count

\* The last summary comes after the last send, and Ok after the last summary.
Ending ==
  /\ stage \in {"last_sample", "last_row", "last_done", "ok"} => count = Count
  /\ stage \in {"last_row", "last_done"} => previous.count = Count
  /\ stage = "ok" => pc[Sender] = "closed" /\ (output => written = Count)

\* Outside of write_metrics_summary_jsonl the file is closed or idle.
FileIdle == ~Writing => pc[Sender] \in {"closed", "open"}

\* All of it.
CommandInv == MainTypes /\ Baseline /\ Sampling /\ Accounted /\ Ending /\ FileIdle

\* The command is one of the processes that may write the file.
LEMMA SenderFacts ==
  ASSUME FileInv
  PROVE  Sender \in Processes /\ pc[Sender] \in {"closed", "validate", "header", "open", "row"}
  BY MctxBounds DEF FileInv, Types

\* Return from main closes the file, if it is open.
LEMMA ExitFile ==
  ASSUME FileInv, NEW o, Exit(o), pc[Sender] \in {"closed", "open"}
  PROVE  /\ stage' = o /\ pc'[Sender] = "closed"
         /\ Close(Sender) \/ UNCHANGED vars
<1>1. stage' = o /\ UNCHANGED <<file, header, history>>
  BY DEF Exit
<1>2. CASE pc[Sender] = "closed"
  BY <1>1, <1>2 DEF Exit, vars
<1>3. CASE pc[Sender] = "open"
  <2>1. Drop(Sender)
    BY <1>3 DEF Exit
  <2>2. pc'[Sender] = "closed"
    BY <2>1, SenderFacts DEF Drop, Goto, FileInv, Types
  <2> QED
    BY <1>1, <1>3, <2>1, <2>2 DEF Close
<1> QED
  BY <1>2, <1>3

\* The steps of main that leave the file alone.
Inside == Tick \/ Begin \/ EnterLoop \/ Send \/ NotDue \/ EmitDue \/ EmitLast \/ emit_metrics_summary

\* Every step of the command is a step of one of the file's users, or none.
LEMMA CommandFileStep ==
  ASSUME FileInv, CommandInv, [MctxNext]_all_vars
  PROVE  [Next]_vars
<1>1. Sender \in Processes
  BY MctxBounds
<1>2. CASE Inside
  BY <1>2 DEF Inside, Tick, Begin, EnterLoop, Send, NotDue, EmitDue, EmitLast,
              emit_metrics_summary, file_vars
<1>3. ASSUME NEW o, Exit(o), ~Writing \/ pc[Sender] = "closed" PROVE [Next]_vars
  <2>1. pc[Sender] \in {"closed", "open"}
    BY <1>3 DEF CommandInv, FileIdle
  <2>2. Close(Sender) \/ UNCHANGED vars
    BY <1>3, <2>1, ExitFile
  <2> QED
    BY <1>1, <2>2 DEF Next
<1>4. CASE BeginFails \/ SendFails \/ Finish \/ LockBusy
  BY <1>3, <1>4 DEF BeginFails, SendFails, Finish, LockBusy, Writing
<1>5. CASE Rearm
  BY <1>3, <1>5 DEF Rearm, Writing, file_vars
<1>6. CASE OpenWriter \/ OpenRejected \/ BeginSampleRow \/ WritePiece
  BY <1>1, <1>6 DEF OpenWriter, OpenRejected, BeginSampleRow, WritePiece, Next
<1>7. CASE Stops
  BY <1>1, <1>7 DEF Stops, Next, file_vars
<1>8. ASSUME NEW p \in Processes \ {Sender}, OtherProcess(p) PROVE [Next]_vars
  BY <1>8 DEF OtherProcess, Next
<1>9. CASE UNCHANGED all_vars
  BY <1>9 DEF all_vars, file_vars
<1> QED
  BY <1>2, <1>4, <1>5, <1>6, <1>7, <1>8, <1>9 DEF MctxNext, Inside

\* The command starts before it has opened its file.
LEMMA CommandInit == MctxInit => FileInv /\ CommandInv
<1> SUFFICES ASSUME MctxInit PROVE FileInv /\ CommandInv
  OBVIOUS
<1>1. FileInv
  BY FileInit DEF MctxInit
<1>2. MainTypes /\ Baseline /\ Sampling /\ Accounted /\ Ending
  BY MctxBounds DEF MctxInit, MainTypes, Baseline, Sampling, Accounted, Ending, Looping, Writing
<1>3. FileIdle
  BY MctxBounds DEF MctxInit, Init, FileIdle
<1> QED
  BY <1>1, <1>2, <1>3 DEF CommandInv

\* Steps that leave main where it is.
LEMMA MainUnchanged ==
  ASSUME CommandInv, UNCHANGED main, Writing \/ pc'[Sender] = pc[Sender]
  PROVE  CommandInv'
<1>1. UNCHANGED <<output, stage, count, now, held, current, previous, previous_sampled_at, delta,
                  written>>
  BY DEF main, arguments, sampling
<1>2. MainTypes' /\ Baseline' /\ Sampling' /\ Accounted'
  BY <1>1 DEF CommandInv, MainTypes, Baseline, Sampling, Accounted, Writing, InRow
<1>3. Ending' /\ FileIdle'
  BY <1>1 DEF CommandInv, Ending, FileIdle, Writing
<1> QED
  BY <1>2, <1>3 DEF CommandInv

\* main returns: what was counted and written stays.
LEMMA MainFails ==
  ASSUME CommandInv, stage' = "failed", pc'[Sender] \in {"closed", "open"},
         count' \in 0 .. Count, count <= count',
         UNCHANGED <<output, now, written, previous>>
  PROVE  CommandInv'
<1>1. MainTypes' /\ Baseline' /\ Sampling' /\ Ending' /\ FileIdle'
  BY DEF CommandInv, MainTypes, Baseline, Sampling, Ending, FileIdle, Writing, Looping
<1>2. Accounted'
  BY MctxBounds DEF CommandInv, MainTypes, Accounted, Looping
<1> QED
  BY <1>1, <1>2 DEF CommandInv

\* The summary of a snapshot that is not behind the baseline has a delta, which
\* is all that was sent since.
LEMMA SummaryDelta ==
  ASSUME CommandInv, stage \in {"sample", "last_sample"}, S!sample_snapshot_at(held, now)
  PROVE  /\ delta' \in S!Deltas /\ delta' # None /\ delta'.count = held.count - previous.count
         /\ previous' = held /\ previous_sampled_at' = now
         /\ UNCHANGED <<count, now, held>>
<1>1. /\ delta' = S!DeltaAt(held, now) /\ previous' = held /\ previous_sampled_at' = now
      /\ UNCHANGED <<count, now, held>>
  BY DEF S!sample_snapshot_at, S!Account, S!clocks
<1>2. /\ previous \in S!Snapshots /\ previous.count <= count /\ held \in S!Snapshots
      /\ held.count = count /\ previous_sampled_at \in 0 .. MaxTime /\ previous_sampled_at <= now
      /\ now \in 0 .. MaxTime
  BY DEF CommandInv, Sampling, MainTypes, Looping
<1>3. /\ previous # None /\ previous_sampled_at # None
      /\ previous.count \in 0 .. Count /\ held.count \in 0 .. Count
  BY <1>2, MctxNone, MctxBounds DEF S!Snapshots
<1>4. S!DeltaAt(held, now)
        = [interval |-> now - previous_sampled_at, count |-> held.count - previous.count]
  BY <1>2, <1>3, MctxBounds DEF S!DeltaAt, S!delta_since_duration
<1>5. now - previous_sampled_at \in Nat /\ held.count - previous.count \in Nat
  BY <1>2, <1>3, MctxBounds
<1>6. /\ delta' \in S!Deltas /\ delta'.count = held.count - previous.count
  BY <1>1, <1>4, <1>5 DEF S!Deltas
<1> QED
  BY <1>1, <1>6, MctxNone

\* A summary takes the counter as the next baseline, and leaves a row to write.
LEMMA SummaryKeeps ==
  ASSUME FileInv, CommandInv, emit_metrics_summary
  PROVE  CommandInv'
<1>1. stage \in {"sample", "last_sample"} /\ S!sample_snapshot_at(held, now)
  BY DEF emit_metrics_summary
<1>2. /\ delta' \in S!Deltas /\ delta' # None /\ delta'.count = held.count - previous.count
      /\ previous' = held /\ previous_sampled_at' = now
      /\ UNCHANGED <<count, now, held>>
  BY <1>1, SummaryDelta
<1>3. /\ stage' = IF output THEN IF stage = "sample" THEN "row" ELSE "last_row"
                  ELSE IF stage = "sample" THEN "done" ELSE "last_done"
      /\ UNCHANGED <<output, written, pc>>
  BY <1>2 DEF emit_metrics_summary, arguments, file_vars, vars
<1>4. /\ previous \in S!Snapshots /\ previous.count <= count /\ held \in S!Snapshots
      /\ held.count = count /\ now \in 0 .. MaxTime /\ count \in 0 .. Count
      /\ pc[Sender] \in {"closed", "open"} /\ previous.count \in 0 .. Count
      /\ (stage = "last_sample" => count = Count)
      /\ written \in Nat /\ (IF output THEN written = previous.count ELSE written = 0)
  <2>1. InRow = 0 /\ ~Writing /\ stage \in Looping
    BY <1>1 DEF InRow, Writing, Looping
  <2>2. /\ previous \in S!Snapshots /\ previous.count <= count /\ held \in S!Snapshots
        /\ held.count = count /\ now \in 0 .. MaxTime /\ count \in 0 .. Count
        /\ pc[Sender] \in {"closed", "open"} /\ (stage = "last_sample" => count = Count)
        /\ written \in Nat /\ (IF output THEN written + 0 = previous.count ELSE written = 0)
    BY <1>1, <2>1 DEF CommandInv, Sampling, MainTypes, FileIdle, Ending, Accounted
  <2>3. previous.count \in 0 .. Count
    BY <2>2 DEF S!Snapshots
  <2> QED
    BY <2>2, <2>3
<1>5. MainTypes' /\ Baseline'
  BY <1>1, <1>2, <1>3 DEF CommandInv, MainTypes, Baseline, Looping
<1>6. Sampling'
  BY <1>1, <1>2, <1>3, <1>4, MctxBounds DEF Sampling, Writing
<1>7. Accounted'
  <2>1. CASE output
    <3>1. InRow' = delta'.count /\ stage' \in Looping /\ output'
      BY <1>1, <1>3, <2>1 DEF InRow, Writing, Looping
    <3>2. written' + delta'.count = previous'.count
      BY <1>2, <1>3, <1>4, <2>1, MctxBounds
    <3> QED
      BY <1>2, <1>3, <1>4, <2>1, <3>1, <3>2, MctxBounds DEF Accounted
  <2>2. CASE ~output
    BY <1>2, <1>3, <1>4, <2>2, MctxBounds DEF Accounted
  <2> QED
    BY <2>1, <2>2
<1>8. Ending' /\ FileIdle'
  BY <1>1, <1>2, <1>3, <1>4 DEF Ending, FileIdle, Writing
<1> QED
  BY <1>5, <1>6, <1>7, <1>8 DEF CommandInv

\* The steps before the loop.
LEMMA BeginKeepsCommand ==
  ASSUME CommandInv, Begin \/ EnterLoop
  PROVE  CommandInv'
<1> USE DEF file_vars, vars, arguments
<1>1. CASE Begin
  <2>1. /\ stage = "start" /\ stage' = "baseline" /\ current' = S!snapshot
        /\ UNCHANGED <<output, pc, count, now, written, previous>>
    BY <1>1 DEF Begin, S!SampleBegin, S!clocks, S!sampler
  <2>2. count = 0 /\ written = 0 /\ previous = None /\ now \in 0 .. MaxTime
    BY <2>1 DEF CommandInv, Baseline, MainTypes
  <2>3. current' \in S!Snapshots /\ current'.count = 0
    BY <2>1, <2>2, MctxBounds DEF S!snapshot, S!Snapshots
  <2> QED
    BY <2>1, <2>2, <2>3 DEF CommandInv, MainTypes, Baseline, Sampling, Accounted, Ending, FileIdle,
                            Writing, Looping
<1>2. CASE EnterLoop
  <2>1. /\ stage = "baseline" /\ stage' \in {"send", "failed"}
        /\ previous' = current /\ previous_sampled_at' = now
        /\ UNCHANGED <<output, pc, count, now, written>>
    BY <1>2 DEF EnterLoop, S!SampleEnd, S!sample_snapshot_at, S!clocks
  <2>2. /\ count = 0 /\ written = 0 /\ current \in S!Snapshots /\ current.count = 0
        /\ now \in 0 .. MaxTime /\ pc[Sender] \in {"closed", "open"} /\ output \in BOOLEAN
    BY <2>1 DEF CommandInv, Baseline, MainTypes, FileIdle, Writing
  <2>3. MainTypes' /\ Baseline' /\ Ending' /\ FileIdle'
    BY <2>1, <2>2 DEF CommandInv, MainTypes, Baseline, Ending, FileIdle, Looping
  <2>4. Sampling'
    BY <2>1, <2>2, MctxBounds DEF Sampling, Writing
  <2>5. Accounted'
    BY <2>1, <2>2 DEF Accounted, InRow, Writing
  <2> QED
    BY <2>3, <2>4, <2>5 DEF CommandInv
<1> QED
  BY <1>1, <1>2

\* The clock, the sends and the snapshots of the loop.
LEMMA LoopKeepsCommand ==
  ASSUME CommandInv, Tick \/ Send \/ NotDue \/ EmitDue \/ EmitLast
  PROVE  CommandInv'
<1> USE DEF file_vars, vars, arguments
<1>1. CASE Tick
  <2>1. /\ now < MaxTime /\ now' = now + 1 /\ now' \in 0 .. MaxTime
        /\ UNCHANGED <<output, stage, pc, count, written, held, current, previous,
                       previous_sampled_at, delta>>
    BY <1>1, MctxBounds DEF Tick, sampling, CommandInv, MainTypes
  <2>2. MainTypes' /\ Baseline' /\ Accounted' /\ Ending' /\ FileIdle'
    BY <2>1 DEF CommandInv, MainTypes, Baseline, Accounted, Ending, FileIdle, Writing, InRow
  <2>3. Sampling'
    BY <2>1, MctxBounds DEF CommandInv, MainTypes, Sampling, Writing
  <2> QED
    BY <2>2, <2>3 DEF CommandInv
<1>2. CASE Send
  <2>1. /\ stage = "send" /\ stage' = "check" /\ count' = count + 1 /\ count' \in 0 .. Count
        /\ UNCHANGED <<output, pc, now, written, previous, previous_sampled_at>>
    BY <1>2, MctxBounds DEF Send, sampling, CommandInv, MainTypes
  <2>2. /\ previous \in S!Snapshots /\ previous.count \in 0 .. Count /\ previous.count <= count
        /\ count \in 0 .. Count
    BY <2>1 DEF CommandInv, MainTypes, Sampling, Looping, S!Snapshots
  <2>3. MainTypes' /\ Baseline' /\ Ending' /\ FileIdle'
    BY <2>1 DEF CommandInv, MainTypes, Baseline, Ending, FileIdle, Writing, Looping
  <2>4. Sampling'
    BY <2>1, <2>2, MctxBounds DEF CommandInv, Sampling, Writing, Looping
  <2>5. Accounted'
    BY <2>1, <2>2, MctxBounds DEF CommandInv, Accounted, InRow, Writing, Looping
  <2> QED
    BY <2>3, <2>4, <2>5 DEF CommandInv
<1>3. CASE NotDue
  <2>1. /\ stage = "check" /\ stage' = "send"
        /\ UNCHANGED <<output, pc, count, now, written, previous, previous_sampled_at>>
    BY <1>3 DEF NotDue, sampling
  <2> QED
    BY <2>1 DEF CommandInv, MainTypes, Baseline, Sampling, Accounted, Ending, FileIdle, Writing,
                Looping, InRow
<1>4. CASE EmitDue \/ EmitLast
  <2>1. /\ stage \in {"check", "send"} /\ stage' \in {"sample", "last_sample"}
        /\ (stage' = "last_sample" => count = Count) /\ held' = S!snapshot
        /\ UNCHANGED <<output, pc, count, now, written, previous, previous_sampled_at>>
    BY <1>4 DEF EmitDue, EmitLast, S!Capture, S!clocks, S!sampler
  <2>2. held' \in S!Snapshots /\ held'.count = count
    BY <2>1, MctxBounds DEF S!snapshot, S!Snapshots, CommandInv, MainTypes
  <2>3. MainTypes' /\ Baseline' /\ Ending' /\ FileIdle'
    BY <2>1 DEF CommandInv, MainTypes, Baseline, Ending, FileIdle, Writing, Looping
  <2>4. Sampling'
    BY <2>1, <2>2 DEF CommandInv, Sampling, Writing, Looping
  <2>5. Accounted'
    BY <2>1 DEF CommandInv, Accounted, InRow, Writing, Looping
  <2> QED
    BY <2>3, <2>4, <2>5 DEF CommandInv
<1> QED
  BY <1>1, <1>2, <1>3, <1>4

\* The steps that may end main.
LEMMA ExitKeepsCommand ==
  ASSUME FileInv, CommandInv, BeginFails \/ SendFails \/ Rearm \/ LockBusy \/ OpenRejected \/ Stops
  PROVE  CommandInv'
<1>1. CASE BeginFails \/ SendFails \/ LockBusy
  <2>1. /\ Exit("failed") /\ pc[Sender] \in {"closed", "open"}
        /\ count' \in 0 .. Count /\ count <= count'
        /\ UNCHANGED <<output, now, written, previous>>
    BY <1>1, MctxBounds DEF BeginFails, SendFails, LockBusy, sampling, arguments, CommandInv,
                            MainTypes, FileIdle, Writing
  <2>2. stage' = "failed" /\ pc'[Sender] = "closed"
    BY <2>1, ExitFile
  <2> QED
    BY <2>1, <2>2, MainFails
<1>2. CASE Rearm
  <2>1. /\ stage = "done" /\ pc[Sender] \in {"closed", "open"}
        /\ UNCHANGED <<output, count, now, written, previous, previous_sampled_at>>
    BY <1>2 DEF Rearm, sampling, arguments, CommandInv, FileIdle, Writing
  <2>2. CASE Exit("failed")
    <3>1. stage' = "failed" /\ pc'[Sender] = "closed"
      BY <2>1, <2>2, ExitFile
    <3> QED
      BY <2>1, <3>1, MctxBounds, MainFails DEF CommandInv, MainTypes
  <2>3. CASE stage' = "send" /\ UNCHANGED file_vars
    <3>1. pc' = pc
      BY <2>3 DEF file_vars, vars
    <3> QED
      BY <2>1, <2>3, <3>1 DEF CommandInv, MainTypes, Baseline, Sampling, Accounted, Ending,
                              FileIdle, Writing, Looping, InRow
  <2> QED
    BY <1>2, <2>2, <2>3 DEF Rearm
<1>3. CASE OpenRejected \/ Stops
  <2>1. /\ stage' = "failed" /\ UNCHANGED <<output, count, now, written, previous>>
        /\ Reject(Sender) \/ Crash(Sender) \/ (pc[Sender] = "closed" /\ UNCHANGED file_vars)
    BY <1>3 DEF OpenRejected, Stops, sampling, arguments
  <2>2. pc'[Sender] = "closed"
    BY <2>1, SenderFacts DEF Reject, Crash, Drop, Goto, file_vars, vars, FileInv, Types
  <2> QED
    BY <2>1, <2>2, MctxBounds, MainFails DEF CommandInv, MainTypes
<1> QED
  BY <1>1, <1>2, <1>3

\* The command ends well only when all is sent and reported.
LEMMA FinishKeepsCommand ==
  ASSUME FileInv, CommandInv, Finish
  PROVE  CommandInv'
<1>1. /\ stage \in {"last_done", "send"} /\ (stage = "send" => count = Count /\ ~output)
      /\ Exit("ok") /\ pc[Sender] \in {"closed", "open"}
      /\ UNCHANGED <<output, count, now, written, previous>>
  BY DEF Finish, sampling, arguments, CommandInv, FileIdle, Writing
<1>2. stage' = "ok" /\ pc'[Sender] = "closed"
  BY <1>1, ExitFile
<1>3. count = Count /\ (output => written = Count)
  <2>1. CASE stage = "last_done"
    <3>1. /\ count = Count /\ previous.count = Count /\ InRow = 0 /\ written \in Nat
          /\ (output => written + InRow = previous.count)
      BY <2>1 DEF CommandInv, MainTypes, Ending, Accounted, InRow, Writing, Looping
    <3> QED
      BY <3>1
  <2> QED
    BY <1>1, <2>1
<1>4. MainTypes' /\ Baseline' /\ Sampling' /\ Ending' /\ FileIdle'
  BY <1>1, <1>2, <1>3 DEF CommandInv, MainTypes, Baseline, Sampling, Ending, FileIdle, Writing,
                          Looping
<1>5. Accounted'
  BY <1>1, <1>2 DEF CommandInv, Accounted, InRow, Writing, Looping
<1> QED
  BY <1>4, <1>5 DEF CommandInv

\* A row that is out is counted once.
LEMMA WriteKeepsCommand ==
  ASSUME FileInv, CommandInv, WritePiece
  PROVE  CommandInv'
<1>1. /\ Writing /\ Write(Sender) /\ RowDone
      /\ UNCHANGED <<output, count, now, held, current, previous, previous_sampled_at, delta>>
  BY DEF WritePiece, sampling, arguments
<1>2. acked \in Nat /\ Sender \in Processes
  BY SenderFacts DEF FileInv, Types
<1>3. CASE acked' > acked
  <2>1. pc'[Sender] = "open"
    <3>1. Tail(buffer[Sender]) = <<>>
      BY <1>1, <1>2, <1>3 DEF Write
    <3> QED
      BY <1>1, <1>2, <3>1 DEF Write, Goto, FileInv, Types
  <2>2. /\ written' = written + delta.count
        /\ stage' = IF stage = "last_row" THEN "last_done" ELSE "done"
    BY <1>1, <1>3 DEF RowDone
  <2>3. /\ stage \in {"row", "last_row"} /\ output /\ delta.count \in Nat /\ written \in Nat
        /\ previous \in S!Snapshots /\ previous.count \in 0 .. Count
        /\ written + delta.count = previous.count
        /\ (stage = "last_row" => count = Count /\ previous.count = Count)
    BY <1>1 DEF CommandInv, MainTypes, Sampling, Accounted, Ending, InRow, Writing, Looping,
                S!Deltas, S!Snapshots
  <2>4. MainTypes' /\ Baseline' /\ Ending' /\ FileIdle'
    BY <1>1, <2>1, <2>2, <2>3 DEF CommandInv, MainTypes, Baseline, Ending, FileIdle, Looping
  <2>5. Sampling'
    BY <1>1, <2>2, <2>3 DEF CommandInv, Sampling, Writing, Looping
  <2>6. Accounted'
    <3>1. InRow' = 0
      BY <2>2 DEF InRow, Writing
    <3>2. written' = previous'.count /\ written' \in Nat
      BY <1>1, <2>2, <2>3
    <3> QED
      BY <1>1, <2>3, <3>1, <3>2 DEF CommandInv, Sampling, Accounted, Looping
  <2> QED
    BY <2>4, <2>5, <2>6 DEF CommandInv
<1>4. CASE ~(acked' > acked)
  <2>1. UNCHANGED <<stage, written>>
    BY <1>1, <1>4 DEF RowDone
  <2>2. MainTypes' /\ Baseline' /\ Sampling' /\ Accounted'
    BY <1>1, <2>1 DEF CommandInv, MainTypes, Baseline, Sampling, Accounted, Writing, InRow
  <2>3. Ending' /\ FileIdle'
    BY <1>1, <2>1 DEF CommandInv, Ending, FileIdle, Writing
  <2> QED
    BY <2>2, <2>3 DEF CommandInv
<1> QED
  BY <1>3, <1>4

\* Every step of the command keeps its invariant.
LEMMA CommandStep ==
  ASSUME FileInv, CommandInv, [MctxNext]_all_vars
  PROVE  FileInv' /\ CommandInv'
<1>1. FileInv'
  BY CommandFileStep, FileStep
<1>2. ASSUME OpenWriter \/ BeginSampleRow PROVE CommandInv'
  <2>1. UNCHANGED main /\ Writing
    BY <1>2 DEF OpenWriter, BeginSampleRow, Elsewhere, main
  <2> QED
    BY <2>1, MainUnchanged
<1>3. ASSUME NEW p \in Processes \ {Sender}, OtherProcess(p) PROVE CommandInv'
  <2>1. UNCHANGED main
    BY <1>3 DEF OtherProcess
  <2>2. pc'[Sender] = pc[Sender]
    BY <1>3, SenderFacts DEF OtherProcess, FileInv, Types, Goto, Drop, Open, Reject, Accept,
                             BeginHeader, BeginRow, Write, WriteFails, Close, Crash
  <2> QED
    BY <2>1, <2>2, MainUnchanged
<1>4. ASSUME UNCHANGED all_vars PROVE CommandInv'
  <2>1. UNCHANGED main /\ pc' = pc
    BY <1>4 DEF all_vars, file_vars, vars
  <2> QED
    BY <2>1, MainUnchanged
<1> QED
  BY <1>1, <1>2, <1>3, <1>4, BeginKeepsCommand, LoopKeepsCommand, SummaryKeeps, ExitKeepsCommand,
     FinishKeepsCommand, WriteKeepsCommand DEF MctxNext

\* Both invariants hold throughout a run of the command.
LEMMA CommandInductive == MctxSpec => [](FileInv /\ CommandInv)
BY CommandInit, CommandStep, PTL DEF MctxSpec

\* Everything mctx_send does with its output file, from opening it to the exit
\* on an error in main, is what a user of MetricsJsonlWriter may do: the
\* command implements the specification of the file and its writers.
THEOREM CommandUsesFile == MctxSpec => Spec
<1>1. MctxInit => Init
  BY DEF MctxInit
<1>2. FileInv /\ CommandInv /\ [MctxNext]_all_vars => [Next]_vars
  BY CommandFileStep
<1> QED
  BY <1>1, <1>2, CommandInductive, PTL DEF MctxSpec, Spec

\* The file mctx_send shares with other processes has at most one header and
\* damage only where a process was interrupted, which costs at most one
\* acknowledged row; and left invalid it is left alone.
THEOREM CommandFileCorrect ==
  MctxSpec => []OneHeader /\ []DamageBounded /\ []DamageFrozen /\ []RowsKept
BY CommandUsesFile, HeaderWrittenOnce, DamageCorrect, DamageFrozenCorrect, RowsKeptCorrect, PTL

\* Between them the rows emit_metrics_summary wrote, and the one it is writing,
\* report every send up to the sampler's last snapshot exactly once.
THEOREM RowsAccountCorrect == MctxSpec => []RowsAccount
<1>1. CommandInv => RowsAccount
  BY DEF CommandInv, MainTypes, Accounted, Looping, RowsAccount
<1> QED
  BY <1>1, CommandInductive, PTL

\* When main returns Ok, it sent --count datagrams, the rows report all of them
\* and the lock on the output file is released.
THEOREM ReportedInFullCorrect == MctxSpec => []ReportedInFull
<1>1. FileInv /\ CommandInv => ReportedInFull
  BY MctxBounds DEF FileInv, Locked, CommandInv, Ending, ReportedInFull
<1> QED
  BY <1>1, CommandInductive, PTL
===========================================================================
