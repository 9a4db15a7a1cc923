------------------------------ MODULE JsonLines ------------------------------
(***************************************************************************)
(* The JSONL files of a job (src/storage.rs): solver-telemetry.jsonl and   *)
(* timeline.jsonl.  A file is a sequence of lines and a flag that says     *)
(* whether the last line still lacks its newline.  A line is the sequence  *)
(* of the pieces written into it; a piece is the beginning                 *)
(* (whole = FALSE) or all of the JSON text of one entry.                   *)
(***************************************************************************)
EXTENDS Naturals, Sequences

EmptyFile == [lines |-> <<>>, open |-> FALSE]

Piece(entry, whole) == [entry |-> entry, whole |-> whole]

(* The file after a piece was written, with or without the newline.  It is *)
(* opened for appending: a line without its newline is continued.          *)
Written(file, piece, newline) ==
  [lines |-> IF file.open
             THEN [file.lines EXCEPT ![Len(file.lines)] = Append(@, piece)]
             ELSE Append(file.lines, <<piece>>),
   open  |-> ~newline]

(* The whole append: the serialized entry, the newline, the flush. *)
AppendLine(file, entry) == Written(file, Piece(entry, TRUE), TRUE)

(* What an append leaves behind that fails or that a crash interrupts: *)
(* nothing, the beginning of the text, or the text without its newline. *)
InterruptedAppends(file, entry) ==
  {file} \union {Written(file, Piece(entry, w), FALSE) : w \in BOOLEAN}

(* serde_json accepts a line that is exactly one entry. *)
Parses(line) == Len(line) = 1 /\ line[1].whole

(* What a reader gets: lines that do not parse are skipped. *)
ReadableLines(file) == {i \in DOMAIN file.lines : Parses(file.lines[i])}

EntryAt(file, i) == file.lines[i][1].entry
=============================================================================
