---------------------------- MODULE OutputLines ----------------------------
(* One output stream of a `process.run` child, cut into lines: a bounded     *)
(* line reader whose pending call is dropped whenever the other stream has a *)
(* line first (BoundedLines and stream_process_output of                     *)
(* supervisor/process/registry.rs).                                          *)
EXTENDS Naturals, Sequences

CONSTANTS Bytes,           \* what a child writes besides the newline
          Newline,
          MaxLineBytes,    \* MAX_LINE_BYTES
          LastByte         \* bound: bytes written

ASSUME LineAssumption == MaxLineBytes \in Nat \ {0}

VARIABLES written,         \* what the child wrote
          closed,          \* and that it closed its end
          taken,           \* bytes the reader has consumed
          line,            \* BoundedLines.line
          discarding,      \* the pending next_line drops the rest of a long line
          lines,           \* lines delivered
          streamDone

linesVars == <<written, closed, taken, line, discarding, lines, streamDone>>

Available == SubSeq(written, taken + 1, Len(written))
Room      == MaxLineBytes - Len(line)

LinesInit ==
  /\ written = <<>> /\ closed = FALSE
  /\ taken = 0 /\ line = <<>> /\ discarding = FALSE
  /\ lines = <<>> /\ streamDone = FALSE

Write(byte) ==
  /\ ~closed /\ Len(written) < LastByte
  /\ written' = Append(written, byte)
  /\ UNCHANGED <<closed, taken, line, discarding, lines, streamDone>>

CloseOutput ==
  /\ ~closed /\ closed' = TRUE
  /\ UNCHANGED <<written, taken, line, discarding, lines, streamDone>>

\* A read takes what is there, up to a newline.
Chunks(limit) ==
  {k \in 1..Len(Available) : k <= limit /\ \A i \in 1..(k - 1) : Available[i] # Newline}

TakeLine(last) == lines' = Append(lines, last) /\ line' = <<>>

\* read_until, into the line that outlives the call.
ReadLine(k) ==
  /\ ~discarding /\ ~streamDone /\ k \in Chunks(Room)
  /\ taken' = taken + k
  /\ IF Available[k] = Newline
       THEN TakeLine(line \o SubSeq(Available, 1, k - 1))
       ELSE line' = line \o SubSeq(Available, 1, k) /\ UNCHANGED lines
  /\ UNCHANGED <<written, closed, discarding, streamDone>>

\* A full line and nothing else says that its rest is to be dropped.
BeginDiscard ==
  /\ ~discarding /\ Room = 0 /\ discarding' = TRUE
  /\ UNCHANGED <<written, closed, taken, line, lines, streamDone>>

SkipToNewline(k) ==
  /\ discarding /\ k \in Chunks(MaxLineBytes)
  /\ taken' = taken + k
  /\ IF Available[k] = Newline
       THEN TakeLine(line) /\ discarding' = FALSE
       ELSE UNCHANGED <<line, lines, discarding>>
  /\ UNCHANGED <<written, closed, streamDone>>

\* The end of the stream delivers the line it left open.
ReadEnd ==
  /\ closed /\ Available = <<>> /\ ~streamDone /\ (discarding \/ Room # 0)
  /\ IF line = <<>> THEN streamDone' = TRUE /\ UNCHANGED <<line, lines>>
                    ELSE TakeLine(line) /\ UNCHANGED streamDone
  /\ discarding' = FALSE
  /\ UNCHANGED <<written, closed, taken>>

\* Wrong on purpose, for mutation: the line is local to the call.
LosesLine == <<>>

\* What of the line is left when the call is dropped: it lives in the struct.
KeepsLine == line

\* The other arm of the select! wins, and this one's call is dropped at an await.
OtherStreamWins ==
  /\ ~streamDone
  /\ line' = KeepsLine /\ discarding' = FALSE
  /\ UNCHANGED <<written, closed, taken, lines, streamDone>>

LinesNext ==
  \/ \E byte \in Bytes \cup {Newline} : Write(byte)
  \/ CloseOutput
  \/ \E k \in 1..MaxLineBytes : ReadLine(k) \/ SkipToNewline(k)
  \/ BeginDiscard \/ ReadEnd \/ OtherStreamWins

LinesSpec == LinesInit /\ [][LinesNext]_linesVars

-----------------------------------------------------------------------------
\* A text byte by byte: the lines that ended, each cut at the maximum, and the open one.
CutLine(open) == SubSeq(open, 1, IF Len(open) < MaxLineBytes THEN Len(open) ELSE MaxLineBytes)

NothingRead == [full |-> <<>>, open |-> <<>>]

Read(sofar, byte) ==
  IF byte = Newline THEN [full |-> Append(sofar.full, CutLine(sofar.open)), open |-> <<>>]
                    ELSE [sofar EXCEPT !.open = Append(@, byte)]

Parse(text) ==
  LET parse[i \in 0..Len(text)] == IF i = 0 THEN NothingRead ELSE Read(parse[i - 1], text[i])
  IN parse[Len(text)]

\* The lines of a text; an open one at the end counts.
LinesOf(text) ==
  LET all == Parse(text) IN
  IF all.open = <<>> THEN all.full ELSE Append(all.full, CutLine(all.open))

(* The lines delivered are those of the text, in order, none lost, split or  *)
(* joined, however the bytes come and wherever the other stream interrupts:  *)
(* within a line, at its limit, or while the rest of it is dropped           *)
(* (registry.rs: BoundedLines::next_line, discard_to_newline).               *)
LinesAreWhole ==
  LinesOf(SubSeq(written, 1, taken)) = IF line = <<>> THEN lines ELSE Append(lines, line)
=============================================================================
