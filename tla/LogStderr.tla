----------------------------- MODULE LogStderr -----------------------------
(***************************************************************************)
(* logStderr: the goroutine of the host that copies the plugin's stderr to *)
(* ClientConfig.Stderr and logs it line by line, at the level the plugin   *)
(* gave the line.                                                          *)
(*                                                                         *)
(* A line is its form with its level, its length in bytes up to the newline *)
(* and the places of its carriage returns.  A byte is <<line, place>>.     *)
(* bufio.Reader is external: ReadLine returns a line in pieces that fill   *)
(* the buffer (isPrefix) and a last, shorter one, which may be empty; it   *)
(* takes "\r\n" for the end of a line, and puts back a carriage return that *)
(* ends a full buffer, to see what follows.  (An error of the underlying   *)
(* reader comes in a Read of its own, as it does from a pipe.)             *)
(***************************************************************************)
EXTENDS Naturals, Sequences, FiniteSets

CONSTANTS Lines,      \* the lines a plugin may write
          MaxLines,   \* bound on their number
          Buffer,     \* ClientConfig.PluginLogBufferSize, at least 16
          Levels      \* levels the host's logger may have

NoLevel == 0
Debug == 2
Error == 5
Off == 6

\* <<form, level>>: how a line starts, and the level it gives.
Forms == ({"plain", "bad", "panic"} \X {NoLevel})
         \cup ({"tag"} \X (1..Error)) \cup ({"json"} \X (NoLevel..Off))

ASSUME BufferAssumption == Buffer \in Nat /\ Buffer >= 2
ASSUME LevelsAssumption == MaxLines \in Nat /\ Levels \subseteq 1..Off
ASSUME LinesAssumption ==
  Lines \subseteq [form : Forms, length : Nat, crs : SUBSET (Nat \ {0})]

VARIABLES
  input,         \* the lines the plugin writes, as far as they can be read
  unended,       \* the last line has no newline: the plugin died writing it
  broken,        \* at the end Read returns an error that is not io.EOF
  level,         \* the logger's level
  line, pos,     \* the line the reader is in, and the bytes of it it has read
  continuation, inPanic,
  pump,          \* the goroutine: "read", "ended" or "panicked"
  stderr,        \* bytes passed to ClientConfig.Stderr (no error is looked at)
  log            \* <<line, level>> of what the logger has put out

given == <<input, unended, broken, level>>
vars == <<given, line, pos, continuation, inPanic, pump, stderr, log>>

Init ==
  /\ input \in UNION {[1..n -> Lines] : n \in 1..MaxLines}
  /\ unended \in BOOLEAN /\ broken \in BOOLEAN /\ level \in Levels
  /\ line = 1 /\ pos = 0
  /\ continuation = FALSE /\ inPanic = FALSE
  /\ pump = "read" /\ stderr = <<>> /\ log = <<>>

-----------------------------------------------------------------------------
\* The bytes of line i without its end, "\n" or "\r\n".
Ended(i) == i < Len(input) \/ ~unended
Kept(i) == IF Ended(i) /\ input[i].length \in input[i].crs
           THEN input[i].length - 1 ELSE input[i].length

isPrefix == pos + Buffer <= input[line].length

\* The bytes of the piece that ReadLine returns.
Piece == IF ~isPrefix THEN Kept(line) - pos
         ELSE IF pos + Buffer \in input[line].crs THEN Buffer - 1 ELSE Buffer
Bytes == [k \in 1..Piece |-> <<line, pos + k>>]
Newline == <<0, 0>>

\* Nothing is left to read; an unended line may have ended with a prefix.
AtEnd == \/ line > Len(input)
         \/ line = Len(input) /\ unended /\ pos = input[line].length

\* The reader goes on in the same line or to the next.
ReadOn ==
  \/ isPrefix /\ pos' = pos + Piece /\ UNCHANGED line
  \/ ~isPrefix /\ pos' = 0 /\ line' = line + 1

\* The logger puts out what reaches its level.
Logged(l) == log' = IF l >= level THEN Append(log, <<line, l>>) ELSE log

\* Mutant of LogPiece: the newline is added to every piece.
LogPieceNewline ==
  /\ pump = "read" /\ ~AtEnd /\ (isPrefix \/ continuation)
  /\ stderr' = stderr \o Append(Bytes, Newline)
  /\ Logged(Debug)
  /\ continuation' = isPrefix
  /\ ReadOn
  /\ UNCHANGED <<given, inPanic, pump>>

\* A piece of a line that is longer than the buffer.
LogPiece ==
  /\ pump = "read" /\ ~AtEnd /\ (isPrefix \/ continuation)
  /\ stderr' = stderr \o (IF isPrefix THEN Bytes ELSE Append(Bytes, Newline))
  /\ Logged(Debug)
  /\ continuation' = isPrefix
  /\ ReadOn
  /\ UNCHANGED <<given, inPanic, pump>>

\* parseJSON accepts an object, unless it has a timestamp it cannot parse.
parseJSON(l) == l.form[1] = "json"

\* The level of a line that is not JSON: its tag, or what panics are given.
PlainLevel(l) ==
  IF l.form[1] = "tag" THEN l.form[2]
  ELSE IF l.form[1] = "panic" \/ inPanic THEN Error ELSE Debug

\* The level of an entry; one without a level is output verbatim.
EntryLevel(l) == IF l.form[2] \in 1..Error THEN l.form[2] ELSE Debug

\* Mutant of LogJSON: what is at the logger's level is not prepared either.
LogJSONSkipEqual(l) ==
  IF l.form[2] # NoLevel /\ l.form[2] <= level THEN UNCHANGED log
  ELSE Logged(EntryLevel(l))

\* An entry the logger would ignore is not prepared.
LogJSON(l) == IF l.form[2] # NoLevel /\ l.form[2] < level THEN UNCHANGED log
              ELSE Logged(EntryLevel(l))

\* A whole line.  Nothing is parsed if the logger is off.
LogLine ==
  /\ pump = "read" /\ ~AtEnd /\ ~isPrefix /\ ~continuation
  /\ stderr' = stderr \o Append(Bytes, Newline)
  /\ LET l == input[line] IN
       \/ level = Off /\ UNCHANGED <<inPanic, log>>
       \/ level # Off /\ parseJSON(l) /\ LogJSON(l) /\ UNCHANGED inPanic
       \/ /\ level # Off /\ ~parseJSON(l)
          /\ Logged(PlainLevel(l))
          /\ inPanic' = (inPanic \/ l.form[1] = "panic")
  /\ ReadOn
  /\ UNCHANGED <<given, continuation, pump>>

\* ReadLine returns io.EOF ...
LogEnd ==
  /\ pump = "read" /\ AtEnd /\ ~broken
  /\ pump' = "ended"
  /\ UNCHANGED <<given, line, pos, continuation, inPanic, stderr, log>>

\* ... or another error, which is logged.
LogReadError ==
  /\ pump = "read" /\ AtEnd /\ broken
  /\ pump' = "ended"
  /\ log' = IF Error >= level THEN Append(log, <<0, Error>>) ELSE log
  /\ UNCHANGED <<given, line, pos, continuation, inPanic, stderr>>

\* The host's writer panics in the first Write of a line or piece; recovered.
WriterPanics ==
  /\ pump = "read" /\ ~AtEnd
  /\ pump' = "panicked"
  /\ UNCHANGED <<given, line, pos, continuation, inPanic, stderr, log>>

Next == LogPiece \/ LogLine \/ LogEnd \/ LogReadError \/ WriterPanics

Spec == Init /\ [][Next]_vars

-----------------------------------------------------------------------------
(* Properties.                                                             *)

\* The bytes of the lines before line i in the copy, newlines included, as
\* <<line, place>>, and so where line i starts there.
Before(i) == UNION {{j} \X (0..Kept(j)) : j \in 1..(i - 1)}
Start(i) == Cardinality(Before(i))

\* ClientConfig.Stderr receives the bytes that could be read, in order and each
\* once, whatever the length of the lines, where carriage returns fall in the
\* buffer, and the level of the logger.  The copy differs from the original in the
\* ends of lines only: "\r\n" becomes "\n", and an unended line gets a newline
\* (unless it ended with a full buffer).  At the end, be it io.EOF or an error,
\* nothing else is missing.
StderrCopied ==
  LET all == Start(Len(input) + 1) IN
    /\ Len(stderr) <= all
    /\ \A i \in 1..Len(input) : \A b \in 1..(Kept(i) + 1) :
         Start(i) + b <= Len(stderr) =>
           stderr[Start(i) + b] = IF b <= Kept(i) THEN <<i, b>> ELSE Newline
    /\ pump = "ended" => \/ Len(stderr) = all
                         \/ unended /\ Len(stderr) + 1 = all

Short(i) == input[i].length < Buffer

\* The level a line should have, by its own form and the lines before it.
Wanted(i) ==
  LET f == input[i].form IN
    IF f[1] \in {"json", "tag"} THEN (IF f[2] \in 1..Error THEN f[2] ELSE Debug)
    ELSE IF \E j \in 1..i : input[j].form[1] = "panic" /\ Short(j) THEN Error
    ELSE Debug

\* Every line that fits the buffer is logged once, at the level it asks for,
\* and a stack trace at Error to its end, although tagged and JSON lines come
\* between, if the logger puts out that level: skipping what a logger would
\* ignore loses nothing else.  An error that ends the copy is logged, io.EOF not.
LoggedAsWanted ==
  /\ \A i \in 1..Len(input) : Short(i) =>
       LET mine == {k \in 1..Len(log) : log[k][1] = i} IN
         /\ \A k \in mine : mine = {k} /\ log[k][2] = Wanted(i)
         /\ i < line => (mine # {} <=> Wanted(i) >= level)
  /\ (\E k \in 1..Len(log) : log[k][1] = 0) <=>
       (pump = "ended" /\ broken /\ Error >= level)
=============================================================================
