--------------------------- MODULE LogStderrProofs ---------------------------
(***************************************************************************)
(* LogStderr, for lines of any number, form and length, any size of the    *)
(* buffer and any level of the logger: the plugin's stderr is copied byte  *)
(* by byte, and every line that fits the buffer is logged as it asks.      *)
(***************************************************************************)
EXTENDS LogStderr, FiniteSetTheorems, TLAPS

\* How a line may start.
LEMMA FormFacts ==
  ASSUME NEW f \in Forms
  PROVE  /\ f[2] \in 0..6
         /\ f[1] = "tag" => f[2] \in 1..5
BY SMT, Z3, SMTT(20) DEF Forms, NoLevel, Error, Off

\* What is read.
ReadOK ==
  /\ input \in Seq(Lines) /\ unended \in BOOLEAN /\ level \in 1..6
  /\ line \in 1..(Len(input) + 1) /\ pos \in Nat
  /\ continuation \in BOOLEAN /\ inPanic \in BOOLEAN
  /\ pump \in {"read", "ended", "panicked"}

\* Where the reader is: it goes on in a line if and only if the last piece was a
\* prefix, of a line that does not fit the buffer, and it never stands behind a
\* carriage return that may belong to the end of the line.
ReaderInv ==
  /\ ReadOK
  /\ line <= Len(input) => /\ pos <= Kept(line)
                           /\ continuation <=> pos # 0
                           /\ continuation => ~Short(line)
  /\ line > Len(input) => ~continuation /\ pos = 0
  /\ pump = "ended" => AtEnd

\* The lines.
LEMMA LineFacts ==
  ASSUME ReadOK, NEW i \in 1..Len(input)
  PROVE  /\ input[i].length \in Nat /\ input[i].form \in Forms
         /\ Kept(i) \in Nat /\ Kept(i) <= input[i].length
         /\ input[i].length <= Kept(i) + 1
<1>1. input[i] \in Lines
  BY SMT, Z3, SMTT(20) DEF ReadOK
<1>2. /\ input[i].length \in Nat /\ input[i].form \in Forms
      /\ input[i].crs \subseteq Nat \ {0}
  BY <1>1, LinesAssumption, Zenon
<1>3. PICK n \in Nat : n = input[i].length
  BY <1>2, Zenon
<1>4. CASE Ended(i) /\ n \in input[i].crs
  <2>1. Kept(i) = n - 1 /\ n # 0
    BY <1>2, <1>3, <1>4, Zenon DEF Kept
  <2> QED
    BY <1>2, <1>3, <2>1, SMT, Z3, SMTT(20)
<1>5. CASE ~(Ended(i) /\ n \in input[i].crs)
  <2>1. Kept(i) = n
    BY <1>3, <1>5, Zenon DEF Kept
  <2> QED
    BY <1>2, <1>3, <2>1, SMT, Z3, SMTT(20)
<1> QED
  BY <1>4, <1>5, Zenon

\* Initially the reader is at the first line.
LEMMA InitReads == Init => ReaderInv
<1> SUFFICES ASSUME Init PROVE ReaderInv
  BY Zenon
<1>1. PICK n \in 1..MaxLines : input \in [1..n -> Lines]
  BY Zenon DEF Init
<1>2. input \in Seq(Lines) /\ Len(input) = n /\ n \in Nat /\ n >= 1
  BY <1>1, LevelsAssumption, SMT, Z3, SMTT(20)
<1>3. /\ unended \in BOOLEAN /\ level \in 1..6 /\ line = 1
      /\ pos = 0 /\ continuation = FALSE /\ inPanic = FALSE
      /\ pump = "read"
  BY LevelsAssumption, Zenon DEF Init, Off
<1>4. ReadOK
  <2>1. line \in 1..(Len(input) + 1) /\ pos \in Nat
    BY <1>2, <1>3, SMT, Z3, SMTT(20)
  <2> QED
    BY <1>2, <1>3, <2>1, Zenon DEF ReadOK
<1>5. 1 \in 1..Len(input) /\ ~(line > Len(input))
  BY <1>2, <1>3, SMT, Z3, SMTT(20)
<1>6. pos <= Kept(line)
  <2>1. Kept(line) \in Nat
    BY <1>3, <1>4, <1>5, LineFacts, Zenon
  <2> QED
    BY <1>3, <2>1, SMT, Z3, SMTT(20)
<1>7. pump # "ended"
  BY <1>3, Zenon
<1> QED
  BY <1>3, <1>4, <1>5, <1>6, <1>7, Zenon DEF ReaderInv

\* A piece is of the line that is read: of what is kept of it, and all there is
\* left unless it is a prefix.
LEMMA PieceFacts ==
  ASSUME ReaderInv, line \in 1..Len(input)
  PROVE  /\ Piece \in Nat /\ pos + Piece <= Kept(line)
         /\ isPrefix => Piece >= 1
         /\ ~isPrefix => pos + Piece = Kept(line)
<1>0. /\ Buffer \in Nat /\ Buffer >= 2 /\ pos \in Nat /\ ReadOK
      /\ line <= Len(input) /\ Len(input) \in Nat
  BY BufferAssumption, SMT, Z3, SMTT(20) DEF ReaderInv, ReadOK
<1>1. PICK n \in Nat, m \in Nat :
        n = input[line].length /\ m = Kept(line) /\ m <= n /\ n <= m + 1
  BY <1>0, LineFacts, Zenon
<1>2. pos <= m
  BY <1>0, <1>1, Zenon DEF ReaderInv
<1>3. CASE ~isPrefix
  <2>1. Piece = m - pos
    BY <1>1, <1>3, Zenon DEF Piece
  <2> QED
    BY <1>0, <1>1, <1>2, <1>3, <2>1, SMT, Z3, SMTT(20)
<1>4. CASE isPrefix /\ pos + Buffer \in input[line].crs
  <2>1. Piece = Buffer - 1 /\ pos + Buffer <= n
    BY <1>1, <1>4, Zenon DEF Piece, isPrefix
  <2> QED
    BY <1>0, <1>1, <1>4, <2>1, SMT, Z3, SMTT(20)
<1>5. CASE isPrefix /\ pos + Buffer \notin input[line].crs
  <2>1. Piece = Buffer /\ pos + Buffer <= n
    BY <1>1, <1>5, Zenon DEF Piece, isPrefix
  <2>2. m = n \/ pos + Buffer # n
    BY <1>1, <1>5, Zenon DEF Kept
  <2> QED
    BY <1>0, <1>1, <1>5, <2>1, <2>2, SMT, Z3, SMTT(20)
<1> QED
  BY <1>3, <1>4, <1>5, Zenon

\* A step reads a piece and stays in the line, or its end and goes to the next.
LEMMA Reads ==
  ASSUME ReaderInv, LogPiece \/ LogLine
  PROVE  /\ UNCHANGED given
         /\ UNCHANGED <<input, unended, broken, level, pump>>
         /\ pump = "read" /\ line \in 1..Len(input)
         /\ LogLine => ~isPrefix /\ ~continuation /\ continuation' = FALSE
         /\ LogPiece => ~Short(line)
         /\ LogLine => Short(line)
         /\ \/ /\ LogPiece /\ isPrefix /\ continuation' = TRUE
               /\ line' = line /\ pos' = pos + Piece
            \/ ~isPrefix /\ continuation' = FALSE /\ line' = line + 1 /\ pos' = 0
<1>0. Buffer \in Nat
  BY BufferAssumption, Zenon
<1>1. /\ UNCHANGED <<given, pump>> /\ pump = "read" /\ ~AtEnd
      /\ ReadOn
      /\ LogPiece => (isPrefix \/ continuation) /\ continuation' = isPrefix
      /\ LogLine => ~isPrefix /\ ~continuation /\ continuation' = continuation
  BY Zenon DEF LogPiece, LogLine
<1>2. line \in 1..Len(input) /\ line <= Len(input)
  BY <1>1, SMT, Z3, SMTT(20) DEF ReaderInv, ReadOK, AtEnd
<1>3. /\ LogPiece => ~Short(line)
      /\ LogLine => Short(line)
  <2>1. /\ input[line].length \in Nat /\ pos \in Nat
        /\ continuation => ~Short(line)
        /\ ~continuation => pos = 0
    BY <1>2, LineFacts, Zenon DEF ReaderInv, ReadOK
  <2>2. pos + Buffer <= input[line].length => ~(input[line].length < Buffer)
    BY <1>0, <2>1, SMT, Z3, SMTT(20)
  <2>3. pos = 0 /\ ~(pos + Buffer <= input[line].length) =>
          input[line].length < Buffer
    BY <1>0, <2>1, SMT, Z3, SMTT(20)
  <2> QED
    BY <1>1, <2>1, <2>2, <2>3, Zenon DEF isPrefix, Short
<1>4. isPrefix \in BOOLEAN /\ continuation \in BOOLEAN
  <2>1. PICK n \in Nat, m \in Nat : n = input[line].length /\ m = pos
    BY <1>2, LineFacts, Zenon DEF ReaderInv, ReadOK
  <2>2. (m + Buffer <= n) \in BOOLEAN
    BY <1>0, SMT, Z3, SMTT(20)
  <2> QED
    BY <2>1, <2>2, Zenon DEF ReaderInv, ReadOK, isPrefix
<1>5. UNCHANGED <<input, unended, broken, level, pump>>
  BY <1>1, Zenon DEF given
<1>6. CASE isPrefix
  BY <1>1, <1>2, <1>3, <1>5, <1>6, Zenon DEF ReadOn
<1>7. CASE ~isPrefix
  BY <1>1, <1>2, <1>3, <1>4, <1>5, <1>7, Zenon DEF ReadOn
<1> QED
  BY <1>6, <1>7, Zenon

\* The steps that do not read.
LEMMA StepCases ==
  ASSUME [Next]_vars
  PROVE  \/ LogPiece \/ LogLine
         \/ /\ UNCHANGED <<given, line, pos, continuation, inPanic, stderr>>
            /\ UNCHANGED <<input, unended, broken, level>>
            /\ \/ pump' = pump /\ log' = log
               \/ pump' = "panicked" /\ log' = log /\ pump = "read"
               \/ LogEnd \/ LogReadError
BY Zenon DEF Next, LogEnd, LogReadError, WriterPanics, vars, given

\* inPanic is a Boolean.
LEMMA PanicType ==
  ASSUME ReaderInv, LogPiece \/ LogLine
  PROVE  inPanic' \in BOOLEAN
<1>1. inPanic \in BOOLEAN
  BY Zenon DEF ReaderInv, ReadOK
<1>2. CASE LogPiece
  BY <1>1, <1>2, Zenon DEF LogPiece
<1>3. CASE LogLine
  BY <1>1, <1>3, Zenon DEF LogLine
<1> QED
  BY <1>2, <1>3, Zenon

\* The reader stays where it should be.
LEMMA ReaderPreserved ==
  ASSUME ReaderInv, [Next]_vars
  PROVE  ReaderInv'
<1>1. ASSUME LogPiece \/ LogLine PROVE ReaderInv'
  <2>1. /\ UNCHANGED <<input, unended, level, pump>> /\ pump = "read"
        /\ line \in 1..Len(input) /\ inPanic' \in BOOLEAN
        /\ pump' # "ended"
    BY <1>1, Reads, PanicType, Zenon
  <2>2. /\ Len(input) \in Nat /\ line \in Nat /\ pos \in Nat /\ line <= Len(input)
        /\ Piece \in Nat
    BY <2>1, PieceFacts, SMT, Z3, SMTT(20) DEF ReaderInv, ReadOK
  <2>3. CASE /\ LogPiece /\ isPrefix /\ continuation' = TRUE
             /\ line' = line /\ pos' = pos + Piece
    <3>1. Kept(line)' = Kept(line) /\ Short(line)' = Short(line) /\ ~Short(line)
      BY <1>1, <2>1, <2>3, Reads, Zenon DEF Kept, Ended, Short
    <3>2. pos' <= Kept(line) /\ Piece >= 1
      BY <2>1, <2>3, PieceFacts, Zenon
    <3>3. pos' \in Nat /\ pos' # 0 /\ ~(line' > Len(input))
      BY <2>2, <2>3, <3>2, SMT, Z3, SMTT(20)
    <3> QED
      BY <2>1, <2>3, <3>1, <3>2, <3>3, Zenon DEF ReaderInv, ReadOK
  <2>4. CASE ~isPrefix /\ continuation' = FALSE /\ line' = line + 1 /\ pos' = 0
    <3>1. line' \in 1..(Len(input) + 1) /\ pos' \in Nat
          /\ (line' <= Len(input) => line' \in 1..Len(input))
      BY <2>2, <2>4, SMT, Z3, SMTT(20)
    <3>2. line' <= Len(input) => pos' <= Kept(line')
      <4> SUFFICES ASSUME line' <= Len(input) PROVE pos' <= Kept(line')
        BY Zenon
      <4>1. Kept(line') \in Nat
        BY <3>1, LineFacts, Zenon DEF ReaderInv
      <4> QED
        BY <2>4, <4>1, SMT, Z3, SMTT(20)
    <3>3. Kept(line)' = Kept(line')
      BY <2>1, Zenon DEF Kept, Ended
    <3> QED
      BY <2>1, <2>4, <3>1, <3>2, <3>3, Zenon DEF ReaderInv, ReadOK
  <2> QED
    BY <1>1, <2>3, <2>4, Reads, Zenon
<1>2. ASSUME UNCHANGED <<input, unended, level, line, pos, continuation, inPanic>>,
             \/ pump' = pump
             \/ pump' = "ended" /\ AtEnd
             \/ pump' = "panicked"
      PROVE  ReaderInv'
  BY <1>2, Zenon DEF ReaderInv, ReadOK, AtEnd, Short, Kept, Ended
<1>3. LogEnd \/ LogReadError => pump' = "ended" /\ AtEnd
  BY Zenon DEF LogEnd, LogReadError
<1> QED
  BY <1>1, <1>2, <1>3, StepCases, Zenon

-----------------------------------------------------------------------------
(* The bytes.                                                              *)

\* A line starts after the one before it.
LEMMA StartNext ==
  ASSUME ReadOK, NEW i \in 1..Len(input)
  PROVE  /\ Start(i) \in Nat /\ IsFiniteSet(Before(i + 1))
         /\ Start(i + 1) = Start(i) + Kept(i) + 1
<1> DEFINE own(j) == {j} \X (0..Kept(j))
<1>0. Len(input) \in Nat
  BY SMT, Z3, SMTT(20) DEF ReadOK
<1>1. \A j \in 1..Len(input) : /\ IsFiniteSet(own(j))
                               /\ Cardinality(own(j)) = Kept(j) + 1
  <2> SUFFICES ASSUME NEW j \in 1..Len(input)
               PROVE  /\ IsFiniteSet(own(j))
                      /\ Cardinality(own(j)) = Kept(j) + 1
    BY Zenon
  <2>1. Kept(j) \in Nat
    BY LineFacts, Zenon
  <2>2. /\ IsFiniteSet(0..Kept(j))
        /\ Cardinality(0..Kept(j)) = Kept(j) + 1
    <3>1. PICK n \in Nat : n = Kept(j)
      BY <2>1, Zenon
    <3>2. IsFiniteSet(0..n) /\ Cardinality(0..n) = n + 1
      BY FS_Interval, SMT, Z3, SMTT(20)
    <3> QED
      BY <3>1, <3>2, Zenon
  <2>3. IsFiniteSet({j}) /\ Cardinality({j}) = 1
    BY FS_Singleton, Zenon
  <2>4. /\ IsFiniteSet(own(j))
        /\ Cardinality(own(j)) = 1 * (Kept(j) + 1)
    <3> DEFINE P == {j}
               Q == 0..Kept(j)
    <3>1. /\ IsFiniteSet(P) /\ Cardinality(P) = 1
          /\ IsFiniteSet(Q) /\ Cardinality(Q) = Kept(j) + 1
      BY <2>2, <2>3, Zenon
    <3>2. own(j) = P \X Q
      BY Zenon
    <3> HIDE DEF P, Q, own
    <3>3. /\ IsFiniteSet(P \X Q)
          /\ Cardinality(P \X Q) = Cardinality(P) * Cardinality(Q)
      BY <3>1, FS_Product, Zenon
    <3> QED
      BY <3>1, <3>2, <3>3, Zenon
  <2> QED
    BY <2>1, <2>4, SMT, Z3, SMTT(20)
<1>2. IsFiniteSet(Before(i))
  <2> DEFINE S == 1..(i - 1)
             T == {own(j) : j \in S}
             f == [j \in S |-> own(j)]
  <2>1. IsFiniteSet(S)
    BY <1>0, FS_Interval, SMT, Z3, SMTT(20)
  <2>2. f \in Surjection(S, T)
    BY Zenon DEF Surjection
  <2>3. IsFiniteSet(T)
    <3> HIDE DEF S, T, f
    <3> QED
      BY <2>1, <2>2, FS_Surjection, Zenon
  <2>4. \A U \in T : IsFiniteSet(U)
    <3>1. S \subseteq 1..Len(input)
      BY <1>0, SMT, Z3, SMTT(20)
    <3> QED
      BY <1>1, <3>1, Zenon
  <2>5. IsFiniteSet(UNION T)
    <3> HIDE DEF T
    <3> QED
      BY <2>3, <2>4, FS_UNION, Zenon
  <2> QED
    BY <2>5, Zenon DEF Before
<1>3. Before(i + 1) = Before(i) \cup own(i)
  <2>1. 1..((i + 1) - 1) = (1..(i - 1)) \cup {i}
    BY <1>0, SMT, Z3, SMTT(20)
  <2>2. Before(i + 1) = UNION {own(j) : j \in (1..(i - 1)) \cup {i}}
    BY <2>1, Zenon DEF Before
  <2> QED
    BY <2>2, Zenon DEF Before
<1>4. Before(i) \cap own(i) = {}
  <2>1. i \notin 1..(i - 1)
    BY <1>0, SMT, Z3, SMTT(20)
  <2>2. \A x : x \in own(i) => x[1] = i
    BY Zenon
  <2>3. ASSUME NEW x \in Before(i) PROVE x[1] \in 1..(i - 1)
    <3>1. PICK j \in 1..(i - 1) : x \in own(j)
      BY Zenon DEF Before
    <3> QED
      BY <3>1, Zenon
  <2> QED
    BY <2>1, <2>2, <2>3, Zenon
<1>5. Cardinality(Before(i)) \in Nat
  BY <1>2, FS_CardinalityType, Zenon
<1>6. Cardinality(Before(i + 1)) =
        Cardinality(Before(i)) + Cardinality(own(i)) - Cardinality({})
  <2> HIDE DEF own
  <2> QED
    BY <1>1, <1>2, <1>3, <1>4, FS_Union, SMT, Z3, SMTT(20)
<1>7. Cardinality({}) = 0
  BY FS_EmptySet, Zenon
<1>8. Cardinality(own(i)) = Kept(i) + 1 /\ Kept(i) \in Nat
  BY <1>1, LineFacts, Zenon
<1>9. IsFiniteSet(Before(i + 1))
  <2> DEFINE A == Before(i)
             B == own(i)
  <2>1. IsFiniteSet(A) /\ IsFiniteSet(B) /\ Before(i + 1) = A \cup B
    BY <1>1, <1>2, <1>3, Zenon
  <2> HIDE DEF A, B
  <2>2. IsFiniteSet(A \cup B)
    BY <2>1, FS_Union, Zenon
  <2> QED
    BY <2>1, <2>2, Zenon
<1> HIDE DEF own
<1> QED
  BY <1>5, <1>6, <1>7, <1>8, <1>9, SMT, Z3, SMTT(20) DEF Start

\* The lines start in order.
LEMMA StartOrder ==
  ASSUME ReadOK, NEW i \in 1..Len(input), NEW j \in 1..Len(input), i < j
  PROVE  Start(i) + Kept(i) + 1 <= Start(j)
<1>0. Len(input) \in Nat
  BY SMT, Z3, SMTT(20) DEF ReadOK
<1>1. PICK k \in 1..Len(input) : j = k + 1 /\ i <= k
  BY <1>0, SMT, Z3, SMTT(20)
<1>2. IsFiniteSet(Before(j))
  BY <1>1, StartNext, Zenon
<1>3. Before(i + 1) \subseteq Before(j)
  <2>1. 1..((i + 1) - 1) \subseteq 1..(j - 1)
    BY <1>0, SMT, Z3, SMTT(20)
  <2> QED
    BY <2>1, Zenon DEF Before
<1>4. Start(i + 1) <= Start(j)
  BY <1>2, <1>3, FS_Subset, Zenon DEF Start
<1> QED
  BY <1>4, StartNext, Zenon

\* Start is a place, up to the end of the input.
LEMMA StartType ==
  ASSUME ReadOK, NEW i \in 1..(Len(input) + 1)
  PROVE  Start(i) \in Nat
<1>0. Len(input) \in Nat
  BY SMT, Z3, SMTT(20) DEF ReadOK
<1>1. CASE i \in 1..Len(input)
  BY <1>1, StartNext, Zenon
<1>2. CASE i = 1
  <2>1. 1..(1 - 1) = {}
    OBVIOUS
  <2>2. Before(1) = {}
    BY <2>1, Zenon DEF Before
  <2>3. 0 \in Nat
    OBVIOUS
  <2> QED
    BY <1>2, <2>2, <2>3, FS_EmptySet, Zenon DEF Start
<1>3. CASE i # 1 /\ i \notin 1..Len(input)
  <2>1. Len(input) \in 1..Len(input) /\ i = Len(input) + 1
    BY <1>0, <1>3, SMT, Z3, SMTT(20)
  <2>2. /\ Start(i) = Start(Len(input)) + Kept(Len(input)) + 1
        /\ Start(Len(input)) \in Nat /\ Kept(Len(input)) \in Nat
    BY <2>1, StartNext, LineFacts, Zenon
  <2> QED
    BY <2>2, SMT, Z3, SMTT(20)
<1> QED
  BY <1>1, <1>2, <1>3, Zenon

\* The b-th byte of line i.
Byte(i, b) == IF b <= Kept(i) THEN <<i, b>> ELSE Newline

\* What has been written is what has been read.
BytesInv ==
  /\ stderr \in Seq(Nat \X Nat)
  /\ Len(stderr) = Start(line) + pos
  /\ \A i \in 1..Len(input) : \A b \in 1..(Kept(i) + 1) :
       Start(i) + b <= Len(stderr) => stderr[Start(i) + b] = Byte(i, b)

\* Where line i starts does not change.
LEMMA StartStays ==
  ASSUME UNCHANGED <<input, unended>>
  PROVE  \A i : /\ Start(i)' = Start(i) /\ Kept(i)' = Kept(i)
                /\ \A b : Byte(i, b)' = Byte(i, b)
BY Zenon DEF Start, Before, Byte, Kept, Ended

\* One sequence after another.
LEMMA Concatenated ==
  ASSUME NEW s \in Seq(Nat \X Nat), NEW t \in Seq(Nat \X Nat)
  PROVE  /\ s \o t \in Seq(Nat \X Nat) /\ Len(s \o t) = Len(s) + Len(t)
         /\ \A k \in 1..Len(s) : (s \o t)[k] = s[k]
         /\ \A k \in 1..Len(t) : (s \o t)[Len(s) + k] = t[k]
<1>1. s \o t \in Seq(Nat \X Nat) /\ Len(s \o t) = Len(s) + Len(t)
  OBVIOUS
<1>2. \A k \in 1..Len(s) : (s \o t)[k] = s[k]
  OBVIOUS
<1>3. ASSUME NEW k \in 1..Len(t) PROVE (s \o t)[Len(s) + k] = t[k]
  BY <1>3, SMT, Z3, SMTT(20)
<1> QED
  BY <1>1, <1>2, <1>3, Zenon

\* The places of the bytes: w bytes are written and v more follow, all of them
\* of the line that starts at p and has n bytes of which c are written.
LEMMA PlaceBefore ==
  ASSUME NEW p \in Nat, NEW c \in Nat, NEW w \in Nat,
         NEW q \in Nat, NEW o \in Nat, NEW b \in 1..(o + 1),
         w = p + c, q + o + 1 <= p
  PROVE  ~(q + b > w)
OBVIOUS

LEMMA PlaceAfter ==
  ASSUME NEW p \in Nat, NEW n \in Nat, NEW c \in Nat, NEW w \in Nat,
         NEW q \in Nat, NEW b \in Nat, NEW v \in Nat,
         b >= 1, c + v <= n + 1, w = p + c, p + n + 1 <= q
  PROVE  ~(q + b <= w + v)
OBVIOUS

LEMMA PlacesInOrder ==
  ASSUME NEW p \in Nat, NEW q \in Nat, NEW r \in Nat, p <= q, q <= r
  PROVE  p <= r
OBVIOUS

\* Writing the next bytes of the line.
Writes(t) ==
  /\ stderr' = stderr \o t
  /\ \A k \in 1..Len(t) : t[k] = Byte(line, pos + k)

LEMMA BytesAppended ==
  ASSUME ReaderInv, BytesInv, line \in 1..Len(input), NEW t \in Seq(Nat \X Nat),
         pos + Len(t) <= Kept(line) + 1, Writes(t)
  PROVE  /\ stderr' \in Seq(Nat \X Nat)
         /\ Len(stderr') = Start(line) + pos + Len(t)
         /\ \A i \in 1..Len(input) : \A b \in 1..(Kept(i) + 1) :
              Start(i) + b <= Len(stderr') => stderr'[Start(i) + b] = Byte(i, b)
<1>0. /\ stderr \in Seq(Nat \X Nat) /\ Len(stderr) \in Nat /\ Len(t) \in Nat
      /\ pos \in Nat /\ Len(stderr) = Start(line) + pos
  <2>1. stderr \in Seq(Nat \X Nat) /\ Len(stderr) = Start(line) + pos
    BY Zenon DEF BytesInv
  <2>2. Len(stderr) \in Nat /\ Len(t) \in Nat
    BY <2>1, SMT, Z3, SMTT(20)
  <2> QED
    BY <2>1, <2>2, Zenon DEF ReaderInv, ReadOK
<1>1. /\ stderr' \in Seq(Nat \X Nat) /\ Len(stderr') = Len(stderr) + Len(t)
      /\ \A k \in 1..Len(stderr) : stderr'[k] = stderr[k]
      /\ \A k \in 1..Len(t) : stderr'[Len(stderr) + k] = t[k]
  BY <1>0, Concatenated, ZenonT(40) DEF Writes
<1>2. /\ ReadOK /\ Start(line) \in Nat /\ Kept(line) \in Nat
  BY StartNext, LineFacts, Zenon DEF ReaderInv
<1>3. ASSUME NEW i \in 1..Len(input), NEW b \in 1..(Kept(i) + 1),
             Start(i) + b <= Len(stderr')
      PROVE  stderr'[Start(i) + b] = Byte(i, b)
  <2>0. Start(i) \in Nat /\ Kept(i) \in Nat /\ b \in Nat /\ b >= 1
    <3>1. Start(i) \in Nat /\ Kept(i) \in Nat
      BY <1>2, StartNext, LineFacts, Zenon
    <3>2. \A n \in Nat : \A c \in 1..(n + 1) : c \in Nat /\ c >= 1
      OBVIOUS
    <3> QED
      BY <3>1, <3>2, Zenon
  <2>1. CASE Start(i) + b <= Len(stderr)
    <3>1. stderr[Start(i) + b] = Byte(i, b)
      BY <2>1, Zenon DEF BytesInv
    <3>2. Start(i) + b \in 1..Len(stderr)
      <4>1. \A n, c, m \in Nat : c >= 1 /\ n + c <= m => n + c \in 1..m
        OBVIOUS
      <4>2. Len(stderr) \in Nat
        BY <1>0, Zenon
      <4> QED
        BY <2>0, <2>1, <4>1, <4>2, Zenon
    <3> QED
      BY <1>1, <3>1, <3>2, Zenon
  <2>2. CASE Start(i) + b > Len(stderr)
    <3>1. ~(i < line)
      <4> SUFFICES ASSUME i < line PROVE FALSE
        BY Zenon
      <4>1. Start(i) + Kept(i) + 1 <= Start(line)
        BY <1>2, StartOrder, Zenon
      <4> QED
        BY <1>0, <1>2, <2>0, <2>2, <4>1, PlaceBefore, Zenon
    <3>2. ~(line < i)
      <4> SUFFICES ASSUME line < i PROVE FALSE
        BY Zenon
      <4>1. Start(line) + Kept(line) + 1 <= Start(i)
        BY <1>2, StartOrder, Zenon
      <4>2. ~(Start(i) + b <= Len(stderr) + Len(t))
        BY <1>0, <1>2, <2>0, <4>1, PlaceAfter, Zenon
      <4> QED
        BY <1>1, <1>3, <4>2, Zenon
    <3>3. i = line
      BY <1>2, <3>1, <3>2, SMT, Z3, SMTT(20) DEF ReadOK
    <3>4. PICK k \in 1..Len(t) : Start(i) + b = Len(stderr) + k /\ b = pos + k
      <4>1. /\ Start(line) + b > Start(line) + pos
            /\ Start(line) + b <= (Start(line) + pos) + Len(t)
        BY <1>0, <1>1, <1>3, <2>2, <3>3, Zenon
      <4>2. \E k \in 1..Len(t) : /\ Start(line) + b = (Start(line) + pos) + k
                                 /\ b = pos + k
        <5>1. PICK p \in Nat, c \in Nat, d \in Nat, v \in Nat :
                p = Start(line) /\ c = pos /\ d = b /\ v = Len(t)
          BY <1>0, <1>2, <2>0, Zenon
        <5>2. p + d > p + c /\ p + d <= (p + c) + v
          BY <4>1, <5>1, Zenon
        <5>3. \E k \in 1..v : p + d = (p + c) + k /\ d = c + k
          <6>1. d - c \in 1..v /\ p + d = (p + c) + (d - c) /\ d = c + (d - c)
            BY <5>2, SMT, Z3, SMTT(20)
          <6> QED
            BY <6>1, Zenon
        <5> QED
          BY <5>1, <5>3, Zenon
      <4> QED
        BY <1>0, <3>3, <4>2, Zenon
    <3> QED
      BY <1>1, <3>3, <3>4, Zenon DEF Writes
  <2> QED
    BY <1>0, <2>0, <2>1, <2>2, SMT, Z3, SMTT(20)
<1> QED
  BY <1>0, <1>1, <1>3, Zenon

\* The bytes of a piece, alone and with a newline.
LEMMA Pieces ==
  ASSUME line \in Nat, pos \in Nat, Piece \in Nat
  PROVE  /\ Bytes \in Seq(Nat \X Nat) /\ Len(Bytes) = Piece
         /\ \A k \in 1..Piece : Bytes[k] = <<line, pos + k>>
         /\ Append(Bytes, Newline) \in Seq(Nat \X Nat)
         /\ Len(Append(Bytes, Newline)) = Piece + 1
         /\ \A k \in 1..Piece : Append(Bytes, Newline)[k] = <<line, pos + k>>
         /\ Append(Bytes, Newline)[Piece + 1] = Newline
<1>1. PICK n \in Nat : n = Piece
  BY Zenon
<1>2. \A k \in 1..n : <<line, pos + k>> \in Nat \X Nat
  BY <1>1, SMT, Z3, SMTT(20)
<1>3. Bytes \in [1..n -> Nat \X Nat] /\ \A k \in 1..n : Bytes[k] = <<line, pos + k>>
  BY <1>1, <1>2, Zenon DEF Bytes
<1>4. Bytes \in Seq(Nat \X Nat) /\ Len(Bytes) = n
  BY <1>3, SMT, Z3, SMTT(20)
<1>5. Newline \in Nat \X Nat
  BY SMT, Z3, SMTT(20) DEF Newline
<1>6. /\ Append(Bytes, Newline) \in Seq(Nat \X Nat)
      /\ Len(Append(Bytes, Newline)) = n + 1
      /\ \A k \in 1..n : Append(Bytes, Newline)[k] = Bytes[k]
      /\ Append(Bytes, Newline)[n + 1] = Newline
  BY <1>4, <1>5, SMT, Z3, SMTT(20)
<1> QED
  BY <1>1, <1>3, <1>4, <1>6, Zenon

\* A prefix is written with no newline, the rest of a line with it.
WritesPrefix == stderr' = stderr \o Bytes
WritesRest == stderr' = stderr \o Append(Bytes, Newline)

LEMMA PrefixWritten ==
  ASSUME ReaderInv, BytesInv, line \in 1..Len(input), WritesPrefix
  PROVE  /\ stderr' \in Seq(Nat \X Nat)
         /\ Len(stderr') = Start(line) + pos + Piece
         /\ \A i \in 1..Len(input) : \A b \in 1..(Kept(i) + 1) :
              Start(i) + b <= Len(stderr') => stderr'[Start(i) + b] = Byte(i, b)
<1>1. /\ line \in Nat /\ pos \in Nat /\ Kept(line) \in Nat
      /\ Piece \in Nat /\ pos + Piece <= Kept(line)
  BY PieceFacts, LineFacts, SMT, Z3, SMTT(20) DEF ReaderInv, ReadOK
<1>2. PICK t \in Seq(Nat \X Nat) : /\ t = Bytes /\ Len(t) = Piece
                                   /\ \A k \in 1..Piece : t[k] = <<line, pos + k>>
  BY <1>1, Pieces, Zenon
<1>3. pos + Len(t) <= Kept(line) + 1
  BY <1>1, <1>2, SMT, Z3, SMTT(20)
<1>4. Writes(t)
  <2>1. \A k \in 1..Piece : pos + k <= Kept(line)
    BY <1>1, SMT, Z3, SMTT(20)
  <2> QED
    BY <1>2, <2>1, Zenon DEF Writes, WritesPrefix, Byte
<1> QED
  BY <1>2, <1>3, <1>4, BytesAppended, Zenon

\* With the rest of a line, all is written up to where the next starts.
LEMMA RestWritten ==
  ASSUME ReaderInv, BytesInv, line \in 1..Len(input), ~isPrefix, WritesRest
  PROVE  /\ stderr' \in Seq(Nat \X Nat)
         /\ Len(stderr') = Start(line + 1)
         /\ \A i \in 1..Len(input) : \A b \in 1..(Kept(i) + 1) :
              Start(i) + b <= Len(stderr') => stderr'[Start(i) + b] = Byte(i, b)
<1>1. /\ line \in Nat /\ pos \in Nat /\ ReadOK /\ Kept(line) \in Nat
      /\ Piece \in Nat /\ pos + Piece = Kept(line)
  BY PieceFacts, LineFacts, SMT, Z3, SMTT(20) DEF ReaderInv, ReadOK
<1>2. PICK t \in Seq(Nat \X Nat) :
        /\ t = Append(Bytes, Newline) /\ Len(t) = Piece + 1
        /\ \A k \in 1..Piece : t[k] = <<line, pos + k>>
        /\ t[Piece + 1] = Newline
  BY <1>1, Pieces, Zenon
<1>3. pos + Len(t) <= Kept(line) + 1
  BY <1>1, <1>2, SMT, Z3, SMTT(20)
<1>4. Writes(t)
  <2>1. /\ \A k \in 1..Piece : pos + k <= Kept(line)
        /\ ~(pos + (Piece + 1) <= Kept(line))
        /\ \A k \in 1..(Piece + 1) : k \in 1..Piece \/ k = Piece + 1
    BY <1>1, SMT, Z3, SMTT(20)
  <2>2. \A k \in 1..Len(t) : t[k] = Byte(line, pos + k)
    BY <1>2, <2>1, Zenon DEF Byte
  <2> QED
    BY <1>2, <2>2, Zenon DEF Writes, WritesRest
<1>5. Start(line) \in Nat /\ Start(line + 1) = Start(line) + Kept(line) + 1
  BY <1>1, StartNext, Zenon
<1>6. /\ stderr' \in Seq(Nat \X Nat)
      /\ Len(stderr') = Start(line) + pos + Len(t)
      /\ \A i \in 1..Len(input) : \A b \in 1..(Kept(i) + 1) :
           Start(i) + b <= Len(stderr') => stderr'[Start(i) + b] = Byte(i, b)
  BY <1>3, <1>4, BytesAppended, Zenon
<1>7. Start(line) + pos + (Piece + 1) = Start(line) + Kept(line) + 1
  BY <1>1, <1>5, SMT, Z3, SMTT(20)
<1> QED
  BY <1>2, <1>5, <1>6, <1>7, Zenon

\* What is written, by what is read.
LEMMA WritesRead ==
  ASSUME ReaderInv, LogPiece \/ LogLine
  PROVE  IF isPrefix THEN WritesPrefix ELSE WritesRest
<1>1. CASE LogPiece
  BY <1>1, Zenon DEF LogPiece, WritesPrefix, WritesRest
<1>2. CASE LogLine
  BY <1>2, Zenon DEF LogLine, WritesRest
<1> QED
  BY <1>1, <1>2, Zenon

LEMMA BytesPreserved ==
  ASSUME ReaderInv, BytesInv, [Next]_vars
  PROVE  BytesInv'
<1>1. ASSUME LogPiece \/ LogLine PROVE BytesInv'
  <2>1. /\ UNCHANGED <<input, unended>> /\ line \in 1..Len(input)
        /\ \/ isPrefix /\ line' = line /\ pos' = pos + Piece
           \/ ~isPrefix /\ line' = line + 1 /\ pos' = 0
    BY <1>1, Reads, Zenon
  <2>2. /\ Start(line) \in Nat /\ pos \in Nat /\ Piece \in Nat /\ line \in Nat
        /\ Start(line + 1) \in Nat
    <3>1. line + 1 \in 1..(Len(input) + 1) /\ line \in Nat
      BY <2>1, SMT, Z3, SMTT(20) DEF ReaderInv, ReadOK
    <3> QED
      BY <2>1, <3>1, StartNext, StartType, PieceFacts, Zenon
         DEF ReaderInv, ReadOK
  <2>3. SUFFICES
          /\ stderr' \in Seq(Nat \X Nat)
          /\ Len(stderr') = Start(line') + pos'
          /\ \A i \in 1..Len(input) : \A b \in 1..(Kept(i) + 1) :
               Start(i) + b <= Len(stderr') => stderr'[Start(i) + b] = Byte(i, b)
    <3>1. \A i : /\ Start(i)' = Start(i) /\ Kept(i)' = Kept(i)
                 /\ \A b : Byte(i, b)' = Byte(i, b)
      BY <2>1, StartStays, Zenon
    <3>2. Start(line)' = Start(line')
      BY <2>1, ZenonT(40) DEF Start, Before, Kept, Ended
    <3> QED
      BY <2>1, <3>1, <3>2, Zenon DEF BytesInv
  <2>4. CASE isPrefix /\ line' = line /\ pos' = pos + Piece
    <3>1. WritesPrefix
      BY <1>1, <2>4, WritesRead, Zenon
    <3>2. /\ stderr' \in Seq(Nat \X Nat)
          /\ Len(stderr') = Start(line) + pos + Piece
          /\ \A i \in 1..Len(input) : \A b \in 1..(Kept(i) + 1) :
               Start(i) + b <= Len(stderr') => stderr'[Start(i) + b] = Byte(i, b)
      BY <2>1, <3>1, PrefixWritten, Zenon
    <3>3. Start(line) + (pos + Piece) = Start(line) + pos + Piece
      BY <2>2, SMT, Z3, SMTT(20)
    <3> QED
      BY <2>4, <3>2, <3>3, Zenon
  <2>5. CASE ~isPrefix /\ line' = line + 1 /\ pos' = 0
    <3>1. WritesRest
      BY <1>1, <2>5, WritesRead, Zenon
    <3>2. /\ stderr' \in Seq(Nat \X Nat)
          /\ Len(stderr') = Start(line + 1)
          /\ \A i \in 1..Len(input) : \A b \in 1..(Kept(i) + 1) :
               Start(i) + b <= Len(stderr') => stderr'[Start(i) + b] = Byte(i, b)
      BY <2>1, <2>5, <3>1, RestWritten, Zenon
    <3>3. Start(line + 1) = Start(line + 1) + 0
      BY <2>2, SMT, Z3, SMTT(20)
    <3> QED
      BY <2>5, <3>2, <3>3, Zenon
  <2> QED
    BY <2>1, <2>4, <2>5, Zenon
<1>2. ASSUME UNCHANGED <<input, unended, line, pos, stderr>> PROVE BytesInv'
  <2>1. Start(line)' = Start(line)
    BY <1>2, Zenon DEF Start, Before, Kept, Ended
  <2> QED
    BY <1>2, <2>1, StartStays, Zenon DEF BytesInv
<1> QED
  BY <1>1, <1>2, StepCases, Zenon

\* What is written is what could be read of what the plugin wrote.
LEMMA BytesCopied ==
  ASSUME ReaderInv, BytesInv
  PROVE  StderrCopied
<1>1. /\ ReadOK /\ Len(input) \in Nat /\ line \in 1..(Len(input) + 1)
      /\ pos \in Nat /\ Len(stderr) \in Nat
      /\ Len(input) + 1 \in 1..(Len(input) + 1)
      /\ line = Len(input) + 1 \/ line \in 1..Len(input)
  BY SMT, Z3, SMTT(20) DEF ReaderInv, ReadOK, BytesInv
<1>2. \A i \in 1..Len(input) : \A b \in 1..(Kept(i) + 1) :
        Start(i) + b <= Len(stderr) =>
          stderr[Start(i) + b] = IF b <= Kept(i) THEN <<i, b>> ELSE Newline
  BY Zenon DEF BytesInv, Byte
<1>3. /\ Len(stderr) = Start(line) + pos
      /\ Start(line) \in Nat /\ Start(Len(input) + 1) \in Nat
  BY <1>1, StartType, Zenon DEF BytesInv
<1>4. CASE line = Len(input) + 1
  <2>1. pos = 0
    <3>1. line > Len(input)
      BY <1>1, <1>4, SMT, Z3, SMTT(20)
    <3> QED
      BY <3>1, Zenon DEF ReaderInv
  <2>2. /\ Len(stderr) = Start(Len(input) + 1)
        /\ Len(stderr) <= Start(Len(input) + 1)
    BY <1>3, <1>4, <2>1, SMT, Z3, SMTT(20)
  <2> QED
    BY <1>2, <2>2, Zenon DEF StderrCopied
<1>5. CASE line \in 1..Len(input)
  <2>1. /\ Kept(line) \in Nat /\ line <= Len(input)
        /\ Start(line + 1) = Start(line) + Kept(line) + 1
    BY <1>1, <1>5, LineFacts, StartNext, SMT, Z3, SMTT(20)
  <2>2. pos <= Kept(line)
    BY <2>1, Zenon DEF ReaderInv
  <2>3. Len(stderr) <= Start(line + 1) /\ Start(line + 1) \in Nat
    BY <1>1, <1>3, <2>1, <2>2, SMT, Z3, SMTT(20)
  <2>4. Start(line + 1) <= Start(Len(input) + 1)
    <3>1. CASE line = Len(input)
      BY <1>3, <3>1, SMT, Z3, SMTT(20)
    <3>2. CASE line < Len(input)
      <4>1. Len(input) \in 1..Len(input)
        BY <1>1, <3>2, SMT, Z3, SMTT(20)
      <4>2. /\ Start(line) + Kept(line) + 1 <= Start(Len(input))
            /\ Start(Len(input)) \in Nat /\ Kept(Len(input)) \in Nat
            /\ Start(Len(input) + 1) = Start(Len(input)) + Kept(Len(input)) + 1
        BY <1>1, <1>5, <3>2, <4>1, LineFacts, StartNext, StartOrder, Zenon
      <4>3. Start(Len(input)) <= Start(Len(input) + 1)
        BY <4>2, SMT, Z3, SMTT(20)
      <4> QED
        BY <1>3, <2>1, <2>3, <4>2, <4>3, PlacesInOrder, Zenon
    <3> QED
      BY <1>1, <1>5, <3>1, <3>2, SMT, Z3, SMTT(20)
  <2>5. Len(stderr) <= Start(Len(input) + 1)
    BY <1>1, <1>3, <2>3, <2>4, PlacesInOrder, Zenon
  <2>6. ASSUME pump = "ended"
        PROVE  unended /\ Len(stderr) + 1 = Start(Len(input) + 1)
    <3>1. line = Len(input) /\ unended /\ pos = input[line].length
      <4>1. AtEnd /\ ~(line > Len(input))
        BY <1>1, <1>5, <2>6, SMT, Z3, SMTT(20) DEF ReaderInv
      <4> QED
        BY <4>1, Zenon DEF AtEnd
    <3>2. pos = Kept(line)
      <4>1. ~(line < Len(input))
        BY <1>1, <3>1, SMT, Z3, SMTT(20)
      <4> QED
        BY <3>1, <4>1, Zenon DEF Kept, Ended
    <3>3. Len(stderr) + 1 = Start(line + 1)
      BY <1>3, <2>1, <3>2, SMT, Z3, SMTT(20)
    <3> QED
      BY <3>1, <3>3, Zenon
  <2> QED
    BY <1>2, <2>5, <2>6, Zenon DEF StderrCopied
<1> QED
  BY <1>1, <1>4, <1>5, Zenon

\* Initially nothing is written.
LEMMA InitBytes == Init => BytesInv
<1> SUFFICES ASSUME Init PROVE BytesInv
  BY Zenon
<1>1. /\ line = 1 /\ pos = 0 /\ stderr = <<>> /\ ReadOK
  BY InitReads, Zenon DEF Init, ReaderInv
<1>2. Start(1) = 0
  <2>1. 1..(1 - 1) = {}
    OBVIOUS
  <2>2. Before(1) = {}
    BY <2>1, Zenon DEF Before
  <2> QED
    BY <2>2, FS_EmptySet, Zenon DEF Start
<1>3. stderr \in Seq(Nat \X Nat) /\ Len(stderr) = 0
  BY <1>1, SMT, Z3, SMTT(20)
<1>4. Len(stderr) = Start(line) + pos
  BY <1>1, <1>2, <1>3, SMT, Z3, SMTT(20)
<1>5. ASSUME NEW i \in 1..Len(input), NEW b \in 1..(Kept(i) + 1)
      PROVE  ~(Start(i) + b <= Len(stderr))
  <2>1. Start(i) \in Nat /\ Kept(i) \in Nat
    BY <1>1, LineFacts, StartNext, Zenon
  <2> QED
    BY <1>3, <2>1, SMT, Z3, SMTT(20)
<1> QED
  BY <1>3, <1>4, <1>5, Zenon DEF BytesInv

\* For lines of any number and length, carriage returns anywhere in them, and any
\* buffer, ClientConfig.Stderr receives what could be read of the plugin's stderr,
\* in order and each byte once, with the ends of lines made "\n" (StderrCopied):
\* whatever the logger's level, and whether io.EOF or an error ends the copy.
THEOREM Copied == Spec => []StderrCopied
<1>1. Init => ReaderInv /\ BytesInv
  BY InitReads, InitBytes, Zenon
<1>2. (ReaderInv /\ BytesInv) /\ [Next]_vars => (ReaderInv /\ BytesInv)'
  BY ReaderPreserved, BytesPreserved, Zenon
<1>3. ReaderInv /\ BytesInv => StderrCopied
  BY BytesCopied, Zenon
<1> QED
  BY <1>1, <1>2, <1>3, PTL DEF Spec

-----------------------------------------------------------------------------
(* The log.                                                                *)

\* The entries of line i, and what the logger should have put out for it.
Mine(i) == {k \in 1..Len(log) : log[k][1] = i}
AsWanted(i) ==
  /\ \A k \in Mine(i) : Mine(i) = {k} /\ log[k][2] = Wanted(i)
  /\ Mine(i) # {} <=> Wanted(i) >= level

\* A line before this one began a stack trace.
TraceBegan == \E j \in 1..(line - 1) : input[j].form[1] = "panic" /\ Short(j)

\* What is logged belongs to lines that were read; inPanic remembers a trace.
LogInv ==
  /\ log \in Seq(Nat \X Nat)
  /\ level # Off => (inPanic <=> TraceBegan)
  /\ \A k \in 1..Len(log) : log[k][1] <= line /\ (log[k][1] = line => continuation)
  /\ \A i \in 1..Len(input) : i < line /\ Short(i) => AsWanted(i)

\* An entry more.
LEMMA LogAppended ==
  ASSUME log \in Seq(Nat \X Nat), NEW n \in Nat, NEW l \in Nat,
         log' = Append(log, <<n, l>>)
  PROVE  /\ log' \in Seq(Nat \X Nat)
         /\ Len(log') = Len(log) + 1 /\ Len(log) \in Nat
         /\ \A k \in 1..Len(log') : k \in 1..Len(log) \/ k = Len(log) + 1
         /\ \A k \in 1..Len(log) : k \in 1..Len(log') /\ log'[k] = log[k]
         /\ Len(log) + 1 \in 1..Len(log')
         /\ log'[Len(log) + 1] = <<n, l>>
OBVIOUS

\* The other lines keep theirs.
LEMMA OthersKept ==
  ASSUME log \in Seq(Nat \X Nat), NEW n \in Nat,
         log' = log \/ \E l \in Nat : log' = Append(log, <<n, l>>),
         input' = input, level' = level, NEW i, i # n, AsWanted(i)
  PROVE  AsWanted(i)'
<1>0. Wanted(i)' = Wanted(i)
  BY Zenon DEF Wanted, Short
<1>1. CASE log' = log
  BY <1>0, <1>1, Zenon DEF AsWanted, Mine
<1>2. ASSUME NEW l \in Nat, log' = Append(log, <<n, l>>) PROVE AsWanted(i)'
  <2>1. /\ \A k \in 1..Len(log') : k \in 1..Len(log) \/ k = Len(log) + 1
        /\ \A k \in 1..Len(log) : k \in 1..Len(log') /\ log'[k] = log[k]
        /\ log'[Len(log) + 1] = <<n, l>>
    BY <1>2, LogAppended, Zenon
  <2>2. log'[Len(log) + 1][1] # i
    BY <2>1, SMT, Z3, SMTT(20)
  <2>3. Mine(i)' = Mine(i) /\ \A k \in Mine(i) : log'[k] = log[k]
    BY <2>1, <2>2, Zenon DEF Mine
  <2> QED
    BY <1>0, <2>3, Zenon DEF AsWanted
<1> QED
  BY <1>1, <1>2, Zenon

\* What a line asks for is a level.
LEMMA WantedType ==
  ASSUME ReaderInv, NEW i \in 1..Len(input)
  PROVE  Wanted(i) \in 1..5
<1>1. input[i].form \in Forms
  BY LineFacts, Zenon DEF ReaderInv
<1> QED
  BY <1>1, FormFacts, SMT, Z3, SMTT(20) DEF Wanted, Error, Debug

\* A trace that began, one line later.
LEMMA TraceGoesOn ==
  ASSUME ReaderInv, line \in 1..Len(input), input' = input, line' = line + 1
  PROVE  TraceBegan' <=> TraceBegan \/ (input[line].form[1] = "panic" /\ Short(line))
<1>1. \A j : j \in 1..((line + 1) - 1) <=> j \in 1..(line - 1) \/ j = line
  BY SMT, Z3, SMTT(20) DEF ReaderInv, ReadOK
<1>2. TraceBegan' <=> \E j \in 1..((line + 1) - 1) : input[j].form[1] = "panic" /\ Short(j)
  BY Zenon DEF TraceBegan, Short
<1> QED
  BY <1>1, <1>2, Zenon DEF TraceBegan

\* A line is logged at the level it asks for, or not at all.
LEMMA LineLogged ==
  ASSUME ReaderInv, LogInv, LogLine
  PROVE  /\ log' = IF Wanted(line) >= level THEN Append(log, <<line, Wanted(line)>>)
                                            ELSE log
         /\ level # Off => (inPanic' <=> TraceBegan \/ input[line].form[1] = "panic")
<1>1. /\ line \in 1..Len(input) /\ Short(line)
      /\ inPanic \in BOOLEAN /\ level \in 1..6 /\ line \in Nat
  <2>1. line \in 1..Len(input) /\ Short(line)
    BY Reads, Zenon
  <2> QED
    BY <2>1, SMT, Z3, SMTT(20) DEF ReaderInv, ReadOK
<1>2. PICK f \in Forms : f = input[line].form
  BY <1>1, LineFacts, Zenon DEF ReaderInv
<1>3. f[2] \in 0..6 /\ (f[1] = "tag" => f[2] \in 1..5)
  BY FormFacts, Zenon
<1>4. Wanted(line) = IF f[1] \in {"json", "tag"}
                     THEN (IF f[2] \in 1..5 THEN f[2] ELSE 2)
                     ELSE IF TraceBegan \/ f[1] = "panic" THEN 5 ELSE 2
  <2>1. \A j : j \in 1..line <=> j \in 1..(line - 1) \/ j = line
    BY <1>1, SMT, Z3, SMTT(20)
  <2>2. (\E j \in 1..line : input[j].form[1] = "panic" /\ Short(j))
          <=> TraceBegan \/ f[1] = "panic"
    BY <1>1, <1>2, <2>1, Zenon DEF TraceBegan
  <2> QED
    BY <1>2, <2>2, Zenon DEF Wanted, Error, Debug
<1>5. CASE level = Off
  <2>1. log' = log
    BY <1>5, Zenon DEF LogLine
  <2>2. ~(Wanted(line) >= level)
    BY <1>1, <1>5, WantedType, SMT, Z3, SMTT(20) DEF Off
  <2> QED
    BY <1>5, <2>1, <2>2, Zenon
<1>6. CASE level # Off /\ f[1] = "json"
  <2>1. LogJSON(input[line]) /\ inPanic' = inPanic
    BY <1>2, <1>6, Zenon DEF LogLine, parseJSON
  <2>2. Wanted(line) = EntryLevel(input[line])
    BY <1>2, <1>4, <1>6, Zenon DEF EntryLevel, Error, Debug
  <2>3. f[2] # 0 /\ f[2] < level => Wanted(line) = f[2] /\ ~(f[2] >= level)
    <3>1. f[1] \in {"json", "tag"}
      BY <1>6, Zenon
    <3> QED
      BY <1>1, <1>3, <1>4, <3>1, SMT, Z3, SMTT(20)
  <2>4. log' = IF Wanted(line) >= level THEN Append(log, <<line, Wanted(line)>>)
                                        ELSE log
    BY <1>2, <2>1, <2>2, <2>3, Zenon DEF LogJSON, Logged, NoLevel
  <2>5. f[1] # "panic"
    BY <1>6, Zenon
  <2> QED
    BY <1>2, <1>6, <2>1, <2>4, <2>5, Zenon DEF LogInv
<1>7. CASE level # Off /\ f[1] # "json"
  <2>1. Logged(PlainLevel(input[line])) /\ inPanic' = (inPanic \/ f[1] = "panic")
    BY <1>2, <1>7, Zenon DEF LogLine, parseJSON
  <2>2. inPanic <=> TraceBegan
    BY <1>7, Zenon DEF LogInv
  <2>3. f[1] \in {"json", "tag"} <=> f[1] = "tag"
    BY <1>7, Zenon
  <2>4. f[1] = "tag" => f[1] # "panic"
    BY Zenon
  <2>5. Wanted(line) = PlainLevel(input[line])
    BY <1>2, <1>3, <1>4, <2>2, <2>3, Zenon DEF PlainLevel, Error, Debug
  <2> QED
    BY <1>2, <2>1, <2>2, <2>5, Zenon DEF Logged
<1> QED
  BY <1>5, <1>6, <1>7, Zenon

\* Whatever is logged is an entry of the line.
LEMMA LogGrows ==
  ASSUME ReaderInv, LogInv, LogPiece \/ LogLine
  PROVE  log' = log \/ \E l \in Nat : log' = Append(log, <<line, l>>)
<1>1. CASE LogPiece
  <2>1. 2 \in Nat
    BY Zenon
  <2> QED
    BY <1>1, <2>1, Zenon DEF LogPiece, Logged, Debug
<1>2. CASE LogLine
  <2>1. line \in 1..Len(input)
    BY <1>2, Reads, Zenon
  <2>2. Wanted(line) \in Nat
    BY <2>1, WantedType, SMT, Z3, SMTT(20)
  <2> QED
    BY <1>2, <2>2, LineLogged, Zenon
<1> QED
  BY <1>1, <1>2, Zenon

\* The entries still belong to lines that were read.
LEMMA LogPlaces ==
  ASSUME ReaderInv, LogInv, LogPiece \/ LogLine
  PROVE  /\ log' \in Seq(Nat \X Nat)
         /\ \A k \in 1..Len(log') : /\ log'[k][1] <= line'
                                    /\ log'[k][1] = line' => continuation'
<1>1. /\ line \in Nat /\ log \in Seq(Nat \X Nat)
      /\ (line' = line /\ continuation' = TRUE) \/ line' = line + 1
      /\ \A k \in 1..Len(log) : log[k][1] <= line
  <2>1. line \in Nat
    BY SMT, Z3, SMTT(20) DEF ReaderInv, ReadOK
  <2> QED
    BY <2>1, Reads, Zenon DEF LogInv
<1>2. ASSUME NEW m \in Nat, m <= line
      PROVE  m <= line' /\ (m = line' => continuation')
  <2>1. CASE line' = line + 1
    BY <1>1, <1>2, <2>1, SMT, Z3, SMTT(20)
  <2>2. CASE line' = line /\ continuation' = TRUE
    BY <1>2, <2>2, Zenon
  <2> QED
    BY <1>1, <2>1, <2>2, Zenon
<1>3. \A k \in 1..Len(log) : log[k][1] \in Nat
  BY <1>1, SMT, Z3, SMTT(20)
<1>4. CASE log' = log
  BY <1>1, <1>2, <1>3, <1>4, Zenon
<1>5. ASSUME NEW l \in Nat, log' = Append(log, <<line, l>>)
      PROVE  /\ log' \in Seq(Nat \X Nat)
             /\ \A k \in 1..Len(log') : /\ log'[k][1] <= line'
                                        /\ log'[k][1] = line' => continuation'
  <2>1. /\ log' \in Seq(Nat \X Nat)
        /\ \A k \in 1..Len(log') : k \in 1..Len(log) \/ k = Len(log) + 1
        /\ \A k \in 1..Len(log) : log'[k] = log[k]
        /\ log'[Len(log) + 1] = <<line, l>>
    BY <1>1, <1>5, LogAppended, Zenon
  <2>2. log'[Len(log) + 1][1] = line /\ line <= line
    BY <1>1, <2>1, SMT, Z3, SMTT(20)
  <2> QED
    BY <1>1, <1>2, <1>3, <2>1, <2>2, Zenon
<1> QED
  BY <1>4, <1>5, LogGrows, Zenon

\* A line that has no entry yet gets the one it asks for.
LEMMA LineAsWanted ==
  ASSUME ReaderInv, LogInv, LogLine, NEW i, i = line
  PROVE  AsWanted(i)'
<1>1. /\ UNCHANGED <<input, level>> /\ i \in 1..Len(input) /\ ~continuation
  BY Reads, Zenon
<1>2. Wanted(i)' = Wanted(i) /\ Wanted(i) \in Nat /\ i \in Nat
  <2>1. Wanted(i)' = Wanted(i)
    BY <1>1, Zenon DEF Wanted, Short
  <2>2. Wanted(i) \in Nat
    BY <1>1, WantedType, SMT, Z3, SMTT(20)
  <2> QED
    BY <1>1, <2>1, <2>2, SMT, Z3, SMTT(20) DEF ReaderInv, ReadOK
<1>3. log \in Seq(Nat \X Nat) /\ Mine(i) = {}
  BY <1>1, Zenon DEF LogInv, Mine
<1>4. CASE ~(Wanted(i) >= level)
  <2>1. log' = log
    BY <1>4, LineLogged, Zenon
  <2>2. Mine(i)' = {}
    BY <1>3, <2>1, Zenon DEF Mine
  <2> QED
    BY <1>1, <1>2, <1>4, <2>2, Zenon DEF AsWanted
<1>5. CASE Wanted(i) >= level
  <2>1. log' = Append(log, <<i, Wanted(i)>>)
    BY <1>5, LineLogged, Zenon
  <2>2. /\ \A k \in 1..Len(log') : k \in 1..Len(log) \/ k = Len(log) + 1
        /\ \A k \in 1..Len(log) : k \in 1..Len(log') /\ log'[k] = log[k]
        /\ Len(log) + 1 \in 1..Len(log')
        /\ log'[Len(log) + 1] = <<i, Wanted(i)>>
    BY <1>2, <1>3, <2>1, LogAppended, Zenon
  <2>3. log'[Len(log) + 1][1] = i /\ log'[Len(log) + 1][2] = Wanted(i)
    BY <2>2, SMT, Z3, SMTT(20)
  <2>4. Mine(i)' = {Len(log) + 1}
    <3>1. \A k \in 1..Len(log) : log[k][1] # i
      BY <1>3, Zenon DEF Mine
    <3>2. \A k \in 1..Len(log') : log'[k][1] = i => k = Len(log) + 1
      BY <2>2, <3>1, Zenon
    <3>3. PICK m : m = Len(log) + 1
      BY Zenon
    <3>4. /\ \A k \in 1..Len(log') : log'[k][1] = i => k = m
          /\ m \in 1..Len(log') /\ log'[m][1] = i
      BY <2>2, <2>3, <3>2, <3>3, Zenon
    <3>5. Mine(i)' = {m}
      BY <3>4, Zenon DEF Mine
    <3> QED
      BY <3>3, <3>5, Zenon
  <2> QED
    BY <1>1, <1>2, <1>5, <2>3, <2>4, Zenon DEF AsWanted
<1> QED
  BY <1>4, <1>5, Zenon

LEMMA LogPreserved ==
  ASSUME ReaderInv, LogInv, [Next]_vars
  PROVE  LogInv'
<1>1. ASSUME LogPiece \/ LogLine PROVE LogInv'
  <2>1. /\ input' = input /\ level' = level /\ line \in 1..Len(input)
        /\ LogPiece => ~Short(line)
        /\ LogLine => Short(line)
        /\ \/ LogPiece /\ line' = line
           \/ line' = line + 1
    BY <1>1, Reads, Zenon
  <2>2. line \in Nat /\ log \in Seq(Nat \X Nat)
    BY SMT, Z3, SMTT(20) DEF ReaderInv, ReadOK, LogInv
  <2>3. level' # Off => (inPanic' <=> TraceBegan')
    <3>1. CASE LogPiece /\ line' = line
      BY <2>1, <3>1, Zenon DEF LogPiece, LogInv, TraceBegan, Short
    <3>2. CASE LogPiece /\ line' = line + 1
      BY <2>1, <3>2, TraceGoesOn, Zenon DEF LogPiece, LogInv
    <3>3. CASE LogLine /\ line' = line + 1
      BY <2>1, <3>3, TraceGoesOn, LineLogged, Zenon
    <3>4. LogLine => line' = line + 1
      BY Reads, Zenon
    <3> QED
      BY <1>1, <2>1, <3>1, <3>2, <3>3, <3>4, Zenon
  <2>4. ASSUME NEW i \in 1..Len(input), i < line', Short(i)
        PROVE  AsWanted(i)'
    <3>1. i < line \/ (i = line /\ LogLine)
      <4>1. CASE line' = line
        BY <2>4, <4>1, Zenon
      <4>2. CASE line' = line + 1
        <5>1. i < line \/ i = line
          BY <2>2, <2>4, <4>2, SMT, Z3, SMTT(20)
        <5>2. i = line => LogLine
          BY <1>1, <2>1, <2>4, Zenon
        <5> QED
          BY <5>1, <5>2, Zenon
      <4> QED
        BY <2>1, <4>1, <4>2, Zenon
    <3>2. CASE i < line
      <4>1. i # line
        BY <2>2, <3>2, SMT, Z3, SMTT(20)
      <4>2. AsWanted(i)
        BY <2>4, <3>2, Zenon DEF LogInv
      <4>3. log' = log \/ \E l \in Nat : log' = Append(log, <<line, l>>)
        BY <1>1, LogGrows, Zenon
      <4> QED
        BY <2>1, <2>2, <4>1, <4>2, <4>3, OthersKept, Zenon
    <3>3. CASE i = line /\ LogLine
      BY <3>3, LineAsWanted, Zenon
    <3> QED
      BY <3>1, <3>2, <3>3, Zenon
  <2>5. \A i : Short(i)' <=> Short(i)
    BY <2>1, Zenon DEF Short
  <2>6. /\ log' \in Seq(Nat \X Nat)
        /\ \A k \in 1..Len(log') : /\ log'[k][1] <= line'
                                   /\ log'[k][1] = line' => continuation'
    BY <1>1, LogPlaces, Zenon
  <2> QED
    BY <2>1, <2>3, <2>4, <2>5, <2>6, Zenon DEF LogInv
<1>2. ASSUME UNCHANGED <<input, level, line, continuation, inPanic, log>>
      PROVE  LogInv'
  <2>1. \A i : AsWanted(i)' <=> AsWanted(i)
    BY <1>2, ZenonT(40) DEF AsWanted, Mine, Wanted, Short
  <2> QED
    BY <1>2, <2>1, Zenon DEF LogInv, TraceBegan, Short
<1>3. ASSUME UNCHANGED <<input, level, line, continuation, inPanic>>,
             log' = Append(log, <<0, Error>>)
      PROVE  LogInv'
  <2>1. /\ log \in Seq(Nat \X Nat) /\ 0 \in Nat /\ Error \in Nat
        /\ 0 <= line /\ 0 # line
    BY SMT, Z3, SMTT(20) DEF LogInv, ReaderInv, ReadOK, Error
  <2>2. /\ log' \in Seq(Nat \X Nat)
        /\ \A k \in 1..Len(log') : k \in 1..Len(log) \/ k = Len(log) + 1
        /\ \A k \in 1..Len(log) : log'[k] = log[k]
        /\ log'[Len(log) + 1] = <<0, Error>>
    BY <1>3, <2>1, LogAppended, Zenon
  <2>3. \A k \in 1..Len(log') : /\ log'[k][1] <= line
                                /\ log'[k][1] = line => continuation
    <3>1. log'[Len(log) + 1][1] = 0
      BY <2>2, SMT, Z3, SMTT(20)
    <3> QED
      BY <2>1, <2>2, <3>1, Zenon DEF LogInv
  <2>4. ASSUME NEW i \in 1..Len(input), i < line, Short(i) PROVE AsWanted(i)'
    <3>1. i # 0
      BY SMT, Z3, SMTT(20)
    <3>2. AsWanted(i)
      BY <2>4, Zenon DEF LogInv
    <3> QED
      BY <1>3, <2>1, <3>1, <3>2, OthersKept, Zenon
  <2> QED
    BY <1>3, <2>2, <2>3, <2>4, Zenon DEF LogInv, TraceBegan, Short
<1>4. LogEnd \/ LogReadError => log' = log \/ log' = Append(log, <<0, Error>>)
  BY Zenon DEF LogEnd, LogReadError
<1> QED
  BY <1>1, <1>2, <1>3, <1>4, StepCases, Zenon

\* The error that ends the copy is in the log, and no other.
ErrorInv ==
  (\E k \in 1..Len(log) : log[k][1] = 0) <=>
    (pump = "ended" /\ broken /\ Error >= level)

LEMMA ErrorPreserved ==
  ASSUME ReaderInv, LogInv, ErrorInv, [Next]_vars
  PROVE  ErrorInv'
<1>0. log \in Seq(Nat \X Nat) /\ line \in Nat /\ line # 0
  BY SMT, Z3, SMTT(20) DEF LogInv, ReaderInv, ReadOK
<1>1. ASSUME NEW n \in Nat, NEW l \in Nat, log' = Append(log, <<n, l>>)
      PROVE  (\E k \in 1..Len(log') : log'[k][1] = 0) <=>
               n = 0 \/ (\E k \in 1..Len(log) : log[k][1] = 0)
  <2>1. /\ \A k \in 1..Len(log') : k \in 1..Len(log) \/ k = Len(log) + 1
        /\ \A k \in 1..Len(log) : k \in 1..Len(log') /\ log'[k] = log[k]
        /\ Len(log) + 1 \in 1..Len(log') /\ log'[Len(log) + 1] = <<n, l>>
    BY <1>0, <1>1, LogAppended, Zenon
  <2>2. log'[Len(log) + 1][1] = n
    BY <2>1, SMT, Z3, SMTT(20)
  <2> QED
    BY <2>1, <2>2, Zenon
<1>2. CASE LogPiece \/ LogLine
  <2>1. UNCHANGED <<broken, level, pump>> /\ pump = "read"
    BY <1>2, Reads, Zenon
  <2>2. log' = log \/ \E l \in Nat : log' = Append(log, <<line, l>>)
    BY <1>2, LogGrows, Zenon
  <2> QED
    BY <1>0, <1>1, <2>1, <2>2, Zenon DEF ErrorInv
<1>3. CASE LogEnd
  BY <1>3, Zenon DEF LogEnd, ErrorInv, given
<1>4. CASE LogReadError
  <2>1. 0 \in Nat /\ Error \in Nat
    BY SMT, Z3, SMTT(20) DEF Error
  <2> QED
    BY <1>1, <1>4, <2>1, Zenon DEF LogReadError, ErrorInv, given
<1>5. CASE /\ UNCHANGED <<broken, level, log>>
           /\ pump' = pump \/ (pump' = "panicked" /\ pump = "read")
  BY <1>5, Zenon DEF ErrorInv
<1> QED
  BY <1>2, <1>3, <1>4, <1>5, StepCases, Zenon

LEMMA InitLogs == Init => LogInv
<1> SUFFICES ASSUME Init PROVE LogInv
  BY Zenon
<1>1. line = 1 /\ inPanic = FALSE /\ log = <<>>
  BY Zenon DEF Init
<1>2. ~TraceBegan
  <2>1. 1..(1 - 1) = {}
    OBVIOUS
  <2> QED
    BY <1>1, <2>1, Zenon DEF TraceBegan
<1>3. log \in Seq(Nat \X Nat) /\ 1..Len(log) = {}
  BY <1>1, SMT, Z3, SMTT(20)
<1>4. \A i \in 1..Len(input) : ~(i < line)
  <2>1. Len(input) \in Nat
    BY InitReads, SMT, Z3, SMTT(20) DEF ReaderInv, ReadOK
  <2> QED
    BY <1>1, <2>1, SMT, Z3, SMTT(20)
<1> QED
  BY <1>1, <1>2, <1>3, <1>4, Zenon DEF LogInv

\* Every line that fits the buffer is logged once and at its level if the
\* logger puts out that level, a stack trace at Error to its end, and so is an
\* error that ends the copy (LoggedAsWanted).
THEOREM LogsLines == Spec => []LoggedAsWanted
<1>1. Init => ReaderInv /\ LogInv /\ ErrorInv
  <2>1. Init => ErrorInv
    <3> SUFFICES ASSUME Init PROVE ErrorInv
      BY Zenon
    <3>1. log = <<>> /\ pump = "read"
      BY Zenon DEF Init
    <3>2. 1..Len(log) = {}
      BY <3>1, SMT, Z3, SMTT(20)
    <3> QED
      BY <3>1, <3>2, Zenon DEF ErrorInv
  <2> QED
    BY <2>1, InitReads, InitLogs, Zenon
<1>2. (ReaderInv /\ LogInv /\ ErrorInv) /\ [Next]_vars =>
        (ReaderInv /\ LogInv /\ ErrorInv)'
  BY ReaderPreserved, LogPreserved, ErrorPreserved, Zenon
<1>3. ReaderInv /\ LogInv /\ ErrorInv => LoggedAsWanted
  <2> SUFFICES ASSUME ReaderInv, LogInv, NEW i \in 1..Len(input), Short(i)
               PROVE  /\ \A k \in Mine(i) : Mine(i) = {k} /\ log[k][2] = Wanted(i)
                      /\ i < line => (Mine(i) # {} <=> Wanted(i) >= level)
    BY Zenon DEF LoggedAsWanted, Mine, ErrorInv
  <2>1. CASE i < line
    BY <2>1, Zenon DEF LogInv, AsWanted
  <2>2. CASE ~(i < line)
    <3>1. line \in Nat /\ i \in Nat /\ line <= i
      BY <2>2, SMT, Z3, SMTT(20) DEF ReaderInv, ReadOK
    <3>2. ASSUME NEW k \in Mine(i) PROVE FALSE
      <4>1. /\ k \in 1..Len(log) /\ log[k][1] = i /\ i <= line
            /\ i = line => continuation
        BY Zenon DEF Mine, LogInv
      <4>2. i = line
        BY <3>1, <4>1, SMT, Z3, SMTT(20)
      <4>3. line <= Len(input)
        BY <4>2, SMT, Z3, SMTT(20) DEF ReaderInv, ReadOK
      <4> QED
        BY <4>1, <4>2, <4>3, Zenon DEF ReaderInv
    <3> QED
      BY <2>2, <3>2, Zenon
  <2> QED
    BY <2>1, <2>2, Zenon
<1> QED
  BY <1>1, <1>2, <1>3, PTL DEF Spec

============================================================================
