------------------------------ MODULE ReaderProofs ------------------------------
(***************************************************************************)
(* Proofs about Sockets: however the stream is cut into reads, the listener     *)
(* hears what a reader of one symbol at a time makes of it (HeardAsSent).       *)
(***************************************************************************)
EXTENDS SocketsProofs, Induction

-----------------------------------------------------------------------------
(* The reader of one symbol at a time.                                        *)

Reader == [mode : Modes, line : Seq(Symbols), out : Seq(Pieces), left : Int]

LEMMA FreshType == Fresh \in Reader
BY EmptySeq DEF Fresh, Reader, Modes

(* The five things that may happen to a symbol, as rules for the proofs.        *)
LEMMA Rules ==
    ASSUME NEW r \in Reader, NEW c \in Symbols
    PROVE  /\ r.mode \in {"DATA", "FLOW"} =>
                  ReadSymbol(r, c) = [mode |-> IF r.left = 1 THEN "LINE" ELSE r.mode, line |-> r.line,
                                      out |-> Append(r.out, <<"Data", <<c>>>>), left |-> r.left - 1]
           /\ r.mode = "ZPIPE" /\ c = "e" =>
                  ReadSymbol(r, c) = [mode |-> "LINE", line |-> r.line, out |-> r.out, left |-> r.left]
           /\ r.mode \in {"LINE", "ZPIPE"} /\ c = "|" /\ r.line # <<>> =>
                  LET next == ModeFor(r.line, r.mode)
                  IN  ReadSymbol(r, c) =
                         [mode |-> next, line |-> <<>>, out |-> Append(r.out, <<"Line", r.line>>),
                          left |-> IF next \in {"DATA", "FLOW"} THEN DataSize ELSE r.left]
           /\ r.mode \in {"LINE", "ZPIPE"} /\ c = "|" /\ r.line = <<>> => ReadSymbol(r, c) = r
           /\ r.mode \in {"LINE", "ZPIPE"} /\ c # "|" /\ (r.mode = "ZPIPE" => c # "e") =>
                  ReadSymbol(r, c) = [mode |-> r.mode, line |-> Append(r.line, c), out |-> r.out,
                                      left |-> r.left]
           /\ r = [mode |-> r.mode, line |-> r.line, out |-> r.out, left |-> r.left]
           /\ r.mode \in Modes /\ r.line \in Seq(Symbols) /\ r.out \in Seq(Pieces) /\ r.left \in Int
<1>1. /\ r.mode \in Modes /\ r.line \in Seq(Symbols) /\ r.out \in Seq(Pieces) /\ r.left \in Int
      /\ r = [mode |-> r.mode, line |-> r.line, out |-> r.out, left |-> r.left]
  BY DEF Reader
<1>2. ASSUME r.mode \in {"DATA", "FLOW"}
      PROVE  ReadSymbol(r, c) = [mode |-> IF r.left = 1 THEN "LINE" ELSE r.mode, line |-> r.line,
                                 out |-> Append(r.out, <<"Data", <<c>>>>), left |-> r.left - 1]
  <2>1. ReadSymbol(r, c) = [r EXCEPT !.out = Append(@, <<"Data", <<c>>>>), !.left = @ - 1,
                                     !.mode = IF r.left = 1 THEN "LINE" ELSE @]
    BY <1>2 DEF ReadSymbol
  <2> QED BY <1>1, <2>1
<1>3. ASSUME r.mode = "ZPIPE", c = "e"
      PROVE  ReadSymbol(r, c) = [mode |-> "LINE", line |-> r.line, out |-> r.out, left |-> r.left]
  <2>1. ReadSymbol(r, c) = [r EXCEPT !.mode = "LINE"]
    BY <1>3 DEF ReadSymbol
  <2> QED BY <1>1, <2>1
<1>4. ASSUME r.mode \in {"LINE", "ZPIPE"}, c = "|", r.line # <<>>
      PROVE  LET next == ModeFor(r.line, r.mode)
             IN  ReadSymbol(r, c) =
                    [mode |-> next, line |-> <<>>, out |-> Append(r.out, <<"Line", r.line>>),
                     left |-> IF next \in {"DATA", "FLOW"} THEN DataSize ELSE r.left]
  BY <1>4 DEF ReadSymbol
<1>5. ASSUME r.mode \in {"LINE", "ZPIPE"}, c = "|", r.line = <<>> PROVE ReadSymbol(r, c) = r
  BY <1>5 DEF ReadSymbol
<1>6. ASSUME r.mode \in {"LINE", "ZPIPE"}, c # "|", r.mode = "ZPIPE" => c # "e"
      PROVE  ReadSymbol(r, c) = [mode |-> r.mode, line |-> Append(r.line, c), out |-> r.out,
                                 left |-> r.left]
  <2>1. ReadSymbol(r, c) = [r EXCEPT !.line = Append(@, c)]
    BY <1>6 DEF ReadSymbol
  <2> QED BY <1>1, <2>1
<1> QED BY <1>1, <1>2, <1>3, <1>4, <1>5, <1>6

LEMMA ModeType == ASSUME NEW m \in Modes, NEW l PROVE ModeFor(l, m) \in Modes
BY DEF ModeFor, Modes

LEMMA SymbolType ==
    ASSUME NEW r \in Reader, NEW c \in Symbols
    PROVE  /\ ReadSymbol(r, c) \in Reader
           /\ \/ ReadSymbol(r, c).out = r.out
              \/ \E piece \in Pieces : ReadSymbol(r, c).out = Append(r.out, piece)
<1>1. /\ r.mode \in Modes /\ r.line \in Seq(Symbols) /\ r.out \in Seq(Pieces) /\ r.left \in Int
      /\ r = [mode |-> r.mode, line |-> r.line, out |-> r.out, left |-> r.left]
  BY Rules
<1>2. ModeFor(r.line, r.mode) \in Modes /\ DataSize \in Int
  BY <1>1, ModeType, SocketAssumption
<1>3. <<"Data", <<c>>>> \in Pieces /\ <<"Line", r.line>> \in Pieces
  <2>1. <<c>> \in Seq(Symbols)
    <3>1. <<c>> = Append(<<>>, c)
      OBVIOUS
    <3> QED BY <3>1, EmptySeq, AppendProperties
  <2> QED BY <1>1, <2>1 DEF Pieces
<1>4. <<>> \in Seq(Symbols) /\ Append(r.line, c) \in Seq(Symbols)
  BY <1>1, EmptySeq
<1>5. /\ Append(r.out, <<"Data", <<c>>>>) \in Seq(Pieces)
      /\ Append(r.out, <<"Line", r.line>>) \in Seq(Pieces)
  BY <1>1, <1>3
<1>6. CASE r.mode \in {"DATA", "FLOW"}
  <2>1. ReadSymbol(r, c) = [mode |-> IF r.left = 1 THEN "LINE" ELSE r.mode, line |-> r.line,
                            out |-> Append(r.out, <<"Data", <<c>>>>), left |-> r.left - 1]
    BY <1>6, Rules
  <2>2. r.left - 1 \in Int /\ (IF r.left = 1 THEN "LINE" ELSE r.mode) \in Modes
    BY <1>1 DEF Modes
  <2> QED BY <1>1, <1>3, <1>5, <2>1, <2>2 DEF Reader
<1>7. CASE r.mode = "ZPIPE" /\ c = "e"
  <2>1. ReadSymbol(r, c) = [mode |-> "LINE", line |-> r.line, out |-> r.out, left |-> r.left]
    BY <1>7, Rules
  <2> QED BY <1>1, <2>1 DEF Reader, Modes
<1>8. CASE r.mode \in {"LINE", "ZPIPE"} /\ c = "|" /\ r.line # <<>>
  <2> DEFINE next == ModeFor(r.line, r.mode)
  <2>1. ReadSymbol(r, c) = [mode |-> next, line |-> <<>>, out |-> Append(r.out, <<"Line", r.line>>),
                            left |-> IF next \in {"DATA", "FLOW"} THEN DataSize ELSE r.left]
    BY <1>8, Rules
  <2>2. next \in Modes
    BY <1>2
  <2> HIDE DEF next
  <2> QED BY <1>1, <1>2, <1>3, <1>4, <1>5, <2>1, <2>2 DEF Reader
<1>9. CASE r.mode \in {"LINE", "ZPIPE"} /\ c = "|" /\ r.line = <<>>
  BY <1>9, Rules
<1>10. CASE r.mode \in {"LINE", "ZPIPE"} /\ c # "|" /\ (r.mode = "ZPIPE" => c # "e")
  <2>1. ReadSymbol(r, c) = [mode |-> r.mode, line |-> Append(r.line, c), out |-> r.out, left |-> r.left]
    BY <1>10, Rules
  <2> QED BY <1>1, <1>4, <2>1 DEF Reader
<1> QED BY <1>1, <1>6, <1>7, <1>8, <1>9, <1>10 DEF Modes

(* What ReadFrom computes: states on the way, each from the one before it.      *)
Reading(r, s) ==
    CHOOSE read : read = [n \in 0 .. Len(s) |-> IF n = 0 THEN r ELSE ReadSymbol(read[n - 1], s[n])]

LEMMA ReadingIs ==
    ASSUME NEW r \in Reader, NEW s \in Seq(Symbols)
    PROVE  /\ Reading(r, s) \in [0 .. Len(s) -> Reader] /\ Reading(r, s)[0] = r
           /\ \A n \in 1 .. Len(s) : Reading(r, s)[n] = ReadSymbol(Reading(r, s)[n - 1], s[n])
           /\ ReadFrom(r, s) = Reading(r, s)[Len(s)]
<1> DEFINE step == [p \in Nat \X Reader |->
                       IF p[1] + 1 \in 1 .. Len(s) THEN ReadSymbol(p[2], s[p[1] + 1]) ELSE p[2]]
           Is(read) == read = [n \in 0 .. Len(s) |-> IF n = 0 THEN r ELSE ReadSymbol(read[n - 1], s[n])]
<1>1. Len(s) \in Nat /\ \A n \in 1 .. Len(s) : s[n] \in Symbols
  BY ElementOfSeq
<1>2. step \in [Nat \X Reader -> Reader]
  <2> SUFFICES ASSUME NEW p \in Nat \X Reader PROVE step[p] \in Reader
    OBVIOUS
  <2> QED BY <1>1, SymbolType
<1>3. PICK f \in [0 .. Len(s) -> Reader] : Recurs(f, Len(s), r, step)
  <2> HIDE DEF step, Is
  <2> QED BY <1>1, <1>2, RecursionExists
<1>4. \A n \in 1 .. Len(s) : f[n] = ReadSymbol(f[n - 1], s[n])
  <2> SUFFICES ASSUME NEW n \in 1 .. Len(s) PROVE f[n] = ReadSymbol(f[n - 1], s[n])
    OBVIOUS
  <2>1. n - 1 \in Nat /\ f[n - 1] \in Reader /\ n - 1 + 1 = n
    BY <1>1
  <2>2. <<n - 1, f[n - 1]>> \in Nat \X Reader
    BY <2>1
  <2>3. step[<<n - 1, f[n - 1]>>] = ReadSymbol(f[n - 1], s[n])
    BY <2>1, <2>2
  <2>4. n \in 0 .. Len(s) /\ n # 0
    BY <1>1
  <2>5. f[n] = step[<<n - 1, f[n - 1]>>]
    BY <1>3, <2>4 DEF Recurs
  <2> HIDE DEF step
  <2> QED BY <2>3, <2>5
<1>5. Is(f)
  <2>1. f = [n \in 0 .. Len(s) |-> f[n]]
    OBVIOUS
  <2>2. \A n \in 0 .. Len(s) : f[n] = IF n = 0 THEN r ELSE ReadSymbol(f[n - 1], s[n])
    BY <1>1, <1>3, <1>4 DEF Recurs
  <2> QED BY <2>1, <2>2
<1>6. Is(Reading(r, s))
  BY <1>5 DEF Reading
<1>7. \A n \in 0 .. Len(s) : Reading(r, s)[n] = IF n = 0 THEN r ELSE ReadSymbol(Reading(r, s)[n - 1], s[n])
  <2> DEFINE g == Reading(r, s)
  <2>1. g = [n \in 0 .. Len(s) |-> IF n = 0 THEN r ELSE ReadSymbol(g[n - 1], s[n])]
    BY <1>6
  <2> HIDE DEF g
  <2>2. \A n \in 0 .. Len(s) : g[n] = IF n = 0 THEN r ELSE ReadSymbol(g[n - 1], s[n])
    BY <2>1
  <2> QED BY <2>2 DEF g
<1>8. ReadFrom(r, s) = Reading(r, s)[Len(s)]
  BY DEF ReadFrom, Reading
<1>9. \A n \in 0 .. Len(s) : Reading(r, s)[n] \in Reader
  <2> DEFINE S == {n \in Nat : n <= Len(s) => Reading(r, s)[n] \in Reader}
  <2>1. 0 \in S
    BY <1>1, <1>7
  <2>2. ASSUME NEW n \in Nat, n \in S PROVE n + 1 \in S
    <3> SUFFICES ASSUME n + 1 <= Len(s) PROVE Reading(r, s)[n + 1] \in Reader
      OBVIOUS
    <3>1. n <= Len(s) /\ n + 1 \in 1 .. Len(s) /\ n + 1 \in 0 .. Len(s) /\ n + 1 # 0 /\ n + 1 - 1 = n
      BY <1>1
    <3>2. Reading(r, s)[n + 1] = ReadSymbol(Reading(r, s)[n], s[n + 1])
      BY <1>7, <3>1
    <3>3. Reading(r, s)[n] \in Reader /\ s[n + 1] \in Symbols
      BY <1>1, <2>2, <3>1
    <3> QED BY <3>2, <3>3, SymbolType
  <2>3. Nat \subseteq S
    <3> HIDE DEF S
    <3> QED BY <2>1, <2>2, SetInduction
  <2> QED BY <1>1, <2>3
<1>10. Reading(r, s) \in [0 .. Len(s) -> Reader]
  <2> DEFINE g == Reading(r, s)
  <2>1. g = [n \in 0 .. Len(s) |-> IF n = 0 THEN r ELSE ReadSymbol(g[n - 1], s[n])]
    BY <1>6
  <2>2. \A n \in 0 .. Len(s) : g[n] \in Reader
    BY <1>9
  <2> HIDE DEF g
  <2>3. DOMAIN g = 0 .. Len(s) /\ g = [n \in 0 .. Len(s) |-> g[n]]
    BY <2>1
  <2>4. g \in [0 .. Len(s) -> Reader]
    BY <2>2, <2>3
  <2> QED BY <2>4 DEF g
<1> QED BY <1>1, <1>7, <1>8, <1>10

LEMMA FromType ==
    ASSUME NEW r \in Reader, NEW s \in Seq(Symbols)
    PROVE  ReadFrom(r, s) \in Reader
<1>1. Len(s) \in 0 .. Len(s)
  OBVIOUS
<1> QED BY <1>1, ReadingIs

LEMMA ReadEmpty == ASSUME NEW r \in Reader PROVE ReadFrom(r, <<>>) = r
BY ReadingIs, EmptySeq

(* One symbol more is one step more.                                          *)
LEMMA ReadAppend ==
    ASSUME NEW r \in Reader, NEW s \in Seq(Symbols), NEW c \in Symbols
    PROVE  ReadFrom(r, Append(s, c)) = ReadSymbol(ReadFrom(r, s), c)
<1> DEFINE t == Append(s, c)
           f == Reading(r, s)
           g == Reading(r, t)
           S == {n \in Nat : n <= Len(s) => g[n] = f[n]}
<1>1. /\ t \in Seq(Symbols) /\ Len(t) = Len(s) + 1 /\ Len(s) \in Nat
      /\ t[Len(s) + 1] = c /\ \A i \in 1 .. Len(s) : t[i] = s[i]
  BY AppendProperties
<1>2. f[0] = r /\ \A n \in 1 .. Len(s) : f[n] = ReadSymbol(f[n - 1], s[n])
  BY ReadingIs
<1>3. g[0] = r /\ \A n \in 1 .. Len(t) : g[n] = ReadSymbol(g[n - 1], t[n])
  BY <1>1, ReadingIs
<1>4. ReadFrom(r, s) = f[Len(s)] /\ ReadFrom(r, t) = g[Len(s) + 1]
  BY <1>1, ReadingIs
<1> HIDE DEF f, g, t
<1>5. 0 \in S
  BY <1>2, <1>3
<1>6. ASSUME NEW n \in Nat, n \in S PROVE n + 1 \in S
  <2> SUFFICES ASSUME n + 1 <= Len(s) PROVE g[n + 1] = f[n + 1]
    OBVIOUS
  <2>1. n + 1 \in 1 .. Len(s) /\ n + 1 \in 1 .. Len(t) /\ n + 1 - 1 = n /\ n <= Len(s)
    BY <1>1
  <2>2. f[n + 1] = ReadSymbol(f[n], s[n + 1]) /\ g[n + 1] = ReadSymbol(g[n], t[n + 1])
    BY <1>2, <1>3, <2>1
  <2>3. t[n + 1] = s[n + 1] /\ g[n] = f[n]
    BY <1>1, <1>6, <2>1
  <2> QED BY <2>2, <2>3
<1>7. Nat \subseteq S
  <2> HIDE DEF S
  <2> QED BY <1>5, <1>6, SetInduction
<1>8. g[Len(s)] = f[Len(s)]
  BY <1>1, <1>7
<1>9. g[Len(s) + 1] = ReadSymbol(g[Len(s)], c)
  <2>1. Len(s) + 1 \in 1 .. Len(t) /\ Len(s) + 1 - 1 = Len(s)
    BY <1>1
  <2> QED BY <1>1, <1>3, <2>1
<1> QED BY <1>4, <1>8, <1>9 DEF t

LEMMA ReadOne ==
    ASSUME NEW r \in Reader, NEW c \in Symbols
    PROVE  <<c>> \in Seq(Symbols) /\ ReadFrom(r, <<c>>) = ReadSymbol(r, c)
<1>1. <<c>> = Append(<<>>, c) /\ <<>> \in Seq(Symbols)
  BY EmptySeq
<1>2. ReadFrom(r, Append(<<>>, c)) = ReadSymbol(ReadFrom(r, <<>>), c)
  BY <1>1, ReadAppend
<1>3. Append(<<>>, c) \in Seq(Symbols)
  BY <1>1, AppendProperties
<1> QED BY <1>1, <1>2, <1>3, ReadEmpty

LEMMA TextAppend ==
    ASSUME NEW x \in Seq(Symbols), NEW y \in Seq(Symbols), NEW a \in Symbols
    PROVE  Append(y, a) \in Seq(Symbols) /\ Append(x \o y, a) = x \o Append(y, a)
OBVIOUS

LEMMA OutAppend ==
    ASSUME NEW x \in Seq(Pieces), NEW y \in Seq(Pieces), NEW a \in Pieces
    PROVE  Append(y, a) \in Seq(Pieces) /\ Append(x \o y, a) = x \o Append(y, a)
OBVIOUS

(* To read two parts is to read the one and then the other.                    *)
LEMMA ReadCat ==
    ASSUME NEW r \in Reader, NEW s \in Seq(Symbols), NEW t \in Seq(Symbols)
    PROVE  ReadFrom(r, s \o t) = ReadFrom(ReadFrom(r, s), t)
<1> DEFINE q == ReadFrom(r, s)
           S == {u \in Seq(Symbols) : ReadFrom(r, s \o u) = ReadFrom(q, u)}
<1>1. q \in Reader
  BY FromType
<1> HIDE DEF q
<1>2. <<>> \in S
  <2>1. s \o <<>> = s /\ <<>> \in Seq(Symbols)
    BY ConcatEmptySeq, EmptySeq
  <2> QED BY <1>1, <2>1, ReadEmpty DEF q
<1>3. ASSUME NEW u \in Seq(Symbols), NEW c \in Symbols, u \in S PROVE Append(u, c) \in S
  <2>1. s \o Append(u, c) = Append(s \o u, c)
    BY TextAppend
  <2>2. s \o u \in Seq(Symbols) /\ Append(u, c) \in Seq(Symbols)
    BY ConcatProperties, AppendProperties
  <2>3. ReadFrom(r, Append(s \o u, c)) = ReadSymbol(ReadFrom(r, s \o u), c)
    BY <2>2, ReadAppend
  <2>4. ReadFrom(q, Append(u, c)) = ReadSymbol(ReadFrom(q, u), c)
    BY <1>1, ReadAppend
  <2> QED BY <1>3, <2>1, <2>2, <2>3, <2>4
<1>4. Seq(Symbols) \subseteq S
  <2> HIDE DEF S
  <2> QED BY <1>2, <1>3, SeqInduction
<1> QED BY <1>4 DEF q

(* What was given out is never taken back.                                     *)
LEMMA OutGrows ==
    ASSUME NEW r \in Reader, NEW s \in Seq(Symbols)
    PROVE  \E new \in Seq(Pieces) : ReadFrom(r, s).out = r.out \o new
<1> DEFINE S == {u \in Seq(Symbols) : \E new \in Seq(Pieces) : ReadFrom(r, u).out = r.out \o new}
<1>1. r.out \in Seq(Pieces)
  BY DEF Reader
<1>2. <<>> \in S
  <2>1. r.out \o <<>> = r.out /\ <<>> \in Seq(Pieces) /\ <<>> \in Seq(Symbols)
    BY <1>1, ConcatEmptySeq, EmptySeq
  <2> QED BY <2>1, ReadEmpty
<1>3. ASSUME NEW u \in Seq(Symbols), NEW c \in Symbols, u \in S PROVE Append(u, c) \in S
  <2> DEFINE q == ReadFrom(r, u)
  <2>1. PICK new \in Seq(Pieces) : q.out = r.out \o new
    BY <1>3
  <2>2. q \in Reader
    BY FromType
  <2>3. Append(u, c) \in Seq(Symbols) /\ ReadFrom(r, Append(u, c)) = ReadSymbol(q, c)
    BY AppendProperties, ReadAppend
  <2> HIDE DEF q
  <2>4. ReadSymbol(q, c).out = q.out \/ \E piece \in Pieces : ReadSymbol(q, c).out = Append(q.out, piece)
    BY <2>2, SymbolType
  <2>5. CASE ReadSymbol(q, c).out = q.out
    BY <2>1, <2>3, <2>5
  <2>6. ASSUME NEW piece \in Pieces, ReadSymbol(q, c).out = Append(q.out, piece)
        PROVE  Append(u, c) \in S
    <3> DEFINE o == r.out
    <3>1. o \in Seq(Pieces)
      BY <1>1
    <3> HIDE DEF o
    <3>2. Append(new, piece) \in Seq(Pieces) /\ Append(o \o new, piece) = o \o Append(new, piece)
      BY <3>1, OutAppend
    <3> QED BY <2>1, <2>3, <2>6, <3>2 DEF o
  <2> QED BY <2>4, <2>5, <2>6
<1>4. Seq(Symbols) \subseteq S
  <2> HIDE DEF S
  <2> QED BY <1>2, <1>3, SeqInduction
<1> QED BY <1>4

-----------------------------------------------------------------------------
(* What whole parts of a line, of data and of a compressed part do.            *)

Free(s, c) == \A i \in 1 .. Len(s) : s[i] # c
Marks == {"z", "d", "f"}
Plain(s) == \A i \in 1 .. Len(s) : s[i] \notin Marks

LEMMA InAppend ==
    ASSUME NEW s \in Seq(Symbols), NEW c \in Symbols
    PROVE  /\ \A x : Free(Append(s, c), x) <=> Free(s, x) /\ c # x
           /\ Plain(Append(s, c)) <=> Plain(s) /\ c \notin Marks
<1>1. /\ Len(Append(s, c)) = Len(s) + 1 /\ Len(s) \in Nat /\ Append(s, c)[Len(s) + 1] = c
      /\ \A i \in 1 .. Len(s) : Append(s, c)[i] = s[i]
  BY AppendProperties
<1>2. \A i : i \in 1 .. Len(s) + 1 <=> i \in 1 .. Len(s) \/ i = Len(s) + 1
  BY <1>1
<1>3. ASSUME NEW x PROVE Free(Append(s, c), x) <=> Free(s, x) /\ c # x
  BY <1>1, <1>2 DEF Free
<1>4. Plain(Append(s, c)) <=> Plain(s) /\ c \notin Marks
  BY <1>1, <1>2 DEF Plain
<1> QED BY <1>3, <1>4

LEMMA PlainMode == ASSUME NEW s \in Seq(Symbols), Plain(s), NEW m PROVE ModeFor(s, m) = m
<1>1. "z" \notin ToSet(s) /\ "d" \notin ToSet(s) /\ "f" \notin ToSet(s)
  BY LenProperties DEF Plain, Marks, ToSet
<1> QED BY <1>1 DEF ModeFor

(* Text without a separator goes to the line.                                 *)
LEMMA TextRead ==
    ASSUME NEW r \in Reader, NEW s \in Seq(Symbols), r.mode \in {"LINE", "ZPIPE"}, Free(s, "|"),
           r.mode = "ZPIPE" => Free(s, "e")
    PROVE  ReadFrom(r, s) = [mode |-> r.mode, line |-> r.line \o s, out |-> r.out, left |-> r.left]
<1> DEFINE P(u) == ReadFrom(r, u) = [mode |-> r.mode, line |-> r.line \o u, out |-> r.out, left |-> r.left]
           S == {u \in Seq(Symbols) : Free(u, "|") /\ (r.mode = "ZPIPE" => Free(u, "e")) => P(u)}
<1>1. /\ r = [mode |-> r.mode, line |-> r.line, out |-> r.out, left |-> r.left]
      /\ r.line \in Seq(Symbols)
  BY DEF Reader
<1>2. <<>> \in S
  <2>1. r.line \o <<>> = r.line /\ <<>> \in Seq(Symbols)
    BY <1>1, ConcatEmptySeq, EmptySeq
  <2> QED BY <1>1, <2>1, ReadEmpty
<1>3. ASSUME NEW u \in Seq(Symbols), NEW c \in Symbols, u \in S PROVE Append(u, c) \in S
  <2> SUFFICES ASSUME Free(Append(u, c), "|"), r.mode = "ZPIPE" => Free(Append(u, c), "e") PROVE P(Append(u, c))
    BY AppendProperties
  <2>1. Free(u, "|") /\ c # "|" /\ (r.mode = "ZPIPE" => Free(u, "e") /\ c # "e")
    BY InAppend
  <2>2. P(u)
    BY <1>3, <2>1
  <2> DEFINE q == ReadFrom(r, u)
  <2>3. q \in Reader /\ ReadFrom(r, Append(u, c)) = ReadSymbol(q, c)
    BY FromType, ReadAppend
  <2>4. q.mode = r.mode /\ q.line = r.line \o u /\ q.out = r.out /\ q.left = r.left
    BY <2>2
  <2> HIDE DEF q
  <2>5. ReadSymbol(q, c) = [mode |-> q.mode, line |-> Append(q.line, c), out |-> q.out, left |-> q.left]
    BY <2>1, <2>3, <2>4, Rules
  <2> DEFINE l == r.line
  <2>6. l \in Seq(Symbols)
    BY <1>1
  <2> HIDE DEF l
  <2>7. Append(l \o u, c) = l \o Append(u, c)
    BY <2>6, TextAppend
  <2> QED BY <2>3, <2>4, <2>5, <2>7 DEF l
<1>4. Seq(Symbols) \subseteq S
  <2> HIDE DEF S
  <2> QED BY <1>2, <1>3, SeqInduction
<1> QED BY <1>4

LEMMA DataAppend ==
    ASSUME NEW s \in Seq(Symbols), NEW c \in Symbols
    PROVE  Data(Append(s, c)) = Append(Data(s), <<"Data", <<c>>>>)
<1> DEFINE t == Append(s, c)
           d == Append(Data(s), <<"Data", <<c>>>>)
<1>1. /\ t \in Seq(Symbols) /\ Len(t) = Len(s) + 1 /\ Len(s) \in Nat /\ t[Len(s) + 1] = c
      /\ \A i \in 1 .. Len(s) : t[i] = s[i]
  BY AppendProperties
<1>2. <<"Data", <<c>>>> \in Pieces
  <2>1. <<c>> \in Seq(Symbols)
    OBVIOUS
  <2> QED BY <2>1 DEF Pieces
<1>3. Data(s) \in Seq(Pieces) /\ Len(Data(s)) = Len(s) /\ Data(t) \in Seq(Pieces) /\ Len(Data(t)) = Len(t)
  BY <1>1, DataType
<1>4. /\ d \in Seq(Pieces) /\ Len(d) = Len(s) + 1 /\ d[Len(s) + 1] = <<"Data", <<c>>>>
      /\ \A i \in 1 .. Len(s) : d[i] = Data(s)[i]
  BY <1>2, <1>3, AppendProperties
<1>5. ASSUME NEW i \in 1 .. Len(s) + 1 PROVE Data(t)[i] = d[i]
  <2>1. Data(t)[i] = <<"Data", <<t[i]>>>>
    BY <1>1 DEF Data
  <2>2. CASE i = Len(s) + 1
    BY <1>1, <1>4, <2>1, <2>2
  <2>3. CASE i \in 1 .. Len(s)
    <3>1. Data(s)[i] = <<"Data", <<s[i]>>>>
      BY <2>3 DEF Data
    <3> QED BY <1>1, <1>4, <2>1, <2>3, <3>1
  <2>4. i \in 1 .. Len(s) \/ i = Len(s) + 1
    BY <1>1
  <2> HIDE DEF d, t
  <2> QED BY <2>2, <2>3, <2>4
<1> HIDE DEF d, t
<1>6. Data(t) = d
  BY <1>1, <1>3, <1>4, <1>5, SeqEqual
<1> QED BY <1>6 DEF d, t

(* Data is given out as it comes; with the last of it lines begin again.       *)
LEMMA DataRead ==
    ASSUME NEW r \in Reader, NEW s \in Seq(Symbols), r.mode \in {"DATA", "FLOW"},
           r.left > 0, Len(s) <= r.left
    PROVE  ReadFrom(r, s) = [mode |-> IF Len(s) = r.left THEN "LINE" ELSE r.mode, line |-> r.line,
                             out |-> r.out \o Data(s), left |-> r.left - Len(s)]
<1> DEFINE P(u) == ReadFrom(r, u) = [mode |-> IF Len(u) = r.left THEN "LINE" ELSE r.mode, line |-> r.line,
                                     out |-> r.out \o Data(u), left |-> r.left - Len(u)]
           S == {u \in Seq(Symbols) : Len(u) <= r.left => P(u)}
<1>1. /\ r = [mode |-> r.mode, line |-> r.line, out |-> r.out, left |-> r.left]
      /\ r.line \in Seq(Symbols) /\ r.out \in Seq(Pieces) /\ r.left \in Int
  BY DEF Reader
<1>2. <<>> \in S
  <2>1. <<>> \in Seq(Symbols) /\ Len(<<>>) = 0
    BY EmptySeq
  <2>2. Data(<<>>) = <<>>
    BY <2>1, DataType, EmptySeq
  <2>3. r.out \o Data(<<>>) = r.out
    BY <1>1, <2>2, ConcatEmptySeq
  <2>4. r.left - Len(<<>>) = r.left /\ Len(<<>>) # r.left
    BY <1>1, <2>1
  <2> QED BY <1>1, <2>1, <2>3, <2>4, ReadEmpty
<1>3. ASSUME NEW u \in Seq(Symbols), NEW c \in Symbols, u \in S PROVE Append(u, c) \in S
  <2>1. Append(u, c) \in Seq(Symbols) /\ Len(Append(u, c)) = Len(u) + 1 /\ Len(u) \in Nat
    BY AppendProperties
  <2> SUFFICES ASSUME Len(Append(u, c)) <= r.left PROVE P(Append(u, c))
    BY <2>1
  <2>2. Len(u) < r.left /\ P(u)
    BY <1>1, <1>3, <2>1
  <2> DEFINE q == ReadFrom(r, u)
  <2>3. q \in Reader /\ ReadFrom(r, Append(u, c)) = ReadSymbol(q, c)
    BY FromType, ReadAppend
  <2>4. q.mode = r.mode /\ q.line = r.line /\ q.out = r.out \o Data(u) /\ q.left = r.left - Len(u)
    BY <1>1, <2>1, <2>2
  <2> HIDE DEF q
  <2>5. ReadSymbol(q, c) = [mode |-> IF q.left = 1 THEN "LINE" ELSE q.mode, line |-> q.line,
                            out |-> Append(q.out, <<"Data", <<c>>>>), left |-> q.left - 1]
    BY <2>3, <2>4, Rules
  <2>6. Append(r.out \o Data(u), <<"Data", <<c>>>>) = r.out \o Data(Append(u, c))
    <3> DEFINE o == r.out
               piece == <<"Data", <<c>>>>
               d == Data(u)
    <3>1. o \in Seq(Pieces) /\ d \in Seq(Pieces)
      BY <1>1, DataType
    <3>2. piece \in Pieces
      <4>1. <<c>> \in Seq(Symbols)
        OBVIOUS
      <4> QED BY <4>1 DEF Pieces
    <3>3. Data(Append(u, c)) = Append(d, piece)
      BY DataAppend
    <3> HIDE DEF o, piece, d
    <3>4. Append(o \o d, piece) = o \o Append(d, piece)
      BY <3>1, <3>2, OutAppend
    <3> QED BY <3>3, <3>4 DEF o, piece, d
  <2>7. (q.left = 1 <=> Len(Append(u, c)) = r.left) /\ q.left - 1 = r.left - Len(Append(u, c))
    BY <1>1, <2>1, <2>4
  <2> QED BY <2>3, <2>4, <2>5, <2>6, <2>7
<1>4. Seq(Symbols) \subseteq S
  <2> HIDE DEF S
  <2> QED BY <1>2, <1>3, SeqInduction
<1> QED BY <1>4

(* A compressed part is read like lines, and the mode does not change.            *)
AsLines(r) == [mode |-> "LINE", line |-> r.line, out |-> r.out, left |-> r.left]
Zipped(r) == [mode |-> "ZPIPE", line |-> r.line, out |-> r.out, left |-> r.left]

LEMMA ZipStep ==
    ASSUME NEW q \in Reader, NEW c \in Symbols, q.mode = "LINE", Plain(q.line), c \notin Marks, c # "e"
    PROVE  /\ ReadSymbol(Zipped(q), c) = Zipped(ReadSymbol(q, c))
           /\ ReadSymbol(q, c).mode = "LINE" /\ Plain(ReadSymbol(q, c).line)
<1> DEFINE z == Zipped(q)
<1>1. /\ q = [mode |-> q.mode, line |-> q.line, out |-> q.out, left |-> q.left]
      /\ q.line \in Seq(Symbols)
  BY DEF Reader
<1>2. z \in Reader /\ z.mode = "ZPIPE" /\ z.line = q.line /\ z.out = q.out /\ z.left = q.left
  BY DEF Reader, Zipped, Modes
<1> HIDE DEF z
<1>3. CASE c = "|" /\ q.line # <<>>
  <2>1. ModeFor(q.line, "LINE") = "LINE" /\ ModeFor(q.line, "ZPIPE") = "ZPIPE"
    BY <1>1, PlainMode
  <2>2. ReadSymbol(q, c) = [mode |-> "LINE", line |-> <<>>, out |-> Append(q.out, <<"Line", q.line>>),
                            left |-> q.left]
    BY <1>3, <2>1, Rules
  <2>3. ReadSymbol(z, c) = [mode |-> "ZPIPE", line |-> <<>>, out |-> Append(q.out, <<"Line", q.line>>),
                            left |-> q.left]
    BY <1>2, <1>3, <2>1, Rules
  <2>4. Plain(<<>>)
    BY EmptySeq DEF Plain
  <2> QED BY <2>2, <2>3, <2>4 DEF z, Zipped
<1>4. CASE c = "|" /\ q.line = <<>>
  <2>1. ReadSymbol(q, c) = q /\ ReadSymbol(z, c) = z
    BY <1>2, <1>4, Rules
  <2> QED BY <2>1 DEF z
<1>5. CASE c # "|"
  <2>1. ReadSymbol(q, c) = [mode |-> "LINE", line |-> Append(q.line, c), out |-> q.out, left |-> q.left]
    BY <1>5, Rules
  <2>2. ReadSymbol(z, c) = [mode |-> "ZPIPE", line |-> Append(q.line, c), out |-> q.out, left |-> q.left]
    BY <1>2, <1>5, Rules
  <2>3. Plain(Append(q.line, c))
    BY <1>1, InAppend
  <2> QED BY <2>1, <2>2, <2>3 DEF z, Zipped
<1> QED BY <1>3, <1>4, <1>5

LEMMA ZipRead ==
    ASSUME NEW r \in Reader, NEW s \in Seq(Symbols), r.mode = "ZPIPE", Plain(r.line), Plain(s), Free(s, "e")
    PROVE  LET q == ReadFrom(AsLines(r), s)
           IN  q.mode = "LINE" /\ Plain(q.line) /\ ReadFrom(r, s) = Zipped(q)
<1> DEFINE a == AsLines(r)
           P(u) == LET q == ReadFrom(a, u) IN q.mode = "LINE" /\ Plain(q.line) /\ ReadFrom(r, u) = Zipped(q)
           S == {u \in Seq(Symbols) : Plain(u) /\ Free(u, "e") => P(u)}
<1>1. a \in Reader /\ a.mode = "LINE" /\ a.line = r.line /\ Zipped(a) = r
  BY DEF Reader, AsLines, Zipped, Modes
<1> HIDE DEF a
<1>2. <<>> \in S
  BY <1>1, EmptySeq, ReadEmpty
<1>3. ASSUME NEW u \in Seq(Symbols), NEW c \in Symbols, u \in S PROVE Append(u, c) \in S
  <2> SUFFICES ASSUME Plain(Append(u, c)), Free(Append(u, c), "e") PROVE P(Append(u, c))
    BY AppendProperties
  <2>1. Plain(u) /\ Free(u, "e") /\ c \notin Marks /\ c # "e"
    BY InAppend
  <2>2. P(u)
    BY <1>3, <2>1
  <2> DEFINE q == ReadFrom(a, u)
  <2>3. q \in Reader /\ ReadFrom(a, Append(u, c)) = ReadSymbol(q, c)
    BY <1>1, FromType, ReadAppend
  <2>4. ReadFrom(r, Append(u, c)) = ReadSymbol(Zipped(q), c)
    BY <2>2, ReadAppend
  <2>5. q.mode = "LINE" /\ Plain(q.line)
    BY <2>2
  <2> HIDE DEF q
  <2> QED BY <2>1, <2>3, <2>4, <2>5, ZipStep
<1>4. Seq(Symbols) \subseteq S
  <2> HIDE DEF S
  <2> QED BY <1>2, <1>3, SeqInduction
<1> QED BY <1>4 DEF a

(* A well-formed stream has only plain text where the reader is in a compressed   *)
(* part.                                                                     *)
PlainWhileZipped(r, s) ==
    \A n \in 0 .. Len(s) - 1 : ReadFrom(r, SubSeq(s, 1, n)).mode = "ZPIPE" => s[n + 1] \notin Marks

LEMMA FrontOf ==
    ASSUME NEW s \in Seq(Symbols), NEW c \in Symbols, NEW n \in 0 .. Len(s)
    PROVE  SubSeq(Append(s, c), 1, n) = SubSeq(s, 1, n) /\ SubSeq(s, 1, n) \in Seq(Symbols)
OBVIOUS

LEMMA ZipIsPlain ==
    ASSUME NEW r \in Reader, NEW s \in Seq(Symbols), r.mode = "ZPIPE", Plain(r.line), Free(s, "e"),
           PlainWhileZipped(r, s)
    PROVE  Plain(s)
<1> DEFINE S == {u \in Seq(Symbols) : Free(u, "e") /\ PlainWhileZipped(r, u) => Plain(u)}
<1>1. <<>> \in S
  BY EmptySeq DEF Plain
<1>2. ASSUME NEW u \in Seq(Symbols), NEW c \in Symbols, u \in S PROVE Append(u, c) \in S
  <2>1. /\ Append(u, c) \in Seq(Symbols) /\ Len(Append(u, c)) = Len(u) + 1 /\ Len(u) \in Nat
        /\ Append(u, c)[Len(u) + 1] = c /\ \A i \in 1 .. Len(u) : Append(u, c)[i] = u[i]
    BY AppendProperties
  <2> SUFFICES ASSUME Free(Append(u, c), "e"), PlainWhileZipped(r, Append(u, c)) PROVE Plain(Append(u, c))
    BY <2>1
  <2>2. Free(u, "e")
    BY InAppend
  <2>3. ASSUME NEW n \in 0 .. Len(u) - 1, ReadFrom(r, SubSeq(u, 1, n)).mode = "ZPIPE"
        PROVE  u[n + 1] \notin Marks
    <3>1. n \in 0 .. Len(u) /\ n \in 0 .. Len(Append(u, c)) - 1 /\ n + 1 \in 1 .. Len(u)
      BY <2>1
    <3>2. SubSeq(Append(u, c), 1, n) = SubSeq(u, 1, n)
      BY <3>1, FrontOf
    <3>3. Append(u, c)[n + 1] = u[n + 1]
      BY <2>1, <3>1
    <3> QED BY <2>3, <3>1, <3>2, <3>3 DEF PlainWhileZipped
  <2>4. Plain(u)
    BY <1>2, <2>2, <2>3 DEF PlainWhileZipped
  <2>5. ReadFrom(r, u).mode = "ZPIPE"
    BY <2>2, <2>4, ZipRead DEF Zipped
  <2>6. SubSeq(Append(u, c), 1, Len(u)) = u
    OBVIOUS
  <2>7. Len(u) \in 0 .. Len(Append(u, c)) - 1
    BY <2>1
  <2>8. c \notin Marks
    BY <2>1, <2>5, <2>6, <2>7 DEF PlainWhileZipped
  <2> QED BY <2>4, <2>8, InAppend
<1>3. Seq(Symbols) \subseteq S
  <2> HIDE DEF S
  <2> QED BY <1>1, <1>2, SeqInduction
<1> QED BY <1>3

(* The first c of a sequence cuts it in two.                                   *)
LEMMA Split ==
    ASSUME NEW s \in Seq(Symbols), NEW c
    PROVE  LET i == IndexOf(s, c)
           IN  /\ i \in 1 .. Len(s) + 1 /\ Before(s, i) \in Seq(Symbols) /\ After(s, i) \in Seq(Symbols)
               /\ Free(Before(s, i), c)
               /\ i <= Len(s) => c \in Symbols /\ s = (Before(s, i) \o <<c>>) \o After(s, i)
               /\ i = Len(s) + 1 => Before(s, i) = s /\ After(s, i) = <<>>
<1> DEFINE i == IndexOf(s, c)
           N == {j \in 1 .. Len(s) : s[j] = c}
<1>1. Len(s) \in Nat /\ i \in 1 .. Len(s) + 1 /\ \A k \in 1 .. Len(s) : s[k] \in Symbols
  BY IndexInSeq, ElementOfSeq
<1>2. (i <= Len(s) => s[i] = c) /\ \A j \in 1 .. i - 1 : s[j] # c
  <2>1. CASE N = {}
    BY <1>1, <2>1 DEF IndexOf
  <2>2. CASE N # {}
    <3>1. N \subseteq Nat
      BY <1>1
    <3>2. PICK m \in N : \A j \in N : m <= j
      BY <2>2, <3>1, Smallest
    <3>3. i \in N /\ \A j \in N : i <= j
      BY <2>2, <3>2 DEF IndexOf
    <3> QED BY <1>1, <3>3
  <2> QED BY <2>1, <2>2
<1> HIDE DEF i
<1>3. Before(s, i) \in Seq(Symbols) /\ After(s, i) \in Seq(Symbols)
  BY <1>1, CutSeq
<1>4. Free(Before(s, i), c)
  <2>1. Len(Before(s, i)) = i - 1 /\ \A j \in 1 .. i - 1 : Before(s, i)[j] = s[j]
    BY <1>1 DEF Before
  <2> QED BY <1>2, <2>1 DEF Free
<1>5. ASSUME i <= Len(s) PROVE c \in Symbols /\ s = (Before(s, i) \o <<c>>) \o After(s, i)
  <2>1. i \in 1 .. Len(s) /\ s[i] = c /\ c \in Symbols
    BY <1>1, <1>2, <1>5
  <2>2. SubSeq(s, 1, i) = SubSeq(s, 1, i - 1) \o <<s[i]>>
    BY <2>1, SubSeqRecursiveSecond
  <2>3. SubSeq(s, 1, i) \o SubSeq(s, i + 1, Len(s)) = s
    <3>1. i \in 1 - 1 .. Len(s) /\ Len(s) \in i .. Len(s) /\ 1 \in 1 .. Len(s) + 1
      BY <1>1, <2>1
    <3>2. SubSeq(s, 1, i) \o SubSeq(s, i + 1, Len(s)) = SubSeq(s, 1, Len(s))
      BY <3>1, ConcatAdjacentSubSeq
    <3> QED BY <3>2, SubSeqFull
  <2> QED BY <2>1, <2>2, <2>3 DEF Before, After
<1>6. ASSUME i = Len(s) + 1 PROVE Before(s, i) = s /\ After(s, i) = <<>>
  <2>1. i - 1 = Len(s) /\ Len(s) < i + 1 /\ i + 1 \in Int /\ Len(s) \in Int
    BY <1>1, <1>6
  <2> QED BY <2>1, SubSeqFull, SubSeqEmpty DEF Before, After
<1> QED BY <1>1, <1>3, <1>4, <1>5, <1>6 DEF i

LEMMA InCat ==
    ASSUME NEW x \in Seq(Symbols), NEW y \in Seq(Symbols)
    PROVE  /\ \A c : Free(x \o y, c) <=> Free(x, c) /\ Free(y, c)
           /\ Plain(x \o y) <=> Plain(x) /\ Plain(y)
<1> DEFINE t == x \o y
<1>1. /\ t \in Seq(Symbols) /\ Len(t) = Len(x) + Len(y) /\ Len(x) \in Nat /\ Len(y) \in Nat
      /\ \A i \in 1 .. Len(x) : t[i] = x[i]
      /\ \A i \in 1 .. Len(y) : t[Len(x) + i] = y[i]
  BY ConcatProperties
<1> HIDE DEF t
<1>2. \A i \in 1 .. Len(t) : i \in 1 .. Len(x) \/ (i - Len(x) \in 1 .. Len(y) /\ i = Len(x) + (i - Len(x)))
  BY <1>1
<1>3. /\ \A i \in 1 .. Len(x) : i \in 1 .. Len(t)
      /\ \A i \in 1 .. Len(y) : Len(x) + i \in 1 .. Len(t)
  BY <1>1
<1>4. ASSUME NEW V PROVE (\A i \in 1 .. Len(t) : t[i] \notin V)
                           <=> (\A i \in 1 .. Len(x) : x[i] \notin V) /\ (\A i \in 1 .. Len(y) : y[i] \notin V)
  <2>1. ASSUME \A i \in 1 .. Len(t) : t[i] \notin V
        PROVE  (\A i \in 1 .. Len(x) : x[i] \notin V) /\ (\A i \in 1 .. Len(y) : y[i] \notin V)
    BY <1>1, <1>3, <2>1
  <2>2. ASSUME \A i \in 1 .. Len(x) : x[i] \notin V, \A i \in 1 .. Len(y) : y[i] \notin V, NEW i \in 1 .. Len(t)
        PROVE  t[i] \notin V
    <3>1. CASE i \in 1 .. Len(x)
      BY <1>1, <2>2, <3>1
    <3>2. CASE i - Len(x) \in 1 .. Len(y) /\ i = Len(x) + (i - Len(x))
      BY <1>1, <2>2, <3>2
    <3> QED BY <1>2, <3>1, <3>2
  <2> QED BY <2>1, <2>2
<1>5. ASSUME NEW c PROVE Free(t, c) <=> Free(x, c) /\ Free(y, c)
  <2>1. \A e : e # c <=> e \notin {c}
    OBVIOUS
  <2> QED BY <1>4, <2>1 DEF Free
<1>6. Plain(t) <=> Plain(x) /\ Plain(y)
  BY <1>4 DEF Plain
<1> QED BY <1>5, <1>6 DEF t

LEMMA NothingFree == \A c : Free(<<>>, c) /\ Plain(<<>>)
BY EmptySeq DEF Free, Plain

-----------------------------------------------------------------------------
(* The socket and the reader agree on what the socket has handled.               *)

Here == [mode |-> mode, line |-> line, out |-> heard, left |-> dataBytes]
Cut == [mode |-> "LINE", line |-> <<>>, out |-> heard, left |-> dataBytes]
InMode(r, m) == [mode |-> m, line |-> r.line, out |-> r.out, left |-> r.left]

(* While decompressed lines are cut, line holds them all; at other times it holds  *)
(* the part of one line.                                                      *)
Unzipping(d) ==
    /\ mode \in {"LINE", "ZPIPE"} /\ Plain(line)
    /\ ReadFrom(Fresh, d) = InMode(ReadFrom(Cut, line), mode)

Handling(d) ==
    /\ ReadFrom(Fresh, d) = Here
    /\ Free(line, "|") /\ (mode = "ZPIPE" => Plain(line))
    /\ mode \in {"DATA", "FLOW"} => dataBytes > 0

Agrees(d) == IF at = "unzipped" THEN Unzipping(d) ELSE Handling(d)

ReaderInv ==
    /\ at \notin {"reading", "unzipped"} => inbuf = <<>>
    /\ owned => \E d \in Seq(Symbols) : d \o inbuf = SubSeq(stream, 1, got) /\ Agrees(d)

Nice == \A s \in Streams : WellFormed(s)

LEMMA HereType == TypeOK => Here \in Reader /\ Cut \in Reader
<1>1. TypeOK => dataBytes \in Int /\ ReadTypes
  BY Parts, SocketAssumption DEF ReadTypes
<1> QED BY <1>1, EmptySeq DEF ReadTypes, Reader, Here, Cut, Modes

LEMMA StreamType ==
    TypeOK => /\ stream \in Seq(Symbols) /\ got \in 0 .. Len(stream) /\ Len(stream) \in Nat
              /\ SubSeq(stream, 1, got) \in Seq(Symbols) /\ inbuf \in Seq(Symbols)
<1> SUFFICES ASSUME TypeOK PROVE StreamType!2
  OBVIOUS
<1>1. stream \in Seq(Symbols) /\ got \in 0 .. Len(stream) /\ inbuf \in Seq(Symbols)
  BY Parts, SocketAssumption DEF ReadTypes
<1> QED BY <1>1

LEMMA ReaderInit == Init => ReaderInv
<1> SUFFICES ASSUME Init PROVE ReaderInv
  OBVIOUS
<1>1. stream \in Seq(Symbols) /\ got = 0 /\ inbuf = <<>> /\ at = "events"
  BY SocketAssumption DEF Init
<1>2. SubSeq(stream, 1, 0) = <<>> /\ <<>> \o <<>> = <<>> /\ <<>> \in Seq(Symbols)
  BY EmptySeq, SubSeqEmpty, ConcatEmptySeq
<1>3. Here = Fresh /\ mode = "LINE" /\ line = <<>>
  BY DEF Init, Here, Fresh
<1>4. Handling(<<>>)
  BY <1>3, FreshType, ReadEmpty, NothingFree DEF Handling
<1> QED BY <1>1, <1>2, <1>4 DEF ReaderInv, Agrees

(* Steps that read nothing.                                                   *)
LEMMA NothingRead ==
    ASSUME ReaderInv, UNCHANGED <<stream, got, inbuf, line, mode, dataBytes, heard>>, owned' => owned,
           at' = at \/ (at \notin {"reading", "unzipped"} /\ at' \notin {"reading", "unzipped"})
    PROVE  ReaderInv'
<1>1. Here' = Here /\ Cut' = Cut
  BY DEF Here, Cut
<1>2. \A d : Agrees(d) => Agrees(d)'
  BY <1>1 DEF Agrees, Unzipping, Handling
<1> QED BY <1>2 DEF ReaderInv

LEMMA Received ==
    ASSUME TypeOK, ReaderInv, NEW from, Receive(from), at \in {"polling", "sending", "sendingFile"}
    PROVE  ReaderInv'
<1>1. PICK n \in got + 1 .. Len(stream) : got' = n /\ inbuf' = SubSeq(stream, got + 1, n)
  BY DEF Receive
<1>2. /\ at' = "reading" /\ owned' = owned /\ inbuf = <<>>
      /\ UNCHANGED <<stream, line, mode, dataBytes, heard>>
  BY DEF Receive, ownerVars, ReaderInv
<1>3. stream \in Seq(Symbols) /\ got \in 0 .. Len(stream) /\ Len(stream) \in Nat /\ SubSeq(stream, 1, got) \in Seq(Symbols)
  BY StreamType
<1>4. ASSUME NEW d \in Seq(Symbols), d \o inbuf = SubSeq(stream, 1, got), Agrees(d)
      PROVE  d \o inbuf' = SubSeq(stream', 1, got') /\ Agrees(d)'
  <2>1. d = SubSeq(stream, 1, got)
    BY <1>2, <1>4, ConcatEmptySeq
  <2>2. got \in 1 - 1 .. Len(stream) /\ n \in got .. Len(stream) /\ 1 \in 1 .. Len(stream) + 1
    BY <1>1, <1>3
  <2>3. SubSeq(stream, 1, got) \o SubSeq(stream, got + 1, n) = SubSeq(stream, 1, n)
    BY <1>3, <2>2, ConcatAdjacentSubSeq
  <2>4. Handling(d)
    BY <1>4 DEF Agrees
  <2>5. Here' = Here
    BY <1>2 DEF Here
  <2>6. Handling(d)'
    BY <1>2, <2>4, <2>5 DEF Handling
  <2> QED BY <1>1, <1>2, <2>1, <2>3, <2>6 DEF Agrees
<1> QED BY <1>2, <1>4 DEF ReaderInv

LEMMA FrontIs ==
    ASSUME NEW s \in Seq(Symbols), NEW n \in Nat, n <= Len(s)
    PROVE  /\ SubSeq(s, 1, n) \in Seq(Symbols) /\ Len(SubSeq(s, 1, n)) = n
           /\ \A j \in 1 .. n : SubSeq(s, 1, n)[j] = s[j]
<1>1. \A j \in 1 .. n : s[j] \in Symbols
  BY ElementOfSeq
<1>2. /\ SubSeq(s, 1, n) \in Seq(Symbols) /\ Len(SubSeq(s, 1, n)) = IF 1 <= n THEN n - 1 + 1 ELSE 0
      /\ \A j \in 1 .. n - 1 + 1 : SubSeq(s, 1, n)[j] = s[1 + j - 1]
  BY <1>1, SubSeqProperties
<1> QED BY <1>2

LEMMA CatIs ==
    ASSUME NEW s \in Seq(Symbols), NEW t \in Seq(Symbols)
    PROVE  /\ s \o t \in Seq(Symbols) /\ Len(s \o t) = Len(s) + Len(t)
           /\ \A j \in 1 .. Len(s) : (s \o t)[j] = s[j]
           /\ \A j \in 1 .. Len(t) : (s \o t)[Len(s) + j] = t[j]
BY ConcatProperties, LenProperties

(* x is handled and y is left of this read.                                    *)
LEMMA Handled ==
    ASSUME TypeOK, NEW d \in Seq(Symbols), NEW x \in Seq(Symbols), NEW y \in Seq(Symbols),
           d \o inbuf = SubSeq(stream, 1, got), inbuf = x \o y
    PROVE  /\ d \o x \in Seq(Symbols) /\ (d \o x) \o y = SubSeq(stream, 1, got)
           /\ ReadFrom(Fresh, d \o x) = ReadFrom(ReadFrom(Fresh, d), x)
<1>1. (d \o x) \o y = d \o (x \o y)
  BY ConcatAssociative
<1> QED BY <1>1, ConcatProperties, ReadCat, FreshType

(* x[n + 1] stands in the stream behind d and the n symbols of x before it.         *)
StandsBehind(d, x, n) ==
    /\ Len(d) + n \in 0 .. Len(stream) - 1 /\ stream[Len(d) + n + 1] = x[n + 1]
    /\ SubSeq(x, 1, n) \in Seq(Symbols) /\ d \o SubSeq(x, 1, n) = SubSeq(stream, 1, Len(d) + n)
    /\ Len(stream) - Len(d) >= Len(x)

(* What is handled now stands in the stream behind what was handled before.       *)
LEMMA InStream ==
    ASSUME TypeOK, NEW d \in Seq(Symbols), NEW x \in Seq(Symbols), NEW y \in Seq(Symbols),
           d \o inbuf = SubSeq(stream, 1, got), inbuf = x \o y, NEW n \in 0 .. Len(x) - 1
    PROVE  StandsBehind(d, x, n)
<1> DEFINE t == SubSeq(stream, 1, got)
           p == SubSeq(x, 1, n)
           dx == d \o x
<1>1. /\ stream \in Seq(Symbols) /\ got \in 0 .. Len(stream) /\ Len(stream) \in Nat
      /\ t \in Seq(Symbols) /\ Len(t) = got /\ \A j \in 1 .. got : t[j] = stream[j]
  BY StreamType
<1>2. dx \in Seq(Symbols) /\ dx \o y = t /\ Len(dx) = Len(d) + Len(x) /\ Len(t) = Len(dx) + Len(y)
  <2>1. dx \in Seq(Symbols) /\ dx \o y = t
    BY Handled
  <2>2. Len(dx) = Len(d) + Len(x)
    BY ConcatProperties
  <2> HIDE DEF t, dx
  <2>3. Len(dx \o y) = Len(dx) + Len(y)
    BY <2>1, ConcatProperties
  <2> QED BY <2>1, <2>2, <2>3
<1>3. Len(x) \in Nat /\ Len(y) \in Nat /\ Len(d) \in Nat /\ n \in Nat /\ n < Len(x)
  BY LenProperties
<1>4. \A j \in 1 .. Len(dx) : t[j] = dx[j]
  <2> HIDE DEF t, dx
  <2> QED BY <1>2, CatIs
<1>5. /\ \A j \in 1 .. Len(d) : dx[j] = d[j]
      /\ \A j \in 1 .. Len(x) : dx[Len(d) + j] = x[j]
  BY CatIs
<1>6. p \in Seq(Symbols) /\ Len(p) = n /\ \A j \in 1 .. n : p[j] = x[j]
  BY <1>3, FrontIs
<1> HIDE DEF t, dx, p
<1>7. Len(d) + n \in 0 .. Len(stream) - 1 /\ stream[Len(d) + n + 1] = x[n + 1] /\ Len(stream) - Len(d) >= Len(x)
  <2>1. Len(d) + n + 1 \in 1 .. Len(dx) /\ Len(d) + n + 1 \in 1 .. got /\ n + 1 \in 1 .. Len(x)
    BY <1>1, <1>2, <1>3
  <2>2. Len(d) + n + 1 = Len(d) + (n + 1)
    BY <1>3
  <2>3. stream[Len(d) + n + 1] = x[n + 1]
    BY <1>1, <1>4, <1>5, <2>1, <2>2
  <2>4. Len(d) + n \in 0 .. Len(stream) - 1 /\ Len(stream) - Len(d) >= Len(x)
    BY <1>1, <1>2, <1>3
  <2> QED BY <2>3, <2>4
<1>8. d \o p = SubSeq(stream, 1, Len(d) + n)
  <2> DEFINE l == d \o p
             r == SubSeq(stream, 1, Len(d) + n)
  <2>1. /\ l \in Seq(Symbols) /\ Len(l) = Len(d) + n
        /\ \A j \in 1 .. Len(d) : l[j] = d[j]
        /\ \A j \in 1 .. n : l[Len(d) + j] = p[j]
    <3> HIDE DEF p
    <3> QED BY <1>6, CatIs
  <2>2. r \in Seq(Symbols) /\ Len(r) = Len(d) + n /\ \A j \in 1 .. Len(d) + n : r[j] = stream[j]
    <3>1. Len(d) + n \in Nat /\ Len(d) + n <= Len(stream)
      BY <1>1, <1>3, <1>7
    <3> QED BY <1>1, <3>1, FrontIs
  <2> HIDE DEF l, r
  <2>3. ASSUME NEW j \in 1 .. Len(d) + n PROVE l[j] = r[j]
    <3>1. r[j] = dx[j]
      <4>1. j \in 1 .. got /\ j \in 1 .. Len(dx)
        BY <1>1, <1>2, <1>3, <1>7
      <4> QED BY <1>1, <1>4, <2>2, <4>1
    <3>2. CASE j \in 1 .. Len(d)
      BY <1>5, <2>1, <3>1, <3>2
    <3>3. CASE j \notin 1 .. Len(d)
      <4>1. j - Len(d) \in 1 .. n /\ j - Len(d) \in 1 .. Len(x) /\ j = Len(d) + (j - Len(d))
        BY <1>3, <3>3
      <4> QED BY <1>5, <1>6, <2>1, <3>1, <4>1
    <3> QED BY <3>2, <3>3
  <2>4. l = r
    BY <2>1, <2>2, <2>3, SeqEqual
  <2> QED BY <2>4 DEF l, r
<1> QED BY <1>6, <1>7, <1>8 DEF p, StandsBehind

LEMMA OneLine ==
    ASSUME TypeOK, ReaderInv, ReadLine, owned, UNCHANGED <<owned, stream, got>>
    PROVE  ReaderInv'
<1> DEFINE i == IndexOf(inbuf, "|")
           b == Before(inbuf, i)
           a == After(inbuf, i)
           l == line \o b
<1>1. /\ at = "reading" /\ mode = "LINE" /\ at' = at /\ inbuf' = a
      /\ IF i <= Len(inbuf) THEN FireLine(l, mode) /\ line' = <<>>
         ELSE line' = line \o inbuf /\ UNCHANGED <<mode, dataBytes, heard>>
  BY DEF ReadLine
<1>2. /\ inbuf \in Seq(Symbols) /\ line \in Seq(Symbols) /\ heard \in Seq(Pieces) /\ dataBytes \in Int
      /\ Here \in Reader /\ Here.mode = "LINE" /\ Here.line = line /\ Here.out = heard /\ Here.left = dataBytes
  BY <1>1, Parts, HereType, SocketAssumption DEF ReadTypes, Here
<1>3. PICK d \in Seq(Symbols) : d \o inbuf = SubSeq(stream, 1, got) /\ Handling(d)
  BY <1>1 DEF ReaderInv, Agrees
<1>4. /\ i \in 1 .. Len(inbuf) + 1 /\ b \in Seq(Symbols) /\ a \in Seq(Symbols) /\ Free(b, "|")
      /\ i <= Len(inbuf) => "|" \in Symbols /\ inbuf = (b \o <<"|">>) \o a
      /\ i = Len(inbuf) + 1 => b = inbuf /\ a = <<>>
  BY <1>2, Split
<1>5. ReadFrom(Here, b) = [mode |-> "LINE", line |-> l, out |-> heard, left |-> dataBytes]
  BY <1>2, <1>4, TextRead
<1>6. l \in Seq(Symbols) /\ Free(line, "|") /\ Free(l, "|") /\ ReadFrom(Here, b) \in Reader
  BY <1>2, <1>3, <1>4, ConcatProperties, InCat, FromType DEF Handling
<1> HIDE DEF i, b, a, l
<1>7. CASE i <= Len(inbuf)
  <2> DEFINE x == b \o <<"|">>
             r == ReadFrom(Here, b)
  <2>1. "|" \in Symbols /\ inbuf = x \o a /\ <<"|">> \in Seq(Symbols)
    BY <1>4, <1>7, ReadOne, <1>2
  <2>2. x \in Seq(Symbols)
    BY <1>4, <2>1, ConcatProperties
  <2>3. PICK e \in Seq(Symbols) : e \o a = SubSeq(stream, 1, got) /\ ReadFrom(Fresh, e) = ReadFrom(Here, x)
    BY <1>3, <1>4, <2>1, <2>2, Handled DEF Handling
  <2>4. ReadFrom(Here, x) = ReadSymbol(r, "|")
    <3>1. ReadFrom(Here, x) = ReadFrom(r, <<"|">>)
      BY <1>2, <1>4, <2>1, ReadCat
    <3> QED BY <1>6, <2>1, <3>1, ReadOne
  <2>5. FireLine(l, "LINE") /\ line' = <<>>
    BY <1>1, <1>7
  <2>6. Handling(e)'
    <3>1. CASE l = <<>>
      <4>1. ReadSymbol(r, "|") = r
        BY <1>5, <1>6, <2>1, <3>1, Rules
      <4>2. mode' = "LINE" /\ UNCHANGED <<dataBytes, heard>>
        BY <2>5, <3>1 DEF FireLine
      <4>3. Here' = r
        BY <1>5, <2>5, <3>1, <4>2 DEF Here
      <4> QED BY <2>3, <2>4, <2>5, <4>1, <4>2, <4>3, NothingFree DEF Handling
    <3>2. CASE l # <<>>
      <4> DEFINE next == ModeFor(l, "LINE")
      <4>0. r \in Reader /\ r.mode = "LINE" /\ r.line = l /\ r.out = heard /\ r.left = dataBytes
        BY <1>5, <1>6
      <4>1. ReadSymbol(r, "|") = [mode |-> next, line |-> <<>>, out |-> Append(heard, <<"Line", l>>),
                                  left |-> IF next \in {"DATA", "FLOW"} THEN DataSize ELSE dataBytes]
        <5> HIDE DEF r
        <5> QED BY <2>1, <3>2, <4>0, Rules
      <4>2. /\ heard' = Append(heard, <<"Line", l>>) /\ mode' = next
            /\ dataBytes' = IF next \in {"DATA", "FLOW"} THEN DataSize ELSE dataBytes
        BY <2>5, <3>2 DEF FireLine
      <4> HIDE DEF next
      <4>3. Here' = ReadSymbol(r, "|")
        BY <2>5, <4>1, <4>2 DEF Here
      <4>4. mode' \in {"DATA", "FLOW"} => dataBytes' > 0
        BY <4>2, SocketAssumption
      <4> QED BY <2>3, <2>4, <2>5, <4>3, <4>4, NothingFree DEF Handling
    <3> QED BY <3>1, <3>2
  <2> QED BY <1>1, <2>3, <2>6 DEF ReaderInv, Agrees
<1>8. CASE i = Len(inbuf) + 1
  <2>1. b = inbuf /\ a = <<>> /\ inbuf = inbuf \o <<>> /\ <<>> \in Seq(Symbols)
    BY <1>2, <1>4, <1>8, ConcatEmptySeq, EmptySeq
  <2>2. PICK e \in Seq(Symbols) : /\ e \o <<>> = SubSeq(stream, 1, got)
                                 /\ ReadFrom(Fresh, e) = ReadFrom(Here, inbuf)
    BY <1>2, <1>3, <2>1, Handled DEF Handling
  <2>3. line' = l /\ UNCHANGED <<mode, dataBytes, heard>>
    <3>1. ~(i <= Len(inbuf))
      BY <1>2, <1>8, LenProperties
    <3> QED BY <1>1, <2>1, <3>1 DEF l
  <2>4. Here' = ReadFrom(Here, b)
    BY <1>1, <1>5, <2>3 DEF Here
  <2>5. Handling(e)'
    BY <1>1, <1>6, <2>1, <2>2, <2>3, <2>4 DEF Handling
  <2> QED BY <1>1, <2>1, <2>2, <2>5 DEF ReaderInv, Agrees
<1>9. i <= Len(inbuf) \/ i = Len(inbuf) + 1
  BY <1>2, <1>4, LenProperties
<1> QED BY <1>7, <1>8, <1>9

LEMMA Decompressed ==
    ASSUME Nice, TypeOK, ReaderInv, Unzip, owned, UNCHANGED <<owned, stream, got>>
    PROVE  ReaderInv'
<1> DEFINE i == IndexOf(inbuf, "e")
           b == Before(inbuf, i)
           a == After(inbuf, i)
           q == ReadFrom(AsLines(Here), b)
<1>1. /\ at = "reading" /\ mode = "ZPIPE" /\ at' = "unzipped" /\ inbuf' = a /\ line' = line \o b
      /\ mode' = IF i <= Len(inbuf) THEN "LINE" ELSE mode
      /\ UNCHANGED <<dataBytes, heard>>
  BY DEF Unzip, Goto
<1>2. /\ inbuf \in Seq(Symbols) /\ line \in Seq(Symbols) /\ heard \in Seq(Pieces) /\ dataBytes \in Int
      /\ Here \in Reader /\ Here.mode = "ZPIPE" /\ Here.line = line /\ Here.out = heard /\ Here.left = dataBytes
      /\ Cut \in Reader /\ Cut.mode = "LINE" /\ Cut.line = <<>> /\ Cut.out = heard /\ Cut.left = dataBytes
  BY <1>1, Parts, HereType, SocketAssumption DEF ReadTypes, Here, Cut
<1>3. PICK d \in Seq(Symbols) : d \o inbuf = SubSeq(stream, 1, got) /\ Handling(d)
  BY <1>1 DEF ReaderInv, Agrees
<1>4. Free(line, "|") /\ Plain(line) /\ ReadFrom(Fresh, d) = Here
  BY <1>1, <1>3 DEF Handling
<1>5. /\ i \in 1 .. Len(inbuf) + 1 /\ b \in Seq(Symbols) /\ a \in Seq(Symbols) /\ Free(b, "e")
      /\ i <= Len(inbuf) => "e" \in Symbols /\ inbuf = (b \o <<"e">>) \o a
      /\ i = Len(inbuf) + 1 => b = inbuf /\ a = <<>>
  BY <1>2, Split
<1> HIDE DEF i, b, a
<1>6. \E y \in Seq(Symbols) : inbuf = b \o y
  <2>1. CASE i <= Len(inbuf)
    <3>1. "e" \in Symbols /\ inbuf = (b \o <<"e">>) \o a
      BY <1>5, <2>1
    <3>2. <<"e">> \in Seq(Symbols)
      BY <1>2, <3>1, ReadOne
    <3>3. inbuf = b \o (<<"e">> \o a)
      BY <1>5, <3>1, <3>2, ConcatAssociative
    <3> QED BY <1>5, <3>2, <3>3, ConcatProperties
  <2>2. CASE i = Len(inbuf) + 1
    BY <1>2, <1>5, <2>2, ConcatEmptySeq, EmptySeq
  <2>3. Len(inbuf) \in Nat
    BY <1>2
  <2>4. i <= Len(inbuf) \/ i = Len(inbuf) + 1
    BY <1>5, <2>3
  <2> QED BY <2>1, <2>2, <2>4
<1>7. Plain(b)
  <2>1. PICK y \in Seq(Symbols) : inbuf = b \o y
    BY <1>6
  <2>2. ASSUME NEW n \in 0 .. Len(b) - 1, ReadFrom(Here, SubSeq(b, 1, n)).mode = "ZPIPE"
        PROVE  b[n + 1] \notin Marks
    <3>1. /\ Len(d) + n \in 0 .. Len(stream) - 1 /\ stream[Len(d) + n + 1] = b[n + 1]
          /\ SubSeq(b, 1, n) \in Seq(Symbols) /\ d \o SubSeq(b, 1, n) = SubSeq(stream, 1, Len(d) + n)
      <4>1. b \in Seq(Symbols) /\ d \o inbuf = SubSeq(stream, 1, got)
        BY <1>3, <1>5
      <4>2. StandsBehind(d, b, n)
        BY <2>1, <2>2, <4>1, InStream
      <4> QED BY <4>2 DEF StandsBehind
    <3>2. ReadFrom(Fresh, SubSeq(stream, 1, Len(d) + n)).mode = "ZPIPE"
      BY <1>4, <2>2, <3>1, ReadCat, FreshType
    <3>3. WellFormed(stream)
      BY Parts DEF Nice, ReadTypes
    <3> QED BY <3>1, <3>2, <3>3 DEF WellFormed, Marks
  <2>3. PlainWhileZipped(Here, b)
    BY <2>2 DEF PlainWhileZipped
  <2> QED BY <1>2, <1>4, <1>5, <2>3, ZipIsPlain
<1>8. q.mode = "LINE" /\ Plain(q.line) /\ ReadFrom(Here, b) = Zipped(q)
  BY <1>2, <1>4, <1>5, <1>7, ZipRead
<1>9. /\ line \o b \in Seq(Symbols) /\ Plain(line \o b) /\ q \in Reader
      /\ ReadFrom(Cut, line \o b) = q
  <2>1. AsLines(Here) \in Reader
    BY <1>2 DEF AsLines, Reader, Modes
  <2>2. ReadFrom(Cut, line) = [mode |-> "LINE", line |-> <<>> \o line, out |-> heard, left |-> dataBytes]
    BY <1>2, <1>4, TextRead
  <2>3. ReadFrom(Cut, line) = AsLines(Here)
    BY <1>2, <2>2, ConcatEmptySeq DEF AsLines
  <2> QED BY <1>2, <1>4, <1>5, <1>7, <2>1, <2>3, ReadCat, FromType, ConcatProperties, InCat
<1> HIDE DEF q
<1>10. Cut' = Cut
  BY <1>1 DEF Cut
<1>11. CASE i <= Len(inbuf)
  <2>1. "e" \in Symbols /\ inbuf = (b \o <<"e">>) \o a /\ <<"e">> \in Seq(Symbols)
    BY <1>2, <1>5, <1>11, ReadOne
  <2>2. PICK x \in Seq(Symbols) : x = b \o <<"e">>
    BY <1>5, <2>1, ConcatProperties
  <2>3. PICK e \in Seq(Symbols) : e \o a = SubSeq(stream, 1, got) /\ ReadFrom(Fresh, e) = ReadFrom(Here, x)
    BY <1>3, <1>4, <1>5, <2>1, <2>2, Handled
  <2>4. Zipped(q) \in Reader
    BY <1>2, <1>5, <1>8, FromType
  <2>5. ReadFrom(Here, x) = ReadSymbol(Zipped(q), "e")
    <3>1. ReadFrom(Here, x) = ReadFrom(ReadFrom(Here, b), <<"e">>)
      BY <1>2, <1>5, <2>1, <2>2, ReadCat
    <3>2. ReadFrom(Zipped(q), <<"e">>) = ReadSymbol(Zipped(q), "e")
      BY <2>1, <2>4, ReadOne
    <3> QED BY <1>8, <3>1, <3>2
  <2>6. ReadSymbol(Zipped(q), "e") = InMode(q, "LINE")
    <3>1. Zipped(q).mode = "ZPIPE" /\ Zipped(q).line = q.line /\ Zipped(q).out = q.out /\ Zipped(q).left = q.left
      BY DEF Zipped
    <3> QED BY <2>1, <2>4, <3>1, Rules DEF InMode
  <2>7. Unzipping(e)'
    BY <1>1, <1>9, <1>10, <1>11, <2>3, <2>5, <2>6 DEF Unzipping
  <2> QED BY <1>1, <2>3, <2>7 DEF ReaderInv, Agrees
<1>12. CASE ~(i <= Len(inbuf))
  <2>1. b = inbuf /\ a = <<>>
    BY <1>2, <1>5, <1>12, LenProperties
  <2>2. PICK e \in Seq(Symbols) : e \o a = SubSeq(stream, 1, got) /\ ReadFrom(Fresh, e) = ReadFrom(Here, b)
    <3>1. b \in Seq(Symbols) /\ a \in Seq(Symbols)
      BY <1>5, <2>1, EmptySeq
    <3>2. inbuf = b \o a
      BY <2>1, <3>1, ConcatEmptySeq
    <3>3. /\ d \o b \in Seq(Symbols) /\ (d \o b) \o a = SubSeq(stream, 1, got)
          /\ ReadFrom(Fresh, d \o b) = ReadFrom(ReadFrom(Fresh, d), b)
      BY <1>3, <3>1, <3>2, Handled
    <3>4. ReadFrom(Fresh, d) = Here
      BY <1>4
    <3> QED BY <3>3, <3>4
  <2>3. Zipped(q) = InMode(q, "ZPIPE")
    BY DEF Zipped, InMode
  <2>4. Unzipping(e)'
    BY <1>1, <1>8, <1>9, <1>10, <1>12, <2>2, <2>3 DEF Unzipping
  <2> QED BY <1>1, <2>2, <2>4 DEF ReaderInv, Agrees
<1> QED BY <1>11, <1>12

LEMMA CutLine ==
    ASSUME TypeOK, ReaderInv, UnzippedLine, owned, UNCHANGED <<owned, stream, got>>, inbuf' = inbuf
    PROVE  ReaderInv'
<1> DEFINE i == IndexOf(line, "|")
           b == Before(line, i)
           a == After(line, i)
           r == [mode |-> "LINE", line |-> b, out |-> heard, left |-> dataBytes]
<1>1. /\ at = "unzipped"
      /\ IF i <= Len(line) THEN FireLine(b, mode) /\ line' = a /\ at' = at
         ELSE at' = "reading" /\ UNCHANGED <<line, mode, dataBytes, heard>>
  BY DEF UnzippedLine, Goto
<1>2. /\ line \in Seq(Symbols) /\ heard \in Seq(Pieces) /\ dataBytes \in Int
      /\ Cut \in Reader /\ Cut.mode = "LINE" /\ Cut.line = <<>> /\ Cut.out = heard /\ Cut.left = dataBytes
  BY Parts, HereType, SocketAssumption DEF ReadTypes, Cut
<1>3. PICK d \in Seq(Symbols) : d \o inbuf = SubSeq(stream, 1, got) /\ Unzipping(d)
  BY <1>1 DEF ReaderInv, Agrees
<1>4. /\ mode \in {"LINE", "ZPIPE"} /\ Plain(line)
      /\ ReadFrom(Fresh, d) = InMode(ReadFrom(Cut, line), mode)
  BY <1>3 DEF Unzipping
<1>5. /\ i \in 1 .. Len(line) + 1 /\ b \in Seq(Symbols) /\ a \in Seq(Symbols) /\ Free(b, "|")
      /\ i <= Len(line) => "|" \in Symbols /\ line = (b \o <<"|">>) \o a
      /\ i = Len(line) + 1 => b = line /\ a = <<>>
  BY <1>2, Split
<1>6. ReadFrom(Cut, b) = r /\ r \in Reader
  <2>1. ReadFrom(Cut, b) = [mode |-> "LINE", line |-> <<>> \o b, out |-> heard, left |-> dataBytes]
    BY <1>2, <1>5, TextRead
  <2> QED BY <1>2, <1>5, <2>1, ConcatEmptySeq, FromType
<1> HIDE DEF i, b, a
<1>7. CASE i <= Len(line)
  <2>1. "|" \in Symbols /\ line = (b \o <<"|">>) \o a /\ <<"|">> \in Seq(Symbols)
    BY <1>5, <1>6, <1>7, ReadOne
  <2>2. b \o <<"|">> \in Seq(Symbols)
    BY <1>5, <2>1, ConcatProperties
  <2>3. Plain(b) /\ Plain(a)
    BY <1>4, <1>5, <2>1, <2>2, InCat
  <2>4. FireLine(b, mode) /\ line' = a /\ at' = at
    BY <1>1, <1>7
  <2>5. ReadFrom(Cut, line) = ReadFrom(ReadSymbol(r, "|"), a)
    <3>1. ReadFrom(Cut, line) = ReadFrom(ReadFrom(Cut, b \o <<"|">>), a)
      BY <1>2, <1>5, <2>1, <2>2, ReadCat
    <3>2. ReadFrom(Cut, b \o <<"|">>) = ReadFrom(r, <<"|">>)
      <4> HIDE DEF r
      <4>1. ReadFrom(Cut, b \o <<"|">>) = ReadFrom(ReadFrom(Cut, b), <<"|">>)
        BY <1>2, <1>5, <2>1, ReadCat
      <4> QED BY <1>6, <4>1
    <3>3. ReadFrom(r, <<"|">>) = ReadSymbol(r, "|")
      BY <1>6, <2>1, ReadOne
    <3> QED BY <3>1, <3>2, <3>3
  <2>6. Cut' = ReadSymbol(r, "|") /\ mode' = mode
    <3>1. r.mode = "LINE" /\ r.line = b /\ r.out = heard /\ r.left = dataBytes
      OBVIOUS
    <3>2. ModeFor(b, "LINE") = "LINE" /\ ModeFor(b, mode) = mode
      BY <1>5, <2>3, PlainMode
    <3>3. CASE b = <<>>
      <4>1. ReadSymbol(r, "|") = r
        <5> HIDE DEF r
        <5> QED BY <1>6, <2>1, <3>1, <3>3, Rules
      <4>2. mode' = mode /\ UNCHANGED <<dataBytes, heard>>
        BY <2>4, <3>3 DEF FireLine
      <4> QED BY <3>3, <4>1, <4>2 DEF Cut
    <3>4. CASE b # <<>>
      <4>1. ReadSymbol(r, "|") = [mode |-> "LINE", line |-> <<>>, out |-> Append(heard, <<"Line", b>>),
                                  left |-> dataBytes]
        <5> HIDE DEF r
        <5> QED BY <1>6, <2>1, <3>1, <3>2, <3>4, Rules
      <4>2. heard' = Append(heard, <<"Line", b>>) /\ mode' = mode /\ dataBytes' = dataBytes
        BY <1>4, <2>4, <3>2, <3>4 DEF FireLine
      <4> QED BY <4>1, <4>2 DEF Cut
    <3> QED BY <3>3, <3>4
  <2>7. Unzipping(d)'
    BY <1>4, <2>3, <2>4, <2>5, <2>6 DEF Unzipping
  <2> QED BY <1>1, <1>3, <2>4, <2>7 DEF ReaderInv, Agrees
<1>8. CASE ~(i <= Len(line))
  <2>1. b = line /\ at' = "reading" /\ UNCHANGED <<line, mode, dataBytes, heard>>
    <3>1. Len(line) \in Nat
      BY <1>2
    <3>2. i = Len(line) + 1
      BY <1>5, <1>8, <3>1
    <3> QED BY <1>1, <1>5, <1>8, <3>2
  <2>2. Free(line, "|")
    BY <1>5, <2>1
  <2>3. ReadFrom(Fresh, d) = Here /\ Here' = Here
    BY <1>4, <1>6, <2>1 DEF InMode, Here
  <2>4. Handling(d)'
    BY <1>4, <2>1, <2>2, <2>3 DEF Handling
  <2> QED BY <1>3, <2>1, <2>4 DEF ReaderInv, Agrees
<1> QED BY <1>7, <1>8

LEMMA SomeData ==
    ASSUME TypeOK, ReaderInv, owned, UNCHANGED <<owned, stream, got>>,
           at = "reading", at' = at, mode \in {"DATA", "FLOW"}, inbuf # <<>>,
           NEW x \in Seq(Symbols), NEW y \in Seq(Symbols), inbuf = x \o y, Len(x) <= dataBytes,
           inbuf' = y, line' = line, heard' = heard \o Data(x), dataBytes' = dataBytes - Len(x),
           mode' = IF Len(x) = dataBytes THEN "LINE" ELSE mode
    PROVE  ReaderInv'
<1>1. /\ Here \in Reader /\ Here.mode = mode /\ Here.line = line /\ Here.out = heard /\ Here.left = dataBytes
      /\ dataBytes \in Nat /\ Len(x) \in Nat
  BY Parts, HereType, SocketAssumption, LenProperties DEF ReadTypes, Here
<1>2. PICK d \in Seq(Symbols) : d \o inbuf = SubSeq(stream, 1, got) /\ Handling(d)
  BY DEF ReaderInv, Agrees
<1>3. ReadFrom(Fresh, d) = Here /\ Free(line, "|") /\ dataBytes > 0
  BY <1>2 DEF Handling
<1>4. PICK e \in Seq(Symbols) : e \o y = SubSeq(stream, 1, got) /\ ReadFrom(Fresh, e) = ReadFrom(Here, x)
  BY <1>2, <1>3, Handled
<1>5. ReadFrom(Here, x) = [mode |-> IF Len(x) = dataBytes THEN "LINE" ELSE mode, line |-> line,
                           out |-> heard \o Data(x), left |-> dataBytes - Len(x)]
  BY <1>1, <1>3, DataRead
<1>6. Here' = ReadFrom(Here, x)
  BY <1>5 DEF Here
<1>7. mode' \in {"DATA", "FLOW"} => dataBytes' > 0
  BY <1>1
<1>8. Handling(e)'
  BY <1>3, <1>4, <1>6, <1>7 DEF Handling
<1> QED BY <1>4, <1>8 DEF ReaderInv, Agrees

LEMMA DataOfSize ==
    ASSUME TypeOK, ReaderInv, ReadData, owned, UNCHANGED <<owned, stream, got>>
    PROVE  ReaderInv'
<1> DEFINE high == IF dataBytes < Len(inbuf) THEN dataBytes ELSE Len(inbuf)
           x == SubSeq(inbuf, 1, high)
           y == After(inbuf, high)
<1>1. /\ at = "reading" /\ at' = at /\ mode = "DATA" /\ inbuf # <<>> /\ line' = line
      /\ heard' = heard \o Data(x) /\ inbuf' = y /\ dataBytes' = dataBytes - high
      /\ mode' = IF dataBytes' = 0 THEN "LINE" ELSE mode
  BY DEF ReadData, FireData
<1>2. inbuf \in Seq(Symbols) /\ Len(inbuf) \in Nat /\ dataBytes \in Nat
  BY Parts, SocketAssumption, LenProperties DEF ReadTypes
<1>3. high \in Nat /\ high <= Len(inbuf) /\ high <= dataBytes
  BY <1>2
<1> HIDE DEF high
<1>4. x \in Seq(Symbols) /\ Len(x) = high /\ y \in Seq(Symbols)
  BY <1>2, <1>3, CutSeq
<1>5. inbuf = x \o y
  <2>1. high \in 1 - 1 .. Len(inbuf) /\ Len(inbuf) \in high .. Len(inbuf) /\ 1 \in 1 .. Len(inbuf) + 1
    BY <1>2, <1>3
  <2>2. SubSeq(inbuf, 1, high) \o SubSeq(inbuf, high + 1, Len(inbuf)) = SubSeq(inbuf, 1, Len(inbuf))
    BY <1>2, <2>1, ConcatAdjacentSubSeq
  <2> QED BY <1>2, <2>2, SubSeqFull DEF After
<1> HIDE DEF x, y
<1>6. mode' = IF Len(x) = dataBytes THEN "LINE" ELSE mode
  BY <1>1, <1>2, <1>3, <1>4
<1>7. PICK v \in Seq(Symbols), w \in Seq(Symbols) : v = x /\ w = y
  BY <1>4
<1> QED BY <1>1, <1>3, <1>4, <1>5, <1>6, <1>7, SomeData

LEMMA DataThatFlows ==
    ASSUME Nice, TypeOK, ReaderInv, ReadFlow, owned, UNCHANGED <<owned, stream, got>>
    PROVE  ReaderInv'
<1>1. /\ at = "reading" /\ at' = at /\ mode = "FLOW" /\ inbuf # <<>> /\ line' = line
      /\ heard' = heard \o Data(inbuf) /\ inbuf' = <<>>
      /\ dataBytes' = (IF dataBytes < Len(inbuf) THEN 0 ELSE dataBytes - Len(inbuf))
      /\ mode' = IF dataBytes' = 0 THEN "LINE" ELSE mode
  BY DEF ReadFlow, FireData
<1>2. /\ inbuf \in Seq(Symbols) /\ Len(inbuf) \in Nat /\ Len(inbuf) > 0 /\ dataBytes \in Nat
      /\ inbuf \o <<>> = inbuf /\ <<>> \in Seq(Symbols) /\ Here.mode = "FLOW" /\ Here.left = dataBytes
  BY <1>1, Parts, SocketAssumption, LenProperties, EmptySeq, ConcatEmptySeq DEF ReadTypes, Here
<1>3. PICK d \in Seq(Symbols) : d \o inbuf = SubSeq(stream, 1, got) /\ Handling(d)
  BY <1>1 DEF ReaderInv, Agrees
<1>4. Len(inbuf) <= dataBytes
  <2>1. 0 \in 0 .. Len(inbuf) - 1 /\ Len(d) \in Nat
    BY <1>2, LenProperties
  <2>2. /\ Len(d) + 0 \in 0 .. Len(stream) - 1 /\ Len(stream) - Len(d) >= Len(inbuf)
        /\ SubSeq(inbuf, 1, 0) \in Seq(Symbols) /\ d \o SubSeq(inbuf, 1, 0) = SubSeq(stream, 1, Len(d) + 0)
    <3>1. StandsBehind(d, inbuf, 0)
      <4>1. inbuf = inbuf \o <<>>
        BY <1>2
      <4> QED BY <1>2, <1>3, <2>1, <4>1, InStream
    <3> QED BY <3>1 DEF StandsBehind
  <2>3. d = SubSeq(stream, 1, Len(d)) /\ Len(d) \in 0 .. Len(stream) - 1
    <3>1. SubSeq(inbuf, 1, 0) = <<>> /\ Len(d) + 0 = Len(d)
      BY <2>1, SubSeqEmpty
    <3> QED BY <2>2, <3>1, ConcatEmptySeq
  <2>4. ReadFrom(Fresh, d).mode = "FLOW" /\ ReadFrom(Fresh, d).left = dataBytes
    BY <1>2, <1>3 DEF Handling
  <2>5. WellFormed(stream)
    BY Parts DEF Nice, ReadTypes
  <2>6. Len(stream) - Len(d) <= dataBytes
    BY <2>3, <2>4, <2>5 DEF WellFormed
  <2>7. Len(stream) \in Nat
    BY StreamType
  <2> QED BY <1>2, <2>1, <2>2, <2>6, <2>7
<1>5. dataBytes' = dataBytes - Len(inbuf) /\ mode' = IF Len(inbuf) = dataBytes THEN "LINE" ELSE mode
  BY <1>1, <1>2, <1>4
<1>6. PICK v \in Seq(Symbols), w \in Seq(Symbols) : v = inbuf /\ w = <<>>
  BY <1>2
<1> QED BY <1>1, <1>2, <1>4, <1>5, <1>6, SomeData

LEMMA ReadKeepsAgreement == Nice /\ TypeOK /\ ReaderInv /\ Read => ReaderInv'
<1> SUFFICES ASSUME Nice, TypeOK, ReaderInv, Read PROVE ReaderInv'
  OBVIOUS
<1>2. UNCHANGED <<owned, stream, got>>
  BY DEF Read, ownerVars
<1>3. CASE ~owned
  <2>1. at' \notin {"reading", "unzipped"} => inbuf' = <<>>
    BY DEF ReaderInv, Read, ReadLine, Unzip, UnzippedLine, ReadData, ReadFlow, EndOfRead, Goto
  <2> QED BY <1>2, <1>3, <2>1 DEF ReaderInv
<1>4. CASE owned
  <2>1. CASE ReadLine
    BY <1>2, <1>4, <2>1, OneLine
  <2>2. CASE Unzip
    BY <1>2, <1>4, <2>2, Decompressed
  <2>3. CASE UnzippedLine
    <3>1. inbuf' = inbuf
      BY <2>3 DEF UnzippedLine
    <3> QED BY <1>2, <1>4, <2>3, <3>1, CutLine
  <2>4. CASE ReadData
    BY <1>2, <1>4, <2>4, DataOfSize
  <2>5. CASE ReadFlow
    BY <1>2, <1>4, <2>5, DataThatFlows
  <2>6. CASE EndOfRead
    <3>1. at = "reading" /\ at' = back /\ inbuf = <<>> /\ UNCHANGED <<inbuf, line, mode, dataBytes, heard>>
      BY <2>6 DEF EndOfRead
    <3>2. back \notin {"reading", "unzipped"}
      BY Parts DEF ThreadTypes
    <3>3. Here' = Here
      BY <3>1 DEF Here
    <3>4. \A d : Handling(d) => Handling(d)'
      BY <3>1, <3>3 DEF Handling
    <3> QED BY <1>2, <3>1, <3>2, <3>4 DEF ReaderInv, Agrees
  <2> QED BY <2>1, <2>2, <2>3, <2>4, <2>5, <2>6 DEF Read
<1> QED BY <1>3, <1>4

LEMMA ReaderStep == Nice /\ TypeOK /\ ReaderInv /\ [Next]_vars => ReaderInv'
<1> SUFFICES ASSUME Nice, TypeOK, ReaderInv, [Next]_vars PROVE ReaderInv'
  OBVIOUS
<1>1. ASSUME UNCHANGED readVars, owned' => owned,
             at' = at \/ (at \notin {"reading", "unzipped"} /\ at' \notin {"reading", "unzipped"})
      PROVE  ReaderInv'
  BY <1>1, NothingRead DEF readVars
<1>2. CASE UNCHANGED vars
  BY <1>1, <1>2 DEF vars, ownerVars
<1>3. CASE Owner
  BY <1>1, <1>3 DEF Owner, Bind, Start, Write, TransmitFile, Disconnect, Updated, PutSocket
<1>4. CASE CheckEvents
  <2>1. UNCHANGED readVars /\ owned' = owned /\ at = "events"
    BY <1>4 DEF CheckEvents
  <2>2. at' \notin {"reading", "unzipped"}
    BY <1>4, <2>1 DEF CheckEvents, Handle, Goto, Fail
  <2> QED BY <1>1, <2>1, <2>2
<1>5. ASSUME Closed, at \notin {"reading", "unzipped"} PROVE ReaderInv'
  BY <1>1, <1>5 DEF Closed, Fail, Goto, ownerVars
<1>6. CASE Connect
  BY <1>1, <1>6 DEF Connect, Fail, Goto, ownerVars
<1>7. CASE CheckSocket
  <2>1. CASE at = "polling" /\ Receive("events")
    BY <2>1, Received
  <2>2. CASE at = "polling" /\ Closed
    BY <1>5, <2>2
  <2>3. CASE UNCHANGED <<ownerVars, readVars>> /\ at \in {"events", "polling"} /\ at' \in {"events", "polling"}
    BY <1>1, <2>3 DEF ownerVars
  <2> QED BY <1>7, <2>1, <2>2, <2>3 DEF CheckSocket, Goto
<1>8. CASE Stop \/ TransmitDone
  BY <1>1, <1>8 DEF Stop, TransmitDone, Goto, ownerVars
<1>9. CASE Send
  <2>1. CASE at = "sending" /\ Receive("sending")
    BY <2>1, Received
  <2>2. CASE at = "sendingFile" /\ Receive("sendingFile")
    BY <2>2, Received
  <2>3. CASE at \in {"sending", "sendingFile"} /\ Closed
    BY <1>5, <2>3
  <2>4. CASE /\ UNCHANGED <<ownerVars, readVars>> /\ at \in {"sending", "sendingFile"}
             /\ at' \in {"events", "sending", "sendingFile"}
    BY <1>1, <2>4 DEF ownerVars
  <2> QED BY <1>9, <2>1, <2>2, <2>3, <2>4 DEF Send, Goto
<1>10. CASE Read
  BY <1>10, ReadKeepsAgreement
<1> QED BY <1>2, <1>3, <1>4, <1>6, <1>7, <1>8, <1>9, <1>10 DEF Next, Thread

-----------------------------------------------------------------------------
(* What is heard.                                                            *)

LEMMA PrefixOfCat ==
    ASSUME NEW s \in Seq(Pieces), NEW t \in Seq(Pieces)
    PROVE  IsPrefix(s, s \o t)
<1>1. /\ s \o t \in Seq(Pieces) /\ Len(s \o t) = Len(s) + Len(t) /\ Len(s) \in Nat /\ Len(t) \in Nat
      /\ \A j \in 1 .. Len(s) : (s \o t)[j] = s[j]
  BY ConcatProperties, LenProperties
<1>2. SubSeq(s \o t, 1, Len(s)) = s
  <2>1. \A j \in 1 .. Len(s) : (s \o t)[j] \in Pieces
    BY <1>1, ElementOfSeq
  <2>2. /\ SubSeq(s \o t, 1, Len(s)) \in Seq(Pieces) /\ Len(SubSeq(s \o t, 1, Len(s))) = Len(s)
        /\ \A j \in 1 .. Len(s) : SubSeq(s \o t, 1, Len(s))[j] = (s \o t)[j]
    BY <1>1, <2>1, SubSeqProperties
  <2> QED BY <1>1, <2>2, SeqEqual
<1>3. SubSeq(s, 1, Len(s)) = s
  BY SubSeqFull
<1>4. Len(s) <= Len(s \o t)
  BY <1>1
<1>5. SubSeq(s, 1, Len(s)) = SubSeq(s \o t, 1, Len(s))
  BY <1>2, <1>3
<1> QED BY <1>4, <1>5 DEF IsPrefix

LEMMA PiecesAssociative ==
    ASSUME NEW x \in Seq(Pieces), NEW y \in Seq(Pieces), NEW z \in Seq(Pieces)
    PROVE  (x \o y) \o z = x \o (y \o z) /\ y \o z \in Seq(Pieces)
BY ConcatAssociative, ConcatProperties

LEMMA ReaderAgrees == TypeOK /\ ReaderInv => HeardAsSent
<1> SUFFICES ASSUME TypeOK, ReaderInv, owned
             PROVE  /\ IsPrefix(heard, Delivered(SubSeq(stream, 1, got)))
                    /\ at \notin {"reading", "unzipped"} => heard = Delivered(SubSeq(stream, 1, got))
  BY DEF HeardAsSent
<1>1. PICK d \in Seq(Symbols) : d \o inbuf = SubSeq(stream, 1, got) /\ Agrees(d)
  BY DEF ReaderInv
<1>2. /\ inbuf \in Seq(Symbols) /\ line \in Seq(Symbols) /\ heard \in Seq(Pieces) /\ dataBytes \in Int
      /\ Here \in Reader /\ Here.out = heard /\ Cut \in Reader /\ Cut.out = heard
  BY Parts, HereType, SocketAssumption DEF ReadTypes, Here, Cut
<1>3. PICK q \in Reader : q = ReadFrom(Fresh, d)
  BY FromType, FreshType
<1>4. PICK all \in Reader : all = ReadFrom(q, inbuf)
  BY <1>2, FromType
<1>5. Delivered(SubSeq(stream, 1, got)) = all.out
  <2>1. ReadFrom(Fresh, d \o inbuf) = ReadFrom(ReadFrom(Fresh, d), inbuf)
    BY <1>2, ReadCat, FreshType
  <2> QED BY <1>1, <1>3, <1>4, <2>1 DEF Delivered
<1>6. \E new \in Seq(Pieces) : q.out = heard \o new
  <2>1. CASE at = "unzipped"
    <3>1. q.out = ReadFrom(Cut, line).out
      BY <1>1, <1>3, <2>1 DEF Agrees, Unzipping, InMode
    <3> QED BY <1>2, <3>1, OutGrows
  <2>2. CASE at # "unzipped"
    <3>1. q.out = heard
      BY <1>1, <1>2, <1>3, <2>2 DEF Agrees, Handling
    <3>2. heard \o <<>> = heard /\ <<>> \in Seq(Pieces)
      BY <1>2, ConcatEmptySeq, EmptySeq
    <3> QED BY <3>1, <3>2
  <2> QED BY <2>1, <2>2
<1>7. IsPrefix(heard, all.out)
  <2>1. PICK new \in Seq(Pieces) : q.out = heard \o new
    BY <1>6
  <2>2. PICK more \in Seq(Pieces) : all.out = q.out \o more
    BY <1>2, <1>4, OutGrows
  <2>3. all.out = heard \o (new \o more) /\ new \o more \in Seq(Pieces)
    BY <1>2, <2>1, <2>2, PiecesAssociative
  <2>4. IsPrefix(heard, heard \o (new \o more))
    BY <1>2, <2>3, PrefixOfCat
  <2> QED BY <2>3, <2>4
<1>8. ASSUME at \notin {"reading", "unzipped"} PROVE heard = all.out
  <2>1. inbuf = <<>> /\ q.out = heard
    BY <1>1, <1>2, <1>3, <1>8 DEF ReaderInv, Agrees, Handling
  <2> QED BY <1>4, <2>1, ReadEmpty
<1> QED BY <1>5, <1>7, <1>8

(* Whatever the sizes, the bounds and the cuts into reads: when the other side     *)
(* sends only well-formed streams, what the listener was given is always the      *)
(* beginning of what a reader of one symbol at a time makes of the bytes read,     *)
(* and all of it when threadRead is done (BufferedSocket::threadRead).          *)
THEOREM HeardAsSentAlways == ASSUME \A s \in Streams : WellFormed(s) PROVE Spec => []HeardAsSent
<1>1. Nice
  BY DEF Nice
<1>2. Init => TypeOK /\ ReaderInv
  BY TypeInit, ReaderInit
<1>3. TypeOK /\ ReaderInv /\ [Next]_vars => (TypeOK /\ ReaderInv)'
  BY <1>1, TypeStep, ReaderStep
<1>4. TypeOK /\ ReaderInv => HeardAsSent
  BY ReaderAgrees
<1> QED BY <1>2, <1>3, <1>4, PTL DEF Spec
================================================================================
