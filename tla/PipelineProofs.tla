--------------------------- MODULE PipelineProofs ---------------------------
(***************************************************************************)
(* The evidence pipeline, for any documents, limit, batch size and hash:   *)
(* what _chunk_block makes of a text, by induction over its words, and     *)
(* chunk_blocks of the blocks; what is read of an embedding answer, by the *)
(* uniqueness of the sort; what a sparse vector weighs; and PipelineInv,   *)
(* which the steps of a pass keep. SequentialProofs has the theorems.      *)
(***************************************************************************)
EXTENDS EvidencePipeline, ListProofs

Text == Seq(Word)

(***************************************************************************)
(* The length of a text, one word longer.                                  *)
(***************************************************************************)
LEMMA LengthsType ==
  ASSUME NEW words \in Text
  PROVE  /\ [w \in DOMAIN words |-> words[w].length] \in Seq(Nat)
         /\ Len([w \in DOMAIN words |-> words[w].length]) = Len(words)
         /\ TextLength(words) \in Int
<1> DEFINE lengths == [w \in DOMAIN words |-> words[w].length]
<1>1. /\ DOMAIN words = 1..Len(words) /\ Len(words) \in Nat
      /\ \A w \in 1..Len(words) : words[w] \in Word
  BY DEF Text
<1>2. \A w \in 1..Len(words) : words[w].length \in Nat
  BY <1>1 DEF Word
<1>3. lengths \in [1..Len(words) -> Nat]
  BY <1>1, <1>2
<1> HIDE DEF lengths
<1>4. lengths \in Seq(Nat) /\ Len(lengths) = Len(words)
  BY <1>1, <1>3, SeqDef
<1>5. Total(lengths) \in Nat
  BY <1>4, TotalType
<1>6. TextLength(words) = Total(lengths) + Len(words) - 1
  BY DEF TextLength, lengths
<1> QED BY <1>1, <1>4, <1>5, <1>6 DEF lengths

LEMMA TextLengthOne == ASSUME NEW w \in Word PROVE TextLength(<<w>>) = w.length
<1>1. <<w>> \in Text /\ Len(<<w>>) = 1
  BY DEF Text
<1>2. w.length \in Nat
  BY DEF Word
<1>3. Total(<<w.length>>) = w.length
  <2>1. Append(<<>>, w.length) = <<w.length>> /\ <<>> \in Seq(Nat)
    OBVIOUS
  <2>2. Total(<<>>) = 0
    BY <2>1, TotalUnfolds DEF Total
  <2>3. Total(Append(<<>>, w.length)) = Total(<<>>) + w.length
    BY <1>2, <2>1, TotalAppend
  <2> QED BY <1>2, <2>1, <2>2, <2>3
<1>4. [i \in DOMAIN <<w>> |-> <<w>>[i].length] = <<w.length>>
  OBVIOUS
<1>5. TextLength(<<w>>) = Total(<<w.length>>) + 1 - 1
  BY <1>1, <1>4 DEF TextLength
<1> QED BY <1>2, <1>3, <1>5

LEMMA TextLengthAppend ==
  ASSUME NEW words \in Text, NEW w \in Word
  PROVE  TextLength(Append(words, w)) = TextLength(words) + 1 + w.length
<1> DEFINE lengths == [i \in DOMAIN words |-> words[i].length]
           longer == Append(words, w)
           all == [i \in DOMAIN longer |-> longer[i].length]
<1>1. /\ longer \in Text /\ Len(longer) = Len(words) + 1 /\ Len(words) \in Nat
      /\ longer[Len(words) + 1] = w /\ \A i \in 1..Len(words) : longer[i] = words[i]
  BY AppendProperties DEF Text
<1>2. w.length \in Nat
  BY DEF Word
<1>3. lengths \in Seq(Nat) /\ Len(lengths) = Len(words)
  BY LengthsType
<1>4. all = Append(lengths, w.length)
  <2>1. all \in Seq(Nat) /\ Len(all) = Len(words) + 1
    <3> HIDE DEF longer
    <3> QED BY <1>1, LengthsType
  <2>2. /\ Append(lengths, w.length) \in Seq(Nat) /\ Len(Append(lengths, w.length)) = Len(words) + 1
        /\ Append(lengths, w.length)[Len(words) + 1] = w.length
        /\ \A i \in 1..Len(words) : Append(lengths, w.length)[i] = lengths[i]
    <3> HIDE DEF lengths
    <3> QED BY <1>2, <1>3, AppendProperties
  <2>3. DOMAIN words = 1..Len(words) /\ DOMAIN longer = 1..(Len(words) + 1)
    <3> HIDE DEF longer
    <3> QED BY <1>1 DEF Text
  <2> HIDE DEF longer
  <2>4. \A i \in 1..(Len(words) + 1) : all[i] = Append(lengths, w.length)[i]
    <3> TAKE i \in 1..(Len(words) + 1)
    <3>1. all[i] = longer[i].length
      BY <2>3
    <3>2. CASE i = Len(words) + 1
      BY <1>1, <2>2, <3>1, <3>2
    <3>3. CASE i # Len(words) + 1
      <4>1. i \in 1..Len(words)
        BY <1>1, <3>3
      <4>2. lengths[i] = words[i].length
        BY <2>3, <4>1
      <4> QED BY <1>1, <2>2, <3>1, <4>1, <4>2
    <3> QED BY <3>2, <3>3
  <2> HIDE DEF all, lengths
  <2> QED BY <2>1, <2>2, <2>4, SeqEqual
<1>5. Total(all) = Total(lengths) + w.length
  <2> HIDE DEF all, lengths
  <2> QED BY <1>2, <1>3, <1>4, TotalAppend
<1>6. TextLength(longer) = Total(all) + Len(longer) - 1
  BY DEF TextLength
<1>7. TextLength(words) = Total(lengths) + Len(words) - 1
  BY DEF TextLength
<1>8. Total(lengths) \in Nat
  <2> HIDE DEF lengths
  <2> QED BY <1>3, TotalType
<1> HIDE DEF all, lengths, longer
<1>9. TextLength(longer) = TextLength(words) + 1 + w.length
  BY <1>1, <1>2, <1>5, <1>6, <1>7, <1>8
<1> QED BY <1>9 DEF longer

-----------------------------------------------------------------------------
(***************************************************************************)
(* _chunk_block, one word further.                                         *)
(***************************************************************************)
Packing == [pieces : Seq(Text), current : Text, length : Nat]

NothingPacked == [pieces |-> <<>>, current |-> <<>>, length |-> 0]

LEMMA PackType ==
  ASSUME NEW packed \in Packing, NEW w \in Word PROVE Pack(packed, w) \in Packing
<1>1. w.length \in Nat /\ <<w>> \in Text
  BY DEF Word, Text
<1>2. packed.pieces \in Seq(Text) /\ packed.current \in Text /\ packed.length \in Nat
  BY DEF Packing
<1>3. Append(packed.pieces, packed.current) \in Seq(Text) /\ Append(packed.current, w) \in Text
  BY <1>2 DEF Text
<1>4. packed = [pieces |-> packed.pieces, current |-> packed.current, length |-> packed.length]
  BY DEF Packing
<1>5. [pieces |-> Append(packed.pieces, packed.current), current |-> <<w>>, length |-> w.length]
        \in Packing
  BY <1>1, <1>3 DEF Packing
<1>6. ASSUME NEW separator \in {0, 1}
      PROVE  [packed EXCEPT !.current = Append(@, w), !.length = @ + separator + w.length]
               \in Packing
  <2>1. packed.length + separator + w.length \in Nat
    BY <1>1, <1>2
  <2> QED BY <1>2, <1>3, <1>4, <2>1 DEF Packing
<1> QED BY <1>5, <1>6 DEF Pack

LEMMA PackedUnfolds ==
  ASSUME NEW words \in Seq(Word)
  PROVE  /\ PackedTo(words) \in [0..Len(words) -> Packing]
         /\ PackedTo(words)[0] = NothingPacked
         /\ \A i \in 1..Len(words) :
              PackedTo(words)[i] = Pack(PackedTo(words)[i - 1], words[i])
<1> DEFINE n == Len(words)
           Q == Packing
           b == NothingPacked
           Next(i, x) == Pack(x, words[i])
           step == [i \in 1..n |-> [x \in Q |-> Next(i, x)]]
           f == PackedTo(words)
<1>1. n \in Nat /\ b \in Q /\ \A i \in 1..n, x \in Q : Next(i, x) \in Q
  <2>1. \A i \in 1..n, x \in Q : Next(i, x) \in Q
    BY PackType
  <2>2. NothingPacked \in Packing
    BY DEF NothingPacked, Packing, Text
  <2> QED BY <2>1, <2>2
<1> HIDE DEF n, Q, b, Next
<1>2. step \in [1..n -> [Q -> Q]]
  BY <1>1
<1>3. \A i \in 1..n, x \in Q : step[i][x] = Next(i, x)
  OBVIOUS
<1> HIDE DEF step
<1>4. PICK g : IsLoop(g, Q, n, b, step)
  BY <1>1, <1>2, LoopRuns
<1>5. g = [i \in 0..n |-> IF i = 0 THEN b ELSE Next(i, g[i - 1])]
  <2>1. \A i \in 1..n : i - 1 \in 0..n /\ step[i][g[i - 1]] = Next(i, g[i - 1])
    BY <1>1, <1>3, <1>4 DEF IsLoop
  <2>2. \A i \in 0..n : g[i] = IF i = 0 THEN b ELSE Next(i, g[i - 1])
    BY <1>1, <1>4, <2>1 DEF IsLoop
  <2> QED BY <1>4, <2>2 DEF IsLoop
<1>6. f = [i \in 0..n |-> IF i = 0 THEN b ELSE Next(i, f[i - 1])]
  BY <1>5 DEF PackedTo, n, b, Next, NothingPacked
<1> HIDE DEF f
<1>7. f = [i \in 0..n |-> f[i]] /\ f[0] = b /\ \A i \in 1..n : f[i] = Next(i, f[i - 1])
  <2>1. \A i \in 0..n : f[i] = IF i = 0 THEN b ELSE Next(i, f[i - 1])
    BY <1>6
  <2>2. f = [i \in 0..n |-> f[i]]
    BY <1>6
  <2>3. n \in Nat
    BY <1>1
  <2>4. f[0] = b
    BY <2>1, <2>3
  <2>5. \A i \in 1..n : f[i] = Next(i, f[i - 1])
    BY <2>1, <2>3
  <2> QED BY <2>2, <2>4, <2>5
<1>8. f \in [0..n -> Q]
  <2>1. \A i \in 1..n : f[i - 1] \in Q => f[i] \in Q
    BY <1>1, <1>7
  <2>2. n \in Nat /\ f = [i \in 0..n |-> f[i]] /\ f[0] \in Q
    BY <1>1, <1>7
  <2> QED BY <2>1, <2>2, LoopStays
<1> QED BY <1>7, <1>8 DEF f, n, Q, b, Next

-----------------------------------------------------------------------------
(***************************************************************************)
(* What _chunk_block makes of one block.                                   *)
(***************************************************************************)
\* Pieces within the limit, none of which could have taken the next word.
WellCut(pieces) ==
  /\ \A k \in 1..Len(pieces) :
       /\ pieces[k] # <<>>
       /\ TextLength(pieces[k]) <= MaxCharacters \/ Len(pieces[k]) = 1
  /\ \A k \in 1..(Len(pieces) - 1) :
       TextLength(Append(pieces[k], pieces[k + 1][1])) > MaxCharacters

WordsFrom(pieces, words) == \A k \in 1..Len(pieces) : ToSet(pieces[k]) \subseteq ToSet(words)

AllPieces(packed) ==
  IF packed.current = <<>> THEN packed.pieces ELSE Append(packed.pieces, packed.current)

\* After i words: these are the words of the pieces, and the length is that of
\* the current one.
PackedSoFar(packed, words, i) ==
  /\ packed \in Packing
  /\ IF i = 0 THEN packed = NothingPacked
     ELSE packed.current # <<>> /\ packed.length = TextLength(packed.current)
  /\ Joined(AllPieces(packed)) = SubSeq(words, 1, i)
  /\ WellCut(AllPieces(packed))
  /\ WordsFrom(AllPieces(packed), words)

\* The words of a text and one more.
LEMMA OneMoreWord ==
  ASSUME NEW words \in Text, NEW i \in 1..Len(words)
  PROVE  /\ SubSeq(words, 1, i) = Append(SubSeq(words, 1, i - 1), words[i])
         /\ SubSeq(words, 1, i - 1) \in Text /\ words[i] \in Word
         /\ words[i] \in ToSet(words)
<1>1. words[i] \in Word /\ Len(words) \in Nat /\ DOMAIN words = 1..Len(words)
  BY DEF Text
<1>2. SubSeq(words, 1, i - 1) \in Text /\ SubSeq(words, 1, i) \in Text
  BY <1>1, SubSeqProperties DEF Text
<1>3. /\ Len(SubSeq(words, 1, i - 1)) = i - 1 /\ Len(SubSeq(words, 1, i)) = i
      /\ \A k \in 1..(i - 1) : SubSeq(words, 1, i - 1)[k] = words[k]
      /\ \A k \in 1..i : SubSeq(words, 1, i)[k] = words[k]
  BY <1>1, SubSeqProperties DEF Text
<1> DEFINE x == SubSeq(words, 1, i - 1)
           y == SubSeq(words, 1, i)
<1> HIDE DEF x, y
<1>4. x \in Text /\ y \in Text /\ Len(x) = i - 1 /\ Len(y) = i /\ i \in Nat
  BY <1>1, <1>2, <1>3 DEF x, y
<1>5. \A k \in 1..(i - 1) : x[k] = words[k]
  BY <1>3 DEF x
<1>6. \A k \in 1..i : y[k] = words[k]
  BY <1>3 DEF y
<1>7. /\ Append(x, words[i]) \in Text /\ Len(Append(x, words[i])) = i
      /\ Append(x, words[i])[i] = words[i] /\ \A k \in 1..(i - 1) : Append(x, words[i])[k] = x[k]
  BY <1>1, <1>4, AppendProperties DEF Text
<1>8. \A k \in 1..i : y[k] = Append(x, words[i])[k]
  <2> TAKE k \in 1..i
  <2>1. CASE k = i
    BY <1>6, <1>7, <2>1
  <2>2. CASE k # i
    <3>1. k \in 1..(i - 1)
      BY <2>2
    <3> QED BY <1>5, <1>6, <1>7, <3>1
  <2> QED BY <2>1, <2>2
<1>9. y = Append(x, words[i])
  <2> DEFINE z == Append(x, words[i])
  <2>1. z \in Seq(Word) /\ Len(z) = i /\ \A k \in 1..i : y[k] = z[k]
    BY <1>7, <1>8 DEF Text
  <2> HIDE DEF z
  <2>2. y = z
    BY <1>4, <2>1, SeqEqual DEF Text
  <2> QED BY <2>2 DEF z
<1>10. words[i] \in ToSet(words)
  BY <1>1 DEF ToSet
<1> QED BY <1>1, <1>2, <1>9, <1>10 DEF x, y

\* A text and one more of the words.
LEMMA AppendWord ==
  ASSUME NEW c \in Text, NEW w \in Word
  PROVE  /\ Append(c, w) \in Text /\ Append(c, w) # <<>>
         /\ ToSet(Append(c, w)) = ToSet(c) \cup {w}
         /\ c # <<>> => Append(c, w)[1] = c[1]
<1> DEFINE x == Append(c, w)
           n == Len(c)
<1>1. /\ x \in Text /\ Len(x) = n + 1 /\ n \in Nat /\ x[n + 1] = w
      /\ \A k \in 1..n : x[k] = c[k]
  BY AppendProperties DEF Text
<1> HIDE DEF x
<1>2. DOMAIN x = 1..(n + 1) /\ DOMAIN c = 1..n
  BY <1>1 DEF Text
<1>3. ToSet(x) \subseteq ToSet(c) \cup {w}
  <2>1. ASSUME NEW k \in 1..(n + 1) PROVE x[k] \in ToSet(c) \cup {w}
    <3>1. k = n + 1 \/ k \in 1..n
      BY <1>1
    <3> QED BY <1>1, <1>2, <3>1 DEF ToSet
  <2> QED BY <1>2, <2>1 DEF ToSet
<1>4. ToSet(c) \cup {w} \subseteq ToSet(x)
  <2>1. n + 1 \in 1..(n + 1) /\ \A k \in 1..n : k \in 1..(n + 1)
    BY <1>1
  <2> QED BY <1>1, <1>2, <2>1 DEF ToSet
<1>5. c # <<>> => x[1] = c[1]
  <2>1. c # <<>> => 1 \in 1..n
    BY <1>1 DEF Text
  <2> QED BY <1>1, <2>1
<1>6. x # <<>>
  BY <1>1
<1> QED BY <1>1, <1>3, <1>4, <1>5, <1>6 DEF x

\* One more piece.
LEMMA AppendPiece ==
  ASSUME NEW pieces \in Seq(Text), NEW x \in Text, NEW words
  PROVE  /\ WellCut(Append(pieces, x)) <=>
              /\ WellCut(pieces)
              /\ x # <<>> /\ (TextLength(x) <= MaxCharacters \/ Len(x) = 1)
              /\ Len(pieces) # 0 =>
                   TextLength(Append(pieces[Len(pieces)], x[1])) > MaxCharacters
         /\ WordsFrom(Append(pieces, x), words) <=>
              WordsFrom(pieces, words) /\ ToSet(x) \subseteq ToSet(words)
<1> DEFINE more == Append(pieces, x)
           n == Len(pieces)
           Fits(y) == y # <<>> /\ (TextLength(y) <= MaxCharacters \/ Len(y) = 1)
           Full(y, z) == TextLength(Append(y, z[1])) > MaxCharacters
<1>1. /\ n \in Nat /\ Len(more) = n + 1 /\ more[n + 1] = x
      /\ \A k \in 1..n : more[k] = pieces[k]
  BY AppendProperties
<1> HIDE DEF more, n, Fits, Full
<1>2. (\A k \in 1..(n + 1) : Fits(more[k])) <=> (\A k \in 1..n : Fits(pieces[k])) /\ Fits(x)
  <2>1. \A k \in 1..(n + 1) : k \in 1..n \/ k = n + 1
    BY <1>1
  <2>2. n + 1 \in 1..(n + 1) /\ \A k \in 1..n : k \in 1..(n + 1)
    BY <1>1
  <2> QED BY <1>1, <2>1, <2>2
<1>3. (\A k \in 1..n : Full(more[k], more[k + 1])) <=>
        /\ \A k \in 1..(n - 1) : Full(pieces[k], pieces[k + 1])
        /\ n # 0 => Full(pieces[n], x)
  <2>1. \A k \in 1..n : k \in 1..(n - 1) \/ (k = n /\ n # 0)
    BY <1>1
  <2>2. \A k \in 1..(n - 1) : k \in 1..n /\ k + 1 \in 1..n
    BY <1>1
  <2>3. n # 0 => n \in 1..n
    BY <1>1
  <2> QED BY <1>1, <2>1, <2>2, <2>3
<1>4. (\A k \in 1..(n + 1) : ToSet(more[k]) \subseteq ToSet(words)) <=>
        (\A k \in 1..n : ToSet(pieces[k]) \subseteq ToSet(words)) /\ ToSet(x) \subseteq ToSet(words)
  <2> DEFINE In(y) == ToSet(y) \subseteq ToSet(words)
  <2> HIDE DEF In
  <2>1. \A k \in 1..(n + 1) : k \in 1..n \/ k = n + 1
    BY <1>1
  <2>2. n + 1 \in 1..(n + 1) /\ \A k \in 1..n : k \in 1..(n + 1)
    BY <1>1
  <2>3. (\A k \in 1..(n + 1) : In(more[k])) <=> (\A k \in 1..n : In(pieces[k])) /\ In(x)
    BY <1>1, <2>1, <2>2
  <2> QED BY <2>3 DEF In
<1>5. WellCut(more) <=> /\ \A k \in 1..(n + 1) : Fits(more[k])
                        /\ \A k \in 1..n : Full(more[k], more[k + 1])
  <2>1. (n + 1) - 1 = n
    BY <1>1
  <2> QED BY <1>1, <2>1, Zenon DEF WellCut, Fits, Full
<1>6. WellCut(pieces) <=> /\ \A k \in 1..n : Fits(pieces[k])
                          /\ \A k \in 1..(n - 1) : Full(pieces[k], pieces[k + 1])
  BY Zenon DEF WellCut, Fits, Full, n
<1>7. WordsFrom(more, words) <=> \A k \in 1..(n + 1) : ToSet(more[k]) \subseteq ToSet(words)
  BY <1>1, Zenon DEF WordsFrom
<1>8. WordsFrom(pieces, words) <=> \A k \in 1..n : ToSet(pieces[k]) \subseteq ToSet(words)
  BY Zenon DEF WordsFrom, n
<1>9. WellCut(more) <=> WellCut(pieces) /\ Fits(x) /\ (n # 0 => Full(pieces[n], x))
  BY <1>2, <1>3, <1>5, <1>6, Zenon
<1>10. WordsFrom(more, words) <=> WordsFrom(pieces, words) /\ ToSet(x) \subseteq ToSet(words)
  BY <1>4, <1>7, <1>8, Zenon
<1> QED BY <1>9, <1>10, Zenon DEF more, n, Fits, Full

LEMMA PackedStep ==
  ASSUME NEW words \in Text, NEW i \in 1..Len(words), NEW packed, PackedSoFar(packed, words, i - 1)
  PROVE  PackedSoFar(Pack(packed, words[i]), words, i)
<1> DEFINE w == words[i]
           P == packed.pieces
           c == packed.current
           L == packed.length
           next == Pack(packed, w)
           x == Append(c, w)
           before == SubSeq(words, 1, i - 1)
<1>1. /\ SubSeq(words, 1, i) = Append(before, w) /\ before \in Text
      /\ w \in Word /\ w \in ToSet(words)
  BY OneMoreWord
<1>2. /\ packed \in Packing /\ Joined(AllPieces(packed)) = before
      /\ WellCut(AllPieces(packed)) /\ WordsFrom(AllPieces(packed), words)
  BY DEF PackedSoFar
<1>3. P \in Seq(Text) /\ c \in Text /\ L \in Nat /\ w.length \in Nat
  BY <1>1, <1>2 DEF Packing, Word
<1>4. next \in Packing
  BY <1>1, <1>2, PackType
<1>5. x \in Text /\ x # <<>> /\ ToSet(x) = ToSet(c) \cup {w} /\ (c # <<>> => x[1] = c[1])
  BY <1>1, <1>3, AppendWord
<1>6. /\ <<w>> \in Text /\ <<w>> # <<>> /\ ToSet(<<w>>) \subseteq ToSet(words)
      /\ Len(<<w>>) = 1 /\ <<w>>[1] = w /\ TextLength(<<w>>) = w.length
  <2>1. <<w>> \in Text /\ <<w>> # <<>> /\ Len(<<w>>) = 1 /\ <<w>>[1] = w
    BY <1>1 DEF Text
  <2>2. DOMAIN <<w>> = {1}
    OBVIOUS
  <2>3. ToSet(<<w>>) = {w}
    BY <2>1, <2>2 DEF ToSet
  <2>4. TextLength(<<w>>) = w.length
    BY <1>1, TextLengthOne
  <2> QED BY <1>1, <2>1, <2>3, <2>4
<1>7. packed = [pieces |-> P, current |-> c, length |-> L]
  BY <1>2 DEF Packing
<1> DEFINE Goal == PackedSoFar(next, words, i)
<1>10. ASSUME next.current # <<>>, next.length = TextLength(next.current),
              Joined(AllPieces(next)) = Append(before, w),
              WellCut(AllPieces(next)), WordsFrom(AllPieces(next), words)
       PROVE  Goal
  <2>1. i # 0
    OBVIOUS
  <2> HIDE DEF next, w, before
  <2> QED BY <1>1, <1>4, <1>10, <2>1, Zenon DEF PackedSoFar
<1> SUFFICES Goal
  BY DEF Goal
<1> HIDE DEF Goal
<1>8. CASE i = 1
  <2>1. packed = NothingPacked
    BY <1>8 DEF PackedSoFar
  <2>2. P = <<>> /\ c = <<>> /\ L = 0 /\ x = <<w>>
    BY <2>1, <1>1 DEF NothingPacked
  <2>3. /\ next.pieces = <<>> /\ next.current = <<w>> /\ next.length = w.length
    BY <2>1, <1>3 DEF Pack, NothingPacked
  <2>4. AllPieces(next) = Append(<<>>, <<w>>) /\ AllPieces(packed) = <<>>
    BY <1>6, <2>2, <2>3 DEF AllPieces
  <2>5. Joined(Append(<<>>, <<w>>)) = Joined(<<>>) \o <<w>> /\ Joined(<<>>) = before
    <3>1. <<>> \in Seq(Seq(Word)) /\ <<w>> \in Seq(Word)
      BY <1>6 DEF Text
    <3> QED BY <1>2, <2>4, <3>1, JoinedAppend
  <2>6. before \o <<w>> = Append(before, w)
    BY <1>1 DEF Text
  <2>7. WellCut(Append(<<>>, <<w>>)) /\ WordsFrom(Append(<<>>, <<w>>), words)
    <3> DEFINE none == <<>>
               y == <<w>>
    <3>1. none \in Seq(Text) /\ ~(Len(none) # 0) /\ WellCut(none) /\ WordsFrom(none, words)
      BY <1>2, <2>4
    <3>2. y \in Text /\ y # <<>> /\ Len(y) = 1 /\ ToSet(y) \subseteq ToSet(words)
      BY <1>6
    <3> HIDE DEF none, y
    <3>3. WellCut(Append(none, y)) /\ WordsFrom(Append(none, y), words)
      BY <3>1, <3>2, AppendPiece
    <3> QED BY <3>3 DEF none, y
  <2> HIDE DEF next
  <2> QED BY <1>6, <1>10, <2>3, <2>4, <2>5, <2>6, <2>7
<1>9. CASE i # 1
  <2>1. c # <<>> /\ L = TextLength(c) /\ i # 0
    <3>1. i - 1 # 0
      BY <1>9
    <3> QED BY <3>1 DEF PackedSoFar
  <2>2. AllPieces(packed) = Append(P, c)
    BY <2>1 DEF AllPieces
  <2>3. Append(P, c) \in Seq(Text)
    BY <1>3
  <2>4. Joined(Append(P, c)) = Joined(P) \o c
    BY <1>3, JoinedAppend DEF Text
  <2>5. Joined(P) \in Text
    BY <1>3, JoinedType DEF Text
  <2>6. TextLength(x) = L + 1 + w.length
    BY <1>1, <1>3, <2>1, TextLengthAppend
  <2>7. CASE L + 1 + w.length > MaxCharacters
    <3>1. next.pieces = Append(P, c) /\ next.current = <<w>> /\ next.length = w.length
      BY <2>1, <2>7 DEF Pack
    <3>2. AllPieces(next) = Append(Append(P, c), <<w>>)
      BY <1>6, <3>1 DEF AllPieces
    <3>3. Joined(Append(Append(P, c), <<w>>)) = before \o <<w>>
      <4>1. Joined(Append(Append(P, c), <<w>>)) = Joined(Append(P, c)) \o <<w>>
        BY <1>6, <2>3, JoinedAppend DEF Text
      <4> QED BY <1>2, <2>2, <4>1
    <3>4. before \o <<w>> = Append(before, w)
      BY <1>1 DEF Text
    <3>5. WellCut(Append(Append(P, c), <<w>>)) /\ WordsFrom(Append(Append(P, c), <<w>>), words)
      <4> DEFINE Q == Append(P, c)
      <4>1. Q \in Seq(Text) /\ Q[Len(Q)] = c /\ WellCut(Q) /\ WordsFrom(Q, words)
        BY <1>2, <1>3, <2>2, AppendProperties
      <4>2. TextLength(Append(Q[Len(Q)], <<w>>[1])) > MaxCharacters
        BY <1>6, <2>6, <2>7, <4>1
      <4>3. ToSet(<<w>>) \subseteq ToSet(words)
        BY <1>1, <1>6
      <4> HIDE DEF Q
      <4> QED BY <1>6, <4>1, <4>2, <4>3, AppendPiece DEF Q
    <3> HIDE DEF next
    <3> QED BY <1>6, <1>10, <3>1, <3>2, <3>3, <3>4, <3>5
  <2>8. CASE ~(L + 1 + w.length > MaxCharacters)
    <3>1. next.pieces = P /\ next.current = x /\ next.length = L + 1 + w.length
      <4>1. next = [packed EXCEPT !.current = Append(@, w), !.length = @ + 1 + w.length]
        BY <2>1, <2>8 DEF Pack
      <4> HIDE DEF next, P, c, L
      <4> QED BY <1>7, <4>1
    <3>2. AllPieces(next) = Append(P, x)
      BY <1>5, <3>1 DEF AllPieces
    <3>3. Joined(Append(P, x)) = Append(before, w)
      <4>1. Joined(Append(P, x)) = Joined(P) \o x
        BY <1>3, <1>5, JoinedAppend DEF Text
      <4>2. \A a, b \in Text, e \in Word : a \o Append(b, e) = Append(a \o b, e)
        BY ConcatAppend DEF Text
      <4>3. Joined(P) \o x = Append(Joined(P) \o c, w)
        BY <1>1, <1>3, <2>5, <4>2, Zenon
      <4> QED BY <1>2, <2>2, <2>4, <4>1, <4>3
    <3>4. WellCut(Append(P, x)) /\ WordsFrom(Append(P, x), words)
      <4>1. /\ WellCut(P) /\ WordsFrom(P, words) /\ ToSet(c) \subseteq ToSet(words)
            /\ Len(P) # 0 => TextLength(Append(P[Len(P)], c[1])) > MaxCharacters
        BY <1>2, <1>3, <2>2, AppendPiece
      <4>2. TextLength(x) <= MaxCharacters
        BY <1>3, <2>6, <2>8, PipelineAssumption
      <4>3. x[1] = c[1] /\ ToSet(x) \subseteq ToSet(words)
        BY <1>1, <1>5, <2>1, <4>1
      <4>4. Len(P) # 0 => TextLength(Append(P[Len(P)], x[1])) > MaxCharacters
        BY <4>1, <4>3
      <4> HIDE DEF P, x
      <4> QED BY <1>3, <1>5, <4>1, <4>2, <4>3, <4>4, AppendPiece
    <3> HIDE DEF next
    <3> QED BY <1>5, <1>10, <2>6, <3>1, <3>2, <3>3, <3>4
  <2> QED BY <2>7, <2>8
<1> QED BY <1>8, <1>9

\* Blocks, and so are chunks.
ABlock == [words : Text, modality : Labels, page : Nat]

WordsOf(blocks) == [k \in DOMAIN blocks |-> blocks[k].words]

LEMMA WordsOfType ==
  ASSUME NEW blocks \in Seq(ABlock)
  PROVE  /\ WordsOf(blocks) \in Seq(Text) /\ Len(WordsOf(blocks)) = Len(blocks)
         /\ \A k \in 1..Len(blocks) : WordsOf(blocks)[k] = blocks[k].words
<1>1. DOMAIN blocks = 1..Len(blocks) /\ Len(blocks) \in Nat
  OBVIOUS
<1>2. \A k \in 1..Len(blocks) : blocks[k].words \in Text
  <2> TAKE k \in 1..Len(blocks)
  <2>1. blocks[k] \in ABlock
    OBVIOUS
  <2> QED BY <2>1 DEF ABlock
<1>3. WordsOf(blocks) \in [1..Len(blocks) -> Text]
  BY <1>1, <1>2 DEF WordsOf
<1>4. \A k \in 1..Len(blocks) : WordsOf(blocks)[k] = blocks[k].words
  BY <1>1 DEF WordsOf
<1> QED BY <1>1, <1>3, <1>4, SeqDef

LEMMA PackedWords ==
  ASSUME NEW words \in Text
  PROVE  PackedSoFar(PackedTo(words)[Len(words)], words, Len(words))
<1> DEFINE n == Len(words)
           f == PackedTo(words)
           P(i) == PackedSoFar(f[i], words, i)
           T == {i \in 0..n : P(i)}
<1>1. n \in Nat /\ words \in Seq(Word)
  BY DEF Text
<1>2. /\ f \in [0..n -> Packing] /\ f[0] = NothingPacked
      /\ \A i \in 1..n : f[i] = Pack(f[i - 1], words[i])
  BY <1>1, PackedUnfolds
<1> HIDE DEF f
<1>3. P(0)
  <2>1. NothingPacked \in Packing
    BY <1>1, <1>2
  <2>2. AllPieces(NothingPacked) = <<>>
    BY DEF AllPieces, NothingPacked
  <2>3. SubSeq(words, 1, 0) = <<>>
    BY <1>1
  <2>4. Joined(<<>>) = <<>>
    BY JoinedEmpty
  <2>5. WellCut(<<>>) /\ WordsFrom(<<>>, words)
    BY DEF WellCut, WordsFrom
  <2> QED BY <1>2, <2>1, <2>2, <2>3, <2>4, <2>5 DEF PackedSoFar
<1>4. ASSUME NEW i \in 1..n, P(i - 1) PROVE P(i)
  <2>1. PackedSoFar(Pack(f[i - 1], words[i]), words, i)
    BY <1>4, PackedStep
  <2> QED BY <1>2, <2>1
<1> HIDE DEF P
<1>5. 0 \in T /\ \A i \in 1..n : i - 1 \in T => i \in T
  BY <1>1, <1>3, <1>4
<1> HIDE DEF T
<1>6. \A i \in 0..n : i \in T
  BY <1>1, <1>5, UpTo
<1>7. n \in T
  BY <1>1, <1>6
<1> QED BY <1>7 DEF T, P, f

LEMMA ChunkBlockIs ==
  ASSUME NEW b \in ABlock
  PROVE  /\ ChunkBlock(b) \in Seq(ABlock)
         /\ Joined(WordsOf(ChunkBlock(b))) = b.words
         /\ WellCut(WordsOf(ChunkBlock(b))) /\ WordsFrom(WordsOf(ChunkBlock(b)), b.words)
         /\ \A k \in 1..Len(ChunkBlock(b)) : ChunkBlock(b)[k].page = b.page
<1> DEFINE packed == PackedTo(b.words)[Len(b.words)]
           pieces == AllPieces(packed)
           cs == [i \in DOMAIN pieces |-> [b EXCEPT !.words = pieces[i]]]
<1>1. b.words \in Text /\ b = [words |-> b.words, modality |-> b.modality, page |-> b.page]
      /\ b.modality \in Labels /\ b.page \in Nat
  BY DEF ABlock
<1>2. PackedSoFar(packed, b.words, Len(b.words))
  BY <1>1, PackedWords
<1>3. ChunkBlock(b) = cs
  BY DEF ChunkBlock, AllPieces
<1> HIDE DEF packed
<1>4. pieces \in Seq(Text)
  <2>1. packed.pieces \in Seq(Text) /\ packed.current \in Text
    BY <1>2 DEF PackedSoFar, Packing
  <2> QED BY <2>1 DEF AllPieces
<1>5. SubSeq(b.words, 1, Len(b.words)) = b.words
  BY <1>1, SubSeqFull DEF Text
<1>6. Joined(pieces) = b.words /\ WellCut(pieces) /\ WordsFrom(pieces, b.words)
  BY <1>2, <1>5 DEF PackedSoFar
<1> HIDE DEF pieces
<1>7. DOMAIN pieces = 1..Len(pieces) /\ Len(pieces) \in Nat
  BY <1>4
<1>8. \A i \in 1..Len(pieces) :
        cs[i] = [words |-> pieces[i], modality |-> b.modality, page |-> b.page]
  BY <1>1, <1>7
<1>9. cs \in [1..Len(pieces) -> ABlock]
  <2>1. \A i \in 1..Len(pieces) : pieces[i] \in Text
    BY <1>4
  <2>2. \A i \in 1..Len(pieces) : cs[i] \in ABlock
    BY <1>1, <1>8, <2>1 DEF ABlock
  <2>3. cs = [i \in 1..Len(pieces) |-> cs[i]]
    BY <1>7
  <2> HIDE DEF cs
  <2> QED BY <2>2, <2>3
<1> HIDE DEF cs
<1>10. cs \in Seq(ABlock) /\ Len(cs) = Len(pieces) /\ DOMAIN cs = 1..Len(pieces)
  BY <1>7, <1>9, SeqDef
<1>11. WordsOf(cs) = pieces
  <2>1. \A k \in 1..Len(pieces) : cs[k].words = pieces[k]
    <3> TAKE k \in 1..Len(pieces)
    <3>1. cs[k] = [words |-> pieces[k], modality |-> b.modality, page |-> b.page]
      BY <1>8
    <3> QED BY <3>1
  <2>2. WordsOf(cs) \in Seq(Text) /\ Len(WordsOf(cs)) = Len(pieces)
        /\ \A k \in 1..Len(pieces) : WordsOf(cs)[k] = pieces[k]
    BY <1>10, <2>1, WordsOfType
  <2> QED BY <1>4, <2>2, SeqEqual
<1>12. \A k \in 1..Len(cs) : cs[k].page = b.page
  BY <1>8, <1>10
<1> QED BY <1>3, <1>6, <1>10, <1>11, <1>12

-----------------------------------------------------------------------------
(***************************************************************************)
(* What chunk makes of all blocks.                                         *)
(***************************************************************************)
FromBlock(c, b) == c.page = b.page /\ ToSet(c.words) \subseteq ToSet(b.words)

Fits(c) == c.words # <<>> /\ (TextLength(c.words) <= MaxCharacters \/ Len(c.words) = 1)

Filled(c, d) ==
  \/ c.words[1].source # d.words[1].source
  \/ TextLength(Append(c.words, d.words[1])) > MaxCharacters

ChunkedSoFar(cs, blocks, i) ==
  /\ cs \in Seq(ABlock)
  /\ Joined(WordsOf(cs)) = JoinedTo(WordsOf(blocks))[i]
  /\ \A c \in 1..Len(cs) : Fits(cs[c]) /\ \E k \in 1..i : FromBlock(cs[c], blocks[k])
  /\ \A c \in 1..(Len(cs) - 1) : Filled(cs[c], cs[c + 1])

\* The words of different blocks are of different items or sections.
Separate(blocks) ==
  \A k, l \in 1..Len(blocks) :
    k < l => \A v \in ToSet(blocks[k].words), w \in ToSet(blocks[l].words) : v.source # w.source

LEMMA WordsOfConcat ==
  ASSUME NEW a \in Seq(ABlock), NEW b \in Seq(ABlock)
  PROVE  WordsOf(a \o b) = WordsOf(a) \o WordsOf(b)
<1> DEFINE c == a \o b
           m == Len(a)
           n == Len(b)
           x == WordsOf(a)
           y == WordsOf(b)
           z == WordsOf(c)
<1>1. /\ c \in Seq(ABlock) /\ Len(c) = m + n /\ m \in Nat /\ n \in Nat
      /\ \A k \in 1..m : c[k] = a[k]
      /\ \A k \in 1..n : c[m + k] = b[k]
  OBVIOUS
<1> HIDE DEF c
<1>2. x \in Seq(Text) /\ Len(x) = m /\ \A k \in 1..m : x[k] = a[k].words
  BY WordsOfType
<1>3. y \in Seq(Text) /\ Len(y) = n /\ \A k \in 1..n : y[k] = b[k].words
  BY WordsOfType
<1>4. z \in Seq(Text) /\ Len(z) = m + n /\ \A k \in 1..(m + n) : z[k] = c[k].words
  <2>1. z \in Seq(Text) /\ Len(z) = Len(c) /\ \A k \in 1..Len(c) : z[k] = c[k].words
    BY <1>1, WordsOfType
  <2> QED BY <1>1, <2>1
<1> HIDE DEF x, y, z, m, n
<1>5. /\ x \o y \in Seq(Text) /\ Len(x \o y) = m + n
      /\ \A k \in 1..m : (x \o y)[k] = x[k]
      /\ \A k \in 1..n : (x \o y)[m + k] = y[k]
  <2>1. x \in Seq(Text) /\ y \in Seq(Text) /\ Len(x) = m /\ Len(y) = n
    BY <1>2, <1>3
  <2>2. x \o y \in Seq(Text) /\ Len(x \o y) = Len(x) + Len(y)
    BY <2>1, ConcatIs
  <2>3. \A k \in 1..m : (x \o y)[k] = x[k]
    <3> TAKE k \in 1..m
    <3> QED BY <2>1
  <2>4. \A k \in 1..n : (x \o y)[m + k] = y[k]
    <3> TAKE k \in 1..n
    <3> QED BY <1>1, <2>1
  <2> QED BY <2>1, <2>2, <2>3, <2>4
<1> DEFINE xy == x \o y
<1> HIDE DEF xy
<1>6. \A k \in 1..(m + n) : z[k] = xy[k]
  <2> TAKE k \in 1..(m + n)
  <2>1. CASE k \in 1..m
    <3>1. z[k] = a[k].words
      BY <1>1, <1>4, <2>1
    <3>2. xy[k] = a[k].words
      BY <1>2, <1>5, <2>1 DEF xy
    <3> QED BY <3>1, <3>2
  <2>2. CASE k \notin 1..m
    <3>1. k - m \in 1..n /\ m + (k - m) = k
      BY <1>1, <2>2
    <3>2. c[k] = b[k - m]
      BY <1>1, <3>1
    <3>3. xy[k] = y[k - m]
      <4>1. \A j \in 1..n : xy[m + j] = y[j]
        BY <1>5 DEF xy
      <4> QED BY <3>1, <4>1
    <3> QED BY <1>3, <1>4, <3>1, <3>2, <3>3
  <2> QED BY <2>1, <2>2
<1>7. z = xy
  <2>1. xy \in Seq(Text) /\ Len(xy) = m + n
    BY <1>5 DEF xy
  <2> QED BY <1>4, <1>6, <2>1, SeqEqual
<1> QED BY <1>7 DEF xy, z, x, y, c

LEMMA ChunksOfBlock ==
  ASSUME NEW b \in ABlock
  PROVE  /\ \A c \in 1..Len(ChunkBlock(b)) :
              Fits(ChunkBlock(b)[c]) /\ FromBlock(ChunkBlock(b)[c], b)
         /\ \A c \in 1..(Len(ChunkBlock(b)) - 1) : Filled(ChunkBlock(b)[c], ChunkBlock(b)[c + 1])
<1> DEFINE cs == ChunkBlock(b)
           n == Len(cs)
           W == WordsOf(cs)
<1>1. /\ cs \in Seq(ABlock) /\ WellCut(W) /\ WordsFrom(W, b.words)
      /\ \A k \in 1..n : cs[k].page = b.page
  BY ChunkBlockIs
<1> HIDE DEF cs
<1>2. n \in Nat /\ Len(W) = n /\ \A k \in 1..n : W[k] = cs[k].words
  BY <1>1, WordsOfType
<1> HIDE DEF W, n
<1>3. ASSUME NEW c \in 1..n PROVE Fits(cs[c]) /\ FromBlock(cs[c], b)
  <2>1. W[c] = cs[c].words /\ cs[c].page = b.page
    BY <1>1, <1>2
  <2>2. W[c] # <<>> /\ (TextLength(W[c]) <= MaxCharacters \/ Len(W[c]) = 1)
    BY <1>1, <1>2 DEF WellCut
  <2>3. ToSet(W[c]) \subseteq ToSet(b.words)
    BY <1>1, <1>2 DEF WordsFrom
  <2> QED BY <2>1, <2>2, <2>3 DEF Fits, FromBlock
<1>4. ASSUME NEW c \in 1..(n - 1) PROVE Filled(cs[c], cs[c + 1])
  <2>1. c \in 1..n /\ c + 1 \in 1..n
    BY <1>2
  <2>2. W[c] = cs[c].words /\ W[c + 1] = cs[c + 1].words
    BY <1>2, <2>1
  <2>3. TextLength(Append(W[c], W[c + 1][1])) > MaxCharacters
    BY <1>1, <1>2 DEF WellCut
  <2> QED BY <2>2, <2>3 DEF Filled
<1> QED BY <1>3, <1>4 DEF n, cs

LEMMA ChunkedStep ==
  ASSUME NEW blocks \in Seq(ABlock), Separate(blocks), NEW i \in 1..Len(blocks),
         NEW cs, ChunkedSoFar(cs, blocks, i - 1)
  PROVE  ChunkedSoFar(cs \o ChunkBlock(blocks[i]), blocks, i)
<1> DEFINE D == ChunkBlock(blocks[i])
           e == cs \o D
           m == Len(cs)
           n == Len(D)
           b == blocks[i]
<1>1. b \in ABlock
  OBVIOUS
<1>2. D \in Seq(ABlock) /\ Joined(WordsOf(D)) = b.words
  BY <1>1, ChunkBlockIs
<1>3. /\ \A c \in 1..n : Fits(D[c]) /\ FromBlock(D[c], b)
      /\ \A c \in 1..(n - 1) : Filled(D[c], D[c + 1])
  BY <1>1, ChunksOfBlock
<1>4. cs \in Seq(ABlock) /\ Joined(WordsOf(cs)) = JoinedTo(WordsOf(blocks))[i - 1]
  BY DEF ChunkedSoFar
<1>5. /\ \A c \in 1..m : Fits(cs[c]) /\ \E k \in 1..(i - 1) : FromBlock(cs[c], blocks[k])
      /\ \A c \in 1..(m - 1) : Filled(cs[c], cs[c + 1])
  BY DEF ChunkedSoFar
<1> HIDE DEF D, b
<1>6. /\ e \in Seq(ABlock) /\ Len(e) = m + n /\ m \in Nat /\ n \in Nat
      /\ \A c \in 1..m : e[c] = cs[c]
      /\ \A c \in 1..n : e[m + c] = D[c]
  BY <1>2, <1>4, ConcatProperties
<1>7. Joined(WordsOf(e)) = JoinedTo(WordsOf(blocks))[i]
  <2>1. WordsOf(e) = WordsOf(cs) \o WordsOf(D)
    BY <1>2, <1>4, WordsOfConcat
  <2>2. WordsOf(cs) \in Seq(Text) /\ WordsOf(D) \in Seq(Text)
    BY <1>2, <1>4, WordsOfType
  <2>3. Joined(WordsOf(cs) \o WordsOf(D)) = Joined(WordsOf(cs)) \o Joined(WordsOf(D))
    BY <2>2, JoinedConcat DEF Text
  <2>4. WordsOf(blocks) \in Seq(Text) /\ Len(WordsOf(blocks)) = Len(blocks)
        /\ WordsOf(blocks)[i] = b.words
    BY WordsOfType DEF b
  <2>5. \A k \in 1..Len(WordsOf(blocks)) :
          JoinedTo(WordsOf(blocks))[k] = JoinedTo(WordsOf(blocks))[k - 1] \o WordsOf(blocks)[k]
    BY <2>4, JoinedUnfolds DEF Text
  <2>6. JoinedTo(WordsOf(blocks))[i] = JoinedTo(WordsOf(blocks))[i - 1] \o b.words
    BY <2>4, <2>5, Zenon
  <2> QED BY <1>2, <1>4, <2>1, <2>3, <2>6, Zenon
<1> HIDE DEF e, m, n
<1>8. ASSUME NEW c \in 1..(m + n) PROVE Fits(e[c]) /\ \E k \in 1..i : FromBlock(e[c], blocks[k])
  <2>1. CASE c \in 1..m
    <3>1. PICK k \in 1..(i - 1) : FromBlock(cs[c], blocks[k])
      BY <1>5, <2>1
    <3>2. k \in 1..i /\ e[c] = cs[c] /\ Fits(cs[c])
      BY <1>5, <1>6, <2>1
    <3> QED BY <3>1, <3>2
  <2>2. CASE c \notin 1..m
    <3>1. c - m \in 1..n /\ m + (c - m) = c /\ i \in 1..i
      BY <1>6, <2>2
    <3>2. e[c] = D[c - m]
      BY <1>6, <3>1
    <3>3. Fits(D[c - m]) /\ FromBlock(D[c - m], blocks[i])
      BY <1>3, <3>1 DEF b
    <3> QED BY <3>1, <3>2, <3>3
  <2> QED BY <2>1, <2>2
<1>9. ASSUME NEW c \in 1..((m + n) - 1) PROVE Filled(e[c], e[c + 1])
  <2>1. CASE c \in 1..(m - 1)
    <3>1. c \in 1..m /\ c + 1 \in 1..m
      BY <1>6, <2>1
    <3> QED BY <1>5, <1>6, <2>1, <3>1
  <2>2. CASE c = m
    <3>1. m \in 1..m /\ 1 \in 1..n
      BY <1>6, <2>2
    <3>2. e[c] = cs[m] /\ e[c + 1] = D[1]
      BY <1>6, <2>2, <3>1
    <3>3. PICK k \in 1..(i - 1) : FromBlock(cs[m], blocks[k])
      BY <1>5, <3>1
    <3>4. Fits(cs[m]) /\ Fits(D[1]) /\ FromBlock(D[1], b)
      BY <1>3, <1>5, <3>1
    <3>5. \A x \in ABlock : x.words # <<>> => x.words[1] \in ToSet(x.words)
      <4> TAKE x \in ABlock
      <4>1. x.words \in Seq(Word)
        BY DEF ABlock, Text
      <4>2. x.words # <<>> => 1 \in DOMAIN x.words
        BY <4>1
      <4> QED BY <4>2 DEF ToSet
    <3>6. cs[m] \in ABlock /\ D[1] \in ABlock
      BY <1>2, <1>4, <3>1 DEF m, n
    <3>7. cs[m].words[1] \in ToSet(blocks[k].words) /\ D[1].words[1] \in ToSet(blocks[i].words)
      BY <3>3, <3>4, <3>5, <3>6 DEF Fits, FromBlock, b
    <3>8. k \in 1..Len(blocks) /\ k < i
      OBVIOUS
    <3>9. cs[m].words[1].source # D[1].words[1].source
      BY <3>7, <3>8 DEF Separate
    <3> QED BY <3>2, <3>9 DEF Filled
  <2>3. CASE m < c
    <3>1. c - m \in 1..(n - 1) /\ c - m \in 1..n /\ (c - m) + 1 \in 1..n
          /\ m + (c - m) = c /\ m + ((c - m) + 1) = c + 1
      BY <1>6, <2>3
    <3>2. e[c] = D[c - m] /\ e[c + 1] = D[(c - m) + 1]
      <4>1. \A j \in 1..n : e[m + j] = D[j]
        BY <1>6
      <4>2. e[m + (c - m)] = D[c - m] /\ e[m + ((c - m) + 1)] = D[(c - m) + 1]
        BY <3>1, <4>1, Zenon
      <4> QED BY <3>1, <4>2, Zenon
    <3> QED BY <1>3, <3>1, <3>2
  <2> QED BY <1>6, <2>1, <2>2, <2>3
<1>10. ChunkedSoFar(e, blocks, i)
  BY <1>6, <1>7, <1>8, <1>9 DEF ChunkedSoFar
<1> QED BY <1>10 DEF e, D

LEMMA ChunkBlocksIs ==
  ASSUME NEW blocks \in Seq(ABlock), Separate(blocks)
  PROVE  ChunkedSoFar(ChunkBlocks(blocks), blocks, Len(blocks))
<1> DEFINE lists == [i \in DOMAIN blocks |-> ChunkBlock(blocks[i])]
           n == Len(blocks)
           f == JoinedTo(lists)
           P(i) == ChunkedSoFar(f[i], blocks, i)
           T == {i \in 0..n : P(i)}
<1>1. n \in Nat /\ DOMAIN blocks = 1..n /\ \A i \in 1..n : blocks[i] \in ABlock
  OBVIOUS
<1>2. /\ lists \in Seq(Seq(ABlock)) /\ Len(lists) = n
      /\ \A i \in 1..n : lists[i] = ChunkBlock(blocks[i])
  <2>1. \A i \in 1..n : ChunkBlock(blocks[i]) \in Seq(ABlock)
    BY <1>1, ChunkBlockIs
  <2>2. lists \in [1..n -> Seq(ABlock)] /\ \A i \in 1..n : lists[i] = ChunkBlock(blocks[i])
    BY <1>1, <2>1
  <2> HIDE DEF lists
  <2> QED BY <1>1, <2>2, SeqDef
<1>3. ChunkBlocks(blocks) = f[n]
  BY <1>2 DEF ChunkBlocks, Joined
<1> HIDE DEF lists
<1>4. f[0] = <<>> /\ \A i \in 1..n : f[i] = f[i - 1] \o lists[i]
  <2>1. f[0] = <<>> /\ \A i \in 1..Len(lists) : f[i] = f[i - 1] \o lists[i]
    BY <1>2, JoinedUnfolds
  <2> QED BY <1>2, <2>1, Zenon
<1> HIDE DEF f, n
<1>5. P(0)
  <2>1. <<>> \in Seq(ABlock) /\ WordsOf(<<>>) = <<>> /\ Len(<<>>) = 0
    BY DEF WordsOf
  <2>2. JoinedTo(WordsOf(blocks))[0] = <<>>
    <3>1. WordsOf(blocks) \in Seq(Seq(Word))
      BY WordsOfType DEF Text
    <3> QED BY <3>1, JoinedUnfolds
  <2> QED BY <1>4, <2>1, <2>2, JoinedEmpty DEF ChunkedSoFar
<1>6. ASSUME NEW i \in 1..n, P(i - 1) PROVE P(i)
  <2>1. ChunkedSoFar(f[i - 1] \o ChunkBlock(blocks[i]), blocks, i)
    BY <1>6, ChunkedStep DEF n
  <2>2. f[i] = f[i - 1] \o ChunkBlock(blocks[i])
    <3>1. f[i] = f[i - 1] \o lists[i]
      BY <1>4
    <3> QED BY <1>2, <3>1
  <2> QED BY <2>1, <2>2
<1> HIDE DEF P
<1>7. 0 \in T /\ \A i \in 1..n : i - 1 \in T => i \in T
  BY <1>1, <1>5, <1>6
<1> HIDE DEF T
<1>8. \A i \in 0..n : i \in T
  BY <1>1, <1>7, UpTo
<1>9. n \in T
  BY <1>1, <1>8
<1> QED BY <1>3, <1>9 DEF T, P, n

-----------------------------------------------------------------------------
(***************************************************************************)
(* What the parsers leave out.                                             *)
(***************************************************************************)
LEMMA KeptWords ==
  ASSUME NEW B \in Seq(ABlock), NEW places,
         \A i \in 1..Len(B) : i \notin places => B[i].words = <<>>
  PROVE  Joined(WordsOf(Kept(B, places))) = Joined(WordsOf(B))
<1> DEFINE n == Len(B)
           f == KeptTo(B, places)
           W == WordsOf(B)
           g == JoinedTo(W)
           P(i) == Joined(WordsOf(f[i])) = g[i]
           T == {i \in 0..n : P(i)}
<1>1. n \in Nat /\ \A i \in 1..n : B[i] \in ABlock
  OBVIOUS
<1>2. /\ f \in [0..n -> Seq(ABlock)] /\ f[0] = <<>>
      /\ \A i \in 1..n : f[i] = IF i \in places THEN Append(f[i - 1], B[i]) ELSE f[i - 1]
  BY KeptUnfolds
<1>3. W \in Seq(Text) /\ Len(W) = n /\ \A i \in 1..n : W[i] = B[i].words /\ W[i] \in Seq(Word)
  <2>1. W \in Seq(Text) /\ Len(W) = n /\ \A i \in 1..n : W[i] = B[i].words
    BY WordsOfType
  <2> HIDE DEF W
  <2> QED BY <2>1 DEF Text
<1> HIDE DEF W
<1>4. /\ g \in [0..n -> Seq(Word)] /\ g[0] = <<>>
      /\ \A i \in 1..n : g[i] = g[i - 1] \o W[i]
  <2>1. /\ g \in [0..Len(W) -> Seq(Word)] /\ g[0] = <<>>
        /\ \A i \in 1..Len(W) : g[i] = g[i - 1] \o W[i]
    BY <1>3, JoinedUnfolds DEF Text
  <2> QED BY <1>3, <2>1, Zenon
<1>5. Kept(B, places) = f[n] /\ Joined(W) = g[n]
  BY <1>3 DEF Kept, Joined
<1> HIDE DEF f, g
<1>6. P(0)
  <2>1. WordsOf(<<>>) = <<>>
    BY DEF WordsOf
  <2> QED BY <1>2, <1>4, <2>1, JoinedEmpty
<1>7. ASSUME NEW i \in 1..n, P(i - 1) PROVE P(i)
  <2>1. f[i - 1] \in Seq(ABlock) /\ g[i - 1] \in Seq(Word)
    <3>1. i - 1 \in 0..n
      BY <1>1
    <3> QED BY <1>2, <1>4, <3>1
  <2>2. g[i] = g[i - 1] \o B[i].words
    <3>1. g[i] = g[i - 1] \o W[i] /\ W[i] = B[i].words
      BY <1>3, <1>4
    <3> QED BY <3>1
  <2>3. CASE i \in places
    <3>1. f[i] = f[i - 1] \o <<B[i]>> /\ <<B[i]>> \in Seq(ABlock)
      <4>1. f[i] = Append(f[i - 1], B[i])
        BY <1>2, <2>3
      <4> QED BY <1>1, <2>1, <4>1
    <3>2. WordsOf(f[i]) = WordsOf(f[i - 1]) \o WordsOf(<<B[i]>>)
      BY <2>1, <3>1, WordsOfConcat
    <3>3. WordsOf(<<B[i]>>) = <<B[i].words>>
      BY DEF WordsOf
    <3>4. WordsOf(f[i - 1]) \in Seq(Seq(Word)) /\ B[i].words \in Seq(Word)
      BY <1>3, <2>1, WordsOfType DEF Text
    <3>5. WordsOf(f[i - 1]) \o <<B[i].words>> = Append(WordsOf(f[i - 1]), B[i].words)
      BY <3>4
    <3>6. Joined(Append(WordsOf(f[i - 1]), B[i].words)) = Joined(WordsOf(f[i - 1])) \o B[i].words
      BY <3>4, JoinedAppend
    <3> QED BY <1>7, <2>2, <3>2, <3>3, <3>5, <3>6, Zenon
  <2>4. CASE i \notin places
    <3>1. f[i] = f[i - 1] /\ B[i].words = <<>>
      BY <1>2, <2>4
    <3>2. g[i - 1] \o <<>> = g[i - 1]
      BY <2>1
    <3> QED BY <1>7, <2>2, <3>1, <3>2
  <2> QED BY <2>3, <2>4
<1> HIDE DEF P
<1>8. 0 \in T /\ \A i \in 1..n : i - 1 \in T => i \in T
  BY <1>1, <1>6, <1>7
<1> HIDE DEF T
<1>9. \A i \in 0..n : i \in T
  BY <1>1, <1>8, UpTo
<1>10. n \in T
  BY <1>1, <1>9
<1> QED BY <1>5, <1>10 DEF T, P, W

\* The words of a source's entry know which entry it is.
Located(B) == \A i \in 1..Len(B) : \A w \in ToSet(B[i].words) : w.source = i

LEMMA KeptBlocks ==
  ASSUME NEW B \in Seq(ABlock), Located(B), NEW places
  PROVE  /\ Kept(B, places) \in Seq(ABlock)
         /\ Separate(Kept(B, places))
         /\ \A k \in 1..Len(Kept(B, places)) : \E i \in 1..Len(B) : Kept(B, places)[k] = B[i]
<1> DEFINE K == Kept(B, places)
<1>1. K \in Seq(ABlock) /\ \E pos : KeptFrom(K, B, places, pos)
  BY KeptIs
<1> HIDE DEF K
<1>2. PICK pos : KeptFrom(K, B, places, pos)
  BY <1>1
<1>3. /\ pos \in [1..Len(K) -> 1..Len(B)]
      /\ \A p, q \in 1..Len(K) : p < q => pos[p] < pos[q]
      /\ \A p \in 1..Len(K) : K[p] = B[pos[p]]
  BY <1>2 DEF KeptFrom
<1>4. ASSUME NEW k \in 1..Len(K), NEW l \in 1..Len(K), k < l,
             NEW v \in ToSet(K[k].words), NEW w \in ToSet(K[l].words)
      PROVE  v.source # w.source
  <2>1. pos[k] \in 1..Len(B) /\ pos[l] \in 1..Len(B) /\ pos[k] < pos[l]
    BY <1>3, <1>4
  <2>2. v.source = pos[k] /\ w.source = pos[l]
    <3>1. v \in ToSet(B[pos[k]].words) /\ w \in ToSet(B[pos[l]].words)
      BY <1>3
    <3> QED BY <2>1, <3>1 DEF Located
  <2>3. pos[k] # pos[l]
    BY <2>1
  <2> QED BY <2>2, <2>3
<1>5. Separate(K)
  BY <1>4 DEF Separate
<1>6. \A k \in 1..Len(K) : \E i \in 1..Len(B) : K[k] = B[i]
  BY <1>3
<1> QED BY <1>1, <1>5, <1>6 DEF K

-----------------------------------------------------------------------------
(***************************************************************************)
(* The chunks of a source of which the parser has kept every entry with    *)
(* words.                                                                  *)
(***************************************************************************)
Covers(cs, source) ==
  /\ Joined(WordsOf(cs)) = Joined([i \in DOMAIN source |-> source[i].words])
  /\ \A c \in DOMAIN cs :
       \E i \in DOMAIN source :
         /\ source[i].page = cs[c].page
         /\ ToSet(cs[c].words) \subseteq ToSet(source[i].words)

AllFit(cs) ==
  /\ \A c \in DOMAIN cs : TextLength(cs[c].words) <= MaxCharacters \/ Len(cs[c].words) = 1
  /\ \A c \in 1..(Len(cs) - 1) : Filled(cs[c], cs[c + 1])

\* The words of a chunk are of one entry.
OfOneEntry(cs, B) ==
  \A c \in 1..Len(cs) : \E i \in 1..Len(B) : ToSet(cs[c].words) \subseteq ToSet(B[i].words)

\* The entries of a source, of which the parser drops some that have no words.
EntriesOf(B, places, source) ==
  /\ B \in Seq(ABlock)
  /\ Located(B)
  /\ \A i \in 1..Len(B) : i \notin places => B[i].words = <<>>
  /\ DOMAIN source = 1..Len(B)
  /\ \A i \in 1..Len(B) : source[i].words = B[i].words /\ source[i].page = B[i].page

LEMMA SourceIsCovered ==
  ASSUME NEW B, NEW places, NEW source, EntriesOf(B, places, source),
         NEW cs, cs = ChunkBlocks(Kept(B, places))
  PROVE  cs \in Seq(ABlock) /\ Covers(cs, source) /\ AllFit(cs) /\ OfOneEntry(cs, B)
<1>0. /\ B \in Seq(ABlock) /\ Located(B) /\ DOMAIN source = 1..Len(B)
      /\ \A i \in 1..Len(B) : i \notin places => B[i].words = <<>>
      /\ \A i \in 1..Len(B) : source[i].words = B[i].words /\ source[i].page = B[i].page
  BY DEF EntriesOf
<1> DEFINE K == Kept(B, places)
<1>1. /\ K \in Seq(ABlock) /\ Separate(K)
      /\ \A k \in 1..Len(K) : \E i \in 1..Len(B) : K[k] = B[i]
  BY <1>0, KeptBlocks
<1>2. Joined(WordsOf(K)) = Joined(WordsOf(B))
  BY <1>0, KeptWords
<1>3. cs = ChunkBlocks(K)
  OBVIOUS
<1> HIDE DEF K
<1>4. ChunkedSoFar(cs, K, Len(K))
  BY <1>1, <1>3, ChunkBlocksIs
<1>5. cs \in Seq(ABlock) /\ DOMAIN cs = 1..Len(cs)
  BY <1>4 DEF ChunkedSoFar
<1>6. Joined(WordsOf(cs)) = Joined(WordsOf(B))
  <2>1. Len(WordsOf(K)) = Len(K)
    BY <1>1, WordsOfType
  <2> QED BY <1>2, <1>4, <2>1 DEF ChunkedSoFar, Joined
<1>7. [i \in DOMAIN source |-> source[i].words] = WordsOf(B)
  <2>1. DOMAIN B = 1..Len(B)
    BY <1>0
  <2> QED BY <1>0, <2>1 DEF WordsOf
<1>8. ASSUME NEW c \in 1..Len(cs)
      PROVE  /\ \E i \in 1..Len(B) :
                  /\ source[i].page = cs[c].page
                  /\ ToSet(cs[c].words) \subseteq ToSet(source[i].words)
             /\ \E i \in 1..Len(B) : ToSet(cs[c].words) \subseteq ToSet(B[i].words)
             /\ TextLength(cs[c].words) <= MaxCharacters \/ Len(cs[c].words) = 1
  <2>1. PICK k \in 1..Len(K) : FromBlock(cs[c], K[k])
    BY <1>4 DEF ChunkedSoFar
  <2>2. PICK i \in 1..Len(B) : K[k] = B[i]
    BY <1>1
  <2>3. source[i].page = cs[c].page /\ source[i].words = B[i].words
        /\ ToSet(cs[c].words) \subseteq ToSet(B[i].words)
    BY <1>0, <2>1, <2>2 DEF FromBlock
  <2>4. Fits(cs[c])
    BY <1>4 DEF ChunkedSoFar
  <2> QED BY <2>3, <2>4 DEF Fits
<1>9. \A c \in 1..(Len(cs) - 1) : Filled(cs[c], cs[c + 1])
  BY <1>4 DEF ChunkedSoFar
<1>10. Covers(cs, source)
  BY <1>0, <1>5, <1>6, <1>7, <1>8 DEF Covers
<1>11. AllFit(cs)
  BY <1>5, <1>8, <1>9 DEF AllFit
<1>12. OfOneEntry(cs, B)
  BY <1>8 DEF OfOneEntry
<1> QED BY <1>5, <1>10, <1>11, <1>12

\* Every word has an id.
Hashed(words) == \A w \in ToSet(words) : w.length \in DOMAIN Bucket /\ Bucket[w.length] \in Nat

ChunksOf(cs, source) ==
  /\ cs \in Seq(ABlock)
  /\ Covers(cs, source)
  /\ AllFit(cs)
  /\ \A c \in 1..Len(cs) : Hashed(cs[c].words)

LEMMA SectionsAreCovered ==
  ASSUME NEW sections \in Seq(Seq(Word)), NameTheirSource(sections),
         \A i \in 1..Len(sections) : Hashed(sections[i])
  PROVE  ChunksOf(ChunkBlocks(SectionBlocks(sections)),
                  [i \in DOMAIN sections |-> [words |-> sections[i], page |-> 1]])
<1> DEFINE n == Len(sections)
           B == [i \in DOMAIN sections |-> Block(sections[i], "text", 1)]
           places == {i \in DOMAIN sections : sections[i] # <<>>}
           source == [i \in DOMAIN sections |-> [words |-> sections[i], page |-> 1]]
           cs == ChunkBlocks(Kept(B, places))
<1>1. n \in Nat /\ DOMAIN sections = 1..n /\ \A i \in 1..n : sections[i] \in Text
  BY DEF Text
<1>2. \A i \in 1..n : B[i] = [words |-> sections[i], modality |-> "text", page |-> 1]
  BY <1>1 DEF Block
<1>3. B \in [1..n -> ABlock]
  <2>1. \A i \in 1..n : B[i] \in ABlock
    BY <1>1, <1>2 DEF ABlock, Labels
  <2>2. B = [i \in 1..n |-> B[i]]
    BY <1>1
  <2> HIDE DEF B
  <2> QED BY <2>1, <2>2
<1>4. DOMAIN source = 1..n /\ \A i \in 1..n : source[i].words = sections[i] /\ source[i].page = 1
  BY <1>1
<1>5. \A i \in 1..n : i \notin places => sections[i] = <<>>
  BY <1>1
<1>6. ChunkBlocks(SectionBlocks(sections)) = cs
  BY DEF SectionBlocks
<1> HIDE DEF B, places, source
<1>7. B \in Seq(ABlock) /\ Len(B) = n /\ \A i \in 1..n : B[i].words = sections[i] /\ B[i].page = 1
  <2>1. \A i \in 1..n : B[i].words = sections[i] /\ B[i].page = 1
    <3> TAKE i \in 1..n
    <3>1. B[i] = [words |-> sections[i], modality |-> "text", page |-> 1]
      BY <1>2
    <3> QED BY <3>1
  <2> HIDE DEF n
  <2>2. B \in Seq(ABlock) /\ Len(B) = n
    BY <1>1, <1>3, SeqDef
  <2> QED BY <2>1, <2>2
<1>8. Located(B)
  <2> SUFFICES ASSUME NEW i \in 1..n, NEW w \in ToSet(sections[i]) PROVE w.source = i
    BY <1>7 DEF Located
  <2>1. PICK k \in DOMAIN sections[i] : w = sections[i][k]
    BY DEF ToSet
  <2> QED BY <1>1, <2>1 DEF NameTheirSource
<1> HIDE DEF n
<1>9. cs \in Seq(ABlock) /\ Covers(cs, source) /\ AllFit(cs) /\ OfOneEntry(cs, B)
  <2>1. \A i \in 1..Len(B) : i \notin places => B[i].words = <<>>
    BY <1>5, <1>7
  <2>2. DOMAIN source = 1..Len(B)
        /\ \A i \in 1..Len(B) : source[i].words = B[i].words /\ source[i].page = B[i].page
    BY <1>4, <1>7
  <2>3. EntriesOf(B, places, source)
    BY <1>7, <1>8, <2>1, <2>2 DEF EntriesOf
  <2> HIDE DEF cs
  <2>4. cs = ChunkBlocks(Kept(B, places))
    BY DEF cs
  <2> QED BY <2>3, <2>4, SourceIsCovered
<1>10. \A c \in 1..Len(cs) : Hashed(cs[c].words)
  <2> HIDE DEF cs
  <2> TAKE c \in 1..Len(cs)
  <2>1. PICK i \in 1..Len(B) : ToSet(cs[c].words) \subseteq ToSet(B[i].words)
    BY <1>9 DEF OfOneEntry
  <2>2. B[i].words = sections[i] /\ Hashed(sections[i])
    BY <1>7, <2>1 DEF n
  <2> QED BY <2>1, <2>2 DEF Hashed
<1> QED BY <1>6, <1>9, <1>10 DEF ChunksOf, source

LEMMA ItemsAreCovered ==
  ASSUME NEW items \in Seq(Item),
         \A i \in DOMAIN items : items[i].label = "picture" => items[i].words = <<>>,
         NameTheirSource([i \in DOMAIN items |-> items[i].words]),
         \A i \in 1..Len(items) : Hashed(items[i].words)
  PROVE  ChunksOf(ChunkBlocks(ItemBlocks(items)), items)
<1> DEFINE n == Len(items)
           B == [i \in DOMAIN items |-> Block(items[i].words, items[i].label, items[i].page)]
           places == {i \in DOMAIN items : items[i].label # "picture" /\ items[i].words # <<>>}
           cs == ChunkBlocks(Kept(B, places))
<1>1. n \in Nat /\ DOMAIN items = 1..n
  OBVIOUS
<1>2. \A i \in 1..n : items[i].words \in Text /\ items[i].label \in Labels /\ items[i].page \in Nat
  <2> TAKE i \in 1..n
  <2>1. items[i] \in Item
    OBVIOUS
  <2> QED BY <2>1 DEF Item, Text
<1>3. \A i \in 1..n :
        B[i] = [words |-> items[i].words, modality |-> items[i].label, page |-> items[i].page]
  BY <1>1 DEF Block
<1>4. B \in [1..n -> ABlock]
  <2>1. \A i \in 1..n : B[i] \in ABlock
    <3> HIDE DEF B
    <3> TAKE i \in 1..n
    <3>1. items[i].words \in Text /\ items[i].label \in Labels /\ items[i].page \in Nat
      BY <1>2
    <3>2. B[i] = [words |-> items[i].words, modality |-> items[i].label, page |-> items[i].page]
      BY <1>3
    <3> QED BY <3>1, <3>2 DEF ABlock
  <2>2. B = [i \in 1..n |-> B[i]]
    BY <1>1
  <2> HIDE DEF B
  <2> QED BY <2>1, <2>2
<1>5. \A i \in 1..n : i \notin places => items[i].words = <<>>
  BY <1>1
<1>6. ChunkBlocks(ItemBlocks(items)) = cs
  BY DEF ItemBlocks
<1> HIDE DEF B, places
<1>7. B \in Seq(ABlock) /\ Len(B) = n
      /\ \A i \in 1..n : B[i].words = items[i].words /\ B[i].page = items[i].page
  <2>1. \A i \in 1..n : B[i].words = items[i].words /\ B[i].page = items[i].page
    <3> TAKE i \in 1..n
    <3>1. B[i] = [words |-> items[i].words, modality |-> items[i].label, page |-> items[i].page]
      BY <1>3
    <3> QED BY <3>1
  <2>2. B \in Seq(ABlock) /\ Len(B) = n
    BY <1>1, <1>4, SeqDef
  <2> QED BY <2>1, <2>2
<1>8. Located(B)
  <2> SUFFICES ASSUME NEW i \in 1..n, NEW w \in ToSet(items[i].words) PROVE w.source = i
    BY <1>7 DEF Located
  <2>1. PICK k \in DOMAIN items[i].words : w = items[i].words[k]
    BY DEF ToSet
  <2> DEFINE texts == [j \in DOMAIN items |-> items[j].words]
  <2>2. DOMAIN texts = 1..n /\ texts[i] = items[i].words /\ NameTheirSource(texts)
    BY <1>1
  <2> HIDE DEF texts
  <2> QED BY <2>1, <2>2 DEF NameTheirSource
<1> HIDE DEF n
<1>9. cs \in Seq(ABlock) /\ Covers(cs, items) /\ AllFit(cs) /\ OfOneEntry(cs, B)
  <2>1. \A i \in 1..Len(B) : i \notin places => B[i].words = <<>>
    BY <1>5, <1>7
  <2>2. DOMAIN items = 1..Len(B)
        /\ \A i \in 1..Len(B) : items[i].words = B[i].words /\ items[i].page = B[i].page
    BY <1>1, <1>7
  <2>3. EntriesOf(B, places, items)
    BY <1>7, <1>8, <2>1, <2>2 DEF EntriesOf
  <2> HIDE DEF cs
  <2>4. cs = ChunkBlocks(Kept(B, places))
    BY DEF cs
  <2> QED BY <2>3, <2>4, SourceIsCovered
<1>10. \A c \in 1..Len(cs) : Hashed(cs[c].words)
  <2> HIDE DEF cs
  <2> TAKE c \in 1..Len(cs)
  <2>1. PICK i \in 1..Len(B) : ToSet(cs[c].words) \subseteq ToSet(B[i].words)
    BY <1>9 DEF OfOneEntry
  <2>2. B[i].words = items[i].words /\ Hashed(items[i].words)
    BY <1>7, <2>1 DEF n
  <2> QED BY <2>1, <2>2 DEF Hashed
<1> QED BY <1>6, <1>9, <1>10 DEF ChunksOf

\* Docling's items are of use if one has words, or is a picture with an image.
LEMMA UsefulItems ==
  ASSUME NEW items \in Seq(Item),
         \A i \in DOMAIN items : items[i].label = "picture" => items[i].words = <<>>,
         \A i \in DOMAIN items : items[i].image => items[i].label = "picture"
  PROVE  (ItemBlocks(items) # <<>> \/ HasAsset(items)) <=>
           \E i \in DOMAIN items : items[i].words # <<>> \/ items[i].image
<1> DEFINE B == [i \in DOMAIN items |-> Block(items[i].words, items[i].label, items[i].page)]
           places == {i \in DOMAIN items : items[i].label # "picture" /\ items[i].words # <<>>}
           S == {B[i] : i \in DOMAIN items}
           K == Kept(B, places)
<1>1. DOMAIN items = 1..Len(items) /\ Len(items) \in Nat
  OBVIOUS
<1>2. B \in Seq(S) /\ Len(B) = Len(items)
  <2>1. B \in [1..Len(items) -> S]
    BY <1>1
  <2> HIDE DEF B, S
  <2> QED BY <1>1, <2>1, SeqDef
<1>3. ItemBlocks(items) = K
  BY DEF ItemBlocks
<1>4. places = {i \in DOMAIN items : items[i].words # <<>>}
  OBVIOUS
<1>5. HasAsset(items) <=> \E i \in DOMAIN items : items[i].image
  BY DEF HasAsset
<1> HIDE DEF B, places, S, K
<1>6. K \in Seq(S) /\ \E pos : KeptFrom(K, B, places, pos)
  BY <1>2, KeptIs DEF K
<1>7. PICK pos : KeptFrom(K, B, places, pos)
  BY <1>6
<1>8. K # <<>> <=> \E i \in DOMAIN items : items[i].words # <<>>
  <2>1. K # <<>> => \E i \in DOMAIN items : items[i].words # <<>>
    <3> HAVE K # <<>>
    <3>1. 1 \in 1..Len(K)
      BY <1>6
    <3>2. pos[1] \in places
      BY <1>7, <3>1 DEF KeptFrom
    <3> QED BY <1>4, <3>2
  <2>2. ASSUME NEW i \in DOMAIN items, items[i].words # <<>> PROVE K # <<>>
    <3>1. i \in places /\ i \in 1..Len(B)
      BY <1>1, <1>2, <1>4, <2>2
    <3>2. PICK p \in 1..Len(K) : pos[p] = i
      BY <1>7, <3>1 DEF KeptFrom
    <3> QED BY <3>2
  <2> QED BY <2>1, <2>2
<1> QED BY <1>3, <1>5, <1>8

\* _parse_and_persist_document.
LEMMA DocumentIsCovered ==
  ASSUME NEW d \in Documents, Parsable(d)
  PROVE  ChunksOf(ChunkBlocks(BlocksOf(d)), Readable(d))
<1>1. d \in Document
  BY PipelineAssumption
<1>2. d.items \in Seq(Item) /\ d.sections \in Seq(Seq(Word))
  BY <1>1 DEF Document
<1>3. /\ \A i \in DOMAIN d.items :
            /\ d.items[i].label = "picture" => d.items[i].words = <<>>
            /\ d.items[i].image => d.items[i].label = "picture"
      /\ NameTheirSource([i \in DOMAIN d.items |-> d.items[i].words])
      /\ NameTheirSource(d.sections)
  BY PipelineAssumption
<1>4. ASSUME NEW text \in ToSet(d.sections) \cup {d.items[i].words : i \in DOMAIN d.items}
      PROVE  Hashed(text)
  <2>1. \A w \in DOMAIN text : Bucket[text[w].length] \in Nat /\ text[w].length \in DOMAIN Bucket
    BY PipelineAssumption
  <2> QED BY <2>1 DEF Hashed, ToSet
<1>5. \A i \in 1..Len(d.sections) : Hashed(d.sections[i])
  BY <1>2, <1>4 DEF ToSet
<1>6. \A i \in 1..Len(d.items) : Hashed(d.items[i].words)
  BY <1>2, <1>4
<1>7. ChunksOf(ChunkBlocks(SectionBlocks(d.sections)),
               [i \in DOMAIN d.sections |-> [words |-> d.sections[i], page |-> 1]])
  BY <1>2, <1>3, <1>5, SectionsAreCovered
<1>8. ChunksOf(ChunkBlocks(ItemBlocks(d.items)), d.items)
  BY <1>2, <1>3, <1>6, ItemsAreCovered
<1>9. (ItemBlocks(d.items) # <<>> \/ HasAsset(d.items)) <=>
        \E i \in DOMAIN d.items : d.items[i].words # <<>> \/ d.items[i].image
  BY <1>2, <1>3, UsefulItems
<1>10. d.type \in PlainTextTypes \/ d.type \in DoclingTypes
  BY DEF Parsable
<1>11. d.type \in PlainTextTypes => d.type \notin DoclingTypes
  BY DEF PlainTextTypes, DoclingTypes
<1> QED BY <1>7, <1>8, <1>9, <1>10, <1>11, Zenon DEF BlocksOf, DoclingBlocks, Readable

-----------------------------------------------------------------------------
(***************************************************************************)
(* _parse_response gives the vectors in the order of the texts.            *)
(***************************************************************************)
Keys(answer) ==
  [i \in DOMAIN answer |-> IF answer[i].index = NoIndex THEN 0 ELSE answer[i].index]

Answered == [index : Int, vector : Text, valid : BOOLEAN]

LEMMA ResponseInOrder ==
  ASSUME NEW texts \in Seq(Text), NEW n, n = Len(texts),
         NEW answer \in Seq(Answered), Len(answer) = n,
         NEW place \in [1..n -> 1..n],
         \A i \in 1..n : answer[i].vector = texts[place[i]],
         \A i, j \in 1..n : GoesBefore(Keys(answer), i, j) => place[i] < place[j]
  PROVE  ParseResponse(answer) = texts
<1> DEFINE key == Keys(answer)
           o == Order(key)
           ordered == SortedBy(answer, key)
           vectors == [i \in DOMAIN ordered |-> ordered[i].vector]
<1>1. n \in Nat /\ DOMAIN answer = 1..n
  OBVIOUS
<1>2. ParseResponse(answer) = vectors
  BY DEF ParseResponse, Keys
<1>3. key \in Seq(Int) /\ Len(key) = n
  <2>1. \A i \in 1..n : answer[i].index \in Int
    <3> TAKE i \in 1..n
    <3>1. answer[i] \in Answered
      BY <1>1
    <3> QED BY <3>1 DEF Answered
  <2>2. key \in [1..n -> Int]
    BY <1>1, <2>1 DEF Keys
  <2> HIDE DEF key
  <2> QED BY <1>1, <2>2, SeqDef
<1> HIDE DEF key
<1>4. /\ ordered \in Seq(Answered) /\ Len(ordered) = n /\ IsSorting(o, key)
      /\ \A p \in 1..n : ordered[p] = answer[o[p]]
  <2>1. Len(key) = Len(answer)
    BY <1>3
  <2>2. ordered \in Seq(Answered)
    BY <1>3, <2>1, SortedIs
  <2>3. Len(ordered) = Len(answer)
    BY <1>3, <2>1, SortedIs
  <2>4. IsSorting(o, key)
    BY <1>3, OrderByRank
  <2>5. \A p \in 1..n : ordered[p] = answer[o[p]]
    BY <1>1 DEF SortedBy
  <2> QED BY <2>2, <2>3, <2>4, <2>5
<1>5. /\ o \in [1..n -> 1..n]
      /\ \A p, q \in 1..n : p < q => GoesBefore(key, o[p], o[q])
  BY <1>3, <1>4 DEF IsSorting
<1> HIDE DEF o, ordered
<1>6. \A p \in 1..n : place[o[p]] = p
  <2> DEFINE f == [p \in 1..n |-> place[o[p]]]
  <2>1. f \in [1..n -> 1..n]
    BY <1>5
  <2>2. ASSUME NEW p \in 1..n, NEW q \in 1..n, p < q PROVE f[p] < f[q]
    <3>1. o[p] \in 1..n /\ o[q] \in 1..n /\ GoesBefore(key, o[p], o[q])
      BY <1>5, <2>2
    <3>2. place[o[p]] < place[o[q]]
      BY <3>1 DEF key
    <3> QED BY <3>2
  <2>3. \A p \in 1..n : f[p] = place[o[p]]
    OBVIOUS
  <2> HIDE DEF f
  <2>4. \A p \in 1..n : f[p] = p
    BY <1>1, <2>1, <2>2, IncreasingIsIdentity
  <2> QED BY <2>3, <2>4
<1>7. \A p \in 1..n : vectors[p] = texts[p]
  <2> TAKE p \in 1..n
  <2>1. DOMAIN ordered = 1..n
    BY <1>1, <1>4
  <2>2. vectors[p] = answer[o[p]].vector
    BY <1>4, <2>1
  <2>3. o[p] \in 1..n
    BY <1>5
  <2> QED BY <1>6, <2>2, <2>3
<1>8. vectors = texts
  <2>1. DOMAIN vectors = 1..n /\ vectors = [p \in 1..n |-> vectors[p]]
    BY <1>1, <1>4
  <2>2. texts = [p \in 1..n |-> texts[p]]
    BY <1>1
  <2> HIDE DEF vectors
  <2> QED BY <1>7, <2>1, <2>2
<1> QED BY <1>2, <1>8

\* What the API answers is well formed, whatever the labels say.
LEMMA AnswerType ==
  ASSUME NEW texts \in Seq(Text), texts # <<>>, NEW answer \in Answers(texts)
  PROVE  answer \in Seq(Answered)
<1>1. /\ Len(texts) \in Nat \ {0} /\ DOMAIN texts = 1..Len(texts)
      /\ \A i \in 1..Len(texts) : texts[i] \in Text
  OBVIOUS
<1>2. ToSet(texts) \subseteq Text
  BY <1>1 DEF ToSet
<1>3. Indices \cup {NoIndex} \subseteq Int
  BY PipelineAssumption DEF NoIndex
<1>4. AnswerItem(texts) \subseteq Answered
  BY <1>2, <1>3 DEF AnswerItem, Answered
<1>5. PICK n \in {Len(texts) - 1, Len(texts)} : answer \in [1..n -> AnswerItem(texts)]
  BY DEF Answers
<1>6. n \in Nat
  <2>1. n = Len(texts) - 1 \/ n = Len(texts)
    OBVIOUS
  <2>2. ASSUME NEW k \in Nat \ {0} PROVE k - 1 \in Nat
    OBVIOUS
  <2>3. Len(texts) - 1 \in Nat /\ Len(texts) \in Nat
    BY <1>1, <2>2, Zenon
  <2> QED BY <2>1, <2>3, Zenon
<1>7. answer \in [1..n -> Answered]
  BY <1>4, <1>5
<1> QED BY <1>6, <1>7, SeqDef

LEMMA LabelledIsRead ==
  ASSUME NEW texts \in Seq(Text), NEW answer \in Seq(Answered), Len(answer) = Len(texts),
         Labelled(answer, texts)
  PROVE  ParseResponse(answer) = texts
<1> DEFINE n == Len(texts)
           f == [i \in 1..n |-> answer[i].index + 1]
           label == [i \in DOMAIN answer |-> answer[i].index]
<1>1. n \in Nat /\ DOMAIN answer = 1..n
  OBVIOUS
<1>2. \A i \in 1..n : /\ answer[i].index \in 0..(n - 1)
                     /\ answer[i].vector = texts[answer[i].index + 1]
  BY <1>1 DEF Labelled
<1>3. ASSUME NEW i \in 1..n, NEW j \in 1..n, answer[i].index = answer[j].index PROVE i = j
  <2>1. IsInjective(label)
    BY DEF Labelled
  <2>2. DOMAIN label = 1..n /\ label[i] = answer[i].index /\ label[j] = answer[j].index
    BY <1>1
  <2> HIDE DEF label
  <2> QED BY <1>3, <2>1, <2>2 DEF IsInjective
<1> HIDE DEF n
<1>4. f \in [1..n -> 1..n] /\ \A i \in 1..n : f[i] = answer[i].index + 1
  BY <1>1, <1>2
<1> HIDE DEF f
<1>5. \A i \in 1..n : Keys(answer)[i] = answer[i].index
  BY <1>1, <1>2 DEF Keys, NoIndex
<1>6. ASSUME NEW i \in 1..n, NEW j \in 1..n, GoesBefore(Keys(answer), i, j) PROVE f[i] < f[j]
  <2>1. \/ answer[i].index < answer[j].index
        \/ answer[i].index = answer[j].index /\ i < j
    BY <1>5, <1>6 DEF GoesBefore
  <2>2. answer[i].index \in Int /\ answer[j].index \in Int
    BY <1>1, <1>2
  <2>3. answer[i].index < answer[j].index
    BY <1>1, <1>3, <2>1
  <2> QED BY <1>4, <2>2, <2>3
<1>7. \A i \in 1..n : answer[i].vector = texts[f[i]]
  BY <1>2, <1>4
<1> QED BY <1>4, <1>6, <1>7, ResponseInOrder DEF n

LEMMA UnlabelledIsRead ==
  ASSUME NEW texts \in Seq(Text), NEW answer \in Seq(Answered), Len(answer) = Len(texts),
         Unlabelled(answer, texts)
  PROVE  ParseResponse(answer) = texts
<1> DEFINE n == Len(texts)
           f == [i \in 1..n |-> i]
<1>1. n \in Nat /\ DOMAIN answer = 1..n
  OBVIOUS
<1>2. \A i \in 1..n : answer[i].vector = texts[i] /\ answer[i].index = NoIndex
  BY <1>1 DEF Unlabelled
<1> HIDE DEF n
<1>3. f \in [1..n -> 1..n] /\ \A i \in 1..n : f[i] = i
  OBVIOUS
<1>4. \A i \in 1..n : Keys(answer)[i] = 0
  BY <1>1, <1>2 DEF Keys
<1> HIDE DEF f
<1>5. ASSUME NEW i \in 1..n, NEW j \in 1..n, GoesBefore(Keys(answer), i, j) PROVE f[i] < f[j]
  BY <1>3, <1>4, <1>5 DEF GoesBefore
<1>6. \A i \in 1..n : answer[i].vector = texts[f[i]]
  BY <1>2, <1>3
<1> QED BY <1>3, <1>5, <1>6, ResponseInOrder DEF n

LEMMA ResponseIsRead ==
  ASSUME NEW texts \in Seq(Text), texts # <<>>, NEW answer \in Answers(texts),
         Conforms(answer, texts)
  PROVE  ParseResponse(answer) = texts
BY AnswerType, LabelledIsRead, UnlabelledIsRead DEF Conforms

-----------------------------------------------------------------------------
(***************************************************************************)
(* The chunks read back, and the batches of their texts.                   *)
(***************************************************************************)
LEMMA SameElements ==
  ASSUME NEW a, NEW b, NEW D, DOMAIN a = D, DOMAIN b = D,
         \A i \in D : \E j \in D : a[i] = b[j], \A j \in D : \E i \in D : a[i] = b[j]
  PROVE  ToSet(a) = ToSet(b)
<1>1. ToSet(a) = {a[i] : i \in D} /\ ToSet(b) = {b[i] : i \in D}
  BY Zenon DEF ToSet
<1>2. ASSUME NEW x \in ToSet(a) PROVE x \in ToSet(b)
  BY <1>1, <1>2
<1>3. ASSUME NEW x \in ToSet(b) PROVE x \in ToSet(a)
  BY <1>1, <1>3
<1> QED BY <1>2, <1>3

\* The chunks in another order.
ReadBack(cs, place) == [i \in DOMAIN cs |-> cs[place[i]]]

LEMMA ReadBackIs ==
  ASSUME NEW cs \in Seq(ABlock), NEW place \in Bijection(DOMAIN cs, DOMAIN cs)
  PROVE  /\ ReadBack(cs, place) \in Seq(ABlock)
         /\ Len(ReadBack(cs, place)) = Len(cs)
         /\ ToSet(ReadBack(cs, place)) = ToSet(cs)
<1> DEFINE n == Len(cs)
           back == ReadBack(cs, place)
<1>1. n \in Nat /\ DOMAIN cs = 1..n /\ \A i \in 1..n : cs[i] \in ABlock
  OBVIOUS
<1>2. place \in [1..n -> 1..n] /\ \A j \in 1..n : \E i \in 1..n : place[i] = j
  BY <1>1 DEF Bijection, Surjection
<1>3. back = [i \in 1..n |-> cs[place[i]]]
  BY <1>1 DEF ReadBack
<1> HIDE DEF n, back
<1>4. DOMAIN back = 1..n /\ \A i \in 1..n : back[i] = cs[place[i]] /\ place[i] \in 1..n
  BY <1>2, <1>3
<1>5. back \in Seq(ABlock) /\ Len(back) = n
  <2>1. back \in [1..n -> ABlock]
    BY <1>1, <1>2, <1>3
  <2> QED BY <1>1, <2>1, SeqDef
<1>6. \A i \in 1..n : \E j \in 1..n : back[i] = cs[j]
  BY <1>4
<1>7. ASSUME NEW j \in 1..n PROVE \E i \in 1..n : back[i] = cs[j]
  <2>1. PICK i \in 1..n : place[i] = j
    BY <1>2
  <2>2. back[i] = cs[place[i]]
    BY <1>4
  <2> QED BY <2>1, <2>2
<1>8. ToSet(back) = ToSet(cs)
  <2> DEFINE D == 1..n
  <2>1. DOMAIN back = D /\ DOMAIN cs = D
    BY <1>1, <1>4
  <2>2. /\ \A i \in D : \E j \in D : back[i] = cs[j]
        /\ \A j \in D : \E i \in D : back[i] = cs[j]
    BY <1>6, <1>7
  <2> HIDE DEF D
  <2> QED BY <2>1, <2>2, SameElements
<1> QED BY <1>5, <1>8 DEF n, back

LEMMA MinOfTwo ==
  ASSUME NEW a \in Int, NEW b \in Int
  PROVE  Min({a, b}) \in {a, b} /\ Min({a, b}) <= a /\ Min({a, b}) <= b
<1>1. \E x \in {a, b} : \A y \in {a, b} : x <= y
  <2>1. a <= b \/ b <= a
    OBVIOUS
  <2>2. CASE a <= b
    BY <2>2
  <2>3. CASE b <= a
    BY <2>3
  <2> QED BY <2>1, <2>2, <2>3
<1> QED BY <1>1 DEF Min

\* A list up to one place and its part from there to another.
LEMMA PartIs ==
  ASSUME NEW S, NEW s \in Seq(S), NEW m \in Nat, NEW e \in (m + 1)..Len(s)
  PROVE  /\ SubSeq(s, m + 1, e) \in Seq(S) /\ Len(SubSeq(s, m + 1, e)) = e - m
         /\ \A k \in 1..(e - m) : SubSeq(s, m + 1, e)[k] = s[m + k]
<1>1. Len(s) \in Nat /\ e \in Nat
  OBVIOUS
<1>2. m + 1 \in 1..(Len(s) + 1) /\ e \in m..Len(s)
  BY <1>1
<1>3. m + 1 <= e /\ e <= Len(s)
  BY <1>1
<1>4. SubSeq(s, m + 1, e) = [k \in 1..(e - (m + 1) + 1) |-> s[(m + 1) + k - 1]]
  BY <1>1, <1>2, <1>3
<1>5. e - (m + 1) + 1 = e - m /\ \A k \in 1..(e - m) : (m + 1) + k - 1 = m + k
  BY <1>1
<1> DEFINE t == SubSeq(s, m + 1, e)
<1> HIDE DEF t
<1>6. t = [k \in 1..(e - m) |-> s[m + k]]
  BY <1>4, <1>5 DEF t
<1>7. \A k \in 1..(e - m) : m + k \in 1..Len(s)
  BY <1>1, <1>3
<1>8. t \in [1..(e - m) -> S] /\ e - m \in Nat
  BY <1>1, <1>3, <1>6, <1>7
<1>9. t \in Seq(S) /\ Len(t) = e - m
  BY <1>8, SeqDef
<1> QED BY <1>6, <1>9 DEF t

LEMMA NextPart ==
  ASSUME NEW S, NEW s \in Seq(S), NEW m \in Nat, NEW e \in (m + 1)..Len(s)
  PROVE  SubSeq(s, 1, m) \o SubSeq(s, m + 1, e) = SubSeq(s, 1, e)
<1> DEFINE n == Len(s)
           x == SubSeq(s, 1, m)
           t == SubSeq(s, m + 1, e)
           y == SubSeq(s, 1, e)
           z == x \o t
<1>1. n \in Nat /\ e \in Nat /\ m < e /\ e <= n
  OBVIOUS
<1>2. t \in Seq(S) /\ Len(t) = e - m /\ \A k \in 1..(e - m) : t[k] = s[m + k]
  BY PartIs
<1>3. x \in Seq(S) /\ Len(x) = m /\ \A k \in 1..m : x[k] = s[k]
  <2>1. m \in 0..n
    BY <1>1
  <2> QED BY <1>1, <2>1, SubSeqProperties
<1>4. y \in Seq(S) /\ Len(y) = e /\ \A k \in 1..e : y[k] = s[k]
  <2>1. e \in 0..n
    BY <1>1
  <2> QED BY <1>1, <2>1, SubSeqProperties
<1> HIDE DEF x, y, t, n
<1>5. /\ z \in Seq(S) /\ Len(z) = m + (e - m)
      /\ \A k \in 1..m : z[k] = x[k]
      /\ \A k \in 1..(e - m) : z[m + k] = t[k]
  <2>1. z \in Seq(S) /\ Len(z) = m + (e - m)
    BY <1>2, <1>3
  <2>2. \A k \in 1..m : z[k] = x[k]
    BY <1>2, <1>3
  <2>3. \A k \in 1..(e - m) : z[m + k] = t[k]
    BY <1>2, <1>3
  <2> QED BY <2>1, <2>2, <2>3
<1> HIDE DEF z
<1>6. \A k \in 1..e : y[k] = z[k]
  <2> TAKE k \in 1..e
  <2>1. y[k] = s[k]
    BY <1>4
  <2>2. CASE k \in 1..m
    BY <1>3, <1>5, <2>1, <2>2
  <2>3. CASE k \notin 1..m
    <3>1. k - m \in 1..(e - m) /\ m + (k - m) = k
      BY <1>1, <2>3
    <3>2. z[m + (k - m)] = t[k - m] /\ t[k - m] = s[m + (k - m)]
      BY <1>2, <1>5, <3>1
    <3> QED BY <2>1, <3>1, <3>2
  <2> QED BY <2>2, <2>3
<1>7. y = z
  <2>1. Len(z) = e
    BY <1>1, <1>5
  <2> QED BY <1>4, <1>5, <1>6, <2>1, SeqEqual
<1> QED BY <1>7 DEF x, y, z, t

\* The texts of the next batch follow those received.
LEMMA NextBatch ==
  ASSUME NEW texts \in Seq(Text), NEW m \in Nat, m < Len(texts)
  PROVE  \E e \in 0..Len(texts), batch \in Seq(Text) :
           /\ batch = SubSeq(texts, m + 1, Min({m + BatchSize, Len(texts)}))
           /\ batch # <<>>
           /\ SubSeq(texts, 1, m) \o batch = SubSeq(texts, 1, e)
<1> DEFINE n == Len(texts)
           e == Min({m + BatchSize, n})
           batch == SubSeq(texts, m + 1, e)
<1>1. n \in Nat /\ m < n /\ BatchSize \in Nat \ {0}
  BY PipelineAssumption
<1> HIDE DEF n
<1>2. e \in (m + 1)..n
  <2>1. m + BatchSize \in Int /\ n \in Int
    BY <1>1
  <2>2. e \in {m + BatchSize, n} /\ e <= m + BatchSize /\ e <= n
    BY <2>1, MinOfTwo
  <2> HIDE DEF e
  <2> QED BY <1>1, <2>2
<1> HIDE DEF e
<1>3. batch \in Seq(Text) /\ Len(batch) = e - m
  BY <1>2, PartIs DEF n
<1>4. SubSeq(texts, 1, m) \o batch = SubSeq(texts, 1, e)
  BY <1>2, NextPart DEF n
<1> HIDE DEF batch
<1>5. batch # <<>> /\ e \in 0..n
  BY <1>1, <1>2, <1>3
<1> QED BY <1>3, <1>4, <1>5 DEF batch, e, n

-----------------------------------------------------------------------------
(***************************************************************************)
(* The sparse vector of a text.                                            *)
(***************************************************************************)
\* The first words of every length, in order.
FirstWords(words) == Kept([i \in DOMAIN words |-> i], FirstOfToken(words))

IsFirstWords(first, words) ==
  /\ first \in Seq(1..Len(words))
  /\ \A p, q \in 1..Len(first) :
       words[first[p]].length = words[first[q]].length => p = q
  /\ \A w \in 1..Len(words) :
       \E p \in 1..Len(first) : words[first[p]].length = words[w].length

LEMMA FirstWordsIs ==
  ASSUME NEW words \in Text PROVE IsFirstWords(FirstWords(words), words)
<1> DEFINE n == Len(words)
           places == [i \in DOMAIN words |-> i]
           first == FirstWords(words)
           F == FirstOfToken(words)
<1>1. n \in Nat /\ DOMAIN words = 1..n
  BY DEF Text
<1>2. places \in Seq(1..n) /\ Len(places) = n /\ \A i \in 1..n : places[i] = i
  <2>1. places \in [1..n -> 1..n] /\ \A i \in 1..n : places[i] = i
    BY <1>1
  <2> HIDE DEF places, n
  <2> QED BY <1>1, <2>1, SeqDef
<1>3. \A i \in 1..n : i \in F <=> \A j \in 1..(i - 1) : words[j].length # words[i].length
  BY <1>1 DEF FirstOfToken
<1>4. first = Kept(places, F)
  BY DEF FirstWords
<1> HIDE DEF n, places, first, F
<1>5. first \in Seq(1..n) /\ \E pos : KeptFrom(first, places, F, pos)
  BY <1>2, <1>4, KeptIs
<1>6. PICK pos : KeptFrom(first, places, F, pos)
  BY <1>5
<1>7. /\ pos \in [1..Len(first) -> 1..n]
      /\ \A p, q \in 1..Len(first) : p < q => pos[p] < pos[q]
      /\ \A p \in 1..Len(first) : pos[p] \in F /\ first[p] = places[pos[p]]
      /\ \A i \in 1..n : i \in F => \E p \in 1..Len(first) : pos[p] = i
  BY <1>2, <1>6 DEF KeptFrom
<1>8. \A p \in 1..Len(first) : first[p] = pos[p]
  BY <1>2, <1>7
<1>9. ASSUME NEW p \in 1..Len(first), NEW q \in 1..Len(first), p < q
      PROVE  words[first[p]].length # words[first[q]].length
  <2>1. pos[p] \in 1..n /\ pos[q] \in 1..n /\ pos[p] < pos[q] /\ pos[q] \in F
    BY <1>7, <1>9
  <2>2. pos[p] \in 1..(pos[q] - 1)
    BY <1>1, <2>1
  <2>3. words[pos[p]].length # words[pos[q]].length
    BY <1>3, <2>1, <2>2
  <2> QED BY <1>8, <2>3
<1>10. ASSUME NEW p \in 1..Len(first), NEW q \in 1..Len(first),
              words[first[p]].length = words[first[q]].length
       PROVE  p = q
  <2>1. ~(p < q) /\ ~(q < p)
    BY <1>9, <1>10
  <2> QED BY <2>1
<1>11. ASSUME NEW w \in 1..n
       PROVE  \E p \in 1..Len(first) : words[first[p]].length = words[w].length
  <2> DEFINE T == {j \in 1..n : words[j].length = words[w].length}
  <2>1. T \in SUBSET Nat /\ T # {}
    <3>1. w \in T
      OBVIOUS
    <3>2. \A j \in T : j \in Nat
      BY <1>1
    <3> HIDE DEF T
    <3> QED BY <3>1, <3>2
  <2>2. PICK m \in T : \A j \in T : m <= j
    BY <2>1, LeastNatural, Zenon
  <2>3. m \in 1..n /\ words[m].length = words[w].length
    OBVIOUS
  <2>4. \A j \in 1..(m - 1) : words[j].length # words[m].length
    <3> TAKE j \in 1..(m - 1)
    <3>1. j \in 1..n /\ ~(m <= j)
      BY <1>1, <2>3
    <3> QED BY <2>2, <2>3, <3>1
  <2>5. m \in F
    BY <1>3, <2>3, <2>4
  <2>6. PICK p \in 1..Len(first) : pos[p] = m
    BY <1>7, <2>3, <2>5
  <2> QED BY <1>8, <2>3, <2>6
<1>12. IsFirstWords(first, words)
  BY <1>5, <1>10, <1>11 DEF IsFirstWords, n
<1> QED BY <1>12 DEF first

\* An entry of the vector has the id of one length, and how often it occurs.
Entry(words, w) ==
  [id |-> Bucket[words[w].length], count |-> Occurrences(words, words[w].length)]

AnEntry == [id : Nat, count : Nat]

LEMMA EntryType ==
  ASSUME NEW words \in Text, Hashed(words), NEW w \in 1..Len(words)
  PROVE  /\ Entry(words, w) \in AnEntry
         /\ Entry(words, w).id = Bucket[words[w].length]
         /\ Entry(words, w).count =
              Cardinality({v \in 1..Len(words) : words[v].length = words[w].length})
<1>1. DOMAIN words = 1..Len(words) /\ Len(words) \in Nat
  BY DEF Text
<1>2. Bucket[words[w].length] \in Nat
  BY <1>1 DEF Hashed, ToSet
<1>3. Occurrences(words, words[w].length) =
        Cardinality({v \in 1..Len(words) : words[v].length = words[w].length})
  BY <1>1 DEF Occurrences
<1>4. Occurrences(words, words[w].length) \in Nat
  <2> DEFINE T == {v \in 1..Len(words) : words[v].length = words[w].length}
  <2>1. IsFiniteSet(1..Len(words)) /\ T \subseteq 1..Len(words)
    BY <1>1, Places
  <2> HIDE DEF T
  <2>2. Cardinality(T) \in Nat
    BY <2>1, FS_Subset, FS_CardinalityType
  <2> QED BY <1>3, <2>2 DEF T
<1> QED BY <1>2, <1>3, <1>4 DEF Entry, AnEntry

\* The entries are those of the first words, in the order of their ids.
LEMMA SparseVectorIs ==
  ASSUME NEW words \in Text, Hashed(words)
  PROVE  /\ SparseVector(words) \in Seq(AnEntry)
         /\ \A i, j \in 1..Len(SparseVector(words)) :
              i < j => SparseVector(words)[i].id <= SparseVector(words)[j].id
         /\ \E at \in [1..Len(SparseVector(words)) -> 1..Len(words)] :
              /\ \A i \in 1..Len(SparseVector(words)) : SparseVector(words)[i] = Entry(words, at[i])
              /\ \A i, j \in 1..Len(SparseVector(words)) :
                   words[at[i]].length = words[at[j]].length => i = j
              /\ \A w \in 1..Len(words) :
                   \E i \in 1..Len(SparseVector(words)) : words[at[i]].length = words[w].length
<1> DEFINE n == Len(words)
           first == FirstWords(words)
           m == Len(first)
           counts == [i \in DOMAIN first |-> Entry(words, first[i])]
           ids == [i \in DOMAIN counts |-> counts[i].id]
           o == Order(ids)
           sparse == SparseVector(words)
<1>1. n \in Nat /\ DOMAIN words = 1..n
  BY DEF Text
<1>2. IsFirstWords(first, words)
  BY FirstWordsIs
<1>3. sparse = SortedBy(counts, ids)
  BY DEF SparseVector, FirstWords, Entry
<1> HIDE DEF first, sparse
<1>4. m \in Nat /\ DOMAIN first = 1..m /\ \A i \in 1..m : first[i] \in 1..n
  BY <1>2 DEF IsFirstWords
<1>5. /\ counts \in Seq(AnEntry) /\ Len(counts) = m
      /\ \A i \in 1..m : counts[i] = Entry(words, first[i])
  <2>1. \A i \in 1..m : Entry(words, first[i]) \in AnEntry
    BY <1>4, EntryType
  <2>2. counts \in [1..m -> AnEntry] /\ \A i \in 1..m : counts[i] = Entry(words, first[i])
    BY <1>4, <2>1
  <2> HIDE DEF counts, m
  <2> QED BY <1>4, <2>2, SeqDef
<1> HIDE DEF counts, m
<1>6. ids \in Seq(Int) /\ Len(ids) = m /\ \A i \in 1..m : ids[i] = counts[i].id
  <2>1. \A i \in 1..m : counts[i] \in AnEntry
    BY <1>5
  <2>2. \A i \in 1..m : counts[i].id \in Int
    BY <2>1 DEF AnEntry
  <2>3. ids \in [1..m -> Int] /\ \A i \in 1..m : ids[i] = counts[i].id
    BY <1>4, <1>5, <2>2
  <2> HIDE DEF ids
  <2> QED BY <1>4, <2>3, SeqDef
<1> HIDE DEF ids
<1>7. sparse \in Seq(AnEntry) /\ Len(sparse) = m /\ IsSorting(o, ids)
      /\ \A p \in 1..m : sparse[p] = counts[o[p]]
  <2>1. Len(ids) = Len(counts)
    BY <1>5, <1>6
  <2>2. SortedBy(counts, ids) \in Seq(AnEntry)
    BY <1>5, <1>6, <2>1, SortedIs
  <2>3. Len(SortedBy(counts, ids)) = m
    BY <1>5, <1>6, <2>1, SortedIs
  <2>4. DOMAIN counts = 1..m
    BY <1>4, <1>5
  <2>5. \A p \in 1..m : SortedBy(counts, ids)[p] = counts[o[p]]
    BY <2>4 DEF SortedBy
  <2>6. IsSorting(o, ids)
    BY <1>6, OrderByRank
  <2> QED BY <1>3, <2>2, <2>3, <2>5, <2>6
<1>8. /\ o \in [1..m -> 1..m]
      /\ \A p, q \in 1..m : o[p] = o[q] => p = q
      /\ \A i \in 1..m : \E p \in 1..m : o[p] = i
      /\ \A p, q \in 1..m : p < q => GoesBefore(ids, o[p], o[q])
  BY <1>6, <1>7 DEF IsSorting
<1>9. ASSUME NEW p \in 1..m, NEW q \in 1..m, p < q PROVE sparse[p].id <= sparse[q].id
  <2>1. /\ o[p] \in 1..m /\ o[q] \in 1..m
        /\ GoesBefore(ids, o[p], o[q])
    BY <1>8, <1>9
  <2>2. /\ sparse[p].id = ids[o[p]] /\ sparse[q].id = ids[o[q]]
        /\ ids[o[p]] \in Int /\ ids[o[q]] \in Int
    BY <1>6, <1>7, <2>1
  <2> QED BY <2>1, <2>2 DEF GoesBefore
<1> DEFINE at == [p \in 1..m |-> first[o[p]]]
<1> HIDE DEF o
<1>10. at \in [1..m -> 1..n] /\ \A p \in 1..m : at[p] = first[o[p]] /\ o[p] \in 1..m
  BY <1>4, <1>8
<1> HIDE DEF at
<1>11. \A p \in 1..m : sparse[p] = Entry(words, at[p])
  BY <1>5, <1>7, <1>10
<1>12. ASSUME NEW p \in 1..m, NEW q \in 1..m, words[at[p]].length = words[at[q]].length PROVE p = q
  <2>1. words[first[o[p]]].length = words[first[o[q]]].length /\ o[p] \in 1..m /\ o[q] \in 1..m
    BY <1>10, <1>12
  <2>2. o[p] = o[q]
    BY <1>2, <2>1 DEF IsFirstWords, m
  <2> QED BY <1>8, <2>2
<1>13. ASSUME NEW w \in 1..n PROVE \E p \in 1..m : words[at[p]].length = words[w].length
  <2>1. PICK i \in 1..m : words[first[i]].length = words[w].length
    BY <1>2 DEF IsFirstWords, m, n
  <2>2. PICK p \in 1..m : o[p] = i
    BY <1>8
  <2> QED BY <1>10, <2>1, <2>2
<1>14. \A p, q \in 1..m : words[at[p]].length = words[at[q]].length => p = q
  BY <1>12
<1>15. \A p, q \in 1..m : p < q => sparse[p].id <= sparse[q].id
  BY <1>9
<1> QED BY <1>7, <1>10, <1>11, <1>13, <1>14, <1>15, ZenonT(30) DEF n, sparse

\* Without a collision every id has one entry, which weighs it.
LEMMA SparseVectorWeighs ==
  ASSUME NEW words \in Text, Hashed(words), HasNoCollision(words)
  PROVE  Weighs(SparseVector(words), words)
<1> DEFINE n == Len(words)
           sparse == SparseVector(words)
           m == Len(sparse)
           Like(w) == {v \in 1..n : words[v].length = words[w].length}
           Hits(id) == {v \in 1..n : Bucket[words[v].length] = id}
<1>1. n \in Nat /\ DOMAIN words = 1..n
  BY DEF Text
<1>2. /\ sparse \in Seq(AnEntry)
      /\ \A i, j \in 1..m : i < j => sparse[i].id <= sparse[j].id
  BY SparseVectorIs
<1>3. PICK at \in [1..m -> 1..n] :
        /\ \A i \in 1..m : sparse[i] = Entry(words, at[i])
        /\ \A i, j \in 1..m : words[at[i]].length = words[at[j]].length => i = j
        /\ \A w \in 1..n : \E i \in 1..m : words[at[i]].length = words[w].length
  BY SparseVectorIs
<1>4. m \in Nat /\ DOMAIN sparse = 1..m
  BY <1>2
<1>5. \A v, w \in 1..n : Bucket[words[v].length] = Bucket[words[w].length] <=>
                           words[v].length = words[w].length
  BY <1>1 DEF HasNoCollision
<1>6. \A w \in 1..n : Like(w) = Hits(Bucket[words[w].length])
  BY <1>5
<1>7. \A w \in 1..n :
        Entry(words, w) = [id |-> Bucket[words[w].length],
                           count |-> Cardinality(Hits(Bucket[words[w].length]))]
  <2> TAKE w \in 1..n
  <2>1. Occurrences(words, words[w].length) = Cardinality(Like(w))
    BY <1>1 DEF Occurrences
  <2> QED BY <1>6, <2>1 DEF Entry
<1>8. \A w \in 1..n : Entry(words, w).id = Bucket[words[w].length]
  BY EntryType
<1>9. Weights(words) = {[id |-> id, count |-> Cardinality(Hits(id))] :
                          id \in {Bucket[words[w].length] : w \in 1..n}}
  BY <1>1 DEF Weights
<1> HIDE DEF n, sparse, m, Hits
<1>10. \A i \in 1..m : /\ at[i] \in 1..n
                      /\ sparse[i] = [id |-> Bucket[words[at[i]].length],
                                      count |-> Cardinality(Hits(Bucket[words[at[i]].length]))]
  BY <1>3, <1>7
<1>11. ToSet(sparse) = {sparse[i] : i \in 1..m}
  BY <1>4, Zenon DEF ToSet
<1>12. ASSUME NEW x \in ToSet(sparse) PROVE x \in Weights(words)
  <2>1. PICK i \in 1..m : x = sparse[i]
    BY <1>11
  <2> QED BY <1>9, <1>10, <2>1
<1>13. ASSUME NEW x \in Weights(words) PROVE x \in ToSet(sparse)
  <2>1. PICK w \in 1..n : x = [id |-> Bucket[words[w].length],
                               count |-> Cardinality(Hits(Bucket[words[w].length]))]
    BY <1>9
  <2>2. PICK i \in 1..m : words[at[i]].length = words[w].length
    BY <1>3
  <2>3. sparse[i] = x
    BY <1>10, <2>1, <2>2
  <2> QED BY <1>11, <2>3
<1>14. ASSUME NEW i \in 1..m, NEW j \in 1..m, i < j PROVE sparse[i].id < sparse[j].id
  <2>1. sparse[i].id \in Nat /\ sparse[j].id \in Nat /\ sparse[i].id <= sparse[j].id
    <3>1. sparse[i] \in AnEntry /\ sparse[j] \in AnEntry
      BY <1>2, <1>4
    <3> QED BY <1>2, <1>14, <3>1 DEF AnEntry
  <2>2. sparse[i].id # sparse[j].id
    <3>1. sparse[i].id = Bucket[words[at[i]].length] /\ sparse[j].id = Bucket[words[at[j]].length]
      <4>1. sparse[i] = Entry(words, at[i]) /\ sparse[j] = Entry(words, at[j])
        BY <1>3
      <4> QED BY <1>10, <1>8, <4>1
    <3>2. words[at[i]].length # words[at[j]].length
      <4>1. i # j
        BY <1>4, <1>14
      <4> QED BY <1>3, <4>1
    <3> QED BY <1>5, <1>10, <3>1, <3>2
  <2> QED BY <2>1, <2>2
<1>15. ToSet(sparse) = Weights(words)
  BY <1>12, <1>13
<1>16. \A i, j \in DOMAIN sparse : i < j => sparse[i].id < sparse[j].id
  BY <1>4, <1>14
<1> QED BY <1>15, <1>16 DEF Weighs, sparse

-----------------------------------------------------------------------------
(***************************************************************************)
(* What is true of a pass at every stage.                                  *)
(***************************************************************************)
SameChunks(back, cs) == back \in Seq(ABlock) /\ Len(back) = Len(cs) /\ ToSet(back) = ToSet(cs)

EmbeddedSoFar(vectors, cs) == \E e \in 0..Len(cs) : vectors = SubSeq(WordsOf(cs), 1, e)

PointsOf(cs, vectors) ==
  [i \in DOMAIN cs |->
     [chunk |-> cs[i], dense |-> vectors[i], sparse |-> SparseVector(cs[i].words)]]

PipelineInv ==
  /\ stage \in {"idle", "list", "embed", "indexed", "failed"}
  /\ stage \in {"idle", "list"} => dense = <<>>
  /\ stage \in {"list", "embed", "indexed"} => ChunksOf(chunks, Readable(document))
  /\ stage \in {"embed", "indexed"} =>
       /\ SameChunks(listed, chunks)
       /\ conforming => EmbeddedSoFar(dense, listed)
  /\ stage = "indexed" => points = PointsOf(listed, dense) /\ Len(dense) = Len(listed)

LEMMA CoverageFromInv == PipelineInv => ChunksCoverDocument
<1> SUFFICES ASSUME ChunksOf(chunks, Readable(document)) PROVE CoversInOrder /\ FitsAndIsFilled
  BY DEF PipelineInv, ChunksCoverDocument
<1>1. Covers(chunks, Readable(document)) /\ AllFit(chunks)
  BY DEF ChunksOf
<1>2. CoversInOrder
  BY <1>1, Zenon DEF Covers, CoversInOrder, WordsOf
<1>3. FitsAndIsFilled
  BY <1>1, Zenon DEF AllFit, FitsAndIsFilled, Filled
<1> QED BY <1>2, <1>3

\* As many vectors as texts: those of the texts, if they are so as far as they go.
LEMMA AllEmbedded ==
  ASSUME NEW cs \in Seq(ABlock), NEW vectors, Len(vectors) = Len(cs), EmbeddedSoFar(vectors, cs)
  PROVE  \A i \in DOMAIN cs : vectors[i] = cs[i].words
<1> DEFINE texts == WordsOf(cs)
<1>1. /\ texts \in Seq(Text) /\ Len(texts) = Len(cs) /\ DOMAIN cs = 1..Len(cs)
      /\ Len(cs) \in Nat /\ \A i \in 1..Len(cs) : texts[i] = cs[i].words
  BY WordsOfType
<1> HIDE DEF texts
<1>2. PICK m \in 0..Len(cs) : vectors = SubSeq(texts, 1, m)
  BY DEF EmbeddedSoFar, texts
<1>3. Len(vectors) = m
  BY <1>1, <1>2, SubSeqProperties
<1>4. SubSeq(texts, 1, Len(texts)) = texts
  BY <1>1, SubSeqFull
<1>5. vectors = texts
  BY <1>1, <1>2, <1>3, <1>4
<1> QED BY <1>1, <1>5

LEMMA PointsFromInv == PipelineInv => PointsCarryTheirText
<1> SUFFICES ASSUME ChunksOf(chunks, Readable(document)), SameChunks(listed, chunks),
                    conforming => EmbeddedSoFar(dense, listed), Len(dense) = Len(listed),
                    points = PointsOf(listed, dense), stage = "indexed"
             PROVE  PointsCarryTheirText
  BY DEF PipelineInv, PointsCarryTheirText
<1> DEFINE n == Len(listed)
<1>1. /\ listed \in Seq(ABlock) /\ n = Len(chunks) /\ ToSet(listed) = ToSet(chunks)
      /\ n \in Nat /\ DOMAIN listed = 1..n
  BY DEF SameChunks
<1>2. chunks \in Seq(ABlock) /\ \A c \in 1..Len(chunks) : Hashed(chunks[c].words)
  BY DEF ChunksOf
<1>3. \A i \in 1..n : listed[i].words \in Text /\ Hashed(listed[i].words)
  <2> TAKE i \in 1..n
  <2>1. listed[i] \in ABlock
    BY <1>1
  <2>2. listed[i] \in ToSet(chunks)
    <3>1. listed[i] \in ToSet(listed)
      BY <1>1 DEF ToSet
    <3> QED BY <1>1, <3>1
  <2>3. PICK c \in 1..Len(chunks) : listed[i] = chunks[c]
    BY <1>2, <2>2 DEF ToSet
  <2>4. Hashed(listed[i].words)
    BY <1>2, <2>3
  <2> QED BY <2>1, <2>4 DEF ABlock
<1>4. points = PointsOf(listed, dense)
  OBVIOUS
<1>5. conforming => \A i \in 1..n : dense[i] = listed[i].words
  BY <1>1, AllEmbedded
<1> HIDE DEF n
<1>6. DOMAIN points = 1..n
  BY <1>1, <1>4 DEF PointsOf
<1>7. \A i \in 1..n : /\ points[i].chunk = listed[i] /\ points[i].dense = dense[i]
                     /\ points[i].sparse = SparseVector(listed[i].words)
  <2> TAKE i \in 1..n
  <2>1. points[i] = [chunk |-> listed[i], dense |-> dense[i],
                     sparse |-> SparseVector(listed[i].words)]
    BY <1>1, <1>4 DEF PointsOf
  <2> QED BY <2>1
<1>8. Len(points) = Len(chunks)
  <2>1. points = [i \in 1..n |-> points[i]]
    BY <1>1, <1>4 DEF PointsOf
  <2>2. points \in [1..n -> {points[i] : i \in 1..n}]
    BY <2>1, Zenon
  <2>3. Len(points) = n
    BY <1>1, <2>2, SeqDef
  <2> QED BY <1>1, <2>3
<1>9. {points[i].chunk : i \in DOMAIN points} = ToSet(chunks)
  <2>1. ToSet(listed) = {listed[i] : i \in 1..n}
    BY <1>1, Zenon DEF ToSet
  <2>2. \A i \in 1..n : points[i].chunk = listed[i]
    BY <1>7
  <2>3. {points[i].chunk : i \in DOMAIN points} = {listed[i] : i \in 1..n}
    BY <1>6, <2>2
  <2> QED BY <1>1, <2>1, <2>3
<1>10. ASSUME NEW i \in DOMAIN points
       PROVE  LET words == points[i].chunk.words IN
              /\ conforming => points[i].dense = words
              /\ HasNoCollision(words) => Weighs(points[i].sparse, words)
  <2> DEFINE words == listed[i].words
  <2>1. /\ points[i].chunk.words = words /\ points[i].dense = dense[i]
        /\ points[i].sparse = SparseVector(words) /\ words \in Text /\ Hashed(words)
    BY <1>3, <1>6, <1>7
  <2>2. conforming => dense[i] = words
    BY <1>5, <1>6
  <2> HIDE DEF words
  <2>3. HasNoCollision(words) => Weighs(SparseVector(words), words)
    BY <2>1, SparseVectorWeighs
  <2> QED BY <2>1, <2>2, <2>3, Zenon
<1> QED BY <1>8, <1>9, <1>10, Zenon DEF PointsCarryTheirText

LEMMA PipelineStart == PipelineInit => PipelineInv
BY DEF PipelineInit, PipelineInv

LEMMA ParseStep ==
  ASSUME PipelineInv, NEW d \in Documents, ParseAndChunk(d) PROVE PipelineInv'
<1>1. stage = "idle" /\ dense = <<>> /\ dense' = dense /\ document' = d
  BY DEF PipelineInv, ParseAndChunk
<1>2. CASE Parsable(d)
  <2>1. stage' = "list" /\ chunks' = ChunkBlocks(BlocksOf(d))
    BY <1>2 DEF ParseAndChunk
  <2>2. ChunksOf(chunks', Readable(document'))
    BY <1>1, <1>2, <2>1, DocumentIsCovered
  <2> QED BY <1>1, <2>1, <2>2 DEF PipelineInv
<1>3. CASE ~Parsable(d)
  <2>1. stage' = "failed"
    BY <1>3 DEF ParseAndChunk
  <2> QED BY <2>1 DEF PipelineInv
<1> QED BY <1>2, <1>3

LEMMA ListStep == ASSUME PipelineInv, ListChunks PROVE PipelineInv'
<1>1. /\ stage' = "embed" /\ dense = <<>> /\ dense' = dense
      /\ chunks' = chunks /\ document' = document
      /\ ChunksOf(chunks, Readable(document)) /\ chunks \in Seq(ABlock)
  BY DEF PipelineInv, ListChunks, ChunksOf
<1>2. PICK place \in Bijection(DOMAIN chunks, DOMAIN chunks) :
        listed' = ReadBack(chunks, place)
  BY DEF ListChunks, ReadBack
<1>3. /\ ReadBack(chunks, place) \in Seq(ABlock)
      /\ Len(ReadBack(chunks, place)) = Len(chunks)
      /\ ToSet(ReadBack(chunks, place)) = ToSet(chunks)
  BY <1>1, <1>2, ReadBackIs
<1>4. SameChunks(listed', chunks')
  BY <1>1, <1>2, <1>3, Zenon DEF SameChunks
<1>5. EmbeddedSoFar(dense', listed')
  <2>1. listed' \in Seq(ABlock)
    BY <1>4 DEF SameChunks
  <2>2. WordsOf(listed') \in Seq(Text) /\ 0 \in 0..Len(listed')
    BY <2>1, WordsOfType
  <2>3. SubSeq(WordsOf(listed'), 1, 0) = <<>>
    BY <2>2
  <2> QED BY <1>1, <2>2, <2>3, Zenon DEF EmbeddedSoFar
<1> QED BY <1>1, <1>4, <1>5 DEF PipelineInv

\* An answer that is as the API promises brings the vectors of the next texts.
LEMMA EmbedsNext ==
  ASSUME SameChunks(listed, chunks), EmbeddedSoFar(dense, listed), Len(dense) < Len(listed),
         NEW answer \in Answers(Batch), Conforms(answer, Batch)
  PROVE  EmbeddedSoFar(dense \o ParseResponse(answer), listed)
<1> DEFINE texts == WordsOf(listed)
<1>1. texts \in Seq(Text) /\ Len(texts) = Len(listed) /\ Len(listed) \in Nat
  BY WordsOfType DEF SameChunks
<1>2. Texts = texts
  BY DEF Texts, WordsOf
<1> HIDE DEF texts
<1>3. PICK m \in 0..Len(listed) : dense = SubSeq(texts, 1, m)
  BY DEF EmbeddedSoFar, texts
<1>4. Len(dense) = m
  BY <1>1, <1>3, SubSeqProperties
<1>5. m \in Nat /\ m < Len(texts)
  BY <1>1, <1>4
<1>6. PICK e \in 0..Len(texts), batch \in Seq(Text) :
        /\ batch = SubSeq(texts, m + 1, Min({m + BatchSize, Len(texts)}))
        /\ batch # <<>>
        /\ SubSeq(texts, 1, m) \o batch = SubSeq(texts, 1, e)
  BY <1>1, <1>5, NextBatch
<1>7. Batch = batch
  BY <1>1, <1>2, <1>4, <1>6, Zenon DEF Batch
<1>8. ParseResponse(answer) = batch
  BY <1>6, <1>7, ResponseIsRead
<1>9. dense \o ParseResponse(answer) = SubSeq(texts, 1, e)
  BY <1>3, <1>6, <1>8
<1> QED BY <1>1, <1>6, <1>9, Zenon DEF EmbeddedSoFar, texts

LEMMA EmbedStep == ASSUME PipelineInv, EmbedBatch PROVE PipelineInv'
<1>1. /\ stage = "embed" /\ Len(dense) < Len(listed)
      /\ chunks' = chunks /\ document' = document /\ listed' = listed
  BY DEF EmbedBatch
<1>2. /\ ChunksOf(chunks, Readable(document)) /\ SameChunks(listed, chunks)
      /\ conforming => EmbeddedSoFar(dense, listed)
  BY <1>1 DEF PipelineInv
<1>3. PICK answer \in Answers(Batch) :
         IF Acceptable(answer, Len(Batch))
         THEN /\ dense' = dense \o ParseResponse(answer)
              /\ conforming' = (conforming /\ Conforms(answer, Batch))
              /\ stage' = stage
         ELSE stage' = "failed" /\ dense' = <<>>
  BY Zenon DEF EmbedBatch
<1>4. CASE Acceptable(answer, Len(Batch))
  <2>1. /\ dense' = dense \o ParseResponse(answer) /\ stage' = "embed"
        /\ conforming' = (conforming /\ Conforms(answer, Batch))
    BY <1>1, <1>3, <1>4
  <2>2. conforming' => EmbeddedSoFar(dense', listed')
    <3>1. ASSUME conforming, Conforms(answer, Batch)
          PROVE  EmbeddedSoFar(dense \o ParseResponse(answer), listed)
      BY <1>1, <1>2, <3>1, EmbedsNext
    <3> QED BY <1>1, <2>1, <3>1, Zenon
  <2> QED BY <1>1, <1>2, <2>1, <2>2 DEF PipelineInv
<1>5. CASE ~Acceptable(answer, Len(Batch))
  BY <1>3, <1>5 DEF PipelineInv
<1> QED BY <1>4, <1>5

LEMMA BuildStep == ASSUME PipelineInv, BuildPoints PROVE PipelineInv'
<1>1. /\ stage = "embed" /\ stage' = "indexed" /\ Len(dense) = Len(listed)
      /\ chunks' = chunks /\ document' = document /\ listed' = listed /\ dense' = dense
      /\ conforming' = conforming
      /\ points' = PointsOf(listed, dense)
  BY DEF BuildPoints, PointsOf
<1>2. /\ ChunksOf(chunks, Readable(document)) /\ SameChunks(listed, chunks)
      /\ conforming => EmbeddedSoFar(dense, listed)
  BY <1>1 DEF PipelineInv
<1> QED BY <1>1, <1>2 DEF PipelineInv

LEMMA PipelineStep ==
  ASSUME PipelineInv, PipelineNext \/ UNCHANGED pipelineVars PROVE PipelineInv'
<1>1. CASE \E d \in Documents : ParseAndChunk(d)
  BY <1>1, ParseStep
<1>2. CASE ListChunks
  BY <1>2, ListStep
<1>3. CASE EmbedBatch
  BY <1>3, EmbedStep
<1>4. CASE EmbedFails
  BY <1>4 DEF EmbedFails, PipelineInv
<1>5. CASE BuildPoints
  BY <1>5, BuildStep
<1>6. CASE UNCHANGED pipelineVars
  BY <1>6 DEF pipelineVars, PipelineInv
<1> QED BY <1>1, <1>2, <1>3, <1>4, <1>5, <1>6 DEF PipelineNext
=============================================================================
