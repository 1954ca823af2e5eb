-------------------------- MODULE ReplayWindowProofs --------------------------
(***************************************************************************)
(* Proofs about ReplayWindow for every word size, window size and range of *)
(* sequence numbers: the bitmap records the window exactly, so it accepts  *)
(* no number twice and gives the verdicts of the set model of ReplaySpec.  *)
(***************************************************************************)
EXTENDS ReplayWindow, TLAPS

\* Euclidean division, as TLA+ defines it on the naturals.
LEMMA DivMod ==
    ASSUME NEW d \in Nat \ {0}, NEW a \in Nat
    PROVE  /\ a \div d \in Nat
           /\ a % d \in 0 .. (d - 1)
           /\ a = d * (a \div d) + (a % d)
  OBVIOUS

\* A number is its block and its bit: the pair /WORD_BITS, %WORD_BITS of
\* replay.rs loses nothing.
LEMMA BlockAndBit ==
    ASSUME NEW s \in Nat
    PROVE  /\ Word(s) \in Nat
           /\ mask(s) \in Bit
           /\ s = WordBits * Word(s) + mask(s)
  BY SizesAssumption DEF Word, mask, Bit

\* A later number is in the same block or in a later one.
LEMMA WordMonotone ==
    ASSUME NEW s \in Nat, NEW t \in Nat, s <= t
    PROVE  Word(s) <= Word(t)
  BY SizesAssumption DEF Word

\* A number that is not too old lies in one of the WordCount last blocks.
LEMMA WindowSpan ==
    ASSUME NEW s \in Nat, NEW h \in Nat, s <= h, h - s < WindowSize
    PROVE  h \div WordBits - s \div WordBits <= WindowWords
  <1> DEFINE a == s \div WordBits
             b == h \div WordBits
  <1>1. /\ a \in Nat /\ b \in Nat
        /\ s < WordBits * a + WordBits
        /\ WordBits * b <= h
    BY SizesAssumption
  <1>2. WordBits * b - WordBits * a < WordBits * WindowWords + WordBits
    BY <1>1, SizesAssumption DEF WindowSize
  <1> HIDE DEF a, b
  <1>3. CASE b - a > WindowWords
    <2>1. WordBits * (b - a) >= WordBits * (WindowWords + 1)
      BY <1>1, <1>3, SizesAssumption
    <2> QED
      BY <1>1, <1>2, <2>1, SizesAssumption
  <1> QED
    BY <1>1, <1>3, SizesAssumption DEF a, b

\* Blocks less than WordCount apart use different words of the bitmap: this is
\* what the extra word of WORD_COUNT is for.
LEMMA SlotsApart ==
    ASSUME NEW v \in Nat, NEW w \in Nat, v < w, w - v <= WindowWords
    PROVE  index(v) # index(w)
  <1> DEFINE q == v \div WordCount
             r == v % WordCount
             q2 == w \div WordCount
             r2 == w % WordCount
  <1>0. WordCount \in Nat \ {0} /\ WordCount = WindowWords + 1
    BY SizesAssumption DEF WordCount
  <1>1. /\ q \in Nat /\ r \in Nat /\ q2 \in Nat /\ r2 \in Nat
        /\ v = WordCount * q + r
        /\ w = WordCount * q2 + r2
    <2> HIDE DEF WordCount
    <2>1. /\ q \in Nat /\ r \in 0 .. (WordCount - 1)
          /\ v = WordCount * q + r
      BY <1>0, DivMod, Zenon
    <2>2. /\ q2 \in Nat /\ r2 \in 0 .. (WordCount - 1)
          /\ w = WordCount * q2 + r2
      BY <1>0, DivMod, Zenon
    <2> HIDE DEF q, r, q2, r2
    <2> QED
      BY <1>0, <2>1, <2>2
  <1> HIDE DEF q, r, q2, r2
  <1>2. ASSUME r = r2 PROVE FALSE
    <2>1. w - v = WordCount * (q2 - q)
      BY <1>0, <1>1, <1>2
    <2>2. q2 > q
      BY <1>0, <1>1, <1>2
    <2>3. WordCount * (q2 - q) >= WordCount
      BY <1>0, <1>1, <2>2
    <2> QED
      BY <1>0, <2>1, <2>3, <1>1, SizesAssumption
  <1> QED
    BY <1>2 DEF index, r, r2

LEMMA IndexInSlot ==
    ASSUME NEW w \in Nat
    PROVE  index(w) \in Slot
  BY SizesAssumption DEF index, Slot, WordCount

-------------------------------------------------------------------------------

\* What BitmapExact says when a number has been accepted.
LEMMA RecordedExactly ==
    ASSUME TypeOK, BitmapExact, highest # None
    PROVE  /\ highest \in Nat
           /\ highest \in accepted
           /\ \A s \in accepted : s \in Nat /\ s <= highest
           /\ \A w \in Nat : w <= Word(highest) /\ Word(highest) - w <= WindowWords
                  => seen[index(w)] = BitsOf(w)
  <1>1. highest \in Nat /\ \A s \in accepted : s \in Nat
    BY SizesAssumption DEF TypeOK, Sequence
  <1>2. Word(highest) \in Nat
    BY <1>1, BlockAndBit
  <1> QED
    BY <1>1, <1>2, SizesAssumption DEF BitmapExact

\* A bit of a block is set exactly when that number was accepted.
LEMMA BitIsNumber ==
    ASSUME NEW s \in Nat, \A t \in accepted : t \in Nat
    PROVE  mask(s) \in BitsOf(Word(s)) <=> s \in accepted
  <1>1. ASSUME NEW t \in accepted, Word(t) = Word(s), mask(t) = mask(s)
        PROVE  t = s
    BY <1>1, BlockAndBit
  <1> QED
    BY <1>1 DEF BitsOf

\* The bitmap and the set model judge every number alike.
LEMMA SameVerdict ==
    ASSUME TypeOK, BitmapExact, NEW s \in Sequence
    PROVE  ensure_acceptable(s) = Abstract!Judge(s)
  <1>1. s \in Nat
    BY SizesAssumption DEF Sequence
  <1>2. CASE highest = None \/ s > highest
    BY <1>2 DEF ensure_acceptable, Abstract!Judge, None, Abstract!None
  <1>3. CASE highest # None /\ s <= highest /\ highest - s >= WindowSize
    BY <1>3 DEF ensure_acceptable, Abstract!Judge, None, Abstract!None
  <1>4. CASE highest # None /\ s <= highest /\ highest - s < WindowSize
    <2>1. highest \in Nat
      BY <1>4, RecordedExactly
    <2>2. /\ Word(s) \in Nat
          /\ Word(s) <= Word(highest)
          /\ Word(highest) - Word(s) <= WindowWords
      BY <1>1, <1>4, <2>1, BlockAndBit, WordMonotone, WindowSpan DEF Word
    <2>3. seen[index(Word(s))] = BitsOf(Word(s))
      BY <1>4, <2>2, RecordedExactly
    <2>4. mask(s) \in seen[index(Word(s))] <=> s \in accepted
      BY <1>1, <1>4, <2>3, BitIsNumber, RecordedExactly
    <2> QED
      BY <1>4, <2>4 DEF ensure_acceptable, Abstract!Judge, None, Abstract!None
  <1>5. WindowSize \in Nat /\ (highest # None => highest \in Nat)
    BY SizesAssumption DEF WindowSize, TypeOK, Sequence
  <1> QED
    BY <1>1, <1>2, <1>3, <1>4, <1>5

LEMMA TypePreserved ==
    ASSUME TypeOK, [Next]_vars
    PROVE  TypeOK'
  <1>1. ASSUME NEW s \in Sequence, DecryptRefused(s)
        PROVE  TypeOK'
    BY <1>1 DEF TypeOK, DecryptRefused, ensure_acceptable
  <1>2. ASSUME NEW s \in Sequence, DecryptUnauthentic(s)
        PROVE  TypeOK'
    BY <1>2 DEF TypeOK, DecryptUnauthentic
  <1>3. ASSUME NEW s \in Sequence, DecryptAccepted(s)
        PROVE  TypeOK'
    <2>1. s \in Nat
      BY SizesAssumption DEF Sequence
    <2>2. mask(s) \in Bit
      BY <2>1, BlockAndBit
    <2> QED
      BY <1>3, <2>2 DEF TypeOK, DecryptAccepted, mark_authenticated
  <1>4. CASE UNCHANGED vars
    BY <1>4 DEF TypeOK, vars
  <1> QED
    BY <1>1, <1>2, <1>3, <1>4 DEF Next

\* The blocks of the window hold what they held, plus the bit of s when s is
\* theirs: the words mark_authenticated clears are exactly those that change
\* owner when the window advances to s.
LEMMA WordsAfterAccept ==
    ASSUME TypeOK, BitmapExact, NEW s \in Sequence, DecryptAccepted(s),
           NEW w \in Nat, w <= Word(highest'), Word(highest') - w <= WindowWords
    PROVE  seen'[index(w)] = BitsOf(w) \cup (IF w = Word(s) THEN {mask(s)} ELSE {})
  <1>1. s \in Nat /\ Word(s) \in Nat /\ index(w) \in Slot
    BY SizesAssumption, BlockAndBit, IndexInSlot DEF Sequence
  <1>2. seen'[index(w)] = (IF index(w) \in Reopened(s) THEN {} ELSE seen[index(w)])
                            \cup (IF index(w) = index(Word(s)) THEN {mask(s)} ELSE {})
    BY <1>1 DEF DecryptAccepted, mark_authenticated
  <1>3. highest' = IF highest = None \/ s > highest THEN s ELSE highest
    BY DEF DecryptAccepted, mark_authenticated
  <1>4. CASE highest = None
    <2>1. index(w) = index(Word(s)) <=> w = Word(s)
      BY <1>1, <1>3, <1>4, SlotsApart
    <2>2. Reopened(s) = {} /\ seen[index(w)] = {} /\ BitsOf(w) = {}
      BY <1>1, <1>4 DEF Reopened, BitmapExact, BitsOf
    <2> QED
      BY <1>2, <2>1, <2>2
  <1>5. CASE highest # None /\ s <= highest
    <2>1. /\ highest \in Nat /\ Word(highest) \in Nat
          /\ highest' = highest
          /\ Reopened(s) = {}
      BY <1>1, <1>3, <1>5, RecordedExactly, BlockAndBit DEF Reopened
    <2>2. highest - s < WindowSize
      BY <1>1, <1>5, <2>1, SizesAssumption
         DEF DecryptAccepted, ensure_acceptable, WindowSize
    <2>3. Word(s) <= Word(highest) /\ Word(highest) - Word(s) <= WindowWords
      BY <1>1, <1>5, <2>1, <2>2, WordMonotone, WindowSpan DEF Word
    <2>4. index(w) = index(Word(s)) <=> w = Word(s)
      <3>1. CASE w < Word(s)
        BY <1>1, <2>1, <2>3, <3>1, SlotsApart, SizesAssumption
      <3>2. CASE Word(s) < w
        BY <1>1, <2>1, <2>3, <3>2, SlotsApart, SizesAssumption
      <3> QED
        BY <1>1, <3>1, <3>2
    <2>5. seen[index(w)] = BitsOf(w)
      BY <1>5, <2>1, RecordedExactly
    <2> QED
      BY <1>2, <2>1, <2>4, <2>5
  <1>6. CASE highest # None /\ s > highest
    <2>1. /\ highest \in Nat /\ Word(highest) \in Nat
          /\ highest' = s
          /\ Word(highest) <= Word(s)
          /\ w <= Word(s) /\ Word(s) - w <= WindowWords
      BY <1>1, <1>3, <1>6, RecordedExactly, BlockAndBit, WordMonotone
    <2>2. index(w) = index(Word(s)) <=> w = Word(s)
      <3>1. CASE w < Word(s)
        BY <1>1, <2>1, <3>1, SlotsApart
      <3> QED
        BY <1>1, <2>1, <3>1
    <2>3. CASE w <= Word(highest)
      <3>1. ASSUME NEW v \in (Word(highest) + 1)..Word(s)
            PROVE  index(v) # index(w)
        <4>1. v \in Nat /\ w < v /\ v - w <= WindowWords
          BY <1>1, <2>1, <2>3, SizesAssumption
        <4> QED
          BY <4>1, SlotsApart
      <3>2. Word(s) - Word(highest) < WordCount
        BY <1>1, <2>1, <2>3, SizesAssumption DEF WordCount
      <3>3. index(w) \notin Reopened(s)
        BY <1>1, <1>6, <2>1, <3>1, <3>2, SizesAssumption DEF Reopened, WordCount
      <3>4. seen[index(w)] = BitsOf(w)
        <4>1. Word(highest) - w <= WindowWords
          BY <1>1, <2>1, <2>3, SizesAssumption
        <4> QED
          BY <1>6, <2>3, <4>1, RecordedExactly
      <3> QED
        BY <1>2, <2>2, <3>3, <3>4
    <2>4. CASE w > Word(highest)
      <3>1. index(w) \in Reopened(s)
        <4>1. w \in (Word(highest) + 1)..Word(s)
          BY <1>1, <2>1, <2>4
        <4> QED
          BY <1>1, <1>6, <2>1, <4>1 DEF Reopened
      <3>2. BitsOf(w) = {}
        <4>1. ASSUME NEW t \in accepted PROVE Word(t) # w
          <5>1. t \in Nat /\ t <= highest
            BY <1>6, RecordedExactly
          <5>2. Word(t) \in Nat /\ Word(t) <= Word(highest)
            BY <2>1, <5>1, WordMonotone, BlockAndBit
          <5> QED
            BY <2>1, <2>4, <5>2
        <4> QED
          BY <4>1 DEF BitsOf
      <3> QED
        BY <1>2, <2>2, <3>1, <3>2
    <2> QED
      BY <2>1, <2>3, <2>4
  <1>7. highest # None => highest \in Nat
    BY SizesAssumption DEF TypeOK, Sequence
  <1> QED
    BY <1>1, <1>4, <1>5, <1>6, <1>7

LEMMA BitmapPreserved ==
    ASSUME TypeOK, BitmapExact, [Next]_vars
    PROVE  BitmapExact'
  <1>1. ASSUME NEW s \in Sequence, DecryptRefused(s) \/ DecryptUnauthentic(s)
        PROVE  BitmapExact'
    BY <1>1 DEF BitmapExact, BitsOf, DecryptRefused, DecryptUnauthentic
  <1>2. ASSUME NEW s \in Sequence, DecryptAccepted(s)
        PROVE  BitmapExact'
    <2>1. s \in Nat /\ accepted' = accepted \cup {s}
      BY <1>2, SizesAssumption DEF Sequence, DecryptAccepted
    <2>2. highest' = IF highest = None \/ s > highest THEN s ELSE highest
      BY <1>2 DEF DecryptAccepted, mark_authenticated
    <2>3. /\ highest' \in Nat /\ highest' # None
          /\ highest' \in accepted'
          /\ \A t \in accepted' : t <= highest'
      <3>1. CASE highest = None
        BY <2>1, <2>2, <3>1 DEF BitmapExact, None
      <3>2. CASE highest # None
        BY <2>1, <2>2, <3>2, RecordedExactly DEF None
      <3> QED
        BY <3>1, <3>2
    <2>4. ASSUME NEW w \in Nat PROVE
          BitsOf(w)' = BitsOf(w) \cup (IF w = Word(s) THEN {mask(s)} ELSE {})
      BY <2>1 DEF BitsOf
    <2>5. Word(highest') \in Nat
      BY <2>3, BlockAndBit
    <2>6. ASSUME NEW w \in (Word(highest') - WindowWords)..Word(highest'), w >= 0
          PROVE  seen'[index(w)] = BitsOf(w)'
      <3>1. w \in Nat /\ w <= Word(highest') /\ Word(highest') - w <= WindowWords
        BY <2>5, <2>6, SizesAssumption
      <3> QED
        BY <1>2, <2>4, <3>1, WordsAfterAccept, Zenon
    <2> QED
      BY <2>3, <2>6 DEF BitmapExact, index, Word
  <1>3. CASE UNCHANGED vars
    BY <1>3 DEF BitmapExact, BitsOf, vars
  <1> QED
    BY <1>1, <1>2, <1>3 DEF Next

-------------------------------------------------------------------------------

\* The index and the bit computed by replay.rs stay inside the allocation, for
\* every window size and every sequence of calls.
THEOREM TypeCorrect == Spec => []TypeOK
  <1>1. Init => TypeOK
    BY DEF Init, TypeOK
  <1>2. TypeOK /\ [Next]_vars => TypeOK'
    BY TypePreserved
  <1> QED
    BY <1>1, <1>2, PTL DEF Spec

\* The circular bitmap is exact on the blocks the window can consult.
THEOREM Exact == Spec => []BitmapExact
  <1>1. Init => BitmapExact
    BY DEF Init, BitmapExact
  <1>2. TypeOK /\ BitmapExact /\ [Next]_vars => BitmapExact'
    BY BitmapPreserved
  <1> QED
    BY <1>1, <1>2, TypeCorrect, PTL DEF Spec

\* decrypt_into never returns Ok twice for one sequence number.
THEOREM AcceptedOnce == Spec => NeverTwice
  <1>1. ASSUME TypeOK, BitmapExact, NEW s \in Sequence, DecryptAccepted(s)
        PROVE  s \notin accepted
    <2>1. Abstract!Judge(s) = "Ok"
      BY <1>1, SameVerdict DEF DecryptAccepted
    <2>2. s \in Nat
      BY SizesAssumption DEF Sequence
    <2>3. CASE highest = None
      BY <1>1, <2>3 DEF BitmapExact
    <2>4. CASE highest # None
      BY <1>1, <2>1, <2>2, <2>4, RecordedExactly DEF Abstract!Judge, Abstract!None, None
    <2> QED
      BY <2>3, <2>4
  <1>2. TypeOK /\ BitmapExact =>
        [\A s \in Sequence : DecryptAccepted(s) => s \notin accepted]_vars
    BY <1>1
  <1> QED
    BY <1>2, TypeCorrect, Exact, PTL DEF NeverTwice

\* The window implements the set model: every call gets the verdict the model
\* gives, and leaves the model's state.
THEOREM Implements == Spec => SetModel
  <1>1. Init => Abstract!Init
    BY DEF Init, Abstract!Init, None, Abstract!None
  <1>2. ASSUME TypeOK, BitmapExact, [Next]_vars
        PROVE  [Abstract!Next]_(Abstract!vars)
    <2>1. ASSUME NEW s \in Sequence, DecryptRefused(s)
          PROVE  Abstract!Refuse(s)
      BY <1>2, <2>1, SameVerdict DEF DecryptRefused, Abstract!Refuse
    <2>2. ASSUME NEW s \in Sequence, DecryptUnauthentic(s)
          PROVE  Abstract!Unauthentic(s)
      BY <1>2, <2>2, SameVerdict DEF DecryptUnauthentic, Abstract!Unauthentic
    <2>3. ASSUME NEW s \in Sequence, DecryptAccepted(s)
          PROVE  Abstract!Accept(s)
      BY <1>2, <2>3, SameVerdict
         DEF DecryptAccepted, mark_authenticated, Abstract!Accept, None, Abstract!None
    <2>4. CASE UNCHANGED vars
      BY <2>4 DEF vars, Abstract!vars
    <2> QED
      BY <1>2, <2>1, <2>2, <2>3, <2>4 DEF Next, Abstract!Next
  <1> QED
    BY <1>1, <1>2, TypeCorrect, Exact, PTL DEF Spec, SetModel, Abstract!Spec
===============================================================================
