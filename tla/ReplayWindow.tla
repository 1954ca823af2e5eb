----------------------------- MODULE ReplayWindow -----------------------------
(***************************************************************************)
(* The receive window of one session direction: the circular bitmap of     *)
(* crypto/src/replay.rs, driven by decrypt_into of crypto/src/session.rs.  *)
(*                                                                         *)
(* A word of the bitmap is the set of the bit positions that are set.  The *)
(* code's sizes are 64 bits, 128 + 1 words and sequence numbers up to      *)
(* 2^64 - 1; the sizes are parameters here.                                *)
(***************************************************************************)
EXTENDS Integers

CONSTANTS
    WordBits,        \* WORD_BITS
    WindowWords,     \* WINDOW_SIZE / WORD_BITS
    MaxSequence      \* u64::MAX

ASSUME SizesAssumption ==
    /\ WordBits \in Nat \ {0}
    /\ WindowWords \in Nat \ {0}
    /\ MaxSequence \in Nat

WindowSize == WordBits * WindowWords

\* The extra word keeps the oldest partial block when a new block opens.
WordCount == WindowWords + 1

Sequence == 0..MaxSequence
Slot == 0..(WordCount - 1)
Bit == 0..(WordBits - 1)

VARIABLES
    highest,         \* ReplayWindow::highest
    seen,            \* ReplayWindow::seen
    verdict,         \* the result of the last decrypt_into
    accepted         \* history: every number decrypt_into accepted

vars == <<highest, seen, verdict, accepted>>

None == -1

Word(s) == s \div WordBits
index(word) == word % WordCount
mask(s) == s % WordBits

Init ==
    /\ highest = None
    /\ seen = [i \in Slot |-> {}]
    /\ verdict = "None"
    /\ accepted = {}

ensure_acceptable_off_by_one(s) ==
    IF highest = None \/ s > highest THEN "Ok"
    ELSE IF highest - s > WindowSize THEN "TooOld"
    ELSE IF mask(s) \in seen[index(Word(s))] THEN "Duplicate"
    ELSE "Ok"

ensure_acceptable(s) ==
    IF highest = None \/ s > highest THEN "Ok"
    ELSE IF highest - s >= WindowSize THEN "TooOld"
    ELSE IF mask(s) \in seen[index(Word(s))] THEN "Duplicate"
    ELSE "Ok"

\* The words opened, and so cleared, when the window advances to s.
Reopened_without_first(s) ==
    IF highest = None \/ s <= highest THEN {}
    ELSE IF Word(s) - Word(highest) >= WordCount THEN Slot
    ELSE {index(w) : w \in (Word(highest) + 2)..Word(s)}

Reopened(s) ==
    IF highest = None \/ s <= highest THEN {}
    ELSE IF Word(s) - Word(highest) >= WordCount THEN Slot
    ELSE {index(w) : w \in (Word(highest) + 1)..Word(s)}

mark_authenticated(s) ==
    /\ seen' = [i \in Slot |->
                  (IF i \in Reopened(s) THEN {} ELSE seen[i])
                    \cup (IF i = index(Word(s)) THEN {mask(s)} ELSE {})]
    /\ highest' = IF highest = None \/ s > highest THEN s ELSE highest

\* decrypt_into refuses the number before it looks at the ciphertext.
DecryptRefused(s) ==
    /\ ensure_acceptable(s) # "Ok"
    /\ verdict' = ensure_acceptable(s)
    /\ UNCHANGED <<highest, seen, accepted>>

\* The Noise tag does not authenticate: the window must not move.
DecryptUnauthentic(s) ==
    /\ ensure_acceptable(s) = "Ok"
    /\ verdict' = "Unauthentic"
    /\ UNCHANGED <<highest, seen, accepted>>

DecryptAccepted(s) ==
    /\ ensure_acceptable(s) = "Ok"
    /\ mark_authenticated(s)
    /\ verdict' = "Ok"
    /\ accepted' = accepted \cup {s}

Next ==
    \E s \in Sequence :
        \/ DecryptRefused(s)
        \/ DecryptUnauthentic(s)
        \/ DecryptAccepted(s)

Spec == Init /\ [][Next]_vars

-------------------------------------------------------------------------------

\* The shape of the window: every index of the bitmap and every bit of a word
\* stays inside the allocation made by ReplayWindow::default.
TypeOK ==
    /\ highest \in Sequence \cup {None}
    /\ seen \in [Slot -> SUBSET Bit]
    /\ verdict \in {"None", "Ok", "TooOld", "Duplicate", "Unauthentic"}
    /\ accepted \subseteq Sequence

\* The numbers of block w that were accepted, as bits of a word.
BitsOf(w) == {mask(s) : s \in {t \in accepted : Word(t) = w}}

\* Every block the window can still consult - the one of the highest number
\* and the WindowWords before it - is recorded exactly: mark_authenticated
\* neither keeps a bit of a block that used the word before nor erases one
\* that is still in the window.
BitmapExact ==
    IF highest = None
    THEN accepted = {} /\ \A i \in Slot : seen[i] = {}
    ELSE /\ highest \in accepted
         /\ \A s \in accepted : s <= highest
         /\ \A w \in (Word(highest) - WindowWords)..Word(highest) :
               w >= 0 => seen[index(w)] = BitsOf(w)

\* No number is accepted twice, whatever was accepted or refused in between:
\* a datagram the network repeats is never handed to the caller again.
NeverTwice ==
    [][\A s \in Sequence : DecryptAccepted(s) => s \notin accepted]_vars

Abstract == INSTANCE ReplaySpec

\* The bitmap gives, on every call, the verdict of the set model.
SetModel == Abstract!Spec
===============================================================================
