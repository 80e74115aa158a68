------------------------------ MODULE TickBitmap ------------------------------
(* ActiveTickIndexManager's storage: three layers of bit words.  A bit of the  *)
(* bottom layer is a tick; a bit of an upper layer says that the word of that  *)
(* index one layer down is not empty.  A word is the set of its bits.  The     *)
(* manager is shown to implement the plain set of ActiveTicks.                 *)
EXTENDS TickIndex, Sequences, SequencesExt

CONSTANT WordSize  \* bits of a word: 128 in the code

VARIABLES
    words,    \* TickIndexBitmapWords: layer -> set of [word, bit]
    answer    \* what the last query returned

Offset == 2 * TickMax

ASSUME WordAssumption ==
    WordSize \in Nat \ {0} /\ TickMax + Offset < WordSize * WordSize * WordSize

Layers == {"Top", "Middle", "Bottom"}

NoWords == [l \in Layers |-> {}]

index_to_layer(i) == [word |-> i \div WordSize, bit |-> i % WordSize]

layer_to_index(layer) == layer.word * WordSize + layer.bit

BitmapOf(t) ==
    LET bottom == index_to_layer(t + Offset)
        middle == index_to_layer(bottom.word)
    IN  [Top |-> index_to_layer(middle.word), Middle |-> middle, Bottom |-> bottom]

WordAt(ws, layer, word) == {b \in 0..WordSize - 1 : [word |-> word, bit |-> b] \in ws[layer]}

from_offset_index(i) == tick_new(i - Offset)

tick_insert(ws, t) == [l \in Layers |-> ws[l] \cup {BitmapOf(t)[l]}]

\* Mutant: an upper bit is cleared although its word still holds other bits.
tick_remove_clears_middle(ws, t) ==
    [l \in Layers |-> ws[l] \ {BitmapOf(t)[l]}]

tick_remove(ws, t) ==
    LET bits   == BitmapOf(t)
        bottom == ws["Bottom"] \ {bits.Bottom}
        middle == IF WordAt([ws EXCEPT !["Bottom"] = bottom], "Bottom", bits.Bottom.word) = {}
                    THEN ws["Middle"] \ {bits.Middle} ELSE ws["Middle"]
        top    == IF WordAt([ws EXCEPT !["Middle"] = middle], "Middle", bits.Middle.word) = {}
                    THEN ws["Top"] \ {bits.Top} ELSE ws["Top"]
    IN  [Top |-> top, Middle |-> middle, Bottom |-> bottom]

\* Mutant: an exact match ends the search, as it may in the bottom layer only.
find_closest_active_bit_candidates_exact(word, bit, lower) ==
    LET beyond == {b \in word : IF lower THEN b < bit ELSE b > bit}
    IN  IF bit \in word THEN <<bit>>
        ELSE IF beyond = {} THEN <<>> ELSE <<IF lower THEN Max(beyond) ELSE Min(beyond)>>

\* The requested bit if it is set, then the closest set bit beyond it.
find_closest_active_bit_candidates(word, bit, lower) ==
    LET beyond == {b \in word : IF lower THEN b < bit ELSE b > bit}
    IN  (IF bit \in word THEN <<bit>> ELSE <<>>)
        \o (IF beyond = {} THEN <<>> ELSE <<IF lower THEN Max(beyond) ELSE Min(beyond)>>)

\* Another word than the query's is searched from its near end.
StartBit(word, own) ==
    IF word < own.word THEN WordSize - 1 ELSE IF word > own.word THEN 0 ELSE own.bit

find_closest(ws, t, lower) ==
    LET own   == BitmapOf(t)
        tops  == Range(find_closest_active_bit_candidates(
                    WordAt(ws, "Top", own.Top.word), own.Top.bit, lower))
        Mids(top) == {[word |-> top, bit |-> b] : b \in Range(find_closest_active_bit_candidates(
                    WordAt(ws, "Middle", top), StartBit(top, own.Middle), lower))}
        mids  == {layer_to_index(m) : m \in UNION {Mids(top) : top \in tops}}
        Bits(mid) == find_closest_active_bit_candidates(
                    WordAt(ws, "Bottom", mid), StartBit(mid, own.Bottom), lower)
        found == {layer_to_index([word |-> m, bit |-> Head(Bits(m))]) :
                    m \in {mid \in mids : Bits(mid) # <<>>}}
    IN  IF found = {} THEN NoTick
        ELSE from_offset_index(IF lower THEN Max(found) ELSE Min(found))

-----------------------------------------------------------------------------

TickInit == words = NoWords /\ answer = NoTick

TickInsert(t) == words' = tick_insert(words, t) /\ UNCHANGED answer

TickRemove(t) == words' = tick_remove(words, t) /\ UNCHANGED answer

TickFind(t, lower) == answer' = find_closest(words, t, lower) /\ UNCHANGED words

TickNext ==
    \E t \in Ticks :
        \/ TickInsert(t)
        \/ TickRemove(t)
        \/ \E lower \in BOOLEAN : TickFind(t, lower)

TickSpec == TickInit /\ [][TickNext]_<<words, answer>>

-----------------------------------------------------------------------------

\* A bit of an upper layer is set exactly when the word it stands for holds a
\* bit: insert sets all three layers, remove clears upwards only when empty.
UpperLayersExact ==
    /\ {layer_to_index(b) : b \in words["Middle"]} = {b.word : b \in words["Bottom"]}
    /\ {layer_to_index(b) : b \in words["Top"]} = {b.word : b \in words["Middle"]}

ActiveSet == INSTANCE ActiveTicks
    WITH active <- {from_offset_index(layer_to_index(b)) : b \in words["Bottom"]}

\* The three-layer bitmap implements a set of ticks: inserting, removing and
\* finding the closest active tick in either direction give the answers that a
\* plain set would give.
BitmapIsASet == ActiveSet!ActiveSpec
=============================================================================
