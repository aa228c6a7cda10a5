--------------------------------- MODULE Isin ---------------------------------
(***************************************************************************)
(* Which texts are ISINs.  A text that strip and upper have been applied   *)
(* to is the sequence of the values of its characters, 0 to 9 for digits   *)
(* and 10 to 35 for letters; any other text is no sequence of these.       *)
(***************************************************************************)
EXTENDS Integers, Sequences, SequencesExt

\* A letter is written as the two digits of its value.
Expanded(text) ==
    FlattenSeq([k \in DOMAIN text |->
        IF text[k] < 10 THEN <<text[k]>> ELSE <<text[k] \div 10, text[k] % 10>>])

\* Mutant: the two digits of a doubled digit are not added up.
DoubledOnly(digit) == 2 * digit

Doubled(digit) == ((2 * digit) \div 10) + ((2 * digit) % 10)

\* Every second digit is doubled, beginning with the last but one.
Total(digits) ==
    SumFunction([k \in DOMAIN digits |->
        IF (Len(digits) - k) % 2 = 1 THEN Doubled(digits[k]) ELSE digits[k]])

IsIsin(text) ==
    /\ Len(text) = 12
    /\ text[1] \in 10..35 /\ text[2] \in 10..35 /\ text[12] \in 0..9
    /\ \A k \in 3..11 : text[k] \in 0..35
    /\ Total(Expanded(text)) % 10 = 0
=============================================================================
