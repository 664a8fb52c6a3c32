------------------------------ MODULE TextBuffer ------------------------------
(***************************************************************************)
(* What a text editor promises: a text and a place in it.  Typing puts a   *)
(* character there, pasting as much of the clipboard as there is room for, *)
(* rubbing out takes the character before it, and nothing else changes the *)
(* text.  Copying takes a piece of the text.                               *)
(***************************************************************************)
EXTENDS Integers, Sequences, SequencesExt

CONSTANTS Chars, MaxText

VARIABLES text, at, clip, open

Room == MaxText - Len(text)

Insert(s) ==
    /\ text' = SubSeq(text, 1, at) \o s \o SubSeq(text, at + 1, Len(text))
    /\ at' = at + Len(s)
    /\ UNCHANGED <<clip, open>>

Type  == Room > 0 /\ \E c \in Chars : Insert(<<c>>)
Paste == Insert(SubSeq(clip, 1, IF Len(clip) < Room THEN Len(clip) ELSE Room))

Rub ==
    /\ at > 0
    /\ text' = RemoveAt(text, at) /\ at' = at - 1
    /\ UNCHANGED <<clip, open>>

Go == at' \in 0 .. Len(text) /\ UNCHANGED <<text, clip, open>>

Copy ==
    /\ \E i \in 1 .. Len(text) + 1, j \in 0 .. Len(text) : clip' = SubSeq(text, i, j)
    /\ UNCHANGED <<text, at, open>>

\* A file is opened, with the place at its end.  Closed, the buffer is nobody's.
Open == ~open /\ open' /\ at' = Len(text') /\ Len(text') <= MaxText /\ UNCHANGED clip
Shut == ~open' /\ UNCHANGED <<text, at>> /\ (open => UNCHANGED clip)

Next == (open /\ (Type \/ Paste \/ Rub \/ Go \/ Copy)) \/ Open \/ Shut

Spec == ~open /\ [][Next]_<<text, at, clip, open>>
=============================================================================
