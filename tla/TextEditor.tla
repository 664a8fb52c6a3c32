----------------------------- MODULE TextEditor -----------------------------
(***************************************************************************)
(* The text editor (editor.c) and the clipboard (clipboard.c): a text in   *)
(* an array, edited in place by loops that copy parts of it over itself,   *)
(* and a view of it that follows the cursor.                               *)
(***************************************************************************)
EXTENDS Integers, Sequences, FiniteSetsExt

CONSTANTS
    Chars,               \* the characters of a text
    Newline, Space,      \* the two of them that are not part of a word
    Nul,                 \* what ends a text in the array
    MaxText,             \* MAX_FILE_CONTENT - 1
    EditCols, EditRows   \* EDIT_COLS and EDIT_ROWS

VARIABLES
    ebuf, elen,  \* buf (editor_work_buf) and len
    eat,         \* cursor_index
    top,         \* view_top_row
    ectrl,       \* nano_editor's ctrl
    clip         \* clipboard_buf[0 .. clipboard_len)

editorVars == <<ebuf, elen, eat, top, ectrl>>

Index == 0 .. MaxText

Text(b, n) == [k \in 1 .. n |-> b[k - 1]]

EditorInit ==
    /\ ebuf = [k \in Index |-> Nul] /\ elen = 0 /\ eat = 0 /\ top = 0 /\ ectrl = FALSE

-----------------------------------------------------------------------------
(* Rows and columns.                                                       *)

\* logical_pos_for_index: rows end at a newline and where they are full.
PosOf(b, index) ==
    LET pos[i \in 0 .. index] ==
            IF i = 0 THEN [row |-> 0, col |-> 0]
            ELSE IF b[i - 1] = Newline \/ pos[i - 1].col + 1 >= EditCols
                 THEN [row |-> pos[i - 1].row + 1, col |-> 0]
                 ELSE [pos[i - 1] EXCEPT !.col = @ + 1]
    IN  pos[index]

\* The column is looked for behind the row's end (for the mutants).
PlaceAfter(b, n, row, col) ==
    LET here == {i \in 0 .. n - 1 : PosOf(b, i).row = row /\ PosOf(b, i).col >= col}
    IN  IF here = {} THEN n ELSE Min(here)

\* logical_index_for_position: the first place in the row that is in the
\* column, or at the row's newline; else the end of the text.
PlaceOf(b, n, row, col) ==
    LET here == {i \in 0 .. n - 1 : /\ PosOf(b, i).row = row
                                    /\ PosOf(b, i).col = col \/ b[i] = Newline}
    IN  IF here = {} THEN n ELSE Min(here)

\* The view follows the cursor.
Following(row) ==
    CASE row < top              -> row
      [] row >= top + EditRows  -> row - EditRows + 1
      [] OTHER                  -> top

\* The text is b[0 .. n) and the cursor at i.
Edited(b, n, i) ==
    /\ ebuf' = b /\ elen' = n /\ eat' = i /\ top' = Following(PosOf(b, i).row)
    /\ UNCHANGED ectrl

-----------------------------------------------------------------------------
(* The loops.                                                              *)

\* for (i = low; i <= high; i++) buf[i] = buf[i - n] (for the mutants).
ShiftedUp(b, low, high, n) ==
    LET f[i \in low - 1 .. high] ==
            IF i = low - 1 THEN b ELSE [f[i - 1] EXCEPT ![i] = f[i - 1][i - n]]
    IN  f[high]

\* for (i = high; i >= low; i--) buf[i] = buf[i - n]
Shifted(b, low, high, n) ==
    LET f[i \in low .. high + 1] ==
            IF i = high + 1 THEN b ELSE [f[i + 1] EXCEPT ![i] = f[i + 1][i - n]]
    IN  f[low]

Terminated(b, n) == [b EXCEPT ![n] = Nul]

\* The text s is put at the cursor.
Put(s) ==
    LET n == Len(s)
        b == Shifted(ebuf, eat + n, elen + n - 1, n)
    IN  Edited(Terminated([i \in Index |-> IF i - eat \in 0 .. n - 1 THEN s[i - eat + 1]
                                           ELSE b[i]], elen + n), elen + n, eat + n)

-----------------------------------------------------------------------------
(* The keys.                                                               *)

\* A character, or Enter, if there is room for it.  With Ctrl, c and v (and s,
\* q and w) are keys of their own.
EditType(c) ==
    /\ ~(ectrl /\ c \in {"c", "v"})
    /\ IF elen < MaxText THEN Put(<<c>>) ELSE Edited(ebuf, elen, eat)
    /\ UNCHANGED clip

EditRubOut ==
    /\ IF eat > 0
       THEN LET b == [i \in Index |-> IF i \in eat - 1 .. elen - 2 THEN ebuf[i + 1] ELSE ebuf[i]]
            IN  Edited(Terminated(b, elen - 1), elen - 1, eat - 1)
       ELSE Edited(ebuf, elen, eat)
    /\ UNCHANGED clip

\* editor_paste_clipboard: as much of it as there is room for.
EditPaste ==
    LET n == IF elen + Len(clip) > MaxText THEN MaxText - elen ELSE Len(clip)
    IN  /\ ectrl
        /\ IF n > 0 THEN Put(SubSeq(clip, 1, n)) ELSE Edited(ebuf, elen, eat)
        /\ UNCHANGED clip

\* editor_copy_current_line: with its newline.
EditCopyLine ==
    LET before == {0} \cup {i \in 1 .. eat : ebuf[i - 1] = Newline}
        after  == {elen} \cup {i + 1 : i \in {j \in eat .. elen - 1 : ebuf[j] = Newline}}
    IN  /\ ectrl
        /\ clip' = SubSeq(Text(ebuf, elen), Max(before) + 1, Min(after))
        /\ UNCHANGED editorVars

\* clipboard_copy_word_at: the word at the cursor or behind it, or else the one
\* that ends at it.
InWord(i) == ebuf[i] \notin {Newline, Space}
EditCopyWord ==
    LET idx    == IF eat = elen THEN eat - 1 ELSE eat
        ahead  == {i \in idx .. elen - 1 : InWord(i)}
        at     == IF ahead # {} THEN Min(ahead) ELSE eat - 1
        start  == Max({0} \cup {i \in 1 .. at : ~InWord(i - 1)})
        end    == Min({elen} \cup {i \in at .. elen - 1 : ~InWord(i)})
    IN  /\ ectrl
        /\ clip' = IF elen = 0 \/ at < 0 THEN clip
                   ELSE IF ~InWord(at) THEN clip
                   ELSE SubSeq(Text(ebuf, elen), start + 1, end)
        /\ UNCHANGED editorVars

EditArrow(d) ==
    /\ Edited(ebuf, elen, IF eat + d \in 0 .. elen THEN eat + d ELSE eat)
    /\ UNCHANGED clip

\* Up and Down
EditVertical(d) ==
    LET p    == PosOf(ebuf, eat)
        last == PosOf(ebuf, elen).row
    IN  /\ Edited(ebuf, elen, IF p.row + d \in 0 .. last
                              THEN PlaceOf(ebuf, elen, p.row + d, p.col) ELSE eat)
        /\ UNCHANGED clip

\* A Ctrl key goes down or up.  The right one going down is a key behind an E0,
\* which does nothing; its release is taken for the left one's.
EditCtrl(side, down) ==
    /\ ectrl' = (down /\ (side = "left" \/ ectrl))
    /\ UNCHANGED <<ebuf, elen, eat, top, clip>>

\* nano_editor opens a file: its text is put in the array, the cursor at its end.
EditOpen(text) ==
    LET n   == Len(text)
        b   == [i \in Index |-> IF i < n THEN text[i + 1] ELSE ebuf[i]]
        row == PosOf(b, n).row
    IN  /\ ebuf' = Terminated(b, n) /\ elen' = n /\ eat' = n
        /\ top' = IF row >= EditRows THEN row - EditRows + 1 ELSE 0
        /\ ectrl' = FALSE
=============================================================================
