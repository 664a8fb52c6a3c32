------------------------------- MODULE Screen -------------------------------
(***************************************************************************)
(* The text screen (display.c): what is drawn on the page, the rows that   *)
(* scrolled off it, the view of them that the mouse wheel scrolls, and the *)
(* mouse pointer, which is drawn over a cell and gives it back.            *)
(*                                                                         *)
(* A cell is its character; what is drawn past the end of the page is not  *)
(* seen.                                                                   *)
(***************************************************************************)
EXTENDS Integers, Sequences, SequencesExt

CONSTANTS
    Cols, Rows,   \* SCREEN_COLS and SCREEN_ROWS
    BackLines,    \* SCROLLBACK_LINES
    Spots         \* the cells the mouse is moved to

Cells == Cols * Rows
Cell  == 0 .. Cells - 1
Blank == " "
Arrow == "^"

ASSUME ScreenAssumption ==
    Cols \in Nat \ {0} /\ Rows \in Nat \ {0} /\ BackLines \in Nat \ {0} /\ Spots \subseteq Cell

VARIABLES
    term,      \* the page, the rows that scrolled off it, whether the program lost track
               \* of it, and (ShellLine) the line on it and the last row with remains of
               \* an earlier one
    snapshot,  \* live_screen_snapshot
    drawn,     \* history: something was drawn that no display_sync_live_screen has saved
    offset,    \* scrollback_offset
    pointer,   \* where the mouse is
    shown,     \* mouse_visible
    under      \* mouse_saved_char

screenVars == <<term, snapshot, drawn, offset, pointer, shown, under>>

-----------------------------------------------------------------------------
(* Drawing.                                                                *)

Spaces(n) == [k \in 1 .. n |-> Blank]

Draw(t, text, at) ==
    [t EXCEPT !.video = [k \in Cell |-> IF k - at \in 0 .. Len(text) - 1
                                        THEN text[k - at + 1] ELSE @[k]]]

\* append_scrollback_row: the oldest row makes room.
AppendRow(back, row) ==
    Append(IF Len(back) < BackLines THEN back ELSE Tail(back), row)

\* scroll_screen
ScrollScreen(t) ==
    [t EXCEPT !.video = [k \in Cell |-> IF k + Cols \in Cell THEN @[k + Cols] ELSE Blank],
              !.back  = AppendRow(@, [k \in 1 .. Cols |-> t.video[k - 1]]),
              !.tail  = IF @ >= 0 THEN @ - 1 ELSE @]

\* Scrolls until the cursor is on the page.
Fit(t) ==
    LET n    == IF t.cursor < Cells THEN 0 ELSE (t.cursor - Cells) \div Cols + 1
        f[k \in 0 .. n] == IF k = 0 THEN t ELSE [ScrollScreen(f[k - 1]) EXCEPT !.cursor = @ - Cols]
    IN  f[n]

NextRow(t) == Fit([t EXCEPT !.cursor = (@ \div Cols + 1) * Cols])

\* print_string of a text that fits in a row
PrintString(t, text) ==
    LET u == NextRow(t) IN [Draw(u, text, u.cursor) EXCEPT !.cursor = @ + Len(text)]

-----------------------------------------------------------------------------
(* The pointer and the scrolled view.                                      *)

\* clear_mouse_overlay
Cleared == IF shown THEN [term EXCEPT !.video[pointer] = under] ELSE term

\* draw_mouse_overlay over what t shows
Overlaid(t, p) ==
    /\ term' = [t EXCEPT !.video[p] = Arrow]
    /\ under' = t.video[p] /\ pointer' = p /\ shown' = TRUE

\* render_scrollback_view: n rows back, over the screen "live".
ScrolledView(n, live) ==
    LET rows == term.back \o [r \in 1 .. Rows |-> [c \in 1 .. Cols |-> live[(r - 1) * Cols + c - 1]]]
        top  == Len(term.back) - n
    IN  [k \in Cell |-> rows[top + (k \div Cols) + 1][(k % Cols) + 1]]

\* What the keyboard finds: the pointer is taken away and the view put back
\* (display_hide_mouse, display_restore_live_screen).
Live == IF offset > 0 THEN [Cleared EXCEPT !.video = snapshot] ELSE Cleared

\* The shell loop polls a mouse that was moved: display_sync_live_screen,
\* display_refresh_mouse.
Move(p) ==
    /\ Overlaid(Cleared, p)
    /\ snapshot' = IF offset = 0 THEN Cleared.video ELSE snapshot
    /\ drawn' = FALSE
    /\ UNCHANGED offset

\* The snapshot a scrolling view is drawn over, taken never (for the mutants).
KeptSnapshot(next) == snapshot

\* It is taken when the view leaves the live screen.
ViewSnapshot(next) == IF offset = 0 /\ next > 0 THEN Cleared.video ELSE snapshot

\* The wheel was turned by d: display_scroll_view, then as above.  At the live
\* screen a turn towards it puts the last snapshot on the page.
Wheel(d) ==
    LET lines == Len(term.back)
        next  == IF offset - d < 0 THEN 0 ELSE IF offset - d > lines THEN lines ELSE offset - d
        snap  == ViewSnapshot(next)
        seen  == CASE lines = 0 -> Cleared.video
                   [] lines > 0 /\ next = 0 -> snap
                   [] OTHER -> ScrolledView(next, snap)
        stale == drawn /\ offset = 0 /\ next = 0 /\ lines > 0
    IN  /\ Overlaid([Cleared EXCEPT !.video = seen, !.lost = @ \/ stale], pointer)
        /\ offset' = next
        /\ snapshot' = IF next = 0 THEN seen ELSE snap
        /\ drawn' = FALSE

\* The shell loop has been idle for a while.
Idle ==
    /\ offset = 0
    /\ snapshot' = Cleared.video /\ drawn' = FALSE
    /\ UNCHANGED <<term, offset, pointer, shown, under>>

\* The live screen: what is on the page but for the pointer, or would be.
LiveScreen == Live.video
=============================================================================
