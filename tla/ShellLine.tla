------------------------------ MODULE ShellLine ------------------------------
(***************************************************************************)
(* The shell's command line (kernel_main, shell_insert_char_at_cursor,     *)
(* handle_tab_completion, add_to_history): the keys edit cmd_buf, and each *)
(* draws what it changed instead of the whole line.                        *)
(*                                                                         *)
(* "term" is the page with the line on it: buf and at are cmd_buf[0 ..     *)
(* cmd_len) and cmd_cursor, cursor the cell of the cursor and start        *)
(* line_start; lost says that the line ran past the end of the page, that  *)
(* line_start is not where it starts, or that remains of an earlier line   *)
(* are behind it.  A key is pressed and released; the two Ctrl keys are    *)
(* keys of their own.                                                      *)
(***************************************************************************)
EXTENDS Screen, FiniteSets

CONSTANTS
    Typed,       \* the characters that are typed
    MaxCmd,      \* MAX_CMD_BUFFER
    HistCount,   \* rows of history
    HistLen,     \* characters history keeps of a command
    ClearWidth,  \* cells the tab browser clears
    MaxMatches,  \* rows of tab_matches
    TabMargin,   \* Tab works up to so many cells before the end of the page
    BootRow,     \* the row the boot screen leaves the prompt on
    Commands,    \* handle_tab_completion's commands
    Listings     \* what vfs_readdir says of the current directory, one time or another

Prompt  == <<">">>
Newline == "/"

ASSUME ShellLineAssumption ==
    /\ MaxCmd \in Nat \ {0} /\ HistCount \in Nat \ {0} /\ HistLen \in Nat
    /\ MaxMatches \in Nat \ {0} /\ ClearWidth \in Nat /\ TabMargin \in Nat /\ BootRow \in 0 .. Rows - 1
    /\ Newline \notin Typed

VARIABLES
    history,  \* history[0 .. history_count)
    hpos,     \* history_position
    tab,      \* tab_matches, tab_match_count, tab_completion_active and _position
    ctrl,     \* kernel_main's ctrl
    ext,      \* kernel_main's e0_prefix_pending
    prev,     \* kernel_main's prev_scancode is Enter's
    clip      \* the clipboard

lineVars == <<history, hpos, tab, ctrl, ext, prev, clip>>

LineInit ==
    LET at    == BootRow * Cols + Len(Prompt)
        blank == [video |-> [k \in Cell |-> Blank], back |-> <<>>, lost |-> FALSE,
                  tail |-> -1, buf |-> <<>>, at |-> 0, cursor |-> at, start |-> at]
        t     == Draw(blank, Prompt, BootRow * Cols)
    IN  /\ term = [t EXCEPT !.video[0] = Arrow] /\ under = t.video[0] /\ pointer = 0
        /\ shown = TRUE /\ snapshot = t.video /\ drawn = FALSE /\ offset = 0
        /\ history = <<>> /\ hpos = -1 /\ clip = <<>>
        /\ ctrl = FALSE /\ ext = FALSE /\ prev = FALSE
        /\ tab = [words |-> <<>>, count |-> 0, active |-> FALSE, pos |-> -1]

-----------------------------------------------------------------------------
(* Editing.                                                                *)

Cut(s, n) == IF Len(s) <= n THEN s ELSE SubSeq(s, 1, n)

\* The page moves up under the line, whose first row may be lost to it.
ScrollLine(t) ==
    [ScrollScreen(t) EXCEPT !.cursor = @ - Cols, !.lost = @ \/ t.start < Cols,
                            !.start = IF @ >= Cols THEN @ - Cols ELSE 0]

Fitted(t) == IF t.cursor >= Cells THEN ScrollLine(t) ELSE t

\* shell_insert_char_at_cursor: at the end of the line the page scrolls before
\* and after, in the middle only before, and what does not fit is not drawn.
InsertChar(t, c) ==
    LET u    == Fitted(t)
        tail == <<c>> \o SubSeq(u.buf, u.at + 1, Len(u.buf))
        v    == [Draw(u, tail, u.cursor) EXCEPT !.buf = SubSeq(u.buf, 1, u.at) \o tail,
                                                !.at = @ + 1, !.cursor = @ + 1]
    IN  IF c = Newline \/ Len(t.buf) >= MaxCmd - 1 THEN t
        ELSE IF t.at = Len(t.buf) THEN Fitted(v) ELSE v

\* Backspace draws the rest of the line one cell to the left and a blank behind it.
RubOut(t) ==
    LET rest == SubSeq(t.buf, t.at + 1, Len(t.buf))
    IN  IF t.at = 0 \/ t.cursor <= t.start THEN t
        ELSE [Draw(Draw(t, rest, t.cursor - 1), Spaces(1), t.start + Len(t.buf) - 1) EXCEPT
                !.buf = RemoveAt(@, t.at), !.at = @ - 1, !.cursor = @ - 1]

\* The line from its from-th character on becomes s: "wide" cells are cleared,
\* then it is drawn.
Replace(t, from, wide, s) ==
    LET fits == Cut(s, MaxCmd - 1 - from)
    IN  [Draw(Draw(t, Spaces(wide), t.start + from), fits, t.start + from) EXCEPT
            !.buf = SubSeq(@, 1, from) \o fits, !.at = from + Len(fits),
            !.cursor = t.start + from + Len(fits)]

\* The line ends here and stays on the page, up to the row of its last character,
\* or anywhere once it is lost.
LeftBehind(t) ==
    [t EXCEPT !.tail = IF t.lost THEN Rows - 1 ELSE (t.start + Len(t.buf) - 1) \div Cols]

\* The new prompt.  It comes under the cursor's row, not under the line's last.
NewPrompt(t) ==
    LET u      == PrintString(t, Prompt)
        behind == u.tail >= u.cursor \div Cols
    IN  [u EXCEPT !.start = u.cursor, !.buf = <<>>, !.at = 0, !.lost = behind,
                  !.tail = IF behind THEN @ ELSE -1]

\* Ends a key: the pointer is drawn again over the page.
Shows(t) ==
    /\ Overlaid([t EXCEPT !.lost = @ \/ t.start + Len(t.buf) > Cells], pointer)
    /\ offset' = 0

\* display_sync_live_screen at the end of the loop, which the arrow keys skip;
\* the key's release clears prev_scancode, which theirs does not.
Synced(t) == Shows(t) /\ snapshot' = t.video /\ drawn' = FALSE /\ prev' = FALSE

TabOff == tab' = [tab EXCEPT !.active = FALSE, !.pos = -1]

-----------------------------------------------------------------------------
(* The keys.                                                               *)

\* A typed character.  With Ctrl, c and v are keys of their own.
TypeChar(c) ==
    /\ ~(ctrl /\ c \in {"c", "v"})
    /\ Synced(InsertChar(Live, c))
    /\ TabOff /\ UNCHANGED <<history, hpos, ctrl, clip>>

CopyLine ==
    /\ ctrl /\ clip' = Live.buf
    /\ Synced(Live)
    /\ UNCHANGED <<history, hpos, tab, ctrl>>

PasteLine ==
    /\ ctrl
    /\ Synced(FoldLeft(InsertChar, Live, clip))
    /\ TabOff /\ UNCHANGED <<history, hpos, ctrl, clip>>

Backspace ==
    /\ Synced(RubOut(Live))
    /\ TabOff /\ UNCHANGED <<history, hpos, ctrl, clip>>

\* Left and Right go through the matches of a completion while there are more
\* that way (before the current one there may be those of an earlier Tab), and
\* else through the line.
Arrows(d) ==
    LET next   == tab.pos + d
        browse == tab.active /\ next >= 0 /\ (d = 1 => next < tab.count)
        inside == Live.at + d \in 0 .. Len(Live.buf)
    IN  /\ IF browse
           THEN Shows(Replace(Live, 0, ClearWidth, tab.words[next + 1]))
           ELSE Shows(IF inside THEN [Live EXCEPT !.at = @ + d, !.cursor = @ + d] ELSE Live)
        /\ tab' = IF browse THEN [tab EXCEPT !.pos = next] ELSE tab
        /\ drawn' = (drawn \/ browse)
        /\ UNCHANGED <<snapshot, history, hpos, ctrl, prev, clip>>

\* The cells the history keys clear: none (for the mutants).
NoneCleared(t) == 0

\* All of the line's.
LineCleared(t) == Len(t.buf)

\* Up goes to the command before, and stays at the first.
Up ==
    LET pos == IF hpos = -1 THEN Len(history) - 1 ELSE IF hpos > 0 THEN hpos - 1 ELSE hpos
    IN  /\ Shows(IF history = <<>> THEN Live
                 ELSE Replace(Live, 0, LineCleared(Live), history[pos + 1]))
        /\ hpos' = pos /\ drawn' = (drawn \/ history # <<>>)
        /\ UNCHANGED <<snapshot, history, tab, ctrl, prev, clip>>

\* Down goes to the command after, and from the last to an empty line.
Down ==
    LET pos == IF hpos \in 0 .. Len(history) - 2 THEN hpos + 1 ELSE -1
    IN  /\ Shows(IF hpos = -1 THEN Live
                 ELSE Replace(Live, 0, LineCleared(Live),
                              IF pos = -1 THEN <<>> ELSE history[pos + 1]))
        /\ hpos' = pos /\ drawn' = (drawn \/ hpos # -1)
        /\ UNCHANGED <<snapshot, history, tab, ctrl, prev, clip>>

\* What the last word can be completed to: commands that go on behind it, if it
\* is the first, and names that begin as it does, as many as there is room for.
Agree(w, s) == \A k \in 1 .. Len(w) : k <= Len(s) => w[k] = s[k]
Matches(buf, names) ==
    LET blanks    == {0} \cup {k \in 1 .. Len(buf) : buf[k] = Blank}
        from      == CHOOSE k \in blanks : \A j \in blanks : j <= k
        word      == SubSeq(buf, from + 1, Len(buf))
        longer(s) == Len(s) > Len(word) /\ Agree(word, s)
        near(s)   == Agree(word, s)
    IN  [from |-> from,
         list |-> Cut((IF from = 0 THEN SelectSeq(Commands, longer) ELSE <<>>)
                        \o SelectSeq(names, near), MaxMatches)]

\* handle_tab_completion: one match replaces the word; of several the first
\* replaces the line, under the list of them, and line_start follows if the
\* cursor has left its row.
Tab(names) ==
    LET m     == Matches(Live.buf, names)
        first == m.list[1]
        found == Replace(NewPrompt(FoldLeft(PrintString, LeftBehind(Live), m.list)), 0, 0, first)
        row   == found.cursor \div Cols
        start == IF row > Live.cursor \div Cols THEN row * Cols + Len(Prompt) ELSE Live.start
        words == m.list \o SubSeq(tab.words, Len(m.list) + 1, Len(tab.words))
    IN  /\ CASE Live.cursor >= Cells - TabMargin \/ Live.at # Len(Live.buf) ->
                  Synced(Live) /\ UNCHANGED tab
             [] OTHER ->
                  IF m.list = <<>> THEN Synced(Live) /\ tab' = [tab EXCEPT !.count = 0]
                  ELSE IF Len(m.list) = 1
                  THEN /\ Synced(Replace(Live, m.from, Len(Live.buf) - m.from, first))
                       /\ tab' = [tab EXCEPT !.words = words, !.count = 1, !.active = FALSE]
                  ELSE /\ Synced([found EXCEPT !.start = start, !.lost = @ \/ start # found.start])
                       /\ tab' = [words |-> words, count |-> Len(m.list), active |-> TRUE, pos |-> 0]
        /\ UNCHANGED <<history, hpos, ctrl, clip>>

\* add_to_history
Recorded(s) ==
    LET h == Append(history, Cut(s, HistLen))
    IN  IF Len(h) > HistCount THEN Tail(h) ELSE h

\* handle_clear_command
ClearPage(t) == [Draw(t, Spaces(Cells), 0) EXCEPT !.cursor = 0, !.tail = -1]

\* Enter: the command, which is kept in history or not, leaves the page as t,
\* and the next prompt comes under it.  Enter's own release went to the editor
\* if that is where it comes from, and then it is taken for a repetition, unless
\* an E0 before it makes it the key pad's.
Enter(t, recorded) ==
    /\ prev => ext
    /\ Synced(NewPrompt(t))
    /\ TabOff /\ hpos' = -1
    /\ history' = IF recorded THEN Recorded(Live.buf) ELSE history
    /\ UNCHANGED <<ctrl, clip>>

EnterAgain ==
    /\ prev /\ prev' = FALSE
    /\ Shows(Live)
    /\ UNCHANGED <<snapshot, drawn, history, hpos, tab, ctrl, clip>>

\* A key behind an E0 that was not its own is taken for one that does nothing.
Swallowed ==
    /\ ext /\ prev' = FALSE
    /\ Shows(Live)
    /\ UNCHANGED <<snapshot, drawn, history, hpos, tab, ctrl, clip>>

\* The release of the right one ignored, with those of the other keys behind an
\* E0 (for the mutants).
CtrlButRight(side, down) == down \/ (side = "right" /\ ctrl)

\* What a Ctrl key makes of ctrl: the last one that moved decides.
CtrlNow(side, down) == down

\* A Ctrl key goes down or up.  The right one's codes come behind an E0, which
\* stays pending for the next key.
CtrlKey(side, down) ==
    /\ ctrl' = CtrlNow(side, down) /\ prev' = (down /\ prev)
    /\ ext' = (side = "right" \/ ext)
    /\ Shows(Live)
    /\ UNCHANGED <<snapshot, drawn, history, hpos, tab, clip>>
=============================================================================
