------------------------------- MODULE Console -------------------------------
(***************************************************************************)
(* The person at the machine: keys and the mouse go to the shell's line,   *)
(* or keys to the text editor that a command opened, which draws over the  *)
(* page and puts it back.  Each of the two keeps its own idea of whether   *)
(* Ctrl is held, and each sees only the keys that come while it reads.     *)
(***************************************************************************)
EXTENDS ShellLine

CONSTANTS
    Texts,                        \* the files that are edited
    EditLine,                     \* the command that opens one
    MaxText, EditCols, EditRows,  \* see TextEditor
    MaxKeys, MaxEdits, MaxBoth    \* bounds: keys in the shell, in the editor, in both

Chars == Typed \cup {Newline}

ASSUME ConsoleAssumption ==
    /\ MaxText \in Nat \ {0} /\ EditCols \in Nat \ {0} /\ EditRows \in Nat \ {0}
    /\ MaxKeys \in Nat /\ MaxEdits \in Nat /\ MaxBoth \in Nat /\ Blank \in Typed
    /\ \A s \in Texts : Len(s) <= MaxText /\ \A k \in 1 .. Len(s) : s[k] \in Chars

VARIABLES
    ebuf, elen, eat, top, ectrl,  \* see TextEditor
    mode,    \* who reads the keyboard: "shell", "editor", or "leaving", the editor until
             \* a Ctrl key is released
    saved,   \* the editor was left by a save that succeeded
    held,    \* the Ctrl keys that are held
    handed,  \* history: the editor took over while the shell had Ctrl held
    keys     \* how many keys went to the shell, and to the editor

Editor == INSTANCE TextEditor WITH Space <- Blank, Nul <- ""

Sides == {"left", "right"}

screenLine == <<screenVars, history, hpos, tab, ctrl, ext, prev>>
vars == <<screenLine, clip, ebuf, elen, eat, top, ectrl, mode, saved, held, handed, keys>>

Init ==
    /\ LineInit /\ Editor!EditorInit
    /\ mode = "shell" /\ saved = FALSE /\ held = {} /\ handed = FALSE
    /\ keys = [shell |-> 0, editor |-> 0]

KeysLeft  == keys.shell < MaxKeys /\ keys.shell + keys.editor < MaxBoth
EditsLeft == keys.editor < MaxEdits /\ keys.shell + keys.editor < MaxBoth

-----------------------------------------------------------------------------
(* The shell reads.                                                        *)

Printed(lines) ==
    FoldLeft(PrintString, LeftBehind(Live), [k \in 1 .. lines |-> <<"o">>])

PlainKey ==
    \/ \E c \in Typed : TypeChar(c)
    \/ \E names \in Listings : Tab(names)
    \/ CopyLine \/ PasteLine \/ Backspace \/ EnterAgain

\* A command prints a line or none, and is recorded or not; one that edits and
\* finds no file, or one that is not the user's, prints a line and is not.
EnterKey ==
    \/ \E lines \in 0 .. 1, recorded \in BOOLEAN :
           /\ Live.buf = EditLine => lines = 1 /\ ~recorded
           /\ Enter(Printed(lines), recorded)
    \/ Live.buf # EditLine /\ Enter(ClearPage(Live), TRUE)

ShellKey ==
    \/ (~ext /\ PlainKey) \/ Swallowed
    \/ (\E d \in {-1, 1} : Arrows(d)) \/ Up \/ Down
    \/ EnterKey

\* Each takes a pending E0.
ShellStep ==
    /\ mode = "shell" /\ KeysLeft
    /\ ShellKey /\ ext' = FALSE
    /\ keys' = [keys EXCEPT !.shell = @ + 1]
    /\ UNCHANGED <<ebuf, elen, eat, top, ectrl, mode, saved, held, handed>>

\* A Ctrl key that is held goes up, one that is not goes down.
Toggled(side) == IF side \in held THEN held \ {side} ELSE held \cup {side}

ShellCtrl ==
    /\ mode = "shell" /\ KeysLeft
    /\ \E side \in Sides :
           /\ held' = Toggled(side)
           /\ CtrlKey(side, side \notin held)
    /\ handed' = FALSE
    /\ keys' = [keys EXCEPT !.shell = @ + 1]
    /\ UNCHANGED <<ebuf, elen, eat, top, ectrl, mode, saved>>

Mouse ==
    /\ mode = "shell"
    /\ (\E p \in Spots : Move(p)) \/ (\E d \in {-1, 1} : Wheel(d)) \/ Idle
    /\ UNCHANGED <<lineVars, ebuf, elen, eat, top, ectrl, mode, saved, held, handed, keys>>

\* Enter on an edit command, which is not kept in history: the pointer is off
\* and the page is kept while the editor draws its own.  The editor gets Enter's
\* release.
OpensEditor ==
    /\ mode = "shell" /\ KeysLeft
    /\ Live.buf = EditLine /\ (prev => ext)
    /\ \E text \in Texts : Editor!EditOpen(text)
    /\ term' = LeftBehind(Live) /\ shown' = FALSE /\ offset' = 0
    /\ ext' = FALSE /\ prev' = (prev \/ ~ext)
    /\ TabOff
    /\ mode' = "editor" /\ handed' = ctrl
    /\ keys' = [keys EXCEPT !.shell = @ + 1]
    /\ UNCHANGED <<snapshot, drawn, pointer, under, history, hpos, ctrl, clip, saved, held>>

-----------------------------------------------------------------------------
(* The editor reads.                                                       *)

EditorKey ==
    \/ \E c \in Chars : Editor!EditType(c)
    \/ Editor!EditRubOut \/ Editor!EditPaste \/ Editor!EditCopyLine \/ Editor!EditCopyWord
    \/ \E d \in {-1, 1} : Editor!EditArrow(d) \/ Editor!EditVertical(d)

EditorStep ==
    /\ mode = "editor" /\ EditsLeft
    /\ EditorKey
    /\ keys' = [keys EXCEPT !.editor = @ + 1]
    /\ UNCHANGED <<screenLine, mode, saved, held, handed>>

EditorCtrl ==
    /\ mode = "editor"
    /\ \E side \in Sides :
           /\ held' = Toggled(side)
           /\ Editor!EditCtrl(side, side \notin held)
    /\ UNCHANGED <<screenLine, mode, saved, handed, keys>>

\* Ctrl+S and Ctrl+Q.  A save may fail, and says so under the cursor: from the
\* last row the page scrolls, and its blank first row is one of the rows that did.
Leaves(how) ==
    LET row    == Editor!PosOf(ebuf, eat).row - top
        scroll == how = "failed" /\ row = EditRows - 1
    IN  /\ mode = "editor" /\ ectrl
        /\ mode' = "leaving" /\ saved' = (how = "saved")
        /\ term' = IF scroll THEN [term EXCEPT !.back = AppendRow(@, Spaces(Cols))] ELSE term
        /\ UNCHANGED <<snapshot, drawn, offset, pointer, shown, under, lineVars,
                       ebuf, elen, eat, top, ectrl, held, handed, keys>>

\* The page is put back, with a word under the command line's end, and the shell
\* prompts under that.
Closed ==
    LET blanks == {k \in Cell : k >= term.cursor /\ term.video[k] = Blank}
        end    == IF blanks = {} THEN Cells ELSE CHOOSE k \in blanks : \A j \in blanks : k <= j
        below  == [term EXCEPT !.cursor = (end \div Cols + 1) * Cols]
        t      == IF below.cursor >= Cells
                  THEN [ScrollScreen(below) EXCEPT !.cursor = @ - Cols] ELSE below
        word   == Cut(<<IF saved THEN "s" ELSE "x">>, IF t.cursor < Cells - 1 THEN 1 ELSE 0)
    IN  [Draw(t, word, t.cursor) EXCEPT !.cursor = @ + Len(word)]

\* A Ctrl key is released, and the codes that have come by then are thrown away:
\* nobody saw what else the two keys did.
EditorReturns ==
    /\ mode = "leaving" /\ mode' = "shell"
    /\ held # {} /\ held' \in SUBSET Sides
    /\ Overlaid(NewPrompt(Closed), pointer) /\ offset' = 0
    /\ snapshot' = NewPrompt(Closed).video /\ drawn' = FALSE
    /\ hpos' = -1
    /\ UNCHANGED <<history, tab, ctrl, ext, prev, clip, ebuf, elen, eat, top, ectrl, saved, handed, keys>>

-----------------------------------------------------------------------------

Next ==
    \/ ShellStep \/ ShellCtrl \/ Mouse \/ OpensEditor
    \/ EditorStep \/ EditorCtrl \/ EditorReturns
    \/ \E how \in {"saved", "failed", "quit"} : Leaves(how)

Spec == Init /\ [][Next]_vars

-----------------------------------------------------------------------------
(* Properties.                                                             *)

\* Types (part of ShowsLine).
TypeOK ==
    /\ mode \in {"shell", "editor", "leaving"}
    /\ pointer \in Cell /\ offset \in 0 .. Len(term.back) /\ Len(term.back) <= BackLines
    /\ DOMAIN term.video = Cell /\ DOMAIN snapshot = Cell
    /\ Len(history) <= HistCount /\ hpos \in -1 .. Len(history) - 1
    /\ tab.count <= Len(tab.words) /\ (tab.active => tab.pos \in 0 .. Len(tab.words) - 1)
    /\ elen \in 0 .. MaxText /\ eat \in 0 .. elen /\ DOMAIN ebuf = 0 .. MaxText
    /\ held \subseteq Sides
    /\ {ctrl, ext, prev, ectrl, handed, shown, saved, drawn} \subseteq BOOLEAN

(***************************************************************************)
(* What the shell shows is what it will run: the page has exactly cmd_buf  *)
(* from line_start on, behind the prompt and with nothing of an older line *)
(* behind it, and the cursor is where the next character goes.  Every key  *)
(* redraws by itself a part of the line only.  The line is lost, and none  *)
(* of this claimed, from where it runs past the end of the page, where     *)
(* completion takes a wrapped match's second row for its first, where the  *)
(* wheel puts back an older page (LiveScreenKept), and while rows of a     *)
(* wrapped line that Enter ended before its last row are under the prompt. *)
(***************************************************************************)
ShowsLine ==
    /\ TypeOK
    /\ mode = "shell" /\ offset = 0 /\ ~term.lost =>
        /\ LiveScreen[term.start - 1] = Prompt[1]
        /\ \A k \in Cell : k >= term.start =>
               LiveScreen[k] = IF k - term.start < Len(term.buf)
                               THEN term.buf[k - term.start + 1] ELSE Blank
        /\ term.cursor = term.start + term.at
        /\ term.at <= Len(term.buf) /\ Len(term.buf) < MaxCmd

(***************************************************************************)
(* The mouse, the wheel and the refresh when idle show other rows or move  *)
(* the pointer; the live screen under them stays as it was, whatever was   *)
(* drawn, scrolled and put back in between.  The one turn that may change  *)
(* it is one towards a live screen that is already there, when the last    *)
(* key to draw was one of the history keys or went through matches: those  *)
(* leave the loop without saving the screen.                               *)
(***************************************************************************)
LiveScreenKept ==
    [][Mouse => LiveScreen' = LiveScreen \/ (drawn /\ offset = 0 /\ Wheel(1))]_vars

(***************************************************************************)
(* The array of the editor, edited in place by loops that copy parts of it *)
(* over itself, is a text and a place in it that only the keys that should *)
(* change change: it implements TextBuffer.                                *)
(***************************************************************************)
Buffer == INSTANCE TextBuffer WITH text <- Editor!Text(ebuf, elen), at <- eat,
                                   open <- (mode = "editor")
EditorIsText == Buffer!Spec

(***************************************************************************)
(* Up and Down go one row up or down, to the same column or to the end of  *)
(* a row that has none, and never past the first and last row; and the     *)
(* view always has the cursor's row.                                       *)
(***************************************************************************)
RowOf(i) == Editor!PosOf(ebuf, i).row
ColOf(i) == Editor!PosOf(ebuf, i).col
MovesByRows ==
    [][/\ mode' = "editor" => RowOf(eat)' \in top' .. top' + EditRows - 1
       /\ \A d \in {-1, 1} : mode = "editor" /\ EditorStep /\ Editor!EditVertical(d) =>
            LET row == {i \in 0 .. elen : RowOf(i) = RowOf(eat) + d}
            IN  IF row = {} THEN eat' = eat
                ELSE /\ eat' \in row
                     /\ ColOf(eat)' = ColOf(eat)
                          \/ (ColOf(eat)' < ColOf(eat) /\ \A i \in row : i <= eat')]_vars

(***************************************************************************)
(* No key is taken for a shortcut when no Ctrl key is held: where the      *)
(* shell or the editor has Ctrl held, one of the keys is, although each    *)
(* sees only what comes while it reads and the two keys differ in their    *)
(* codes.  The exception is an editor opened with Ctrl held: the shell     *)
(* keeps what it knew then until a Ctrl key moves again.  And who leaves   *)
(* the editor can: a Ctrl key is there to be released.                     *)
(***************************************************************************)
CtrlIsHeld ==
    /\ mode = "shell" /\ ctrl => held # {} \/ handed
    /\ mode = "editor" /\ ectrl => "left" \in held
    /\ mode = "leaving" => held # {}
=============================================================================
