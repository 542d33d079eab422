--------------------------------- MODULE Ui ---------------------------------
(***************************************************************************)
(* The user interface (Code/ui.c): tabs, buttons and where they can be     *)
(* clicked, the course of each dialog, and the reader of files and         *)
(* directories.  What a dialog does to the image is in Sfs, what it does   *)
(* on the network in Transfer; here it is only an outcome.                 *)
(*                                                                         *)
(* A dialog runs to its end inside the handling of one click.  Its stages  *)
(* are: "input" of a path, "work", one of Messages (that wait for any      *)
(* key), "view" (the reader), and one of Results (that have a countdown).  *)
(* Each return of each dialog is an action of its own, for each puts the   *)
(* terminal back by itself.                                                *)
(***************************************************************************)
EXTENDS Integers, Sequences, FiniteSets, SequencesExt

CONSTANTS
    COLS,           \* columns of the terminal
    Rows,           \* rows of a tab that are clicked
    Timeout,        \* timeout_seconds
    WIDTH,          \* of the reader's window
    Page,           \* lines the reader shows: HEIGHT - 2
    Texts,          \* what a file can hold, as a sequence of characters
    NewLine,        \* the character that ends a line
    MaxEntries,     \* in a directory
    Unset           \* a line of the reader that was never written to

ASSUME ScreenAssumption ==
    /\ COLS \in Nat /\ COLS >= 4
    /\ WIDTH \in Nat /\ WIDTH >= 2
    /\ Page \in Nat \ {0}
    /\ Timeout \in Nat \ {0}

ASSUME TextAssumption ==
    \A t \in Texts : t \in Seq(Range(t)) /\ Unset \notin Seq(Range(t) \cup {NewLine})

TAB_COUNT == 4
TAB_BAR_HEIGHT == 3
Tabs == 0 .. TAB_COUNT - 1      \* Files, Network, Tools, Help

VARIABLES
    current_tab,
    dialog,         \* the one that is open, or "none"; "down" when the program ended
    stage,
    since,          \* seconds since start_time
    onscreen,       \* seconds the result has been shown
    mouse,          \* mouse events are reported
    old_mask,       \* whether they were when the dialog was opened
    echo,           \* what is typed is shown
    cursor,         \* the cursor is
    text,           \* what the file in the reader holds
    lines,          \* content.lines
    top_line

terminal == <<mouse, old_mask, echo, cursor>>
reader   == <<text, lines, top_line>>
vars     == <<current_tab, dialog, stage, since, onscreen, terminal, reader>>

Init ==
    /\ current_tab = 0
    /\ dialog = "none"
    /\ stage = "menu"
    /\ since = 0
    /\ onscreen = 0
    /\ mouse = TRUE
    /\ old_mask = FALSE
    /\ echo = FALSE
    /\ cursor = FALSE
    /\ text = <<>>
    /\ lines = <<>>
    /\ top_line = 0

-----------------------------------------------------------------------------
(* Tabs and buttons *)

Menu == dialog = "none"

SwitchTab(t) ==
    /\ current_tab' = t
    /\ UNCHANGED <<dialog, stage, since, onscreen, terminal, reader>>

\* The arrow keys, and the keys 1 to 4.
Key ==
    /\ Menu
    /\ \/ SwitchTab((current_tab - 1 + TAB_COUNT) % TAB_COUNT)
       \/ SwitchTab((current_tab + 1) % TAB_COUNT)
       \/ \E t \in Tabs : SwitchTab(t)

\* 'q'.
Quit ==
    /\ Menu
    /\ dialog' = "down"
    /\ UNCHANGED <<current_tab, stage, since, onscreen, terminal, reader>>

\* A click on the bar; the columns left over at its right do nothing.
ClickTab(x) ==
    /\ Menu
    /\ mouse
    /\ \E t \in Tabs : t = x \div (COLS \div TAB_COUNT) /\ SwitchTab(t)

\* Where a click opens a dialog, in rows and columns of the tab.
Zone(d, rows, columns) == [dialog |-> d, rows |-> rows, columns |-> columns]

FilesZones ==
    {Zone("create_file", {3}, 2 .. 13),      Zone("delete_file", {3}, 16 .. 29),
     Zone("create_directory", {5}, 2 .. 21), Zone("delete_directory", {5}, 24 .. 42),
     Zone("print_directory", {7}, 2 .. 20),  Zone("write", {9}, 2 .. 22),
     Zone("read", {9}, 26 .. 49)}

NetworkZones == {Zone("send", {3}, 2 .. 14), Zone("requests", 4 .. 6, 2 .. 28)}

\* A seeded fault: the rows of the zones do not match those of the buttons.
ToolsZonesShifted == {Zone("check", {3}, 2 .. 31), Zone("defragment", {5, 7}, 2 .. 15)}

ToolsZones == {Zone("check", {3}, 2 .. 31), Zone("defragment", {5}, 2 .. 15)}

Zones(t) == CASE t = 0 -> FilesZones [] t = 1 -> NetworkZones [] t = 2 -> ToolsZones
              [] t = 3 -> {}

\* The buttons that are drawn, by the dialog each is labelled with: its row,
\* its first column and the length of its label, around which "[ " and " ]"
\* are put.
Button(d, x, y, label) == [dialog |-> d, row |-> y, column |-> x, label |-> label]

FilesButtons ==
    {Button("create_file", 2, 3, 8),       Button("delete_file", 16, 3, 11),
     Button("create_directory", 2, 5, 16), Button("delete_directory", 24, 5, 16),
     Button("print_directory", 2, 7, 15),  Button("write", 2, 9, 18),
     Button("read", 26, 9, 19)}

NetworkButtons == {Button("send", 2, 3, 9), Button("requests", 2, 5, 23)}

ToolsButtons ==
    {Button("check", 2, 3, 26), Button("defragment", 2, 5, 10), Button("clear", 2, 7, 15)}

Buttons(t) == CASE t = 0 -> FilesButtons [] t = 1 -> NetworkButtons [] t = 2 -> ToolsButtons
                [] t = 3 -> {}

-----------------------------------------------------------------------------
(* The course of a dialog *)

\* These take the time before the path is typed, the others when the work is
\* done.
PathDialogs == {"create_file", "delete_file", "create_directory", "delete_directory"}

\* These are not asked for a path.
Wordless == {"requests", "check", "defragment"}

\* What waits for any key, and what has a countdown: "failed" is the write
\* dialog's own, in a full directory that has no such name.
Messages == {"no_directory", "no_file", "not_file", "no_block", "empty"}
Results == {"result", "failed"}

Stage(s) ==
    /\ stage' = s
    /\ UNCHANGED <<current_tab, dialog, mouse, old_mask>>

\* noecho(), and curs_set(0).
Typed == echo' = FALSE /\ cursor' = FALSE

\* A seeded fault: the time taken when the dialog was opened is used.
StampEarly == onscreen' = 0 /\ UNCHANGED since

\* start_time = time(NULL).
Stamp == onscreen' = 0 /\ since' = 0

\* mousemask(0, &old_mask), and before a path is typed echo() and curs_set(1).
Opens(d) ==
    /\ dialog' = d
    /\ mouse' = FALSE /\ old_mask' = mouse
    /\ \/ d \in Wordless /\ stage' = "work" /\ UNCHANGED <<echo, cursor>>
       \/ d \notin Wordless /\ stage' = "input" /\ echo' = TRUE /\ cursor' = TRUE
    /\ Stamp
    /\ UNCHANGED <<current_tab, reader>>

Click(x, y) ==
    /\ Menu
    /\ mouse
    /\ \E z \in Zones(current_tab) :
          /\ y \in z.rows /\ x \in z.columns
          /\ Opens(z.dialog)

\* The path is typed and the operation carried out.
PathDone ==
    /\ stage = "input"
    /\ dialog \in PathDialogs
    /\ Stage("result")
    /\ Typed
    /\ onscreen' = 0
    /\ UNCHANGED <<since, reader>>

\* The file, the address and the port are typed, and the file is sent.
SendStart ==
    /\ stage = "input"
    /\ dialog = "send"
    /\ Stage("work")
    /\ Typed
    /\ UNCHANGED <<since, onscreen, reader>>

\* What is typed is shown until the directory is found, and the cursor until
\* the dialog is left or the file is written.  A full directory that has no
\* such name is gone through to its end, and only the result tells.
WriteStart ==
    /\ stage = "input"
    /\ dialog = "write"
    /\ \/ Stage("no_directory") /\ UNCHANGED <<since, onscreen, echo>>
       \/ /\ \E s \in {"no_file", "not_file", "no_block", "work"} : Stage(s)
          /\ echo' = FALSE
          /\ UNCHANGED <<since, onscreen>>
       \/ Stage("failed") /\ echo' = FALSE /\ Stamp
    /\ UNCHANGED <<cursor, reader>>

\* Esc, or the last block is full.
WriteDone ==
    /\ stage = "work"
    /\ dialog = "write"
    /\ Stage("result")
    /\ Typed
    /\ Stamp
    /\ UNCHANGED reader

\* There is no such file or directory, or it is not one, or it is empty.
LookupFails ==
    /\ stage = "input"
    /\ \/ dialog = "read" /\ \E s \in {"no_directory", "no_file", "not_file"} : Stage(s)
       \/ dialog = "print_directory" /\ \E s \in {"no_directory", "empty"} : Stage(s)
    /\ Typed
    /\ UNCHANGED <<since, onscreen, reader>>

WorkDone ==
    /\ stage = "work"
    /\ dialog # "write"
    /\ Stage("result")
    /\ Stamp
    /\ UNCHANGED <<echo, cursor, reader>>

\* One second passes; no more than Timeout is counted.
Tick ==
    /\ stage \in {"input", "work"} \cup Results
    /\ since' = IF since < Timeout THEN since + 1 ELSE since
    /\ onscreen' = IF stage \in Results /\ onscreen < Timeout THEN onscreen + 1 ELSE onscreen
    /\ UNCHANGED <<current_tab, dialog, stage, terminal, reader>>

-----------------------------------------------------------------------------
(* The returns *)

\* Back in handle_input; the memory of the dialog is gone.
Back ==
    /\ dialog' = "none"
    /\ stage' = "menu"
    /\ old_mask' = FALSE
    /\ text' = <<>> /\ lines' = <<>> /\ top_line' = 0
    /\ Stamp
    /\ UNCHANGED current_tab

\* mousemask(old_mask, NULL).
MouseBack == mouse' = old_mask

\* A return that puts back the mouse alone.
PlainReturn(d, stages) ==
    /\ dialog = d /\ stage \in stages
    /\ MouseBack
    /\ Back
    /\ UNCHANGED <<echo, cursor>>

\* Where the countdown of each dialog ends.
CreateFileReturn == PlainReturn("create_file", Results)
DeleteFileReturn == PlainReturn("delete_file", Results)
CreateDirReturn == PlainReturn("create_directory", Results)
DeleteDirReturn == PlainReturn("delete_directory", Results)
WriteReturn == PlainReturn("write", Results)
SendReturn == PlainReturn("send", Results)
RequestsReturn == PlainReturn("requests", Results)
CheckReturn == PlainReturn("check", Results)
DefragmentReturn == PlainReturn("defragment", Results)

\* Of a directory that was listed, and of one that was not.
PrintReturn == PlainReturn("print_directory", {"view", "no_directory", "empty"})

ReadNoDirectory == PlainReturn("read", {"no_directory"})
ReadNoFile == PlainReturn("read", {"no_file"})
ReadNotFile == PlainReturn("read", {"not_file"})
ReadReturn == PlainReturn("read", {"view"})

\* The write dialog has shown the cursor.
WriteNoDirectory ==
    /\ dialog = "write" /\ stage = "no_directory"
    /\ MouseBack
    /\ Typed
    /\ Back

WriteNoFile ==
    /\ dialog = "write" /\ stage = "no_file"
    /\ MouseBack
    /\ Typed
    /\ Back

\* A seeded fault: this return leaves the mouse off.
WriteNotFileDeaf ==
    /\ dialog = "write" /\ stage = "not_file"
    /\ UNCHANGED <<mouse, echo>>
    /\ cursor' = FALSE
    /\ Back

WriteNotFile ==
    /\ dialog = "write" /\ stage = "not_file"
    /\ MouseBack
    /\ cursor' = FALSE
    /\ UNCHANGED echo
    /\ Back

WriteNoBlock ==
    /\ dialog = "write" /\ stage = "no_block"
    /\ MouseBack
    /\ cursor' = FALSE
    /\ UNCHANGED echo
    /\ Back

\* The dialogs with a countdown; those left at any key; the readers.
Counted ==
    \/ CreateFileReturn \/ DeleteFileReturn \/ CreateDirReturn \/ DeleteDirReturn
    \/ WriteReturn \/ SendReturn \/ RequestsReturn \/ CheckReturn \/ DefragmentReturn

Answered ==
    \/ PrintReturn
    \/ WriteNoDirectory \/ WriteNoFile \/ WriteNotFile \/ WriteNoBlock
    \/ ReadNoDirectory \/ ReadNoFile \/ ReadNotFile

AnyKey == stage \in Messages /\ Answered

\* Esc during the countdown.
ResultClosed == Counted

\* A seeded fault: the loop goes on until a key is pressed.
ResultStays == since > Timeout /\ Counted

\* The loop looks at the clock after each tenth of a second without a key.
ResultTimesOut == since >= Timeout /\ Counted

-----------------------------------------------------------------------------
(* The reader *)

\* What was written to a line: to one that is Unset nothing, not even the
\* zero that ends it, and it shows what the memory held before.
Written(line) == IF line = Unset THEN <<>> ELSE line

\* A seeded fault: the character that does not fit on a line is dropped.
AddDropping(ls, c) ==
    IF c = NewLine \/ Len(Written(Last(ls))) >= WIDTH - 1 THEN Append(ls, Unset)
    ELSE [ls EXCEPT ![Len(ls)] = Append(Written(@), c)]

\* One turn of the loop over the characters: the current position is the
\* number of those written to the last line.
AddCharacter(ls, c) ==
    LET broken == IF c = NewLine \/ Len(Written(Last(ls))) >= WIDTH - 1 THEN Append(ls, Unset)
                  ELSE ls
    IN IF c = NewLine THEN broken
       ELSE [broken EXCEPT ![Len(broken)] = Append(Written(@), c)]

\* The loop: the lines after the first n characters.
Split(t) ==
    LET split[n \in 0 .. Len(t)] == IF n = 0 THEN <<Unset>> ELSE AddCharacter(split[n - 1], t[n])
    IN split[Len(t)]

\* The file holds t, all its blocks joined up to the first zero of each.
ReadStart(t) ==
    /\ stage = "input"
    /\ dialog = "read"
    /\ Stage("view")
    /\ text' = t
    /\ lines' = Split(t)
    /\ top_line' = 0
    /\ Typed
    /\ UNCHANGED <<since, onscreen>>

\* A line for each of n entries.
PrintStart(n) ==
    /\ stage = "input"
    /\ dialog = "print_directory"
    /\ Stage("view")
    /\ lines' = [k \in 1 .. n |-> <<k>>]
    /\ top_line' = 0
    /\ Typed
    /\ UNCHANGED <<since, onscreen, text>>

line_count == Len(lines)

\* The lines below top_line, as many as fit, are drawn again.  Above the first
\* there is memory of others, which may end the program or not.
Scroll(top) ==
    /\ stage = "view"
    /\ top_line' = top
    /\ \/ UNCHANGED dialog
       \/ top < 0 /\ dialog' = "down"
    /\ UNCHANGED <<current_tab, stage, since, onscreen, terminal, text, lines>>

KeyUp == top_line > 0 /\ Scroll(top_line - 1)

\* A seeded fault: one line too far.
KeyDownFurther == top_line + Page <= line_count /\ Scroll(top_line + 1)

KeyDown == top_line + Page < line_count /\ Scroll(top_line + 1)

PageUp == Scroll(IF top_line - Page > 0 THEN top_line - Page ELSE 0)

\* A seeded fault: the status line counts as a line of the page.
PageDownFurther ==
    Scroll(IF top_line + Page + 1 < line_count - Page THEN top_line + Page + 1
           ELSE line_count - Page)

PageDown ==
    Scroll(IF top_line + Page < line_count - Page THEN top_line + Page
           ELSE line_count - Page)

Home == Scroll(0)

End == Scroll(IF line_count - Page > 0 THEN line_count - Page ELSE 0)

\* Esc.
CloseReader == stage = "view" /\ (PrintReturn \/ ReadReturn)

-----------------------------------------------------------------------------

Up == dialog # "down"

Next ==
    \/ Key
    \/ Quit
    \/ \E x \in 0 .. COLS - 1 : ClickTab(x) \/ \E y \in Rows : Click(x, y)
    \/ /\ Up
       /\ \/ PathDone \/ SendStart \/ WriteStart \/ WriteDone \/ LookupFails \/ WorkDone
          \/ AnyKey \/ ResultClosed \/ ResultTimesOut \/ Tick
          \/ \E t \in Texts : ReadStart(t)
          \/ \E n \in 1 .. MaxEntries : PrintStart(n)
          \/ KeyUp \/ KeyDown \/ PageUp \/ PageDown \/ Home \/ End
          \/ CloseReader

Spec == Init /\ [][Next]_vars

\* Time passes, and the loop that shows a result goes round without the user.
FairSpec == Spec /\ WF_vars(Tick) /\ WF_vars(ResultTimesOut)

-----------------------------------------------------------------------------
(* Properties *)

\* However a dialog is left, the menu has the terminal it needs: mouse events
\* are on, what is typed is not shown, and a cursor is shown only where the
\* write dialog has left it, having gone through a full directory for nothing,
\* until a dialog is opened that asks for a path.
TerminalGivenBack ==
    [][Menu' => /\ mouse' /\ ~echo'
                /\ cursor' => cursor /\ \/ Menu \/ dialog \in Wordless
                                        \/ dialog = "write" /\ stage = "failed"]_vars

\* What the user clicks is what opens (register_button and the handle_mouse
\* functions, which repeat each button's place by hand): a click on the label
\* of a button is within a zone of the dialog it names (but for the one that
\* has no dialog), and no cell of a button opens that of another.
ClickOpensItsOwn ==
    [][\A x \in 0 .. COLS - 1, y \in Rows, b \in Buttons(current_tab) :
          x \in b.column .. b.column + b.label + 3 =>
             /\ y = b.row /\ Click(x, y) => dialog' = b.dialog
             /\ y = b.row /\ x \in b.column + 2 .. b.column + b.label + 1 /\ b.dialog # "clear" =>
                   \E z \in Zones(current_tab) :
                       z.dialog = b.dialog /\ y \in z.rows /\ x \in z.columns
      ]_vars

\* A result that the user does not close is shown for the whole time, in the
\* dialogs that take the time when the work is done.
ShownInFull ==
    [][ResultTimesOut => onscreen = Timeout \/ dialog \in PathDialogs]_vars

\* Every result goes away by itself, and the menu is back.
ResultEnds == stage \in Results ~> Menu

\* Nothing of a file is lost between its lines: what is written to them is the
\* text cut at every new line and where a line is full, and each fits the
\* memory it is given.  A line shows what is not of the file only if nothing of
\* the file is on it.
LinesHoldText ==
    stage = "view" /\ dialog = "read" =>
        /\ \A k \in 1 .. line_count : lines[k] # <<>> /\ Len(Written(lines[k])) <= WIDTH
        /\ \E cut \in [1 .. line_count - 1 -> {<<>>, <<NewLine>>}] :
              /\ text = FlattenSeq([k \in 1 .. line_count |->
                            IF k = line_count THEN Written(lines[k])
                            ELSE Written(lines[k]) \o cut[k]])
              /\ \A k \in 1 .. line_count - 1 :
                    cut[k] = <<>> => Len(Written(lines[k])) = WIDTH - 1

\* The reader is never scrolled past its last page, nor further above the
\* first line than the window is larger than the text.
WithinPages ==
    stage = "view" =>
        \/ top_line \in 0 .. line_count - Page
        \/ line_count < Page /\ top_line \in line_count - Page .. 0

\* Paging skips no line: the first line shown next was shown, or comes after
\* the last that was.
NoLineSkipped ==
    [][PageUp \/ PageDown =>
          /\ top_line' <= top_line + Page
          /\ top_line <= (IF top_line' < 0 THEN 0 ELSE top_line') + Page]_vars
=============================================================================
