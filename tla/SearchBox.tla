------------------------------ MODULE SearchBox ------------------------------
(***************************************************************************)
(* The search panel of the documentation pages: the object `searchBox' of  *)
(* docs/html/search/search.js, without the page around it.  Its methods    *)
(* call one another, so they are operators from the panel's state to the   *)
(* panel's next state; module SearchPage says which event calls which.     *)
(*                                                                         *)
(* A text is a sequence of characters, in lower case (the code folds case  *)
(* before every use), each of them one code unit.  Positions, widths and   *)
(* the marks beside the selection items are layout and left out; so is     *)
(* lastResultsPage, which is only written.                                 *)
(***************************************************************************)
EXTENDS Integers, Sequences, FiniteSetsExt

CONSTANTS
  Texts,      \* what the reader may type
  Label,      \* searchLabel, the text of the field when nobody searches
  Sections,   \* the number of selection items
  Contents,   \* Contents[s]: the first characters for which section s has a page
  NoMatches,  \* the page nomatches.html
  Idle        \* the iframe is not being sent anywhere

ASSUME SectionsAssumption == /\ Sections \in Nat \ {0}
                             /\ \A s \in 0 .. Sections - 1 : Contents[s] # <<>>
ASSUME LabelAssumption == Label # <<>>

VARIABLES
  box,          \* the panel, as a record
  menuShown,    \* display of MSearchSelectWindow
  hideTimeout,  \* TRUE while the timer that will hide it runs
  over          \* where the pointer is: "icon", "menu" or "away"

boxVars == <<box, menuShown, hideTimeout, over>>

Space == " "

\* value.replace(/ +/g, ""): the text without its spaces.
NoSpaces(text) == SelectSeq(text, LAMBDA c : c # Space)

\* value.replace(/^ +/, ""): the text without the spaces it begins with.
NoLead(text) ==
  LET letters == {n \in DOMAIN text : text[n] # Space}
  IN  IF letters = {} THEN <<>> ELSE SubSeq(text, Min(letters), Len(text))

(***************************************************************************)
(* The panel.  keyTimeout and strays count timers that will call Search:   *)
(* the one the member keyTimeout names, and those no member names any      *)
(* more.  location is the page the iframe is being sent to, Idle once it   *)
(* is there.  results stands for the results window and for its close      *)
(* button, which are always shown and hidden together.  unsearched and     *)
(* skipped are history: the reader has changed the text and the panel does *)
(* not know; a section was selected beside open results and not searched.  *)
(***************************************************************************)
Panel == [field |-> Label, lastSearchValue |-> <<>>, searchIndex |-> 0,
          searchActive |-> FALSE, boxActive |-> FALSE, results |-> FALSE,
          keyTimeout |-> FALSE, strays |-> 0, location |-> Idle,
          unsearched |-> FALSE, skipped |-> FALSE]

\* Where a text is searched: the page of its first character in the section,
\* with the text as query; every page has the empty text, so the first is taken.
Target(section, text) ==
  LET pages == {n \in DOMAIN Contents[section] :
                  text = <<>> \/ Contents[section][n] = text[1]}
  IN  IF pages = {} THEN [page |-> NoMatches, query |-> <<>>]
                    ELSE [page |-> <<section, Min(pages)>>, query |-> text]

\* Search: keyTimeout is forgotten before anything else, whether the timer has
\* fired or not; beyond the last section there is no entry to look up and the
\* call ends in a TypeError.
Search(b) ==
  LET forgotten == [b EXCEPT !.keyTimeout = FALSE,
                             !.strays = IF b.keyTimeout THEN @ + 1 ELSE @]
      text      == NoLead(b.field)
  IN  IF b.searchIndex = Sections
        THEN forgotten
        ELSE [forgotten EXCEPT !.location = Target(b.searchIndex, text),
                               !.results = TRUE,
                               !.lastSearchValue = text,
                               !.unsearched = FALSE, !.skipped = FALSE]

\* Slip: deactivating leaves the reader's text in the field.
Activate_KeepsText(b, isActive) ==
  IF isActive \/ b.results
    THEN IF b.field = Label
           THEN [b EXCEPT !.boxActive = TRUE, !.field = <<>>, !.searchActive = TRUE]
           ELSE [b EXCEPT !.boxActive = TRUE]
    ELSE [b EXCEPT !.boxActive = FALSE, !.searchActive = FALSE,
                   !.lastSearchValue = <<>>, !.unsearched = FALSE]

\* Opens the panel, clearing the label, or resets it; while results are shown it is
\* always opened.
Activate(b, isActive) ==
  IF isActive \/ b.results
    THEN IF b.field = Label
           THEN [b EXCEPT !.boxActive = TRUE, !.field = <<>>, !.searchActive = TRUE]
           ELSE [b EXCEPT !.boxActive = TRUE]
    ELSE [b EXCEPT !.boxActive = FALSE, !.field = Label, !.searchActive = FALSE,
                   !.lastSearchValue = <<>>, !.unsearched = FALSE]

OnSearchFieldFocus(b, isActive) == Activate(b, isActive)

CloseResultsWindow(b) == Activate([b EXCEPT !.results = FALSE], FALSE)

\* A selection is looked up at once if there is something to look up.
Searches(b) == b.searchActive /\ NoSpaces(b.field) # <<>>

\* Slip: a selection waits for the next change of the text.
OnSelectItem_Waits(b, id) ==
  [b EXCEPT !.searchIndex = id, !.skipped = @ \/ (b.results /\ ~Searches(b))]

OnSelectItem(b, id) ==
  LET selected == [b EXCEPT !.searchIndex = id]
  IN  IF Searches(b) THEN Search(selected)
                     ELSE [selected EXCEPT !.skipped = @ \/ b.results]

\* The call ends in the TypeError of Search.
SelectThrows(b, id) == Searches(b) /\ id = Sections

\* Slip: Up does not stop at the first section.
MenuUp_BelowFirst(b) == [b EXCEPT !.searchIndex = @ - 1]

\* Down and Up in the selection window; the bound of Down is one too far.
MenuDown(b) == IF b.searchIndex < Sections
                 THEN OnSelectItem(b, b.searchIndex + 1) ELSE b
MenuUp(b)   == IF b.searchIndex > 0
                 THEN OnSelectItem(b, b.searchIndex - 1) ELSE b

\* OnSearchFieldChange begins by stopping the timer it knows of.
KillTimer(b) == [b EXCEPT !.keyTimeout = FALSE]

\* ... and ends, for most keys, by comparing the text with the last one searched.
CompareText(b) ==
  LET text == NoSpaces(b.field)
      seen == [b EXCEPT !.unsearched = FALSE]
  IN  IF text = b.lastSearchValue THEN seen
      ELSE IF text # <<>> THEN [seen EXCEPT !.keyTimeout = TRUE]
      ELSE [seen EXCEPT !.results = FALSE, !.lastSearchValue = <<>>]

\* Shift and Down leave for the selection window without comparing.
LeaveForMenu(b) == [KillTimer(b) EXCEPT !.unsearched = @ \/ b.keyTimeout]

\* Escape: the field loses the focus, then everything is reset.
EscapeField(b) ==
  LET blurred == OnSearchFieldFocus(KillTimer(b), FALSE)
  IN  Activate([blurred EXCEPT !.results = FALSE, !.lastSearchValue = <<>>], FALSE)

(***************************************************************************)
(* The selection window and its timer.                                     *)
(***************************************************************************)
\* Slip: a window that is shown again may still be hidden by the timer.
OnSearchSelectShow_KeepsTimer == menuShown' = TRUE /\ UNCHANGED hideTimeout

OnSearchSelectShow == menuShown' = TRUE /\ hideTimeout' = FALSE
OnSearchSelectHide == hideTimeout' = TRUE /\ UNCHANGED menuShown
CloseSelectionWindow == menuShown' = FALSE

SearchBoxInit == /\ box = OnSelectItem(Panel, 0)
                 /\ menuShown = FALSE
                 /\ hideTimeout = FALSE
                 /\ over = "away"
=============================================================================
