------------------------------ MODULE SearchPage ------------------------------
(***************************************************************************)
(* A documentation page with its search panel (SearchBox) and the iframe   *)
(* that shows results (SearchResults): the events of the reader, of the    *)
(* timers and of the iframe, each wired to the handlers as menu.js, the    *)
(* body of every page and the result pages do.                             *)
(*                                                                         *)
(* A key is pressed and released in two events: the field listens to the   *)
(* release, the selection window to the press, the items of the iframe to  *)
(* both; the focus may have moved in between.  Following a result leaves   *)
(* the page and is no step.                                                *)
(***************************************************************************)
EXTENDS SearchBox, SearchResults

CONSTANTS MaxStrays,   \* how many forgotten timers may run
          MaxMessages  \* how many take_focus messages may be under way

VARIABLES
  focus,     \* what has the focus: "field", "menu", "results" or "elsewhere"
  held,      \* the key that is held down, "none" if none is
  messages   \* the take_focus messages under way to the page in the iframe

pageVars == <<focus, held, messages>>
vars == <<box, menuShown, hideTimeout, over, frame, open, item,
          focus, held, messages>>

menuVars == <<menuShown, hideTimeout, over>>

\* What the field may hold, what is searched of it, and where that leads.
FieldTexts == Texts \cup {Label, <<>>}
Stripped   == {NoLead(t) : t \in FieldTexts}
Locations  == {Target(s, t) : s \in 0 .. Sections - 1, t \in Stripped}

Panels == [field : FieldTexts, lastSearchValue : Stripped,
           searchIndex : 0 .. Sections, searchActive : BOOLEAN, boxActive : BOOLEAN,
           results : BOOLEAN, keyTimeout : BOOLEAN, strays : Nat,
           location : Locations \cup {Idle}, unsearched : BOOLEAN, skipped : BOOLEAN]

ASSUME IdleAssumption == Idle \notin Locations

\* What is searched is what a page is asked for, and an item is none of "no item".
ASSUME QueriesAssumption == Stripped \subseteq Queries /\ NoItem \notin Nat \X Nat

\* Taking the leading spaces off a text takes off nothing but spaces, and leaves its
\* first letter first.
ASSUME TextsAssumption ==
  /\ NoLead(<<>>) = <<>>
  /\ \A t \in FieldTexts : /\ NoSpaces(NoLead(t)) = NoSpaces(t)
                           /\ NoSpaces(NoSpaces(t)) = NoSpaces(t)
                           /\ NoLead(t) = <<>> <=> NoSpaces(t) = <<>>
                           /\ NoLead(t) # <<>> => NoLead(t)[1] = NoSpaces(t)[1]

\* What may be pressed; "char" is any other key, and changes the text of the field.
Keys == {"char", "up", "down", "shiftDown", "left", "right", "enter", "escape"}

Init == /\ SearchBoxInit
        /\ ResultsInit
        /\ focus = "elsewhere"
        /\ held = "none"
        /\ messages = 0

\* The focus goes to `target': the field notices that it loses or gains it, after
\* the panel has become b.
FocusMoves(b, target) ==
  /\ focus' = target
  /\ box' = IF focus = "field" /\ target # "field" THEN OnSearchFieldFocus(b, FALSE)
            ELSE IF focus # "field" /\ target = "field" THEN OnSearchFieldFocus(b, TRUE)
            ELSE b

(***************************************************************************)
(* The reader, by pointer.                                                 *)
(***************************************************************************)
FocusField == /\ focus # "field"
              /\ FocusMoves(box, "field")
              /\ item' = NoItem
              /\ UNCHANGED <<menuVars, frame, open, held, messages>>

\* Something else is pressed, or tabbed to; it may be an item of the selection window.
LeaveField == /\ focus = "field"
              /\ FocusMoves(box, IF over = "menu" /\ menuShown THEN "menu" ELSE "elsewhere")
              /\ UNCHANGED <<menuVars, resultsVars, held, messages>>

\* Text is pasted or dropped into the field: no key is released.
PasteText == /\ focus = "field"
             /\ \E t \in Texts : box' = [box EXCEPT !.field = t, !.unsearched = TRUE]
             /\ UNCHANGED <<menuVars, resultsVars, pageVars>>

\* The link MSearchClose is shown with the results; pressing it took the focus.
ClickClose == /\ box.results
              /\ focus # "field"
              /\ box' = CloseResultsWindow(box)
              /\ focus' = "elsewhere"
              /\ item' = NoItem
              /\ UNCHANGED <<menuVars, frame, open, held, messages>>

Enter(place) == /\ over = "away"
                /\ place = "menu" => menuShown
                /\ over' = place
                /\ OnSearchSelectShow
                /\ UNCHANGED <<box, resultsVars, pageVars>>

Exit == /\ over # "away"
        /\ over' = "away"
        /\ OnSearchSelectHide
        /\ UNCHANGED <<box, resultsVars, pageVars>>

\* Pressing an item of the selection window gave it the focus; releasing it selects.
ClickSelectItem == /\ menuShown /\ over = "menu"
                   /\ focus # "field"
                   /\ \E id \in 0 .. Sections - 1 : box' = OnSelectItem(box, id)
                   /\ focus' = "menu"
                   /\ item' = NoItem
                   /\ UNCHANGED <<menuVars, frame, open, held, messages>>

\* The link of a row with children toggles them.
ClickRow == /\ box.results
            /\ \E i \in Visible : /\ HasChildren(i)
                                  /\ Toggle(i)
                                  /\ item' = <<i, 0>>
            /\ FocusMoves(box, "results")
            /\ UNCHANGED <<menuVars, frame, held, messages>>

(***************************************************************************)
(* The reader, by key.                                                     *)
(***************************************************************************)
\* The press reaches the field: only a character does something.
PressInField(k) == /\ focus = "field"
                   /\ k \notin {"left", "right"}  \* as "up"
                   /\ box' \in IF k = "char"
                                 THEN {[box EXCEPT !.field = t, !.unsearched = TRUE] : t \in Texts}
                                 ELSE {box}
                   /\ UNCHANGED <<menuVars, resultsVars, focus>>

\* OnSearchSelectKey.
SelectByArrow(k) ==
  /\ k \in {"up", "down", "shiftDown"}
  /\ box' = IF k = "up" THEN MenuUp(box) ELSE MenuDown(box)
  /\ UNCHANGED <<menuVars, focus>>

ConfirmSelection(k) ==
  /\ k \in {"enter", "escape"}
  /\ ~SelectThrows(box, box.searchIndex)
  /\ FocusMoves(OnSelectItem(box, box.searchIndex), "field")
  /\ CloseSelectionWindow
  /\ UNCHANGED <<hideTimeout, over>>

\* The handler ends in an error before it closes the window, and so does not keep
\* Enter from following the focused item's link.
ConfirmFails(k) ==
  /\ k \in {"enter", "escape"}
  /\ SelectThrows(box, box.searchIndex)
  /\ LET failed == OnSelectItem(box, box.searchIndex)
     IN  box' \in IF k = "enter" THEN {OnSelectItem(failed, id) : id \in 0 .. Sections - 1}
                                 ELSE {failed}
  /\ UNCHANGED <<menuVars, focus>>

PressInMenu(k) == /\ focus = "menu"
                  /\ SelectByArrow(k) \/ ConfirmSelection(k) \/ ConfirmFails(k)
                  /\ UNCHANGED resultsVars

\* What Nav and NavChild do for a key they act upon.
Navigate(k) ==
  \/ /\ k = "up" /\ Above(item) = NoItem
     /\ item' = NoItem
     /\ FocusMoves(box, "field")
     /\ UNCHANGED open
  \/ /\ k = "up" /\ Above(item) # NoItem
     /\ item' = Above(item)
     /\ UNCHANGED <<open, box, focus>>
  \/ /\ k \in {"down", "shiftDown"}
     /\ item' = Below(item)
     /\ UNCHANGED <<open, box, focus>>
  \/ /\ k \in {"left", "right"}
     /\ open' = IF k = "right" THEN OpenRow(item) ELSE CloseRow(item)
     /\ UNCHANGED <<item, box, focus>>
  \/ /\ k = "escape"
     /\ FocusMoves(CloseResultsWindow(box), "field")
     /\ item' = NoItem
     /\ UNCHANGED open
  \/ /\ k = "char"
     /\ UNCHANGED <<open, item, box, focus>>

\* keydown; Enter is left to the link, which toggles a row's children or leaves the page.
PressInResults(k) ==
  /\ focus = "results" /\ item # NoItem
  /\ \/ Navigate(k)
     \/ /\ k = "enter" /\ item[2] = 0 /\ HasChildren(item[1])
        /\ Toggle(item[1])
        /\ UNCHANGED <<item, box, focus>>
  /\ UNCHANGED <<menuVars, frame>>

Press == /\ held = "none"
         /\ \E k \in Keys : /\ held' = IF k \in {"left", "right"} THEN "char" ELSE k
                            /\ PressInField(k) \/ PressInMenu(k) \/ PressInResults(k)
         /\ UNCHANGED messages

\* OnSearchFieldChange, for the key that is released over the field.  Keys it does
\* not name it does not tell apart.
ReleaseInField ==
  /\ focus = "field"
  /\ \/ /\ held \notin {"shiftDown", "escape"}
        /\ box' = CompareText(KillTimer(box))
        /\ messages' = IF held \in {"down", "enter"} THEN messages + 1 ELSE messages
        /\ UNCHANGED <<menuVars, focus>>
     \/ /\ held = "shiftDown"
        /\ OnSearchSelectShow
        /\ FocusMoves(LeaveForMenu(box), "menu")
        /\ UNCHANGED <<over, messages>>
     \/ /\ held = "escape"
        /\ box' = EscapeField(box)
        /\ focus' = "elsewhere"
        /\ UNCHANGED <<menuVars, messages>>
  /\ UNCHANGED resultsVars

ReleaseElsewhere ==
  /\ focus # "field"
  /\ UNCHANGED <<box, menuVars, resultsVars, focus, messages>>

Release == /\ held # "none"
           /\ held' = "none"
           /\ ReleaseInField \/ ReleaseElsewhere

(***************************************************************************)
(* The browser.                                                            *)
(***************************************************************************)
KeyTimer == /\ box.keyTimeout
            /\ box' = Search([box EXCEPT !.keyTimeout = FALSE])
            /\ UNCHANGED <<menuVars, resultsVars, pageVars>>

StrayTimer == /\ box.strays > 0
              /\ box' = Search([box EXCEPT !.strays = @ - 1])
              /\ UNCHANGED <<menuVars, resultsVars, pageVars>>

\* CloseSelectionWindow by its timer; a hidden item cannot keep the focus.
HideTimer == /\ hideTimeout
             /\ hideTimeout' = FALSE
             /\ CloseSelectionWindow
             /\ focus' = IF focus = "menu" THEN "elsewhere" ELSE focus
             /\ UNCHANGED <<box, over, resultsVars, held, messages>>

\* The iframe arrives; messages to the page it leaves are lost.
Load == /\ box.location # Idle
        /\ LoadedPage(box.location)
        /\ box' = [box EXCEPT !.location = Idle]
        /\ focus' = IF focus = "results" THEN "elsewhere" ELSE focus
        /\ messages' = 0
        /\ UNCHANGED <<menuVars, held>>

\* The listener of a result page; nomatches.html has none, nor has the first page.
\* What is not displayed does not take the focus.
TakeFocus == /\ messages > 0
             /\ messages' = messages - 1
             /\ IF NavNext(1) # 0 /\ box.results
                  THEN item' = <<NavNext(1), 0>> /\ FocusMoves(box, "results")
                  ELSE UNCHANGED <<item, box, focus>>
             /\ UNCHANGED <<menuVars, frame, open, held>>

Pointer == \/ FocusField \/ LeaveField \/ PasteText \/ ClickClose
           \/ Enter("icon") \/ Enter("menu") \/ Exit \/ ClickSelectItem \/ ClickRow

Browser == KeyTimer \/ StrayTimer \/ HideTimer \/ Load \/ TakeFocus

\* MaxStrays and MaxMessages stop the reader, never the browser.
InBounds == box'.strays <= MaxStrays /\ messages' <= MaxMessages

Next == \/ (Pointer \/ Press \/ Release) /\ InBounds
        \/ Browser

Spec == Init /\ [][Next]_vars

(***************************************************************************)
(* Properties.                                                             *)
(***************************************************************************)
\* The type of every variable.  searchIndex may be one more than the last section.
TypeOK ==
  /\ box \in Panels
  /\ menuShown \in BOOLEAN /\ hideTimeout \in BOOLEAN
  /\ over \in {"icon", "menu", "away"}
  /\ frame \in Locations \cup {[page |-> NoPage, query |-> <<>>]}
  /\ open \subseteq Nat
  /\ item = NoItem \/ item \in Nat \X Nat
  /\ focus \in {"field", "menu", "results", "elsewhere"}
  /\ held \in Keys \cup {"none"}
  /\ messages \in Nat

\* The timers of the field have fired and the iframe has arrived.
Quiet == ~box.keyTimeout /\ box.strays = 0 /\ box.location = Idle

\* An item that has the focus is one the reader can see: its row matches, its parent
\* is open and the results are shown (Search, Toggle, Nav, CloseResultsWindow).
FocusOnShown == item # NoItem => focus = "results" /\ box.results /\ item \in Shown

\* Deactivating the panel does not stop its timers, so results may open while it is
\* inactive; but all they can show is what the label finds (Activate, Search).
InactiveShowsLabel ==
  ~box.boxActive => /\ box.field = Label /\ ~box.searchActive
                    /\ box.results => box.lastSearchValue = NoLead(Label)

\* Whatever was typed, selected, closed and reopened, in whatever order timers fired
\* and pages arrived: when nothing is under way, the results shown are those of the
\* section selected and of the text in the field, but for spaces (OnSearchFieldChange
\* compares without them), provided the panel was told of the text, the section exists
\* and was not selected while there was no text to search (the comparison is of texts
\* only).
ResultsMatchField ==
  Quiet /\ box.results /\ box.field # <<>> /\ ~box.unsearched /\ ~box.skipped
    /\ box.searchIndex < Sections
    => LET wanted == Target(box.searchIndex, NoLead(box.field))
       IN  /\ frame.page = wanted.page
           /\ NoSpaces(frame.query) = NoSpaces(wanted.query)

\* The selection window closes when the pointer has left both it and its icon, or when
\* a key that was meant for it says so: never under the pointer (hideTimeout).
ClosesWhenLeft ==
  [][menuShown /\ ~menuShown' => over = "away" \/ (focus = "menu" /\ focus' = "field")]_vars

\* Down and Up go to the next and the previous item shown, in reading order, across
\* rows that are hidden and rows whose children are open; Up leaves the first for the
\* field (Nav, NavChild, NavNext, NavPrev).
WalksInOrder ==
  [][focus = "results" /\ item # NoItem /\ held = "none" =>
       /\ held' = "down" => item' = NextShown(item)
       /\ held' = "up"   => /\ item' = PreviousShown(item)
                            /\ item' = NoItem => focus' = "field"]_vars
=============================================================================
