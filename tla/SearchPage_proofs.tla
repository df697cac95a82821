-------------------------- MODULE SearchPage_proofs --------------------------
(***************************************************************************)
(* Theorems about SearchPage, for any texts, label, sections, pages and    *)
(* rows.  The handlers are operators from panel to panel, and so are the   *)
(* lemmas: each says that a handler makes of a good panel a good one.      *)
(***************************************************************************)
EXTENDS SearchPage, WellFoundedInduction, TLAPS

(* The page the iframe shows, or will when it arrives. *)
Coming(b, page) == IF b.location # Idle THEN b.location ELSE page

(* The same page, with queries that differ by spaces at most. *)
Alike(p, q) == p.page = q.page /\ NoSpaces(p.query) = NoSpaces(q.query)

(* The panel ought to show what was searched last ... *)
Current(b) == b.results /\ ~b.skipped /\ b.searchIndex < Sections

(* ... which the reader has left as it is. *)
Settled(b) == ~b.unsearched /\ ~b.keyTimeout /\ b.strays = 0 /\ b.field # <<>>

(* The results shown are those of the text searched last ... *)
ShowsLast(b, page) ==
  Current(b) => Alike(Coming(b, page), Target(b.searchIndex, b.lastSearchValue))

(* ... which is the text in the field, unless a timer will search for that. *)
LastIsField(b) ==
  Current(b) /\ Settled(b) => NoSpaces(b.field) = NoSpaces(b.lastSearchValue)

Closed(b) ==
  ~b.boxActive => /\ b.field = Label /\ ~b.searchActive
                  /\ b.results => b.lastSearchValue = NoLead(Label)

Good(b, page) == b \in Panels /\ ShowsLast(b, page) /\ LastIsField(b) /\ Closed(b)

-----------------------------------------------------------------------------
(* The handlers of the panel. *)
LEMMA TargetLocation ==
  ASSUME NEW s \in 0 .. Sections - 1, NEW t \in Stripped
  PROVE  Target(s, t) \in Locations /\ Target(s, t) # Idle
BY IdleAssumption DEF Locations

LEMMA SearchGood ==
  ASSUME NEW b \in Panels, Closed(b), NEW page
  PROVE  Good(Search(b), page) /\ Search(b).boxActive = b.boxActive
<1> DEFINE forgotten == [b EXCEPT !.keyTimeout = FALSE,
                                  !.strays = IF b.keyTimeout THEN @ + 1 ELSE @]
           text == NoLead(b.field)
           target == Target(b.searchIndex, text)
<1>1. /\ forgotten \in Panels /\ forgotten.searchIndex = b.searchIndex
      /\ forgotten.boxActive = b.boxActive /\ forgotten.field = b.field
      /\ forgotten.searchActive = b.searchActive /\ forgotten.results = b.results
      /\ forgotten.lastSearchValue = b.lastSearchValue
      /\ forgotten.keyTimeout = FALSE
  <2> DEFINE n == IF b.keyTimeout THEN b.strays + 1 ELSE b.strays
  <2>1. b.strays \in Nat
    BY DEF Panels
  <2>2. n \in Nat
    BY <2>1
  <2>3. forgotten = [b EXCEPT !.keyTimeout = FALSE, !.strays = n]
    OBVIOUS
  <2> HIDE DEF n
  <2> QED BY <2>2, <2>3 DEF Panels
<1>2. CASE b.searchIndex = Sections
  <2>1. Search(b) = forgotten
    BY <1>2 DEF Search
  <2> HIDE DEF forgotten
  <2> QED BY <1>1, <1>2, <2>1, SectionsAssumption DEF Good, ShowsLast, LastIsField, Closed, Current
<1>3. CASE b.searchIndex # Sections
  <2> DEFINE s == [forgotten EXCEPT !.location = target, !.results = TRUE,
                                    !.lastSearchValue = text,
                                    !.unsearched = FALSE, !.skipped = FALSE]
  <2>1. Search(b) = s
    BY <1>3 DEF Search
  <2>2. text \in Stripped /\ b.searchIndex \in 0 .. Sections - 1 /\ b.field \in FieldTexts
    BY <1>3, SectionsAssumption DEF Panels, Stripped
  <2>3. target \in Locations /\ target # Idle
    BY <2>2, TargetLocation
  <2>4. NoSpaces(text) = NoSpaces(b.field)
    BY <2>2, TextsAssumption
  <2> HIDE DEF forgotten, target, text
  <2>5. s \in Panels
    BY <1>1, <2>2, <2>3 DEF Panels
  <2>6. /\ s.location = target /\ s.lastSearchValue = text /\ s.field = b.field
        /\ s.searchIndex = b.searchIndex /\ s.boxActive = b.boxActive
        /\ s.searchActive = b.searchActive
    BY <1>1 DEF Panels
  <2> HIDE DEF s
  <2>7. ShowsLast(s, page)
    BY <2>3, <2>6 DEF ShowsLast, Alike, Coming, target, text
  <2>8. LastIsField(s)
    BY <2>4, <2>6 DEF LastIsField
  <2>9. Closed(s)
    BY <2>6 DEF Closed, text
  <2> QED BY <2>1, <2>5, <2>6, <2>7, <2>8, <2>9 DEF Good
<1> QED BY <1>2, <1>3

(* Without results there is nothing to match. *)
LEMMA NoResultsGood ==
  ASSUME NEW b \in Panels, NEW page, ~b.results, Closed(b)
  PROVE  Good(b, page)
BY DEF Good, ShowsLast, LastIsField, Current

LEMMA DeactivateGood ==
  ASSUME NEW b \in Panels, NEW page, ~b.results
  PROVE  Good(Activate(b, FALSE), page)
<1> DEFINE a == [b EXCEPT !.boxActive = FALSE, !.field = Label, !.searchActive = FALSE,
                          !.lastSearchValue = <<>>, !.unsearched = FALSE]
<1>1. Activate(b, FALSE) = a
  BY DEF Activate
<1>2. Label \in FieldTexts /\ <<>> \in Stripped
  BY TextsAssumption DEF FieldTexts, Stripped
<1>3. a \in Panels /\ ~a.results /\ a.field = Label /\ ~a.searchActive
  BY <1>2 DEF Panels
<1> HIDE DEF a
<1> QED BY <1>1, <1>3, NoResultsGood DEF Closed

LEMMA ActivateGood ==
  ASSUME NEW b, NEW page, Good(b, page), NEW isActive \in BOOLEAN
  PROVE  /\ Good(Activate(b, isActive), page)
         /\ isActive => Activate(b, isActive).boxActive
<1>0. b \in Panels
  BY DEF Good
<1>1. CASE ~isActive /\ ~b.results
  BY <1>0, <1>1, DeactivateGood
<1>2. CASE (isActive \/ b.results) /\ b.field = Label
  <2> DEFINE a == [b EXCEPT !.boxActive = TRUE, !.field = <<>>, !.searchActive = TRUE]
  <2>1. Activate(b, isActive) = a
    BY <1>2 DEF Activate
  <2>2. /\ a \in Panels /\ a.boxActive /\ a.field = <<>>
        /\ a.results = b.results /\ a.skipped = b.skipped /\ a.searchIndex = b.searchIndex
        /\ a.location = b.location /\ a.lastSearchValue = b.lastSearchValue
    BY <1>0 DEF Panels, FieldTexts
  <2> HIDE DEF a
  <2>3. ShowsLast(a, page)
    BY <2>2 DEF Good, ShowsLast, Coming, Current
  <2> QED BY <2>1, <2>2, <2>3 DEF Good, LastIsField, Closed, Settled
<1>3. CASE (isActive \/ b.results) /\ b.field # Label
  <2> DEFINE a == [b EXCEPT !.boxActive = TRUE]
  <2>1. Activate(b, isActive) = a
    BY <1>3 DEF Activate
  <2>2. /\ a \in Panels /\ a.boxActive /\ a.field = b.field
        /\ a.results = b.results /\ a.skipped = b.skipped /\ a.searchIndex = b.searchIndex
        /\ a.location = b.location /\ a.lastSearchValue = b.lastSearchValue
        /\ a.unsearched = b.unsearched /\ a.keyTimeout = b.keyTimeout /\ a.strays = b.strays
    BY <1>0 DEF Panels
  <2> HIDE DEF a
  <2>3. ShowsLast(a, page)
    BY <2>2 DEF Good, ShowsLast, Coming, Current
  <2>4. LastIsField(a)
    BY <2>2 DEF Good, LastIsField, Current, Settled
  <2> QED BY <2>1, <2>2, <2>3, <2>4 DEF Good, Closed
<1> QED BY <1>1, <1>2, <1>3

LEMMA CloseResultsGood ==
  ASSUME NEW b \in Panels, NEW page
  PROVE  Good(CloseResultsWindow(b), page)
<1>1. [b EXCEPT !.results = FALSE] \in Panels /\ ~[b EXCEPT !.results = FALSE].results
  BY DEF Panels
<1> QED BY <1>1, DeactivateGood DEF CloseResultsWindow

LEMMA OnSelectItemGood ==
  ASSUME NEW b, NEW page, Good(b, page), NEW id \in 0 .. Sections
  PROVE  /\ Good(OnSelectItem(b, id), page)
         /\ OnSelectItem(b, id).boxActive = b.boxActive
<1> DEFINE selected == [b EXCEPT !.searchIndex = id]
           waiting  == [selected EXCEPT !.skipped = @ \/ b.results]
<1>0. b \in Panels /\ Closed(b)
  BY DEF Good
<1>1. /\ selected \in Panels /\ selected.boxActive = b.boxActive
      /\ selected.field = b.field /\ selected.searchActive = b.searchActive
      /\ selected.results = b.results /\ selected.lastSearchValue = b.lastSearchValue
  BY <1>0 DEF Panels
<1>2. Closed(selected)
  BY <1>0, <1>1 DEF Closed
<1>3. CASE Searches(b)
  <2>1. OnSelectItem(b, id) = Search(selected)
    BY <1>3 DEF OnSelectItem
  <2> QED BY <1>1, <1>2, <2>1, SearchGood
<1>4. CASE ~Searches(b)
  <2>1. OnSelectItem(b, id) = waiting
    BY <1>4 DEF OnSelectItem
  <2>2. selected.skipped \in BOOLEAN /\ b.results \in BOOLEAN
    BY <1>0, <1>1 DEF Panels
  <2> HIDE DEF selected
  <2>3. waiting \in Panels
    BY <1>1, <2>2 DEF Panels
  <2>4. /\ waiting.skipped = (selected.skipped \/ b.results)
        /\ waiting.results = b.results /\ waiting.boxActive = b.boxActive
        /\ waiting.field = b.field /\ waiting.searchActive = b.searchActive
        /\ waiting.lastSearchValue = b.lastSearchValue
    BY <1>1 DEF Panels
  <2> HIDE DEF waiting
  <2>5. ShowsLast(waiting, page) /\ LastIsField(waiting)
    BY <2>4 DEF ShowsLast, LastIsField, Current
  <2>6. Closed(waiting)
    BY <1>0, <2>4 DEF Closed
  <2> QED BY <2>1, <2>3, <2>4, <2>5, <2>6 DEF Good
<1> QED BY <1>3, <1>4

LEMMA ActivateTyped ==
  ASSUME NEW b \in Panels, NEW isActive \in BOOLEAN
  PROVE  Activate(b, isActive) \in Panels
<1>1. Label \in FieldTexts /\ <<>> \in FieldTexts /\ <<>> \in Stripped
  BY TextsAssumption DEF FieldTexts, Stripped
<1> QED BY <1>1 DEF Activate, Panels

(* Leaving the field by Escape. *)
LEMMA EscapeGood ==
  ASSUME NEW b \in Panels, NEW page
  PROVE  Good(EscapeField(b), page)
<1> DEFINE blurred == OnSearchFieldFocus(KillTimer(b), FALSE)
           reset   == [blurred EXCEPT !.results = FALSE, !.lastSearchValue = <<>>]
<1>1. KillTimer(b) \in Panels
  BY DEF KillTimer, Panels
<1>2. blurred \in Panels
  BY <1>1, ActivateTyped DEF OnSearchFieldFocus
<1>3. <<>> \in Stripped
  BY TextsAssumption DEF FieldTexts, Stripped
<1> HIDE DEF blurred
<1>4. reset \in Panels /\ ~reset.results
  BY <1>2, <1>3 DEF Panels
<1>5. EscapeField(b) = Activate(reset, FALSE)
  BY DEF EscapeField, blurred
<1> HIDE DEF reset
<1> QED BY <1>4, <1>5, DeactivateGood

(* The text is changed: the panel is not told. *)
LEMMA EditGood ==
  ASSUME NEW b, NEW page, Good(b, page), b.boxActive, NEW t \in Texts
  PROVE  /\ Good([b EXCEPT !.field = t, !.unsearched = TRUE], page)
         /\ [b EXCEPT !.field = t, !.unsearched = TRUE].boxActive
<1> DEFINE e == [b EXCEPT !.field = t, !.unsearched = TRUE]
<1>1. b \in Panels /\ t \in FieldTexts
  BY DEF Good, FieldTexts
<1>2. /\ e \in Panels /\ e.boxActive = b.boxActive /\ e.unsearched
      /\ e.results = b.results /\ e.skipped = b.skipped /\ e.searchIndex = b.searchIndex
      /\ e.location = b.location /\ e.lastSearchValue = b.lastSearchValue
  BY <1>1 DEF Panels
<1> HIDE DEF e
<1>3. ShowsLast(e, page)
  BY <1>2 DEF Good, ShowsLast, Coming, Current
<1>4. LastIsField(e) /\ Closed(e)
  BY <1>2 DEF LastIsField, Settled, Closed
<1>5. Good(e, page) /\ e.boxActive
  BY <1>2, <1>3, <1>4 DEF Good
<1> QED BY <1>5 DEF e

(* Shift and Down: a text whose timer is stopped is a text not told of. *)
LEMMA LeaveForMenuGood ==
  ASSUME NEW b, NEW page, Good(b, page), b.boxActive
  PROVE  Good(LeaveForMenu(b), page) /\ LeaveForMenu(b).boxActive
<1> DEFINE l == LeaveForMenu(b)
<1>1. b \in Panels /\ b.unsearched \in BOOLEAN /\ b.keyTimeout \in BOOLEAN
  BY DEF Good, Panels
<1>2. /\ l \in Panels /\ l.boxActive = b.boxActive
      /\ l.unsearched = (b.unsearched \/ b.keyTimeout) /\ l.field = b.field
      /\ l.strays = b.strays
      /\ l.results = b.results /\ l.skipped = b.skipped /\ l.searchIndex = b.searchIndex
      /\ l.location = b.location /\ l.lastSearchValue = b.lastSearchValue
  BY <1>1 DEF Panels, LeaveForMenu, KillTimer
<1> HIDE DEF l
<1>3. ShowsLast(l, page)
  BY <1>2 DEF Good, ShowsLast, Coming, Current
<1>4. LastIsField(l)
  BY <1>2 DEF Good, LastIsField, Current, Settled
<1>5. Closed(l)
  BY <1>2 DEF Closed
<1>6. Good(l, page) /\ l.boxActive
  BY <1>2, <1>3, <1>4, <1>5 DEF Good
<1> QED BY <1>6 DEF l

(* The comparison: equal texts need no search, others get a timer, none needs *)
(* no results.                                                                *)
LEMMA CompareTextGood ==
  ASSUME NEW b, NEW page, Good(b, page), b.boxActive
  PROVE  /\ Good(CompareText(KillTimer(b)), page)
         /\ CompareText(KillTimer(b)).boxActive
<1> DEFINE k == KillTimer(b)
           seen == [k EXCEPT !.unsearched = FALSE]
           text == NoSpaces(b.field)
<1>1. b \in Panels /\ b.field \in FieldTexts
  BY DEF Good, Panels
<1>2. /\ k \in Panels /\ k.field = b.field /\ k.lastSearchValue = b.lastSearchValue
      /\ seen \in Panels /\ seen.field = b.field /\ seen.boxActive
      /\ seen.results = b.results /\ seen.skipped = b.skipped
      /\ seen.searchIndex = b.searchIndex /\ seen.location = b.location
      /\ seen.lastSearchValue = b.lastSearchValue
  BY <1>1 DEF Panels, KillTimer
<1>3. CASE text = b.lastSearchValue
  <2>1. CompareText(k) = seen
    BY <1>2, <1>3 DEF CompareText
  <2>2. NoSpaces(b.field) = NoSpaces(b.lastSearchValue)
    BY <1>1, <1>3, TextsAssumption
  <2> HIDE DEF k, seen
  <2>3. ShowsLast(seen, page) /\ LastIsField(seen) /\ Closed(seen)
    BY <1>2, <2>2 DEF Good, ShowsLast, Coming, Current, LastIsField, Closed
  <2>4. Good(CompareText(k), page) /\ CompareText(k).boxActive
    BY <1>2, <2>1, <2>3 DEF Good
  <2> QED BY <2>4 DEF k
<1>4. CASE text # b.lastSearchValue /\ text # <<>>
  <2> DEFINE timed == [seen EXCEPT !.keyTimeout = TRUE]
  <2>1. CompareText(k) = timed
    BY <1>2, <1>4 DEF CompareText
  <2> HIDE DEF k, seen
  <2>2. /\ timed \in Panels /\ timed.boxActive /\ timed.keyTimeout
        /\ timed.results = b.results /\ timed.skipped = b.skipped
        /\ timed.searchIndex = b.searchIndex /\ timed.location = b.location
        /\ timed.lastSearchValue = b.lastSearchValue
    BY <1>2 DEF Panels
  <2> HIDE DEF timed
  <2>3. ShowsLast(timed, page) /\ LastIsField(timed) /\ Closed(timed)
    BY <2>2 DEF Good, ShowsLast, Coming, Current, LastIsField, Settled, Closed
  <2>4. Good(CompareText(k), page) /\ CompareText(k).boxActive
    BY <2>1, <2>2, <2>3 DEF Good
  <2> QED BY <2>4 DEF k
<1>5. CASE text # b.lastSearchValue /\ text = <<>>
  <2> DEFINE emptied == [seen EXCEPT !.results = FALSE, !.lastSearchValue = <<>>]
  <2>1. CompareText(k) = emptied
    BY <1>2, <1>5 DEF CompareText
  <2>2. <<>> \in Stripped
    BY TextsAssumption DEF FieldTexts, Stripped
  <2> HIDE DEF k, seen
  <2>3. emptied \in Panels /\ emptied.boxActive /\ ~emptied.results
    BY <1>2, <2>2 DEF Panels
  <2> HIDE DEF emptied
  <2>4. Good(emptied, page)
    BY <2>3, NoResultsGood DEF Closed
  <2>5. Good(CompareText(k), page) /\ CompareText(k).boxActive
    BY <2>1, <2>3, <2>4
  <2> QED BY <2>5 DEF k
<1> QED BY <1>3, <1>4, <1>5

(* The two timers, and the arrows of the selection window. *)
LEMMA TimersGood ==
  ASSUME NEW b, NEW page, Good(b, page)
  PROVE  /\ /\ Good(Search([b EXCEPT !.keyTimeout = FALSE]), page)
            /\ Search([b EXCEPT !.keyTimeout = FALSE]).boxActive = b.boxActive
         /\ b.strays > 0 =>
              /\ Good(Search([b EXCEPT !.strays = @ - 1]), page)
              /\ Search([b EXCEPT !.strays = @ - 1]).boxActive = b.boxActive
<1>1. b \in Panels /\ Closed(b) /\ b.strays \in Nat
  BY DEF Good, Panels
<1>2. ASSUME NEW n \in Nat, NEW p, p = [b EXCEPT !.strays = n]
      PROVE  Good(Search(p), page) /\ Search(p).boxActive = b.boxActive
  <2>1. /\ p \in Panels /\ p.boxActive = b.boxActive /\ p.field = b.field
        /\ p.searchActive = b.searchActive /\ p.results = b.results
        /\ p.lastSearchValue = b.lastSearchValue
    BY <1>1, <1>2 DEF Panels
  <2>2. Closed(p)
    BY <1>1, <2>1 DEF Closed
  <2> QED BY <2>1, <2>2, SearchGood
<1>3. ASSUME NEW p, p = [b EXCEPT !.keyTimeout = FALSE]
      PROVE  Good(Search(p), page) /\ Search(p).boxActive = b.boxActive
  <2>1. /\ p \in Panels /\ p.boxActive = b.boxActive /\ p.field = b.field
        /\ p.searchActive = b.searchActive /\ p.results = b.results
        /\ p.lastSearchValue = b.lastSearchValue
    BY <1>1, <1>3 DEF Panels
  <2>2. Closed(p)
    BY <1>1, <2>1 DEF Closed
  <2> QED BY <2>1, <2>2, SearchGood
<1>4. b.strays > 0 => b.strays - 1 \in Nat
  BY <1>1
<1> QED BY <1>2, <1>3, <1>4

LEMMA MenuGood ==
  ASSUME NEW b, NEW page, Good(b, page)
  PROVE  Good(MenuUp(b), page) /\ Good(MenuDown(b), page)
<1>1. b.searchIndex \in 0 .. Sections /\ Sections \in Nat
  BY SectionsAssumption DEF Good, Panels
<1>2. b.searchIndex > 0 => b.searchIndex - 1 \in 0 .. Sections
  BY <1>1
<1>3. b.searchIndex < Sections => b.searchIndex + 1 \in 0 .. Sections
  BY <1>1
<1> QED BY <1>2, <1>3, OnSelectItemGood DEF MenuUp, MenuDown

(* The iframe arrives where it was sent. *)
LEMMA LoadGood ==
  ASSUME NEW b, NEW page, Good(b, page), b.location # Idle
  PROVE  /\ Good([b EXCEPT !.location = Idle], b.location)
         /\ [b EXCEPT !.location = Idle].boxActive = b.boxActive
<1> DEFINE l == [b EXCEPT !.location = Idle]
<1>1. b \in Panels
  BY DEF Good
<1>2. /\ l \in Panels /\ l.location = Idle /\ l.boxActive = b.boxActive
      /\ l.field = b.field /\ l.searchActive = b.searchActive
      /\ l.unsearched = b.unsearched /\ l.keyTimeout = b.keyTimeout /\ l.strays = b.strays
      /\ l.results = b.results /\ l.skipped = b.skipped /\ l.searchIndex = b.searchIndex
      /\ l.lastSearchValue = b.lastSearchValue
  BY <1>1 DEF Panels
<1> HIDE DEF l
<1>3. ShowsLast(l, b.location)
  BY <1>2 DEF Good, ShowsLast, Coming, Current
<1>4. LastIsField(l) /\ Closed(l)
  BY <1>2 DEF Good, LastIsField, Current, Settled, Closed
<1>5. Good(l, b.location) /\ l.boxActive = b.boxActive
  BY <1>2, <1>3, <1>4 DEF Good
<1> QED BY <1>5 DEF l

-----------------------------------------------------------------------------
(***************************************************************************)
(* The inductive invariant.  The field that has the focus is that of an    *)
(* active panel, so that what is typed is typed into no label; the timer   *)
(* that hides the selection window runs only while the pointer is away.    *)
(***************************************************************************)
Sound == /\ Good(box, frame)
         /\ focus = "field" => box.boxActive
         /\ hideTimeout => over = "away"

LEMMA MovesSound ==
  ASSUME NEW b, Good(b, frame), focus = "field" => b.boxActive,
         NEW target, FocusMoves(b, target)
  PROVE  Good(box', frame) /\ (target = "field" => box'.boxActive)
<1>1. CASE focus = "field" /\ target # "field"
  BY <1>1, ActivateGood DEF FocusMoves, OnSearchFieldFocus
<1>2. CASE focus # "field" /\ target = "field"
  BY <1>2, ActivateGood DEF FocusMoves, OnSearchFieldFocus
<1>3. CASE focus = "field" <=> target = "field"
  BY <1>3 DEF FocusMoves
<1> QED BY <1>1, <1>2, <1>3

LEMMA InitSound == Init => Sound
<1> SUFFICES ASSUME Init PROVE Sound
  OBVIOUS
<1>1. Label \in FieldTexts /\ <<>> \in Stripped /\ 0 \in 0 .. Sections
  BY TextsAssumption, SectionsAssumption DEF FieldTexts, Stripped
<1>2. Panel \in Panels /\ ~Panel.results /\ Closed(Panel)
  BY <1>1 DEF Panel, Panels, Closed
<1>3. Good(Panel, frame)
  BY <1>2, NoResultsGood
<1>4. Good(OnSelectItem(Panel, 0), frame)
  BY <1>1, <1>3, OnSelectItemGood
<1> QED BY <1>4 DEF Init, SearchBoxInit, Sound

LEMMA PointerSound ==
  ASSUME Sound, Pointer
  PROVE  Sound'
<1> USE DEF resultsVars, menuVars, pageVars
<1>0. Good(box, frame) /\ (focus = "field" => box.boxActive) /\ box \in Panels
  BY DEF Sound, Good
<1>1. CASE FocusField
  BY <1>0, <1>1, MovesSound DEF FocusField, Sound, FocusMoves
<1>2. CASE LeaveField
  <2>1. PICK target \in {"menu", "elsewhere"} : FocusMoves(box, target)
    BY <1>2 DEF LeaveField
  <2>2. Good(box', frame) /\ focus' # "field"
    BY <1>0, <2>1, MovesSound DEF FocusMoves
  <2> QED BY <1>2, <2>2 DEF LeaveField, Sound
<1>3. CASE PasteText
  BY <1>0, <1>3, EditGood DEF PasteText, Sound
<1>4. CASE ClickClose
  BY <1>0, <1>4, CloseResultsGood DEF ClickClose, Sound
<1>5. ASSUME NEW place \in {"icon", "menu"}, Enter(place)
      PROVE  Sound'
  BY <1>0, <1>5 DEF Enter, OnSearchSelectShow, Sound
<1>6. CASE Exit
  BY <1>0, <1>6 DEF Exit, OnSearchSelectHide, Sound
<1>7. CASE ClickSelectItem
  <2>1. \A id \in 0 .. Sections - 1 : Good(OnSelectItem(box, id), frame)
    BY <1>0, SectionsAssumption, OnSelectItemGood
  <2> QED BY <1>7, <2>1 DEF ClickSelectItem, Sound
<1>8. CASE ClickRow
  <2>1. FocusMoves(box, "results")
    BY <1>8 DEF ClickRow
  <2>2. Good(box', frame)
    BY <1>0, <2>1, MovesSound
  <2>3. focus' # "field" /\ UNCHANGED <<frame, hideTimeout, over>>
    BY <1>8, <2>1 DEF ClickRow, FocusMoves
  <2> QED BY <2>2, <2>3 DEF Sound
<1> QED BY <1>1, <1>2, <1>3, <1>4, <1>5, <1>6, <1>7, <1>8 DEF Pointer

LEMMA PressSound ==
  ASSUME Sound, NEW k, PressInField(k) \/ PressInMenu(k) \/ PressInResults(k)
  PROVE  Sound'
<1> USE DEF resultsVars, menuVars
<1>0. Good(box, frame) /\ (focus = "field" => box.boxActive) /\ box \in Panels
  BY DEF Sound, Good
<1>1. CASE PressInField(k)
  <2>1. focus = "field" /\ box.boxActive /\ UNCHANGED <<menuVars, frame, focus>>
    BY <1>0, <1>1 DEF PressInField
  <2>2. box' = box \/ \E t \in Texts : box' = [box EXCEPT !.field = t, !.unsearched = TRUE]
    BY <1>1 DEF PressInField
  <2>3. Good(box', frame) /\ box'.boxActive
    BY <1>0, <2>1, <2>2, EditGood
  <2> QED BY <2>1, <2>3 DEF Sound
<1>2. CASE PressInMenu(k)
  <2>1. box.searchIndex \in 0 .. Sections
    BY <1>0 DEF Panels
  <2>2. /\ Good(OnSelectItem(box, box.searchIndex), frame)
        /\ OnSelectItem(box, box.searchIndex).boxActive = box.boxActive
    BY <1>0, <2>1, OnSelectItemGood
  <2>3. CASE SelectByArrow(k)
    BY <1>0, <1>2, <2>3, MenuGood DEF PressInMenu, SelectByArrow, Sound
  <2>4. CASE ConfirmSelection(k)
    <3>1. FocusMoves(OnSelectItem(box, box.searchIndex), "field")
      BY <2>4 DEF ConfirmSelection
    <3>2. Good(box', frame) /\ box'.boxActive
      BY <1>0, <2>2, <3>1, MovesSound
    <3> QED BY <1>2, <2>4, <3>2 DEF PressInMenu, ConfirmSelection, Sound
  <2>5. CASE ConfirmFails(k)
    <3>1. \A id \in 0 .. Sections - 1 :
            Good(OnSelectItem(OnSelectItem(box, box.searchIndex), id), frame)
      BY <2>2, SectionsAssumption, OnSelectItemGood
    <3> QED BY <1>0, <1>2, <2>2, <2>5, <3>1 DEF PressInMenu, ConfirmFails, Sound
  <2> QED BY <1>2, <2>3, <2>4, <2>5 DEF PressInMenu
<1>3. CASE PressInResults(k)
  <2>1. focus # "field" /\ UNCHANGED <<menuVars, frame>>
    BY <1>3 DEF PressInResults
  <2>2. Good(CloseResultsWindow(box), frame)
    BY <1>0, CloseResultsGood
  <2>3. /\ Good(box', frame)
        /\ focus' = "field" => box'.boxActive
    <3>1. CASE FocusMoves(box, "field") \/ FocusMoves(CloseResultsWindow(box), "field")
      BY <1>0, <2>1, <2>2, <3>1, MovesSound
    <3>2. CASE UNCHANGED <<box, focus>>
      BY <1>0, <3>2
    <3> QED BY <1>3, <3>1, <3>2 DEF PressInResults, Navigate
  <2> QED BY <2>1, <2>3 DEF Sound
<1> QED BY <1>1, <1>2, <1>3

LEMMA ReleaseSound ==
  ASSUME Sound, ReleaseInField \/ ReleaseElsewhere
  PROVE  Sound'
<1> USE DEF resultsVars, menuVars
<1>0. Good(box, frame) /\ (focus = "field" => box.boxActive) /\ box \in Panels
  BY DEF Sound, Good
<1>1. CASE ReleaseInField /\ box' = CompareText(KillTimer(box)) /\ UNCHANGED <<menuVars, focus>>
  BY <1>0, <1>1, CompareTextGood DEF ReleaseInField, Sound
<1>2. CASE ReleaseInField /\ OnSearchSelectShow /\ FocusMoves(LeaveForMenu(box), "menu")
  <2>1. Good(LeaveForMenu(box), frame) /\ LeaveForMenu(box).boxActive
    BY <1>0, <1>2, LeaveForMenuGood DEF ReleaseInField
  <2>2. Good(box', frame)
    BY <1>2, <2>1, MovesSound
  <2> QED BY <1>2, <2>2 DEF ReleaseInField, FocusMoves, OnSearchSelectShow, Sound
<1>3. CASE ReleaseInField /\ box' = EscapeField(box) /\ focus' = "elsewhere" /\ UNCHANGED menuVars
  BY <1>0, <1>3, EscapeGood DEF ReleaseInField, Sound
<1>4. CASE ReleaseElsewhere
  BY <1>0, <1>4 DEF ReleaseElsewhere, Sound
<1> QED BY <1>1, <1>2, <1>3, <1>4 DEF ReleaseInField

LEMMA BrowserSound ==
  ASSUME Sound, Browser
  PROVE  Sound'
<1> USE DEF resultsVars, menuVars, pageVars
<1>0. Good(box, frame) /\ (focus = "field" => box.boxActive)
  BY DEF Sound
<1>1. CASE KeyTimer
  BY <1>0, <1>1, TimersGood DEF KeyTimer, Sound
<1>2. CASE StrayTimer
  BY <1>0, <1>2, TimersGood DEF StrayTimer, Sound
<1>3. CASE HideTimer
  BY <1>0, <1>3 DEF HideTimer, Sound
<1>4. CASE Load
  BY <1>0, <1>4, LoadGood DEF Load, LoadedPage, Sound
<1>5. CASE TakeFocus
  BY <1>0, <1>5, MovesSound DEF TakeFocus, FocusMoves, Sound
<1> QED BY <1>1, <1>2, <1>3, <1>4, <1>5 DEF Browser

LEMMA StepSound ==
  ASSUME Sound, [Next]_vars
  PROVE  Sound'
<1>1. CASE Press
  BY <1>1, PressSound DEF Press
<1>2. CASE Release
  BY <1>2, ReleaseSound DEF Release
<1>3. CASE UNCHANGED vars
  BY <1>3 DEF vars, Sound
<1> QED BY <1>1, <1>2, <1>3, PointerSound, BrowserSound DEF Next

LEMMA AlwaysSound == Spec => []Sound
BY InitSound, StepSound, PTL DEF Spec

-----------------------------------------------------------------------------
(* Two texts that differ by spaces at most lead to the same page. *)
LEMMA AlikeTargets ==
  ASSUME NEW s, NEW x \in FieldTexts, NEW y \in FieldTexts, NoSpaces(x) = NoSpaces(y)
  PROVE  Alike(Target(s, NoLead(x)), Target(s, NoLead(y)))
<1> DEFINE a == NoLead(x)
           b == NoLead(y)
<1>1. /\ a = <<>> <=> b = <<>>
      /\ a # <<>> => a[1] = b[1]
      /\ NoSpaces(a) = NoSpaces(b)
  BY TextsAssumption
<1> HIDE DEF a, b
<1>2. \A n \in DOMAIN Contents[s] :
        (a = <<>> \/ Contents[s][n] = a[1]) <=> (b = <<>> \/ Contents[s][n] = b[1])
  BY <1>1
<1>3. {n \in DOMAIN Contents[s] : a = <<>> \/ Contents[s][n] = a[1]}
        = {n \in DOMAIN Contents[s] : b = <<>> \/ Contents[s][n] = b[1]}
  BY <1>2
<1>4. Alike(Target(s, a), Target(s, b))
  BY <1>1, <1>3 DEF Alike, Target
<1> QED BY <1>4 DEF a, b

(* A panel that is not active shows its label and, if results are open, what   *)
(* the label finds, whatever the timers of the field do after it was           *)
(* deactivated (Activate, Search).                                             *)
THEOREM InactivePanel == Spec => []InactiveShowsLabel
<1>1. Sound => InactiveShowsLabel
  BY DEF Sound, Good, Closed, InactiveShowsLabel
<1> QED BY <1>1, AlwaysSound, PTL

(* When no timer runs and the iframe has arrived, the results shown are those  *)
(* of the section and the text the reader sees, provided the panel was told of *)
(* both (Search, OnSearchFieldChange, OnSelectItem).                           *)
THEOREM ResultsFollowField == Spec => []ResultsMatchField
<1>1. Sound => ResultsMatchField
  <2> SUFFICES ASSUME Sound, Quiet, box.results, box.field # <<>>, ~box.unsearched,
                      ~box.skipped, box.searchIndex < Sections
               PROVE  Alike(frame, Target(box.searchIndex, NoLead(box.field)))
    BY DEF ResultsMatchField, Alike
  <2>1. Current(box) /\ Settled(box) /\ Coming(box, frame) = frame
    BY DEF Quiet, Current, Settled, Coming
  <2>2. /\ Alike(frame, Target(box.searchIndex, box.lastSearchValue))
        /\ NoSpaces(box.field) = NoSpaces(box.lastSearchValue)
        /\ box.field \in FieldTexts /\ box.lastSearchValue \in Stripped
    BY <2>1 DEF Sound, Good, ShowsLast, LastIsField, Panels
  <2>3. PICK t \in FieldTexts : box.lastSearchValue = NoLead(t)
    BY <2>2 DEF Stripped
  <2>4. NoSpaces(t) = NoSpaces(box.field)
    BY <2>2, <2>3, TextsAssumption
  <2>5. Alike(Target(box.searchIndex, NoLead(t)), Target(box.searchIndex, NoLead(box.field)))
    BY <2>2, <2>4, AlikeTargets
  <2> QED BY <2>2, <2>3, <2>5 DEF Alike
<1> QED BY <1>1, AlwaysSound, PTL

(* The selection window never closes under the pointer, except by the key that *)
(* confirms a selection (OnSearchSelectShow, OnSearchSelectHide).              *)
THEOREM MenuStaysUnderPointer == Spec => ClosesWhenLeft
<1> DEFINE Leaves == menuShown /\ ~menuShown'
                       => over = "away" \/ (focus = "menu" /\ focus' = "field")
<1>1. Sound /\ [Next]_vars => [Leaves]_vars
  <2> SUFFICES ASSUME Sound, Next, menuShown, ~menuShown'
               PROVE  over = "away" \/ (focus = "menu" /\ focus' = "field")
    OBVIOUS
  <2> USE DEF menuVars, resultsVars, pageVars
  <2>1. ~Pointer
    BY DEF Pointer, FocusField, LeaveField, PasteText, ClickClose, Enter, Exit,
           OnSearchSelectShow, OnSearchSelectHide, ClickSelectItem, ClickRow
  <2>2. CASE Release
    BY <2>2 DEF Release, ReleaseInField, ReleaseElsewhere, OnSearchSelectShow
  <2>3. CASE Press
    BY <2>3 DEF Press, PressInField, PressInMenu, PressInResults, SelectByArrow,
                ConfirmSelection, ConfirmFails, FocusMoves
  <2>4. CASE Browser
    BY <2>4 DEF Browser, KeyTimer, StrayTimer, HideTimer, Load, TakeFocus, Sound
  <2> QED BY <2>1, <2>2, <2>3, <2>4 DEF Next
<1> QED BY <1>1, AlwaysSound, PTL DEF Spec, ClosesWhenLeft

-----------------------------------------------------------------------------
(***************************************************************************)
(* The items of the iframe.  A page's matching rows stand together, so the *)
(* row above the first of them that Nav asks for is the row it finds.      *)
(***************************************************************************)
LEMMA MinIn ==
  ASSUME NEW S \in SUBSET Nat, S # {}
  PROVE  Min(S) \in S /\ \A y \in S : Min(S) <= y
<1> DEFINE R == OpToRel(<, Nat)
<1>1. IsWellFoundedOn(R, Nat)
  BY NatLessThanWellFounded
<1>2. \A m, n \in Nat : m < n => <<m, n>> \in R
  BY DEF OpToRel
<1> HIDE DEF R
<1>3. PICK x \in S : \A y \in S : ~ (<<y, x>> \in R)
  BY <1>1, WFMin
<1>4. ASSUME NEW y \in S PROVE x <= y
  <2>1. x \in Nat /\ y \in Nat /\ ~ (<<y, x>> \in R)
    BY <1>3
  <2>2. ~ (y < x)
    BY <1>2, <2>1
  <2> QED BY <2>1, <2>2
<1> QED BY <1>3, <1>4 DEF Min

LEMMA MaxIn ==
  ASSUME NEW n \in Nat, NEW S \in SUBSET (0 .. n), S # {}
  PROVE  Max(S) \in S /\ \A y \in S : y <= Max(S)
<1> DEFINE T == {n - y : y \in S}
<1>1. T \in SUBSET Nat /\ T # {}
  <2>1. ASSUME NEW y \in S PROVE n - y \in Nat
    BY y \in 0 .. n
  <2> QED BY <2>1
<1> HIDE DEF T
<1>2. Min(T) \in T /\ \A z \in T : Min(T) <= z
  BY <1>1, MinIn
<1>3. PICK x \in S : Min(T) = n - x
  BY <1>2 DEF T
<1>4. \A y \in S : n - y \in T
  BY DEF T
<1>5. \A y \in S : x >= y
  BY <1>2, <1>3, <1>4
<1>6. Max(S) \in S /\ \A y \in S : Max(S) >= y
  BY <1>3, <1>5 DEF Max
<1> QED BY <1>6

FirstPage == [page |-> NoPage, query |-> <<>>]
Framed == frame \in Locations \cup {FirstPage}

LEMMA RowsTyped ==
  /\ Len(rows) \in Nat /\ DOMAIN rows = 1 .. Len(rows)
  /\ \A i \in DOMAIN rows : rows[i].children \in Nat
  /\ Visible \subseteq DOMAIN rows
<1>1. CASE frame.page \in DOMAIN Rows
  <2>1. rows = Rows[frame.page] /\ Visible \subseteq DOMAIN rows
    BY <1>1 DEF rows, Visible, Matches
  <2>2. rows \in Seq([id : Seq(STRING), children : Nat])
    BY <1>1, <2>1, RowsAssumption
  <2>3. \A i \in DOMAIN rows : rows[i] \in [id : Seq(STRING), children : Nat]
    <3> DEFINE S == [id : Seq(STRING), children : Nat]
    <3>1. rows \in Seq(S)
      BY <2>2
    <3> HIDE DEF S
    <3>2. \A i \in DOMAIN rows : rows[i] \in S
      BY <3>1
    <3> QED BY <3>2 DEF S
  <2>4. \A r \in [id : Seq(STRING), children : Nat] : r.children \in Nat
    OBVIOUS
  <2>5. Len(rows) \in Nat /\ DOMAIN rows = 1 .. Len(rows)
    BY <2>2
  <2> QED BY <2>1, <2>3, <2>4, <2>5
<1>2. CASE frame.page \notin DOMAIN Rows
  BY <1>2 DEF rows, Visible
<1> QED BY <1>1, <1>2

LEMMA QueriesSearched ==
  ASSUME Framed
  PROVE  frame.query \in Queries
<1>1. <<>> \in Stripped
  BY TextsAssumption DEF FieldTexts, Stripped
<1>2. \A s, t : Target(s, t).query \in {t, <<>>}
  BY DEF Target
<1> QED BY <1>1, <1>2, QueriesAssumption DEF Framed, FirstPage, Locations

LEMMA Together ==
  ASSUME Framed, NEW i \in Visible, NEW j \in Visible, NEW k \in i .. j
  PROVE  k \in Visible
<1>1. frame.page \in DOMAIN Rows /\ Visible = Matches(frame.page, frame.query)
  BY DEF Visible
<1>2. frame.query \in Queries
  BY QueriesSearched
<1>3. Visible = Min(Visible) .. Max(Visible)
  BY <1>1, <1>2, RowsSorted
<1>4. Visible \subseteq 1 .. Len(rows) /\ Len(rows) \in Nat
  BY RowsTyped
<1>5. Visible \in SUBSET Nat /\ Visible \in SUBSET (0 .. Len(rows)) /\ Visible # {}
  BY <1>4
<1>6. /\ Min(Visible) \in Visible /\ Min(Visible) <= i
      /\ Max(Visible) \in Visible /\ j <= Max(Visible)
  BY <1>4, <1>5, MinIn, MaxIn
<1>7. /\ i \in Nat /\ j \in Nat /\ k \in Nat /\ i <= k /\ k <= j
      /\ Min(Visible) \in Nat /\ Max(Visible) \in Nat
  <2>1. i \in Nat /\ j \in Nat /\ Min(Visible) \in Nat /\ Max(Visible) \in Nat
    BY <1>5, <1>6, Zenon
  <2> QED BY <2>1
<1>8. k \in Min(Visible) .. Max(Visible)
  BY <1>6, <1>7
<1> QED BY <1>3, <1>8

LEMMA NavNextFinds ==
  ASSUME NEW index \in Nat
  PROVE  /\ NavNext(index) = 0 => \A i \in Visible : i < index
         /\ NavNext(index) # 0 => /\ NavNext(index) \in Visible /\ NavNext(index) >= index
                                  /\ \A i \in Visible : i >= index => NavNext(index) <= i
<1> DEFINE m == {i \in Visible : i >= index}
<1>1. Visible \subseteq Nat \ {0}
  BY RowsTyped
<1>2. NavNext(index) = IF m = {} THEN 0 ELSE Min(m)
  BY DEF NavNext
<1>3. m \in SUBSET Nat
  BY <1>1
<1>4. m # {} => Min(m) \in m /\ \A y \in m : Min(m) <= y
  <2> HIDE DEF m
  <2> QED BY <1>3, MinIn
<1> QED BY <1>1, <1>2, <1>4

LEMMA NavPrevFinds ==
  ASSUME NEW index \in Nat
  PROVE  /\ NavPrev(index) = 0 => \A i \in Visible : i > index
         /\ NavPrev(index) # 0 => /\ NavPrev(index) \in Visible /\ NavPrev(index) <= index
                                  /\ \A i \in Visible : i <= index => i <= NavPrev(index)
<1> DEFINE m == {i \in Visible : i <= index}
<1>1. Visible \subseteq Nat \ {0}
  BY RowsTyped
<1>2. NavPrev(index) = IF m = {} THEN 0 ELSE Max(m)
  BY DEF NavPrev
<1>3. m \in SUBSET (0 .. index)
  <2>1. ASSUME NEW i \in m PROVE i \in 0 .. index
    BY <1>1
  <2> QED BY <2>1
<1>4. m # {} => Max(m) \in m /\ \A y \in m : y <= Max(m)
  <2> HIDE DEF m
  <2> QED BY <1>3, MaxIn
<1> QED BY <1>1, <1>2, <1>4

LEMMA ShownItems ==
  /\ \A at \in Shown : \E i \in Visible : \E c \in 0 .. rows[i].children :
                         at = <<i, c>> /\ (c = 0 \/ i \in open)
  /\ \A i \in Visible : <<i, 0>> \in Shown
  /\ \A i \in Visible : \A c \in 0 .. rows[i].children : i \in open => <<i, c>> \in Shown
  /\ Shown \subseteq Nat \X Nat
<1>1. \A i \in Visible : i \in Nat /\ rows[i].children \in Nat
  BY RowsTyped
<1>2. \A at \in Shown : \E i \in Visible : \E c \in 0 .. rows[i].children :
                          at = <<i, c>> /\ (c = 0 \/ i \in open)
  BY DEF Shown
<1>3. \A i \in Visible : \A c \in 0 .. rows[i].children : c = 0 \/ i \in open => <<i, c>> \in Shown
  BY DEF Shown
<1> QED BY <1>1, <1>2, <1>3

(* Items are read in a total order, so the neighbour of one is unique. *)
LEMMA BeforeTotal ==
  ASSUME NEW x \in Nat \X Nat, NEW y \in Nat \X Nat, ~Before(x, y), ~Before(y, x)
  PROVE  x = y
BY DEF Before

LEMMA NextIs ==
  ASSUME NEW x, NEW y \in Shown, Before(x, y),
         \A z \in Shown : Before(x, z) => ~Before(z, y)
  PROVE  NextShown(x) = y
<1> DEFINE later == {z \in Shown : Before(x, z)}
           next == CHOOSE u \in later : \A z \in later : ~Before(z, u)
<1>1. y \in later /\ NextShown(x) = next
  BY DEF NextShown
<1>2. next \in later /\ \A z \in later : ~Before(z, next)
  BY <1>1
<1>3. next = y
  <2> HIDE DEF next
  <2> QED BY <1>1, <1>2, ShownItems, BeforeTotal
<1> QED BY <1>1, <1>3

LEMMA PreviousIs ==
  ASSUME NEW x, NEW y \in Shown, Before(y, x),
         \A z \in Shown : Before(z, x) => ~Before(y, z)
  PROVE  PreviousShown(x) = y
<1> DEFINE earlier == {z \in Shown : Before(z, x)}
           previous == CHOOSE u \in earlier : \A z \in earlier : ~Before(u, z)
<1>1. y \in earlier /\ PreviousShown(x) = previous
  BY DEF PreviousShown
<1>2. previous \in earlier /\ \A z \in earlier : ~Before(previous, z)
  BY <1>1
<1>3. previous = y
  <2> HIDE DEF previous
  <2> QED BY <1>1, <1>2, ShownItems, BeforeTotal
<1> QED BY <1>1, <1>3

(* Rows with children may be open. *)
OpenRows == \A i \in open : i \in DOMAIN rows /\ HasChildren(i)

(* From the last item of a row on, the next one shown is the next row. *)
LEMMA NextRow ==
  ASSUME NEW i \in Visible, NEW c \in Nat, <<i, c>> \in Shown,
         \A d \in Nat : <<i, d>> \in Shown => d <= c
  PROVE  LET below == IF NavNext(i + 1) # 0 THEN <<NavNext(i + 1), 0>> ELSE <<i, c>>
         IN  below \in Shown /\ NextShown(<<i, c>>) = below
<1> DEFINE x == <<i, c>>
           n == NavNext(i + 1)
<1>1. i \in Nat /\ i + 1 \in Nat
  BY RowsTyped
<1>2. ASSUME NEW z \in Shown, Before(x, z)
      PROVE  /\ z[1] \in Visible /\ z[1] >= i + 1 /\ z[1] \in Nat /\ z[2] \in Nat
  <2>1. PICK j \in Visible : \E d \in 0 .. rows[j].children : z = <<j, d>>
    BY ShownItems
  <2>2. PICK d \in 0 .. rows[j].children : z = <<j, d>>
    BY <2>1
  <2>3. j \in Nat /\ d \in Nat
    BY RowsTyped
  <2>4. j # i
    BY <1>2, <2>2, <2>3 DEF Before
  <2>5. i < j
    BY <1>2, <2>2, <2>4 DEF Before
  <2> QED BY <1>1, <2>2, <2>3, <2>5
<1>3. CASE n # 0
  <2>1. n \in Visible /\ n >= i + 1 /\ \A j \in Visible : j >= i + 1 => n <= j
    BY <1>1, <1>3, NavNextFinds
  <2>2. n \in Nat /\ <<n, 0>> \in Shown
    BY <2>1, RowsTyped, ShownItems
  <2> HIDE DEF n
  <2>3. Before(x, <<n, 0>>)
    BY <1>1, <2>1, <2>2 DEF Before
  <2>4. \A z \in Shown : Before(x, z) => ~Before(z, <<n, 0>>)
    BY <1>2, <2>1, <2>2 DEF Before
  <2>5. NextShown(x) = <<n, 0>>
    BY <2>2, <2>3, <2>4, NextIs
  <2> QED BY <1>3, <2>2, <2>5 DEF n
<1>4. CASE n = 0
  <2>1. \A j \in Visible : j < i + 1
    BY <1>1, <1>4, NavNextFinds
  <2>2. \A z \in Shown : ~Before(x, z)
    BY <1>1, <1>2, <2>1
  <2>3. NextShown(x) = x
    BY <2>2 DEF NextShown
  <2> QED BY <1>4, <2>3
<1> QED BY <1>3, <1>4

LEMMA BelowIsNext ==
  ASSUME OpenRows, NEW x \in Shown
  PROVE  Below(x) \in Shown /\ NextShown(x) = Below(x)
<1>1. PICK i \in Visible : \E c \in 0 .. rows[i].children : x = <<i, c>> /\ (c = 0 \/ i \in open)
  BY ShownItems
<1>2. PICK c \in 0 .. rows[i].children : x = <<i, c>> /\ (c = 0 \/ i \in open)
  BY <1>1
<1>3. i \in Nat /\ rows[i].children \in Nat /\ c \in Nat
  BY RowsTyped
<1>4. ASSUME NEW d \in Nat, <<i, d>> \in Shown
      PROVE  d <= rows[i].children /\ (d = 0 \/ i \in open)
  BY <1>4, ShownItems
<1>5. x[1] = i /\ x[2] = c
  BY <1>2
<1>6. CASE i \in open /\ c < rows[i].children
  <2>1. Below(x) = <<i, c + 1>>
    BY <1>3, <1>5, <1>6 DEF Below, DownFromRow, DownFromChild
  <2>2. <<i, c + 1>> \in Shown
    BY <1>3, <1>6, ShownItems
  <2>3. Before(x, <<i, c + 1>>)
    BY <1>2, <1>3 DEF Before
  <2>4. ASSUME NEW z \in Shown, Before(x, z) PROVE ~Before(z, <<i, c + 1>>)
    <3>1. z \in Nat \X Nat
      BY ShownItems
    <3>2. z[1] \in Nat /\ z[2] \in Nat
      BY <3>1
    <3> QED BY <1>3, <1>5, <2>4, <3>2 DEF Before
  <2> QED BY <2>1, <2>2, <2>3, <2>4, NextIs
<1>7. CASE ~(i \in open /\ c < rows[i].children)
  <2>1. i \in open => c > 0
    BY <1>3, <1>7 DEF OpenRows, HasChildren
  <2>2. Below(x) = IF NavNext(i + 1) # 0 THEN <<NavNext(i + 1), 0>> ELSE <<i, c>>
    BY <1>2, <1>3, <1>5, <1>7, <2>1 DEF Below, DownFromRow, DownFromChild
  <2>3. \A d \in Nat : <<i, d>> \in Shown => d <= c
    BY <1>2, <1>3, <1>4, <1>7
  <2> QED BY <1>2, <1>3, <2>2, <2>3, NextRow
<1> QED BY <1>6, <1>7

LEMMA AboveIsPrevious ==
  ASSUME Framed, OpenRows, NEW x \in Shown
  PROVE  /\ PreviousShown(x) = Above(x)
         /\ Above(x) # NoItem => Above(x) \in Shown
<1>1. PICK i \in Visible : \E c \in 0 .. rows[i].children : x = <<i, c>> /\ (c = 0 \/ i \in open)
  BY ShownItems
<1>2. PICK c \in 0 .. rows[i].children : x = <<i, c>> /\ (c = 0 \/ i \in open)
  BY <1>1
<1>3. i \in Nat \ {0} /\ i - 1 \in Nat /\ rows[i].children \in Nat /\ c \in Nat
  BY RowsTyped
<1>5. x[1] = i /\ x[2] = c
  BY <1>2
<1>6. CASE c > 0
  <2>1. Above(x) = <<i, c - 1>>
    BY <1>3, <1>5, <1>6 DEF Above, UpFromChild
  <2>2. <<i, c - 1>> \in Shown
    BY <1>2, <1>3, <1>6, ShownItems
  <2>3. Before(<<i, c - 1>>, x)
    BY <1>2, <1>3 DEF Before
  <2>4. ASSUME NEW z \in Shown, Before(z, x) PROVE ~Before(<<i, c - 1>>, z)
    <3>1. z \in Nat \X Nat
      BY ShownItems
    <3>2. z[1] \in Nat /\ z[2] \in Nat
      BY <3>1
    <3> QED BY <1>3, <1>5, <2>4, <3>2 DEF Before
  <2> QED BY <2>1, <2>2, <2>3, <2>4, PreviousIs
<1>7. CASE c = 0
  <2> DEFINE n == NavPrev(i - 1)
  <2>1. ASSUME NEW z \in Shown, Before(z, x)
        PROVE  \E j \in Visible : \E d \in 0 .. rows[j].children :
                 z = <<j, d>> /\ j <= i - 1 /\ (d = 0 \/ j \in open) /\ d \in Nat
    <3>1. PICK j \in Visible : \E d \in 0 .. rows[j].children :
                                 z = <<j, d>> /\ (d = 0 \/ j \in open)
      BY ShownItems
    <3>2. PICK d \in 0 .. rows[j].children : z = <<j, d>> /\ (d = 0 \/ j \in open)
      BY <3>1
    <3>3. j \in Nat /\ d \in Nat
      BY RowsTyped
    <3>4. j < i
      BY <1>3, <1>5, <1>7, <2>1, <3>2, <3>3 DEF Before
    <3>5. j <= i - 1
      BY <1>3, <3>3, <3>4
    <3> QED BY <3>2, <3>3, <3>5
  <2>2. CASE n = 0
    <3>1. \A j \in Visible : j > i - 1
      BY <1>3, <2>2, NavPrevFinds
    <3>2. ASSUME NEW z \in Shown, Before(z, x) PROVE FALSE
      <4>1. PICK j \in Visible : j <= i - 1
        BY <2>1, <3>2
      <4> QED BY <1>3, <3>1, <4>1, RowsTyped
    <3>3. PreviousShown(x) = NoItem
      BY <3>2 DEF PreviousShown
    <3>4. Above(x) = NoItem
      BY <1>5, <1>7, <2>2 DEF Above, UpFromRow
    <3> QED BY <3>3, <3>4
  <2>3. CASE n # 0
    <3> DEFINE r == i - 1
    <3>1. n \in Visible /\ n <= r /\ n \in Nat
      <4>1. n \in Visible /\ n <= r
        BY <1>3, <2>3, NavPrevFinds
      <4> HIDE DEF n, r
      <4> QED BY <4>1, RowsTyped
    <3>2. r \in n .. i
      BY <1>3, <3>1
    <3>3. r \in Visible
      BY <3>1, <3>2, Together
    <3>4. n = r
      BY <1>3, <2>3, <3>1, <3>3, NavPrevFinds
    <3>5. r \in Nat /\ rows[r].children \in Nat /\ r < i
      BY <1>3, <3>3, RowsTyped
    <3> DEFINE last == IF r \in open THEN rows[r].children ELSE 0
    <3>6. Above(x) = <<r, last>>
      BY <1>5, <1>7, <2>3, <3>4 DEF Above, UpFromRow, OpenRows
    <3> HIDE DEF r
    <3>7. <<r, last>> \in Shown /\ last \in Nat
      BY <3>3, <3>5, ShownItems
    <3>8. Before(<<r, last>>, x)
      BY <1>5, <3>5 DEF Before
    <3>9. ASSUME NEW z \in Shown, Before(z, x) PROVE ~Before(<<r, last>>, z)
      <4>1. PICK j \in Visible : \E d \in 0 .. rows[j].children :
              z = <<j, d>> /\ j <= r /\ (d = 0 \/ j \in open) /\ d \in Nat
        BY <2>1, <3>9 DEF r
      <4>2. PICK d \in 0 .. rows[j].children :
              z = <<j, d>> /\ j <= r /\ (d = 0 \/ j \in open) /\ d \in Nat
        BY <4>1
      <4>3. j \in Nat /\ rows[j].children \in Nat /\ d <= rows[j].children
        BY <4>2, RowsTyped
      <4>4. j = r => d <= last
        BY <4>2, <4>3
      <4> HIDE DEF last
      <4> QED BY <3>5, <3>7, <4>2, <4>3, <4>4 DEF Before
    <3>10. PreviousShown(x) = <<r, last>>
      BY <3>7, <3>8, <3>9, PreviousIs
    <3> QED BY <3>6, <3>7, <3>10
  <2> QED BY <2>2, <2>3
<1> QED BY <1>3, <1>6, <1>7

-----------------------------------------------------------------------------
(***************************************************************************)
(* Where the focus is.  The item that has it is shown, so that the rows    *)
(* next to it exist; a row is open only if it has children, so that the    *)
(* first of them exists.                                                   *)
(***************************************************************************)
Ordinary == /\ menuShown \in BOOLEAN /\ hideTimeout \in BOOLEAN
            /\ over \in {"icon", "menu", "away"}
            /\ focus \in {"field", "menu", "results", "elsewhere"}
            /\ held \in Keys \cup {"none"}
            /\ messages \in Nat

WalkInv == Ordinary /\ Framed /\ OpenRows /\ FocusOnShown

(* What is shown depends on the page and the open rows only. *)
LEMMA ShownSame ==
  ASSUME UNCHANGED <<frame, open>>
  PROVE  /\ rows' = rows /\ Visible' = Visible /\ Shown' = Shown
         /\ \A i : HasChildren(i)' = HasChildren(i)
BY DEF rows, Visible, Matches, Shown, HasChildren

LEMMA RowsSame ==
  ASSUME UNCHANGED frame
  PROVE  /\ rows' = rows /\ Visible' = Visible
         /\ \A i : HasChildren(i)' = HasChildren(i)
BY DEF rows, Visible, Matches, HasChildren

(* Activating and deactivating the panel leaves its results as they are. *)
LEMMA MovesKeep ==
  ASSUME NEW b \in Panels, NEW target, FocusMoves(b, target)
  PROVE  box'.results = b.results /\ focus' = target
<1>1. \A a \in BOOLEAN : Activate(b, a).results = b.results
  BY DEF Activate, Panels
<1> QED BY <1>1 DEF FocusMoves, OnSearchFieldFocus

LEMMA SearchKeeps ==
  ASSUME NEW b \in Panels
  PROVE  b.results => Search(b).results
<1> DEFINE forgotten == [b EXCEPT !.keyTimeout = FALSE,
                                  !.strays = IF b.keyTimeout THEN @ + 1 ELSE @]
           n == IF b.keyTimeout THEN b.strays + 1 ELSE b.strays
<1>1. forgotten = [b EXCEPT !.keyTimeout = FALSE, !.strays = n]
  OBVIOUS
<1> HIDE DEF n
<1>2. DOMAIN forgotten = DOMAIN b /\ forgotten.results = b.results
  BY <1>1 DEF Panels
<1>3. "results" \in DOMAIN b
  BY DEF Panels
<1> HIDE DEF forgotten
<1>4. Search(b) = IF b.searchIndex = Sections THEN forgotten
                  ELSE [forgotten EXCEPT !.location = Target(b.searchIndex, NoLead(b.field)),
                                         !.results = TRUE,
                                         !.lastSearchValue = NoLead(b.field),
                                         !.unsearched = FALSE, !.skipped = FALSE]
  BY DEF Search, forgotten
<1> QED BY <1>2, <1>3, <1>4

(* No item has the focus after the step, or the one that had it still is shown. *)
LEMMA ItemDropped ==
  ASSUME item' = NoItem
  PROVE  FocusOnShown'
BY DEF FocusOnShown

LEMMA ItemKept ==
  ASSUME FocusOnShown, UNCHANGED <<frame, open, item>>,
         item # NoItem => focus' = "results" /\ box'.results
  PROVE  FocusOnShown'
BY ShownSame DEF FocusOnShown

LEMMA OpenKept ==
  ASSUME OpenRows, UNCHANGED <<frame, open>>
  PROVE  OpenRows'
BY ShownSame DEF OpenRows

(* Toggling a row that is shown leaves it shown, and opens nothing without children. *)
LEMMA RowToggled ==
  ASSUME OpenRows, UNCHANGED frame, NEW i \in Visible, HasChildren(i),
         open' \in {open, open \cup {i}, open \ {i}}
  PROVE  OpenRows' /\ <<i, 0>> \in Shown'
<1>1. rows' = rows /\ Visible' = Visible /\ \A j : HasChildren(j)' = HasChildren(j)
  BY RowsSame
<1>2. i \in DOMAIN rows
  BY RowsTyped
<1>3. OpenRows'
  BY <1>1, <1>2 DEF OpenRows
<1>4. rows'[i].children \in Nat
  BY <1>1, <1>2, RowsTyped
<1>5. <<i, 0>> \in Shown'
  BY <1>1, <1>4 DEF Shown
<1> QED BY <1>3, <1>5

LEMMA PointerWalks ==
  ASSUME Sound, WalkInv, Pointer
  PROVE  WalkInv'
<1> USE DEF resultsVars, menuVars, pageVars
<1>0. box \in Panels /\ Ordinary /\ Framed /\ OpenRows /\ FocusOnShown
  BY DEF Sound, Good, WalkInv
<1>1. CASE FocusField
  BY <1>0, <1>1, ItemDropped, OpenKept
     DEF FocusField, FocusMoves, WalkInv, Ordinary, Framed
<1>2. CASE LeaveField
  <2>1. item = NoItem
    BY <1>0, <1>2 DEF LeaveField, FocusOnShown
  <2> QED BY <1>0, <1>2, <2>1, ItemDropped, OpenKept
          DEF LeaveField, FocusMoves, WalkInv, Ordinary, Framed
<1>3. CASE PasteText
  <2>1. item = NoItem
    BY <1>0, <1>3 DEF PasteText, FocusOnShown
  <2> QED BY <1>0, <1>3, <2>1, ItemDropped, OpenKept DEF PasteText, WalkInv, Ordinary, Framed
<1>4. CASE ClickClose
  BY <1>0, <1>4, ItemDropped, OpenKept DEF ClickClose, WalkInv, Ordinary, Framed
<1>5. ASSUME NEW place \in {"icon", "menu"}, Enter(place)
      PROVE  WalkInv'
  <2>1. FocusOnShown' /\ OpenRows'
    BY <1>0, <1>5, ItemKept, OpenKept DEF Enter, FocusOnShown
  <2> QED BY <1>0, <1>5, <2>1 DEF Enter, OnSearchSelectShow, WalkInv, Ordinary, Framed
<1>6. CASE Exit
  <2>1. FocusOnShown' /\ OpenRows'
    BY <1>0, <1>6, ItemKept, OpenKept DEF Exit, FocusOnShown
  <2> QED BY <1>0, <1>6, <2>1 DEF Exit, OnSearchSelectHide, WalkInv, Ordinary, Framed
<1>7. CASE ClickSelectItem
  BY <1>0, <1>7, ItemDropped, OpenKept DEF ClickSelectItem, WalkInv, Ordinary, Framed
<1>8. CASE ClickRow
  <2>1. PICK i \in Visible : HasChildren(i) /\ Toggle(i) /\ item' = <<i, 0>>
    BY <1>8 DEF ClickRow
  <2>2. UNCHANGED frame /\ FocusMoves(box, "results") /\ box.results
    BY <1>8 DEF ClickRow
  <2>3. open' \in {open, open \cup {i}, open \ {i}}
    BY <2>1 DEF Toggle
  <2>4. OpenRows' /\ <<i, 0>> \in Shown'
    BY <1>0, <2>1, <2>2, <2>3, RowToggled
  <2>5. box'.results /\ focus' = "results"
    BY <1>0, <2>2, MovesKeep
  <2>6. FocusOnShown'
    BY <2>1, <2>4, <2>5 DEF FocusOnShown
  <2> QED BY <1>0, <1>8, <2>4, <2>5, <2>6 DEF ClickRow, WalkInv, Ordinary, Framed
<1> QED BY <1>1, <1>2, <1>3, <1>4, <1>5, <1>6, <1>7, <1>8 DEF Pointer

LEMMA PressWalks ==
  ASSUME Sound, WalkInv, NEW k \in Keys, UNCHANGED messages,
         held' = IF k \in {"left", "right"} THEN "char" ELSE k,
         PressInField(k) \/ PressInMenu(k) \/ PressInResults(k)
  PROVE  WalkInv'
<1> USE DEF resultsVars, menuVars
<1>0. box \in Panels /\ Ordinary /\ Framed /\ OpenRows /\ FocusOnShown
  BY DEF Sound, Good, WalkInv
<1>1. held' \in Keys \cup {"none"}
  BY DEF Keys
<1>2. CASE PressInField(k)
  <2>1. item = NoItem
    BY <1>0, <1>2 DEF PressInField, FocusOnShown
  <2> QED BY <1>0, <1>1, <1>2, <2>1, ItemDropped, OpenKept
          DEF PressInField, WalkInv, Ordinary, Framed
<1>3. CASE PressInMenu(k)
  <2>1. item = NoItem /\ UNCHANGED <<frame, open, item>>
    BY <1>0, <1>3 DEF PressInMenu, FocusOnShown
  <2>2. FocusOnShown' /\ OpenRows'
    BY <1>0, <2>1, ItemDropped, OpenKept
  <2>3. /\ menuShown' \in BOOLEAN /\ UNCHANGED <<hideTimeout, over>>
        /\ focus' \in {focus, "field"}
    BY <1>0, <1>3 DEF PressInMenu, SelectByArrow, ConfirmSelection, ConfirmFails,
                      CloseSelectionWindow, FocusMoves, Ordinary
  <2> QED BY <1>0, <1>1, <2>1, <2>2, <2>3 DEF WalkInv, Ordinary, Framed
<1>4. CASE PressInResults(k)
  <2>1. /\ focus = "results" /\ item # NoItem /\ box.results /\ item \in Shown
        /\ UNCHANGED <<menuVars, frame>>
    BY <1>0, <1>4 DEF PressInResults, FocusOnShown
  <2>2. Ordinary' /\ Framed'
    <3>1. focus' \in {focus, "field"}
      BY <1>4 DEF PressInResults, Navigate, FocusMoves
    <3> QED BY <1>0, <1>1, <2>1, <3>1 DEF Ordinary, Framed
  <2>3. PICK i \in Visible : \E c \in 0 .. rows[i].children :
                               item = <<i, c>> /\ (c = 0 \/ i \in open)
    BY <2>1, ShownItems
  <2>4. CASE item' = NoItem /\ UNCHANGED open
    BY <1>0, <2>1, <2>2, <2>4, ItemDropped, OpenKept DEF WalkInv
  <2>5. ASSUME item' \in Shown, UNCHANGED <<open, box, focus>> PROVE WalkInv'
    <3>1. Shown' = Shown
      BY <2>1, <2>5, ShownSame
    <3>2. FocusOnShown'
      BY <2>1, <2>5, <3>1 DEF FocusOnShown
    <3> QED BY <1>0, <2>1, <2>2, <2>5, <3>2, OpenKept DEF WalkInv
  <2>6. ASSUME item[2] = 0, HasChildren(i), open' \in {open \cup {i}, open \ {i}},
               UNCHANGED <<item, box, focus>>
        PROVE  WalkInv'
    <3>1. item = <<i, 0>>
      BY <2>3, <2>6
    <3>2. OpenRows' /\ <<i, 0>> \in Shown'
      BY <1>0, <2>1, <2>6, RowToggled
    <3>3. FocusOnShown'
      BY <2>1, <2>6, <3>1, <3>2 DEF FocusOnShown
    <3> QED BY <2>2, <3>2, <3>3 DEF WalkInv
  <2>7. item[1] = i
    BY <2>3
  <2>8. CASE k = "up" /\ Navigate(k)
    <3>1. Above(item) # NoItem => Above(item) \in Shown
      BY <1>0, <2>1, AboveIsPrevious
    <3> QED BY <2>4, <2>5, <2>8, <3>1 DEF Navigate
  <2>9. CASE k \in {"down", "shiftDown"} /\ Navigate(k)
    <3>1. Below(item) \in Shown
      BY <1>0, <2>1, BelowIsNext
    <3> QED BY <2>5, <2>9, <3>1 DEF Navigate
  <2>10. CASE k = "left" /\ Navigate(k)
    <3>1. open' = CloseRow(item) /\ UNCHANGED <<item, box, focus>>
      BY <2>10 DEF Navigate
    <3>2. CASE item[2] # 0
      BY <2>1, <2>5, <3>1, <3>2 DEF CloseRow
    <3>3. CASE item[2] = 0 /\ i \in open
      BY <1>0, <2>6, <2>7, <3>1, <3>3 DEF CloseRow, OpenRows
    <3>4. CASE item[2] = 0 /\ i \notin open
      <4>1. open' = open
        BY <2>7, <3>1, <3>4 DEF CloseRow
      <4> QED BY <2>1, <2>5, <3>1, <4>1
    <3> QED BY <3>2, <3>3, <3>4
  <2>11. CASE k = "right" /\ Navigate(k)
    BY <2>1, <2>5, <2>6, <2>7, <2>11 DEF Navigate, OpenRow
  <2>12. CASE k = "escape" /\ Navigate(k)
    BY <2>4, <2>12 DEF Navigate
  <2>13. CASE k = "char" /\ Navigate(k)
    BY <2>1, <2>5, <2>13 DEF Navigate
  <2>14. CASE /\ k = "enter" /\ item[2] = 0 /\ HasChildren(item[1])
              /\ Toggle(item[1])
              /\ UNCHANGED <<item, box, focus>>
    BY <2>6, <2>7, <2>14 DEF Toggle
  <2>15. Navigate(k) => k \in {"up", "down", "shiftDown", "left", "right", "escape", "char"}
    BY DEF Navigate
  <2> QED BY <1>4, <2>8, <2>9, <2>10, <2>11, <2>12, <2>13, <2>14, <2>15 DEF PressInResults
<1> QED BY <1>2, <1>3, <1>4

LEMMA ReleaseWalks ==
  ASSUME Sound, WalkInv, Release
  PROVE  WalkInv'
<1> USE DEF resultsVars, menuVars
<1>0. box \in Panels /\ Ordinary /\ Framed /\ OpenRows /\ FocusOnShown
  BY DEF Sound, Good, WalkInv
<1>1. held' = "none"
  BY DEF Release
<1>2. CASE ReleaseElsewhere
  BY <1>0, <1>1, <1>2, ItemKept, OpenKept
     DEF ReleaseElsewhere, FocusOnShown, WalkInv, Ordinary, Framed
<1>3. CASE ReleaseInField
  <2>1. item = NoItem /\ UNCHANGED <<frame, open, item>>
    BY <1>0, <1>3 DEF ReleaseInField, FocusOnShown
  <2>2. FocusOnShown' /\ OpenRows'
    BY <1>0, <2>1, ItemDropped, OpenKept
  <2>3. /\ menuShown' \in BOOLEAN /\ hideTimeout' \in BOOLEAN /\ UNCHANGED over
        /\ focus' \in {focus, "menu", "elsewhere"} /\ messages' \in {messages, messages + 1}
    BY <1>0, <1>3 DEF ReleaseInField, OnSearchSelectShow, FocusMoves, Ordinary
  <2> QED BY <1>0, <1>1, <2>1, <2>2, <2>3 DEF WalkInv, Ordinary, Framed
<1> QED BY <1>2, <1>3 DEF Release

LEMMA BrowserWalks ==
  ASSUME Sound, WalkInv, Browser
  PROVE  WalkInv'
<1> USE DEF resultsVars, menuVars, pageVars
<1>0. /\ box \in Panels /\ Ordinary /\ Framed /\ OpenRows /\ FocusOnShown
      /\ box.strays \in Nat /\ messages \in Nat
  BY DEF Sound, Good, WalkInv, Panels, Ordinary
<1>1. CASE KeyTimer \/ StrayTimer
  <2>1. PICK b \in Panels : box' = Search(b) /\ b.results = box.results
    <3>1. CASE KeyTimer
      <4>1. /\ [box EXCEPT !.keyTimeout = FALSE] \in Panels
            /\ [box EXCEPT !.keyTimeout = FALSE].results = box.results
        BY <1>0 DEF Panels
      <4> QED BY <3>1, <4>1 DEF KeyTimer
    <3>2. CASE StrayTimer
      <4>1. PICK n \in Nat : n = box.strays - 1
        BY <1>0, <3>2 DEF StrayTimer
      <4>2. /\ [box EXCEPT !.strays = n] \in Panels
            /\ [box EXCEPT !.strays = n].results = box.results
        BY <1>0 DEF Panels
      <4> QED BY <3>2, <4>1, <4>2 DEF StrayTimer
    <3> QED BY <1>1, <3>1, <3>2
  <2>2. box.results => box'.results
    BY <2>1, SearchKeeps
  <2>3. FocusOnShown' /\ OpenRows'
    BY <1>0, <1>1, <2>2, ItemKept, OpenKept DEF KeyTimer, StrayTimer, FocusOnShown
  <2> QED BY <1>0, <1>1, <2>3 DEF KeyTimer, StrayTimer, WalkInv, Ordinary, Framed
<1>2. CASE HideTimer
  <2>1. FocusOnShown' /\ OpenRows'
    BY <1>0, <1>2, ItemKept, OpenKept DEF HideTimer, FocusOnShown
  <2> QED BY <1>0, <1>2, <2>1 DEF HideTimer, CloseSelectionWindow, WalkInv, Ordinary, Framed
<1>3. CASE Load
  <2>1. box.location \in Locations
    BY <1>0, <1>3 DEF Load, Panels
  <2>2. FocusOnShown' /\ OpenRows' /\ Framed'
    BY <1>3, <2>1, ItemDropped DEF Load, LoadedPage, OpenRows, Framed
  <2> QED BY <1>0, <1>3, <2>2 DEF Load, WalkInv, Ordinary
<1>4. CASE TakeFocus
  <2>1. messages' \in Nat /\ UNCHANGED <<menuVars, frame, open, held>>
    BY <1>0, <1>4 DEF TakeFocus
  <2>2. CASE NavNext(1) # 0 /\ box.results
    <3>1. item' = <<NavNext(1), 0>> /\ FocusMoves(box, "results")
      BY <1>4, <2>2 DEF TakeFocus
    <3>2. NavNext(1) \in Visible
      BY <2>2, NavNextFinds
    <3>3. <<NavNext(1), 0>> \in Shown /\ Shown' = Shown
      BY <2>1, <3>2, ShownItems, ShownSame
    <3>4. box'.results /\ focus' = "results"
      BY <1>0, <2>2, <3>1, MovesKeep
    <3>5. FocusOnShown'
      BY <3>1, <3>3, <3>4 DEF FocusOnShown
    <3> QED BY <1>0, <2>1, <3>4, <3>5, OpenKept DEF WalkInv, Ordinary, Framed
  <2>3. CASE ~(NavNext(1) # 0 /\ box.results)
    <3>1. UNCHANGED <<item, box, focus>>
      BY <1>4, <2>3 DEF TakeFocus
    <3>2. FocusOnShown' /\ OpenRows'
      BY <1>0, <2>1, <3>1, ItemKept, OpenKept DEF FocusOnShown
    <3> QED BY <1>0, <2>1, <3>1, <3>2 DEF WalkInv, Ordinary, Framed
  <2> QED BY <2>2, <2>3
<1> QED BY <1>1, <1>2, <1>3, <1>4 DEF Browser

LEMMA StepWalks ==
  ASSUME Sound, WalkInv, [Next]_vars
  PROVE  WalkInv'
<1>1. CASE Press
  <2>1. PICK k \in Keys : /\ held' = IF k \in {"left", "right"} THEN "char" ELSE k
                          /\ PressInField(k) \/ PressInMenu(k) \/ PressInResults(k)
    BY <1>1 DEF Press
  <2>2. UNCHANGED messages
    BY <1>1 DEF Press
  <2> QED BY <2>1, <2>2, PressWalks
<1>2. CASE UNCHANGED vars
  <2>1. FocusOnShown' /\ OpenRows'
    BY <1>2, ItemKept, OpenKept DEF vars, WalkInv, FocusOnShown
  <2> QED BY <1>2, <2>1 DEF vars, WalkInv, Ordinary, Framed
<1> QED BY <1>1, <1>2, PointerWalks, ReleaseWalks, BrowserWalks DEF Next

LEMMA AlwaysWalks == Spec => [](Sound /\ WalkInv)
<1>1. Init => WalkInv
  <2> SUFFICES ASSUME Init PROVE WalkInv
    OBVIOUS
  <2>1. OpenRows /\ FocusOnShown /\ Framed
    BY DEF Init, ResultsInit, OpenRows, FocusOnShown, Framed, FirstPage
  <2>2. Ordinary
    BY DEF Init, SearchBoxInit, Ordinary, Keys
  <2> QED BY <2>1, <2>2 DEF WalkInv
<1> QED BY <1>1, InitSound, StepSound, StepWalks, PTL DEF Spec

(* TypeOK, for any texts, label, sections, pages and rows: among others searchIndex stays *)
(* within one of the sections, and the items of the iframe within its rows.               *)
THEOREM PageTyped == Spec => []TypeOK
<1>1. Sound /\ WalkInv => TypeOK
  <2> SUFFICES ASSUME Sound, WalkInv PROVE TypeOK
    OBVIOUS
  <2>1. open \subseteq Nat
    BY RowsTyped DEF WalkInv, OpenRows
  <2>2. item = NoItem \/ item \in Nat \X Nat
    BY ShownItems DEF WalkInv, FocusOnShown
  <2> QED BY <2>1, <2>2 DEF TypeOK, Sound, Good, WalkInv, Ordinary, Framed, FirstPage
<1> QED BY <1>1, AlwaysWalks, PTL

(* FocusOnShown, for any pages whose rows are sorted: wherever the keys, the pointer, the   *)
(* messages and the page loads have taken the focus, the item that has it matches, its      *)
(* parent is open and the results are shown (Nav, NavChild, Toggle, CloseResultsWindow).    *)
THEOREM FocusedIsShown == Spec => []FocusOnShown
<1>1. WalkInv => FocusOnShown
  BY DEF WalkInv
<1> QED BY <1>1, AlwaysWalks, PTL

(* WalksInOrder, for any pages whose rows are sorted: what Nav, NavChild, NavNext and       *)
(* NavPrev make of Down and Up is the next and the previous item in reading order.          *)
THEOREM KeysWalkInOrder == Spec => WalksInOrder
<1>1. Sound /\ WalkInv /\ [Next]_vars =>
        [focus = "results" /\ item # NoItem /\ held = "none" =>
           /\ held' = "down" => item' = NextShown(item)
           /\ held' = "up"   => /\ item' = PreviousShown(item)
                                /\ item' = NoItem => focus' = "field"]_vars
  <2> SUFFICES ASSUME Sound, WalkInv, Next, focus = "results", item # NoItem, held = "none",
                      held' \in {"down", "up"}
               PROVE  /\ held' = "down" => item' = NextShown(item)
                      /\ held' = "up"   => /\ item' = PreviousShown(item)
                                           /\ item' = NoItem => focus' = "field"
    OBVIOUS
  <2>1. ~Pointer /\ ~Release /\ ~Browser
    BY DEF Pointer, FocusField, LeaveField, PasteText, ClickClose, Enter, Exit, ClickSelectItem,
           ClickRow, Release, Browser, KeyTimer, StrayTimer, HideTimer, Load, TakeFocus,
           pageVars
  <2>2. PICK k \in Keys : /\ held' = IF k \in {"left", "right"} THEN "char" ELSE k
                          /\ PressInField(k) \/ PressInMenu(k) \/ PressInResults(k)
    BY <2>1 DEF Next, Press
  <2>3. k = held' /\ k \in {"down", "up"} /\ Navigate(k)
    BY <2>2 DEF PressInField, PressInMenu, PressInResults
  <2>4. /\ item \in Shown
        /\ NextShown(item) = Below(item) /\ PreviousShown(item) = Above(item)
    BY BelowIsNext, AboveIsPrevious DEF WalkInv, FocusOnShown
  <2> QED BY <2>3, <2>4 DEF Navigate, FocusMoves
<1> QED BY <1>1, AlwaysWalks, PTL DEF Spec, WalksInOrder
=============================================================================
