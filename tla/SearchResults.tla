---------------------------- MODULE SearchResults ----------------------------
(***************************************************************************)
(* The page of search results that is loaded into the iframe: the object   *)
(* `searchResults' of docs/html/search/search.js and the rows that         *)
(* createResults makes of a page's searchData.  Rows are numbered from 1.  *)
(* An item is <<i, 0>>, the link of row i, or <<i, c>>, the link of its    *)
(* c-th child.  ProcessKeys is left out: it lets a keydown act and a keyup *)
(* not, and no keypress is sent for the keys Nav and NavChild know.        *)
(***************************************************************************)
EXTENDS Naturals, Sequences, FiniteSetsExt, SequencesExt

CONSTANTS
  Rows,     \* Rows[page]: the rows of a page, each its id and its number of children
  Queries,  \* the texts a page may be asked for
  Escape,   \* Escape[c]: the characters convertToId writes for c
  NoPage,   \* where there are no rows: no page yet, or nomatches.html
  NoItem    \* no item has the focus

VARIABLES
  frame,     \* the page that is loaded and the query of its address
  open,      \* the rows whose children are displayed
  item       \* the item that has the focus

resultsVars == <<frame, open, item>>

\* The ids keep lower-case letters and digits and escape every other character.
convertToId(text) == FlattenSeq([n \in DOMAIN text |-> Escape[text[n]]])

\* Both ends of the query are stripped of spaces.
Strip(text) ==
  LET letters == {n \in DOMAIN text : text[n] # " "}
  IN  IF letters = {} THEN <<>> ELSE SubSeq(text, Min(letters), Max(letters))

rows == IF frame.page \in DOMAIN Rows THEN Rows[frame.page] ELSE <<>>

\* The rows Search displays: those whose id begins with the escaped query.
Matches(page, query) ==
  {i \in DOMAIN Rows[page] : IsPrefix(convertToId(Strip(query)), Rows[page][i].id)}

Visible == IF frame.page \in DOMAIN Rows THEN Matches(frame.page, frame.query) ELSE {}

\* What createResults lays out: a list of rows, some with children.
ASSUME RowsAssumption ==
  \A page \in DOMAIN Rows : Rows[page] \in Seq([id : Seq(STRING), children : Nat])

\* A page's rows are sorted by id, so that the matching ones stand together.
ASSUME RowsSorted ==
  \A page \in DOMAIN Rows, query \in Queries :
    LET m == Matches(page, query) IN m # {} => m = Min(m) .. Max(m)

\* The first displayed row from `index' on, the last one up to `index'; 0: none.
NavNext(index) ==
  LET m == {i \in Visible : i >= index} IN IF m = {} THEN 0 ELSE Min(m)
NavPrev(index) ==
  LET m == {i \in Visible : i <= index} IN IF m = {} THEN 0 ELSE Max(m)

\* FindChildElement: a row has an element for its children if it has any.
HasChildren(i) == rows[i].children > 0

\* Nav, Up.  The children asked for are those of the row above, not of the row found.
UpFromRow(i) ==
  LET found == NavPrev(i - 1)
  IN  IF found = 0 THEN NoItem
      ELSE IF found \in open /\ HasChildren(i - 1) THEN <<i - 1, rows[i - 1].children>>
      ELSE <<found, 0>>

\* Slip: goes to the first child whether or not the children are displayed.
DownFromRow_Hidden(i) ==
  IF HasChildren(i) THEN <<i, 1>>
  ELSE IF NavNext(i + 1) # 0 THEN <<NavNext(i + 1), 0>> ELSE <<i, 0>>

\* Nav, Down.
DownFromRow(i) ==
  IF i \in open THEN <<i, 1>>
  ELSE IF NavNext(i + 1) # 0 THEN <<NavNext(i + 1), 0>> ELSE <<i, 0>>

\* Slip: after the last child comes the row it belongs to.
DownFromChild_OwnRow(i, c) ==
  IF c < rows[i].children THEN <<i, c + 1>>
  ELSE IF NavNext(i) # 0 THEN <<NavNext(i), 0>> ELSE <<i, c>>

\* NavChild, Up and Down.
UpFromChild(i, c) == <<i, c - 1>>
DownFromChild(i, c) ==
  IF c < rows[i].children THEN <<i, c + 1>>
  ELSE IF NavNext(i + 1) # 0 THEN <<NavNext(i + 1), 0>> ELSE <<i, c>>

Above(at) == IF at[2] = 0 THEN UpFromRow(at[1]) ELSE UpFromChild(at[1], at[2])
Below(at) == IF at[2] = 0 THEN DownFromRow(at[1]) ELSE DownFromChild(at[1], at[2])

\* Nav, Right and Left, and Toggle; a child's link has no use for Right and Left.
OpenRow(at)  == IF at[2] = 0 /\ HasChildren(at[1]) THEN open \cup {at[1]} ELSE open
CloseRow(at) == IF at[2] = 0 THEN open \ {at[1]} ELSE open
Toggle(i) == open' = IF i \in open THEN open \ {i}
                     ELSE IF HasChildren(i) THEN open \cup {i} ELSE open

\* A page that has just been loaded: createResults, and Search for its query.
LoadedPage(location) == /\ frame' = location
                        /\ open' = {}
                        /\ item' = NoItem

ResultsInit == /\ frame = [page |-> NoPage, query |-> <<>>]
               /\ open = {}
               /\ item = NoItem

(***************************************************************************)
(* What the reader sees, and the order in which it is read.                *)
(***************************************************************************)
Shown == {at \in UNION {{i} \X (0 .. rows[i].children) : i \in Visible} :
            at[2] = 0 \/ at[1] \in open}

Before(x, y) == x[1] < y[1] \/ (x[1] = y[1] /\ x[2] < y[2])

\* The neighbours of an item in that order; the item itself if it has none.
NextShown(x) ==
  LET later == {y \in Shown : Before(x, y)}
  IN  IF later = {} THEN x ELSE CHOOSE y \in later : \A z \in later : ~Before(z, y)
PreviousShown(x) ==
  LET earlier == {y \in Shown : Before(y, x)}
  IN  IF earlier = {} THEN NoItem ELSE CHOOSE y \in earlier : \A z \in earlier : ~Before(y, z)
=============================================================================
