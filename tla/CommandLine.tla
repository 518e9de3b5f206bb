---------------------------- MODULE CommandLine ----------------------------
(***************************************************************************)
(* What the command line does on its own (cli/mod.rs): the picker of the   *)
(* templates, which a user drives key by key, and the pages of the list of *)
(* models. Rows are drawn through a window that a search narrows, a key    *)
(* acts on the row under the cursor, and what is checked is queued.        *)
(*                                                                         *)
(* Colours, widths and wording are left out. A row is the set of its       *)
(* texts, which are sequences of characters: "f" and "x", of which the     *)
(* second is also the key that checks a row, and "F", which is "f" in      *)
(* upper case. Positions count from zero, as they do in the code.          *)
(***************************************************************************)
EXTENDS Naturals, Sequences, SequencesExt, Subsequences

CONSTANTS
  Rows,       \* the texts of each row of the picker, a sequence that is not empty
  Height,     \* how many rows the terminal has room for
  MaxQuery    \* bound: the length of what is searched

Typed == {"f", "F", "x"}

ASSUME CommandLineAssumption ==
  /\ Rows # <<>> /\ Rows \in Seq(SUBSET Seq(Typed))
  /\ Height \in Nat /\ MaxQuery \in Nat

VARIABLES
  view,      \* the cursor, the first row drawn, and the rows the search has left
  checked,   \* the rows that are checked
  search,    \* whether keys are typed into the search, and what has been
  outcome    \* "open", "cancelled" or "chosen"

pickerVars == <<view, checked, search, outcome>>

Places == DOMAIN Rows

PageLength == IF Height = 0 THEN 1 ELSE IF Height > Len(Rows) THEN Len(Rows) ELSE Height

----------------------------------------------------------------------------
Lower(text) == [i \in DOMAIN text |-> IF text[i] = "F" THEN "f" ELSE text[i]]

\* fuzzy_matches: the characters of the query, as typed, in this order in one of the
\* texts in lower case.
FuzzyMatches(query, row) == \E text \in row : query \in AllSubSeqs(Lower(text))

Filtered(query) ==
  Keeping([i \in Places |-> i], {i \in Places : FuzzyMatches(query, Rows[i])})

\* A slip: the window follows the cursor down only.
FollowedDown(v) ==
  LET n == Len(v.rows)
      cursor == IF v.cursor >= n THEN n - 1 ELSE v.cursor
  IN  IF n = 0 THEN [v EXCEPT !.cursor = 0, !.offset = 0]
      ELSE [v EXCEPT !.cursor = cursor,
                     !.offset = IF cursor >= @ + PageLength THEN cursor + 1 - PageLength ELSE @]

\* The window follows the cursor before each key is read.
Followed(v) ==
  LET n == Len(v.rows)
      cursor == IF v.cursor >= n THEN n - 1 ELSE v.cursor
  IN  IF n = 0 THEN [v EXCEPT !.cursor = 0, !.offset = 0]
      ELSE [v EXCEPT !.cursor = cursor,
                     !.offset = IF cursor < @ THEN cursor
                                ELSE IF cursor >= @ + PageLength THEN cursor + 1 - PageLength
                                ELSE @]

Pointed == view.rows[view.cursor + 1]

Searched(typing, query) ==
  /\ search' = [typing |-> typing, query |-> query]
  /\ view' = Followed([cursor |-> 0, offset |-> 0, rows |-> Filtered(query)])

----------------------------------------------------------------------------
(* The keys. *)

Slash == /\ ~search.typing /\ Searched(TRUE, <<>>)
         /\ UNCHANGED <<checked, outcome>>

Escape == IF search.typing
          THEN Searched(FALSE, <<>>) /\ UNCHANGED <<checked, outcome>>
          ELSE outcome' = "cancelled" /\ UNCHANGED <<view, checked, search>>

\* What the search has left stays when the search is left.
Enter == /\ IF search.typing
            THEN search' = [search EXCEPT !.typing = FALSE] /\ UNCHANGED outcome
            ELSE outcome' = "chosen" /\ UNCHANGED search
         /\ UNCHANGED <<view, checked>>

Backspace == IF search.typing
             THEN /\ Searched(TRUE, IF search.query = <<>> THEN <<>> ELSE Front(search.query))
                  /\ UNCHANGED <<checked, outcome>>
             ELSE checked' = {} /\ UNCHANGED <<view, search, outcome>>

\* The space or an x, of a search as well.
Toggle == /\ view.rows # <<>>
          /\ checked' = IF Pointed \in checked THEN checked \ {Pointed} ELSE checked \cup {Pointed}
          /\ UNCHANGED <<view, search, outcome>>

\* All rows, the ones the search has hidden too.
ToggleAll == /\ ~search.typing
             /\ checked' = IF checked = Places THEN {} ELSE Places
             /\ UNCHANGED <<view, search, outcome>>

Type(c) == /\ search.typing /\ Len(search.query) < MaxQuery
           /\ c = "x" => view.rows = <<>>
           /\ Searched(TRUE, Append(search.query, c))
           /\ UNCHANGED <<checked, outcome>>

Move(up) ==
  LET n == Len(view.rows)
  IN  /\ n > 0
      /\ view' = Followed([view EXCEPT !.cursor = IF ~up THEN (@ + 1) % n
                                                  ELSE IF @ = 0 THEN n - 1 ELSE @ - 1])
      /\ UNCHANGED <<checked, search, outcome>>

\* q outside of a search, or the interrupt key.
Quit == outcome' = "cancelled" /\ UNCHANGED <<view, checked, search>>

PickerInit ==
  /\ view = [cursor |-> 0, offset |-> 0, rows |-> [i \in Places |-> i]]
  /\ checked = {} /\ search = [typing |-> FALSE, query |-> <<>>] /\ outcome = "open"

PickerNext ==
  /\ outcome = "open"
  /\ \/ Slash \/ Escape \/ Enter \/ Backspace \/ Toggle \/ ToggleAll \/ Quit
     \/ \E c \in Typed : Type(c)
     \/ \E up \in BOOLEAN : Move(up)

----------------------------------------------------------------------------
(* The pages of the list. *)

\* A slip: a page that is not full is not counted.
FullPages(total, perPage) == total \div perPage

PageCount(total, perPage) == (total + perPage - 1) \div perPage

\* Page::of: the slice of a page and the number of the next one, or an error.
PageOf(total, page, perPage, all) ==
  LET pages == PageCount(total, perPage)
      start == (page - 1) * perPage
      end == IF start + perPage > total THEN total ELSE start + perPage
  IN  IF all \/ perPage = 0 THEN [error |-> FALSE, start |-> 0, end |-> total, next |-> {}]
      ELSE IF page = 0 \/ page > pages
      THEN [error |-> TRUE, start |-> 0, end |-> 0, next |-> {}]
      ELSE [error |-> FALSE, start |-> start, end |-> end,
            next |-> IF page < pages THEN {page + 1} ELSE {}]

----------------------------------------------------------------------------
Drawn == {view.rows[i] : i \in {i \in DOMAIN view.rows :
                                  view.offset < i /\ i <= view.offset + PageLength}}

PickerTypeOK ==
  /\ view \in [rows : Seq(Places), cursor : Nat, offset : Nat]
  /\ checked \subseteq Places /\ outcome \in {"open", "cancelled", "chosen"}
  /\ search \in [typing : BOOLEAN, query : Seq(Typed)]

\* A key changes the check of one row only if that row is on the screen with the cursor
\* at it, however the list was searched and scrolled before; every other change checks or
\* clears them all (cli/mod.rs:934-948, :1071-1078).
TogglesAreSeen ==
  [][checked' # checked =>
       \/ checked' \in {{}, Places}
       \/ view.rows # <<>> /\ Pointed \in Drawn
          /\ checked' \cup {Pointed} = checked \cup {Pointed}]_pickerVars

\* The pages that are reached from the first one by the number each gives for the next
\* show every model once and leave none out, and no page that exists is refused
\* (cli/mod.rs:250-275).
PagesCover(total, perPage) ==
  LET page(p) == PageOf(total, p, perPage, FALSE)
      exist == {p \in 1 .. total : ~page(p).error}
  IN  IF perPage = 0 \/ total = 0 THEN TRUE
      ELSE /\ 1 \in exist /\ page(1).start = 0
           /\ \A p \in exist : /\ page(p).start < page(p).end
                               /\ page(p).next = {} <=> page(p).end = total
                               /\ \A q \in page(p).next : q \in exist /\ page(q).start = page(p).end
----------------------------------------------------------------------------
(* Why TogglesAreSeen holds: the inductive invariant of ServicesProofs.    *)

\* The cursor is on a row that is drawn, unless there is none.
CursorIsDrawn ==
  view.rows # <<>> =>
    /\ view.cursor < Len(view.rows)
    /\ view.offset <= view.cursor /\ view.cursor < view.offset + PageLength

PickerInv == PickerTypeOK /\ CursorIsDrawn

PickerSpec == PickerInit /\ [][PickerNext]_pickerVars
=============================================================================
