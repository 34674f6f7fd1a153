-------------------------------- MODULE Menu --------------------------------
(***************************************************************************)
(* The menu of a restaurant: categories and items, as the owner edits them *)
(* (MenuManagementService and the app's handlers) and as customers see     *)
(* them.  An item that is deleted stays in its table with a tag; deleting  *)
(* a category deletes its rows for good, and the database cascades.        *)
(*                                                                         *)
(* A handler reads, decides, and writes when it commits; a column that is  *)
(* set to the value it was read with is not written.                       *)
(***************************************************************************)
EXTENDS Requests

CONSTANTS
    Categories,
    Items,
    NoItem          \* an item that is not in its table

ItemRow == [category : Categories, available : BOOLEAN, removed : BOOLEAN]

ASSUME MenuAssumption == NoItem \notin ItemRow

VARIABLES
    category,   \* the rows of menu_categories
    shown,      \* those with is_active
    item,       \* the rows of menu_items
    menuReq,    \* requests in flight
    careful     \* the owner waits for each answer

menuVars == <<category, shown, item, menuReq, careful>>

Rows(c) == {i \in Items : item[i] # NoItem /\ item[i].category = c}
Live(i) == item[i] # NoItem /\ ~item[i].removed

\* What a request is going to write: the item's row as it was read and as it
\* is to be, or the rows that go with a category.
MenuRequest ==
    [at : {"insert", "write", "count", "delete", "show"},
     category : Categories, new : BOOLEAN,
     item : Items \cup {NoItem}, read : ItemRow \cup {NoItem}, row : ItemRow \cup {NoItem},
     retag : BOOLEAN, rows : SUBSET Items]

Asked == [at |-> "show", category |-> CHOOSE c \in Categories : TRUE, new |-> FALSE,
          item |-> NoItem, read |-> NoItem, row |-> NoItem, retag |-> FALSE, rows |-> {}]

MenuAt(s, step) == menuReq[s] # Idle /\ menuReq[s].at = step

Asking(s, request) ==
    /\ menuReq[s] = Idle
    /\ careful => \A t \in Sessions : menuReq[t] = Idle
    /\ menuReq' = [menuReq EXCEPT ![s] = request]
    /\ UNCHANGED <<category, shown, item, careful>>

Edited(s) == menuReq' = Ends(menuReq, s) /\ UNCHANGED careful

\* Rows get new ids.
NewCategory(c) == c \notin category /\ AloneOn(menuReq, "category", c)
NewItem(i) ==
    /\ item[i] = NoItem /\ AloneOn(menuReq, "item", i)
    /\ \A s \in Sessions : menuReq[s] # Idle => i \notin menuReq[s].rows

-----------------------------------------------------------------------------
(* Categories *)

CreateCategory(s, c) ==
    /\ NewCategory(c)
    /\ Asking(s, [Asked EXCEPT !.at = "show", !.category = c, !.new = TRUE])

\* is_active is switched.
UpdateCategory(s, c) ==
    /\ c \in category
    /\ Asking(s, [Asked EXCEPT !.at = "show", !.category = c])

WriteCategory(s) ==
    LET w == menuReq[s]
    IN  /\ MenuAt(s, "show")
        /\ \/ w.new /\ category' = category \cup {w.category}
                    /\ shown' = shown \cup {w.category}
           \/ ~w.new /\ w.category \in category /\ UNCHANGED category
              /\ \/ shown' = shown \cup {w.category}
                 \/ shown' = shown \ {w.category}
        /\ Edited(s) /\ UNCHANGED item

\* The category is read with its items.
DeleteCategory(s, c) ==
    /\ c \in category
    /\ Asking(s, [Asked EXCEPT !.at = "count", !.category = c, !.rows = Rows(c)])

\* Mutant: only what can be ordered counts.
Remaining_Available(c) == {i \in Rows(c) : item[i].available}

Remaining(c) == {i \in Rows(c) : Live(i)}

\* Then the items that are not removed are counted.
CountItems(s) ==
    /\ MenuAt(s, "count")
    /\ menuReq' = IF Remaining(menuReq[s].category) = {}
                  THEN Goes(menuReq, s, "delete") ELSE Ends(menuReq, s)
    /\ UNCHANGED <<category, shown, item, careful>>

\* The session deletes the items that it has read, and the database those that
\* are in the category by now.
RemoveCategory(s) ==
    LET w == menuReq[s]
    IN  /\ MenuAt(s, "delete")
        /\ category' = category \ {w.category}
        /\ shown' = shown \ {w.category}
        /\ item' = [i \in Items |-> IF i \in w.rows \cup Rows(w.category)
                                    THEN NoItem ELSE item[i]]
        /\ Edited(s)

-----------------------------------------------------------------------------
(* Items *)

\* The app finds the category by its name, or inserts it with the item.
CreateItem(s, i, c, b) ==
    /\ NewItem(i) /\ (c \in category \/ NewCategory(c))
    /\ Asking(s, [Asked EXCEPT !.at = "insert", !.category = c,
                    !.new = c \notin category, !.item = i,
                    !.row = [category |-> c, available |-> b, removed |-> FALSE]])

InsertItem(s) ==
    LET w == menuReq[s]
    IN  /\ MenuAt(s, "insert")
        /\ w.new \/ w.category \in category      \* the foreign key
        /\ category' = category \cup {w.category}
        /\ shown' = IF w.new THEN shown \cup {w.category} ELSE shown
        /\ item' = [item EXCEPT ![w.item] = w.row]
        /\ Edited(s)

\* A handler that changes an item which is not removed.
Changes(s, i, row, retag) ==
    /\ Live(i)
    /\ Asking(s, [Asked EXCEPT !.at = "write", !.item = i, !.read = item[i],
                               !.row = row, !.retag = retag])

\* To another category or not, available or not, with other tags or not; any
\* of it may be left as it is.
UpdateItem(s, i, c, b, retag) ==
    /\ c \in category
    /\ Changes(s, i, [item[i] EXCEPT !.category = c, !.available = b], retag)

ToggleAvailability(s, i, b) == Changes(s, i, [item[i] EXCEPT !.available = b], FALSE)

DeleteItem(s, i) ==
    Changes(s, i, [item[i] EXCEPT !.available = FALSE, !.removed = TRUE], FALSE)

\* An item that is gone, or a category, fails the transaction.  New tags
\* replace the old ones, the one of a deleted item included.
WriteItem(s) ==
    LET w == menuReq[s]
        i == w.item
        Now(field) == IF w.row[field] = w.read[field] THEN item[i][field]
                                                      ELSE w.row[field]
    IN  /\ MenuAt(s, "write") /\ item[i] # NoItem
        /\ Now("category") \in category
        /\ item' = [item EXCEPT ![i] =
             [category |-> Now("category"), available |-> Now("available"),
              removed |-> ~w.retag /\ Now("removed")]]
        /\ Edited(s) /\ UNCHANGED <<category, shown>>

\* One statement, which asks for no tag: a removed item can be switched on.
BulkToggle(is, b) ==
    /\ careful => \A s \in Sessions : menuReq[s] = Idle
    /\ item' = [i \in Items |-> IF i \in is /\ item[i] # NoItem
                                THEN [item[i] EXCEPT !.available = b] ELSE item[i]]
    /\ UNCHANGED <<category, shown, menuReq, careful>>

\* A handler fails: whatever it was to write is not written.
MenuFails(s) ==
    /\ menuReq[s] # Idle
    /\ menuReq' = Ends(menuReq, s)
    /\ UNCHANGED <<category, shown, item, careful>>

-----------------------------------------------------------------------------
(* Who sees what *)

OwnerSees    == {i \in Items : Live(i)}
CustomerSees == {i \in OwnerSees : item[i].category \in shown}
AppSees      == OwnerSees
CanBeOrdered == {i \in Items : item[i] # NoItem /\ item[i].available}

-----------------------------------------------------------------------------
(* The specification *)

MenuInit ==
    /\ category = {} /\ shown = {}
    /\ item = [i \in Items |-> NoItem]
    /\ menuReq = [s \in Sessions |-> Idle]
    /\ careful \in BOOLEAN

MenuNext ==
    \/ \E s \in Sessions :
         \/ \E c \in Categories :
              CreateCategory(s, c) \/ UpdateCategory(s, c) \/ DeleteCategory(s, c)
         \/ WriteCategory(s) \/ CountItems(s) \/ RemoveCategory(s)
         \/ \E i \in Items, c \in Categories, b \in BOOLEAN :
              \/ CreateItem(s, i, c, b)
              \/ \E retag \in BOOLEAN : UpdateItem(s, i, c, b, retag)
         \/ \E i \in Items, b \in BOOLEAN : ToggleAvailability(s, i, b)
         \/ \E i \in Items : DeleteItem(s, i)
         \/ InsertItem(s) \/ WriteItem(s) \/ MenuFails(s)
    \/ \E is \in SUBSET Items, b \in BOOLEAN : BulkToggle(is, b)

MenuSpec == MenuInit /\ [][MenuNext]_menuVars

-----------------------------------------------------------------------------
(* Properties *)

\* Every variable has values of its kind, and every item has its category.
MenuTypeOK ==
    /\ category \in SUBSET Categories /\ shown \in SUBSET category
    /\ item \in [Items -> [category : category, available : BOOLEAN,
                           removed : BOOLEAN] \cup {NoItem}]
    /\ menuReq \in [Sessions -> MenuRequest \cup {Idle}]
    /\ careful \in BOOLEAN

\* An owner who waits for each answer never loses an item with its category,
\* though deleting a category deletes rows in two ways that look at no tag, and
\* no item that was removed comes back (menu_management_service.py:59-81).
MenuKept ==
    [][careful =>
         \A i \in Items :
            /\ Live(i) => item'[i] # NoItem
            /\ item[i] # NoItem /\ item[i].removed
                 => item'[i] = NoItem \/ item'[i].removed]_menuVars

=============================================================================
