------------------------------- MODULE UndoRedo -------------------------------
(***************************************************************************)
(* The forum editor of PO task 2: the list of changes, the place in it,    *)
(* and the changes themselves, on a forum of one level: a root and its     *)
(* children, each with a text and a number of likes.                       *)
(***************************************************************************)
EXTENDS Integers, SequencesExt

CONSTANTS
    Child,      \* nodes other than the root
    Root,
    NoNode,     \* nothing selected in the tree
    Letter,
    Survey,     \* nodes with votes
    MaxText, MaxLikes, MaxChanges   \* bounds; the last on the changes of a run

VARIABLES
    document,           \* [children, text, likes]
    selected,           \* the node whose text the fields of the details pane are bound to
    changesStack, changesIterator,
    undoAvailable, redoAvailable,
    made,               \* how many changes were made
    trusted             \* no step so far is one the manager is known to get wrong

undoVars == <<document, selected, changesStack, changesIterator, undoAvailable, redoAvailable,
              made, trusted>>

Node == Child \cup {Root}

UndoConstants == Root \notin Child /\ NoNode \notin Node /\ Survey \subseteq Node

Init ==
    /\ document = [children |-> << >>, text |-> [n \in Node |-> << >>],
                   likes |-> [n \in Survey |-> 0]]
    /\ selected = Root
    /\ changesStack = << >> /\ changesIterator = 0
    /\ undoAvailable = FALSE /\ redoAvailable = FALSE /\ made = 0 /\ trusted = TRUE

\* A change: its kind, its node, its old and new values, and the documents around it.
Change(kind, node, old, new, after) ==
    [kind |-> kind, node |-> node, old |-> old, new |-> new,
     before |-> document, after |-> after]

WasLetterAdded(c) == Len(c.new) > Len(c.old)

\* mutant: letters typed into different fields merge
MergesAnywhere(change, last) ==
    /\ change.kind = "text" /\ last.kind = "text"
    /\ WasLetterAdded(change) /\ WasLetterAdded(last)
    /\ Last(change.new) = Last(last.new)

\* ChangeDataTextField.merge; every other change answers false.
Merges(change, last) ==
    /\ change.kind = "text" /\ last.kind = "text" /\ change.node = last.node
    /\ WasLetterAdded(change) /\ WasLetterAdded(last)
    /\ Last(change.new) = Last(last.new)

\* The loop of memorize removes the entry at j and then steps j: every second one stays.
Truncated ==
    [j \in 1 .. changesIterator + (Len(changesStack) - changesIterator) \div 2 |->
        IF j <= changesIterator THEN changesStack[j]
        ELSE changesStack[changesIterator + 2 * (j - changesIterator)]]

memorize(change) ==
    LET last == changesStack[changesIterator]
        merged == changesIterator > 0 /\ Merges(change, last)
        added == IF merged THEN [change EXCEPT !.old = last.old, !.before = last.before] ELSE change
        kept == IF merged THEN RemoveAt(Truncated, changesIterator) ELSE Truncated
    IN /\ changesStack' = Append(kept, added)
       /\ changesIterator' = IF merged THEN changesIterator ELSE changesIterator + 1
       /\ undoAvailable' = TRUE /\ redoAvailable' = FALSE
       /\ document' = change.after /\ made' = made + 1

\* Nothing is wrong as long as at most one change is undone when another is made.
CutsCleanly == Len(changesStack) - changesIterator <= 1

\* The selection of the tree moves when the selected node goes.
Reselect(children) ==
    selected' \in IF selected \in ToSet(children) \cup {Root, NoNode} THEN {selected}
                  ELSE ToSet(children) \cup {Root, NoNode}

Room == made < MaxChanges

\* A listener of a text field of the details pane.
EditText(text) ==
    LET old == document.text[selected] IN
    /\ selected # NoNode /\ Room
    /\ memorize(Change("text", selected, old, text, [document EXCEPT !.text[selected] = text]))
    /\ trusted' = (trusted /\ CutsCleanly)
    /\ UNCHANGED selected

TypeLetter == \E x \in Letter : /\ selected # NoNode /\ Len(document.text[selected]) < MaxText
                                /\ \/ EditText(Append(document.text[selected], x))
                                   \/ EditText(<<x>> \o document.text[selected])

EraseLetter == /\ selected # NoNode /\ document.text[selected] # << >>
               /\ EditText(Front(document.text[selected]))

\* A vote button of SurveyPaneController.
Vote ==
    /\ selected \in Survey /\ Room /\ document.likes[selected] < MaxLikes
    /\ LET n == document.likes[selected]
       IN memorize(Change("likes", selected, n, n + 1,
                          [document EXCEPT !.likes[selected] = n + 1]))
    /\ trusted' = (trusted /\ CutsCleanly)
    /\ UNCHANGED selected

Mentioned == ToSet(document.children) \cup {changesStack[i].node : i \in DOMAIN changesStack}

\* addNode() on the root with a new node; the listener of the children memorizes it.
AddNode ==
    /\ selected = Root /\ Room
    /\ \E child \in Child \ Mentioned :
          memorize(Change("add", child, 0, 0,
              [children |-> Append(document.children, child),
               text |-> [document.text EXCEPT ![child] = << >>],
               likes |-> [n \in Survey |-> IF n = child THEN 0 ELSE document.likes[n]]]))
    /\ trusted' = (trusted /\ CutsCleanly)
    /\ UNCHANGED selected

\* deleteNode() of the selected node; the root stays.  A child that is not the last one
\* comes back as the last one.
DeleteNode ==
    /\ selected \in ToSet(document.children) /\ Room
    /\ LET children == RemoveFirst(document.children, selected)
       IN /\ memorize(Change("remove", selected, 0, 0,
                             [document EXCEPT !.children = children]))
          /\ Reselect(children)
    /\ trusted' = (trusted /\ CutsCleanly /\ selected = Last(document.children))

\* makeChange and revertChange: `value` is the new or the old one.  A text is set through
\* the field of the details pane, which is bound to the selected node.
SetText(value) == IF selected = NoNode THEN document
                  ELSE [document EXCEPT !.text[selected] = value]
SetLikes(node, value) == [document EXCEPT !.likes[node] = value]
Added(child) == [document EXCEPT !.children = Append(@, child)]
Removed(child) == [document EXCEPT !.children = RemoveFirst(@, child)]

Apply(change, value, adds) ==
    CASE change.kind = "text" -> SetText(value)
      [] change.kind = "likes" -> SetLikes(change.node, value)
      [] adds -> Added(change.node)
      [] OTHER -> Removed(change.node)
Reverted == LET c == changesStack[changesIterator] IN Apply(c, c.old, c.kind = "remove")
Remade == LET c == changesStack[changesIterator + 1] IN Apply(c, c.new, c.kind = "add")

\* The field a text change was made in still shows the node it was made on.
Bound(change) == change.kind = "text" => change.node = selected

Undo ==
    /\ undoAvailable
    /\ document' = Reverted
    /\ changesIterator' = changesIterator - 1
    /\ undoAvailable' = (changesIterator > 1) /\ redoAvailable' = TRUE
    /\ Reselect(document'.children)
    /\ trusted' = (trusted /\ Bound(changesStack[changesIterator]))
    /\ UNCHANGED <<changesStack, made>>

Redo ==
    /\ redoAvailable
    /\ document' = Remade
    /\ changesIterator' = changesIterator + 1
    /\ undoAvailable' = TRUE
    /\ redoAvailable' = (changesIterator + 1 < Len(changesStack))
    /\ Reselect(document'.children)
    /\ trusted' = (trusted /\ Bound(changesStack[changesIterator + 1]))
    /\ UNCHANGED <<changesStack, made>>

\* onItemSelected binds the fields under setDummyAction: nothing is memorized.
Select ==
    /\ selected' \in ToSet(document.children) \cup {Root, NoNode}
    /\ UNCHANGED <<document, changesStack, changesIterator, undoAvailable, redoAvailable, made, trusted>>

\* save() of a document with a file: clearHistory.
Save ==
    /\ changesStack' = << >> /\ changesIterator' = 0
    /\ undoAvailable' = FALSE /\ redoAvailable' = FALSE
    /\ UNCHANGED <<document, selected, made, trusted>>

Next == \/ TypeLetter \/ EraseLetter \/ Vote \/ AddNode \/ DeleteNode
        \/ Undo \/ Redo \/ Select \/ Save

Spec == Init /\ [][Next]_undoVars
-----------------------------------------------------------------------------
TypeOK ==
    /\ ToSet(document.children) \subseteq Child
    /\ selected \in ToSet(document.children) \cup {Root, NoNode}
    /\ changesIterator \in 0 .. Len(changesStack)
    /\ {undoAvailable, redoAvailable, trusted} \subseteq BOOLEAN

\* What is in the tree of a document.
Shown(d) ==
    LET nodes == ToSet(d.children) \cup {Root}
    IN <<d.children, [n \in nodes |-> d.text[n]], [n \in nodes \cap Survey |-> d.likes[n]]>>

\* A button that can be pressed finds its change in the list; and in a history without
\* the three mistakes (two changes undone before a new one, a middle child deleted, a text
\* undone while another node is shown) undo leads back to the document before the last
\* change, merged letters included, and redo forward to the one after the next.
UndoRestores ==
    /\ undoAvailable = (changesIterator > 0)
    /\ redoAvailable => changesIterator < Len(changesStack)
    /\ trusted /\ undoAvailable =>
          LET c == changesStack[changesIterator] IN Bound(c) => Shown(Reverted) = Shown(c.before)
    /\ trusted /\ redoAvailable =>
          LET c == changesStack[changesIterator + 1] IN Bound(c) => Shown(Remade) = Shown(c.after)
=============================================================================
