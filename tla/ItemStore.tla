------------------------------ MODULE ItemStore -------------------------------
(* The items of APIService (src/src/api.py) in InMemoryStorage                 *)
(* (src/src/storage.py), called from one or from several threads.              *)
(*                                                                             *)
(* add_item counts the items, makes the id of the count, and appends; delete   *)
(* copies the list without the item and then puts the copy in its place.  The  *)
(* storage takes no lock, so other threads run between the two halves.  An     *)
(* item is its id and a serial number that tells items apart; name and status  *)
(* are left out.  A batch is its single operations, one after the other: it    *)
(* publishes nothing and does not stop at an item that it does not find.       *)
EXTENDS Naturals, Sequences, FiniteSets, Lists

CONSTANTS
  Threads,
  MaxItems,    \* bound: after so many items no thread adds another
  MaxId        \* bound: ids that callers ask to delete

\* What the constants are, assumed by the modules that use this one.
StoreAssumption == MaxItems \in Nat /\ MaxId \in Nat

VARIABLES
  items,     \* _items
  born,      \* the serial number of the item added last
  removed,   \* the items that a delete or a clear took away
  doing      \* what each thread has read and not yet acted on

vars == <<items, born, removed, doing>>

Item == [id : Nat, serial : Nat]
Idle == [op |-> "idle"]

Elements(s) == {s[i] : i \in 1..Len(s)}

\* The two items that APIService puts into a new storage.
Init ==
  /\ items = <<[id |-> 1, serial |-> 1], [id |-> 2, serial |-> 2]>>
  /\ born = 2
  /\ removed = {}
  /\ doing = [t \in Threads |-> Idle]

IsIdle(t) == doing[t].op = "idle"

-------------------------------------------------------------------------------
(* add_item, batch_add_items                                                   *)

\* Mutant: the count itself is the id.
CountAsId(count) == count

IdAfter(count) == count + 1

AddCounts(t) ==
  /\ IsIdle(t)
  /\ born < MaxItems
  /\ doing' = [doing EXCEPT ![t] = [op |-> "add", id |-> IdAfter(Len(items))]]
  /\ UNCHANGED <<items, born, removed>>

AddAppends(t) ==
  /\ doing[t].op = "add"
  /\ born' = born + 1
  /\ items' = Append(items, [id |-> doing[t].id, serial |-> born'])
  /\ doing' = [doing EXCEPT ![t] = Idle]
  /\ UNCHANGED removed

-------------------------------------------------------------------------------
(* delete_item, batch_delete_items                                             *)

Without(id) == Sublist(items, {i \in 1..Len(items) : items[i].id # id})

DeleteCopies(t, id) ==
  /\ IsIdle(t)
  /\ doing' = [doing EXCEPT ![t] = [op |-> "delete", id |-> id, rest |-> Without(id)]]
  /\ UNCHANGED <<items, born, removed>>

\* The items meant are all that had the id when the list was copied or have it now.
DeleteAssigns(t) ==
  /\ doing[t].op = "delete"
  /\ items' = doing[t].rest
  /\ removed' = removed \cup {item \in Elements(items) : item.id = doing[t].id}
  /\ doing' = [doing EXCEPT ![t] = Idle]
  /\ UNCHANGED born

\* clear_items
Clear(t) ==
  /\ IsIdle(t)
  /\ items' = <<>>
  /\ removed' = removed \cup Elements(items)
  /\ UNCHANGED <<born, doing>>

Next ==
  \/ \E t \in Threads : AddCounts(t)
  \/ \E t \in Threads : AddAppends(t)
  \/ \E t \in Threads, id \in 1..MaxId : DeleteCopies(t, id)
  \/ \E t \in Threads : DeleteAssigns(t)
  \/ \E t \in Threads : Clear(t)

Spec == Init /\ [][Next]_vars

-------------------------------------------------------------------------------
TypeOK ==
  /\ items \in Seq([id : Nat \ {0}, serial : 1..born])
  /\ born \in Nat
  /\ removed \subseteq Item
  /\ \A t \in Threads : doing[t].op \in {"idle", "add", "delete"}

IdsInUse == {item.id : item \in Elements(items)}

\* Every item that was added is in the list unless it was removed, and none that
\* was removed is: no operation undoes what another has done.
NothingLost ==
  /\ {item.serial : item \in Elements(items) \cup removed} = 1..born
  /\ Elements(items) \cap removed = {}

\* Items share an id only as far as items were removed: n removals make n items
\* at most carry an id that another has.
SharedIdsPaidFor == Len(items) - Cardinality(IdsInUse) <= Cardinality(removed)
===============================================================================
