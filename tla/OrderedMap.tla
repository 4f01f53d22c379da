------------------------------ MODULE OrderedMap -------------------------------
(***************************************************************************)
(* What a hash table of uthash.h promises: the elements that were added    *)
(* and not deleted, at most one per key, in the order in which they were   *)
(* added or last sorted. The proxy relies on this for its socket pairs.    *)
(***************************************************************************)
EXTENDS SequencesExt, Integers

CONSTANTS Elem, KeyOf, Rank

VARIABLE items

Has(k) == \E i \in 1 .. Len(items) : KeyOf[items[i]] = k

(* s in the order of Rank, equal elements in the order they have in items. *)
Sorted(s) ==
    /\ Len(s) = Len(items) /\ ToSet(s) = ToSet(items)
    /\ \A i, j \in 1 .. Len(s) :
         i < j => \/ Rank[s[i]] < Rank[s[j]]
                  \/ /\ Rank[s[i]] = Rank[s[j]]
                     /\ \E a, b \in 1 .. Len(items) :
                          a < b /\ items[a] = s[i] /\ items[b] = s[j]

Init == items = <<>>
Next ==
    \/ \E e \in Elem : ~Has(KeyOf[e]) /\ items' = Append(items, e)
    \/ \E e \in Elem, i \in 1 .. Len(items) :
         KeyOf[items[i]] = KeyOf[e] /\ items' = Append(RemoveAt(items, i), e)
    \/ \E i \in 1 .. Len(items) : items' = RemoveAt(items, i)
    \/ Sorted(items')
    \/ items' = <<>>

Spec == Init /\ [][Next]_items
================================================================================
