----------------------------- MODULE DurableMap -----------------------------
(***************************************************************************)
(* What the state store promises of the desired state on disk: a map from  *)
(* Runtime keys to documents.  An operation is granted, for every key, the *)
(* values it may store there; outside of that nothing changes, a value is  *)
(* replaced in one step, and only an entry into which the operation may    *)
(* write a document can be lost, by an operation that is cut short.        *)
(***************************************************************************)
CONSTANTS
  Keys,    \* Runtime keys
  Docs,    \* documents
  None,    \* no entry
  Lost     \* an entry whose document cannot be read any more

VARIABLES entries, granted

Nothing == [k \in Keys |-> {}]

Init == entries = [k \in Keys |-> None] /\ granted = Nothing

\* An operation starts and is granted what it may store.
Begin ==
  /\ granted = Nothing
  /\ granted' \in [Keys -> SUBSET (Docs \cup {None})]
  /\ UNCHANGED entries

Store(k) ==
  /\ \E v \in granted[k] : entries' = [entries EXCEPT ![k] = v]
  /\ UNCHANGED granted

\* A write that is cut short; the operation may go on or end with it.
Lose(k) ==
  /\ granted[k] \cap Docs # {}
  /\ entries' = [entries EXCEPT ![k] = Lost]
  /\ granted' \in {granted, Nothing}

End == granted' = Nothing /\ UNCHANGED entries

Next == Begin \/ End \/ \E k \in Keys : Store(k) \/ Lose(k)

Spec == Init /\ [][Next]_<<entries, granted>>
=============================================================================
