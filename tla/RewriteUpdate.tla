--------------------------- MODULE RewriteUpdate ---------------------------
(***************************************************************************)
(* What `rewrite_update` (compiler.py) makes of one `MutableDict` that is  *)
(* a parameter of an UPDATE.  SQLAlchemy hands over the whole document,    *)
(* as `SET data = ?`; when the document carries key marks the parameter is *)
(* replaced by one per marked key, `SET data['a'] = ?, data['b'] = ?`.     *)
(*                                                                         *)
(* A document is a function from Keys to contents; Absent stands for a key *)
(* the document does not have and Null for a key whose value is None.      *)
(***************************************************************************)
CONSTANTS Keys,       \* the top-level keys of a document
          FalsyKeys,  \* the keys Python takes for false: the empty string, 0
          Values,     \* what a key may hold, None apart
          Null,
          Absent

ASSUME FalsyKeysAssumption == FalsyKeys \subseteq Keys
ASSUME ContentsAssumption ==
    /\ Null # Absent
    /\ Null \notin Values
    /\ Absent \notin Values

Contents  == Values \cup {Null, Absent}
Documents == [Keys -> Contents]
NoDocument == [k \in Keys |-> Absent]

\* `any(keys)`: Python asks for a true element, not for an element.
AnyOf(keys) == keys \ FalsyKeys # {}

\* Faulty variant: the deletions are not looked at.
IsRewrittenByChangesOnly(changed, deleted) == AnyOf(changed)

\* The test that leaves the parameter alone, negated.
IsRewritten(changed, deleted) == AnyOf(changed) \/ AnyOf(deleted)

\* Faulty variant: the loop over `_deleted_keys` is missing.
AssignedKeysWithoutDeleted(items, changed, deleted) == {k \in changed : items[k] # Absent}

\* The keys that get a `col['key'] = ?` of their own.
AssignedKeys(items, changed, deleted) ==
    {k \in changed : items[k] # Absent} \cup deleted

\* Deleted keys are added last, and assigned NULL.
AssignedContent(items, deleted, k) == IF k \in deleted THEN Null ELSE items[k]

\* The keys an UPDATE writes: the whole column unless the parameter was rewritten.
WrittenKeys(items, changed, deleted) ==
    IF IsRewritten(changed, deleted)
    THEN AssignedKeys(items, changed, deleted)
    ELSE Keys

WrittenContent(items, changed, deleted, k) ==
    IF IsRewritten(changed, deleted)
    THEN AssignedContent(items, deleted, k)
    ELSE items[k]

\* The stored document once the UPDATE has run on it.
Updated(doc, items, changed, deleted) ==
    [k \in Keys |-> IF k \in WrittenKeys(items, changed, deleted)
                    THEN WrittenContent(items, changed, deleted, k)
                    ELSE doc[k]]
=============================================================================
