------------------------------ MODULE SchemaOps ------------------------------
(***************************************************************************)
(* What a schema migration can do.  A schema is a set of pairs <<t, n>>:   *)
(* table t has the column, index, constraint or policy n; <<t, "*">> is    *)
(* the table itself.  An enum type is a table whose columns are its        *)
(* labels.  Types, nullability, comments and rows are not kept.            *)
(*                                                                         *)
(* An operation runs when table `on` has all of `needs` and none of        *)
(* `lacks`; otherwise it is skipped when it is `lax` (the migration looks  *)
(* first) and fails when it is not.                                        *)
(***************************************************************************)
EXTENDS Naturals, Sequences, SequencesExt

Table == {"*"}
Broken == {<<"broken", "*">>}     \* what a failing migration makes of a schema

Op(on, lax, needs, lacks, adds, drops) ==
    [on |-> on, lax |-> lax, needs |-> needs, lacks |-> lacks,
     adds |-> adds, drops |-> drops, all |-> FALSE]

\* CREATE TABLE, and the same behind a look at the catalogue, which then
\* covers the indexes created with it as well
Create(t, names) == Op(t, FALSE, {}, Table, Table \cup names, {})
CreateMissing(t, names) == Op(t, TRUE, {}, Table, Table \cup names, {})

\* ADD COLUMN, CREATE INDEX, ADD CONSTRAINT; IF NOT EXISTS; and the same for
\* a table that may be missing
Add(t, names) == Op(t, FALSE, Table, names, names, {})
AddMissing(t, names) == Op(t, FALSE, Table, {}, names, {})
AddIfTable(t, names) == Op(t, TRUE, Table, {}, names, {})

\* CREATE INDEX [IF NOT EXISTS] on columns that an earlier revision added
IndexOn(t, cols, names) == Op(t, FALSE, Table \cup cols, names, names, {})
IndexMissing(t, cols, names) == Op(t, FALSE, Table \cup cols, {}, names, {})

\* ALTER COLUMN; one to a type without a cast from the old one always fails
Alter(t, cols) == Op(t, FALSE, Table \cup cols, {}, {}, {})
Uncastable(t) == Op(t, FALSE, {}, Table, {}, {})

\* DROP COLUMN, DROP INDEX, DROP CONSTRAINT; and IF EXISTS
Drop(t, names) == Op(t, FALSE, Table \cup names, {}, {}, names)
DropAny(t, names) == Op(t, FALSE, {}, {}, {}, names)

Rename(t, a, b) == Op(t, TRUE, {a}, {b}, {b}, {a})

DropTable(t) == [Op(t, FALSE, Table, {}, {}, {}) EXCEPT !.all = TRUE]
DropTableAny(t) == [Op(t, TRUE, Table, {}, {}, {}) EXCEPT !.all = TRUE]

Runs(op, schema) ==
    /\ \A n \in op.needs : <<op.on, n>> \in schema
    /\ \A n \in op.lacks : <<op.on, n>> \notin schema

Do(op, schema) ==
    IF ~Runs(op, schema)
    THEN IF op.lax THEN schema ELSE Broken
    ELSE { o \in schema : o[1] # op.on \/ ~(op.all \/ o[2] \in op.drops) }
         \cup ({op.on} \X op.adds)

\* A migration: the operations of upgrade() or downgrade(), in order
Perform(ops, schema) ==
    FoldLeft(LAMBDA s, op : IF s = Broken THEN s ELSE Do(op, s), schema, ops)

Revision(from, up, down) == [from |-> from, up |-> up, down |-> down]
=============================================================================
