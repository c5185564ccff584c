------------------------------ MODULE Migrations -----------------------------
(***************************************************************************)
(* A database under `alembic upgrade` and `alembic downgrade`              *)
(* (src/alembic/env.py, run by the PRE_DEPLOY job).  A migration runs in   *)
(* a transaction: one that fails leaves the schema as it was, so a failing *)
(* step is no step here.  The revision graph branches four times, and the  *)
(* revisions of two branches may be applied in any order, undone and       *)
(* applied again.  Rows are not kept: what a migration finds in them       *)
(* (codes too long for a narrowed column, duplicates) may also stop it.    *)
(***************************************************************************)
EXTENDS Models

VARIABLES
    schema,   \* the database
    applied   \* the revisions that made it, by the alembic_version table

vars == <<schema, applied>>

Migration ==
    ("8fb1b0855393" :> Rev_8fb1b0855393)
    @@ ("a1b2c3d4e5f6" :> Rev_a1b2c3d4e5f6)
    @@ ("e1a2f3b4c5d6" :> Rev_e1a2f3b4c5d6)
    @@ ("f3a4b5c6d7e8" :> Rev_f3a4b5c6d7e8)
    @@ ("5bc6243a55b2" :> Rev_5bc6243a55b2)
    @@ ("85397898945d" :> Rev_85397898945d)
    @@ ("c7d8e9f0a1b2" :> Rev_c7d8e9f0a1b2)
    @@ ("d8e9f0a1b2c3" :> Rev_d8e9f0a1b2c3)
    @@ ("b7d8c9a1e2f3" :> Rev_b7d8c9a1e2f3)
    @@ ("e0a1b2c3d4e5" :> Rev_e0a1b2c3d4e5)
    @@ ("f2c3d4e5f6a7" :> Rev_f2c3d4e5f6a7)
    @@ ("f4c5d6e7a8b9" :> Rev_f4c5d6e7a8b9)
    @@ ("a3b4c5d6e7f8" :> Rev_a3b4c5d6e7f8)
    @@ ("g5h6i7j8k9l0" :> Rev_g5h6i7j8k9l0)
    @@ ("h6i7j8k9l0m1" :> Rev_h6i7j8k9l0m1)
    @@ ("33c6ac057344" :> Rev_33c6ac057344)
    @@ ("fb08f11836cb" :> Rev_fb08f11836cb)
    @@ ("i7j8k9l0m1n2" :> Rev_i7j8k9l0m1n2)
    @@ ("j8k9l0m1n2o3" :> Rev_j8k9l0m1n2o3)
    @@ ("k9l0m1n2o3p4" :> Rev_k9l0m1n2o3p4)
    @@ ("27d5044c4371" :> Rev_27d5044c4371)
    @@ ("a805015c381f" :> Rev_a805015c381f)
    @@ ("l0m1n2o3p4q5" :> Rev_l0m1n2o3p4q5)
    @@ ("m1n2o3p4q5r6" :> Rev_m1n2o3p4q5r6)
    @@ ("n2o3p4q5r6s7" :> Rev_n2o3p4q5r6s7)
    @@ ("o3p4q5r6s7t8" :> Rev_o3p4q5r6s7t8)
    @@ ("p4q5r6s7t8u9" :> Rev_p4q5r6s7t8u9)
    @@ ("q5r6s7t8u9v0" :> Rev_q5r6s7t8u9v0)
    @@ ("r6s7t8u9v0w1" :> Rev_r6s7t8u9v0w1)
    @@ ("s7t8u9v0w1x2" :> Rev_s7t8u9v0w1x2)
    @@ ("t8u9v0w1x2y3" :> Rev_t8u9v0w1x2y3)
    @@ ("u1v2w3x4y5z6" :> Rev_u1v2w3x4y5z6)
    @@ ("v2w3x4y5z6a7" :> Rev_v2w3x4y5z6a7)
    @@ ("w3x4y5z6a7b8" :> Rev_w3x4y5z6a7b8)
    @@ ("x4y5z6a7b8c9" :> Rev_x4y5z6a7b8c9)
    @@ ("y5z6a7b8c9d0" :> Rev_y5z6a7b8c9d0)
    @@ ("z6a7b8c9d0e1" :> Rev_z6a7b8c9d0e1)
    @@ ("a7b8c9d0e1f2" :> Rev_a7b8c9d0e1f2)
    @@ ("b8c9d0e1f2a3" :> Rev_b8c9d0e1f2a3)
    @@ ("515fdf0e01b9" :> Rev_515fdf0e01b9)
    @@ ("c9d0e1f2a3b4" :> Rev_c9d0e1f2a3b4)
    @@ ("daba0a72d36b" :> Rev_daba0a72d36b)
    @@ ("b1c2d3e4f5a6" :> Rev_b1c2d3e4f5a6)
    @@ ("c2d3e4f5a6b7" :> Rev_c2d3e4f5a6b7)
    @@ ("d9e0f1a2b3c4" :> Rev_d9e0f1a2b3c4)
    @@ ("e0f1a2b3c4d5" :> Rev_e0f1a2b3c4d5)
    @@ ("f1a2b3c4d5e6" :> Rev_f1a2b3c4d5e6)
    @@ ("f2b3c4d5e6a7" :> Rev_f2b3c4d5e6a7)
    @@ ("a3c4d5e6f7b8" :> Rev_a3c4d5e6f7b8)
    @@ ("f1e2d3c4b5a6" :> Rev_f1e2d3c4b5a6)
    @@ ("g2f3e4d5c6b7" :> Rev_g2f3e4d5c6b7)
    @@ ("h3i4j5k6l7m8" :> Rev_h3i4j5k6l7m8)

Revs == DOMAIN Migration

\* The revisions alembic may run next, and those it may undo
Ready == { r \in Revs \ applied : Migration[r].from \subseteq applied }
Tips == { r \in applied : \A s \in applied : r \notin Migration[s].from }

Upgraded(r) == Perform(Migration[r].up, schema)
Downgraded(r) == Perform(Migration[r].down, schema)

Init == schema = {} /\ applied = {}

Upgrade(r) ==
    /\ Upgraded(r) # Broken
    /\ schema' = Upgraded(r)
    /\ applied' = applied \cup {r}

Downgrade(r) ==
    /\ Downgraded(r) # Broken
    /\ schema' = Downgraded(r)
    /\ applied' = applied \ {r}

Next ==
    \/ \E r \in Ready : Upgrade(r)
    \/ \E r \in Tips : Downgrade(r)

Spec == Init /\ [][Next]_vars

-----------------------------------------------------------------------------
\* No order of upgrades and downgrades reaches a database that a later
\* upgrade cannot take further: a revision finds the tables and columns it
\* needs whatever the branches did before it, and whatever a downgrade that
\* took away too much, or too little, left behind.
UpgradeApplies == \A r \in Ready : Upgraded(r) # Broken

\* The code that a deployment starts after `alembic upgrade head` finds every
\* table, column, enum label and unique constraint of its object model.
HeadHasModels == applied = Revs => Models \subseteq schema

\* A step can be taken back, also after other branches were merged in and
\* other steps taken back before; except 515fdf0e01b9, whose downgrade()
\* casts text to uuid without saying how and fails on every database.
RollbackApplies ==
    \A r \in Tips \ {"515fdf0e01b9"} : Downgraded(r) # Broken

\* Both ways: from every database that some order of `alembic upgrade` and
\* `alembic downgrade -1` makes, the next step up and the last one back apply.
StepsApply == UpgradeApplies /\ RollbackApplies
=============================================================================
