-------------------------- MODULE MCItemsMutations --------------------------
(* Instances of ItemsMutations for TLC. *)
EXTENDS ItemsMutations, TLC

MutationsAlike == Permutations(Mutations)

Asked(op, n, nested) == [op |-> op, payloads |-> n, nested |-> nested]

\* Every operation, with one payload or two, with nested items or without.
WholeMenu ==
    {Asked("create", 1, TRUE), Asked("createMany", 2, TRUE),
     Asked("createMany", 2, FALSE), Asked("update", 1, TRUE), Asked("delete", 1, FALSE),
     Asked("updateBatch", 2, FALSE), Asked("upsertMany", 1, TRUE)}
BatchMenu == {Asked("updateBatch", 2, FALSE)}
=============================================================================
