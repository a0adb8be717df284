--------------------------- MODULE MonotonicReads ---------------------------
(***************************************************************************)
(* What getSchema promises the processes while one of them at a time       *)
(* builds the schema.  It does not promise a version the database has had: *)
(* a schema is read while the database goes from one version to another    *)
(* and may mix them.  It promises that the stretches of versions a process *)
(* takes its schemas from follow one another without overlap.              *)
(***************************************************************************)
EXTENDS Naturals

CONSTANT
    Readers  \* the processes that share the database

VARIABLES
    newest,  \* the version the database's schema has
    used     \* the stretch each process last took a schema from, 0 to 0 at first

Init ==
    /\ newest = 1
    /\ used = [r \in Readers |-> [from |-> 0, upto |-> 0]]

\* The database's schema changes, whatever the processes use by then.
Change ==
    /\ newest' = newest + 1
    /\ UNCHANGED used

\* One process takes into use what was read from version `from` to `upto`.
Take(r) ==
    /\ \E from \in used[r].upto .. newest : \E upto \in from .. newest :
          used' = [used EXCEPT ![r] = [from |-> from, upto |-> upto]]
    /\ UNCHANGED newest

Next == Change \/ \E r \in Readers : Take(r)

Spec == Init /\ [][Next]_<<newest, used>>
=============================================================================
