-------------------------- MODULE MCEntryLifecycle --------------------------
(* Instances of EntryLifecycle for TLC.                                    *)
EXTENDS EntryLifecycle

CONSTANTS e1, e2, c1, c2, o1, o2, n1, n2

TwoEntries  == {e1, e2}
TwoContexts == {c1, c2}
TwoOptions  == {o1, o2}
TwoNodes    == {n1, n2}

\* The entries that are named, gray and apt to panic.
First == {e1}

=============================================================================
