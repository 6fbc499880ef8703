--------------------------- MODULE MCWorkersHost ---------------------------
\* Two fetches and a batch, and four applications: one that runs a statement, one
\* whose three handlers insert rows, one that stores an object and deletes it, and one
\* that serves what its queue consumer uploads.
EXTENDS WorkersHost

MCFetches == {"page", "file"}
MCBatches == {"batch"}
Use(uses, calls) == [uses |-> uses, calls |-> calls, dispatches |-> 1]
Twice(use) == [use EXCEPT !.dispatches = 2]
MCPlans ==
    {[page |-> Use({"stmt"}, 5), file |-> Use({}, 0), batch |-> Use({"other"}, 1)],
     [page |-> Use({"exec"}, 2), file |-> Use({"exec"}, 1), batch |-> Twice(Use({"exec"}, 1))],
     [page |-> Use({"delete"}, 1), file |-> Use({"upload"}, 4), batch |-> Use({}, 0)],
     [page |-> Use({}, 0), file |-> Use({"download"}, 4), batch |-> Use({"upload"}, 3)]}
=============================================================================
