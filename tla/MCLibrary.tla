------------------------------ MODULE MCLibrary ------------------------------
(***************************************************************************)
(* Small instances of UpdateChecks for TLC.  `one` and `two` are versions  *)
(* of one CivitAI model; `twin` is a file from elsewhere with the name of  *)
(* `one`, in another directory.                                            *)
(***************************************************************************)
EXTENDS UpdateChecks, TLC

CONSTANTS one, two, twin, model, loras, checkpoints, flux, n1, n2

MCModelOf   == (one :> model) @@ (two :> model) @@ (twin :> None)
MCVersionOf == (one :> one) @@ (two :> two) @@ (twin :> None)
MCFileName  == (one :> n1) @@ (two :> n2) @@ (twin :> n1)
MCStem      == MCFileName
MCDirOf     == (one :> loras) @@ (two :> loras) @@ (twin :> checkpoints)
MCNumber    == (one :> 1) @@ (two :> 2)
MCBaseModel == (one :> flux) @@ (two :> flux)
MCListings  == model :> <<<<one>>, <<two, one>>>>

Installed(url, hashed) ==
    Tracked([NewRow(url, None, FALSE, None, "cli_add") EXCEPT
                !.status = "done", !.dest = PathOf(url)], hashed)

\* A model that is kept up to date: checks, requests and crashes.
Watched ==
    [rows |-> <<Installed(one, TRUE)>>, files |-> {one}, described |-> {one},
     events |-> {"check", "version", "publish", "requeue", "crash"}]

\* A model the user deletes and adds again while the scanner is at work.
Handled ==
    [rows |-> <<Installed(one, TRUE)>>, files |-> {one, twin}, described |-> {one},
     events |-> {"add", "delete1", "repair", "fail", "scan"}]

\* A model with cancelled and second rows, repaired while it is deleted.
Doubled == [Handled EXCEPT !.events = {"add", "delete1", "repair", "cancel"}]

\* Two rows of one file, as a scan beside a download leaves them, deleted at once.
Shared ==
    [rows |-> <<Installed(one, TRUE), Installed(one, TRUE)>>, files |-> {one}, described |-> {one},
     events |-> {"delete1", "delete2", "repair", "requeue"}]

\* Two files of one name, one of which the user removes by hand.
Namesakes ==
    [rows |-> <<Installed(one, TRUE), Installed(twin, TRUE)>>, files |-> {one, twin},
     described |-> {one}, events |-> {"repair", "user", "requeue", "scan", "crash"}]

\* A file without a version that is added a second time, removed and downloaded again.
Readded == [Namesakes EXCEPT !.events = {"add", "user", "requeue"}]

MCLibraries == {Watched, Handled, Doubled, Shared, Namesakes, Readded}
JustNamesakes == {[Namesakes EXCEPT !.events = {"repair", "user", "add"}]}
=============================================================================
