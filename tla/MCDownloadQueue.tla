-------------------------- MODULE MCDownloadQueue --------------------------
(***************************************************************************)
(* Small instances of DownloadQueue for TLC.  Sources: `v1` and `v2` are   *)
(* two versions of one CivitAI model, listed in that order; `link` is a file *)
(* outside CivitAI, with neither a model nor a version.                    *)
(***************************************************************************)
EXTENDS QueueBoard, TLC

CONSTANTS s1, s2, v1, v2, link, m, loras, checkpoints

MCModelOf   == [u \in Urls |-> IF u = link THEN None ELSE m]
MCVersionOf == [u \in Urls |-> IF u = link THEN None ELSE u]
MCListing   == [model \in {m} |-> SelectSeq(<<v1, v2>>, LAMBDA u : u \in Urls)]

Ask(url, type) == [url |-> url, type |-> type, file |-> None]
Placed(url, type) == [url |-> url, type |-> type, file |-> None]

EmptyTable == [j \in {} |-> 0]

Completed(url, type) ==
    [NewRow(url, type, FALSE, None, "cli_add") EXCEPT
        !.status = "done", !.dest = Placed(url, type)]

\* An update queued by an older daemon for a model whose first version is done.
PendingUpdate ==
    <<Completed(v1, loras), NewRow(v2, None, FALSE, None, "update_available")>>

Interrupted ==
    [NewRow(v1, None, FALSE, None, "cli_add") EXCEPT !.status = "downloading"]

Perms == Permutations(Slots)

\* Instances: what is requested, and what an earlier run left.
OneVersion   == {Ask(v1, None)}
OneDeclared  == {Ask(v1, loras)}
TwoVersions  == {Ask(v1, None), Ask(v2, None)}
TwoTypes     == {Ask(v1, loras), Ask(v1, checkpoints)}

VersionOrFile == {Ask(v1, None), Ask(link, loras)}

FreshStart   == {EmptyTable}
Stray        == {Placed(link, loras)}
LegacyStarts == {EmptyTable, PendingUpdate, <<Interrupted, Completed(v1, loras)>>}
=============================================================================
