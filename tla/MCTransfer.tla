----------------------------- MODULE MCTransfer -----------------------------
(***************************************************************************)
(* Small instances of Transfer for TLC.  `hub` is a HuggingFace file: its  *)
(* temporary file keeps the name of the last URL segment, so it resumes.   *)
(* `version` is a CivitAI version with the same bytes for another          *)
(* directory: its URL ends in an id, so it seldom resumes and may clone.   *)
(* `link` is a plain link without a digest that ends up, after             *)
(* inspection, where `version` goes.  `library` has the bytes of the first *)
(* two too and is named by the id of `version`, in the same directory.     *)
(* `rival` has other bytes, the name of `hub` and, after inspection, its   *)
(* directory.                                                              *)
(*                                                                         *)
(* Directory e is on a filesystem whose files can be cloned; what is there *)
(* can be cloned into d as well, which cannot rename without replacing.    *)
(***************************************************************************)
EXTENDS Transfer

CONSTANTS hub, version, link, library, rival, x, y, c, d, e, n, id

MCRow(content, hash, name, segment, dir, final) ==
    [content |-> content, hash |-> hash, name |-> name, stem |-> name,
     segment |-> segment, dir |-> dir, final |-> final, named |-> hash # None,
     ranges |-> hash # None, safetensors |-> TRUE,
     reflinks |-> IF dir = d THEN {d, e} ELSE {dir}, noreplace |-> dir # d]

MCSource == [j \in {hub, version, link, library, rival} |->
    CASE j = hub     -> MCRow(x, x, n, n, d, d)
      [] j = library -> MCRow(x, x, id, id, e, e)
      [] j = rival   -> MCRow(y, y, n, id, c, d)
      [] j = version -> MCRow(x, x, n, id, e, e)
      [] j = link    -> MCRow(y, None, n, n, d, e)]

\* Each pair of rows that share a file or bytes, one at a time or both together;
\* one installation has `library` to clone from, and where it is downloaded its
\* temporary file is the one `version` asks the rest of.
MCWorkloads ==
    {[limit |-> 1, queued |-> {hub, link}, done |-> {}],
     [limit |-> 1, queued |-> {version, library}, done |-> {}],
     [limit |-> 2, queued |-> {hub, version}, done |-> {}],
     [limit |-> 2, queued |-> {hub, link}, done |-> {}],
     [limit |-> 2, queued |-> {version, link}, done |-> {library}]}

\* Two files of one name that end up in one directory, downloaded together.
RaceWorkloads == {[limit |-> 2, queued |-> {hub, rival}, done |-> {}]}
=============================================================================
