------------------------------ MODULE Fetching ------------------------------
(***************************************************************************)
(* A directory of HuggingFace, listed page by page (huggingface/mod.rs);   *)
(* the loop without pages is the one of CivitAI (civitai/mod.rs get_json). *)
(* The service is the environment: it limits the rate, fails, and changes  *)
(* what it serves.                                                         *)
(***************************************************************************)
EXTENDS Naturals, Sequences, SequencesExt

CONSTANTS
  Pages,       \* the files on each page of the directory
  MaxPower,    \* the longest delay is 2^MaxPower seconds
  MaxChanges   \* bound: changes of what the service does

\* The files of the directory.
Listed == UNION {Range(Pages[i]) : i \in DOMAIN Pages}

ASSUME FetchingAssumption ==
  /\ MaxPower \in Nat /\ MaxChanges \in Nat
  /\ Pages # <<>> /\ Pages \in Seq(Seq(Listed))

VARIABLES
  listing,   \* what the running listing knows
  served,    \* what the service answers: "pages", "limit", "error" or "elsewhere", a
             \* page whose next link is to another origin
  changes

fetchingVars == <<listing, served, changes>>

Asked0 == [state |-> "asking", page |-> 1, attempts |-> 0, files |-> <<>>]

----------------------------------------------------------------------------
\* A rate limit is waited out for as long as it lasts, a little longer each time.
ListLimited ==
  /\ listing.state = "asking" /\ served = "limit"
  /\ listing' = [listing EXCEPT !.state = "waiting",
                                !.attempts = IF @ = MaxPower THEN @ ELSE @ + 1]
  /\ UNCHANGED <<served, changes>>

\* A slip: the listing begins again after a limit, with the files it has.
ListFromStart ==
  /\ listing.state = "waiting"
  /\ listing' = [listing EXCEPT !.state = "asking", !.page = 1]
  /\ UNCHANGED <<served, changes>>

ListAgain ==
  /\ listing.state = "waiting"
  /\ listing' = [listing EXCEPT !.state = "asking"]
  /\ UNCHANGED <<served, changes>>

\* The files of the page, and the page its link names next.
ListPage ==
  /\ listing.state = "asking" /\ served = "pages"
  /\ LET files == listing.files \o Pages[listing.page]
     IN  listing' = IF listing.page = Len(Pages)
                    THEN [listing EXCEPT !.state = "done", !.files = files]
                    ELSE [listing EXCEPT !.page = @ + 1, !.attempts = 0, !.files = files]
  /\ UNCHANGED <<served, changes>>

\* Any other answer, an unreachable service, or a link to another origin.
ListFails ==
  /\ listing.state = "asking" /\ served \in {"error", "elsewhere"}
  /\ listing' = [listing EXCEPT !.state = "failed", !.files = <<>>]
  /\ UNCHANGED <<served, changes>>

----------------------------------------------------------------------------
ServiceChanges ==
  /\ changes < MaxChanges /\ changes' = changes + 1
  /\ served' \in {"pages", "limit", "error", "elsewhere"}
  /\ UNCHANGED listing

FetchingInit == listing = Asked0 /\ served = "pages" /\ changes = 0

FetchingNext == ListLimited \/ ListAgain \/ ListPage \/ ListFails \/ ServiceChanges

----------------------------------------------------------------------------
FetchingTypeOK ==
  /\ listing \in [state : {"asking", "waiting", "done", "failed"}, page : DOMAIN Pages,
                  attempts : 0 .. MaxPower, files : Seq(Listed)]
  /\ served \in {"pages", "limit", "error", "elsewhere"}
  /\ changes \in 0 .. MaxChanges

\* A listing that ends well is the whole directory, each file once, whatever limits were
\* hit on whichever pages: a file missing from it is downloaded without its hash, and
\* counts for nothing in the estimate (huggingface/mod.rs:194-241).
ListingIsWhole == listing.state = "done" => listing.files = FlattenSeq(Pages)

FetchingSpec == FetchingInit /\ [][FetchingNext]_fetchingVars
=============================================================================
