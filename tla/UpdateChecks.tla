---------------------------- MODULE UpdateChecks ----------------------------
(***************************************************************************)
(* The update checker (src/daemon/updater.rs) beside everything else that  *)
(* changes the rows it reads: downloads, deletions, repairs, the scanner.  *)
(*                                                                         *)
(* The checker lists the rows once, then goes model by model: it looks at  *)
(* the day's limit under the lock, asks CivitAI without it, stores the     *)
(* time of the check under the lock and flags the rows under the lock      *)
(* again, so every other task may run between two of these.  The last two  *)
(* UPDATEs are also what a crash may come between.                         *)
(***************************************************************************)
EXTENDS Library, Sequences

CONSTANTS
    Number,     \* version id -> its number; CivitAI hands out growing ones
    BaseModel,  \* version id -> its base model, or None
    Listings    \* model id -> the lists of versions CivitAI may show, over time

ASSUME UpdateAssumption ==
    /\ DOMAIN Number \subseteq VersionIds
    /\ \A u \in Urls : VersionOf[u] # None => Number[VersionOf[u]] \in Nat
    /\ \A u \in Urls : ModelOf[u] # None /\ VersionOf[u] # None => ModelOf[u] \in DOMAIN Listings
    /\ \A m \in DOMAIN Listings :
          Listings[m] # <<>> /\ Listings[m] \in Seq(Seq(DOMAIN Number))

VARIABLES
    checking,  \* is a check under way
    todo,      \* representative rows still to be looked at, by their URL
    current,   \* the one CivitAI is asked about, or None
    answer,    \* the versions it listed, None before the answer is stored
    woken,     \* has CheckUpdates left a permit for the next check
    shown      \* model id -> which of its Listings CivitAI shows now

updateVars == <<checking, todo, current, answer, woken, shown>>
vars == <<libraryVars, updateVars>>

Models == DOMAIN Listings

\* Done rows of a model; the newest one with a version represents it.
DoneRows(model) == {j \in WithStatus(rows, "done") : ModelOf[rows[j].url] = model}

Representatives ==
    {rows[j].url : j \in
        {i \in WithStatus(rows, "done") :
            /\ ModelOf[rows[i].url] # None /\ VersionOf[rows[i].url] # None
            /\ \A k \in DoneRows(ModelOf[rows[i].url]) :
                  VersionOf[rows[k].url] # None => k <= i}}

UpdateTypeOK ==
    /\ LibraryTypeOK
    /\ checking \in BOOLEAN /\ woken \in BOOLEAN
    /\ \A u \in todo : u \in Urls /\ ModelOf[u] # None /\ VersionOf[u] # None
    /\ current \in todo \cup {None}
    /\ answer = None \/ answer \in Seq(DOMAIN Number)
    /\ current = None => answer = None
    /\ ~checking => todo = {}
    /\ shown \in [Models -> Nat] /\ \A m \in Models : shown[m] \in DOMAIN Listings[m]

Init ==
    /\ LibraryInit
    /\ checking = FALSE /\ todo = {} /\ current = None /\ answer = None
    /\ woken = FALSE
    /\ shown = [m \in Models |-> 1]

----------------------------------------------------------------------------
(* A check.                                                                *)

\* Faulty variant of ShouldCheck: a model is looked at once and for all.
NeverChecked(model) == \A j \in DoneRows(model) : rows[j].checked = "never"

\* should_check_update: the latest check of any Done row is a day old; a model
\* without Done rows makes the query fail, which lets the check go on.
ShouldCheck(model) == \A j \in DoneRows(model) : rows[j].checked # "today"

\* The daemon's start, the end of the interval or a CheckUpdates.
BeginCheck ==
    /\ "check" \in events
    /\ ~checking
    /\ checking' = TRUE
    /\ todo' = Representatives
    /\ woken' = FALSE
    /\ UNCHANGED <<libraryVars, current, answer, shown>>

SkipModel(url) ==
    /\ url \in todo /\ current = None
    /\ ~ShouldCheck(ModelOf[url])
    /\ todo' = todo \ {url}
    /\ UNCHANGED <<libraryVars, checking, current, answer, woken, shown>>

AskModel(url) ==
    /\ url \in todo /\ current = None
    /\ ShouldCheck(ModelOf[url])
    /\ current' = url
    /\ UNCHANGED <<libraryVars, checking, todo, answer, woken, shown>>

\* Faulty variant of NextModel: the model asked about is not reset.
NextModelKeeping ==
    /\ todo' = todo \ {current}
    /\ answer' = None
    /\ UNCHANGED current

NextModel ==
    /\ todo' = todo \ {current}
    /\ current' = None /\ answer' = None

CheckFails ==
    /\ current # None /\ answer = None
    /\ NextModel
    /\ UNCHANGED <<libraryVars, checking, woken, shown>>

SetChecked(ids, checked) ==
    rows' = [j \in DOMAIN rows |->
                IF j \in ids THEN [rows[j] EXCEPT !.checked = checked] ELSE rows[j]]

SetAvailable(ids, version) ==
    rows' = [j \in DOMAIN rows |->
                IF j \in ids THEN [rows[j] EXCEPT !.available = version] ELSE rows[j]]

\* set_last_update_check, as soon as the answer is there.
StoreCheck ==
    /\ current # None /\ answer = None
    /\ answer' = Listings[ModelOf[current]][shown[ModelOf[current]]]
    /\ SetChecked(DoneRows(ModelOf[current]), "today")
    /\ UNCHANGED <<nextRow, rowsOnly, checking, todo, current, woken, shown>>

\* is_newer, and the base model is the same as far as both are known.
IsUpdate(listing, version) ==
    /\ listing # <<>>
    /\ Number[Head(listing)] > Number[version]
    /\ \A i \in DOMAIN listing : listing[i] = version =>
          BaseModel[version] # None /\ BaseModel[Head(listing)] = BaseModel[version]

\* flag_update_available: every Done row the model has by now.
FlagUpdate ==
    /\ answer # None
    /\ IF IsUpdate(answer, VersionOf[current])
       THEN SetAvailable(DoneRows(ModelOf[current]), Head(answer))
       ELSE UNCHANGED rows
    /\ NextModel
    /\ UNCHANGED <<nextRow, rowsOnly, checking, woken, shown>>

EndCheck ==
    /\ checking /\ todo = {}
    /\ checking' = FALSE
    /\ UNCHANGED <<libraryVars, todo, current, answer, woken, shown>>

CheckStep ==
    \/ BeginCheck
    \/ \E u \in todo : SkipModel(u) \/ AskModel(u)
    \/ StoreCheck \/ FlagUpdate \/ EndCheck

----------------------------------------------------------------------------
(* Requests, CivitAI, time and crashes.                                    *)

CheckUpdates ==
    /\ "version" \in events
    /\ woken' = TRUE
    /\ UNCHANGED <<libraryVars, checking, todo, current, answer, shown>>

\* Enqueue and clear_update_flag run under one lock.
DownloadVersion(url) ==
    /\ "version" \in events
    /\ ModelOf[url] # None /\ VersionOf[url] # None
    /\ LET after == Enqueue(rows, nextRow, Added(url))
       IN  /\ rows' = [j \in DOMAIN after |->
                          IF after[j].status = "done" /\ ModelOf[after[j].url] = ModelOf[url]
                          THEN [after[j] EXCEPT !.available = None] ELSE after[j]]
           /\ nextRow' = IF after = rows THEN nextRow ELSE nextRow + 1
    /\ nextRow' <= MaxRows + 1
    /\ UNCHANGED <<rowsOnly, updateVars>>

\* CivitAI shows another list: a version was published or withdrawn.
PublishVersion(model) ==
    /\ "publish" \in events
    /\ shown[model] < Len(Listings[model])
    /\ shown' = [shown EXCEPT ![model] = @ + 1]
    /\ UNCHANGED <<libraryVars, checking, todo, current, answer, woken>>

\* Twenty-four hours pass.
DayPasses ==
    /\ SetChecked({j \in DOMAIN rows : rows[j].checked = "today"}, "before")
    /\ UNCHANGED <<nextRow, rowsOnly, updateVars>>

Stop ==
    /\ Crash
    /\ checking' = FALSE /\ todo' = {} /\ current' = None /\ answer' = None
    /\ woken' = FALSE
    /\ UNCHANGED shown

Start == Boot /\ UNCHANGED updateVars

Requests ==
    \/ CheckUpdates
    \/ \E u \in Urls : DownloadVersion(u)
    \/ \E m \in Models : PublishVersion(m)

Next ==
    \/ up /\ LibraryStep /\ UNCHANGED updateVars
    \/ up /\ (CheckStep \/ CheckFails \/ Requests)
    \/ DayPasses
    \/ up /\ Stop
    \/ Start

Spec == Init /\ [][Next]_vars

\* Time passes, and the service manager restarts the daemon.
Fairness ==
    /\ WF_vars(DayPasses)
    /\ WF_vars(Start)

FairSpec == Spec /\ Fairness

----------------------------------------------------------------------------
(* Properties.                                                             *)

\* Checks, time and restarts, and nothing else from some point on.
Calm == <>[][(up /\ CheckStep) \/ DayPasses \/ Start]_vars

\* A check goes on to its next step: CivitAI answers, if only with an error.
ServersAnswer == WF_vars(up /\ CheckStep)

\* An update is reported: once nothing disturbs the checker, the row that
\* represents a model is flagged with the newest version CivitAI shows whenever
\* that is an update of it.  A crash between the two UPDATEs of a check, which
\* stores the time first, hides it for a day and no longer.
UpdatesAreReported ==
    Calm /\ ServersAnswer =>
        \A u \in Urls :
            <>[](("check" \in events /\ u \in Representatives) =>
                    LET listing == Listings[ModelOf[u]][shown[ModelOf[u]]]
                    IN  IsUpdate(listing, VersionOf[u]) =>
                            \A j \in DoneRows(ModelOf[u]) :
                                rows[j].available = Head(listing))

----------------------------------------------------------------------------
(* Why the safety properties hold: the inductive invariant of              *)
(* LibraryProofs.                                                          *)

RowsWaitForTheirFile == \A j \in DOMAIN rows : WaitsForItsFile(rows[j])

UpdateInv == UpdateTypeOK /\ RowsWaitForTheirFile

=============================================================================
