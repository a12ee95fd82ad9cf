---------------------------- MODULE SharedFiles ----------------------------
(***************************************************************************)
(* The two JSON files that processes of the bot share: the manual buy list *)
(* (manual_buy_list.py, changed by the command line, read by screening)    *)
(* and the monitor's state file (scheduler_state.write_state_file, and     *)
(* manual_screening.py, which writes it in place).  A write to a temporary *)
(* file takes two steps, the replacement is a third; a process may die     *)
(* between them and, where an open file cannot be replaced, it may raise.  *)
(***************************************************************************)
EXTENDS Integers, FiniteSets

CONSTANTS
    Clis,            \* processes of the command manual-buy-list
    StateJobs,       \* jobs of the scheduler that write the state file
    ListTickers,
    MaxListTickers,  \* MAX_MANUAL_BUY_TICKERS
    MaxFileCalls     \* bound: calls begun

ASSUME FileAssumption ==
    /\ Clis \cap StateJobs = {} /\ "screening" \notin Clis \cup StateJobs
    /\ {"torn", "absent"} \cap ListTickers = {}
    /\ MaxListTickers \in Nat /\ MaxFileCalls \in Nat

VARIABLES
    published,  \* content of each file
    temporary,  \* content of its .tmp
    fileCall,   \* what each process is doing
    accepted,   \* history: what the completed calls, one after the other, mean
    disturbed,  \* history: calls overlapped, or a write in place was cut off
    fileCalls   \* calls begun

fileVars == <<published, temporary, fileCall, accepted, disturbed, fileCalls>>

\* Content is a set of pairs: a ticker and whether it is enabled, or a writer.
Torn == {<<"torn", FALSE>>}
Absent == {<<"absent", FALSE>>}
Closed == {<<"closed", TRUE>>}
EmptyList == {}
Screening == "screening"
FileWriters == Clis \cup StateJobs \cup {Screening}
FileOf(p) == IF p \in Clis THEN "list" ELSE "state"
ListOps == {"add", "remove", "clear", "enable", "disable"}
NoCall == [step |-> "idle", op |-> "none", ticker |-> "none", content |-> {}]

FileInit ==
    /\ published = [list |-> EmptyList, state |-> Closed]
    /\ temporary = [list |-> Absent, state |-> Absent]
    /\ fileCall = [p \in FileWriters |-> NoCall]
    /\ accepted = [list |-> EmptyList, state |-> Closed]
    /\ disturbed = [list |-> FALSE, state |-> FALSE]
    /\ fileCalls = 0

Listed(items) == {item[1] : item \in items}
FileTypeOK ==
    /\ published.list = Torn \/ published.list \subseteq (ListTickers \X BOOLEAN)
    /\ published.state = Torn \/ Cardinality(published.state) = 1
    /\ \A p \in FileWriters :
          fileCall[p].step \in {"idle", "write", "writing", "replace", "in_place"}
    /\ disturbed \in [{"list", "state"} -> BOOLEAN]

-----------------------------------------------------------------------------
\* read_manual_buy_list: a file that does not parse is an empty list.
ReadList == IF published.list = Torn THEN EmptyList ELSE published.list

Refused(op, ticker, items) ==
    \/ /\ op = "add" /\ ticker \notin Listed(items)
       /\ Cardinality(items) >= MaxListTickers
    \/ op \in {"enable", "disable"} /\ ticker \notin Listed(items)

Applied(op, ticker, items) ==
    LET others == {item \in items : item[1] # ticker}
    IN  CASE op \in {"add", "enable"} -> others \cup {<<ticker, TRUE>>}
          [] op = "disable" -> others \cup {<<ticker, FALSE>>}
          [] op = "remove" -> others
          [] op = "clear" -> EmptyList

Busy(file) == \E p \in FileWriters : FileOf(p) = file /\ fileCall[p] # NoCall
Step(p, step) == fileCall' = [fileCall EXCEPT ![p].step = step]
Ends(p) == fileCall' = [fileCall EXCEPT ![p] = NoCall]

\* A call that finds the file to itself, and whole, after a disturbance starts
\* afresh from what it reads.
Begins(p, call, found) ==
    LET file == FileOf(p) IN
    /\ fileCall[p] = NoCall /\ fileCalls < MaxFileCalls
    /\ fileCalls' = fileCalls + 1
    /\ fileCall' = [fileCall EXCEPT ![p] = call]
    /\ disturbed' = [disturbed EXCEPT ![file] =
                       Busy(file) \/ (@ /\ published[file] = Torn)]
    /\ accepted' = [accepted EXCEPT ![file] =
                      IF disturbed[file] THEN found ELSE @]
    /\ UNCHANGED <<published, temporary>>

\* add, remove, clear and set_enabled up to the write; a refusal raises.
CliReads(p, op, ticker) ==
    /\ p \in Clis
    /\ Begins(p, IF Refused(op, ticker, ReadList) THEN NoCall
                 ELSE [step |-> "write", op |-> op, ticker |-> ticker,
                       content |-> Applied(op, ticker, ReadList)], ReadList)

\* write_live_state, write_closed_state and dry_run once they have their state.
JobHasState(p) ==
    /\ p \in StateJobs
    /\ Begins(p, [NoCall EXCEPT !.step = "write", !.content = {<<p, TRUE>>}], published.state)

\* _run_live_screening after its run: one at a time, _running sees to it.
ScreeningHasState ==
    Begins(Screening, [NoCall EXCEPT !.step = "in_place", !.content = {<<Screening, TRUE>>}],
           published.state)

Mutant_WriteBegins(p) ==
    /\ fileCall[p].step = "write" /\ Step(p, "writing")
    /\ published' = [published EXCEPT ![FileOf(p)] = Torn]
    /\ UNCHANGED <<temporary, accepted, disturbed, fileCalls>>
\* tmp.write_text: opened and truncated, then written.
WriteBegins(p) ==
    /\ fileCall[p].step = "write" /\ Step(p, "writing")
    /\ temporary' = [temporary EXCEPT ![FileOf(p)] = Torn]
    /\ UNCHANGED <<published, accepted, disturbed, fileCalls>>

\* If another process has moved the file meanwhile, the text goes where it went.
WriteEnds(p) ==
    LET file == FileOf(p) IN
    /\ fileCall[p].step = "writing" /\ Step(p, "replace")
    /\ IF temporary[file] = Absent
       THEN /\ published' = [published EXCEPT ![file] = fileCall[p].content]
            /\ UNCHANGED temporary
       ELSE /\ temporary' = [temporary EXCEPT ![file] = fileCall[p].content]
            /\ UNCHANGED published
    /\ UNCHANGED <<accepted, disturbed, fileCalls>>

Meaning(p) ==
    IF p \in Clis
    THEN Applied(fileCall[p].op, fileCall[p].ticker, accepted.list)
    ELSE fileCall[p].content

Replaces(p) ==
    LET file == FileOf(p) IN
    /\ fileCall[p].step = "replace" /\ temporary[file] # Absent
    /\ published' = [published EXCEPT ![file] = temporary[file]]
    /\ temporary' = [temporary EXCEPT ![file] = Absent]
    /\ accepted' = [accepted EXCEPT ![file] = Meaning(p)]
    /\ Ends(p)
    /\ UNCHANGED <<disturbed, fileCalls>>

\* The temporary file is gone, or one of the two is open elsewhere.
ReplaceRaises(p) ==
    /\ fileCall[p].step = "replace" /\ Ends(p)
    /\ UNCHANGED <<published, temporary, accepted, disturbed, fileCalls>>

WritesInPlace ==
    /\ fileCall[Screening].step = "in_place" /\ Step(Screening, "writing")
    /\ published' = [published EXCEPT !.state = Torn]
    /\ UNCHANGED <<temporary, accepted, disturbed, fileCalls>>

WrittenInPlace ==
    /\ fileCall[Screening].step = "writing" /\ Ends(Screening)
    /\ published' = [published EXCEPT !.state = {<<Screening, TRUE>>}]
    /\ accepted' = [accepted EXCEPT !.state = {<<Screening, TRUE>>}]
    /\ UNCHANGED <<temporary, disturbed, fileCalls>>

\* A process dies, at any point of its call.
WriterDies(p) ==
    /\ fileCall[p] # NoCall /\ Ends(p)
    /\ disturbed' = [disturbed EXCEPT ![FileOf(p)] =
                       @ \/ (p = Screening /\ fileCall[p].step = "writing")]
    /\ UNCHANGED <<published, temporary, accepted, fileCalls>>

FileNext ==
    \/ \E p \in Clis, op \in ListOps, t \in ListTickers : CliReads(p, op, t)
    \/ \E p \in StateJobs : JobHasState(p)
    \/ ScreeningHasState \/ WritesInPlace \/ WrittenInPlace
    \/ \E p \in Clis \cup StateJobs :
          WriteBegins(p) \/ WriteEnds(p) \/ Replaces(p) \/ ReplaceRaises(p)
    \/ \E p \in FileWriters : WriterDies(p)

FileSpec == FileInit /\ [][FileNext]_fileVars

-----------------------------------------------------------------------------
\* Whatever dies and wherever, a reader of the manual buy list or of the state
\* file finds exactly what the completed calls mean, in the order in which they
\* completed: no half-written file, no refused or interrupted change, no change
\* undone.  The two exceptions are named: calls that overlapped (their
\* read-modify-write and their .tmp are not protected) and the screening of the
\* monitor, which writes in place, while it writes or after it died there.
FilesAsWritten ==
    \A file \in {"list", "state"} :
        \/ disturbed[file]
        \/ file = "state" /\ fileCall[Screening].step = "writing"
        \/ published[file] = accepted[file]
=============================================================================
