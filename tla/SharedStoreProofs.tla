-------------------------- MODULE SharedStoreProofs --------------------------
(***************************************************************************)
(* What the processes of the bot share, for any set of them. Those that    *)
(* share the store in the database share one token: TokenInv is inductive, *)
(* and ServersShareToken of TokenStore follows. A reader of a shared file  *)
(* finds what the completed calls mean: FileInv is inductive, and          *)
(* FilesAsWritten of SharedFiles follows. An answer of the settings page   *)
(* is in effect: SettingsInv is inductive, and AnswerInEffect of           *)
(* RuntimeSettings follows. A poll of the account that met no other is on  *)
(* the pages as it was read: SoloInv is inductive, and PolledIsShown of    *)
(* LiveSnapshots follows.                                                  *)
(***************************************************************************)
EXTENDS TokenStore, SharedFiles, RuntimeSettings, LiveSnapshots,
        SequenceTheorems, WellFoundedInduction, TLAPS

-----------------------------------------------------------------------------
(* The token of the broker (TokenStore).                                   *)

\* Before the configuration nothing is remembered and nothing is going on.
Unconfigured ==
    storeKind = "unset" =>
        \A s \in Servers : memoryToken[s] = NoToken /\ tokenPc[s] = "idle"

\* Tokens are issued for the file only without the database.
FileIsForFiles == \A s \in Servers : At(s, "file_issue") => storeKind = "file"

\* `now` of access_token is not in the future.
SeenInPast == \A s \in Servers : seenAt[s] <= clock

\* What a process has from the store is, while valid, what the store holds.
MemoryIsStored ==
    storeKind = "db" =>
        \A s \in Servers :
            MemoryIsValid(s) /\ ~fromFile[s] => memoryToken[s] = dbToken

\* Who replaces the token under the lock replaces one that is of no use.
ReplacesExpired ==
    \A s \in Servers :
        tokenPc[s] \in {"issue", "upsert"} /\ refreshLock = s =>
            ~IsValid(dbToken, clock, Margin)

TokenInv ==
    /\ TokenTypeOK /\ Unconfigured /\ FileIsForFiles /\ SeenInPast
    /\ MemoryIsStored /\ ReplacesExpired

\* A token that has expired stays expired.
LEMMA ValidEarlier ==
    ASSUME NEW token \in Tokens, NEW now \in Nat, NEW later \in Nat, now <= later,
           IsValid(token, later, Margin)
    PROVE  IsValid(token, now, Margin)
BY TokenAssumption DEF IsValid, Tokens

LEMMA NoTokenIsToken == NoToken \in Tokens /\ ~IsValid(NoToken, clock, Margin)
BY DEF NoToken, Tokens, IsValid

\* What the end of an access_token of process s may leave in its memory, as long
\* as the token of the store stays.
LEMMA RememberKeeps ==
    ASSUME TokenInv, NEW s \in Servers, NEW token \in Tokens, Remember(s, token),
           storeKind = "db" =>
               token = dbToken \/ ~IsValid(token, clock, Margin),
           storeKind # "unset",
           dbToken' = dbToken, clock' = clock, storeKind' = storeKind,
           seenAt' = seenAt,
           refreshLock' \in {refreshLock, Nobody}
    PROVE  /\ memoryToken' \in [Servers -> Tokens] /\ tokenPc' \in [Servers -> TokenSteps]
           /\ fromFile' \in [Servers -> BOOLEAN]
           /\ Unconfigured' /\ FileIsForFiles' /\ SeenInPast'
           /\ MemoryIsStored' /\ ReplacesExpired'
<1> USE DEF TokenInv, TokenTypeOK, Remember, Goto, At
<1>1. /\ memoryToken' \in [Servers -> Tokens] /\ tokenPc' \in [Servers -> TokenSteps]
      /\ fromFile' \in [Servers -> BOOLEAN]
  BY DEF TokenSteps
<1>2. Unconfigured' /\ FileIsForFiles' /\ SeenInPast'
  BY DEF Unconfigured, FileIsForFiles, SeenInPast
<1>3. MemoryIsStored'
  <2> SUFFICES ASSUME storeKind = "db", NEW t \in Servers, MemoryIsValid(t)', ~fromFile'[t]
               PROVE  memoryToken'[t] = dbToken
    BY DEF MemoryIsStored
  <2>1. CASE t = s
    BY <2>1 DEF MemoryIsValid
  <2>2. CASE t # s
    BY <2>2 DEF MemoryIsValid, MemoryIsStored
  <2> QED BY <2>1, <2>2
<1>4. ReplacesExpired'
  BY TokenAssumption DEF ReplacesExpired, Nobody
<1> QED BY <1>1, <1>2, <1>3, <1>4

\* The same for a call of the store that raises.
LEMMA FallBackKeeps ==
    ASSUME TokenInv, NEW s \in Servers, FallBack(s),
           tokenPc[s] # "idle",
           dbToken' = dbToken, clock' = clock, storeKind' = storeKind,
           seenAt' = seenAt,
           refreshLock' \in {refreshLock, Nobody}
    PROVE  /\ memoryToken' \in [Servers -> Tokens] /\ tokenPc' \in [Servers -> TokenSteps]
           /\ fromFile' \in [Servers -> BOOLEAN]
           /\ Unconfigured' /\ FileIsForFiles' /\ SeenInPast'
           /\ MemoryIsStored' /\ ReplacesExpired'
<1> USE DEF TokenInv, TokenTypeOK, FallBack, Goto, At
<1>1. /\ memoryToken' \in [Servers -> Tokens] /\ tokenPc' \in [Servers -> TokenSteps]
      /\ fromFile' \in [Servers -> BOOLEAN]
  BY DEF TokenSteps
<1>2. storeKind # "unset"
  BY DEF Unconfigured
<1>3. Unconfigured' /\ FileIsForFiles' /\ SeenInPast'
  BY <1>2 DEF Unconfigured, FileIsForFiles, SeenInPast
<1>4. MemoryIsStored'
  <2> SUFFICES ASSUME storeKind = "db", NEW t \in Servers, MemoryIsValid(t)', ~fromFile'[t]
               PROVE  memoryToken'[t] = dbToken
    BY DEF MemoryIsStored
  <2>1. memoryToken'[t] = memoryToken[t] /\ fromFile'[t] = fromFile[t]
    BY DEF MemoryIsValid
  <2> QED BY <2>1 DEF MemoryIsValid, MemoryIsStored
<1>5. ReplacesExpired'
  BY TokenAssumption DEF ReplacesExpired, Nobody
<1> QED BY <1>1, <1>3, <1>4, <1>5

\* The world around the processes.
LEMMA WorldKeepsTokenInv ==
    ASSUME TokenInv,
           \/ Configured \/ SecondPasses
           \/ \E s \in Servers : ConnectionLost(s) \/ ServerRestarts(s)
    PROVE  TokenInv'
<1> USE TokenAssumption
<1>1. CASE Configured
  <2>1. TokenTypeOK'
    <3>1. fileToken' \in Tokens
      BY <1>1, NoTokenIsToken DEF Configured, Tokens
    <3> QED BY <1>1, <3>1 DEF Configured, TokenInv, TokenTypeOK
  <2>2. Unconfigured' /\ FileIsForFiles' /\ SeenInPast' /\ ReplacesExpired'
    BY <1>1 DEF Configured, TokenInv, Unconfigured, FileIsForFiles, SeenInPast,
                ReplacesExpired, At
  <2>3. MemoryIsStored'
    BY <1>1, NoTokenIsToken
    DEF Configured, TokenInv, Unconfigured, MemoryIsStored, MemoryIsValid
  <2> QED BY <2>1, <2>2, <2>3 DEF TokenInv
<1>2. CASE SecondPasses
  <2>1. TokenTypeOK' /\ Unconfigured' /\ FileIsForFiles' /\ SeenInPast'
    BY <1>2 DEF SecondPasses, TokenInv, TokenTypeOK, Unconfigured, FileIsForFiles,
                SeenInPast, At
  <2>2. \A token \in Tokens : IsValid(token, clock', Margin) => IsValid(token, clock, Margin)
    BY <1>2, ValidEarlier DEF SecondPasses, TokenInv, TokenTypeOK
  <2>3. MemoryIsStored'
    BY <1>2, <2>2 DEF SecondPasses, TokenInv, TokenTypeOK, MemoryIsStored, MemoryIsValid
  <2>4. ReplacesExpired'
    BY <1>2, <2>2 DEF SecondPasses, TokenInv, TokenTypeOK, ReplacesExpired
  <2> QED BY <2>1, <2>3, <2>4 DEF TokenInv
<1>3. ASSUME NEW s \in Servers, ConnectionLost(s) PROVE TokenInv'
  BY <1>3 DEF ConnectionLost, TokenInv, TokenTypeOK, Unconfigured, FileIsForFiles,
              SeenInPast, MemoryIsStored, MemoryIsValid, ReplacesExpired, At, Nobody
<1>4. ASSUME NEW s \in Servers, ServerRestarts(s) PROVE TokenInv'
  BY <1>4, NoTokenIsToken, RememberKeeps
  DEF ServerRestarts, Unlock, TokenInv, TokenTypeOK
<1> QED BY <1>1, <1>2, <1>3, <1>4

\* access_token with the store in the database, up to the issue.
LEMMA ReadingKeepsTokenInv ==
    ASSUME TokenInv, NEW s \in Servers,
           \/ NeedsToken(s) \/ ReadValid(s) \/ AcquireLock(s) \/ ReadAfterWait(s)
           \/ ReadLocked(s) \/ StoreFails(s)
    PROVE  TokenInv'
<1> USE TokenAssumption
<1>0. dbToken \in Tokens /\ refreshLock \in Servers \cup {Nobody}
  BY DEF TokenInv, TokenTypeOK
<1>1. tokenPc[s] # "idle" => storeKind # "unset"
  BY DEF TokenInv, Unconfigured
<1>2. CASE NeedsToken(s)
  BY <1>2 DEF NeedsToken, TokenInv, TokenTypeOK, TokenSteps, Unconfigured,
              FileIsForFiles, SeenInPast, MemoryIsStored, MemoryIsValid,
              ReplacesExpired, At, Goto
<1>3. CASE ReadValid(s)
  <2>1. CASE IsValid(dbToken, seenAt[s], Margin)
    BY <1>0, <1>1, <1>3, <2>1, RememberKeeps
    DEF ReadValid, At, TokenInv, TokenTypeOK
  <2>2. CASE ~IsValid(dbToken, seenAt[s], Margin)
    BY <1>1, <1>3, <2>2
    DEF ReadValid, TokenInv, TokenTypeOK, TokenSteps, Unconfigured, FileIsForFiles,
        SeenInPast, MemoryIsStored, MemoryIsValid, ReplacesExpired, At, Goto
  <2> QED BY <2>1, <2>2
<1>4. CASE AcquireLock(s)
  <2>1. TokenTypeOK'
    BY <1>4 DEF AcquireLock, At, Goto, TokenInv, TokenTypeOK, TokenSteps
  <2>2. Unconfigured' /\ FileIsForFiles' /\ SeenInPast' /\ MemoryIsStored'
    BY <1>1, <1>4 DEF AcquireLock, At, Goto, TokenInv, TokenTypeOK, Unconfigured,
                FileIsForFiles, SeenInPast, MemoryIsStored, MemoryIsValid
  <2>3. ReplacesExpired'
    BY <1>4 DEF AcquireLock, At, Goto, TokenInv, TokenTypeOK, ReplacesExpired, Nobody
  <2> QED BY <2>1, <2>2, <2>3 DEF TokenInv
<1>5. CASE ReadAfterWait(s)
  <2>1. CASE IsValid(dbToken, seenAt[s], Margin)
    BY <1>0, <1>1, <1>5, <2>1, RememberKeeps
    DEF ReadAfterWait, At, TokenInv, TokenTypeOK
  <2>2. CASE ~IsValid(dbToken, seenAt[s], Margin)
    BY <1>5, <2>2, FallBackKeeps DEF ReadAfterWait, At, TokenInv, TokenTypeOK
  <2> QED BY <2>1, <2>2
<1>6. CASE ReadLocked(s)
  <2>1. CASE IsValid(dbToken, seenAt[s], Margin)
    BY <1>0, <1>1, <1>6, <2>1, RememberKeeps
    DEF ReadLocked, At, Unlock, TokenInv, TokenTypeOK
  <2>2. CASE ~IsValid(dbToken, seenAt[s], Margin)
    <3>1. ~IsValid(dbToken, clock, Margin)
      BY <1>0, <2>2, ValidEarlier DEF TokenInv, TokenTypeOK, SeenInPast
    <3> QED
      BY <1>1, <1>6, <2>2, <3>1
      DEF ReadLocked, TokenInv, TokenTypeOK, TokenSteps, Unconfigured, FileIsForFiles,
          SeenInPast, MemoryIsStored, MemoryIsValid, ReplacesExpired, At, Goto
  <2> QED BY <2>1, <2>2
<1>7. CASE StoreFails(s)
  BY <1>0, <1>7, FallBackKeeps DEF StoreFails, Unlock, TokenInv, TokenTypeOK
<1> QED BY <1>2, <1>3, <1>4, <1>5, <1>6, <1>7

\* The new token replaces one that no process can still use.
LEMMA RefreshKeepsTokenInv ==
    ASSUME TokenInv, NEW s \in Servers, Issue(s) \/ Upsert(s)
    PROVE  TokenInv'
<1> USE TokenAssumption
<1>1. tokenPc[s] # "idle" => storeKind # "unset"
  BY DEF TokenInv, Unconfigured
<1>2. CASE Issue(s)
  <2>1. NewToken \in Tokens
    BY DEF NewToken, Tokens, TokenInv, TokenTypeOK
  <2>2. TokenTypeOK'
    BY <1>2, <2>1 DEF Issue, At, Goto, TokenInv, TokenTypeOK, TokenSteps
  <2> QED
    BY <1>1, <1>2, <2>2
    DEF Issue, At, Goto, TokenInv, TokenTypeOK, Unconfigured, FileIsForFiles,
        SeenInPast, MemoryIsStored, MemoryIsValid, ReplacesExpired
<1>3. CASE Upsert(s)
  <2>1. /\ ~IsValid(dbToken, clock, Margin) /\ storeKind # "unset"
        /\ dbToken' = issuedToken[s] /\ issuedToken[s] \in Tokens
    BY <1>1, <1>3 DEF Upsert, At, TokenInv, TokenTypeOK, ReplacesExpired
  <2>2. \A t \in Servers : storeKind = "db" => ~MemoryIsValid(t) \/ fromFile[t]
    BY <2>1 DEF TokenInv, MemoryIsStored, MemoryIsValid
  <2>3. refreshLock' = Nobody
    BY <1>3 DEF Upsert, Unlock
  <2>4. Unconfigured' /\ SeenInPast' /\ ReplacesExpired'
    BY <1>3, <2>1, <2>3
    DEF Upsert, TokenInv, TokenTypeOK, Unconfigured, SeenInPast, ReplacesExpired, Nobody
  <2>5. CASE Remember(s, issuedToken[s])
    <3>1. TokenTypeOK' /\ FileIsForFiles'
      BY <1>3, <2>1, <2>3, <2>5
      DEF Upsert, Remember, Goto, At, TokenInv, TokenTypeOK, TokenSteps, FileIsForFiles
    <3>2. MemoryIsStored'
      BY <1>3, <2>1, <2>2, <2>5
      DEF Upsert, Remember, TokenInv, TokenTypeOK, MemoryIsStored, MemoryIsValid
    <3> QED BY <2>4, <3>1, <3>2 DEF TokenInv
  <2>6. CASE FallBack(s)
    <3>1. TokenTypeOK' /\ FileIsForFiles'
      BY <1>3, <2>1, <2>3, <2>6
      DEF Upsert, FallBack, Goto, At, TokenInv, TokenTypeOK, TokenSteps, FileIsForFiles
    <3>2. MemoryIsStored'
      BY <1>3, <2>1, <2>2, <2>6
      DEF Upsert, FallBack, TokenInv, TokenTypeOK, MemoryIsStored, MemoryIsValid
    <3> QED BY <2>4, <3>1, <3>2 DEF TokenInv
  <2> QED BY <1>3, <2>5, <2>6 DEF Upsert
<1> QED BY <1>2, <1>3

\* access_token without the database: the store is not touched.
LEMMA FileKeepsTokenInv ==
    ASSUME TokenInv, NEW s \in Servers, FileAccess(s) \/ FileIssue(s)
    PROVE  TokenInv'
<1> USE TokenAssumption
<1>1. storeKind = "file" /\ UNCHANGED <<storeKind, clock, dbToken, refreshLock,
                                       seenAt, issuedToken>>
  BY DEF FileAccess, FileIssue, TokenInv, FileIsForFiles
<1>2. TokenTypeOK'
  <2>1. CachedToken \in Tokens /\ NewToken \in Tokens
    BY NoTokenIsToken DEF CachedToken, NewToken, Tokens, TokenInv, TokenTypeOK
  <2>2. CASE FileAccess(s)
    BY <1>1, <2>1, <2>2 DEF FileAccess, Goto, TokenInv, TokenTypeOK, TokenSteps
  <2>3. CASE FileIssue(s)
    BY <1>1, <2>1, <2>3
    DEF FileIssue, Remember, Goto, TokenInv, TokenTypeOK, TokenSteps
  <2> QED BY <2>2, <2>3
<1>3. \A t \in Servers : tokenPc'[t] = tokenPc[t] \/ tokenPc'[t] \in {"idle", "file_issue"}
  BY DEF FileAccess, FileIssue, Remember, Goto, TokenInv, TokenTypeOK
<1> QED
  BY <1>1, <1>2, <1>3
  DEF TokenInv, TokenTypeOK, Unconfigured, FileIsForFiles, SeenInPast,
      MemoryIsStored, ReplacesExpired, At

\* TokenInv is an invariant: the lock and the second look under it let nobody
\* replace a token that is still in use.
THEOREM TokenInductive == TokenSpec => []TokenInv
<1>1. TokenInit => TokenInv
  BY NoTokenIsToken, TokenAssumption
  DEF TokenInit, TokenInv, TokenTypeOK, TokenSteps, Unconfigured, FileIsForFiles,
      SeenInPast, MemoryIsStored, ReplacesExpired, At
<1>2. TokenInv /\ UNCHANGED tokenVars => TokenInv'
  BY DEF tokenVars, TokenInv, TokenTypeOK, Unconfigured, FileIsForFiles, SeenInPast,
         MemoryIsStored, MemoryIsValid, ReplacesExpired, At
<1>3. TokenInv /\ [TokenNext]_tokenVars => TokenInv'
  BY <1>2, WorldKeepsTokenInv, ReadingKeepsTokenInv, RefreshKeepsTokenInv,
     FileKeepsTokenInv DEF TokenNext
<1> QED BY <1>1, <1>3, PTL DEF TokenSpec

\* With the store in the database the valid tokens of any two processes are the
\* same, but for those a process took from its file.
THEOREM ServersShareTokenHolds == TokenSpec => []ServersShareToken
<1>1. TokenInv => ServersShareToken
  BY DEF TokenInv, MemoryIsStored, ServersShareToken
<1> QED BY <1>1, TokenInductive, PTL

-----------------------------------------------------------------------------
(* The two shared files (SharedFiles).                                     *)

Files == {"list", "state"}
FileSteps == {"idle", "write", "writing", "replace", "in_place"}

\* A list is a set of tickers, each enabled or not; a state is its writer's.
Lists == SUBSET (ListTickers \X BOOLEAN)
Contents ==
    SUBSET ((ListTickers \cup StateJobs \cup {Screening, "torn", "absent", "closed"})
                \X BOOLEAN)
Calls == [step : FileSteps, op : ListOps \cup {"none"},
          ticker : ListTickers \cup {"none"}, content : Contents]

CallsType ==
    /\ published \in [Files -> Contents] /\ temporary \in [Files -> Contents]
    /\ accepted \in [Files -> Contents] /\ disturbed \in [Files -> BOOLEAN]
    /\ fileCall \in [FileWriters -> Calls]

ListsType ==
    /\ published["list"] \in Lists \cup {Torn}
    /\ temporary["list"] \in Lists \cup {Torn, Absent}
    /\ accepted["list"] \in Lists
    /\ \A p \in Clis : fileCall[p] # NoCall =>
          /\ fileCall[p].op \in ListOps /\ fileCall[p].ticker \in ListTickers
          /\ fileCall[p].content \in Lists

\* The screening alone writes in place, all others by way of the other file.
OwnWay ==
    \A p \in FileWriters :
        fileCall[p].step \in
            IF p = Screening THEN {"idle", "in_place", "writing"}
            ELSE {"idle", "write", "writing", "replace"}

\* While nothing has disturbed a file, one call at most is at work on it, and it
\* knows what the file says and what it has written.
OneAtWork ==
    \A p, q \in FileWriters :
        /\ FileOf(p) = FileOf(q) /\ ~disturbed[FileOf(p)]
        /\ fileCall[p] # NoCall /\ fileCall[q] # NoCall
        => p = q

KnowsContent ==
    \A p \in FileWriters :
        fileCall[p] # NoCall /\ ~disturbed[FileOf(p)] =>
            /\ p \in Clis => fileCall[p].content =
                   Applied(fileCall[p].op, fileCall[p].ticker, accepted.list)
            /\ p \in StateJobs /\ fileCall[p].step = "writing" =>
                   temporary.state = Torn
            /\ p \in Clis /\ fileCall[p].step = "writing" => temporary.list = Torn
            /\ fileCall[p].step = "replace" =>
                   temporary[FileOf(p)] = fileCall[p].content

FileInv ==
    CallsType /\ ListsType /\ OwnWay /\ OneAtWork /\ KnowsContent /\ FilesAsWritten

\* The commands share the list, the others the state file.
LEMMA FileOfType ==
    /\ \A p \in FileWriters : FileOf(p) \in Files
    /\ \A p \in Clis : FileOf(p) = "list" /\ p # Screening
    /\ \A p \in StateJobs : FileOf(p) = "state" /\ p \notin Clis /\ p # Screening
    /\ FileOf(Screening) = "state" /\ Screening \notin Clis
    /\ \A p \in FileWriters : p \in Clis \/ p \in StateJobs \/ p = Screening
BY FileAssumption DEF FileOf, Files, FileWriters, Screening

\* No list looks like a file that is being written or that is not there.
LEMMA ListIsWhole ==
    ASSUME NEW items \in Lists
    PROVE  items # Torn /\ items # Absent
<1>1. <<"torn", FALSE>> \notin items /\ <<"absent", FALSE>> \notin items
  BY FileAssumption DEF Lists
<1> QED BY <1>1 DEF Torn, Absent

\* A change of a list gives a list.
LEMMA AppliedType ==
    ASSUME NEW op \in ListOps, NEW ticker \in ListTickers, NEW items \in Lists
    PROVE  Applied(op, ticker, items) \in Lists
<1> DEFINE others == {item \in items : item[1] # ticker}
<1>1. others \in Lists
  BY DEF Lists
<1>2. /\ others \cup {<<ticker, TRUE>>} \in Lists
      /\ others \cup {<<ticker, FALSE>>} \in Lists /\ EmptyList \in Lists
  <2>1. \A other \in BOOLEAN : <<ticker, other>> \in ListTickers \X BOOLEAN
    OBVIOUS
  <2> HIDE DEF others
  <2> QED BY <1>1, <2>1 DEF Lists, EmptyList
<1> HIDE DEF others
<1> QED BY <1>1, <1>2 DEF Applied, ListOps, others

\* What a list may be, a file may hold.
LEMMA ListsAreContents == Lists \subseteq Contents /\ {Torn, Absent} \subseteq Contents
<1> DEFINE named == ListTickers \cup StateJobs \cup {Screening, "torn", "absent", "closed"}
<1>1. ListTickers \X BOOLEAN \subseteq named \X BOOLEAN
  OBVIOUS
<1>2. <<"torn", FALSE>> \in named \X BOOLEAN /\ <<"absent", FALSE>> \in named \X BOOLEAN
  OBVIOUS
<1> HIDE DEF named
<1>3. Lists \subseteq SUBSET (named \X BOOLEAN)
  BY <1>1 DEF Lists
<1>4. {Torn, Absent} \subseteq SUBSET (named \X BOOLEAN)
  BY <1>2 DEF Torn, Absent
<1> QED BY <1>3, <1>4 DEF Contents, named

\* What a job or the screening writes, a file may hold.
LEMMA OwnStateIsContent ==
    ASSUME NEW writer \in StateJobs \cup {Screening}
    PROVE  {<<writer, TRUE>>} \in Contents
<1> DEFINE named == ListTickers \cup StateJobs \cup {Screening, "torn", "absent", "closed"}
<1>1. <<writer, TRUE>> \in named \X BOOLEAN
  OBVIOUS
<1> HIDE DEF named
<1>2. {<<writer, TRUE>>} \in SUBSET (named \X BOOLEAN)
  BY <1>1
<1> QED BY <1>2 DEF Contents, named

\* Who does nothing is at no step.
LEMMA NoCallType == NoCall \in Calls /\ NoCall.step = "idle"
BY DEF NoCall, Calls, FileSteps, Contents

\* A call begins: on a file nobody is at work on, it finds what the file says.
LEMMA BeginsKeeps ==
    ASSUME FileInv, NEW p \in FileWriters, NEW call \in Calls, NEW found \in Contents,
           Begins(p, call, found),
           call.step \in {"idle", IF p = Screening THEN "in_place" ELSE "write"},
           p \in Clis =>
               /\ found = ReadList
               /\ call # NoCall =>
                      /\ call.op \in ListOps /\ call.ticker \in ListTickers
                      /\ call.content = Applied(call.op, call.ticker, ReadList),
           p \notin Clis => found = published["state"]
    PROVE  FileInv'
<1> DEFINE file == FileOf(p)
<1>0. file \in Files
  BY FileOfType
<1>1. /\ published' = published /\ temporary' = temporary
      /\ fileCall' = [fileCall EXCEPT ![p] = call] /\ fileCall[p] = NoCall
      /\ disturbed' = [disturbed EXCEPT ![file] =
                         Busy(file) \/ (disturbed[file] /\ published[file] = Torn)]
      /\ accepted' = [accepted EXCEPT ![file] =
                        IF disturbed[file] THEN found ELSE accepted[file]]
  BY DEF Begins
<1> HIDE DEF file
<1>2. ReadList \in Lists /\ (published["list"] # Torn => ReadList = published["list"])
  BY DEF ReadList, FileInv, ListsType, EmptyList, Lists
<1>3. CallsType'
  BY <1>0, <1>1 DEF FileInv, CallsType
<1>4. /\ fileCall'[p] = call
      /\ \A q \in FileWriters : q # p => fileCall'[q] = fileCall[q]
  BY <1>1 DEF FileInv, CallsType
<1>5. /\ accepted'[file] = IF disturbed[file] THEN found ELSE accepted[file]
      /\ \A f \in Files : f # file =>
            accepted'[f] = accepted[f] /\ disturbed'[f] = disturbed[f]
      /\ ~disturbed'[file] =>
            ~Busy(file) /\ (disturbed[file] => published[file] # Torn)
  BY <1>0, <1>1 DEF FileInv, CallsType
<1>6. ListsType'
  <2>1. accepted'["list"] \in Lists
    BY <1>2, <1>5, FileOfType DEF FileInv, ListsType, Files, file
  <2>2. ASSUME NEW q \in Clis, fileCall'[q] # NoCall
        PROVE  /\ fileCall'[q].op \in ListOps /\ fileCall'[q].ticker \in ListTickers
               /\ fileCall'[q].content \in Lists
    BY <2>2, <1>2, <1>4, AppliedType DEF FileInv, ListsType, FileWriters
  <2> QED BY <2>1, <2>2, <1>1 DEF FileInv, ListsType
<1>7. OwnWay'
  BY <1>4 DEF FileInv, OwnWay
<1>8. ASSUME ~disturbed'[file]
      PROVE  /\ accepted'[file] = published[file]
             /\ \A q \in FileWriters : FileOf(q) = file => fileCall[q] = NoCall
             /\ p \in Clis => ReadList = accepted'["list"]
  <2>1. \A q \in FileWriters : FileOf(q) = file => fileCall[q] = NoCall
    BY <1>5, <1>8 DEF Busy
  <2>2. file = "state" => fileCall[Screening].step # "writing"
    BY <2>1, FileOfType, NoCallType DEF FileWriters
  <2>3. ~disturbed[file] => published[file] = accepted[file]
    BY <2>2, <1>0 DEF FileInv, FilesAsWritten, Files
  <2>4. file = "list" => published["list"] # Torn
    BY <2>3, <1>5, <1>8, ListIsWhole DEF FileInv, ListsType
  <2>5. p \in Clis <=> file = "list"
    BY FileOfType DEF file
  <2>6. file = "state" <=> p \notin Clis
    BY <2>5, <1>0 DEF Files
  <2>7. accepted'[file] = published[file]
    BY <1>2, <1>5, <2>3, <2>4, <2>5, <2>6
  <2> QED BY <2>1, <2>4, <2>5, <2>7, <1>2
<1>9. OneAtWork'
  <2> SUFFICES ASSUME NEW q \in FileWriters, NEW r \in FileWriters,
                      FileOf(q) = FileOf(r), ~disturbed'[FileOf(q)],
                      fileCall'[q] # NoCall, fileCall'[r] # NoCall
               PROVE  q = r
    BY DEF OneAtWork
  <2>1. CASE FileOf(q) = file
    BY <2>1, <1>4, <1>8
  <2>2. CASE FileOf(q) # file
    BY <2>2, <1>4, <1>5, FileOfType DEF FileInv, OneAtWork, file
  <2> QED BY <2>1, <2>2
<1>10. KnowsContent'
  <2> SUFFICES ASSUME NEW q \in FileWriters, fileCall'[q] # NoCall,
                      ~disturbed'[FileOf(q)]
               PROVE  /\ q \in Clis => fileCall'[q].content =
                             Applied(fileCall'[q].op, fileCall'[q].ticker, accepted'["list"])
                      /\ q \in StateJobs /\ fileCall'[q].step = "writing" =>
                             temporary'["state"] = Torn
                      /\ q \in Clis /\ fileCall'[q].step = "writing" =>
                             temporary'["list"] = Torn
                      /\ fileCall'[q].step = "replace" =>
                             temporary'[FileOf(q)] = fileCall'[q].content
    BY DEF KnowsContent
  <2>1. CASE q = p
    <3>1. fileCall'[q].step # "writing" /\ fileCall'[q].step # "replace"
      BY <2>1, <1>4
    <3>2. q \in Clis => fileCall'[q].content =
              Applied(fileCall'[q].op, fileCall'[q].ticker, accepted'["list"])
      BY <2>1, <1>4, <1>8 DEF file
    <3> QED BY <3>1, <3>2
  <2>2. CASE q # p
    <3>1. fileCall'[q] = fileCall[q]
      BY <2>2, <1>4
    <3>2. FileOf(q) # file
      BY <2>2, <3>1, <1>8
    <3>3. accepted'[FileOf(q)] = accepted[FileOf(q)] /\ ~disturbed[FileOf(q)]
      BY <3>2, <1>5, FileOfType
    <3>4. q \in Clis => accepted'["list"] = accepted["list"]
      BY <3>3, FileOfType
    <3> QED BY <3>1, <3>3, <3>4, <1>1 DEF FileInv, KnowsContent
  <2> QED BY <2>1, <2>2
<1>11. FilesAsWritten'
  <2> SUFFICES ASSUME NEW f \in Files, ~disturbed'[f],
                      ~(f = "state" /\ fileCall'[Screening].step = "writing")
               PROVE  published'[f] = accepted'[f]
    BY DEF FilesAsWritten, Files
  <2>1. CASE f = file
    BY <2>1, <1>1, <1>8
  <2>2. CASE f # file
    <3>1. accepted'[f] = accepted[f] /\ ~disturbed[f]
      BY <2>2, <1>5
    <3>2. f = "state" => fileCall'[Screening] = fileCall[Screening]
      BY <2>2, <1>4, FileOfType DEF FileWriters, file
    <3> QED BY <3>1, <3>2, <1>1 DEF FileInv, FilesAsWritten, Files
  <2> QED BY <2>1, <2>2
<1> QED BY <1>3, <1>6, <1>7, <1>9, <1>10, <1>11 DEF FileInv

\* A command reads the list, and is refused or goes on to write.
LEMMA CliBegins ==
    ASSUME FileInv, NEW p \in Clis, NEW op \in ListOps, NEW ticker \in ListTickers,
           CliReads(p, op, ticker)
    PROVE  FileInv'
<1> DEFINE call == IF Refused(op, ticker, ReadList) THEN NoCall
                   ELSE [step |-> "write", op |-> op, ticker |-> ticker,
                         content |-> Applied(op, ticker, ReadList)]
<1>1. ReadList \in Lists /\ Applied(op, ticker, ReadList) \in Lists
  BY AppliedType DEF ReadList, FileInv, ListsType, EmptyList, Lists
<1>2. call \in Calls
  BY <1>1, NoCallType, ListsAreContents DEF Calls, FileSteps
<1>3. call.step \in {"idle", "write"}
  BY NoCallType
<1>4. call # NoCall =>
        /\ call.op = op /\ call.ticker = ticker
        /\ call.content = Applied(op, ticker, ReadList)
  OBVIOUS
<1>5. Begins(p, call, ReadList)
  BY DEF CliReads
<1> HIDE DEF call
<1>6. p \in FileWriters /\ p # Screening /\ ReadList \in Contents
  BY <1>1, FileOfType, ListsAreContents DEF FileWriters
<1> QED BY <1>2, <1>3, <1>4, <1>5, <1>6, BeginsKeeps

\* A job or the screening has a state to write.
LEMMA StateBegins ==
    ASSUME FileInv, (\E p \in StateJobs : JobHasState(p)) \/ ScreeningHasState
    PROVE  FileInv'
<1>1. published["state"] \in Contents
  BY DEF FileInv, CallsType, Files
<1>2. ASSUME NEW p \in StateJobs, JobHasState(p) PROVE FileInv'
  <2> DEFINE call == [NoCall EXCEPT !.step = "write", !.content = {<<p, TRUE>>}]
  <2>1. {<<p, TRUE>>} \in Contents
    BY OwnStateIsContent
  <2>2. call \in Calls /\ call.step = "write"
    BY <2>1, NoCallType DEF NoCall, Calls, FileSteps
  <2>3. Begins(p, call, published["state"])
    BY <1>2 DEF JobHasState
  <2> HIDE DEF call
  <2>4. p \in FileWriters /\ p \notin Clis /\ p # Screening
    BY FileOfType DEF FileWriters
  <2> QED BY <1>1, <2>2, <2>3, <2>4, BeginsKeeps
<1>3. ASSUME ScreeningHasState PROVE FileInv'
  <2> DEFINE call == [NoCall EXCEPT !.step = "in_place", !.content = {<<Screening, TRUE>>}]
  <2>1. {<<Screening, TRUE>>} \in Contents
    BY OwnStateIsContent
  <2>2. call \in Calls /\ call.step = "in_place"
    BY <2>1, NoCallType DEF NoCall, Calls, FileSteps
  <2>3. Begins(Screening, call, published["state"])
    BY <1>3 DEF ScreeningHasState
  <2> HIDE DEF call
  <2>4. Screening \in FileWriters /\ Screening \notin Clis
    BY FileOfType DEF FileWriters
  <2> QED BY <1>1, <2>2, <2>3, <2>4, BeginsKeeps
<1> QED BY <1>2, <1>3

\* A process that is at work takes its next step or ends: the others go on as
\* they were, and if there is another on its file, the file is disturbed.
LEMMA GoesOn ==
    ASSUME FileInv, NEW p \in FileWriters, NEW call \in Calls, fileCall[p] # NoCall,
           fileCall' = [fileCall EXCEPT ![p] = call],
           \/ call = NoCall
           \/ /\ call.op = fileCall[p].op /\ call.ticker = fileCall[p].ticker
              /\ call.content = fileCall[p].content
              /\ call.step \in IF p = Screening THEN {"in_place", "writing"}
                               ELSE {"write", "writing", "replace"},
           \A f \in Files : disturbed[f] => disturbed'[f]
    PROVE  /\ fileCall' \in [FileWriters -> Calls] /\ fileCall'[p] = call
           /\ \A q \in FileWriters : q # p => fileCall'[q] = fileCall[q]
           /\ \A q \in FileWriters :
                 q # p /\ FileOf(q) = FileOf(p) /\ fileCall[q] # NoCall
                 => disturbed[FileOf(p)]
           /\ OwnWay' /\ OneAtWork'
           /\ \A q \in Clis : fileCall'[q] # NoCall =>
                 /\ fileCall'[q].op \in ListOps /\ fileCall'[q].ticker \in ListTickers
                 /\ fileCall'[q].content \in Lists
<1>1. /\ fileCall' \in [FileWriters -> Calls] /\ fileCall'[p] = call
      /\ \A q \in FileWriters : q # p => fileCall'[q] = fileCall[q]
  BY DEF FileInv, CallsType
<1>2. \A q \in FileWriters :
        q # p /\ FileOf(q) = FileOf(p) /\ fileCall[q] # NoCall
        => disturbed[FileOf(p)]
  BY DEF FileInv, OneAtWork
<1>3. OwnWay'
  BY <1>1, NoCallType DEF FileInv, OwnWay
<1>4. \A q \in FileWriters : fileCall'[q] # NoCall => fileCall[q] # NoCall
  BY <1>1
<1>5. OneAtWork'
  BY <1>4, FileOfType DEF FileInv, OneAtWork
<1>6. ASSUME NEW q \in Clis, fileCall'[q] # NoCall
      PROVE  /\ fileCall'[q].op \in ListOps /\ fileCall'[q].ticker \in ListTickers
             /\ fileCall'[q].content \in Lists
  BY <1>1, <1>6 DEF FileInv, ListsType, FileWriters
<1> QED BY <1>1, <1>2, <1>3, <1>5, <1>6

\* So for a step of a process what has to be shown is about its own file.
LEMMA StepKeeps ==
    ASSUME FileInv, NEW p \in FileWriters, NEW call \in Calls, fileCall[p] # NoCall,
           fileCall' = [fileCall EXCEPT ![p] = call],
           \/ call = NoCall
           \/ /\ call.op = fileCall[p].op /\ call.ticker = fileCall[p].ticker
              /\ call.content = fileCall[p].content
              /\ call.step \in IF p = Screening THEN {"in_place", "writing"}
                               ELSE {"write", "writing", "replace"},
           published' \in [Files -> Contents], temporary' \in [Files -> Contents],
           accepted' \in [Files -> Contents], disturbed' \in [Files -> BOOLEAN],
           published'["list"] \in Lists \cup {Torn}, accepted'["list"] \in Lists,
           temporary'["list"] \in Lists \cup {Torn, Absent},
           \A f \in Files : f # FileOf(p) =>
               /\ published'[f] = published[f] /\ temporary'[f] = temporary[f]
               /\ accepted'[f] = accepted[f] /\ disturbed'[f] = disturbed[f],
           disturbed[FileOf(p)] => disturbed'[FileOf(p)],
           call # NoCall /\ ~disturbed'[FileOf(p)] =>
               /\ accepted' = accepted
               /\ p # Screening /\ call.step = "writing" => temporary'[FileOf(p)] = Torn
               /\ call.step = "replace" => temporary'[FileOf(p)] = call.content,
           \/ disturbed'[FileOf(p)]
           \/ FileOf(p) = "state" /\ fileCall'[Screening].step = "writing"
           \/ published'[FileOf(p)] = accepted'[FileOf(p)]
    PROVE  FileInv'
<1>1. \A f \in Files : disturbed[f] => disturbed'[f]
  BY FileOfType
<1>2. /\ fileCall' \in [FileWriters -> Calls] /\ fileCall'[p] = call
      /\ \A q \in FileWriters : q # p => fileCall'[q] = fileCall[q]
      /\ \A q \in FileWriters :
            q # p /\ FileOf(q) = FileOf(p) /\ fileCall[q] # NoCall
            => disturbed[FileOf(p)]
      /\ OwnWay' /\ OneAtWork'
      /\ \A q \in Clis : fileCall'[q] # NoCall =>
            /\ fileCall'[q].op \in ListOps /\ fileCall'[q].ticker \in ListTickers
            /\ fileCall'[q].content \in Lists
  BY <1>1, GoesOn
<1>3. CallsType' /\ ListsType'
  BY <1>2 DEF CallsType, ListsType
<1>4. KnowsContent'
  <2> SUFFICES ASSUME NEW q \in FileWriters, fileCall'[q] # NoCall,
                      ~disturbed'[FileOf(q)]
               PROVE  /\ q \in Clis => fileCall'[q].content =
                             Applied(fileCall'[q].op, fileCall'[q].ticker, accepted'["list"])
                      /\ q \in StateJobs /\ fileCall'[q].step = "writing" =>
                             temporary'["state"] = Torn
                      /\ q \in Clis /\ fileCall'[q].step = "writing" =>
                             temporary'["list"] = Torn
                      /\ fileCall'[q].step = "replace" =>
                             temporary'[FileOf(q)] = fileCall'[q].content
    BY DEF KnowsContent
  <2>1. CASE q = p
    <3>1. q \in Clis => call.content = Applied(call.op, call.ticker, accepted["list"])
      BY <2>1, <1>1, <1>2, FileOfType DEF FileInv, KnowsContent
    <3>2. accepted' = accepted /\ fileCall'[q] = call
      BY <2>1, <1>2
    <3>3. q \in StateJobs /\ call.step = "writing" => temporary'["state"] = Torn
      BY <2>1, <3>2, FileOfType
    <3>4. q \in Clis /\ call.step = "writing" => temporary'["list"] = Torn
      BY <2>1, <3>2, FileOfType
    <3>5. call.step = "replace" => temporary'[FileOf(q)] = call.content
      BY <2>1, <3>2
    <3> QED BY <3>1, <3>2, <3>3, <3>4, <3>5
  <2>2. CASE q # p
    <3>1. fileCall'[q] = fileCall[q] /\ FileOf(q) # FileOf(p)
      BY <2>2, <1>1, <1>2, FileOfType
    <3>2. /\ temporary'[FileOf(q)] = temporary[FileOf(q)]
          /\ accepted'[FileOf(q)] = accepted[FileOf(q)] /\ ~disturbed[FileOf(q)]
      BY <3>1, FileOfType
    <3>3. /\ q \in Clis => accepted'["list"] = accepted["list"]
                           /\ temporary'["list"] = temporary["list"]
          /\ q \in StateJobs => temporary'["state"] = temporary["state"]
      BY <3>2, FileOfType
    <3> QED BY <3>1, <3>2, <3>3 DEF FileInv, KnowsContent
  <2> QED BY <2>1, <2>2
<1>5. FilesAsWritten'
  <2> SUFFICES ASSUME NEW f \in Files, ~disturbed'[f],
                      ~(f = "state" /\ fileCall'[Screening].step = "writing")
               PROVE  published'[f] = accepted'[f]
    BY DEF FilesAsWritten, Files
  <2>1. CASE f = FileOf(p)
    BY <2>1
  <2>2. CASE f # FileOf(p)
    <3>1. f = "state" => fileCall'[Screening] = fileCall[Screening]
      BY <2>2, <1>2, FileOfType DEF FileWriters
    <3> QED BY <3>1, <2>2 DEF FileInv, FilesAsWritten, Files
  <2> QED BY <2>1, <2>2
<1> QED BY <1>2, <1>3, <1>4, <1>5 DEF FileInv

\* On a file that nothing has disturbed, who does not write in place finds what
\* the completed calls mean.
LEMMA AloneOrDisturbed ==
    ASSUME FileInv, NEW p \in FileWriters, fileCall[p] # NoCall,
           ~disturbed[FileOf(p)], p # Screening
    PROVE  published[FileOf(p)] = accepted[FileOf(p)]
<1>1. FileOf(p) = "state" => fileCall[Screening].step # "writing"
  <2>1. fileCall[Screening].step = "writing" => fileCall[Screening] # NoCall
    BY NoCallType
  <2> QED BY <2>1, FileOfType DEF FileInv, OneAtWork, FileWriters
<1> QED BY <1>1, FileOfType DEF FileInv, FilesAsWritten, Files

\* The record of a call at its next step.
LEMMA NextStepType ==
    ASSUME FileInv, NEW p \in FileWriters, NEW step \in FileSteps \ {"idle"}, Step(p, step)
    PROVE  \E call \in Calls :
              /\ fileCall' = [fileCall EXCEPT ![p] = call] /\ call # NoCall
              /\ call.step = step /\ call.op = fileCall[p].op
              /\ call.ticker = fileCall[p].ticker
              /\ call.content = fileCall[p].content
<1> DEFINE call == [fileCall[p] EXCEPT !.step = step]
<1>1. fileCall[p] \in Calls /\ fileCall' = [fileCall EXCEPT ![p] = call]
  BY DEF FileInv, CallsType, Step
<1>2. /\ call \in Calls /\ call.step = step /\ call.op = fileCall[p].op
      /\ call.ticker = fileCall[p].ticker /\ call.content = fileCall[p].content
  BY <1>1 DEF Calls
<1> QED BY <1>1, <1>2, NoCallType

\* The temporary file is written.
LEMMA WriteKeeps ==
    ASSUME FileInv, NEW p \in Clis \cup StateJobs, WriteBegins(p) \/ WriteEnds(p)
    PROVE  FileInv'
<1> DEFINE file == FileOf(p)
<1>1. p \in FileWriters /\ p # Screening /\ file \in Files
  BY FileOfType DEF FileWriters
<1>2. fileCall[p] # NoCall
  BY NoCallType DEF WriteBegins, WriteEnds
<1>3. {Torn, Absent} \subseteq Contents /\ fileCall[p].content \in Contents
  BY <1>1, ListsAreContents DEF FileInv, CallsType, Calls
<1>4. file = "list" => fileCall[p].content \in Lists
  BY <1>1, <1>2, FileOfType DEF FileInv, ListsType
<1>5. ~disturbed[file] => published[file] = accepted[file]
  BY <1>1, <1>2, AloneOrDisturbed
<1>6. CASE WriteBegins(p)
  <2>1. /\ temporary' = [temporary EXCEPT ![file] = Torn]
        /\ published' = published /\ accepted' = accepted /\ disturbed' = disturbed
        /\ Step(p, "writing")
    BY <1>6 DEF WriteBegins
  <2>2. PICK call \in Calls :
          /\ fileCall' = [fileCall EXCEPT ![p] = call] /\ call # NoCall
          /\ call.step = "writing" /\ call.op = fileCall[p].op
          /\ call.ticker = fileCall[p].ticker /\ call.content = fileCall[p].content
    BY <1>1, <2>1, NextStepType DEF FileSteps
  <2> HIDE DEF file
  <2>3. /\ temporary' \in [Files -> Contents] /\ temporary'[file] = Torn
        /\ \A f \in Files : f # file => temporary'[f] = temporary[f]
        /\ temporary'["list"] \in Lists \cup {Torn, Absent}
    BY <1>1, <1>3, <2>1 DEF FileInv, CallsType, ListsType, Files
  <2> QED BY <1>1, <1>2, <1>5, <2>1, <2>2, <2>3, StepKeeps
          DEF FileInv, CallsType, ListsType, file
<1>7. CASE WriteEnds(p)
  <2>1. /\ accepted' = accepted /\ disturbed' = disturbed /\ Step(p, "replace")
        /\ fileCall[p].step = "writing"
    BY <1>7 DEF WriteEnds
  <2>2. PICK call \in Calls :
          /\ fileCall' = [fileCall EXCEPT ![p] = call] /\ call # NoCall
          /\ call.step = "replace" /\ call.op = fileCall[p].op
          /\ call.ticker = fileCall[p].ticker /\ call.content = fileCall[p].content
    BY <1>1, <2>1, NextStepType DEF FileSteps
  <2>3. CASE temporary[file] = Absent
    <3>1. /\ published' = [published EXCEPT ![file] = fileCall[p].content]
          /\ temporary' = temporary
      BY <1>7, <2>3 DEF WriteEnds
    <3>2. disturbed[file]
      <4>1. Absent # Torn
        <5>1. <<"torn", FALSE>> # <<"absent", FALSE>>
          OBVIOUS
        <5> QED BY <5>1 DEF Absent, Torn
      <4> QED BY <4>1, <1>1, <1>2, <2>1, <2>3, FileOfType
              DEF FileInv, KnowsContent, FileWriters
    <3> HIDE DEF file
    <3>3. /\ published' \in [Files -> Contents]
          /\ \A f \in Files : f # file => published'[f] = published[f]
          /\ published'["list"] \in Lists \cup {Torn}
      BY <1>1, <1>3, <1>4, <3>1 DEF FileInv, CallsType, ListsType, Files
    <3> QED BY <1>1, <1>2, <2>1, <2>2, <3>1, <3>2, <3>3, StepKeeps
            DEF FileInv, CallsType, ListsType, file
  <2>4. CASE temporary[file] # Absent
    <3>1. /\ temporary' = [temporary EXCEPT ![file] = fileCall[p].content]
          /\ published' = published
      BY <1>7, <2>4 DEF WriteEnds
    <3> HIDE DEF file
    <3>2. /\ temporary' \in [Files -> Contents] /\ temporary'[file] = fileCall[p].content
          /\ \A f \in Files : f # file => temporary'[f] = temporary[f]
          /\ temporary'["list"] \in Lists \cup {Torn, Absent}
      BY <1>1, <1>3, <1>4, <3>1 DEF FileInv, CallsType, ListsType, Files
    <3> QED BY <1>1, <1>2, <1>5, <2>1, <2>2, <3>1, <3>2, StepKeeps
            DEF FileInv, CallsType, ListsType, file
  <2> QED BY <2>3, <2>4
<1> QED BY <1>6, <1>7

\* The replacement: what is put in place is what the call means.
LEMMA ReplaceKeeps ==
    ASSUME FileInv, NEW p \in Clis \cup StateJobs, Replaces(p) \/ ReplaceRaises(p)
    PROVE  FileInv'
<1> DEFINE file == FileOf(p)
<1>1. p \in FileWriters /\ p # Screening /\ file \in Files
  BY FileOfType DEF FileWriters
<1>2. fileCall[p] # NoCall /\ fileCall' = [fileCall EXCEPT ![p] = NoCall]
  BY NoCallType DEF Replaces, ReplaceRaises, Ends
<1>3. CASE ReplaceRaises(p)
  <2>1. /\ published' = published /\ temporary' = temporary
        /\ accepted' = accepted /\ disturbed' = disturbed
    BY <1>3 DEF ReplaceRaises
  <2>2. ~disturbed[file] => published[file] = accepted[file]
    BY <1>1, <1>2, AloneOrDisturbed
  <2> QED BY <1>1, <1>2, <2>1, <2>2, NoCallType, StepKeeps
          DEF FileInv, CallsType, ListsType
<1>4. CASE Replaces(p)
  <2>1. /\ published' = [published EXCEPT ![file] = temporary[file]]
        /\ temporary' = [temporary EXCEPT ![file] = Absent]
        /\ accepted' = [accepted EXCEPT ![file] = Meaning(p)]
        /\ disturbed' = disturbed /\ temporary[file] # Absent
        /\ fileCall[p].step = "replace"
    BY <1>4 DEF Replaces
  <2>2. Meaning(p) \in Contents /\ (file = "list" => Meaning(p) \in Lists)
    BY <1>1, <1>2, FileOfType, AppliedType, ListsAreContents
    DEF Meaning, FileInv, CallsType, ListsType, Calls
  <2>3. ~disturbed[file] => temporary[file] = Meaning(p)
    BY <1>1, <1>2, <2>1 DEF FileInv, KnowsContent, Meaning
  <2> HIDE DEF file
  <2>4. /\ published' \in [Files -> Contents] /\ temporary' \in [Files -> Contents]
        /\ accepted' \in [Files -> Contents]
        /\ \A f \in Files : f # file =>
              /\ published'[f] = published[f] /\ temporary'[f] = temporary[f]
              /\ accepted'[f] = accepted[f]
        /\ published'[file] = temporary[file] /\ accepted'[file] = Meaning(p)
    BY <1>1, <2>1, <2>2, ListsAreContents DEF FileInv, CallsType
  <2>5. /\ published'["list"] \in Lists \cup {Torn} /\ accepted'["list"] \in Lists
        /\ temporary'["list"] \in Lists \cup {Torn, Absent}
    BY <1>1, <2>1, <2>2 DEF FileInv, CallsType, ListsType, Files
  <2> QED BY <1>1, <1>2, <2>1, <2>3, <2>4, <2>5, NoCallType, StepKeeps
          DEF FileInv, CallsType, file
<1> QED BY <1>3, <1>4

\* The screening writes in place: nobody is told that the file is whole before
\* it is.
LEMMA InPlaceKeeps ==
    ASSUME FileInv, WritesInPlace \/ WrittenInPlace
    PROVE  FileInv'
<1>1. Screening \in FileWriters /\ FileOf(Screening) = "state" /\ "state" \in Files
  BY FileOfType DEF FileWriters, Files
<1>2. fileCall[Screening] # NoCall /\ temporary' = temporary /\ disturbed' = disturbed
  BY NoCallType DEF WritesInPlace, WrittenInPlace
<1>3. CASE WritesInPlace
  <2>1. /\ published' = [published EXCEPT !["state"] = Torn] /\ accepted' = accepted
        /\ Step(Screening, "writing")
    BY <1>3 DEF WritesInPlace
  <2>2. PICK call \in Calls :
          /\ fileCall' = [fileCall EXCEPT ![Screening] = call] /\ call # NoCall
          /\ call.step = "writing" /\ call.op = fileCall[Screening].op
          /\ call.ticker = fileCall[Screening].ticker
          /\ call.content = fileCall[Screening].content
    BY <1>1, <2>1, NextStepType DEF FileSteps
  <2>3. /\ published' \in [Files -> Contents] /\ published'["list"] = published["list"]
        /\ \A f \in Files : f # "state" => published'[f] = published[f]
    BY <2>1, ListsAreContents DEF FileInv, CallsType, Files
  <2>4. fileCall'[Screening].step = "writing"
    BY <1>1, <2>2 DEF FileInv, CallsType
  <2> QED BY <1>1, <1>2, <2>1, <2>2, <2>3, <2>4, StepKeeps
          DEF FileInv, CallsType, ListsType
<1>4. CASE WrittenInPlace
  <2>1. /\ published' = [published EXCEPT !["state"] = {<<Screening, TRUE>>}]
        /\ accepted' = [accepted EXCEPT !["state"] = {<<Screening, TRUE>>}]
        /\ fileCall' = [fileCall EXCEPT ![Screening] = NoCall]
    BY <1>4 DEF WrittenInPlace, Ends
  <2>2. {<<Screening, TRUE>>} \in Contents
    BY OwnStateIsContent
  <2>3. /\ published' \in [Files -> Contents] /\ accepted' \in [Files -> Contents]
        /\ \A f \in Files : f # "state" =>
              published'[f] = published[f] /\ accepted'[f] = accepted[f]
        /\ published'["state"] = accepted'["state"]
        /\ published'["list"] = published["list"] /\ accepted'["list"] = accepted["list"]
    BY <2>1, <2>2 DEF FileInv, CallsType, Files
  <2> QED BY <1>1, <1>2, <2>1, <2>3, NoCallType, StepKeeps
          DEF FileInv, CallsType, ListsType
<1> QED BY <1>3, <1>4

\* A process dies at work: only in the middle of a write in place is anything
\* left behind that a reader sees.
LEMMA DeathKeeps ==
    ASSUME FileInv, NEW p \in FileWriters, WriterDies(p)
    PROVE  FileInv'
<1> DEFINE file == FileOf(p)
<1>1. file \in Files
  BY FileOfType
<1>2. /\ fileCall[p] # NoCall /\ fileCall' = [fileCall EXCEPT ![p] = NoCall]
      /\ published' = published /\ temporary' = temporary /\ accepted' = accepted
      /\ disturbed' = [disturbed EXCEPT ![file] =
                         disturbed[file] \/ (p = Screening /\ fileCall[p].step = "writing")]
  BY DEF WriterDies, Ends
<1> HIDE DEF file
<1>3. /\ disturbed' \in [Files -> BOOLEAN]
      /\ \A f \in Files : f # file => disturbed'[f] = disturbed[f]
      /\ disturbed'[file] <=>
            disturbed[file] \/ (p = Screening /\ fileCall[p].step = "writing")
  BY <1>1, <1>2 DEF FileInv, CallsType
<1>4. ~disturbed'[file] => published[file] = accepted[file]
  <2>1. CASE p = Screening
    <3>1. file = "state"
      BY <2>1, FileOfType DEF file
    <3> QED BY <1>3, <2>1, <3>1 DEF FileInv, FilesAsWritten
  <2>2. CASE p # Screening
    BY <1>2, <1>3, <2>2, AloneOrDisturbed DEF file
  <2> QED BY <2>1, <2>2
<1> QED BY <1>2, <1>3, <1>4, NoCallType, StepKeeps DEF FileInv, CallsType, ListsType, file

\* FileInv is an invariant: a call that is alone on its file knows what it says.
THEOREM FileInductive == FileSpec => []FileInv
<1>1. FileInit => FileInv
  <2> SUFFICES ASSUME FileInit PROVE FileInv
    OBVIOUS
  <2>1. EmptyList \in Lists /\ Closed \in Contents
    <3>1. <<"closed", TRUE>> \in
            (ListTickers \cup StateJobs \cup {Screening, "torn", "absent", "closed"})
                \X BOOLEAN
      OBVIOUS
    <3> QED BY <3>1 DEF EmptyList, Lists, Closed, Contents
  <2>2. CallsType
    <3>1. EmptyList \in Contents /\ Absent \in Contents
      BY <2>1, ListsAreContents
    <3>2. \A S : \A x, y \in S : [list |-> x, state |-> y] \in [Files -> S]
      BY DEF Files
    <3>3. published \in [Files -> Contents] /\ accepted \in [Files -> Contents]
      BY <2>1, <3>1, <3>2 DEF FileInit
    <3>4. temporary \in [Files -> Contents] /\ disturbed \in [Files -> BOOLEAN]
      BY <3>1, <3>2 DEF FileInit
    <3>5. fileCall \in [FileWriters -> Calls]
      BY NoCallType DEF FileInit
    <3> QED BY <3>3, <3>4, <3>5 DEF CallsType
  <2>3. ListsType
    BY <2>1 DEF FileInit, ListsType, FileWriters
  <2>4. OwnWay /\ OneAtWork /\ KnowsContent
    BY NoCallType DEF FileInit, OwnWay, OneAtWork, KnowsContent
  <2>5. FilesAsWritten
    BY DEF FileInit, FilesAsWritten
  <2> QED BY <2>2, <2>3, <2>4, <2>5 DEF FileInv
<1>2. FileInv /\ [FileNext]_fileVars => FileInv'
  <2> SUFFICES ASSUME FileInv, [FileNext]_fileVars PROVE FileInv'
    OBVIOUS
  <2>1. CASE \E p \in Clis, op \in ListOps, t \in ListTickers : CliReads(p, op, t)
    BY <2>1, CliBegins
  <2>2. CASE (\E p \in StateJobs : JobHasState(p)) \/ ScreeningHasState
    BY <2>2, StateBegins
  <2>3. CASE WritesInPlace \/ WrittenInPlace
    BY <2>3, InPlaceKeeps
  <2>4. CASE \E p \in Clis \cup StateJobs :
                WriteBegins(p) \/ WriteEnds(p) \/ Replaces(p) \/ ReplaceRaises(p)
    BY <2>4, WriteKeeps, ReplaceKeeps
  <2>5. CASE \E p \in FileWriters : WriterDies(p)
    BY <2>5, DeathKeeps
  <2>6. CASE UNCHANGED fileVars
    BY <2>6 DEF fileVars, FileInv, CallsType, ListsType, OwnWay, OneAtWork,
                KnowsContent, FilesAsWritten
  <2> QED BY <2>1, <2>2, <2>3, <2>4, <2>5, <2>6 DEF FileNext
<1> QED BY <1>1, <1>2, PTL DEF FileSpec

\* Whatever dies and wherever, a reader of a shared file finds what the completed
\* calls mean, unless calls overlapped or a write in place was cut off.
THEOREM FilesAsWrittenHolds == FileSpec => []FilesAsWritten
<1>1. FileInv => FilesAsWritten
  BY DEF FileInv
<1> QED BY <1>1, FileInductive, PTL

-----------------------------------------------------------------------------
(* The settings in the database (RuntimeSettings).                         *)

\* Values of some of the settings.
SomeSettings == UNION {[keys -> Int] : keys \in SUBSET SettingKeys}

LEMMA SettingsGiven ==
    /\ EnvValues \in AllSettings /\ FileValues \in SomeSettings
    /\ Requests \subseteq SomeSettings /\ MaxCalls \in Nat
BY SettingsAssumption DEF SomeSettings

\* c has the keys of both a and b, and a's values where a has them.
IsOver(c, a, b) ==
    /\ c \in SomeSettings /\ DOMAIN c = DOMAIN a \cup DOMAIN b
    /\ \A key \in DOMAIN c : c[key] = IF key \in DOMAIN a THEN a[key] ELSE b[key]

LEMMA OverType == \A a, b \in SomeSettings : IsOver(Over(a, b), a, b)
<1> TAKE a, b \in SomeSettings
<1>1. PICK A \in SUBSET SettingKeys : a \in [A -> Int]
  BY DEF SomeSettings
<1>2. PICK B \in SUBSET SettingKeys : b \in [B -> Int]
  BY DEF SomeSettings
<1>3. Over(a, b) \in [A \cup B -> Int]
  BY <1>1, <1>2 DEF Over
<1>4. A \cup B \in SUBSET SettingKeys
  OBVIOUS
<1> QED BY <1>1, <1>2, <1>3, <1>4 DEF Over, SomeSettings, IsOver

LEMMA AllAreSome ==
    /\ AllSettings \subseteq SomeSettings
    /\ \A a \in SomeSettings : DOMAIN a \subseteq SettingKeys
    /\ \A a \in SomeSettings : DOMAIN a = SettingKeys => a \in AllSettings
    /\ \A a \in AllSettings : DOMAIN a = SettingKeys
    /\ \A a \in SomeSettings, key \in SettingKeys : key \in DOMAIN a => a[key] \in Int
BY DEF AllSettings, SomeSettings

LEMMA SameSettings ==
    ASSUME NEW a \in AllSettings, NEW b \in AllSettings,
           \A key \in SettingKeys : a[key] = b[key]
    PROVE  a = b
BY DEF AllSettings

\* What a load makes of the table, if it can read it.
LoadedOf(table) == Complete(Over(table, FileValues))

LEMMA LoadedOfType ==
    ASSUME NEW table \in SomeSettings
    PROVE  /\ LoadedOf(table) \in AllSettings
           /\ \A key \in SettingKeys :
                 LoadedOf(table)[key] = IF key \in DOMAIN table THEN table[key]
                                        ELSE Over(FileValues, EnvValues)[key]
<1> DEFINE read == Over(table, FileValues)
<1>1. EnvValues \in SomeSettings /\ FileValues \in SomeSettings
      /\ DOMAIN EnvValues = SettingKeys /\ DOMAIN FileValues \subseteq SettingKeys
      /\ DOMAIN table \subseteq SettingKeys
  BY SettingsGiven, AllAreSome
<1>2. IsOver(read, table, FileValues)
  BY <1>1, OverType
<1>3. LoadedOf(table) = Over(read, EnvValues)
  BY DEF LoadedOf, Complete
<1>4. IsOver(LoadedOf(table), read, EnvValues)
  <2>1. read \in SomeSettings
    BY <1>2 DEF IsOver
  <2> HIDE DEF read
  <2> QED BY <1>1, <1>3, <2>1, OverType
<1>5. IsOver(Over(FileValues, EnvValues), FileValues, EnvValues)
  BY <1>1, OverType
<1> HIDE DEF read
<1>6. DOMAIN LoadedOf(table) = SettingKeys /\ LoadedOf(table) \in SomeSettings
      /\ DOMAIN Over(FileValues, EnvValues) = SettingKeys
  BY <1>1, <1>2, <1>4, <1>5 DEF IsOver
<1>7. ASSUME NEW key \in SettingKeys
      PROVE  LoadedOf(table)[key] = IF key \in DOMAIN table THEN table[key]
                                    ELSE Over(FileValues, EnvValues)[key]
  BY <1>2, <1>4, <1>5, <1>6 DEF IsOver
<1> QED BY <1>6, <1>7, AllAreSome

\* A key that RuntimeSettingsStore.save puts into the table.
Put(table, key, v) == Over([k \in {key} |-> v], table)

LEMMA PutType ==
    ASSUME NEW table \in SomeSettings, NEW key \in SettingKeys, NEW v \in Int
    PROVE  /\ Put(table, key, v) \in SomeSettings
           /\ DOMAIN Put(table, key, v) = DOMAIN table \cup {key}
           /\ Put(table, key, v)[key] = v
           /\ \A k \in DOMAIN table : k # key => Put(table, key, v)[k] = table[k]
<1> DEFINE one == [k \in {key} |-> v]
<1>1. one \in SomeSettings /\ DOMAIN one = {key} /\ one[key] = v
  <2>1. one \in [{key} -> Int] /\ {key} \in SUBSET SettingKeys
    OBVIOUS
  <2> QED BY <2>1 DEF SomeSettings
<1>2. Put(table, key, v) = Over(one, table)
  BY DEF Put
<1> HIDE DEF one
<1>3. IsOver(Put(table, key, v), one, table)
  BY <1>1, <1>2, OverType
<1> QED BY <1>1, <1>3 DEF IsOver

\* Writing what was loaded changes nothing for a load.
LEMMA FillKeepsLoaded ==
    ASSUME NEW table \in SomeSettings, NEW key \in SettingKeys
    PROVE  LoadedOf(Put(table, key, LoadedOf(table)[key])) = LoadedOf(table)
<1> DEFINE v == LoadedOf(table)[key]
           after == Put(table, key, v)
<1>1. LoadedOf(table) \in AllSettings /\ v \in Int
  BY LoadedOfType DEF AllSettings
<1> HIDE DEF v
<1>2. /\ after \in SomeSettings /\ DOMAIN after = DOMAIN table \cup {key} /\ after[key] = v
      /\ \A k \in DOMAIN table : k # key => after[k] = table[k]
  BY <1>1, PutType
<1> HIDE DEF after
<1>3. LoadedOf(after) \in AllSettings
  BY <1>2, LoadedOfType
<1>4. ASSUME NEW k \in SettingKeys
      PROVE  LoadedOf(after)[k] = LoadedOf(table)[k]
  <2>1. LoadedOf(after)[k] = IF k \in DOMAIN after THEN after[k]
                             ELSE Over(FileValues, EnvValues)[k]
    BY <1>2, LoadedOfType
  <2>2. LoadedOf(table)[k] = IF k \in DOMAIN table THEN table[k]
                             ELSE Over(FileValues, EnvValues)[k]
    BY LoadedOfType
  <2>3. LoadedOf(table)[key] = v
    BY DEF v
  <2> QED BY <1>2, <2>1, <2>2, <2>3
<1>5. LoadedOf(after) = LoadedOf(table)
  BY <1>1, <1>3, <1>4, SameSettings
<1> QED BY <1>5 DEF after, v

LEMMA FullTableLoaded ==
    ASSUME NEW table \in AllSettings
    PROVE  LoadedOf(table) = table
<1>1. table \in SomeSettings /\ DOMAIN table = SettingKeys
  BY AllAreSome
<1> QED BY <1>1, LoadedOfType, SameSettings

\* The keys that are values of a setting by name.
LEMMA KeysAre ==
    SettingKeys = {"loss", "preset", "trailing", "min_price", "max_price", "refresh", "mode"}
    /\ DOMAIN KeyOrder = 1..7 /\ Len(KeyOrder) = 7
BY DEF SettingKeys, KeyOrder

\* The preset is applied at once or after the mode is made coherent.
LEMMA EffectiveOfShown ==
    ASSUME NEW v \in AllSettings
    PROVE  LET screen == WithPreset(v) IN
           \/ Effective(v) = screen
           \/ screen.mode = Refresh /\ screen.refresh = 0
              /\ Effective(v) = CoherentMode(screen)
<1>1. /\ DOMAIN v = SettingKeys /\ v \in [SettingKeys -> Int]
      /\ "loss" \in SettingKeys /\ "trailing" \in SettingKeys /\ "mode" \in SettingKeys
      /\ "refresh" \in SettingKeys /\ "preset" \in SettingKeys
  BY KeysAre DEF AllSettings
<1>2. CASE v.mode = Refresh /\ v.refresh = 0
  <2>1. WithPreset(v).mode = Refresh /\ WithPreset(v).refresh = 0
    BY <1>1, <1>2 DEF WithPreset
  <2>2. Effective(v) = CoherentMode(WithPreset(v))
    BY <1>1, <1>2 DEF WithPreset, CoherentMode, Effective
  <2> QED BY <2>1, <2>2
<1>3. CASE ~(v.mode = Refresh /\ v.refresh = 0)
  BY <1>3 DEF Effective, CoherentMode
<1> QED BY <1>2, <1>3

LEMMA PayloadType ==
    ASSUME NEW values \in AllSettings, NEW request \in SomeSettings
    PROVE  Payload(values, request) \in AllSettings
<1>1. CoherentMode(values) \in AllSettings
  BY DEF CoherentMode, AllSettings, Fixed
<1>2. Effective(values) \in AllSettings
  <2> DEFINE c == CoherentMode(values)
  <2>1. c \in AllSettings
    BY <1>1
  <2> HIDE DEF c
  <2>2. [c EXCEPT !.loss = 25] \in AllSettings
    BY <2>1 DEF AllSettings
  <2>3. [c EXCEPT !.loss = 25, !.trailing = 20] \in AllSettings
    <3> DEFINE d == [c EXCEPT !.loss = 25]
    <3>1. d \in AllSettings
      BY <2>2
    <3>2. [c EXCEPT !.loss = 25, !.trailing = 20] = [d EXCEPT !.trailing = 20]
      OBVIOUS
    <3> HIDE DEF d
    <3>3. [d EXCEPT !.trailing = 20] \in AllSettings
      BY <3>1 DEF AllSettings
    <3> QED BY <3>2, <3>3
  <2>4. WithPreset(c) \in AllSettings
    BY <2>1, <2>3 DEF WithPreset
  <2> QED BY <2>4 DEF Effective, c
<1> DEFINE asked == Over(request, Effective(values))
<1>3. asked \in AllSettings
  <2>1. Effective(values) \in SomeSettings /\ DOMAIN Effective(values) = SettingKeys
        /\ DOMAIN request \subseteq SettingKeys
    BY <1>2, AllAreSome
  <2>2. IsOver(asked, request, Effective(values))
    BY <2>1, OverType
  <2>3. asked \in SomeSettings /\ DOMAIN asked = SettingKeys
    BY <2>1, <2>2 DEF IsOver
  <2> HIDE DEF asked
  <2> QED BY <2>3, AllAreSome
<1> HIDE DEF asked
<1>4. [asked EXCEPT !.refresh = IF request.mode = Fixed THEN 0 ELSE 1] \in AllSettings
  BY <1>3 DEF AllSettings
<1> QED BY <1>3, <1>4 DEF Payload, asked

\* A preset keeps the settings complete.
LEMMA WithPresetType ==
    ASSUME NEW c \in AllSettings
    PROVE  WithPreset(c) \in AllSettings
<1>1. [c EXCEPT !.loss = 25] \in AllSettings
  BY DEF AllSettings
<1>2. [c EXCEPT !.loss = 25, !.trailing = 20] \in AllSettings
  <2> DEFINE d == [c EXCEPT !.loss = 25]
  <2>1. d \in AllSettings
    BY <1>1
  <2>2. [c EXCEPT !.loss = 25, !.trailing = 20] = [d EXCEPT !.trailing = 20]
    OBVIOUS
  <2> HIDE DEF d
  <2>3. [d EXCEPT !.trailing = 20] \in AllSettings
    BY <2>1 DEF AllSettings
  <2> QED BY <2>2, <2>3
<1> QED BY <1>2 DEF WithPreset

-----------------------------------------------------------------------------
CallSteps == {"idle", "read", "fill", "loaded", "write", "reread", "refill", "answer"}
UserCalls == [step : CallSteps, request : SomeSettings, values : AllSettings,
              next : 1 .. 8, clean : BOOLEAN]
SettingsTypes ==
    /\ userCall \in [Users -> UserCalls]
    /\ stored \in SomeSettings /\ shown \in AllSettings
    /\ inEffect \in BOOLEAN /\ calls \in 0 .. MaxCalls

IsBusy(u) == userCall[u].step # "idle"

\* A call that is clean is the only one, and while the answer is in effect
\* every call is clean.
CleanIsAlone ==
    \A u, w \in Users : userCall[u].clean /\ IsBusy(u) /\ IsBusy(w) => w = u
EffectIsClean ==
    \A u \in Users : inEffect /\ IsBusy(u) => userCall[u].clean

\* What the loads find is what was shown.
ShownIsUsed ==
    \/ Effective(LoadedOf(stored)) = shown
    \/ shown.mode = Refresh /\ shown.refresh = 0
       /\ Effective(LoadedOf(stored)) = CoherentMode(shown)
SavingSteps == {"write", "reread", "refill", "answer"}
InForce ==
    inEffect /\ (\A u \in Users : userCall[u].step \notin SavingSteps) => ShownIsUsed

\* A load fills the table with what it would read anyway.
FillsLoaded ==
    \A u \in Users :
        inEffect /\ userCall[u].step = "fill" => userCall[u].values = LoadedOf(stored)

\* A save that is clean has written the first keys, and then all of them.
SaveWrites ==
    \A u \in Users : userCall[u].step = "write" =>
        /\ userCall[u].request \in AllSettings /\ userCall[u].values = userCall[u].request
        /\ userCall[u].clean =>
             \A i \in 1 .. userCall[u].next - 1 :
                 KeyOrder[i] \in DOMAIN stored
                 /\ stored[KeyOrder[i]] = userCall[u].request[KeyOrder[i]]
SaveWritten ==
    \A u \in Users : userCall[u].step \in {"reread", "refill", "answer"} =>
        /\ userCall[u].request \in AllSettings
        /\ userCall[u].clean => stored = userCall[u].request /\ userCall[u].step # "refill"

Calling == CleanIsAlone /\ EffectIsClean
SettingsInv ==
    SettingsTypes /\ Calling /\ InForce /\ FillsLoaded /\ SaveWrites /\ SaveWritten

LEMMA InvGivesAnswer ==
    ASSUME SettingsInv
    PROVE  AnswerInEffect
<1>1. SUFFICES ASSUME inEffect, ~SomeoneBusy
               PROVE  ShownIsUsed
  BY DEF AnswerInEffect, ShownIsUsed, LoadedOf, Found
<1>2. \A u \in Users : userCall[u].step \notin SavingSteps
  BY <1>1 DEF SomeoneBusy, SavingSteps
<1> QED BY <1>1, <1>2 DEF SettingsInv, InForce

LEMMA NoRequestType == NoRequest \in SomeSettings /\ Idle \in UserCalls
<1>1. NoRequest \in [{} -> Int]
  BY DEF NoRequest
<1>2. NoRequest \in SomeSettings
  BY <1>1 DEF SomeSettings
<1> QED BY <1>2, SettingsGiven DEF Idle, UserCalls, CallSteps

\* The call c once it is not alone.
Disturbed(d, c) ==
    /\ d \in UserCalls /\ ~d.clean /\ d.step = c.step /\ d.next = c.next
    /\ d.request = c.request /\ d.values = c.values

LEMMA DisturbedCall == \A c \in UserCalls : Disturbed([c EXCEPT !.clean = FALSE], c)
<1> TAKE c \in UserCalls
<1> DEFINE d == [c EXCEPT !.clean = FALSE]
<1>1. d \in UserCalls
  BY DEF UserCalls
<1>2. ~d.clean /\ d.step = c.step /\ d.next = c.next /\ d.request = c.request
      /\ d.values = c.values
  BY DEF UserCalls
<1> QED BY <1>1, <1>2 DEF Disturbed

LEMMA BeginKeeps ==
    ASSUME SettingsInv, NEW u \in Users, NEW request \in SomeSettings, Begin(u, request)
    PROVE  SettingsInv'
<1> USE DEF SettingsInv, Calling
<1>1. /\ userCall[u].step = "idle" /\ calls < MaxCalls /\ calls' = calls + 1
      /\ stored' = stored /\ shown' = shown
      /\ inEffect' \in BOOLEAN /\ (inEffect' => inEffect /\ ~SomeoneBusy)
  BY DEF Begin, SettingsTypes
<1> DEFINE call == [Idle EXCEPT !.step = "read", !.request = request,
                                !.clean = ~SomeoneBusy]
<1>2. /\ call \in UserCalls /\ call.step = "read"
      /\ (call.clean => ~SomeoneBusy) /\ (~SomeoneBusy => call.clean)
  BY NoRequestType DEF UserCalls, Idle, CallSteps, SomeoneBusy
<1>3. userCall'[u] = call
  BY DEF Begin
<1>4. \A w \in Users : w # u => /\ userCall'[w] = [userCall[w] EXCEPT !.clean = FALSE]
  BY DEF Begin
<1> HIDE DEF call
<1>5. \A w \in Users : w # u =>
         /\ userCall'[w] \in UserCalls /\ ~userCall'[w].clean
         /\ userCall'[w].step = userCall[w].step /\ userCall'[w].next = userCall[w].next
         /\ userCall'[w].request = userCall[w].request
         /\ userCall'[w].values = userCall[w].values
  <2>1. \A w \in Users : w # u => Disturbed(userCall'[w], userCall[w])
    BY <1>4, DisturbedCall DEF SettingsTypes
  <2> QED BY <2>1 DEF Disturbed
<1>6. SettingsTypes'
  <2>1. userCall' \in [Users -> UserCalls]
    <3>1. userCall' = [w \in Users |-> userCall'[w]]
      BY DEF Begin
    <3> QED BY <1>2, <1>3, <1>5, <3>1
  <2>2. calls' \in 0 .. MaxCalls
    BY <1>1, SettingsGiven DEF SettingsTypes
  <2>3. stored' \in SomeSettings /\ shown' \in AllSettings
    BY <1>1 DEF SettingsTypes
  <2>4. inEffect' \in BOOLEAN
    BY <1>1, Zenon
  <2> QED BY <2>1, <2>2, <2>3, <2>4 DEF SettingsTypes
<1>7. ~SomeoneBusy => \A w \in Users : userCall[w].step = "idle"
  BY DEF SomeoneBusy
<1>8. CleanIsAlone' /\ EffectIsClean'
  <2>1. \A w \in Users : IsBusy(w)' => w = u \/ SomeoneBusy
    BY <1>5 DEF IsBusy, SomeoneBusy
  <2>2. \A w \in Users : userCall'[w].clean => w = u /\ ~SomeoneBusy
    BY <1>2, <1>3, <1>5, Zenon
  <2>3. ~SomeoneBusy => userCall'[u].clean
    BY <1>2, <1>3, Zenon
  <2>4. CleanIsAlone'
    BY <2>1, <2>2 DEF CleanIsAlone
  <2>5. EffectIsClean'
    BY <1>1, <2>1, <2>3 DEF EffectIsClean
  <2> QED BY <2>4, <2>5
<1>9. InForce' /\ FillsLoaded'
  BY <1>1, <1>2, <1>3, <1>5, <1>7 DEF InForce, FillsLoaded, ShownIsUsed, SavingSteps
<1>10. SaveWrites' /\ SaveWritten'
  BY <1>1, <1>2, <1>3, <1>5 DEF SaveWrites, SaveWritten
<1> QED BY <1>6, <1>8, <1>9, <1>10

\* What the call of u has to bring about for the invariant.
SaveWritesOf(u) ==
    userCall[u].step = "write" =>
        /\ userCall[u].request \in AllSettings /\ userCall[u].values = userCall[u].request
        /\ userCall[u].clean =>
             \A i \in 1 .. userCall[u].next - 1 :
                 KeyOrder[i] \in DOMAIN stored
                 /\ stored[KeyOrder[i]] = userCall[u].request[KeyOrder[i]]
SaveWrittenOf(u) ==
    userCall[u].step \in {"reread", "refill", "answer"} =>
        /\ userCall[u].request \in AllSettings
        /\ userCall[u].clean => stored = userCall[u].request /\ userCall[u].step # "refill"
FillsLoadedOf(u) ==
    inEffect /\ userCall[u].step = "fill" => userCall[u].values = LoadedOf(stored)
InForceOf(u) ==
    inEffect /\ userCall[u].step \notin SavingSteps => ShownIsUsed

\* In a step of a call that goes on, the other calls that overlap it are not
\* clean, so what the step does to the table is nothing to them.
LEMMA CallKeeps ==
    ASSUME SettingsInv, NEW u \in Users, IsBusy(u), SettingsTypes',
           \A w \in Users : w # u => userCall'[w] = userCall[w],
           IsBusy(u)' /\ userCall'[u].clean => userCall[u].clean,
           inEffect' => inEffect \/ (~IsBusy(u)' /\ userCall[u].clean),
           IsBusy(u)' /\ inEffect' /\ userCall[u].clean => userCall'[u].clean,
           InForceOf(u)', FillsLoadedOf(u)', SaveWritesOf(u)', SaveWrittenOf(u)'
    PROVE  SettingsInv'
<1> USE DEF SettingsInv, Calling
<1>1. \A w \in Users : w # u => (IsBusy(w)' <=> IsBusy(w))
  BY DEF IsBusy
<1>2. \A w \in Users : w # u /\ IsBusy(w) => ~userCall[w].clean /\ ~userCall[u].clean
  BY DEF CleanIsAlone
<1>3. \A w \in Users : w # u /\ IsBusy(w) => ~inEffect
  BY <1>2 DEF EffectIsClean
<1>4. \A w \in Users : w # u /\ IsBusy(w) => ~inEffect'
  BY <1>2, <1>3
<1>5. CleanIsAlone'
  <2> SUFFICES ASSUME NEW v \in Users, NEW w \in Users, userCall'[v].clean,
                      IsBusy(v)', IsBusy(w)', w # v
               PROVE  FALSE
    BY DEF CleanIsAlone
  <2>1. CASE v # u /\ w # u
    BY <1>1, <2>1 DEF CleanIsAlone
  <2>2. CASE v = u
    BY <1>1, <1>2, <2>2
  <2>3. CASE w = u
    BY <1>1, <1>2, <2>3
  <2> QED BY <2>1, <2>2, <2>3
<1>6. EffectIsClean'
  <2> SUFFICES ASSUME NEW w \in Users, inEffect', IsBusy(w)'
               PROVE  userCall'[w].clean
    BY DEF EffectIsClean
  <2>1. w = u
    BY <1>1, <1>4
  <2>2. inEffect /\ userCall[u].clean
    BY <2>1 DEF EffectIsClean
  <2> QED BY <2>1, <2>2
<1>7. InForce'
  BY DEF InForce, InForceOf
<1>8. FillsLoaded'
  <2> SUFFICES ASSUME NEW w \in Users, inEffect', userCall'[w].step = "fill", w # u
               PROVE  FALSE
    BY DEF FillsLoaded, FillsLoadedOf
  <2> QED BY <1>4 DEF IsBusy
<1>9. SaveWrites'
  <2> SUFFICES ASSUME NEW w \in Users, w # u, userCall'[w].step = "write"
               PROVE  SaveWritesOf(w)'
    BY DEF SaveWrites, SaveWritesOf
  <2>1. ~userCall'[w].clean
    BY <1>2 DEF IsBusy
  <2> QED BY <2>1 DEF SaveWrites, SaveWritesOf
<1>10. SaveWritten'
  <2> SUFFICES ASSUME NEW w \in Users, w # u,
                      userCall'[w].step \in {"reread", "refill", "answer"}
               PROVE  SaveWrittenOf(w)'
    BY DEF SaveWritten, SaveWrittenOf
  <2>1. ~userCall'[w].clean
    BY <1>2 DEF IsBusy
  <2> QED BY <2>1 DEF SaveWritten, SaveWrittenOf
<1> QED BY <1>5, <1>6, <1>7, <1>8, <1>9, <1>10

\* A call that ends.
LEMMA EndKeeps ==
    ASSUME SettingsInv, NEW u \in Users, IsBusy(u), EndCall(u), calls' = calls,
           stored' = stored, shown' \in AllSettings, inEffect' \in BOOLEAN,
           inEffect' => inEffect \/ userCall[u].clean, InForceOf(u)'
    PROVE  SettingsInv'
<1>1. userCall'[u] = Idle /\ userCall' \in [Users -> UserCalls]
      /\ \A w \in Users : w # u => userCall'[w] = userCall[w]
  BY NoRequestType DEF EndCall, SettingsInv, SettingsTypes
<1>2. userCall'[u].step = "idle" /\ ~IsBusy(u)'
  BY <1>1 DEF Idle, IsBusy
<1>3. SettingsTypes'
  BY <1>1 DEF SettingsInv, SettingsTypes
<1>4. FillsLoadedOf(u)' /\ SaveWritesOf(u)' /\ SaveWrittenOf(u)'
  BY <1>2 DEF FillsLoadedOf, SaveWritesOf, SaveWrittenOf
<1> QED BY <1>1, <1>2, <1>3, <1>4, CallKeeps

\* While the answer is in effect the only call has not begun to save, or the
\* loads find what was shown.
LEMMA InEffectAlone ==
    ASSUME SettingsInv, NEW u \in Users, IsBusy(u), inEffect,
           userCall[u].step \notin SavingSteps
    PROVE  ShownIsUsed
<1>1. \A w \in Users : IsBusy(w) => w = u
  BY DEF SettingsInv, Calling, EffectIsClean, CleanIsAlone
<1>2. \A w \in Users : userCall[w].step \notin SavingSteps
  BY <1>1 DEF IsBusy, SavingSteps
<1> QED BY <1>2 DEF SettingsInv, InForce

\* A call of which one field after the other is replaced.
LEMMA CallWith ==
    ASSUME NEW c \in UserCalls, NEW values \in AllSettings, NEW step \in CallSteps,
           NEW clean \in BOOLEAN, NEW request \in SomeSettings
    PROVE  /\ [c EXCEPT !.values = values, !.next = 1, !.clean = clean, !.step = step]
                 \in UserCalls
           /\ [c EXCEPT !.step = step, !.next = 1, !.values = values, !.request = request]
                 \in UserCalls
<1> DEFINE values1 == [c EXCEPT !.values = values]
           next1 == [values1 EXCEPT !.next = 1]
           clean1 == [next1 EXCEPT !.clean = clean]
           step2 == [c EXCEPT !.step = step]
           next2 == [step2 EXCEPT !.next = 1]
           values2 == [next2 EXCEPT !.values = values]
<1>1. [c EXCEPT !.values = values, !.next = 1, !.clean = clean, !.step = step]
          = [clean1 EXCEPT !.step = step]
  OBVIOUS
<1>2. [c EXCEPT !.step = step, !.next = 1, !.values = values, !.request = request]
          = [values2 EXCEPT !.request = request]
  OBVIOUS
<1>3. values1 \in UserCalls /\ step2 \in UserCalls
  BY DEF UserCalls
<1> HIDE DEF values1, step2
<1>4. next1 \in UserCalls /\ next2 \in UserCalls
  BY <1>3 DEF UserCalls
<1> HIDE DEF next1, next2
<1>5. clean1 \in UserCalls /\ values2 \in UserCalls
  BY <1>4 DEF UserCalls
<1> HIDE DEF clean1, values2
<1>6. [clean1 EXCEPT !.step = step] \in UserCalls
      /\ [values2 EXCEPT !.request = request] \in UserCalls
  BY <1>5 DEF UserCalls
<1> QED BY <1>1, <1>2, <1>6

\* The fields of a call after a read.
LEMMA ReadCall ==
    ASSUME SettingsInv, NEW u \in Users, NEW ok \in BOOLEAN, Reads(u, ok)
    PROVE  /\ userCall' \in [Users -> UserCalls]
           /\ \A w \in Users : w # u => userCall'[w] = userCall[w]
           /\ userCall'[u].values = Complete(Found(ok))
           /\ userCall'[u].request = userCall[u].request
           /\ userCall[u].step \in {"read", "reread"}
           /\ userCall'[u].step =
                 IF DOMAIN Found(ok) # SettingKeys
                 THEN IF userCall[u].step = "read" THEN "fill" ELSE "refill"
                 ELSE IF userCall[u].step = "read" THEN "loaded" ELSE "answer"
           /\ userCall'[u].clean = (userCall[u].clean /\ (userCall[u].step = "read" \/ ok))
<1> USE DEF SettingsInv, SettingsTypes
<1> DEFINE values == Complete(Found(ok))
           step == IF DOMAIN Found(ok) # SettingKeys
                   THEN IF userCall[u].step = "read" THEN "fill" ELSE "refill"
                   ELSE IF userCall[u].step = "read" THEN "loaded" ELSE "answer"
           clean == userCall[u].clean /\ (userCall[u].step = "read" \/ ok)
           call == [userCall[u] EXCEPT !.values = values, !.next = 1, !.clean = clean,
                                       !.step = step]
<1>1. values \in AllSettings
  <2>1. CASE ok
    <3>1. values = LoadedOf(stored)
      BY <2>1 DEF Found, LoadedOf
    <3> QED BY <3>1, LoadedOfType
  <2>2. CASE ~ok
    <3>1. values = Over(FileValues, EnvValues)
      BY <2>2 DEF Found, Complete
    <3>2. EnvValues \in SomeSettings /\ FileValues \in SomeSettings
          /\ DOMAIN EnvValues = SettingKeys /\ DOMAIN FileValues \subseteq SettingKeys
      BY SettingsGiven, AllAreSome
    <3>3. IsOver(values, FileValues, EnvValues)
      BY <3>1, <3>2, OverType
    <3>4. values \in SomeSettings /\ DOMAIN values = SettingKeys
      BY <3>2, <3>3 DEF IsOver
    <3> HIDE DEF values
    <3> QED BY <3>4, AllAreSome
  <2> QED BY <2>1, <2>2
<1>2. userCall[u].step \in {"read", "reread"} /\ userCall[u] \in UserCalls
      /\ userCall' = [userCall EXCEPT ![u] = call]
  BY DEF Reads
<1>3. step \in CallSteps /\ clean \in BOOLEAN
  BY <1>2 DEF CallSteps
<1> HIDE DEF values, step, clean
<1>4. call \in UserCalls /\ call.values = values /\ call.step = step
      /\ call.request = userCall[u].request /\ call.clean = clean
  <2>1. call \in UserCalls
    BY <1>1, <1>2, <1>3, NoRequestType, CallWith
  <2>2. call.values = values /\ call.step = step /\ call.request = userCall[u].request
    BY <1>2 DEF UserCalls
  <2>3. call.clean = clean
    BY <1>2 DEF UserCalls
  <2> QED BY <2>1, <2>2, <2>3
<1> HIDE DEF call
<1>5. userCall'[u] = call /\ userCall' \in [Users -> UserCalls]
      /\ \A w \in Users : w # u => userCall'[w] = userCall[w]
  BY <1>2, <1>4
<1> QED BY <1>2, <1>4, <1>5 DEF values, step, clean

LEMMA ReadKeeps ==
    ASSUME SettingsInv, NEW u \in Users, NEW ok \in BOOLEAN, Reads(u, ok)
    PROVE  SettingsInv'
<1>1. /\ userCall' \in [Users -> UserCalls]
      /\ \A w \in Users : w # u => userCall'[w] = userCall[w]
      /\ userCall'[u].values = Complete(Found(ok))
      /\ userCall'[u].request = userCall[u].request
      /\ userCall[u].step \in {"read", "reread"}
      /\ userCall'[u].step =
            IF DOMAIN Found(ok) # SettingKeys
            THEN IF userCall[u].step = "read" THEN "fill" ELSE "refill"
            ELSE IF userCall[u].step = "read" THEN "loaded" ELSE "answer"
      /\ userCall'[u].clean = (userCall[u].clean /\ (userCall[u].step = "read" \/ ok))
  BY ReadCall
<1>2. /\ stored' = stored /\ shown' = shown /\ calls' = calls
      /\ inEffect' = (inEffect /\ ok)
  BY DEF Reads
<1>3. IsBusy(u) /\ userCall'[u].step \notin {"write", "reread"}
  BY <1>1 DEF IsBusy
<1>4. SettingsTypes'
  <2>1. inEffect' \in BOOLEAN
    BY <1>2
  <2> QED BY <1>1, <1>2, <2>1 DEF SettingsInv, SettingsTypes
<1>5. userCall'[u].clean => userCall[u].clean /\ (userCall[u].step = "read" \/ ok)
  BY <1>1, Zenon
<1>6. inEffect' => inEffect /\ ok
  BY <1>2, Zenon
<1>7. inEffect' /\ userCall[u].clean => userCall'[u].clean
  BY <1>1, <1>6, Zenon
<1>8. InForceOf(u)'
  <2> SUFFICES ASSUME inEffect', userCall'[u].step \notin SavingSteps
               PROVE  ShownIsUsed'
    BY DEF InForceOf
  <2>1. userCall[u].step = "read"
    BY <1>1 DEF SavingSteps
  <2>2. ShownIsUsed
    BY <1>3, <1>6, <2>1, InEffectAlone DEF SavingSteps
  <2> QED BY <1>2, <2>2 DEF ShownIsUsed
<1>9. FillsLoadedOf(u)'
  BY <1>1, <1>2, <1>6 DEF FillsLoadedOf, Found, LoadedOf
<1>10. SaveWritesOf(u)'
  BY <1>3 DEF SaveWritesOf
<1>11. SaveWrittenOf(u)'
  <2> SUFFICES ASSUME userCall'[u].step \in {"refill", "answer"}
               PROVE  /\ userCall'[u].request \in AllSettings
                      /\ userCall'[u].clean =>
                            stored' = userCall'[u].request /\ userCall'[u].step # "refill"
    BY <1>3 DEF SaveWrittenOf
  <2>1. userCall[u].step = "reread"
    BY <1>1
  <2>2. userCall[u].request \in AllSettings
        /\ (userCall[u].clean => stored = userCall[u].request)
    BY <2>1 DEF SettingsInv, SaveWritten
  <2>3. ASSUME userCall'[u].clean
        PROVE  stored' = userCall'[u].request /\ userCall'[u].step # "refill"
    <3>1. ok /\ stored \in AllSettings
      BY <1>5, <2>1, <2>2, <2>3
    <3>2. IsOver(Found(ok), stored, FileValues)
      BY <3>1, SettingsGiven, AllAreSome, OverType DEF Found
    <3>3. DOMAIN Found(ok) = SettingKeys
      BY <3>1, <3>2, SettingsGiven, AllAreSome DEF IsOver
    <3> QED BY <1>1, <1>2, <1>5, <2>2, <2>3, <3>3
  <2> QED BY <1>1, <2>2, <2>3
<1> QED BY <1>1, <1>3, <1>4, <1>5, <1>6, <1>7, <1>8, <1>9, <1>10, <1>11, CallKeeps

LEMMA SettingWriteKeeps ==
    ASSUME SettingsInv, NEW u \in Users, WritesKey(u)
    PROVE  SettingsInv'
<1> USE DEF SettingsInv, SettingsTypes
<1> DEFINE n == userCall[u].next
           key == KeyOrder[n]
           v == userCall[u].values[key]
           step == IF n = 7 THEN WritesDone(userCall[u].step) ELSE userCall[u].step
           call == [userCall[u] EXCEPT !.next = n + 1, !.step = step]
<1>1. /\ userCall[u].step \in {"fill", "write", "refill"} /\ n <= 7
      /\ userCall[u] \in UserCalls /\ stored' = Put(stored, key, v)
      /\ userCall' = [userCall EXCEPT ![u] = call]
      /\ shown' = shown /\ inEffect' = inEffect /\ calls' = calls
  BY KeysAre DEF WritesKey, Writing, Put
<1>2. n \in 1..7 /\ key \in SettingKeys /\ v \in Int /\ userCall[u].values \in AllSettings
  <2>1. n \in 1..7
    BY <1>1 DEF UserCalls
  <2>2. key \in SettingKeys
    BY <2>1, KeysAre DEF SettingKeys
  <2> QED BY <1>1, <2>1, <2>2 DEF UserCalls, AllSettings
<1>3. step = IF n < 7 THEN userCall[u].step
             ELSE IF userCall[u].step = "fill" THEN "loaded"
             ELSE IF userCall[u].step = "write" THEN "reread" ELSE "answer"
  BY <1>1, <1>2 DEF WritesDone
<1> HIDE DEF step
<1>4. call \in UserCalls /\ call.step = step /\ call.next = n + 1
      /\ call.values = userCall[u].values /\ call.request = userCall[u].request
      /\ call.clean = userCall[u].clean
  <2>1. step \in CallSteps /\ n + 1 \in 1 .. 8
    BY <1>1, <1>2, <1>3 DEF CallSteps
  <2> QED BY <1>1, <2>1 DEF UserCalls
<1> HIDE DEF call
<1>5. userCall'[u] = call /\ userCall' \in [Users -> UserCalls]
      /\ \A w \in Users : w # u => userCall'[w] = userCall[w]
  BY <1>1, <1>4
<1> HIDE DEF n, key, v
<1>6. /\ stored' \in SomeSettings /\ DOMAIN stored' = DOMAIN stored \cup {key}
      /\ stored'[key] = v
      /\ \A k \in DOMAIN stored : k # key => stored'[k] = stored[k]
  BY <1>1, <1>2, PutType
<1>7. SettingsTypes'
  BY <1>1, <1>5, <1>6
<1>8. IsBusy(u) /\ IsBusy(u)'
  BY <1>1, <1>3, <1>4, <1>5 DEF IsBusy
<1>9. userCall[u].step = "fill" /\ inEffect =>
          LoadedOf(stored') = LoadedOf(stored) /\ ShownIsUsed
  <2> SUFFICES ASSUME userCall[u].step = "fill", inEffect
               PROVE  LoadedOf(stored') = LoadedOf(stored) /\ ShownIsUsed
    OBVIOUS
  <2>1. v = LoadedOf(stored)[key]
    BY DEF FillsLoaded, v
  <2>2. LoadedOf(stored') = LoadedOf(stored)
    BY <1>1, <1>2, <2>1, FillKeepsLoaded
  <2>3. ShownIsUsed
    BY <1>8, InEffectAlone DEF SavingSteps
  <2> QED BY <2>2, <2>3
<1>10. InForceOf(u)'
  BY <1>1, <1>3, <1>4, <1>5, <1>9 DEF InForceOf, ShownIsUsed, SavingSteps
<1>11. FillsLoadedOf(u)'
  BY <1>1, <1>3, <1>4, <1>5, <1>9 DEF FillsLoadedOf, FillsLoaded
<1>12. ASSUME userCall[u].step = "write", userCall[u].clean, NEW i \in 1 .. n
       PROVE  KeyOrder[i] \in DOMAIN stored'
              /\ stored'[KeyOrder[i]] = userCall[u].request[KeyOrder[i]]
  <2>1. CASE i = n
    <3>1. KeyOrder[i] = key /\ userCall[u].values = userCall[u].request
      BY <1>12, <2>1 DEF SaveWrites, key
    <3> QED BY <1>6, <3>1 DEF v
  <2>2. CASE i # n
    <3>1. i \in 1 .. userCall[u].next - 1
      BY <1>2, <2>2 DEF n
    <3>2. KeyOrder[i] \in DOMAIN stored
          /\ stored[KeyOrder[i]] = userCall[u].request[KeyOrder[i]]
      BY <1>12, <3>1 DEF SaveWrites
    <3>3. KeyOrder[i] # key
      BY <1>2, <2>2 DEF KeyOrder, key
    <3> QED BY <1>6, <3>2, <3>3
  <2> QED BY <2>1, <2>2
<1>13. SaveWritesOf(u)'
  BY <1>2, <1>3, <1>4, <1>5, <1>12 DEF SaveWritesOf, SaveWrites
<1>14. SaveWrittenOf(u)'
  <2> SUFFICES ASSUME userCall'[u].step \in {"reread", "refill", "answer"}
               PROVE  /\ userCall'[u].request \in AllSettings
                      /\ userCall'[u].clean =>
                            stored' = userCall'[u].request /\ userCall'[u].step # "refill"
    BY DEF SaveWrittenOf
  <2>1. CASE userCall[u].step = "refill"
    BY <1>4, <1>5, <2>1 DEF SaveWritten
  <2>2. CASE userCall[u].step = "write"
    <3>1. n = 7 /\ step = "reread" /\ userCall[u].request \in AllSettings
      BY <1>2, <1>3, <1>4, <1>5, <2>2 DEF SaveWrites
    <3>2. ASSUME userCall[u].clean
          PROVE  stored' = userCall[u].request
      <4>1. \A k \in SettingKeys : k \in DOMAIN stored' /\ stored'[k] = userCall[u].request[k]
        BY <1>12, <2>2, <3>1, <3>2, KeysAre DEF SettingKeys
      <4>2. stored' \in AllSettings
        BY <1>6, <4>1, AllAreSome
      <4> QED BY <3>1, <4>1, <4>2, SameSettings
    <3> QED BY <1>4, <1>5, <3>1, <3>2
  <2>3. userCall[u].step # "fill"
    BY <1>2, <1>3, <1>4, <1>5
  <2> QED BY <1>1, <2>1, <2>2, <2>3
<1> QED BY <1>1, <1>4, <1>5, <1>7, <1>8, <1>10, <1>11, <1>13, <1>14, CallKeeps

LEMMA WriteRaisesKeeps ==
    ASSUME SettingsInv, NEW u \in Users, WriteRaises(u)
    PROVE  SettingsInv'
<1> USE DEF SettingsInv, SettingsTypes
<1>1. /\ userCall[u].step \in {"fill", "write", "refill"} /\ userCall[u] \in UserCalls
      /\ IsBusy(u) /\ stored' = stored /\ shown' = shown /\ calls' = calls
  BY DEF WriteRaises, Writing, IsBusy
<1>2. CASE userCall[u].step = "write"
  <2>1. EndCall(u) /\ inEffect' = FALSE
    BY <1>2 DEF WriteRaises
  <2> QED BY <1>1, <2>1, EndKeeps DEF InForceOf
<1>3. CASE userCall[u].step # "write"
  <2> DEFINE step == WritesDone(userCall[u].step)
             call == [userCall[u] EXCEPT !.step = step]
  <2>1. /\ userCall' = [userCall EXCEPT ![u] = call] /\ inEffect' = inEffect
    BY <1>3 DEF WriteRaises
  <2>2. step = IF userCall[u].step = "fill" THEN "loaded" ELSE "answer"
    BY <1>1, <1>3 DEF WritesDone
  <2> HIDE DEF step
  <2>3. call \in UserCalls /\ call.step = step /\ call.request = userCall[u].request
        /\ call.clean = userCall[u].clean
    BY <1>1, <2>2 DEF UserCalls, CallSteps
  <2> HIDE DEF call
  <2>4. userCall'[u] = call /\ userCall' \in [Users -> UserCalls]
        /\ \A w \in Users : w # u => userCall'[w] = userCall[w]
    BY <2>1, <2>3
  <2>5. SettingsTypes' /\ IsBusy(u)'
    BY <1>1, <2>1, <2>2, <2>3, <2>4 DEF IsBusy
  <2>6. InForceOf(u)'
    <3> SUFFICES ASSUME inEffect', userCall'[u].step \notin SavingSteps
                 PROVE  ShownIsUsed'
      BY DEF InForceOf
    <3>1. userCall[u].step = "fill"
      BY <2>2, <2>3, <2>4 DEF SavingSteps
    <3>2. ShownIsUsed
      BY <1>1, <2>1, <3>1, InEffectAlone DEF SavingSteps
    <3> QED BY <1>1, <3>2 DEF ShownIsUsed
  <2>7. FillsLoadedOf(u)' /\ SaveWritesOf(u)'
    BY <2>2, <2>3, <2>4 DEF FillsLoadedOf, SaveWritesOf
  <2>8. SaveWrittenOf(u)'
    BY <1>1, <1>3, <2>2, <2>3, <2>4 DEF SaveWrittenOf, SaveWritten
  <2> QED BY <1>1, <2>1, <2>3, <2>4, <2>5, <2>6, <2>7, <2>8, CallKeeps
<1> QED BY <1>2, <1>3

LEMMA SaveGoesOnKeeps ==
    ASSUME SettingsInv, NEW u \in Users, SaveGoesOn(u)
    PROVE  SettingsInv'
<1> USE DEF SettingsInv, SettingsTypes
<1> DEFINE payload == Payload(userCall[u].values, userCall[u].request)
<1>1. /\ userCall[u].step = "loaded" /\ userCall[u] \in UserCalls /\ IsBusy(u)
      /\ stored' = stored /\ shown' = shown /\ calls' = calls /\ inEffect' = inEffect
  BY DEF SaveGoesOn, IsBusy
<1>2. payload \in AllSettings
  BY <1>1, PayloadType DEF UserCalls
<1>3. inEffect => ShownIsUsed
  BY <1>1, InEffectAlone DEF SavingSteps
<1>4. InForceOf(u)'
  BY <1>1, <1>3 DEF InForceOf, ShownIsUsed
<1>5. CASE PricesRefused(payload, userCall[u].request)
  <2>1. EndCall(u)
    BY <1>5 DEF SaveGoesOn
  <2> QED BY <1>1, <1>4, <2>1, EndKeeps
<1>6. CASE ~PricesRefused(payload, userCall[u].request)
  <2> DEFINE call == [userCall[u] EXCEPT !.step = "write", !.next = 1, !.values = payload,
                                         !.request = payload]
  <2>1. userCall' = [userCall EXCEPT ![u] = call]
    BY <1>6 DEF SaveGoesOn
  <2> HIDE DEF payload
  <2>2. /\ call.step = "write" /\ call.request = payload /\ call.values = payload
        /\ call.next = 1 /\ call.clean = userCall[u].clean
    BY <1>1 DEF UserCalls
  <2>3. call \in UserCalls
    <3>1. "write" \in CallSteps /\ payload \in SomeSettings /\ TRUE \in BOOLEAN
      BY <1>2, AllAreSome DEF CallSteps
    <3> QED BY <1>1, <1>2, <3>1, CallWith
  <2> HIDE DEF call
  <2>4. userCall'[u] = call /\ userCall' \in [Users -> UserCalls]
        /\ \A w \in Users : w # u => userCall'[w] = userCall[w]
    BY <2>1, <2>3
  <2>5. SettingsTypes' /\ IsBusy(u)'
    BY <1>1, <2>2, <2>4 DEF IsBusy
  <2>6. userCall'[u].clean = userCall[u].clean /\ userCall'[u].step = "write"
        /\ userCall'[u].request = payload /\ userCall'[u].values = payload
        /\ userCall'[u].next = 1
    BY <2>2, <2>4
  <2>7. FillsLoadedOf(u)' /\ SaveWritesOf(u)' /\ SaveWrittenOf(u)'
    BY <1>2, <2>6 DEF FillsLoadedOf, SaveWritesOf, SaveWrittenOf
  <2> QED BY <1>1, <1>4, <2>4, <2>5, <2>6, <2>7, CallKeeps
<1> QED BY <1>5, <1>6

LEMMA SaveAnswersKeeps ==
    ASSUME SettingsInv, NEW u \in Users, SaveAnswers(u)
    PROVE  SettingsInv'
<1> USE DEF SettingsInv, SettingsTypes
<1> DEFINE request == userCall[u].request
<1>1. /\ userCall[u].step = "answer" /\ IsBusy(u) /\ EndCall(u)
      /\ shown' = WithPreset(request) /\ inEffect' = userCall[u].clean
      /\ stored' = stored /\ calls' = calls
  BY DEF SaveAnswers, IsBusy
<1>2. request \in AllSettings /\ (userCall[u].clean => stored = request)
  BY <1>1 DEF SaveWritten
<1>3. shown' \in AllSettings
  BY <1>1, <1>2, WithPresetType
<1>4. inEffect' \in BOOLEAN /\ (inEffect' => userCall[u].clean)
  <2>1. userCall[u].clean \in BOOLEAN
    BY DEF UserCalls
  <2> QED BY <1>1, <2>1
<1> HIDE DEF request
<1>5. InForceOf(u)'
  <2> SUFFICES ASSUME inEffect'
               PROVE  ShownIsUsed'
    BY DEF InForceOf
  <2>1. LoadedOf(stored') = request
    BY <1>1, <1>2, <1>4, FullTableLoaded
  <2> QED BY <1>1, <1>2, <2>1, EffectiveOfShown DEF ShownIsUsed
<1> QED BY <1>1, <1>3, <1>4, <1>5, EndKeeps

LEMMA LoadEndsKeeps ==
    ASSUME SettingsInv, NEW u \in Users, LoadEnds(u)
    PROVE  SettingsInv'
<1>1. /\ userCall[u].step = "loaded" /\ IsBusy(u) /\ EndCall(u)
      /\ stored' = stored /\ shown' = shown /\ calls' = calls /\ inEffect' = inEffect
  BY DEF LoadEnds, IsBusy
<1>2. inEffect => ShownIsUsed
  BY <1>1, InEffectAlone DEF SavingSteps
<1>3. InForceOf(u)'
  BY <1>1, <1>2 DEF InForceOf, ShownIsUsed
<1> QED BY <1>1, <1>3, EndKeeps DEF SettingsInv, SettingsTypes

LEMMA SettingsInitKeeps ==
    ASSUME SettingsInit
    PROVE  SettingsInv
<1>1. stored \in SomeSettings /\ DOMAIN stored = {}
  <2>1. stored \in [{} -> Int] /\ DOMAIN stored = {}
    BY DEF SettingsInit
  <2> QED BY <2>1 DEF SomeSettings
<1>2. FileValues \in SomeSettings /\ EnvValues \in SomeSettings
      /\ DOMAIN EnvValues = SettingKeys
  BY SettingsGiven, AllAreSome
<1>3. Over(stored, FileValues) = FileValues
  <2>1. IsOver(Over(stored, FileValues), stored, FileValues)
    BY <1>1, <1>2, OverType
  <2>2. PICK keys \in SUBSET SettingKeys : FileValues \in [keys -> Int]
    BY <1>2 DEF SomeSettings
  <2>3. Over(stored, FileValues) \in [keys -> Int]
    BY <1>1, <2>1, <2>2 DEF IsOver, SomeSettings
  <2> QED BY <1>1, <2>1, <2>2, <2>3 DEF IsOver
<1>4. shown = Effective(LoadedOf(stored)) /\ LoadedOf(stored) \in AllSettings
  BY <1>1, <1>3, LoadedOfType DEF SettingsInit, LoadedOf
<1>5. shown \in AllSettings
  <2>1. CoherentMode(LoadedOf(stored)) \in AllSettings
    BY <1>4 DEF CoherentMode, AllSettings, Fixed
  <2> QED BY <1>4, <2>1, WithPresetType DEF Effective
<1>6. userCall \in [Users -> UserCalls] /\ \A u \in Users : userCall[u] = Idle
  BY NoRequestType DEF SettingsInit
<1>7. \A u \in Users : userCall[u].step = "idle"
  <2>1. Idle.step = "idle"
    BY DEF Idle
  <2> QED BY <1>6, <2>1
<1>8. SettingsTypes
  BY <1>1, <1>5, <1>6, SettingsGiven DEF SettingsInit, SettingsTypes
<1>9. Calling
  BY <1>7 DEF Calling, CleanIsAlone, EffectIsClean, IsBusy
<1>10. InForce /\ FillsLoaded /\ SaveWrites /\ SaveWritten
  BY <1>4, <1>7 DEF InForce, FillsLoaded, SaveWrites, SaveWritten, ShownIsUsed
<1> QED BY <1>8, <1>9, <1>10 DEF SettingsInv

\* The inductive invariant of the settings.
THEOREM SettingsInductive == SettingsSpec => []SettingsInv
<1>1. SettingsInv /\ [SettingsNext]_settingsVars => SettingsInv'
  <2> SUFFICES ASSUME SettingsInv, [SettingsNext]_settingsVars
               PROVE  SettingsInv'
    OBVIOUS
  <2>1. CASE UNCHANGED settingsVars
    BY <2>1 DEF settingsVars, SettingsInv, SettingsTypes, Calling, CleanIsAlone,
         EffectIsClean, IsBusy, InForce, ShownIsUsed, FillsLoaded, SaveWrites, SaveWritten
  <2>2. ASSUME NEW u \in Users, LoadBegins(u)
        PROVE  SettingsInv'
    BY <2>2, BeginKeeps, NoRequestType DEF LoadBegins
  <2>3. ASSUME NEW u \in Users, SaveBegins(u)
        PROVE  SettingsInv'
    BY <2>3, BeginKeeps, SettingsGiven DEF SaveBegins
  <2> QED
    BY <2>1, <2>2, <2>3, ReadKeeps, SettingWriteKeeps, WriteRaisesKeeps, LoadEndsKeeps,
       SaveGoesOnKeeps, SaveAnswersKeeps DEF SettingsNext
<1> QED BY <1>1, SettingsInitKeeps, PTL DEF SettingsSpec

\* For every environment, settings file and sequence of saves, what
\* save_runtime_risk_settings answered is what every later load_settings works
\* with, as long as calls do not overlap and no read or save breaks off.
THEOREM AnswerInEffectHolds == SettingsSpec => []AnswerInEffect
<1>1. SettingsInv => AnswerInEffect
  BY InvGivesAnswer
<1> QED BY <1>1, SettingsInductive, PTL

-----------------------------------------------------------------------------
(* The account as the monitor shows it (LiveSnapshots).                    *)

\* The function that Filtered takes the last value of, up to m.
Filters(k, rows, numbers, m) ==
    k = [n \in 0 .. m |-> IF n = 0 THEN <<>>
                          ELSE IF n \in numbers THEN Append(k[n - 1], rows[n]) ELSE k[n - 1]]

LEMMA AFirstNumber ==
    ASSUME NEW S, S \subseteq Nat, S # {}
    PROVE  \E x \in S : \A y \in S : x <= y
<1>1. PICK x \in S : \A y \in S : <<y, x>> \notin OpToRel(<, Nat)
  BY NatLessThanWellFounded, WFMin
<1>2. ASSUME NEW y \in S PROVE x <= y
  <2>1. ~(y < x)
    BY <1>1 DEF OpToRel
  <2> QED BY <2>1
<1> QED BY <1>2

LEMMA SomethingFilters ==
    ASSUME NEW L \in Nat, NEW rows, NEW numbers
    PROVE  \E k : Filters(k, rows, numbers, L)
<1> DEFINE S == {m \in 0 .. L : ~ \E k : Filters(k, rows, numbers, m)}
<1> SUFFICES ASSUME L \in S PROVE FALSE
  OBVIOUS
<1>1. PICK m \in S : \A y \in S : m <= y
  <2>1. S \subseteq Nat /\ S # {}
    OBVIOUS
  <2> HIDE DEF S
  <2> QED BY <2>1, AFirstNumber
<1>2. m \in 0 .. L /\ ~ \E k : Filters(k, rows, numbers, m)
  OBVIOUS
<1>3. m # 0
  <2>1. ASSUME m = 0 PROVE FALSE
    <3> DEFINE k == [n \in 0 .. 0 |-> <<>>]
    <3>1. Filters(k, rows, numbers, 0)
      BY DEF Filters
    <3> QED BY <1>2, <2>1, <3>1
  <2> QED BY <2>1
<1>4. m - 1 \in 0 .. L /\ m - 1 \notin S
  BY <1>1, <1>2, <1>3
<1>5. PICK k : Filters(k, rows, numbers, m - 1)
  BY <1>4
<1> DEFINE last == IF m \in numbers THEN Append(k[m - 1], rows[m]) ELSE k[m - 1]
           h == [n \in 0 .. m |-> IF n = m THEN last ELSE k[n]]
<1> HIDE DEF S
<1>6. ASSUME NEW n \in 0 .. m
      PROVE  h[n] = IF n = 0 THEN <<>>
                    ELSE IF n \in numbers THEN Append(h[n - 1], rows[n]) ELSE h[n - 1]
  <2>1. CASE n = m
    <3>1. m - 1 \in 0 .. m /\ m - 1 # m /\ h[m] = last
      BY <1>2, <1>3
    <3> QED BY <1>3, <2>1, <3>1
  <2>2. CASE n # m
    <3>1. n \in 0 .. m - 1
      BY <1>2, <2>2
    <3>2. h[n] = k[n] /\ (n # 0 => h[n - 1] = k[n - 1])
      BY <1>2, <2>2, <3>1
    <3>3. k[n] = IF n = 0 THEN <<>>
                 ELSE IF n \in numbers THEN Append(k[n - 1], rows[n]) ELSE k[n - 1]
      BY <1>5, <3>1 DEF Filters
    <3> QED BY <3>2, <3>3
  <2> QED BY <2>1, <2>2
<1>7. h = [n \in 0 .. m |-> h[n]]
  OBVIOUS
<1>8. Filters(h, rows, numbers, m)
  <2> HIDE DEF h
  <2> QED BY <1>6, <1>7 DEF Filters
<1> QED BY <1>2, <1>8

LEMMA FilterRuns ==
    ASSUME NEW rows, Len(rows) \in Nat, NEW numbers
    PROVE  \E k : /\ k[0] = <<>>
                  /\ \A n \in 1 .. Len(rows) :
                        k[n] = IF n \in numbers THEN Append(k[n - 1], rows[n]) ELSE k[n - 1]
                  /\ Filtered(rows, numbers) = k[Len(rows)]
<1> DEFINE k == CHOOSE k : Filters(k, rows, numbers, Len(rows))
<1>1. Filters(k, rows, numbers, Len(rows))
  BY SomethingFilters
<1>2. Filtered(rows, numbers) = k[Len(rows)]
  BY DEF Filtered, Filters
<1> HIDE DEF k
<1>3. \A n \in 0 .. Len(rows) :
          k[n] = IF n = 0 THEN <<>>
                 ELSE IF n \in numbers THEN Append(k[n - 1], rows[n]) ELSE k[n - 1]
  BY <1>1 DEF Filters
<1>4. k[0] = <<>>
  BY <1>3
<1>5. ASSUME NEW n \in 1 .. Len(rows)
      PROVE k[n] = IF n \in numbers THEN Append(k[n - 1], rows[n]) ELSE k[n - 1]
  <2>1. n \in 0 .. Len(rows) /\ n # 0
    OBVIOUS
  <2> QED BY <1>3, <2>1
<1> QED BY <1>2, <1>4, <1>5

\* Whatever holds of the rows that are left holds of what is left.
LEMMA FilteredIsOf ==
    ASSUME NEW rows, Len(rows) \in Nat, NEW numbers, NEW T,
           \A n \in 1 .. Len(rows) : n \in numbers => rows[n] \in T
    PROVE  Filtered(rows, numbers) \in Seq(T)
<1>1. PICK k : /\ k[0] = <<>>
               /\ \A n \in 1 .. Len(rows) :
                     k[n] = IF n \in numbers THEN Append(k[n - 1], rows[n]) ELSE k[n - 1]
               /\ Filtered(rows, numbers) = k[Len(rows)]
  BY FilterRuns
<1> DEFINE S == {n \in 0 .. Len(rows) : k[n] \notin Seq(T)}
<1> SUFFICES ASSUME Len(rows) \in S PROVE FALSE
  BY <1>1
<1>2. PICK n \in S : \A y \in S : n <= y
  <2>1. S \subseteq Nat /\ S # {}
    OBVIOUS
  <2> HIDE DEF S
  <2> QED BY <2>1, AFirstNumber
<1>3. n # 0
  <2>1. <<>> \in Seq(T)
    OBVIOUS
  <2> QED BY <1>1, <1>2, <2>1
<1>4. n \in 1 .. Len(rows) /\ n - 1 \in 0 .. Len(rows) /\ n - 1 \notin S
  BY <1>2, <1>3
<1>5. k[n - 1] \in Seq(T) /\ k[n] \notin Seq(T)
  BY <1>4
<1>6. n \in numbers => rows[n] \in T
  BY <1>4
<1>7. k[n] = IF n \in numbers THEN Append(k[n - 1], rows[n]) ELSE k[n - 1]
  BY <1>1, <1>4
<1> HIDE DEF S
<1> QED BY <1>5, <1>6, <1>7

LEMMA FilteredNone ==
    ASSUME NEW rows, Len(rows) \in Nat, NEW numbers, \A n \in 1 .. Len(rows) : n \notin numbers
    PROVE  Filtered(rows, numbers) = <<>>
<1>1. Filtered(rows, numbers) \in Seq({})
  BY FilteredIsOf
<1> QED BY <1>1

\* What is appended to a table is left, if all of it is.
LEMMA FilteredThenAll ==
    ASSUME NEW R, NEW s \in Seq(R), NEW t \in Seq(R), NEW numbers, NEW before,
           \A n \in 1 .. Len(s) : n \in before <=> n \in numbers,
           \A n \in 1 .. Len(t) : Len(s) + n \in numbers
    PROVE  Filtered(s \o t, numbers) = Filtered(s, before) \o t
<1> DEFINE a == Len(s)
           b == Len(t)
<1>10. ASSUME NEW u \in Seq(R), NEW v \in Seq(R), NEW w \in R
       PROVE  Append(u \o v, w) = u \o Append(v, w)
  <2>1. u \o v \in Seq(R) /\ <<w>> \in Seq(R)
    OBVIOUS
  <2>2. Append(u \o v, w) = (u \o v) \o <<w>> /\ Append(v, w) = v \o <<w>>
    BY <2>1, AppendIsConcat
  <2>3. \A e \in Seq(R) : (u \o v) \o e = u \o (v \o e)
    BY ConcatAssociative
  <2> QED BY <2>1, <2>2, <2>3
<1>1. a \in Nat /\ b \in Nat /\ Len(s \o t) = a + b /\ s \o t \in Seq(R)
  OBVIOUS
<1>2. /\ \A n \in 1 .. a : (s \o t)[n] = s[n]
      /\ \A n \in 1 .. b : (s \o t)[a + n] = t[n]
  OBVIOUS
<1>3. PICK k : /\ k[0] = <<>>
               /\ \A n \in 1 .. a + b :
                     k[n] = IF n \in numbers THEN Append(k[n - 1], (s \o t)[n]) ELSE k[n - 1]
               /\ Filtered(s \o t, numbers) = k[a + b]
  <2>1. Len(s \o t) \in Nat
    BY <1>1
  <2>2. PICK k : /\ k[0] = <<>>
                 /\ \A n \in 1 .. Len(s \o t) :
                       k[n] = IF n \in numbers THEN Append(k[n - 1], (s \o t)[n])
                              ELSE k[n - 1]
                 /\ Filtered(s \o t, numbers) = k[Len(s \o t)]
    BY <2>1, FilterRuns
  <2> HIDE DEF a, b
  <2> QED BY <1>1, <2>2
<1>4. PICK h : /\ h[0] = <<>>
               /\ \A n \in 1 .. a :
                     h[n] = IF n \in before THEN Append(h[n - 1], s[n]) ELSE h[n - 1]
               /\ Filtered(s, before) = h[a]
  BY FilterRuns
<1>5. \A n \in 0 .. a : k[n] = h[n]
  <2> DEFINE S == {n \in 0 .. a : k[n] # h[n]}
  <2> SUFFICES ASSUME S # {} PROVE FALSE
    OBVIOUS
  <2>1. PICK n \in S : \A y \in S : n <= y
    <3>1. S \subseteq Nat /\ S # {}
      OBVIOUS
    <3> HIDE DEF S
    <3> QED BY <3>1, AFirstNumber
  <2>2. n # 0
    BY <1>3, <1>4
  <2>3. n \in 1 .. a /\ n \in 1 .. a + b /\ n - 1 \in 0 .. a /\ n - 1 \notin S
    BY <1>1, <2>1, <2>2
  <2>4. k[n - 1] = h[n - 1] /\ k[n] # h[n]
    BY <2>3
  <2>5. (s \o t)[n] = s[n] /\ (n \in before <=> n \in numbers)
    BY <1>2, <2>3
  <2> HIDE DEF a, b, S
  <2> QED BY <1>3, <1>4, <2>3, <2>4, <2>5
<1>6. h[a] \in Seq(R)
  <2>1. \A n \in 1 .. Len(s) : s[n] \in R
    OBVIOUS
  <2>2. Filtered(s, before) \in Seq(R)
    BY <1>1, <2>1, FilteredIsOf
  <2> QED BY <1>4, <2>2
<1> DEFINE part(m) == [i \in 1 .. m |-> t[i]]
<1>7. \A m \in 0 .. b : k[a + m] = h[a] \o part(m)
  <2> DEFINE S == {m \in 0 .. b : k[a + m] # h[a] \o part(m)}
  <2> SUFFICES ASSUME S # {} PROVE FALSE
    OBVIOUS
  <2>1. PICK m \in S : \A y \in S : m <= y
    <3>1. S \subseteq Nat
      BY <1>1
    <3> HIDE DEF S
    <3> QED BY <3>1, AFirstNumber
  <2>2. m # 0
    <3>1. ASSUME m = 0 PROVE FALSE
      <4>1. part(0) = <<>>
        OBVIOUS
      <4>2. k[a + 0] = h[a]
        BY <1>1, <1>5
      <4> QED BY <1>6, <3>1, <4>1, <4>2
    <3> QED BY <3>1
  <2>9. m \in 0 .. b
    OBVIOUS
  <2>3. /\ m \in 1 .. b /\ a + m \in 1 .. a + b /\ (a + m) - 1 = a + (m - 1)
        /\ m - 1 \in 0 .. b /\ m - 1 \notin S
    <3> HIDE DEF a, b, S
    <3> QED BY <1>1, <2>1, <2>2, <2>9
  <2>4. k[a + (m - 1)] = h[a] \o part(m - 1) /\ k[a + m] # h[a] \o part(m)
    BY <2>3
  <2>5. a + m \in numbers /\ (s \o t)[a + m] = t[m]
    BY <1>2, <2>3
  <2>6. k[a + m] = Append(h[a] \o part(m - 1), t[m])
    <3> HIDE DEF a, b, S, part
    <3> QED BY <1>3, <2>3, <2>4, <2>5
  <2>7. /\ part(m - 1) \in Seq(R) /\ t[m] \in R /\ part(m) = Append(part(m - 1), t[m])
    <3>1. m \in 1 .. Len(t) /\ m \in Nat /\ m - 1 \in Nat
      BY <2>3
    <3>2. \A i \in 1 .. m : t[i] \in R
      BY <3>1
    <3>3. part(m - 1) \in [1 .. m - 1 -> R]
      BY <3>1, <3>2
    <3>4. part(m - 1) \in Seq(R)
      BY <3>1, <3>3, SeqDef
    <3> QED BY <3>1, <3>2, <3>4
  <2>8. Append(h[a] \o part(m - 1), t[m]) = h[a] \o Append(part(m - 1), t[m])
    <3> HIDE DEF a, b, S, part
    <3> QED BY <1>6, <1>10, <2>7
  <2> QED BY <2>4, <2>6, <2>7, <2>8
<1>8. part(b) = t
  OBVIOUS
<1>9. k[a + b] = h[a] \o t
  <2>1. b \in 0 .. b
    BY <1>1
  <2> HIDE DEF a, b, part
  <2> QED BY <1>7, <1>8, <2>1
<1> QED BY <1>3, <1>4, <1>9

LEMMA FilteredAll ==
    ASSUME NEW R, NEW t \in Seq(R), NEW numbers, \A n \in 1 .. Len(t) : n \in numbers
    PROVE  Filtered(t, numbers) = t
<1>1. <<>> \in Seq(R) /\ <<>> \o t = t /\ Len(<<>>) = 0
  OBVIOUS
<1>2. \A n \in 1 .. Len(t) : Len(<<>>) + n \in numbers
  BY <1>1
<1>5. \A n \in 1 .. Len(<<>>) : n \in numbers <=> n \in numbers
  OBVIOUS
<1>3. Filtered(<<>> \o t, numbers) = Filtered(<<>>, numbers) \o t
  <2>1. PICK e : e = <<>> /\ e \in Seq(R) /\ \A n \in 1 .. Len(t) : Len(e) + n \in numbers
    BY <1>1, <1>2
  <2>2. Filtered(e \o t, numbers) = Filtered(e, numbers) \o t
    BY <2>1, FilteredThenAll
  <2> QED BY <2>1, <2>2
<1>4. Filtered(<<>>, numbers) = <<>>
  BY <1>1, FilteredNone
<1> QED BY <1>1, <1>3, <1>4

-----------------------------------------------------------------------------
(* What a poll has saved by now.                                           *)

NoneOf(rows, date) == \A i \in DOMAIN rows : rows[i].day # date
AllOf(rows, date) == \A i \in DOMAIN rows : rows[i].day = date
Recent(rows) == Filtered(rows, {i \in DOMAIN rows : ~rows[i].old})
Values(rows) == [i \in DOMAIN rows |-> rows[i].value]
OneRowEach(listed) ==
    /\ \A i \in DOMAIN listed : listed[i].quantity > 0
    /\ \A i, j \in DOMAIN listed : listed[i].ticker = listed[j].ticker => i = j

Steps == {"idle", "current", "snapshot", "clear_orders", "orders", "clear_holdings",
          "holdings", "file"}
Seen == [cash : Int, orders : Seq(Nat), holdings : {h \in Seq(HeldItems) : OneRowEach(h)}]
PollStates == [at : Steps, seen : Seen, day : Nat, broke : BOOLEAN, written : BOOLEAN]
Tables == [current : Seq(DatedRows(Int)), snapshots : Seq(DatedRows(Int)),
           orders : Seq(DatedRows(Nat)), holdings : Seq(DatedHoldings)]

\* What a poll that has met no other, and not broken off, has saved by now.
Saved(m, tables) ==
    /\ m.at # "current" => tables.current = <<[day |-> m.day, value |-> m.seen.cash]>>
    /\ m.at \notin {"current", "snapshot"} =>
          /\ ValuesOf(tables.snapshots, m.day) # <<>>
          /\ Last(ValuesOf(tables.snapshots, m.day)) = m.seen.cash
    /\ m.at = "orders" => NoneOf(tables.orders, m.day)
    /\ m.at \in {"clear_holdings", "holdings", "file", "idle"} =>
          ValuesOf(tables.orders, m.day) = m.seen.orders
    /\ m.at = "holdings" => NoneOf(tables.holdings, m.day)
    /\ m.at \in {"file", "idle"} =>
          /\ ValuesOf(tables.holdings, m.day) = m.seen.holdings
          /\ ValuesOf(Recent(tables.holdings), m.day) = m.seen.holdings

SnapshotTypes ==
    /\ accountStage \in DOMAIN Stages /\ currentDate \in Nat
    /\ snapshotTables \in Tables /\ livePoll \in [Pollers -> PollStates]
    /\ soloPoll \in Pollers \cup {"none"}

OthersRest == \A q \in Pollers \ {soloPoll} : livePoll[q].at = "idle"
SoloInv ==
    /\ SnapshotTypes
    /\ soloPoll # "none" =>
          /\ OthersRest
          /\ ~livePoll[soloPoll].broke => Saved(livePoll[soloPoll], snapshotTables)
          /\ livePoll[soloPoll].at = "idle" /\ livePoll[soloPoll].written =>
                stateFile = livePoll[soloPoll].seen

-----------------------------------------------------------------------------
LEMMA WithoutDayIs ==
    ASSUME NEW R, NEW rows \in Seq(R), NEW date
    PROVE  WithoutDay(rows, date) \in Seq(R) /\ NoneOf(WithoutDay(rows, date), date)
<1> DEFINE T == {r \in R : r.day # date}
           I == {i \in DOMAIN rows : rows[i].day # date}
<1>1. Len(rows) \in Nat /\ \A n \in 1 .. Len(rows) : n \in I => rows[n] \in T
  OBVIOUS
<1> HIDE DEF I
<1>2. Filtered(rows, I) \in Seq(T)
  <2> HIDE DEF T
  <2> QED BY <1>1, FilteredIsOf
<1>3. WithoutDay(rows, date) = Filtered(rows, I)
  BY DEF WithoutDay, I
<1> QED BY <1>2, <1>3 DEF NoneOf

LEMMA ValuesAfterNone ==
    ASSUME NEW R, NEW s \in Seq(R), NEW t \in Seq(R), NEW date, NoneOf(s, date), AllOf(t, date)
    PROVE  ValuesOf(s \o t, date) = Values(t)
<1> DEFINE I == {i \in DOMAIN (s \o t) : (s \o t)[i].day = date}
<1>1. \A n \in 1 .. Len(s) : n \in {} <=> n \in I
  <2>1. ASSUME NEW n \in 1 .. Len(s) PROVE n \notin I
    <3>1. (s \o t)[n] = s[n] /\ s[n].day # date
      BY DEF NoneOf
    <3> QED BY <3>1
  <2> QED BY <2>1
<1>2. \A n \in 1 .. Len(t) : Len(s) + n \in I
  <2>1. ASSUME NEW n \in 1 .. Len(t) PROVE Len(s) + n \in I
    <3>1. (s \o t)[Len(s) + n] = t[n] /\ t[n].day = date
      BY DEF AllOf
    <3>2. Len(s) + n \in DOMAIN (s \o t)
      OBVIOUS
    <3> QED BY <3>1, <3>2
  <2> QED BY <2>1
<1> HIDE DEF I
<1>3. Filtered(s \o t, I) = Filtered(s, {}) \o t
  BY <1>1, <1>2, FilteredThenAll
<1>4. Filtered(s, {}) = <<>>
  <2>1. Len(s) \in Nat /\ \A n \in 1 .. Len(s) : n \notin {}
    OBVIOUS
  <2> QED BY <2>1, FilteredNone
<1>5. Filtered(s \o t, I) = t
  BY <1>3, <1>4
<1> QED BY <1>5 DEF ValuesOf, I, Values

LEMMA RecentAfterNone ==
    ASSUME NEW R, NEW s \in Seq(R), NEW t \in Seq(R), NEW date, NoneOf(s, date), AllOf(t, date),
           \A i \in DOMAIN t : ~t[i].old
    PROVE  ValuesOf(Recent(s \o t), date) = Values(t)
<1> DEFINE I == {i \in DOMAIN (s \o t) : ~(s \o t)[i].old}
           B == {i \in DOMAIN s : ~s[i].old}
           T == {r \in R : r.day # date}
<1>1. \A n \in 1 .. Len(s) : n \in B <=> n \in I
  <2>1. ASSUME NEW n \in 1 .. Len(s) PROVE n \in B <=> n \in I
    <3>1. (s \o t)[n] = s[n] /\ n \in DOMAIN s /\ n \in DOMAIN (s \o t)
      OBVIOUS
    <3> QED BY <3>1
  <2> QED BY <2>1
<1>2. \A n \in 1 .. Len(t) : Len(s) + n \in I
  <2>1. ASSUME NEW n \in 1 .. Len(t) PROVE Len(s) + n \in I
    <3>1. (s \o t)[Len(s) + n] = t[n] /\ ~t[n].old
      OBVIOUS
    <3>2. Len(s) + n \in DOMAIN (s \o t)
      OBVIOUS
    <3> QED BY <3>1, <3>2
  <2> QED BY <2>1
<1>3. Len(s) \in Nat /\ \A n \in 1 .. Len(s) : n \in B => s[n] \in T
  BY DEF NoneOf
<1> HIDE DEF I, B
<1>4. Filtered(s \o t, I) = Filtered(s, B) \o t
  BY <1>1, <1>2, FilteredThenAll
<1>5. Filtered(s, B) \in Seq(T)
  <2> HIDE DEF T
  <2> QED BY <1>3, FilteredIsOf
<1>6. Filtered(s, B) \in Seq(R) /\ NoneOf(Filtered(s, B), date)
  BY <1>5 DEF NoneOf
<1>7. Recent(s \o t) = Filtered(s \o t, I)
  BY DEF Recent, I
<1> QED BY <1>4, <1>6, <1>7, ValuesAfterNone

\* A row that is saved last is the one that is found.
LEMMA LastValueIs ==
    ASSUME NEW R, NEW s \in Seq(R), NEW row \in R
    PROVE  ValuesOf(Append(s, row), row.day) # <<>>
           /\ Last(ValuesOf(Append(s, row), row.day)) = row.value
<1> DEFINE t == <<row>>
           I == {i \in DOMAIN (s \o t) : (s \o t)[i].day = row.day}
           B == {i \in DOMAIN s : s[i].day = row.day}
<1>1. Append(s, row) = s \o t /\ t \in Seq(R) /\ Len(t) = 1 /\ t[1] = row
  BY AppendIsConcat
<1>2. \A n \in 1 .. Len(s) : n \in B <=> n \in I
  <2>1. ASSUME NEW n \in 1 .. Len(s) PROVE n \in B <=> n \in I
    <3>1. (s \o t)[n] = s[n] /\ n \in DOMAIN s /\ n \in DOMAIN (s \o t)
      OBVIOUS
    <3> QED BY <3>1
  <2> QED BY <2>1
<1>3. \A n \in 1 .. Len(t) : Len(s) + n \in I
  OBVIOUS
<1> HIDE DEF I, t
<1>4. Filtered(s \o t, I) = Filtered(s, B) \o t
  <2> HIDE DEF B
  <2> QED BY <1>1, <1>2, <1>3, FilteredThenAll
<1>5. Filtered(s, B) \in Seq(R)
  <2>1. Len(s) \in Nat /\ \A n \in 1 .. Len(s) : n \in B => s[n] \in R
    OBVIOUS
  <2> HIDE DEF B
  <2> QED BY <2>1, FilteredIsOf
<1> DEFINE on == Filtered(s, B) \o t
<1>6. on \in Seq(R) /\ Len(on) = Len(Filtered(s, B)) + 1 /\ on[Len(on)] = row
  <2> HIDE DEF B
  <2> QED BY <1>1, <1>5
<1>7. ValuesOf(Append(s, row), row.day) = [i \in DOMAIN on |-> on[i].value]
  BY <1>1, <1>4 DEF ValuesOf, I
<1> DEFINE values == [i \in DOMAIN on |-> on[i].value]
<1>8. Len(values) = Len(on) /\ Len(on) \in Nat \ {0} /\ values[Len(on)] = row.value
  <2> HIDE DEF on, B
  <2> QED BY <1>5, <1>6
<1>9. values # <<>> /\ Last(values) = row.value
  <2> HIDE DEF values
  <2> QED BY <1>8 DEF Last
<1> QED BY <1>7, <1>9

LEMMA HoldingRowsAre ==
    ASSUME SnapshotTypes, NEW p \in Pollers
    PROVE  LET m == livePoll[p] IN
           /\ HoldingRows(p) \in Seq(DatedHoldings) /\ AllOf(HoldingRows(p), m.day)
           /\ \A i \in DOMAIN HoldingRows(p) : ~HoldingRows(p)[i].old
           /\ Values(HoldingRows(p)) = m.seen.holdings
<1> DEFINE m == livePoll[p]
           listed == m.seen.holdings
           I == {i \in DOMAIN listed : listed[i].quantity > 0}
           rows == [i \in DOMAIN listed |-> [day |-> m.day, value |-> listed[i], old |-> FALSE]]
<1>1. m \in PollStates
  BY DEF SnapshotTypes
<1>2. listed \in Seq(HeldItems) /\ OneRowEach(listed) /\ m.day \in Nat
  BY <1>1 DEF PollStates, Seen
<1>3. \A n \in 1 .. Len(listed) : n \in I
  BY <1>2 DEF OneRowEach
<1>4. Filtered(listed, I) = listed
  <2> HIDE DEF I, listed
  <2> QED BY <1>2, <1>3, FilteredAll
<1>5. HoldingRows(p) = rows
  BY <1>4 DEF HoldingRows
<1>6. PICK h, d : h = listed /\ d = m.day /\ h \in Seq(HeldItems) /\ d \in Nat
  BY <1>2
<1>7. rows = [i \in 1 .. Len(h) |-> [day |-> d, value |-> h[i], old |-> FALSE]]
      /\ Len(h) \in Nat
  BY <1>6
<1> HIDE DEF rows, listed, m
<1>8. rows \in [1 .. Len(h) -> DatedHoldings]
  BY <1>6, <1>7 DEF DatedHoldings
<1>9. rows \in Seq(DatedHoldings) /\ DOMAIN rows = 1 .. Len(h) /\ DOMAIN h = 1 .. Len(h)
  <2>1. PICK n \in Nat : n = Len(h)
    BY <1>7
  <2>2. rows \in [1 .. n -> DatedHoldings]
    BY <1>8, <2>1
  <2>3. rows \in Seq(DatedHoldings)
    BY <2>2, SeqDef
  <2> QED BY <1>6, <1>7, <2>3
<1>10. \A i \in DOMAIN rows : rows[i].day = d /\ rows[i].value = h[i] /\ rows[i].old = FALSE
  BY <1>7, <1>9
<1>11. Values(rows) = h
  <2>1. Values(rows) = [i \in 1 .. Len(h) |-> h[i]]
    BY <1>9, <1>10 DEF Values
  <2> QED BY <1>6, <2>1
<1> QED BY <1>5, <1>6, <1>9, <1>10, <1>11 DEF AllOf, listed, m

LEMMA AgedIs ==
    ASSUME NEW rows \in Seq(DatedHoldings), NEW later \in BOOLEAN, NEW date
    PROVE  /\ Aged(rows, later) \in Seq(DatedHoldings)
           /\ NoneOf(rows, date) => NoneOf(Aged(rows, later), date)
<1>1. CASE ~later
  BY <1>1 DEF Aged
<1>2. CASE later
  <2> DEFINE aged == [i \in DOMAIN rows |-> [rows[i] EXCEPT !.old = TRUE]]
  <2>1. Len(rows) \in Nat /\ DOMAIN rows = 1 .. Len(rows)
    OBVIOUS
  <2>2. ASSUME NEW i \in DOMAIN rows
        PROVE  aged[i] \in DatedHoldings /\ aged[i].day = rows[i].day
    <3>1. rows[i] \in DatedHoldings
      OBVIOUS
    <3> QED BY <3>1 DEF DatedHoldings
  <2>3. aged \in [1 .. Len(rows) -> DatedHoldings]
    BY <2>1, <2>2
  <2>4. aged \in Seq(DatedHoldings)
    BY <2>1, <2>3, SeqDef
  <2> QED BY <1>2, <2>2, <2>4 DEF Aged, NoneOf
<1> QED BY <1>1, <1>2

LEMMA OrderRowsAre ==
    ASSUME SnapshotTypes, NEW p \in Pollers
    PROVE  LET m == livePoll[p]
               rows == RowsOf(p, m.seen.orders) IN
           /\ rows \in Seq(DatedRows(Nat)) /\ AllOf(rows, m.day) /\ Values(rows) = m.seen.orders
           /\ Len(rows) = Len(m.seen.orders)
<1> DEFINE m == livePoll[p]
           rows == RowsOf(p, m.seen.orders)
<1>1. m \in PollStates
  BY DEF SnapshotTypes
<1>2. PICK h, d : h = m.seen.orders /\ d = m.day /\ h \in Seq(Nat) /\ d \in Nat
  BY <1>1 DEF PollStates, Seen
<1>3. rows = [i \in 1 .. Len(h) |-> [day |-> d, value |-> h[i]]] /\ Len(h) \in Nat
  BY <1>2 DEF RowsOf, RowOf
<1> HIDE DEF rows, m
<1>4. rows \in [1 .. Len(h) -> DatedRows(Nat)]
  BY <1>2, <1>3 DEF DatedRows
<1>5. rows \in Seq(DatedRows(Nat)) /\ DOMAIN rows = 1 .. Len(h) /\ Len(rows) = Len(h)
  <2>1. PICK n \in Nat : n = Len(h)
    BY <1>3
  <2>2. rows \in [1 .. n -> DatedRows(Nat)]
    BY <1>4, <2>1
  <2>3. rows \in Seq(DatedRows(Nat))
    BY <2>2, SeqDef
  <2>4. DOMAIN rows = 1 .. n
    BY <1>3, <2>1
  <2> QED BY <2>1, <2>3, <2>4
<1>6. \A i \in DOMAIN rows : rows[i].day = d /\ rows[i].value = h[i]
  BY <1>3, <1>5
<1>7. Values(rows) = h
  <2>1. Values(rows) = [i \in 1 .. Len(h) |-> h[i]]
    BY <1>5, <1>6 DEF Values
  <2> QED BY <1>2, <2>1
<1> QED BY <1>2, <1>5, <1>6, <1>7 DEF AllOf, rows, m

-----------------------------------------------------------------------------
LEMMA TheOtherRest ==
    ASSUME SoloInv, NEW p \in Pollers, livePoll[p].at # "idle", soloPoll' = soloPoll,
           accountStage' = accountStage, currentDate' = currentDate,
           snapshotTables' \in Tables, livePoll' \in [Pollers -> PollStates],
           \A q \in Pollers \ {p} : livePoll'[q] = livePoll[q],
           soloPoll = p /\ p # "none" =>
              /\ ~livePoll'[p].broke => Saved(livePoll'[p], snapshotTables')
              /\ livePoll'[p].at = "idle" /\ livePoll'[p].written =>
                    stateFile' = livePoll'[p].seen
    PROVE  SoloInv'
<1>1. SnapshotTypes'
  BY DEF SoloInv, SnapshotTypes
<1>2. ASSUME soloPoll # "none" PROVE soloPoll = p /\ OthersRest'
  <2>1. soloPoll = p
    BY <1>2 DEF SoloInv, SnapshotTypes, OthersRest
  <2> QED BY <1>2, <2>1 DEF SoloInv, OthersRest
<1> QED BY <1>1, <1>2 DEF SoloInv

\* The step of a save takes a poll on.
LEMMA StepIs ==
    ASSUME SnapshotTypes, NEW p \in Pollers, NEW step \in Steps,
           livePoll' = [livePoll EXCEPT ![p].at = step]
    PROVE  /\ livePoll' \in [Pollers -> PollStates]
           /\ \A q \in Pollers \ {p} : livePoll'[q] = livePoll[q]
           /\ livePoll'[p].at = step /\ livePoll'[p].seen = livePoll[p].seen
           /\ livePoll'[p].day = livePoll[p].day /\ livePoll'[p].broke = livePoll[p].broke
<1>1. livePoll \in [Pollers -> PollStates] /\ livePoll[p] \in PollStates
  BY DEF SnapshotTypes
<1>2. livePoll'[p] = [livePoll[p] EXCEPT !.at = step]
  BY <1>1
<1>3. /\ livePoll'[p] \in PollStates
      /\ livePoll'[p].at = step /\ livePoll'[p].seen = livePoll[p].seen
      /\ livePoll'[p].day = livePoll[p].day /\ livePoll'[p].broke = livePoll[p].broke
  BY <1>1, <1>2 DEF PollStates
<1>4. \A q \in Pollers \ {p} : livePoll'[q] = livePoll[q]
  BY <1>1
<1>5. livePoll' = [q \in Pollers |-> livePoll'[q]]
  BY <1>1
<1>6. \A q \in Pollers : livePoll'[q] \in PollStates
  BY <1>1, <1>3, <1>4
<1> QED BY <1>3, <1>4, <1>5, <1>6

LEMMA SavedBefore ==
    ASSUME SoloInv, NEW p \in Pollers, soloPoll = p, p # "none", ~livePoll[p].broke
    PROVE  Saved(livePoll[p], snapshotTables)
BY DEF SoloInv


LEMMA TablesAre ==
    ASSUME SnapshotTypes, NEW x, NEW field \in {"current", "snapshots", "orders", "holdings"},
           snapshotTables' = [snapshotTables EXCEPT ![field] = x],
           field = "current" => x \in Seq(DatedRows(Int)),
           field = "snapshots" => x \in Seq(DatedRows(Int)),
           field = "orders" => x \in Seq(DatedRows(Nat)),
           field = "holdings" => x \in Seq(DatedHoldings)
    PROVE  /\ snapshotTables' \in Tables /\ snapshotTables'[field] = x
           /\ field # "current" => snapshotTables'.current = snapshotTables.current
           /\ field # "snapshots" => snapshotTables'.snapshots = snapshotTables.snapshots
           /\ field # "orders" => snapshotTables'.orders = snapshotTables.orders
           /\ field # "holdings" => snapshotTables'.holdings = snapshotTables.holdings
<1>1. snapshotTables \in Tables
  BY DEF SnapshotTypes
<1>2. CASE field = "current"
  BY <1>1, <1>2 DEF Tables
<1>3. CASE field = "snapshots"
  BY <1>1, <1>3 DEF Tables
<1>4. CASE field = "orders"
  BY <1>1, <1>4 DEF Tables
<1>5. CASE field = "holdings"
  BY <1>1, <1>5 DEF Tables
<1> QED BY <1>2, <1>3, <1>4, <1>5

LEMMA SaveStarts ==
    ASSUME SoloInv, NEW p \in Pollers, StartsSaving(p)
    PROVE  SoloInv'
<1> DEFINE m == livePoll[p]
           row == [day |-> currentDate, value |-> m.seen.cash]
           half == [m EXCEPT !.at = "snapshot"]
<1>1. SnapshotTypes /\ livePoll \in [Pollers -> PollStates] /\ m \in PollStates
      /\ currentDate \in Nat /\ m.at = "current"
  BY DEF SoloInv, SnapshotTypes, StartsSaving, Saving
<1>2. row \in DatedRows(Int)
  BY <1>1 DEF DatedRows, PollStates, Seen
<1>3. <<row>> \in Seq(DatedRows(Int))
  BY <1>2
<1>4. snapshotTables' = [snapshotTables EXCEPT !["current"] = <<row>>]
  BY DEF StartsSaving
<1>5. snapshotTables' \in Tables /\ snapshotTables'.current = <<row>>
  <2> HIDE DEF row
  <2> QED BY <1>1, <1>3, <1>4, TablesAre
<1>6. /\ half \in PollStates /\ half.at = "snapshot" /\ half.seen = m.seen /\ half.broke = m.broke
  BY <1>1 DEF PollStates, Steps
<1>7. livePoll'[p] = [half EXCEPT !.day = currentDate]
      /\ livePoll' = [q \in Pollers |-> livePoll'[q]]
      /\ \A q \in Pollers \ {p} : livePoll'[q] = livePoll[q]
  BY <1>1 DEF StartsSaving
<1> HIDE DEF half, row
<1>8. /\ livePoll'[p] \in PollStates /\ livePoll'[p].at = "snapshot"
      /\ livePoll'[p].seen = m.seen /\ livePoll'[p].day = currentDate
  BY <1>1, <1>6, <1>7 DEF PollStates
<1>9. \A q \in Pollers : livePoll'[q] \in PollStates
  BY <1>1, <1>7, <1>8
<1>10. livePoll' \in [Pollers -> PollStates]
  BY <1>7, <1>9
<1>11. Saved(livePoll'[p], snapshotTables')
  BY <1>5, <1>8 DEF Saved, row
<1>12. livePoll[p].at # "idle" /\ soloPoll' = soloPoll /\ accountStage' = accountStage
       /\ currentDate' = currentDate
  BY <1>1 DEF StartsSaving
<1>13. livePoll'[p].at # "idle"
  BY <1>8
<1> QED BY <1>5, <1>7, <1>10, <1>11, <1>12, <1>13, TheOtherRest

LEMMA SnapshotSaved ==
    ASSUME SoloInv, NEW p \in Pollers, SavesSnapshot(p)
    PROVE  SoloInv'
<1> DEFINE m == livePoll[p]
           row == RowOf(p, m.seen.cash)
           x == Append(snapshotTables.snapshots, row)
<1>1. SnapshotTypes /\ m \in PollStates /\ snapshotTables \in Tables /\ m.at = "snapshot"
  BY DEF SoloInv, SnapshotTypes, SavesSnapshot, Saving
<1>2. row \in DatedRows(Int) /\ row.day = m.day /\ row.value = m.seen.cash
  BY <1>1 DEF DatedRows, PollStates, Seen, RowOf
<1>3. snapshotTables.snapshots \in Seq(DatedRows(Int))
  BY <1>1 DEF Tables
<1> HIDE DEF row
<1>4. x \in Seq(DatedRows(Int))
  BY <1>2, <1>3
<1>5. snapshotTables' = [snapshotTables EXCEPT !["snapshots"] = x]
  BY DEF SavesSnapshot, row
<1> DEFINE field == "snapshots"
<1>6. snapshotTables' \in Tables /\ snapshotTables'.snapshots = x
      /\ snapshotTables'.current = snapshotTables.current
  <2> HIDE DEF x
  <2> QED BY <1>1, <1>4, <1>5, TablesAre
<1>7. "clear_orders" \in Steps
  BY DEF Steps
<1>8. livePoll' = [livePoll EXCEPT ![p].at = "clear_orders"] /\ soloPoll' = soloPoll
      /\ accountStage' = accountStage /\ currentDate' = currentDate
  BY DEF SavesSnapshot, NextSave
<1>9. /\ livePoll' \in [Pollers -> PollStates]
      /\ \A q \in Pollers \ {p} : livePoll'[q] = livePoll[q]
      /\ livePoll'[p].at = "clear_orders" /\ livePoll'[p].seen = m.seen
      /\ livePoll'[p].day = m.day /\ livePoll'[p].broke = m.broke
  BY <1>1, <1>7, <1>8, StepIs
<1>10. ValuesOf(x, m.day) # <<>> /\ Last(ValuesOf(x, m.day)) = m.seen.cash
  BY <1>2, <1>3, LastValueIs
<1> HIDE DEF x
<1>11. ASSUME soloPoll = p, p # "none", ~livePoll'[p].broke
       PROVE  Saved(livePoll'[p], snapshotTables')
  <2>1. Saved(m, snapshotTables)
    BY <1>9, <1>11, SavedBefore
  <2>2. snapshotTables.current = <<[day |-> m.day, value |-> m.seen.cash]>>
    BY <1>1, <2>1 DEF Saved
  <2> QED BY <1>6, <1>9, <1>10, <2>2 DEF Saved
<1> QED BY <1>1, <1>6, <1>8, <1>9, <1>11, TheOtherRest

LEMMA OrdersCleared ==
    ASSUME SoloInv, NEW p \in Pollers, ClearsOrders(p)
    PROVE  SoloInv'
<1> DEFINE m == livePoll[p]
           x == WithoutDay(snapshotTables.orders, m.day)
<1>1. SnapshotTypes /\ m \in PollStates /\ snapshotTables \in Tables /\ m.at = "clear_orders"
  BY DEF SoloInv, SnapshotTypes, ClearsOrders, Saving
<1>2. snapshotTables.orders \in Seq(DatedRows(Nat))
  BY <1>1 DEF Tables
<1>3. x \in Seq(DatedRows(Nat)) /\ NoneOf(x, m.day)
  BY <1>2, WithoutDayIs
<1>4. snapshotTables' = [snapshotTables EXCEPT !["orders"] = x]
  BY DEF ClearsOrders
<1>5. snapshotTables' \in Tables /\ snapshotTables'.orders = x
      /\ snapshotTables'.current = snapshotTables.current
      /\ snapshotTables'.snapshots = snapshotTables.snapshots
  <2> HIDE DEF x
  <2> QED BY <1>1, <1>3, <1>4, TablesAre
<1>6. "orders" \in Steps
  BY DEF Steps
<1>7. livePoll' = [livePoll EXCEPT ![p].at = "orders"] /\ soloPoll' = soloPoll
      /\ accountStage' = accountStage /\ currentDate' = currentDate
  BY DEF ClearsOrders, NextSave
<1>8. /\ livePoll' \in [Pollers -> PollStates]
      /\ \A q \in Pollers \ {p} : livePoll'[q] = livePoll[q]
      /\ livePoll'[p].at = "orders" /\ livePoll'[p].seen = m.seen
      /\ livePoll'[p].day = m.day /\ livePoll'[p].broke = m.broke
  BY <1>1, <1>6, <1>7, StepIs
<1> HIDE DEF x
<1>9. ASSUME soloPoll = p, p # "none", ~livePoll'[p].broke
      PROVE  Saved(livePoll'[p], snapshotTables')
  <2>1. Saved(m, snapshotTables)
    BY <1>8, <1>9, SavedBefore
  <2> QED BY <1>1, <1>3, <1>5, <1>8, <2>1 DEF Saved
<1> QED BY <1>1, <1>5, <1>7, <1>8, <1>9, TheOtherRest

LEMMA OrdersSaved ==
    ASSUME SoloInv, NEW p \in Pollers, SavesOrders(p)
    PROVE  SoloInv'
<1> DEFINE m == livePoll[p]
           rows == RowsOf(p, m.seen.orders)
           x == snapshotTables.orders \o rows
<1>1. SnapshotTypes /\ m \in PollStates /\ snapshotTables \in Tables /\ m.at = "orders"
  BY DEF SoloInv, SnapshotTypes, SavesOrders, Saving
<1>2. snapshotTables.orders \in Seq(DatedRows(Nat))
  BY <1>1 DEF Tables
<1>3. rows \in Seq(DatedRows(Nat)) /\ AllOf(rows, m.day) /\ Values(rows) = m.seen.orders
  BY <1>1, OrderRowsAre
<1> HIDE DEF rows
<1>4. x \in Seq(DatedRows(Nat))
  BY <1>2, <1>3
<1>5. snapshotTables' = [snapshotTables EXCEPT !["orders"] = x]
  BY DEF SavesOrders, rows
<1>6. snapshotTables' \in Tables /\ snapshotTables'.orders = x
      /\ snapshotTables'.current = snapshotTables.current
      /\ snapshotTables'.snapshots = snapshotTables.snapshots
  <2> HIDE DEF x
  <2> QED BY <1>1, <1>4, <1>5, TablesAre
<1>7. "clear_holdings" \in Steps
  BY DEF Steps
<1>8. livePoll' = [livePoll EXCEPT ![p].at = "clear_holdings"] /\ soloPoll' = soloPoll
      /\ accountStage' = accountStage /\ currentDate' = currentDate
  BY DEF SavesOrders, NextSave
<1>9. /\ livePoll' \in [Pollers -> PollStates]
      /\ \A q \in Pollers \ {p} : livePoll'[q] = livePoll[q]
      /\ livePoll'[p].at = "clear_holdings" /\ livePoll'[p].seen = m.seen
      /\ livePoll'[p].day = m.day /\ livePoll'[p].broke = m.broke
  BY <1>1, <1>7, <1>8, StepIs
<1>10. ASSUME soloPoll = p, p # "none", ~livePoll'[p].broke
       PROVE  Saved(livePoll'[p], snapshotTables')
  <2>1. Saved(m, snapshotTables)
    BY <1>9, <1>10, SavedBefore
  <2>2. NoneOf(snapshotTables.orders, m.day)
    BY <1>1, <2>1 DEF Saved
  <2>3. ValuesOf(x, m.day) = m.seen.orders
    BY <1>2, <1>3, <2>2, ValuesAfterNone
  <2> HIDE DEF x
  <2> QED BY <1>1, <1>6, <1>9, <2>1, <2>3 DEF Saved
<1> HIDE DEF x
<1> QED BY <1>1, <1>6, <1>8, <1>9, <1>10, TheOtherRest

LEMMA HoldingsCleared ==
    ASSUME SoloInv, NEW p \in Pollers, ClearsHoldings(p)
    PROVE  SoloInv'
<1> DEFINE m == livePoll[p]
           x == WithoutDay(snapshotTables.holdings, m.day)
<1>1. SnapshotTypes /\ m \in PollStates /\ snapshotTables \in Tables /\ m.at = "clear_holdings"
  BY DEF SoloInv, SnapshotTypes, ClearsHoldings, Saving
<1>2. snapshotTables.holdings \in Seq(DatedHoldings)
  BY <1>1 DEF Tables
<1>3. x \in Seq(DatedHoldings) /\ NoneOf(x, m.day)
  BY <1>2, WithoutDayIs
<1>4. snapshotTables' = [snapshotTables EXCEPT !["holdings"] = x]
  BY DEF ClearsHoldings
<1>5. snapshotTables' \in Tables /\ snapshotTables'.holdings = x
      /\ snapshotTables'.current = snapshotTables.current
      /\ snapshotTables'.snapshots = snapshotTables.snapshots
      /\ snapshotTables'.orders = snapshotTables.orders
  <2> HIDE DEF x
  <2> QED BY <1>1, <1>3, <1>4, TablesAre
<1>6. "holdings" \in Steps
  BY DEF Steps
<1>7. livePoll' = [livePoll EXCEPT ![p].at = "holdings"] /\ soloPoll' = soloPoll
      /\ accountStage' = accountStage /\ currentDate' = currentDate
  BY DEF ClearsHoldings, NextSave
<1>8. /\ livePoll' \in [Pollers -> PollStates]
      /\ \A q \in Pollers \ {p} : livePoll'[q] = livePoll[q]
      /\ livePoll'[p].at = "holdings" /\ livePoll'[p].seen = m.seen
      /\ livePoll'[p].day = m.day /\ livePoll'[p].broke = m.broke
  BY <1>1, <1>6, <1>7, StepIs
<1> HIDE DEF x
<1>9. ASSUME soloPoll = p, p # "none", ~livePoll'[p].broke
      PROVE  Saved(livePoll'[p], snapshotTables')
  <2>1. Saved(m, snapshotTables)
    BY <1>8, <1>9, SavedBefore
  <2> QED BY <1>1, <1>3, <1>5, <1>8, <2>1 DEF Saved
<1> QED BY <1>1, <1>5, <1>7, <1>8, <1>9, TheOtherRest

LEMMA HoldingsSaved ==
    ASSUME SoloInv, NEW p \in Pollers, NEW later \in BOOLEAN, SavesHoldings(p, later)
    PROVE  SoloInv'
<1> DEFINE m == livePoll[p]
           rows == HoldingRows(p)
           old == snapshotTables.holdings
           x == IF rows = <<>> THEN old ELSE Aged(old, later) \o rows
<1>1. SnapshotTypes /\ m \in PollStates /\ snapshotTables \in Tables /\ m.at = "holdings"
  BY DEF SoloInv, SnapshotTypes, SavesHoldings, Saving
<1>2. old \in Seq(DatedHoldings)
  BY <1>1 DEF Tables
<1>3. /\ rows \in Seq(DatedHoldings) /\ AllOf(rows, m.day)
      /\ \A i \in DOMAIN rows : ~rows[i].old
      /\ Values(rows) = m.seen.holdings
  BY <1>1, HoldingRowsAre
<1>4. snapshotTables' = [snapshotTables EXCEPT !["holdings"] = x]
  BY DEF SavesHoldings
<1> HIDE DEF rows, old
<1>6. Aged(old, later) \in Seq(DatedHoldings)
  BY <1>2, AgedIs
<1>7. x \in Seq(DatedHoldings)
  BY <1>2, <1>3, <1>6
<1>8. snapshotTables' \in Tables /\ snapshotTables'.holdings = x
      /\ snapshotTables'.current = snapshotTables.current
      /\ snapshotTables'.snapshots = snapshotTables.snapshots
      /\ snapshotTables'.orders = snapshotTables.orders
  <2> HIDE DEF x
  <2> QED BY <1>1, <1>4, <1>7, TablesAre
<1>9. "file" \in Steps
  BY DEF Steps
<1>10. livePoll' = [livePoll EXCEPT ![p].at = "file"] /\ soloPoll' = soloPoll
       /\ accountStage' = accountStage /\ currentDate' = currentDate
  BY DEF SavesHoldings, NextSave
<1>11. /\ livePoll' \in [Pollers -> PollStates]
       /\ \A q \in Pollers \ {p} : livePoll'[q] = livePoll[q]
       /\ livePoll'[p].at = "file" /\ livePoll'[p].seen = m.seen
       /\ livePoll'[p].day = m.day /\ livePoll'[p].broke = m.broke
  BY <1>1, <1>9, <1>10, StepIs
<1>12. ASSUME soloPoll = p, p # "none", ~livePoll'[p].broke
       PROVE  Saved(livePoll'[p], snapshotTables')
  <2>1. Saved(m, snapshotTables)
    BY <1>11, <1>12, SavedBefore
  <2>2. NoneOf(old, m.day)
    BY <1>1, <2>1 DEF Saved, old
  <2>3. \E s \in Seq(DatedHoldings) : NoneOf(s, m.day) /\ x = s \o rows
    <3>1. CASE rows = <<>>
      <4>1. x = old \o rows
        BY <1>2, <3>1
      <4> QED BY <1>2, <2>2, <4>1
    <3>2. CASE rows # <<>>
      <4>1. NoneOf(Aged(old, later), m.day)
        BY <1>2, <2>2, AgedIs
      <4> QED BY <1>6, <3>2, <4>1
    <3> QED BY <3>1, <3>2
  <2>4. ValuesOf(x, m.day) = m.seen.holdings /\ ValuesOf(Recent(x), m.day) = m.seen.holdings
    <3> HIDE DEF x
    <3>1. PICK s \in Seq(DatedHoldings) : NoneOf(s, m.day) /\ x = s \o rows
      BY <2>3
    <3>2. ValuesOf(s \o rows, m.day) = Values(rows)
      BY <1>3, <3>1, ValuesAfterNone
    <3>3. ValuesOf(Recent(s \o rows), m.day) = Values(rows)
      BY <1>3, <3>1, RecentAfterNone
    <3> QED BY <1>3, <3>1, <3>2, <3>3
  <2> HIDE DEF x
  <2> QED BY <1>1, <1>8, <1>11, <2>1, <2>4 DEF Saved
<1> HIDE DEF x
<1> QED BY <1>1, <1>8, <1>10, <1>11, <1>12, TheOtherRest

LEMMA NoPollIs ==
    /\ NoPoll \in PollStates /\ NoPoll.at = "idle"
    /\ NoAccount.orders \in Seq(Nat) /\ NoAccount.cash \in Int
    /\ NoAccount.holdings \in {h \in Seq(HeldItems) : OneRowEach(h)}
<1>1. <<>> \in Seq(Nat) /\ <<>> \in Seq(HeldItems) /\ OneRowEach(<<>>)
  BY DEF OneRowEach
<1>2. NoAccount \in Seen
  BY <1>1 DEF NoAccount, Seen
<1> QED BY <1>1, <1>2 DEF NoPoll, NoAccount, PollStates, Steps

\* A save that breaks off leaves tables of rows, and is known to have broken off.
LEMMA SaveBreaks ==
    ASSUME SoloInv, NEW p \in Pollers, NEW inserted \in Nat, SaveRaises(p, inserted)
    PROVE  SoloInv'
<1> DEFINE m == livePoll[p]
           half == [m EXCEPT !.at = "file"]
<1>1. SnapshotTypes /\ livePoll \in [Pollers -> PollStates] /\ m \in PollStates
      /\ snapshotTables \in Tables /\ m.at # "idle"
  BY DEF SoloInv, SnapshotTypes, SaveRaises
<1>2. snapshotTables.orders \in Seq(DatedRows(Nat))
      /\ snapshotTables.holdings \in Seq(DatedHoldings)
  BY <1>1 DEF Tables
<1>3. \A R : \A rows \in Seq(R) : inserted < Len(rows) => SubSeq(rows, 1, inserted) \in Seq(R)
  OBVIOUS
<1>4. snapshotTables' \in Tables
  <2>1. CASE Saving(p, "orders") /\ inserted < Len(m.seen.orders)
    <3> DEFINE rows == RowsOf(p, m.seen.orders)
               x == snapshotTables.orders \o SubSeq(rows, 1, inserted)
    <3>1. rows \in Seq(DatedRows(Nat)) /\ Len(rows) = Len(m.seen.orders)
      BY <1>1, OrderRowsAre
    <3>2. snapshotTables' = [snapshotTables EXCEPT !["orders"] = x]
      <4>1. ~(Saving(p, "holdings") /\ inserted < Len(HoldingRows(p)))
        BY <2>1 DEF Saving
      <4> QED BY <2>1, <4>1 DEF SaveRaises
    <3> HIDE DEF rows
    <3>3. SubSeq(rows, 1, inserted) \in Seq(DatedRows(Nat))
      BY <1>3, <2>1, <3>1
    <3>4. x \in Seq(DatedRows(Nat))
      BY <1>2, <3>3
    <3> HIDE DEF x
    <3> QED BY <1>1, <3>2, <3>4, TablesAre
  <2>2. CASE Saving(p, "holdings") /\ inserted < Len(HoldingRows(p))
    <3> DEFINE rows == HoldingRows(p)
               x == snapshotTables.holdings \o SubSeq(rows, 1, inserted)
    <3>1. rows \in Seq(DatedHoldings)
      BY <1>1, HoldingRowsAre
    <3>2. snapshotTables' = [snapshotTables EXCEPT !["holdings"] = x]
      <4>1. ~(Saving(p, "orders") /\ inserted < Len(m.seen.orders))
        BY <2>2 DEF Saving
      <4> QED BY <2>2, <4>1 DEF SaveRaises
    <3>5. inserted < Len(rows)
      BY <2>2
    <3> HIDE DEF rows
    <3>3. SubSeq(rows, 1, inserted) \in Seq(DatedHoldings)
      BY <1>3, <3>1, <3>5
    <3>4. x \in Seq(DatedHoldings)
      BY <1>2, <3>3
    <3> HIDE DEF x
    <3> QED BY <1>1, <3>2, <3>4, TablesAre
  <2>3. CASE ~(Saving(p, "orders") /\ inserted < Len(m.seen.orders))
             /\ ~(Saving(p, "holdings") /\ inserted < Len(HoldingRows(p)))
    BY <1>1, <2>3 DEF SaveRaises
  <2> QED BY <2>1, <2>2, <2>3
<1>5. half \in PollStates /\ half.at = "file"
  BY <1>1 DEF PollStates, Steps
<1>6. livePoll'[p] = [half EXCEPT !.broke = TRUE]
      /\ livePoll' = [q \in Pollers |-> livePoll'[q]]
      /\ \A q \in Pollers \ {p} : livePoll'[q] = livePoll[q]
  BY <1>1 DEF SaveRaises
<1> HIDE DEF half
<1>7. livePoll'[p] \in PollStates /\ livePoll'[p].at = "file" /\ livePoll'[p].broke = TRUE
  BY <1>5, <1>6 DEF PollStates
<1>8. \A q \in Pollers : livePoll'[q] \in PollStates
  BY <1>1, <1>6, <1>7
<1>9. livePoll' \in [Pollers -> PollStates]
  BY <1>6, <1>8
<1>10. soloPoll' = soloPoll /\ accountStage' = accountStage /\ currentDate' = currentDate
  BY DEF SaveRaises
<1> QED BY <1>1, <1>4, <1>6, <1>7, <1>9, <1>10, TheOtherRest

LEMMA FileWritten ==
    ASSUME SoloInv, NEW p \in Pollers, NEW written \in BOOLEAN, WritesFile(p, written)
    PROVE  SoloInv'
<1> DEFINE m == livePoll[p]
           half == [m EXCEPT !.at = "idle"]
<1>1. SnapshotTypes /\ livePoll \in [Pollers -> PollStates] /\ m \in PollStates
      /\ snapshotTables' = snapshotTables /\ snapshotTables \in Tables /\ m.at = "file"
  BY DEF SoloInv, SnapshotTypes, WritesFile, Saving
<1>2. /\ half \in PollStates /\ half.at = "idle" /\ half.seen = m.seen /\ half.broke = m.broke
      /\ half.day = m.day
  BY <1>1 DEF PollStates, Steps
<1>3. livePoll'[p] = (IF soloPoll = p THEN [half EXCEPT !.written = written] ELSE NoPoll)
      /\ livePoll' = [q \in Pollers |-> livePoll'[q]]
      /\ \A q \in Pollers \ {p} : livePoll'[q] = livePoll[q]
  BY <1>1 DEF WritesFile
<1> HIDE DEF half
<1>4. NoPoll \in PollStates
  BY NoPollIs
<1>5. soloPoll = p =>
        /\ livePoll'[p] \in PollStates /\ livePoll'[p].at = "idle"
        /\ livePoll'[p].seen = m.seen /\ livePoll'[p].day = m.day
        /\ livePoll'[p].broke = m.broke /\ livePoll'[p].written = written
  BY <1>2, <1>3 DEF PollStates
<1>6. \A q \in Pollers : livePoll'[q] \in PollStates
  BY <1>1, <1>3, <1>4, <1>5
<1>7. livePoll' \in [Pollers -> PollStates]
  BY <1>3, <1>6
<1>8. soloPoll' = soloPoll /\ accountStage' = accountStage /\ currentDate' = currentDate
      /\ stateFile' = IF written THEN m.seen ELSE stateFile
  BY DEF WritesFile
<1>9. ASSUME soloPoll = p, p # "none", ~livePoll'[p].broke
      PROVE  Saved(livePoll'[p], snapshotTables')
  <2>1. Saved(m, snapshotTables)
    BY <1>5, <1>9, SavedBefore
  <2> QED BY <1>1, <1>5, <1>9, <2>1 DEF Saved
<1>10. soloPoll = p /\ livePoll'[p].written => stateFile' = livePoll'[p].seen
  BY <1>5, <1>8
<1> QED BY <1>1, <1>3, <1>7, <1>8, <1>9, <1>10, TheOtherRest

LEMMA AnswersAre ==
    ASSUME NEW n \in DOMAIN Stages, NEW unanswered
    PROVE  /\ Answered("orders", n, unanswered) \in Seq(Nat)
           /\ Answered("account", n, unanswered) \in Int
           /\ Answered("holdings", n, unanswered) \in {h \in Seq(HeldItems) : OneRowEach(h)}
<1>1. /\ Stages[n].orders \in Seq(Nat) /\ Stages[n].cash \in Int
      /\ Stages[n].holdings \in {h \in Seq(HeldItems) : OneRowEach(h)}
  <2>1. Stages[n] \in [cash : Nat, orders : Seq(Nat), holdings : Seq(HeldItems)]
    <3> DEFINE R == [cash : Nat, orders : Seq(Nat), holdings : Seq(HeldItems)]
    <3>1. Stages \in Seq(R)
      BY SnapshotAssumption
    <3> HIDE DEF R
    <3>2. Stages[n] \in R
      BY <3>1
    <3> QED BY <3>2 DEF R
  <2>2. OneRowEach(Stages[n].holdings)
    BY SnapshotAssumption DEF OneRowEach
  <2> QED BY <2>1, <2>2
<1>2. /\ NoAccount.orders \in Seq(Nat) /\ NoAccount.cash \in Int
      /\ NoAccount.holdings \in {h \in Seq(HeldItems) : OneRowEach(h)}
  BY NoPollIs
<1>3. PICK state : /\ state = IF "orders" \in unanswered THEN NoAccount ELSE Stages[n]
                   /\ state.orders \in Seq(Nat)
  BY <1>1, <1>2
<1>4. PICK money : /\ money = IF "account" \in unanswered THEN NoAccount ELSE Stages[n]
                   /\ money.cash \in Int
  BY <1>1, <1>2
<1>5. PICK owned : /\ owned = IF "holdings" \in unanswered THEN NoAccount ELSE Stages[n]
                   /\ owned.holdings \in {h \in Seq(HeldItems) : OneRowEach(h)}
  BY <1>1, <1>2
<1>6. Answered("orders", n, unanswered) = state.orders
  BY <1>3 DEF Answered
<1>7. Answered("account", n, unanswered) = money.cash
  BY <1>4 DEF Answered
<1>8. Answered("holdings", n, unanswered) = owned.holdings
  BY <1>5 DEF Answered
<1> QED BY <1>3, <1>4, <1>5, <1>6, <1>7, <1>8

LEMMA PollBegins ==
    ASSUME SoloInv, NEW p \in Pollers, NEW later \in DOMAIN Stages, NEW unanswered,
           Polls(p, later, unanswered)
    PROVE  SoloInv'
<1> DEFINE others == {q \in Pollers \ {p} : livePoll[q].at # "idle"}
           seen == [orders |-> Answered("orders", accountStage, unanswered),
                    cash |-> Answered("account", later, unanswered),
                    holdings |-> Answered("holdings", later, unanswered)]
           half == [NoPoll EXCEPT !.at = "current"]
           begun == [half EXCEPT !.seen = seen]
<1>1. SnapshotTypes /\ livePoll \in [Pollers -> PollStates] /\ accountStage \in DOMAIN Stages
  BY DEF SoloInv, SnapshotTypes
<1>2. seen \in Seen
  <2>1. Answered("orders", accountStage, unanswered) \in Seq(Nat)
    BY <1>1, AnswersAre
  <2>2. Answered("account", later, unanswered) \in Int
        /\ Answered("holdings", later, unanswered) \in {h \in Seq(HeldItems) : OneRowEach(h)}
    BY AnswersAre
  <2> QED BY <2>1, <2>2 DEF Seen
<1>3. livePoll' = [q \in Pollers |-> CASE q = p -> begun
                                       [] q \in others -> livePoll[q]
                                       [] OTHER -> NoPoll]
  BY DEF Polls
<1>4. soloPoll' = IF others = {} THEN p ELSE "none"
  BY DEF Polls
<1>5. NoPoll \in PollStates /\ NoPoll.at = "idle"
  BY NoPollIs
<1>6. half \in PollStates /\ half.at = "current"
  BY <1>5 DEF PollStates, Steps
<1> HIDE DEF seen, half
<1>7. begun \in PollStates /\ begun.at = "current"
  BY <1>2, <1>6 DEF PollStates
<1> HIDE DEF begun
<1>8. livePoll'[p] = begun
      /\ \A q \in Pollers \ {p} : livePoll'[q] = IF q \in others THEN livePoll[q] ELSE NoPoll
  BY <1>3
<1>9. livePoll' \in [Pollers -> PollStates]
  <2>1. \A q \in Pollers : livePoll'[q] \in PollStates
    BY <1>1, <1>5, <1>7, <1>8
  <2>2. livePoll' = [q \in Pollers |-> livePoll'[q]]
    BY <1>3
  <2> QED BY <2>1, <2>2
<1>10. SnapshotTypes'
  BY <1>1, <1>4, <1>9 DEF SnapshotTypes, Polls
<1>11. ASSUME soloPoll' # "none"
       PROVE  /\ soloPoll' = p /\ OthersRest'
  <2>1. others = {} /\ soloPoll' = p
    BY <1>4, <1>11
  <2> QED BY <1>5, <1>8, <2>1 DEF OthersRest
<1>12. Saved(begun, snapshotTables')
  BY <1>7 DEF Saved
<1> QED BY <1>7, <1>8, <1>10, <1>11, <1>12 DEF SoloInv

LEMMA DateChanges == ASSUME SoloInv, DayPasses PROVE SoloInv'
<1>1. SnapshotTypes'
  BY SnapshotAssumption DEF SoloInv, SnapshotTypes, DayPasses
<1>2. livePoll' = livePoll /\ snapshotTables' = snapshotTables /\ soloPoll' = soloPoll
      /\ stateFile' = stateFile
  BY DEF DayPasses
<1> QED BY <1>1, <1>2 DEF SoloInv, OthersRest

LEMMA SnapshotStart == SnapshotInit => SoloInv
<1> SUFFICES ASSUME SnapshotInit PROVE SoloInv
  OBVIOUS
<1>1. snapshotTables \in Tables
  BY SnapshotAssumption DEF SnapshotInit, Tables
<1>2. accountStage \in DOMAIN Stages
  <2> DEFINE R == [cash : Nat, orders : Seq(Nat), holdings : Seq(HeldItems)]
  <2>1. Stages \in Seq(R) /\ Stages # <<>>
    BY SnapshotAssumption
  <2> HIDE DEF R
  <2>2. 1 \in DOMAIN Stages
    BY <2>1
  <2> QED BY <2>2 DEF SnapshotInit
<1>3. livePoll \in [Pollers -> PollStates] /\ soloPoll = "none" /\ currentDate \in Nat
  BY NoPollIs DEF SnapshotInit
<1> QED BY <1>1, <1>2, <1>3 DEF SoloInv, SnapshotTypes

LEMMA SnapshotStep == SoloInv /\ [SnapshotNext]_snapshotVars => SoloInv'
<1> SUFFICES ASSUME SoloInv, [SnapshotNext]_snapshotVars PROVE SoloInv'
  OBVIOUS
<1>1. CASE DayPasses
  BY <1>1, DateChanges
<1>2. ASSUME NEW p \in Pollers, NEW later \in DOMAIN Stages, NEW unanswered \in Outages,
             Polls(p, later, unanswered)
      PROVE  SoloInv'
  BY <1>2, PollBegins
<1>3. ASSUME NEW p \in Pollers, StartsSaving(p) PROVE SoloInv'
  BY <1>3, SaveStarts
<1>4. ASSUME NEW p \in Pollers, SavesSnapshot(p) PROVE SoloInv'
  BY <1>4, SnapshotSaved
<1>5. ASSUME NEW p \in Pollers, ClearsOrders(p) PROVE SoloInv'
  BY <1>5, OrdersCleared
<1>6. ASSUME NEW p \in Pollers, SavesOrders(p) PROVE SoloInv'
  BY <1>6, OrdersSaved
<1>7. ASSUME NEW p \in Pollers, ClearsHoldings(p) PROVE SoloInv'
  BY <1>7, HoldingsCleared
<1>8. ASSUME NEW p \in Pollers, NEW later \in BOOLEAN, SavesHoldings(p, later) PROVE SoloInv'
  BY <1>8, HoldingsSaved
<1>9. ASSUME NEW p \in Pollers,
             NEW inserted \in 0 .. Len(livePoll[p].seen.orders) + Len(livePoll[p].seen.holdings),
             SaveRaises(p, inserted)
      PROVE  SoloInv'
  <2>1. inserted \in Nat
    OBVIOUS
  <2> QED BY <1>9, <2>1, SaveBreaks
<1>10. ASSUME NEW p \in Pollers, NEW written \in BOOLEAN, WritesFile(p, written) PROVE SoloInv'
  BY <1>10, FileWritten
<1>11. CASE UNCHANGED snapshotVars
  <2>1. livePoll' = livePoll /\ snapshotTables' = snapshotTables /\ soloPoll' = soloPoll
        /\ stateFile' = stateFile /\ accountStage' = accountStage /\ currentDate' = currentDate
    BY <1>11 DEF snapshotVars
  <2> QED BY <2>1 DEF SoloInv, OthersRest, SnapshotTypes
<1> QED BY <1>1, <1>2, <1>3, <1>4, <1>5, <1>6, <1>7, <1>8, <1>9, <1>10, <1>11 DEF SnapshotNext

\* A poll that has ended is on the pages.
LEMMA ShownWhenSaved == SoloInv => PolledIsShown
<1> SUFFICES ASSUME SoloInv, soloPoll # "none", livePoll[soloPoll].at = "idle"
             PROVE  LET mine == livePoll[soloPoll]
                        held == ToSet(mine.seen.holdings) IN
                    /\ mine.written => stateFile = mine.seen
                    /\ ~mine.broke
                       => /\ HistoryAccount(mine.day) = mine.seen.cash
                          /\ HistoryOrders(mine.day) = Reverse(mine.seen.orders)
                          /\ HistoryHoldings(mine.day) = held
                    /\ (~mine.broke /\ mine.written /\ mine.day = currentDate)
                       => /\ \A failing \in SUBSET TableQueries : ShownAccount(failing) = mine.seen.cash
                          /\ LatestOrders({}) = Reverse(mine.seen.orders)
                          /\ LatestHoldings({}) = held
  BY DEF PolledIsShown
<1> DEFINE m == livePoll[soloPoll]
           h == m.seen.holdings
<1>1. m.written => stateFile = m.seen
  BY DEF SoloInv
<1>2. m \in PollStates /\ h \in Seq(HeldItems) /\ OneRowEach(h)
  BY DEF SoloInv, SnapshotTypes, PollStates, Seen
<1>3. NewestPerTicker(h) = ToSet(h)
  <2> HIDE DEF m, h
  <2>1. DOMAIN h = 1 .. Len(h) /\ Len(h) \in Nat
    BY <1>2
  <2>2. \A i \in DOMAIN h : \A k \in i + 1 .. Len(h) : h[k].ticker # h[i].ticker
    <3>1. ASSUME NEW i \in DOMAIN h, NEW k \in i + 1 .. Len(h), h[k].ticker = h[i].ticker
          PROVE  FALSE
      <4>1. k \in DOMAIN h /\ k # i
        BY <2>1
      <4> QED BY <1>2, <3>1, <4>1 DEF OneRowEach
    <3> QED BY <3>1
  <2> QED BY <2>2 DEF NewestPerTicker, ToSet
<1>4. ASSUME ~m.broke
      PROVE  /\ snapshotTables.current = <<[day |-> m.day, value |-> m.seen.cash]>>
             /\ ValuesOf(snapshotTables.snapshots, m.day) # <<>>
             /\ Last(ValuesOf(snapshotTables.snapshots, m.day)) = m.seen.cash
             /\ ValuesOf(snapshotTables.orders, m.day) = m.seen.orders
             /\ ValuesOf(snapshotTables.holdings, m.day) = h
             /\ ValuesOf(Recent(snapshotTables.holdings), m.day) = h
  BY <1>4 DEF SoloInv, Saved
<1>5. ASSUME ~m.broke
      PROVE  /\ HistoryAccount(m.day) = m.seen.cash
             /\ HistoryOrders(m.day) = Reverse(m.seen.orders)
             /\ HistoryHoldings(m.day) = ToSet(h)
  BY <1>3, <1>4, <1>5 DEF HistoryAccount, HistoryOrders, HistoryHoldings
<1>6. ASSUME ~m.broke, m.written, m.day = currentDate, NEW failing \in SUBSET TableQueries
      PROVE  ShownAccount(failing) = m.seen.cash
  <2>1. HistoryAccount(currentDate) = m.seen.cash /\ stateFile.cash = m.seen.cash
    BY <1>1, <1>5, <1>6
  <2>2. snapshotTables.current # <<>> /\ snapshotTables.current[1].value = m.seen.cash
    BY <1>4, <1>6
  <2>3. LatestAccount(failing) = m.seen.cash \/ LatestAccount(failing) = NoCash
    BY <2>1, <2>2 DEF LatestAccount
  <2> QED BY <2>1, <2>3 DEF ShownAccount
<1>7. ASSUME ~m.broke, m.written, m.day = currentDate
      PROVE  LatestOrders({}) = Reverse(m.seen.orders) /\ LatestHoldings({}) = ToSet(h)
  <2>1. LatestOrders({}) = Reverse(m.seen.orders)
    BY <1>5, <1>7 DEF LatestOrders
  <2>2. LatestHoldings({}) = NewestPerTicker(ValuesOf(Recent(snapshotTables.holdings), currentDate))
    BY DEF LatestHoldings, Recent
  <2> QED BY <1>3, <1>4, <1>7, <2>1, <2>2
<1> QED BY <1>1, <1>5, <1>6, <1>7

(* A poll that met no other has saved, up to where it is, exactly what it  *)
(* read (scheduler_state.write_live_state and the save methods of          *)
(* repositories.py), however the polls before it overlapped or broke off:  *)
(* the invariant that PolledIsShown rests on.                              *)
THEOREM SoloInductive == SnapshotSpec => []SoloInv
  BY SnapshotStart, SnapshotStep, PTL DEF SnapshotSpec

(* After such a poll the file, the page of today and the page of its date  *)
(* show exactly what it read: for any jobs, any accounts, whatever earlier *)
(* polls left in the tables, any dates and any number of polls.            *)
THEOREM PolledIsShownHolds == SnapshotSpec => []PolledIsShown
  BY SoloInductive, ShownWhenSaved, PTL
=============================================================================
