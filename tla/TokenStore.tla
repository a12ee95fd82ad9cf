----------------------------- MODULE TokenStore -----------------------------
(***************************************************************************)
(* KIS access tokens: KisJsonClient.access_token (adapters/kis_http.py) of *)
(* several processes that share one app key, with the cache in SQL Server  *)
(* (kis_token_store.py) or, without KIS_TOKEN_STORE=db, in a file.  The    *)
(* margin is the same everywhere.  Loss of the database, of a connection   *)
(* that holds the lock and of a process may come between any two steps.    *)
(***************************************************************************)
EXTENDS Integers

CONSTANTS
    Servers,     \* processes with the app key
    Refreshers,  \* those with KIS_ALLOW_TOKEN_REFRESH
    Lifetime,    \* expires_in of an issued token
    Margin,      \* KIS_TOKEN_REFRESH_MARGIN_SECONDS
    LastSecond,  \* bound: clock
    MaxIssued    \* bound: tokens issued

ASSUME TokenAssumption ==
    /\ Refreshers \subseteq Servers /\ "nobody" \notin Servers
    /\ Lifetime \in Nat /\ Margin \in Nat
    /\ LastSecond \in Nat /\ MaxIssued \in Nat

VARIABLES
    storeKind,    \* "db" or "file"
    clock,        \* the time
    memoryToken,  \* _token of each process
    dbToken,      \* the row of dbo.KisTokenCache
    fileToken,    \* the file of the token cache
    refreshLock,  \* who holds the application lock
    tokenPc,      \* where access_token of a process is
    seenAt,       \* `now` of its access_token
    issuedToken,  \* the token it was just issued
    issued,       \* tokens issued
    fromFile      \* history: _token came from the file in spite of the database

tokenVars == <<storeKind, clock, memoryToken, dbToken, fileToken, refreshLock,
               tokenPc, seenAt, issuedToken, issued, fromFile>>

NoToken == [id |-> 0, expires_at |-> 0]
Tokens == [id : Nat, expires_at : Nat]
Nobody == "nobody"
TokenSteps == {"idle", "read", "lock", "waited", "locked", "issue", "upsert",
               "file_issue"}

TokenInit ==
    /\ storeKind = "unset" /\ clock = 0
    /\ memoryToken = [s \in Servers |-> NoToken]
    /\ dbToken = NoToken /\ fileToken = NoToken
    /\ refreshLock = Nobody
    /\ tokenPc = [s \in Servers |-> "idle"]
    /\ seenAt = [s \in Servers |-> 0]
    /\ issuedToken = [s \in Servers |-> NoToken]
    /\ issued = 0
    /\ fromFile = [s \in Servers |-> FALSE]

TokenTypeOK ==
    /\ storeKind \in {"unset", "db", "file"}
    /\ clock \in Nat /\ issued \in Nat
    /\ memoryToken \in [Servers -> Tokens]
    /\ dbToken \in Tokens /\ fileToken \in Tokens
    /\ refreshLock \in Servers \cup {Nobody}
    /\ tokenPc \in [Servers -> TokenSteps]
    /\ seenAt \in [Servers -> Nat]
    /\ issuedToken \in [Servers -> Tokens]
    /\ fromFile \in [Servers -> BOOLEAN]

-----------------------------------------------------------------------------
\* AccessToken.is_valid
IsValid(token, now, margin) == token # NoToken /\ now + margin < token.expires_at

MemoryIsValid(s) == IsValid(memoryToken[s], clock, Margin)

\* _read_cached_token: the margin is looked at later.
CachedToken == IF IsValid(fileToken, clock, 0) THEN fileToken ELSE NoToken

At(s, step) == tokenPc[s] = step
Goto(s, step) == tokenPc' = [tokenPc EXCEPT ![s] = step]
Remember(s, token) ==
    /\ memoryToken' = [memoryToken EXCEPT ![s] = token]
    /\ fromFile' = [fromFile EXCEPT ![s] = FALSE]
    /\ Goto(s, "idle")
Unlock(s) == refreshLock' = IF refreshLock = s THEN Nobody ELSE refreshLock

\* A call to the store that raises: the file, or a RuntimeError.
FallBack(s) ==
    /\ IF IsValid(CachedToken, seenAt[s], Margin)
       THEN /\ memoryToken' = [memoryToken EXCEPT ![s] = fileToken]
            /\ fromFile' = [fromFile EXCEPT ![s] = TRUE]
       ELSE UNCHANGED <<memoryToken, fromFile>>
    /\ Goto(s, "idle")

-----------------------------------------------------------------------------
\* The configuration of the processes; a file of an earlier run may be there.
Configured ==
    /\ storeKind = "unset" /\ storeKind' \in {"db", "file"}
    /\ \E left_over \in {NoToken, [id |-> 1, expires_at |-> Lifetime]} :
          fileToken' = left_over
    /\ issued' = 1
    /\ UNCHANGED <<clock, memoryToken, dbToken, refreshLock, tokenPc, seenAt,
                   issuedToken, fromFile>>

SecondPasses ==
    /\ storeKind # "unset" /\ clock < LastSecond /\ clock' = clock + 1
    /\ UNCHANGED <<storeKind, memoryToken, dbToken, fileToken, refreshLock,
                   tokenPc, seenAt, issuedToken, issued, fromFile>>

\* The next request finds no valid token in memory.
NeedsToken(s) ==
    /\ storeKind = "db" /\ At(s, "idle") /\ ~MemoryIsValid(s)
    /\ seenAt' = [seenAt EXCEPT ![s] = clock]
    /\ Goto(s, "read")
    /\ UNCHANGED <<storeKind, clock, memoryToken, dbToken, fileToken,
                   refreshLock, issuedToken, issued, fromFile>>

\* read_valid
ReadValid(s) ==
    /\ At(s, "read")
    /\ IF IsValid(dbToken, seenAt[s], Margin) THEN Remember(s, dbToken)
       ELSE /\ Goto(s, IF s \in Refreshers THEN "lock" ELSE "idle")
            /\ UNCHANGED <<memoryToken, fromFile>>
    /\ UNCHANGED <<storeKind, clock, dbToken, fileToken, refreshLock, seenAt,
                   issuedToken, issued>>

\* sp_getapplock, with the 10 seconds of its timeout
AcquireLock(s) ==
    /\ At(s, "lock")
    /\ \/ refreshLock = Nobody /\ refreshLock' = s /\ Goto(s, "locked")
       \/ refreshLock # Nobody /\ Goto(s, "waited") /\ UNCHANGED refreshLock
    /\ UNCHANGED <<storeKind, clock, memoryToken, dbToken, fileToken, seenAt,
                   issuedToken, issued, fromFile>>

\* After the second of sleep: another process may have refreshed the token.
ReadAfterWait(s) ==
    /\ At(s, "waited")
    /\ IF IsValid(dbToken, seenAt[s], Margin) THEN Remember(s, dbToken)
       ELSE FallBack(s)
    /\ UNCHANGED <<storeKind, clock, dbToken, fileToken, refreshLock, seenAt,
                   issuedToken, issued>>

Mutant_ReadLocked(s) ==           \* the token is not read again
    /\ At(s, "locked") /\ refreshLock = s
    /\ Goto(s, "issue")
    /\ UNCHANGED <<memoryToken, fromFile, refreshLock>>
    /\ UNCHANGED <<storeKind, clock, dbToken, fileToken, seenAt, issuedToken,
                   issued>>

\* The second look, under the lock.
ReadLocked(s) ==
    /\ At(s, "locked") /\ refreshLock = s
    /\ IF IsValid(dbToken, seenAt[s], Margin)
       THEN Remember(s, dbToken) /\ Unlock(s)
       ELSE Goto(s, "issue") /\ UNCHANGED <<memoryToken, fromFile, refreshLock>>
    /\ UNCHANGED <<storeKind, clock, dbToken, fileToken, seenAt, issuedToken,
                   issued>>

NewToken == [id |-> issued + 1, expires_at |-> clock + Lifetime]

\* _issue_access_token, for the database or for the file
Issue(s) ==
    /\ At(s, "issue") /\ issued < MaxIssued
    /\ issuedToken' = [issuedToken EXCEPT ![s] = NewToken]
    /\ issued' = issued + 1
    /\ Goto(s, "upsert")
    /\ UNCHANGED <<storeKind, clock, memoryToken, dbToken, fileToken,
                   refreshLock, seenAt, fromFile>>

\* _upsert and commit on the connection that holds the lock
Upsert(s) ==
    /\ At(s, "upsert") /\ refreshLock = s
    /\ dbToken' = issuedToken[s]
    /\ \/ Remember(s, issuedToken[s])
       \/ FallBack(s)             \* committed, but an exception follows
    /\ Unlock(s)
    /\ UNCHANGED <<storeKind, clock, fileToken, seenAt, issuedToken, issued>>

\* Any step of the store may raise, the issue of the token included.
StoreFails(s) ==
    /\ tokenPc[s] \in TokenSteps \ {"idle", "file_issue"}
    /\ FallBack(s) /\ Unlock(s)
    /\ UNCHANGED <<storeKind, clock, dbToken, fileToken, seenAt, issuedToken,
                   issued>>

\* The server drops the connection and with it the lock of its session.
ConnectionLost(s) ==
    /\ refreshLock = s /\ refreshLock' = Nobody
    /\ UNCHANGED <<storeKind, clock, memoryToken, dbToken, fileToken, tokenPc,
                   seenAt, issuedToken, issued, fromFile>>

ServerRestarts(s) ==
    /\ storeKind # "unset"
    /\ Remember(s, NoToken) /\ Unlock(s)
    /\ UNCHANGED <<storeKind, clock, dbToken, fileToken, seenAt, issuedToken,
                   issued>>

\* Without the database: the file is read only when there is no token yet.
FileAccess(s) ==
    /\ storeKind = "file" /\ At(s, "idle") /\ ~MemoryIsValid(s)
    /\ LET token == IF memoryToken[s] = NoToken THEN CachedToken
                    ELSE memoryToken[s]
       IN  /\ memoryToken' = [memoryToken EXCEPT ![s] = token]
           /\ Goto(s, IF ~IsValid(token, clock, Margin) /\ s \in Refreshers
                      THEN "file_issue" ELSE "idle")
    /\ UNCHANGED <<storeKind, clock, dbToken, fileToken, refreshLock, seenAt,
                   issuedToken, issued, fromFile>>

\* The file is overwritten, or the write raises after _token was assigned.
FileIssue(s) ==
    /\ At(s, "file_issue") /\ issued < MaxIssued
    /\ issued' = issued + 1
    /\ Remember(s, NewToken)
    /\ fileToken' \in {NewToken, fileToken}
    /\ UNCHANGED <<storeKind, clock, dbToken, refreshLock, seenAt, issuedToken>>

TokenNext ==
    \/ Configured \/ SecondPasses
    \/ \E s \in Servers :
          \/ NeedsToken(s) \/ ReadValid(s) \/ AcquireLock(s)
          \/ ReadAfterWait(s) \/ ReadLocked(s) \/ Issue(s) \/ Upsert(s)
          \/ StoreFails(s) \/ ConnectionLost(s) \/ ServerRestarts(s)
          \/ FileAccess(s) \/ FileIssue(s)

TokenSpec == TokenInit /\ [][TokenNext]_tokenVars

-----------------------------------------------------------------------------
(* The servers share one token (docs/kis_token_cache.md): with the store   *)
(* in the database, the valid tokens of any two processes are the same,    *)
(* although they look for one at the same time, wait for each other, lose  *)
(* the lock while the token is being issued, and act on an old `now`.      *)
(* Excluded by name: a token a process took from its file when the         *)
(* database failed.                                                        *)
ServersShareToken ==
    storeKind = "db" =>
        \A s, t \in Servers :
            /\ MemoryIsValid(s) /\ ~fromFile[s]
            /\ MemoryIsValid(t) /\ ~fromFile[t]
            => memoryToken[s] = memoryToken[t]
=============================================================================
