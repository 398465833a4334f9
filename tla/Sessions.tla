------------------------------ MODULE Sessions ------------------------------
(***************************************************************************)
(* One e-mail address and the accounts it names over time: sign-up with    *)
(* its trial, sign-in, token refresh, logout, password change and reset,   *)
(* suspension by administrators with its audit trail, deletion.            *)
(*                                                                         *)
(* Every handler reads the user row, works (hashing, signing) and writes    *)
(* one row by id: each read and each write is a step, and others interleave.*)
(* Signed tokens live with the client: `issued` holds what was handed out.  *)
(* A stored refresh token is a bcrypt hash, which compares 72 bytes; the    *)
(* tokens of one account agree in those, so a presented token matches       *)
(* whenever a hash is stored.  Mail and formatting are left out.            *)
(***************************************************************************)
EXTENDS Integers, Sequences, FiniteSets

CONSTANTS
    Callers,      \* concurrent HTTP requests
    Passwords,
    AccessLife, RefreshLife, ResetLife,   \* in ticks of the clock
    MaxClock,     \* bound on time
    MaxOps,       \* bound: requests started in a behaviour
    None          \* model value: no account, no trial

Account == [id : Nat, born : Nat, password : Passwords, stored : BOOLEAN,
            reset : Nat, resetAt : Nat, suspended : BOOLEAN]

ASSUME SessionsAssumption ==
    /\ AccessLife \in Nat /\ RefreshLife \in Nat /\ ResetLife \in Nat
    /\ MaxClock \in Nat /\ MaxOps \in Nat
    /\ None \notin Account /\ None \notin Nat

VARIABLES
    account,      \* the User row of the address, or None
    trial,        \* trialStartedAt of its UserSubscription row, or None
    issued,       \* tokens handed to clients: account id and time
    audit,        \* AuditLog entries of status changes
    clock,
    call,         \* what each request has read
    ops,          \* requests started so far
    accounts,     \* accounts created so far: the last id
    overlapped,   \* history: two requests have been open at the same time
    unlogged,     \* history: a status change lost its audit entry
    live,         \* history: accounts whose last session was not ended
    asked,        \* history: reset tokens made, for which account and when
    resets        \* history: reset tokens used, on which account and found when

tables == <<account, trial, issued, audit, accounts>>
history == <<unlogged, live, asked, resets>>
vars == <<tables, clock, call, ops, overlapped, history>>

Token == [sub : Nat, at : Nat]
Names(id) == account # None /\ account.id = id

Idle == [pc |-> "idle", sub |-> 0, token |-> 0, at |-> 0, flag |-> FALSE,
         pw |-> CHOOSE p \in Passwords : TRUE]
Open == {c \in Callers : call[c].pc # "idle"}

Counts ==
    /\ ops < MaxOps /\ ops' = ops + 1
    /\ overlapped' = (overlapped \/ Open # {})
Starts(c, q) ==
    /\ call[c].pc = "idle" /\ Counts
    /\ call' = [call EXCEPT ![c] = q]
AtOnce == Counts /\ UNCHANGED call
Goes(c, pc) == call' = [call EXCEPT ![c].pc = pc] /\ UNCHANGED <<ops, overlapped>>
Ends(c) == call' = [call EXCEPT ![c] = Idle] /\ UNCHANGED <<ops, overlapped>>

Holds(id, life) == \E t \in issued : t.sub = id /\ clock < t.at + life

-----------------------------------------------------------------------------
(* signUp: the address is checked, the row inserted under its unique e-mail, *)
(* then the trial, then the session.                                        *)
SignUp(c, pw) ==
    /\ account = None
    /\ Starts(c, [Idle EXCEPT !.pc = "insert", !.pw = pw])
    /\ UNCHANGED <<tables, clock, history>>

InsertUser(c) ==
    /\ call[c].pc = "insert"
    /\ IF account = None
         THEN /\ accounts' = accounts + 1
              /\ account' = [id |-> accounts + 1, born |-> clock,
                             password |-> call[c].pw, stored |-> FALSE,
                             reset |-> 0, resetAt |-> 0, suspended |-> FALSE]
              /\ call' = [call EXCEPT ![c].pc = "trial", ![c].sub = accounts + 1]
              /\ UNCHANGED <<ops, overlapped>>
         ELSE Ends(c) /\ UNCHANGED <<account, accounts>>
    /\ UNCHANGED <<trial, issued, audit, clock, history>>

(* Mutant: the trial of a signed-up account starts again.                   *)
TrialOverwritten(start) == start

(* The upsert leaves a row that is there.                                   *)
TrialAfter(start) == IF trial = None THEN start ELSE trial

StartTrial(c) ==
    /\ call[c].pc = "trial"
    /\ IF Names(call[c].sub)
         THEN trial' = TrialAfter(clock) /\ Goes(c, "session")
         ELSE Ends(c) /\ UNCHANGED trial
    /\ UNCHANGED <<account, issued, audit, accounts, clock, history>>

(* resolveRow, on any gated request: a missing row is created with the      *)
(* account's own date; the unique user refuses a second one.                *)
ReadTrial(c) ==
    /\ trial = None /\ account # None /\ Holds(account.id, AccessLife)
    /\ Starts(c, [Idle EXCEPT !.pc = "resolve", !.sub = account.id,
                              !.at = account.born])
    /\ UNCHANGED <<tables, clock, history>>

CreateTrial(c) ==
    /\ call[c].pc = "resolve"
    /\ trial' = IF trial = None /\ Names(call[c].sub) THEN call[c].at ELSE trial
    /\ Ends(c)
    /\ UNCHANGED <<account, issued, audit, accounts, clock, history>>

-----------------------------------------------------------------------------
(* Sessions.                                                                *)
SignIn(c, pw) ==
    /\ account # None /\ ~account.suspended /\ pw = account.password
    /\ Starts(c, [Idle EXCEPT !.pc = "session", !.sub = account.id])
    /\ UNCHANGED <<tables, clock, history>>

(* refreshToken: the signature's age, the stored hash and the user.  The    *)
(* status of the account is not asked.                                      *)
Matches(t) == Names(t.sub) /\ account.stored

Refresh(c, t) ==
    /\ clock < t.at + RefreshLife /\ Matches(t)
    /\ Starts(c, [Idle EXCEPT !.pc = "rotate", !.sub = t.sub])
    /\ UNCHANGED <<tables, clock, history>>

(* generateTokens and updateRefreshToken.                                   *)
IssueSession(c) ==
    LET q == call[c]
    IN  /\ q.pc \in {"session", "rotate"}
        /\ IF Names(q.sub)
             THEN /\ account' = [account EXCEPT !.stored = TRUE]
                  /\ issued' = issued \cup {[sub |-> q.sub, at |-> clock]}
                  /\ live' = IF q.pc = "session" THEN live \cup {q.sub} ELSE live
             ELSE UNCHANGED <<account, issued, live>>
        /\ Ends(c)
        /\ UNCHANGED <<trial, audit, accounts, clock, unlogged, asked, resets>>

Logout ==
    /\ account # None /\ Holds(account.id, AccessLife) /\ AtOnce
    /\ account' = [account EXCEPT !.stored = FALSE]
    /\ live' = live \ {account.id}
    /\ UNCHANGED <<trial, issued, audit, accounts, clock, unlogged, asked, resets>>

-----------------------------------------------------------------------------
(* Passwords.  A new reset token replaces the old one, sent or not.         *)
ForgotPassword ==
    /\ account # None /\ AtOnce
    /\ account' = [account EXCEPT !.reset = ops + 1, !.resetAt = clock]
    /\ asked' = asked \cup {[token |-> ops + 1, sub |-> account.id, at |-> clock]}
    /\ UNCHANGED <<trial, issued, audit, accounts, clock, unlogged, live, resets>>

(* Mutants: the age of the token is not asked; a token that was replaced    *)
(* still finds the account.                                                 *)
FindsOldToken(token) == account # None /\ account.reset = token

FindsReplaced(token) ==
    /\ account # None /\ account.reset >= token
    /\ clock < account.resetAt + ResetLife

FindsToken(token) ==
    /\ account # None /\ account.reset = token
    /\ clock < account.resetAt + ResetLife

FindReset(c, token, pw) ==
    /\ FindsToken(token)
    /\ Starts(c, [Idle EXCEPT !.pc = "reset", !.sub = account.id,
                              !.token = token, !.at = clock, !.pw = pw])
    /\ UNCHANGED <<tables, clock, history>>

(* Mutant: the sessions of the old password stay.                           *)
ResetKeepsSession(pw) == [account EXCEPT !.password = pw, !.reset = 0]

AfterReset(pw) ==
    [account EXCEPT !.password = pw, !.stored = FALSE, !.reset = 0]

(* The row is written by id, whatever has become of the token since.        *)
WriteReset(c) ==
    LET q == call[c]
    IN  /\ q.pc = "reset"
        /\ IF Names(q.sub)
             THEN /\ account' = AfterReset(q.pw)
                  /\ live' = live \ {q.sub}
                  /\ resets' = Append(resets, [token |-> q.token, sub |-> q.sub,
                                               at |-> q.at])
             ELSE UNCHANGED <<account, live, resets>>
        /\ Ends(c)
        /\ UNCHANGED <<trial, issued, audit, accounts, clock, unlogged, asked>>

ChangePassword(c, old, pw) ==
    /\ account # None /\ Holds(account.id, AccessLife) /\ old = account.password
    /\ Starts(c, [Idle EXCEPT !.pc = "change", !.sub = account.id, !.pw = pw])
    /\ UNCHANGED <<tables, clock, history>>

WritePassword(c) ==
    /\ call[c].pc = "change"
    /\ account' = IF Names(call[c].sub) THEN [account EXCEPT !.password = call[c].pw]
                  ELSE account
    /\ Ends(c)
    /\ UNCHANGED <<trial, issued, audit, accounts, clock, history>>

(* deleteAccount: one transaction; the subscription row cascades.           *)
DeleteAccount ==
    /\ account # None /\ Holds(account.id, AccessLife) /\ AtOnce
    /\ account' = None /\ trial' = None /\ live' = live \ {account.id}
    /\ UNCHANGED <<issued, audit, accounts, clock, unlogged, asked, resets>>

-----------------------------------------------------------------------------
(* setUserStatus by an administrator: read, write, then the audit entry,    *)
(* whose failure is swallowed.                                              *)
ReadStatus(c, suspend) ==
    /\ account # None
    /\ Starts(c, [Idle EXCEPT !.pc = "status", !.sub = account.id, !.flag = suspend,
                              !.at = IF account.suspended THEN 1 ELSE 0])
    /\ UNCHANGED <<tables, clock, history>>

WriteStatus(c) ==
    /\ call[c].pc = "status"
    /\ IF Names(call[c].sub)
         THEN /\ account' = [account EXCEPT !.suspended = call[c].flag]
              /\ Goes(c, "audit")
         ELSE Ends(c) /\ UNCHANGED account
    /\ UNCHANGED <<trial, issued, audit, accounts, clock, history>>

(* Mutant: both values of the entry come from the written row.              *)
EntryAfterwards(q) == [sub |-> q.sub, before |-> q.flag, after |-> q.flag]

StatusEntry(q) == [sub |-> q.sub, before |-> q.at = 1, after |-> q.flag]

LogStatus(c) ==
    /\ call[c].pc = "audit"
    /\ \/ audit' = Append(audit, StatusEntry(call[c])) /\ UNCHANGED unlogged
       \/ UNCHANGED audit /\ unlogged' = TRUE
    /\ Ends(c)
    /\ UNCHANGED <<account, trial, issued, accounts, clock, live, asked, resets>>

-----------------------------------------------------------------------------
(* The process stops, or the client goes away, between two steps.           *)
Abandon(c) ==
    /\ call[c].pc # "idle"
    /\ unlogged' = (unlogged \/ call[c].pc = "audit")
    /\ Ends(c)
    /\ UNCHANGED <<tables, clock, live, asked, resets>>

Tick ==
    /\ clock < MaxClock /\ clock' = clock + 1
    /\ UNCHANGED <<tables, call, ops, overlapped, history>>

Init ==
    /\ account = None /\ trial = None /\ issued = {} /\ audit = <<>>
    /\ clock = 0 /\ call = [c \in Callers |-> Idle] /\ ops = 0 /\ accounts = 0
    /\ overlapped = FALSE /\ unlogged = FALSE /\ live = {}
    /\ asked = {} /\ resets = <<>>

Next ==
    \/ \E c \in Callers :
          \/ \E pw \in Passwords : SignUp(c, pw) \/ SignIn(c, pw)
          \/ \E token \in 1 .. ops, pw \in Passwords : FindReset(c, token, pw)
          \/ \E old, pw \in Passwords : ChangePassword(c, old, pw)
          \/ \E t \in issued : Refresh(c, t)
          \/ \E suspend \in BOOLEAN : ReadStatus(c, suspend)
          \/ InsertUser(c) \/ StartTrial(c) \/ ReadTrial(c) \/ CreateTrial(c)
          \/ IssueSession(c) \/ WriteReset(c) \/ WritePassword(c)
          \/ WriteStatus(c) \/ LogStatus(c) \/ Abandon(c)
    \/ Logout \/ ForgotPassword \/ DeleteAccount \/ Tick

Spec == Init /\ [][Next]_vars

-----------------------------------------------------------------------------
(* PROPERTIES                                                               *)

(* Types of the tables.                                                     *)
TypeOK ==
    /\ account # None => account \in Account /\ account.id = accounts
    /\ trial # None => trial \in 0 .. clock /\ account # None
    /\ issued \subseteq Token
    /\ \A t \in issued : t.sub \in 1 .. accounts /\ t.at <= clock
    /\ clock \in 0 .. MaxClock /\ ops \in 0 .. MaxOps

(* An account has at most one trial and it never restarts, whatever         *)
(* sign-up, crashes and lazy look-ups race; it starts with the account or   *)
(* later, never before.                                                     *)
TrialRunsOnce ==
    [][trial # None /\ account # None /\ account' # None /\ account'.id = account.id
          => trial' = trial /\ trial >= account.born]_vars

(* Until two requests overlap, a refresh finds a hash exactly while the     *)
(* account's last session has not been ended by a logout or a reset, and a  *)
(* session of a deleted account never opens its successor.                  *)
SessionsEnd ==
    ~overlapped => \A t \in issued : Matches(t) <=> t.sub \in live

(* A reset token changes the password of the account it was made for only,  *)
(* and was found while it was young, whatever overlaps; until two requests  *)
(* overlap it was the newest of its account, and used for the first time.   *)
ResetsOnce ==
    [][resets' # resets =>
         LET u == resets'[Len(resets')]
         IN  \E a \in asked :
                /\ a.token = u.token /\ a.sub = u.sub /\ u.at < a.at + ResetLife
                /\ ~overlapped =>
                      /\ \A b \in asked : b.sub = u.sub => b.token <= u.token
                      /\ \A i \in DOMAIN resets : resets[i].token # u.token]_vars

(* Until two requests overlap or an entry is lost, the audit trail of an    *)
(* account is a chain that ends in the status it has.                       *)
AuditChain ==
    ~overlapped /\ ~unlogged =>
        \A i \in DOMAIN audit :
            LET earlier == {j \in 1 .. i - 1 : audit[j].sub = audit[i].sub}
                later == {j \in i + 1 .. Len(audit) : audit[j].sub = audit[i].sub}
            IN  /\ earlier = {} => ~audit[i].before
                /\ \A j \in earlier :
                      (\A k \in earlier : k <= j) => audit[j].after = audit[i].before
                /\ later = {} /\ Names(audit[i].sub)
                      /\ (\A c \in Callers : call[c].pc # "audit")
                      => account.suspended = audit[i].after
=============================================================================
