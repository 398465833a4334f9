---------------------------- MODULE SessionsProofs ----------------------------
(* For any number of requests, passwords, accounts and any clock: the trial  *)
(* of an account never restarts and never begins before it; and while        *)
(* requests do not overlap, refresh tokens, reset tokens and the audit trail *)
(* agree with the account row.                                               *)
EXTENDS Sessions, TLAPS

Fields == {"pc", "sub", "token", "at", "flag", "pw"}

(* Ids are given in order, so a request that outlives its account names no   *)
(* other; and who creates a missing trial does it with the account's date.   *)
CallFits(q) ==
    /\ q = [f \in Fields |-> q[f]]
    /\ q.sub \in Nat /\ q.sub <= accounts
    /\ q.pc \in {"insert", "reset", "change"} => q.pw \in Passwords
    /\ q.pc \in {"status", "audit"} => q.flag \in BOOLEAN
    /\ q.pc = "reset" => q.token \in Nat /\ q.at \in Nat
    /\ q.pc = "resolve" /\ Names(q.sub) => q.at = account.born
    /\ q.pc = "resolve" => q.at \in Nat /\ q.at <= clock

TrialInv ==
    /\ clock \in Nat /\ accounts \in Nat /\ ops \in Nat
    /\ account # None => /\ account \in Account /\ account.id = accounts
                         /\ account.born <= clock
    /\ trial # None => /\ account # None /\ trial \in Nat
                       /\ account.born <= trial /\ trial <= clock
    /\ call = [c \in Callers |-> call[c]]
    /\ \A c \in Callers : CallFits(call[c])

(* The row is still the account it was, or there is still none.             *)
SameAccount ==
    IF account = None THEN account' = None
    ELSE account' \in Account /\ account'.id = account.id /\ account'.born = account.born

(* A request before it begins.                                              *)
LEMMA IdleShape == Idle = [f \in Fields |-> Idle[f]]
  BY DEF Idle, Fields

(* A row with one more column written is a row.                             *)
LEMMA Written ==
    ASSUME NEW a \in Account
    PROVE  /\ \A v \in BOOLEAN : [a EXCEPT !.suspended = v] \in Account
           /\ \A v \in BOOLEAN : [a EXCEPT !.stored = v] \in Account
           /\ \A v, w \in Nat : [a EXCEPT !.reset = v, !.resetAt = w] \in Account
  BY DEF Account

(* A request before it begins owes nothing.                                 *)
LEMMA IdleFits == ASSUME TrialInv PROVE CallFits(Idle)
  BY DEF Idle, CallFits, Fields, TrialInv

(* A request goes on, begins or ends without starting a trial.              *)
LEMMA CallKeeps ==
    ASSUME TrialInv, NEW c \in Callers, NEW q, CallFits(q),
           call' = [call EXCEPT ![c] = q],
           clock' = clock, accounts' = accounts, ops' \in Nat, SameAccount,
           \/ trial' = trial
           \/ /\ account # None /\ trial' \in Nat
              /\ account.born <= trial' /\ trial' <= clock
    PROVE  TrialInv'
<1>1. \A o \in Callers : call'[o] = IF o = c THEN q ELSE call[o]
  BY DEF TrialInv
<1>2. \A o \in Callers : CallFits(call[o])'
  <2> SUFFICES ASSUME NEW o \in Callers PROVE CallFits(call[o])'
    OBVIOUS
  <2>1. CallFits(call'[o])
    BY <1>1 DEF TrialInv
  <2>2. \A id : Names(id)' <=> Names(id)
    BY SessionsAssumption DEF SameAccount, Names
  <2> QED
    BY <2>1, <2>2 DEF CallFits, Names, SameAccount
<1> QED
  BY <1>1, <1>2, SessionsAssumption DEF TrialInv, SameAccount

(* Nobody asks for anything, but the row may change.                        *)
LEMMA RowKeeps ==
    ASSUME TrialInv, call' = call, trial' = trial,
           clock' = clock, accounts' = accounts, ops' \in Nat, SameAccount
    PROVE  TrialInv'
<1>1. \A id : Names(id)' <=> Names(id)
  BY SessionsAssumption DEF SameAccount, Names
<1> QED
  BY <1>1, SessionsAssumption DEF TrialInv, CallFits, SameAccount, Names

(* The requests that only read: they begin with what they have read.        *)
LEMMA StartsKeep ==
    ASSUME TrialInv, NEW c \in Callers,
           \/ \E pw \in Passwords : SignUp(c, pw) \/ SignIn(c, pw)
           \/ \E token \in 1 .. ops, pw \in Passwords : FindReset(c, token, pw)
           \/ \E old, pw \in Passwords : ChangePassword(c, old, pw)
           \/ \E t \in issued : Refresh(c, t)
           \/ \E suspend \in BOOLEAN : ReadStatus(c, suspend)
           \/ ReadTrial(c)
    PROVE  TrialInv'
<1>1. UNCHANGED <<account, trial, clock, accounts>> /\ ops' \in Nat
  <2>1. UNCHANGED <<tables, clock>> /\ Counts
    BY DEF SignUp, SignIn, FindReset, ChangePassword, Refresh, ReadStatus, ReadTrial,
           Starts
  <2> QED
    BY <2>1 DEF tables, Counts, TrialInv
<1>2. SameAccount
  BY <1>1 DEF SameAccount, TrialInv
<1>3. SUFFICES \E q : CallFits(q) /\ call' = [call EXCEPT ![c] = q]
  BY <1>1, <1>2, CallKeeps
<1>4. account # None => account.id \in Nat /\ account.id <= accounts /\ account.born \in Nat
  BY DEF TrialInv, Account
<1>5. accounts \in Nat /\ clock \in Nat /\ ops \in Nat
  BY DEF TrialInv
<1>6. ASSUME NEW pw \in Passwords, SignUp(c, pw)
      PROVE  \E q : CallFits(q) /\ call' = [call EXCEPT ![c] = q]
  <2> DEFINE q == [Idle EXCEPT !.pc = "insert", !.pw = pw]
  <2>1. call' = [call EXCEPT ![c] = q]
    BY <1>6 DEF SignUp, Starts
  <2>2. q = [f \in Fields |-> q[f]] /\ q.pc = "insert" /\ q.sub = 0 /\ q.pw = pw
    BY DEF Idle, Fields
  <2> HIDE DEF q
  <2>3. CallFits(q)
    BY <1>5, <2>2 DEF CallFits
  <2> QED
    BY <2>1, <2>3
<1>7. ASSUME NEW pw \in Passwords, SignIn(c, pw)
      PROVE  \E q : CallFits(q) /\ call' = [call EXCEPT ![c] = q]
  <2> DEFINE q == [Idle EXCEPT !.pc = "session", !.sub = account.id]
  <2>1. call' = [call EXCEPT ![c] = q]
    BY <1>7 DEF SignIn, Starts
  <2>2. CallFits(q)
    BY <1>4, <1>7 DEF SignIn, Idle, CallFits, Fields
  <2> QED
    BY <2>1, <2>2
<1>8. ASSUME NEW token \in 1 .. ops, NEW pw \in Passwords, FindReset(c, token, pw)
      PROVE  \E q : CallFits(q) /\ call' = [call EXCEPT ![c] = q]
  <2> DEFINE q == [Idle EXCEPT !.pc = "reset", !.sub = account.id, !.token = token,
                               !.at = clock, !.pw = pw]
  <2>1. call' = [call EXCEPT ![c] = q]
    BY <1>8 DEF FindReset, Starts
  <2>2. /\ q = [f \in Fields |-> q[f]] /\ q.pc = "reset" /\ q.sub = account.id
        /\ q.token = token /\ q.pw = pw /\ q.at = clock
    BY IdleShape DEF Fields
  <2>3. account # None
    BY <1>8 DEF FindReset, FindsToken
  <2>5. token \in Nat
    BY <1>5
  <2> HIDE DEF q
  <2>4. CallFits(q)
    BY <1>4, <1>5, <2>2, <2>3, <2>5 DEF CallFits
  <2> QED
    BY <2>1, <2>4
<1>9. ASSUME NEW old \in Passwords, NEW pw \in Passwords, ChangePassword(c, old, pw)
      PROVE  \E q : CallFits(q) /\ call' = [call EXCEPT ![c] = q]
  <2> DEFINE q == [Idle EXCEPT !.pc = "change", !.sub = account.id, !.pw = pw]
  <2>1. call' = [call EXCEPT ![c] = q]
    BY <1>9 DEF ChangePassword, Starts
  <2>2. CallFits(q)
    BY <1>4, <1>9 DEF ChangePassword, Idle, CallFits, Fields
  <2> QED
    BY <2>1, <2>2
<1>10. ASSUME NEW t \in issued, Refresh(c, t)
       PROVE  \E q : CallFits(q) /\ call' = [call EXCEPT ![c] = q]
  <2> DEFINE sub == t.sub
             q == [Idle EXCEPT !.pc = "rotate", !.sub = sub]
  <2>1. call' = [call EXCEPT ![c] = q]
    BY <1>10 DEF Refresh, Starts
  <2>2. sub \in Nat /\ sub <= accounts
    BY <1>4, <1>10 DEF Refresh, Matches, Names
  <2> HIDE DEF sub
  <2>3. q = [f \in Fields |-> q[f]] /\ q.pc = "rotate" /\ q.sub = sub
    BY IdleShape DEF Fields
  <2> HIDE DEF q
  <2>4. CallFits(q)
    BY <2>2, <2>3 DEF CallFits
  <2> QED
    BY <2>1, <2>4
<1>11. ASSUME NEW suspend, suspend \in BOOLEAN, ReadStatus(c, suspend)
       PROVE  \E q : CallFits(q) /\ call' = [call EXCEPT ![c] = q]
  <2> DEFINE at == IF account.suspended THEN 1 ELSE 0
             q == [Idle EXCEPT !.pc = "status", !.sub = account.id, !.flag = suspend,
                               !.at = at]
  <2>1. call' = [call EXCEPT ![c] = q]
    BY <1>11 DEF ReadStatus, Starts
  <2> HIDE DEF at
  <2>2. /\ q = [f \in Fields |-> q[f]] /\ q.pc = "status"
        /\ q.sub = account.id /\ q.flag = suspend
    BY IdleShape DEF Fields
  <2> HIDE DEF q
  <2>3. CallFits(q)
    BY <1>4, <1>11, <2>2 DEF ReadStatus, CallFits
  <2> QED
    BY <2>1, <2>3
<1>12. ASSUME ReadTrial(c)
       PROVE  \E q : CallFits(q) /\ call' = [call EXCEPT ![c] = q]
  <2> DEFINE q == [Idle EXCEPT !.pc = "resolve", !.sub = account.id, !.at = account.born]
  <2>1. call' = [call EXCEPT ![c] = q]
    BY <1>12 DEF ReadTrial, Starts
  <2>2. CallFits(q)
    BY <1>4, <1>12 DEF TrialInv, ReadTrial, Idle, CallFits, Fields
  <2> QED
    BY <2>1, <2>2
<1> QED
  BY <1>6, <1>7, <1>8, <1>9, <1>10, <1>11, <1>12

(* The requests that write by id, if the account is still there.            *)
LEMMA WritesKeep ==
    ASSUME TrialInv, NEW c \in Callers,
           \/ IssueSession(c) \/ WriteReset(c) \/ WritePassword(c) \/ WriteStatus(c)
           \/ LogStatus(c) \/ Abandon(c) \/ StartTrial(c) \/ CreateTrial(c)
    PROVE  TrialInv'
<1> DEFINE q == call[c]
<1>0. CallFits(q) /\ clock \in Nat /\ accounts \in Nat /\ ops \in Nat
  BY DEF TrialInv
<1>1. /\ clock' = clock /\ accounts' = accounts /\ ops' = ops
      /\ \E w : CallFits(w) /\ call' = [call EXCEPT ![c] = w]
  <2>1. /\ UNCHANGED <<clock, accounts, ops>>
        /\ \/ Ends(c)
           \/ \E pc \in {"session", "audit"} :
                 Goes(c, pc) /\ (pc = "audit" => q.pc = "status")
    BY DEF IssueSession, WriteReset, WritePassword, WriteStatus, LogStatus, Abandon,
           StartTrial, CreateTrial, Ends, Goes, tables
  <2>2. CASE Ends(c)
    BY <2>1, <2>2, IdleFits DEF Ends
  <2>3. ASSUME NEW pc \in {"session", "audit"}, Goes(c, pc), pc = "audit" => q.pc = "status"
        PROVE  \E w : CallFits(w) /\ call' = [call EXCEPT ![c] = w]
    <3> DEFINE w == [q EXCEPT !.pc = pc]
    <3>1. /\ w = [f \in Fields |-> w[f]] /\ w.pc = pc
          /\ w.sub = q.sub /\ w.flag = q.flag
      BY <1>0 DEF CallFits, Fields
    <3>2. call' = [call EXCEPT ![c] = w]
      BY <2>3 DEF Goes
    <3>4. pc = "audit" => q.flag \in BOOLEAN
      BY <1>0, <2>3 DEF CallFits
    <3> HIDE DEF w
    <3>3. CallFits(w)
      BY <1>0, <3>1, <3>4 DEF CallFits
    <3> QED
      BY <3>2, <3>3
  <2> QED
    BY <2>1, <2>2, <2>3
<1>2. SameAccount
  <2>1. CASE account' = account
    BY <2>1 DEF SameAccount, TrialInv
  <2>2. CASE account' # account
    <3>1. Names(q.sub)
      BY <2>2 DEF IssueSession, WriteReset, WritePassword, WriteStatus, LogStatus,
             Abandon, StartTrial, CreateTrial, tables
    <3>2. account \in Account /\ account # None
      BY <3>1 DEF Names, TrialInv
    <3>3. CASE IssueSession(c)
      BY <3>1, <3>2, <3>3 DEF IssueSession, SameAccount, Account
    <3>4. CASE WriteReset(c)
      <4>1. account' = AfterReset(q.pw) /\ q.pw \in Passwords
        BY <1>0, <3>1, <3>4 DEF WriteReset, CallFits
      <4>2. AfterReset(q.pw) \in Account
        BY <3>2, <4>1 DEF AfterReset, Account
      <4> QED
        BY <3>2, <4>1, <4>2 DEF AfterReset, SameAccount, Account
    <3>5. CASE WritePassword(c)
      BY <1>0, <3>1, <3>2, <3>5 DEF WritePassword, SameAccount, Account, CallFits
    <3>6. CASE WriteStatus(c)
      <4>1. account' = [account EXCEPT !.suspended = q.flag] /\ q.flag \in BOOLEAN
        BY <1>0, <3>1, <3>6 DEF WriteStatus, CallFits
      <4>2. account' \in Account
        BY <3>2, <4>1, Written
      <4> QED
        BY <3>2, <4>1, <4>2 DEF SameAccount, Account
    <3> QED
      BY <2>2, <3>3, <3>4, <3>5, <3>6
         DEF LogStatus, Abandon, StartTrial, CreateTrial, tables
  <2> QED
    BY <2>1, <2>2
<1>3. \/ trial' = trial
      \/ /\ account # None /\ trial' \in Nat
         /\ account.born <= trial' /\ trial' <= clock
  <2>1. CASE StartTrial(c)
    BY <1>0, <2>1 DEF StartTrial, TrialAfter, Names, TrialInv
  <2>2. CASE CreateTrial(c)
    BY <1>0, <2>2 DEF CreateTrial, Names, TrialInv, CallFits, Account
  <2> QED
    BY <2>1, <2>2 DEF IssueSession, WriteReset, WritePassword, WriteStatus, LogStatus,
       Abandon, tables
<1> QED
  BY <1>0, <1>1, <1>2, <1>3, CallKeeps

(* The e-mail address gets a new account: its id is new, its trial absent.  *)
LEMMA InsertKeeps ==
    ASSUME TrialInv, NEW c \in Callers, InsertUser(c)
    PROVE  TrialInv'
<1> DEFINE q == call[c]
<1>0. /\ CallFits(q) /\ clock \in Nat /\ accounts \in Nat /\ ops \in Nat
      /\ q.pc = "insert"
  BY DEF TrialInv, InsertUser
<1>1. CASE account # None
  <2>1. SameAccount /\ call' = [call EXCEPT ![c] = Idle] /\ trial' = trial
        /\ clock' = clock /\ accounts' = accounts /\ ops' = ops
    BY <1>1 DEF InsertUser, Ends, SameAccount, TrialInv
  <2> QED
    BY <1>0, <2>1, IdleFits, CallKeeps
<1>2. CASE account = None
  <2> DEFINE w == [q EXCEPT !.pc = "trial", !.sub = accounts + 1]
  <2> DEFINE new == [id |-> accounts + 1, born |-> clock, password |-> q.pw,
                     stored |-> FALSE, reset |-> 0, resetAt |-> 0, suspended |-> FALSE]
  <2>0. account' = new /\ q.pw \in Passwords
    BY <1>0, <1>2 DEF InsertUser, CallFits
  <2>7. account' \in Account /\ account'.id = accounts + 1 /\ account'.born = clock
    BY <1>0, <2>0 DEF Account
  <2> HIDE DEF new
  <2>1. /\ accounts' = accounts + 1 /\ account' \in Account
        /\ account'.id = accounts + 1 /\ account'.born = clock
        /\ call' = [call EXCEPT ![c].pc = "trial", ![c].sub = accounts + 1]
        /\ clock' = clock /\ trial' = trial /\ ops' = ops
    BY <1>2, <2>7 DEF InsertUser
  <2>2. w = [f \in Fields |-> w[f]] /\ w.pc = "trial" /\ w.sub = accounts + 1
    BY <1>0 DEF CallFits, Fields
  <2>3. \A o \in Callers : call'[o] = IF o = c THEN w ELSE call[o]
    BY <2>1 DEF TrialInv
  <2> HIDE DEF w
  <2>4. trial' = None
    BY <1>2, <2>1 DEF TrialInv
  <2>5. ASSUME NEW o \in Callers
        PROVE  CallFits(call[o])'
    <3>1. CASE o = c
      <4>1. call'[o] = w /\ accounts' = accounts + 1
        BY <2>1, <2>3, <3>1
      <4> QED
        BY <1>0, <2>2, <4>1 DEF CallFits
    <3>2. CASE o # c
      <4>1. CallFits(call[o]) /\ call'[o] = call[o]
        BY <2>3, <3>2 DEF TrialInv
      <4>2. ~Names(call[o].sub)'
        BY <1>0, <2>7, <4>1 DEF Names, CallFits
      <4>3. accounts' = accounts + 1 /\ clock' = clock
        BY <2>1
      <4> QED
        BY <1>0, <4>1, <4>2, <4>3 DEF CallFits
    <3> QED
      BY <3>1, <3>2
  <2>6. call' = [o \in Callers |-> call'[o]]
    BY <2>1 DEF TrialInv
  <2> QED
    BY <1>0, <2>1, <2>4, <2>5, <2>6 DEF TrialInv
<1> QED
  BY <1>1, <1>2

(* What happens at once.                                                    *)
LEMMA AtOnceKeeps ==
    ASSUME TrialInv, Logout \/ ForgotPassword \/ DeleteAccount \/ Tick
    PROVE  TrialInv'
<1>0. clock \in Nat /\ accounts \in Nat /\ ops \in Nat
  BY DEF TrialInv
<1>1. CASE Logout \/ ForgotPassword
  <2>1. account \in Account /\ account # None
    BY <1>1 DEF Logout, ForgotPassword, TrialInv
  <2>2. SameAccount
    <3>1. CASE Logout
      BY <2>1, <3>1, SessionsAssumption DEF Logout, SameAccount, Account
    <3>2. CASE ForgotPassword
      <4>1. account' = [account EXCEPT !.reset = ops + 1, !.resetAt = clock]
        BY <3>2 DEF ForgotPassword
      <4>2. account' \in Account
        <5>1. ops + 1 \in Nat /\ clock \in Nat
          BY <1>0
        <5> QED
          BY <2>1, <4>1, <5>1, Written
      <4> QED
        BY <2>1, <4>1, <4>2 DEF SameAccount, Account
    <3> QED
      BY <1>1, <3>1, <3>2
  <2>3. call' = call /\ trial' = trial /\ clock' = clock /\ accounts' = accounts
        /\ ops' \in Nat
    BY <1>0, <1>1 DEF Logout, ForgotPassword, AtOnce, Counts
  <2> QED
    BY <2>2, <2>3, RowKeeps
<1>2. CASE DeleteAccount
  BY <1>0, <1>2 DEF DeleteAccount, AtOnce, Counts, TrialInv, CallFits, Names
<1>3. CASE Tick
  BY <1>0, <1>3 DEF Tick, tables, TrialInv, CallFits, Names, Account
<1> QED
  BY <1>1, <1>2, <1>3

(* Every step keeps the invariant, and the first state has it.              *)
LEMMA TrialStep == TrialInv /\ [Next]_vars => TrialInv'
<1> SUFFICES ASSUME TrialInv, [Next]_vars PROVE TrialInv'
  OBVIOUS
<1>1. CASE UNCHANGED vars
  BY <1>1 DEF vars, tables, TrialInv, CallFits, Names
<1>2. CASE Next
  BY <1>2, StartsKeep, WritesKeep, InsertKeeps, AtOnceKeeps DEF Next
<1> QED
  BY <1>1, <1>2

(* There is no account at first, and nobody asks.                           *)
LEMMA TrialStart == Init => TrialInv
<1> SUFFICES ASSUME Init PROVE TrialInv
  OBVIOUS
<1>1. Idle = [f \in Fields |-> Idle[f]] /\ Idle.pc = "idle" /\ Idle.sub = 0
  BY DEF Idle, Fields
<1>2. CallFits(Idle)
  BY <1>1 DEF Init, CallFits
<1> QED
  BY <1>2 DEF Init, TrialInv

(* An account has one trial: sign-up, crashes, deletions and the lazy look  *)
(* that creates a missing row never restart it, nor date it before the      *)
(* account (subscription.service.ts:563).                                   *)
THEOREM TrialOnce == Spec => TrialRunsOnce
<1>1. TrialInv /\ [Next]_vars =>
        [trial # None /\ account # None /\ account' # None /\ account'.id = account.id
           => trial' = trial /\ trial >= account.born]_vars
  <2> SUFFICES ASSUME TrialInv, Next, trial # None, account' # None
               PROVE  trial' = trial /\ trial >= account.born
    OBVIOUS
  <2>1. trial >= account.born
    BY DEF TrialInv, Account
  <2>2. trial' = trial
    BY DEF Next, SignUp, SignIn, FindReset, ChangePassword, Refresh, ReadStatus,
       InsertUser, StartTrial, TrialAfter, ReadTrial, CreateTrial, IssueSession,
       WriteReset, WritePassword, WriteStatus, LogStatus, Abandon, Logout,
       ForgotPassword, DeleteAccount, Tick, tables
  <2> QED
    BY <2>1, <2>2
<1> QED
  BY <1>1, TrialStart, TrialStep, PTL DEF Spec, TrialRunsOnce
-----------------------------------------------------------------------------
(* While requests do not overlap.                                           *)

(* The entries of an account, and what the last of them says; an account     *)
(* without entries was never suspended.                                      *)
Entries(id) == {i \in DOMAIN audit : audit[i].sub = id}
LastSays(id, status) ==
    /\ Entries(id) = {} => ~status
    /\ \A i \in Entries(id) :
          (\A k \in Entries(id) : k <= i) => audit[i].after = status

(* Every entry continues the account's entry before it.                      *)
Chained ==
    \A i \in DOMAIN audit :
        LET earlier == {j \in 1 .. i - 1 : audit[j].sub = audit[i].sub}
        IN  /\ earlier = {} => ~audit[i].before
            /\ \A j \in earlier :
                  (\A k \in earlier : k <= j) => audit[j].after = audit[i].before

(* What a request has read is still so when it writes.                       *)
Current(q) ==
    /\ q.pc = "rotate" => q.sub \in live
    /\ q.pc = "reset" => /\ q.token \in 1 .. ops
                         /\ Names(q.sub) /\ account.reset = q.token
                         /\ \A i \in DOMAIN resets : resets[i].token < q.token
    /\ q.pc \in {"status", "audit"} => Names(q.sub)
    /\ q.pc = "status" => (q.at = 1 <=> account.suspended)
    /\ q.pc = "audit" => /\ account.suspended = q.flag
                         /\ ~unlogged => LastSays(q.sub, q.at = 1)

AloneAtWork == \A c, d \in Callers :
    call[c].pc # "idle" /\ call[d].pc # "idle" => c = d
SessionsMatch == \A t \in issued : Matches(t) <=> t.sub \in live
ResetsInOrder ==
    /\ \A i \in DOMAIN resets : resets[i].token <= ops
    /\ account # None => /\ account.reset <= ops
                         /\ account.reset # 0 =>
                              \A i \in DOMAIN resets : resets[i].token < account.reset
StatusLogged ==
    /\ Chained
    /\ account # None /\ (\A c \in Callers : call[c].pc # "audit")
          => LastSays(account.id, account.suspended)

QuietState ==
    /\ AloneAtWork /\ SessionsMatch /\ ResetsInOrder
    /\ ~unlogged => StatusLogged
    /\ \A c \in Callers : Current(call[c])

Used == [token : Nat, sub : Nat, at : Nat]
Entry == [sub : Nat, before : BOOLEAN, after : BOOLEAN]

QuietInv ==
    /\ TrialInv
    /\ audit \in Seq(Entry) /\ \A i \in DOMAIN audit : audit[i].sub <= accounts
    /\ resets \in Seq(Used) /\ unlogged \in BOOLEAN
    /\ ~overlapped => QuietState

(* The tokens used are numbers.                                             *)
LEMMA TokensUsed ==
    ASSUME QuietInv
    PROVE  \A i \in DOMAIN resets : resets[i].token \in Nat
<1>1. \A i \in DOMAIN resets : resets[i] \in Used
  BY DEF QuietInv
<1> QED
  BY <1>1 DEF Used

(* What was true of the tables is true when they have not changed.          *)
LEMMA TablesSame ==
    ASSUME QuietInv, QuietState,
           UNCHANGED <<account, issued, live, audit, resets>>, ops' \in Nat, ops' >= ops,
           unlogged' \/ (unlogged' = unlogged
              /\ ((\A o \in Callers : call'[o].pc # "audit")
                     => \A o \in Callers : call[o].pc # "audit"))
    PROVE  SessionsMatch' /\ ResetsInOrder' /\ (~unlogged' => StatusLogged')
<1>1. SessionsMatch'
  BY DEF QuietState, SessionsMatch, Matches, Names
<1>2. ResetsInOrder'
  <2>1. /\ ops \in Nat /\ \A i \in DOMAIN resets : resets[i].token \in Nat
        /\ account # None => account.reset \in Nat
    BY TokensUsed DEF QuietInv, TrialInv, Account
  <2> QED
    BY <2>1 DEF QuietState, ResetsInOrder
<1>3. ~unlogged' => StatusLogged'
  <2>1. Chained' <=> Chained
    BY DEF Chained
  <2>2. \A id, v : LastSays(id, v)' <=> LastSays(id, v)
    BY DEF LastSays, Entries
  <2> QED
    BY <2>1, <2>2 DEF QuietState, StatusLogged
<1> QED
  BY <1>1, <1>2, <1>3

(* A request that works alone, and knows what it needs to know.             *)
LEMMA WorkingAlone ==
    ASSUME QuietState, NEW c \in Callers, call[c].pc # "idle" \/ Open = {},
           \A o \in Callers : o # c => call'[o] = call[o],
           Current(call[c])'
    PROVE  /\ AloneAtWork' /\ \A o \in Callers : Current(call[o])'
           /\ \A o \in Callers : o # c => call[o].pc = "idle" /\ call'[o].pc = "idle"
<1>1. \A o \in Callers : o # c => call[o].pc = "idle" /\ call'[o].pc = "idle"
  BY DEF QuietState, AloneAtWork, Open
<1>2. \A o \in Callers : o # c => Current(call[o])'
  BY <1>1 DEF Current
<1> QED
  BY <1>1, <1>2 DEF AloneAtWork

(* A request begins with what it has read, and nobody else is at work.      *)
LEMMA BeginsQuiet ==
    ASSUME QuietInv, ~overlapped', NEW c \in Callers, NEW q, Starts(c, q),
           UNCHANGED <<tables, history>>,
           QuietState => Current(call[c])'
    PROVE  QuietState'
<1>1. ~overlapped /\ Open = {} /\ ops' = ops + 1 /\ ops \in Nat /\ QuietState
  BY DEF Starts, Counts, QuietInv, TrialInv
<1>2. \A o \in Callers : o # c => call'[o] = call[o]
  BY DEF Starts, QuietInv, TrialInv
<1>3. \A o \in Callers : call[o].pc # "audit"
  BY <1>1 DEF Open
<1>4. SessionsMatch' /\ ResetsInOrder' /\ (~unlogged' => StatusLogged')
  BY <1>1, <1>3, TablesSame DEF tables, history
<1>5. AloneAtWork' /\ \A o \in Callers : Current(call[o])'
  BY <1>1, <1>2, WorkingAlone
<1> QED
  BY <1>4, <1>5 DEF QuietState

(* A request goes on or ends, and writes neither row nor history.           *)
LEMMA GoesOnQuiet ==
    ASSUME QuietInv, ~overlapped', overlapped' = overlapped, ops' = ops,
           NEW c \in Callers, call[c].pc # "idle", NEW q,
           call' = [call EXCEPT ![c] = q],
           UNCHANGED <<account, issued, live, audit, resets>>,
           q.pc \in {"idle", "session"},
           unlogged' \/ (unlogged' = unlogged /\ call[c].pc # "audit")
    PROVE  QuietState'
<1>1. QuietState /\ ops \in Nat
  BY DEF QuietInv, TrialInv
<1>2. \A o \in Callers : call'[o] = IF o = c THEN q ELSE call[o]
  BY DEF QuietInv, TrialInv
<1>3. call'[c].pc \in {"idle", "session"}
  BY <1>2
<1>4. Current(call[c])'
  BY <1>3 DEF Current
<1>5. /\ AloneAtWork' /\ \A o \in Callers : Current(call[o])'
      /\ \A o \in Callers : o # c => call[o].pc = "idle" /\ call'[o].pc = "idle"
  BY <1>1, <1>2, <1>4, WorkingAlone
<1>6. unlogged' \/ \A o \in Callers : call[o].pc # "audit"
  BY <1>5
<1>7. SessionsMatch' /\ ResetsInOrder' /\ (~unlogged' => StatusLogged')
  BY <1>1, <1>6, TablesSame
<1> QED
  BY <1>5, <1>7 DEF QuietState

(* The requests that only read.                                             *)
LEMMA StartsQuiet ==
    ASSUME QuietInv, ~overlapped', NEW c \in Callers,
           \/ \E pw \in Passwords : SignUp(c, pw) \/ SignIn(c, pw)
           \/ \E token \in 1 .. ops, pw \in Passwords : FindReset(c, token, pw)
           \/ \E old, pw \in Passwords : ChangePassword(c, old, pw)
           \/ \E t \in issued : Refresh(c, t)
           \/ \E suspend \in BOOLEAN : ReadStatus(c, suspend)
           \/ ReadTrial(c)
    PROVE  QuietState'
<1>0. ops \in Nat /\ call = [o \in Callers |-> call[o]]
  BY DEF QuietInv, TrialInv
<1>1. ASSUME NEW pw \in Passwords, SignUp(c, pw)
      PROVE  QuietState'
  <2>1. PICK q : /\ Starts(c, q) /\ UNCHANGED <<tables, history>> /\ q.pc = "insert"
    <3> DEFINE q == [Idle EXCEPT !.pc = "insert", !.pw = pw]
    <3>1. Starts(c, q) /\ UNCHANGED <<tables, history>>
      BY <1>1 DEF SignUp
    <3>2. q.pc = "insert"
      BY IdleShape DEF Fields
    <3> QED
      BY <3>1, <3>2
  <2>2. call'[c].pc = "insert"
    BY <1>0, <2>1 DEF Starts
  <2>3. Current(call[c])'
    BY <2>2 DEF Current
  <2> QED
    BY <2>1, <2>3, BeginsQuiet
<1>2. ASSUME NEW pw \in Passwords, SignIn(c, pw)
      PROVE  QuietState'
  <2>1. PICK q : /\ Starts(c, q) /\ UNCHANGED <<tables, history>> /\ q.pc = "session"
    <3> DEFINE q == [Idle EXCEPT !.pc = "session", !.sub = account.id]
    <3>1. Starts(c, q) /\ UNCHANGED <<tables, history>>
      BY <1>2 DEF SignIn
    <3>2. q.pc = "session"
      BY IdleShape DEF Fields
    <3> QED
      BY <3>1, <3>2
  <2>2. call'[c].pc = "session"
    BY <1>0, <2>1 DEF Starts
  <2>3. Current(call[c])'
    BY <2>2 DEF Current
  <2> QED
    BY <2>1, <2>3, BeginsQuiet
<1>3. ASSUME NEW token \in 1 .. ops, NEW pw \in Passwords, FindReset(c, token, pw)
      PROVE  QuietState'
  <2>1. PICK q : /\ Starts(c, q) /\ UNCHANGED <<tables, history>>
                 /\ q.pc = "reset" /\ q.token = token /\ q.sub = account.id
    <3> DEFINE q == [Idle EXCEPT !.pc = "reset", !.sub = account.id, !.token = token,
                                 !.at = clock, !.pw = pw]
    <3>1. Starts(c, q) /\ UNCHANGED <<tables, history>>
      BY <1>3 DEF FindReset
    <3>2. q.pc = "reset" /\ q.token = token /\ q.sub = account.id
      BY IdleShape DEF Fields
    <3> QED
      BY <3>1, <3>2
  <2>2. call'[c] = q /\ ops' = ops + 1 /\ resets' = resets /\ account' = account
    BY <1>0, <2>1 DEF Starts, Counts, history, tables
  <2>3. account # None /\ account.reset = token
    BY <1>3 DEF FindReset, FindsToken
  <2>4. token # 0 /\ token \in 1 .. ops + 1
    BY <1>0
  <2>5. QuietState => Current(call[c])'
    BY <2>1, <2>2, <2>3, <2>4 DEF QuietState, ResetsInOrder, Current, Names
  <2> QED
    BY <2>1, <2>5, BeginsQuiet
<1>4. ASSUME NEW old \in Passwords, NEW pw \in Passwords, ChangePassword(c, old, pw)
      PROVE  QuietState'
  <2>1. PICK q : /\ Starts(c, q) /\ UNCHANGED <<tables, history>> /\ q.pc = "change"
    <3> DEFINE q == [Idle EXCEPT !.pc = "change", !.sub = account.id, !.pw = pw]
    <3>1. Starts(c, q) /\ UNCHANGED <<tables, history>>
      BY <1>4 DEF ChangePassword
    <3>2. q.pc = "change"
      BY IdleShape DEF Fields
    <3> QED
      BY <3>1, <3>2
  <2>2. call'[c].pc = "change"
    BY <1>0, <2>1 DEF Starts
  <2>3. Current(call[c])'
    BY <2>2 DEF Current
  <2> QED
    BY <2>1, <2>3, BeginsQuiet
<1>5. ASSUME NEW t \in issued, Refresh(c, t)
      PROVE  QuietState'
  <2>1. PICK q : /\ Starts(c, q) /\ UNCHANGED <<tables, history>>
                 /\ q.pc = "rotate" /\ q.sub = t.sub
    <3> DEFINE q == [Idle EXCEPT !.pc = "rotate", !.sub = t.sub]
    <3>1. Starts(c, q) /\ UNCHANGED <<tables, history>>
      BY <1>5 DEF Refresh
    <3>2. q.pc = "rotate" /\ q.sub = t.sub
      BY IdleShape DEF Fields
    <3> QED
      BY <3>1, <3>2
  <2>2. call'[c] = q /\ live' = live
    BY <1>0, <2>1 DEF Starts, history
  <2>3. Matches(t)
    BY <1>5 DEF Refresh
  <2>4. QuietState => Current(call[c])'
    BY <2>1, <2>2, <2>3 DEF QuietState, SessionsMatch, Current
  <2> QED
    BY <2>1, <2>4, BeginsQuiet
<1>6. ASSUME NEW suspend \in BOOLEAN, ReadStatus(c, suspend)
      PROVE  QuietState'
  <2> DEFINE at == IF account.suspended THEN 1 ELSE 0
  <2>1. PICK q : /\ Starts(c, q) /\ UNCHANGED <<tables, history>>
                 /\ q.pc = "status" /\ q.sub = account.id /\ q.at = at
    <3> DEFINE q == [Idle EXCEPT !.pc = "status", !.sub = account.id,
                                 !.flag = suspend, !.at = at]
    <3>1. Starts(c, q) /\ UNCHANGED <<tables, history>>
      BY <1>6 DEF ReadStatus
    <3> HIDE DEF at
    <3>2. q.pc = "status" /\ q.sub = account.id /\ q.at = at
      BY IdleShape DEF Fields
    <3> QED
      BY <3>1, <3>2
  <2>2. call'[c] = q /\ account' = account
    BY <1>0, <2>1 DEF Starts, tables
  <2>3. account # None
    BY <1>6 DEF ReadStatus
  <2>4. Current(call[c])'
    BY <2>1, <2>2, <2>3 DEF Names, Current
  <2> QED
    BY <2>1, <2>4, BeginsQuiet
<1>7. ASSUME ReadTrial(c)
      PROVE  QuietState'
  <2>1. PICK q : /\ Starts(c, q) /\ UNCHANGED <<tables, history>> /\ q.pc = "resolve"
    <3> DEFINE q == [Idle EXCEPT !.pc = "resolve", !.sub = account.id, !.at = account.born]
    <3>1. Starts(c, q) /\ UNCHANGED <<tables, history>>
      BY <1>7 DEF ReadTrial
    <3>2. q.pc = "resolve"
      BY IdleShape DEF Fields
    <3> QED
      BY <3>1, <3>2
  <2>2. call'[c].pc = "resolve"
    BY <1>0, <2>1 DEF Starts
  <2>3. Current(call[c])'
    BY <2>2 DEF Current
  <2> QED
    BY <2>1, <2>3, BeginsQuiet
<1> QED
  BY <1>1, <1>2, <1>3, <1>4, <1>5, <1>6, <1>7

(* The requests that end, or go on, without a write to the account.          *)
LEMMA EndsQuiet ==
    ASSUME QuietInv, ~overlapped', NEW c \in Callers,
           \/ StartTrial(c) \/ CreateTrial(c) \/ Abandon(c)
           \/ InsertUser(c) /\ account # None
           \/ ~Names(call[c].sub) /\ (IssueSession(c) \/ WriteReset(c) \/ WriteStatus(c))
    PROVE  QuietState'
<1>0. call = [o \in Callers |-> call[o]] /\ CallFits(call[c])
  BY DEF QuietInv, TrialInv
<1>1. /\ UNCHANGED <<account, issued, live, audit, resets>> /\ call[c].pc # "idle"
      /\ unlogged' \/ (unlogged' = unlogged /\ call[c].pc # "audit")
      /\ Ends(c) \/ Goes(c, "session")
  <2>1. CASE StartTrial(c)
    BY <2>1 DEF StartTrial, history
  <2>2. CASE CreateTrial(c)
    BY <2>2 DEF CreateTrial, history
  <2>3. CASE Abandon(c)
    BY <2>3 DEF Abandon, tables, QuietInv
  <2>4. CASE InsertUser(c) /\ account # None
    BY <2>4 DEF InsertUser, history
  <2>5. CASE ~Names(call[c].sub) /\ IssueSession(c)
    BY <2>5 DEF IssueSession
  <2>6. CASE ~Names(call[c].sub) /\ WriteReset(c)
    BY <2>6 DEF WriteReset
  <2>7. CASE ~Names(call[c].sub) /\ WriteStatus(c)
    BY <2>7 DEF WriteStatus, history
  <2> QED
    BY <2>1, <2>2, <2>3, <2>4, <2>5, <2>6, <2>7
<1>2. ops' = ops /\ overlapped' = overlapped
  BY <1>1 DEF Ends, Goes
<1>3. PICK q : call' = [call EXCEPT ![c] = q] /\ q.pc \in {"idle", "session"}
  <2>1. CASE Ends(c)
    <3>1. Idle.pc = "idle"
      BY DEF Idle
    <3> QED
      BY <2>1, <3>1 DEF Ends
  <2>2. CASE Goes(c, "session")
    <3>1. [call[c] EXCEPT !.pc = "session"].pc = "session"
      BY <1>0 DEF CallFits, Fields
    <3> QED
      BY <2>2, <3>1 DEF Goes
  <2> QED
    BY <1>1, <2>1, <2>2
<1> QED
  BY <1>1, <1>2, <1>3, GoesOnQuiet

(* Who writes the account's row ends and, alone at work, leaves nobody there *)
(* who would have read it before.                                            *)
LEMMA WrittenQuiet ==
    ASSUME QuietInv, ~overlapped', overlapped' = overlapped, NEW c \in Callers,
           call[c].pc # "idle",
           \A o \in Callers : o # c => call'[o] = call[o],
           Current(call[c])',
           QuietState => SessionsMatch' /\ ResetsInOrder',
           QuietState /\ (\A o \in Callers : o # c => call[o].pc = "idle")
              => (~unlogged' => StatusLogged')
    PROVE  QuietState'
<1>1. QuietState
  BY DEF QuietInv
<1>2. /\ AloneAtWork' /\ \A o \in Callers : Current(call[o])'
      /\ \A o \in Callers : o # c => call[o].pc = "idle"
  BY <1>1, WorkingAlone
<1> QED
  BY <1>1, <1>2 DEF QuietState

(* The address gets a new account: no token, no reset and no entry names it. *)
LEMMA InsertQuiet ==
    ASSUME QuietInv, ~overlapped', NEW c \in Callers, InsertUser(c), account = None
    PROVE  QuietState'
<1>0. /\ call = [o \in Callers |-> call[o]] /\ CallFits(call[c])
      /\ accounts \in Nat /\ ops \in Nat /\ \A i \in DOMAIN audit : audit[i].sub <= accounts
      /\ audit \in Seq(Entry)
  BY DEF QuietInv, TrialInv
<1>1. /\ account'.id = accounts + 1 /\ ~account'.stored /\ account'.reset = 0
      /\ ~account'.suspended
  BY DEF InsertUser
<1>8. account' # None
  <2> DEFINE new == [id |-> accounts + 1, born |-> clock, password |-> call[c].pw,
                     stored |-> FALSE, reset |-> 0, resetAt |-> 0, suspended |-> FALSE]
  <2>1. call[c].pw \in Passwords /\ clock \in Nat
    BY <1>0 DEF InsertUser, CallFits, QuietInv, TrialInv
  <2>2. new \in Account
    BY <1>0, <2>1 DEF Account
  <2>3. account' = new
    BY DEF InsertUser
  <2> QED
    BY <2>2, <2>3, SessionsAssumption
<1>2. /\ call[c].pc = "insert" /\ account' # None
      /\ UNCHANGED <<issued, audit, live, resets, unlogged, ops, overlapped>>
  BY <1>8 DEF InsertUser, history
<1>3. /\ \A o \in Callers : o # c => call'[o] = call[o]
      /\ call'[c].pc = "trial"
  BY <1>0 DEF InsertUser, CallFits, Fields
<1>4. Current(call[c])'
  BY <1>3 DEF Current
<1>5. QuietState => SessionsMatch'
  BY <1>1, <1>2 DEF QuietState, SessionsMatch, Matches, Names
<1>6. QuietState => ResetsInOrder'
  BY <1>0, <1>1, <1>2 DEF QuietState, ResetsInOrder
<1>7. QuietState => (~unlogged' => StatusLogged')
  <2>1. Chained' <=> Chained
    BY <1>2 DEF Chained
  <2>2. Entries(accounts + 1)' = {}
    <3>1. \A i \in DOMAIN audit : audit[i].sub # accounts + 1
      BY <1>0 DEF Entry
    <3> QED
      BY <1>0, <1>2, <3>1 DEF Entries, InsertUser
  <2>3. LastSays(account.id, account.suspended)'
    <3>1. Entries(account.id)' = {}
      BY <1>0, <1>1, <1>2 DEF Entries, Entry
    <3> QED
      BY <1>1, <3>1 DEF LastSays
  <2> QED
    BY <1>2, <2>1, <2>3 DEF QuietState, StatusLogged
<1> QED
  BY <1>2, <1>3, <1>4, <1>5, <1>6, <1>7, WrittenQuiet

(* The trail still fits a row whose status has not changed.                  *)
LEMMA TrailKept ==
    ASSUME QuietState, NEW c \in Callers, call[c].pc # "audit",
           \A o \in Callers : o # c => call[o].pc = "idle",
           UNCHANGED <<audit, unlogged>>,
           account' # None => /\ account # None /\ account'.id = account.id
                              /\ account'.suspended = account.suspended
    PROVE  ~unlogged' => StatusLogged'
<1>1. Chained' <=> Chained
  BY DEF Chained
<1>2. \A id, v : LastSays(id, v)' <=> LastSays(id, v)
  BY DEF LastSays, Entries
<1>3. \A o \in Callers : call[o].pc # "audit"
  OBVIOUS
<1> QED
  BY <1>1, <1>2, <1>3 DEF QuietState, StatusLogged

(* The requests that write the account they know.                           *)
LEMMA WritesQuiet ==
    ASSUME QuietInv, ~overlapped', NEW c \in Callers,
           \/ WritePassword(c)
           \/ Names(call[c].sub) /\ (IssueSession(c) \/ WriteReset(c) \/ WriteStatus(c))
    PROVE  QuietState'
<1> DEFINE q == call[c]
<1>0. /\ call = [o \in Callers |-> call[o]] /\ CallFits(q) /\ ops \in Nat
      /\ account # None => account \in Account
      /\ resets \in Seq(Used)
  BY DEF QuietInv, TrialInv
<1>1. Idle.pc = "idle"
  BY DEF Idle
<1>2. CASE WritePassword(c)
  <2>1. Ends(c) /\ q.pc = "change" /\ UNCHANGED <<issued, live, audit, resets, unlogged>>
    BY <1>2 DEF WritePassword, history
  <2>2. /\ overlapped' = overlapped /\ ops' = ops /\ call'[c] = Idle
        /\ \A o \in Callers : o # c => call'[o] = call[o]
    BY <1>0, <2>1 DEF Ends
  <2>3. \/ account' = account
        \/ account # None /\ account' = [account EXCEPT !.password = q.pw]
    BY <1>2 DEF WritePassword, Names
  <2>4. /\ account' # None <=> account # None
        /\ account # None => /\ account'.id = account.id /\ account'.stored = account.stored
                             /\ account'.reset = account.reset
                             /\ account'.suspended = account.suspended
    <3>1. CASE account' = account
      BY <3>1
    <3>2. CASE account # None /\ account' = [account EXCEPT !.password = q.pw]
      <4>1. account' \in Account
        BY <1>0, <2>1, <3>2 DEF Account, CallFits
      <4>2. account' # None
        BY <4>1, SessionsAssumption
      <4> QED
        BY <1>0, <3>2, <4>2 DEF Account
    <3> QED
      BY <2>3, <3>1, <3>2
  <2>5. Current(call[c])'
    BY <1>1, <2>2 DEF Current
  <2>6. QuietState => SessionsMatch'
    BY <2>1, <2>4 DEF QuietState, SessionsMatch, Matches, Names
  <2>7. QuietState => ResetsInOrder'
    BY <2>1, <2>2, <2>4 DEF QuietState, ResetsInOrder
  <2>8. QuietState /\ (\A o \in Callers : o # c => call[o].pc = "idle")
          => (~unlogged' => StatusLogged')
    BY <2>1, <2>4, TrailKept
  <2> QED
    BY <2>1, <2>2, <2>5, <2>6, <2>7, <2>8, WrittenQuiet
<1>3. CASE Names(q.sub) /\ IssueSession(c)
  <2>1. /\ Ends(c) /\ q.pc \in {"session", "rotate"} /\ account # None
        /\ account.id = q.sub /\ UNCHANGED <<audit, resets, unlogged>>
        /\ account' = [account EXCEPT !.stored = TRUE]
    BY <1>3 DEF IssueSession, Names
  <2>2. /\ overlapped' = overlapped /\ ops' = ops /\ call'[c] = Idle
        /\ \A o \in Callers : o # c => call'[o] = call[o]
    BY <1>0, <2>1 DEF Ends
  <2>3. account' \in Account
    BY <1>0, <2>1, Written
  <2>4. /\ account' # None /\ account'.id = account.id /\ account'.stored
        /\ account'.reset = account.reset /\ account'.suspended = account.suspended
    BY <1>0, <2>1, <2>3, SessionsAssumption DEF Account
  <2>5. Current(call[c])'
    BY <1>1, <2>2 DEF Current
  <2>6. QuietState => SessionsMatch'
    <3> SUFFICES ASSUME QuietState, NEW t, t \in issued'
                 PROVE  Matches(t)' <=> t.sub \in live'
      BY DEF SessionsMatch
    <3>1. issued' = issued \cup {[sub |-> q.sub, at |-> clock]}
      BY <1>3 DEF IssueSession
    <3>2. live' = live \cup {q.sub}
      BY <1>3, <2>1 DEF IssueSession, QuietState, Current
    <3>3. Matches(t)' <=> t.sub = q.sub
      BY <2>1, <2>4 DEF Matches, Names
    <3>4. CASE t.sub = q.sub
      BY <3>2, <3>3, <3>4
    <3>5. CASE t.sub # q.sub
      <4>1. t \in issued
        BY <3>1, <3>5
      <4>2. ~Matches(t)
        BY <2>1, <3>5 DEF Matches, Names
      <4> QED
        BY <3>2, <3>3, <3>5, <4>1, <4>2 DEF QuietState, SessionsMatch
    <3> QED
      BY <3>4, <3>5
  <2>7. QuietState => ResetsInOrder'
    BY <2>1, <2>2, <2>4 DEF QuietState, ResetsInOrder
  <2>8. QuietState /\ (\A o \in Callers : o # c => call[o].pc = "idle")
          => (~unlogged' => StatusLogged')
    BY <2>1, <2>4, TrailKept
  <2> QED
    BY <2>1, <2>2, <2>5, <2>6, <2>7, <2>8, WrittenQuiet
<1>4. CASE Names(q.sub) /\ WriteReset(c)
  <2>1. /\ Ends(c) /\ q.pc = "reset" /\ account # None /\ q.pw \in Passwords
        /\ account.id = q.sub /\ UNCHANGED <<issued, audit, unlogged>>
        /\ account' = AfterReset(q.pw) /\ live' = live \ {q.sub}
        /\ resets' = Append(resets, [token |-> q.token, sub |-> q.sub, at |-> q.at])
        /\ [token |-> q.token, sub |-> q.sub, at |-> q.at] \in Used
    BY <1>0, <1>4 DEF WriteReset, Names, CallFits, Used
  <2>2. /\ overlapped' = overlapped /\ ops' = ops /\ call'[c] = Idle
        /\ \A o \in Callers : o # c => call'[o] = call[o]
    BY <1>0, <2>1 DEF Ends
  <2>3. account' \in Account
    BY <1>0, <2>1 DEF AfterReset, Account
  <2>4. /\ account' # None /\ account'.id = account.id /\ ~account'.stored
        /\ account'.reset = 0 /\ account'.suspended = account.suspended
    BY <1>0, <2>1, <2>3, SessionsAssumption DEF AfterReset, Account
  <2>5. Current(call[c])'
    BY <1>1, <2>2 DEF Current
  <2>6. QuietState => SessionsMatch'
    BY <2>1, <2>4 DEF QuietState, SessionsMatch, Matches, Names
  <2>7. QuietState => ResetsInOrder'
    <3> SUFFICES ASSUME QuietState PROVE ResetsInOrder'
      OBVIOUS
    <3>1. q.token \in 1 .. ops /\ \A i \in DOMAIN resets : resets[i].token <= ops
      BY <2>1 DEF QuietState, Current, ResetsInOrder
    <3>2. /\ DOMAIN resets' = 1 .. Len(resets) + 1 /\ DOMAIN resets = 1 .. Len(resets)
          /\ Len(resets) \in Nat
          /\ \A i \in DOMAIN resets : resets'[i] = resets[i]
          /\ resets'[Len(resets) + 1].token = q.token
      BY <1>0, <2>1
    <3>3. \A i \in DOMAIN resets' : resets'[i].token <= ops'
      BY <1>0, <2>2, <3>1, <3>2
    <3> QED
      BY <1>0, <2>2, <2>4, <3>3 DEF ResetsInOrder
  <2>8. QuietState /\ (\A o \in Callers : o # c => call[o].pc = "idle")
          => (~unlogged' => StatusLogged')
    BY <2>1, <2>4, TrailKept
  <2> QED
    BY <2>1, <2>2, <2>5, <2>6, <2>7, <2>8, WrittenQuiet
<1>5. CASE Names(q.sub) /\ WriteStatus(c)
  <2>1. /\ Goes(c, "audit") /\ q.pc = "status" /\ account # None
        /\ account.id = q.sub /\ UNCHANGED <<issued, live, audit, resets, unlogged>>
        /\ account' = [account EXCEPT !.suspended = q.flag] /\ q.flag \in BOOLEAN
    BY <1>0, <1>5 DEF WriteStatus, Names, CallFits, history
  <2>2. /\ overlapped' = overlapped /\ ops' = ops
        /\ \A o \in Callers : o # c => call'[o] = call[o]
        /\ call'[c] = [q EXCEPT !.pc = "audit"]
    BY <1>0, <2>1 DEF Goes
  <2>9. /\ call'[c].pc = "audit" /\ call'[c].sub = q.sub
        /\ call'[c].flag = q.flag /\ call'[c].at = q.at
    BY <1>0, <2>2 DEF CallFits, Fields
  <2>3. account' \in Account
    BY <1>0, <2>1, Written
  <2>4. /\ account' # None /\ account'.id = account.id
        /\ account'.stored = account.stored
        /\ account'.reset = account.reset /\ account'.suspended = q.flag
    BY <1>0, <2>1, <2>3, SessionsAssumption DEF Account
  <2>10. \A id, v : LastSays(id, v)' <=> LastSays(id, v)
    BY <2>1 DEF LastSays, Entries
  <2>5. Current(call[c])'
    <3>1. QuietState /\ AloneAtWork
      BY <2>2 DEF QuietInv, QuietState
    <3>2. \A o \in Callers : call[o].pc # "audit"
      BY <2>1, <3>1 DEF AloneAtWork
    <3>3. ~unlogged => LastSays(account.id, account.suspended)
      BY <2>1, <3>1, <3>2 DEF QuietState, StatusLogged
    <3>4. q.at = 1 <=> account.suspended
      BY <2>1, <3>1 DEF QuietState, Current
    <3>6. ~unlogged => LastSays(q.sub, q.at = 1)
      <4>1. (q.at = 1) = account.suspended
        BY <1>0, <2>1, <3>4 DEF Account
      <4> QED
        BY <2>1, <3>3, <4>1
    <3>7. ~unlogged' => LastSays(q.sub, q.at = 1)'
      BY <2>1, <2>9, <3>6 DEF LastSays, Entries
    <3>5. Names(q.sub)'
      BY <2>1, <2>4, <2>9 DEF Names
    <3> QED
      BY <2>4, <2>9, <3>5, <3>7 DEF Current
  <2>6. QuietState => SessionsMatch'
    BY <2>1, <2>4 DEF QuietState, SessionsMatch, Matches, Names
  <2>7. QuietState => ResetsInOrder'
    BY <2>1, <2>2, <2>4 DEF QuietState, ResetsInOrder
  <2>8. QuietState /\ (\A o \in Callers : o # c => call[o].pc = "idle")
          => (~unlogged' => StatusLogged')
    <3>1. Chained' <=> Chained
      BY <2>1 DEF Chained
    <3> QED
      BY <2>1, <2>9, <3>1 DEF QuietState, StatusLogged
  <2> QED
    BY <2>1, <2>2, <2>5, <2>6, <2>7, <2>8, WrittenQuiet
<1> QED
  BY <1>2, <1>3, <1>4, <1>5

(* The entry continues the trail and ends in the status the row has.        *)
LEMMA LogExtends ==
    ASSUME QuietInv, QuietState, NEW c \in Callers, call[c].pc = "audit",
           ~unlogged, audit' = Append(audit, StatusEntry(call[c])), account' = account
    PROVE  StatusLogged'
<1> DEFINE q == call[c]
           e == StatusEntry(q)
           n == Len(audit)
<1>1. /\ audit \in Seq(Entry) /\ CallFits(q)
      /\ account.id = q.sub /\ account # None /\ account.suspended = q.flag
      /\ LastSays(q.sub, q.at = 1) /\ Chained
  BY DEF QuietInv, TrialInv, QuietState, Current, Names, StatusLogged
<1>2. e.sub = q.sub /\ e.before = (q.at = 1) /\ e.after = q.flag /\ e \in Entry
  BY <1>1 DEF StatusEntry, Entry, CallFits
<1> HIDE DEF e
<1>3. /\ n \in Nat /\ DOMAIN audit = 1 .. n /\ DOMAIN audit' = 1 .. n + 1
      /\ \A i \in 1 .. n : audit'[i] = audit[i]
      /\ audit'[n + 1] = e
  BY <1>1, <1>2 DEF e
<1> HIDE DEF n, q
<1>4. Chained'
  <2> SUFFICES ASSUME NEW i \in 1 .. n + 1
               PROVE  LET earlier == {j \in 1 .. i - 1 : audit'[j].sub = audit'[i].sub}
                      IN  /\ earlier = {} => ~audit'[i].before
                          /\ \A j \in earlier : (\A k \in earlier : k <= j)
                                => audit'[j].after = audit'[i].before
    BY <1>3 DEF Chained
  <2>1. CASE i \in 1 .. n
    <3>1. \A j \in 1 .. i - 1 : audit'[j] = audit[j]
      BY <1>3, <2>1
    <3>2. audit'[i] = audit[i]
      BY <1>3, <2>1
    <3>3. {j \in 1 .. i - 1 : audit'[j].sub = audit'[i].sub}
            = {j \in 1 .. i - 1 : audit[j].sub = audit[i].sub}
      BY <3>1, <3>2
    <3> DEFINE earlier == {j \in 1 .. i - 1 : audit[j].sub = audit[i].sub}
    <3>4. /\ earlier = {} => ~audit[i].before
          /\ \A j \in earlier : (\A k \in earlier : k <= j)
                => audit[j].after = audit[i].before
      BY <1>1, <1>3, <2>1 DEF Chained
    <3>5. \A j \in earlier : audit'[j] = audit[j]
      BY <3>1
    <3> HIDE DEF earlier
    <3> QED
      BY <3>2, <3>3, <3>4, <3>5 DEF earlier
  <2>2. CASE i = n + 1
    <3> DEFINE earlier == {j \in 1 .. n : audit[j].sub = q.sub}
    <3>1. earlier = Entries(q.sub)
      BY <1>3 DEF Entries
    <3>2. audit'[i] = e /\ i - 1 = n
      BY <1>3, <2>2
    <3>3. {j \in 1 .. i - 1 : audit'[j].sub = audit'[i].sub} = earlier
      BY <1>2, <1>3, <3>2
    <3>4. /\ earlier = {} => ~(q.at = 1)
          /\ \A j \in earlier : (\A k \in earlier : k <= j) => audit[j].after = (q.at = 1)
      BY <1>1, <3>1 DEF LastSays
    <3>5. \A j \in earlier : audit'[j] = audit[j]
      BY <1>3
    <3> HIDE DEF earlier
    <3> QED
      BY <1>2, <3>2, <3>3, <3>4, <3>5
  <2> QED
    BY <1>3, <2>1, <2>2
<1>5. LastSays(account.id, account.suspended)'
  <2>1. /\ n + 1 \in Entries(account.id)'
        /\ \A i \in Entries(account.id)' : i \in 1 .. n + 1
    BY <1>1, <1>2, <1>3 DEF Entries
  <2>2. \A i \in Entries(account.id)' : i >= n + 1 => i = n + 1
    BY <1>3, <2>1
  <2>3. audit'[n + 1].after = account'.suspended
    BY <1>1, <1>2, <1>3
  <2> QED
    BY <2>1, <2>2, <2>3 DEF LastSays
<1> QED
  BY <1>4, <1>5 DEF StatusLogged

LEMMA LogQuiet ==
    ASSUME QuietInv, ~overlapped', NEW c \in Callers, LogStatus(c)
    PROVE  QuietState'
<1>1. /\ call[c].pc = "audit" /\ Ends(c)
      /\ UNCHANGED <<account, issued, live, resets>>
      /\ unlogged' \/ (unlogged' = unlogged
                         /\ audit' = Append(audit, StatusEntry(call[c])))
  BY DEF LogStatus
<1>2. /\ overlapped' = overlapped /\ ops' = ops /\ call'[c] = Idle
      /\ \A o \in Callers : o # c => call'[o] = call[o]
  BY <1>1 DEF Ends, QuietInv, TrialInv
<1>3. Current(call[c])'
  BY <1>2 DEF Current, Idle
<1>4. QuietState => SessionsMatch'
  BY <1>1 DEF QuietState, SessionsMatch, Matches, Names
<1>5. QuietState => ResetsInOrder'
  BY <1>1, <1>2 DEF QuietState, ResetsInOrder
<1>6. QuietState => (~unlogged' => StatusLogged')
  BY <1>1, LogExtends
<1> QED
  BY <1>1, <1>2, <1>3, <1>4, <1>5, <1>6, WrittenQuiet

(* What happens at once happens while nobody is at work.                    *)
LEMMA AtOnceQuiet ==
    ASSUME QuietInv, ~overlapped', Logout \/ ForgotPassword \/ DeleteAccount
    PROVE  QuietState'
<1>1. /\ QuietState /\ Open = {} /\ ops' = ops + 1 /\ ops \in Nat
      /\ call' = call /\ UNCHANGED <<issued, audit, resets, unlogged>>
      /\ account \in Account
  BY DEF Logout, ForgotPassword, DeleteAccount, AtOnce, Counts, QuietInv, TrialInv,
         history
<1>2. \A o \in Callers : call[o].pc = "idle"
  BY <1>1 DEF Open
<1>3. AloneAtWork' /\ \A o \in Callers : Current(call[o])'
  BY <1>1, <1>2 DEF AloneAtWork, Current
<1>4. \A i \in DOMAIN resets : resets[i].token \in Nat
  BY TokensUsed
<1>5. Chained' <=> Chained
  BY <1>1 DEF Chained
<1>6. \A id, v : LastSays(id, v)' <=> LastSays(id, v)
  BY <1>1 DEF LastSays, Entries
<1>7. CASE Logout
  <2>1. /\ account # None /\ account' = [account EXCEPT !.stored = FALSE]
        /\ live' = live \ {account.id}
    BY <1>7 DEF Logout
  <2>2. account' \in Account
    BY <1>1, <2>1, Written
  <2>3. /\ account' # None /\ account'.id = account.id /\ ~account'.stored
        /\ account'.reset = account.reset /\ account'.suspended = account.suspended
        /\ account.reset \in Nat
    BY <1>1, <2>1, <2>2, SessionsAssumption DEF Account
  <2>4. SessionsMatch'
    BY <1>1, <2>1, <2>3 DEF QuietState, SessionsMatch, Matches, Names
  <2>5. ResetsInOrder'
    BY <1>1, <1>4, <2>1, <2>3 DEF QuietState, ResetsInOrder
  <2>6. ~unlogged' => StatusLogged'
    BY <1>1, <1>2, <1>5, <1>6, <2>1, <2>3 DEF QuietState, StatusLogged
  <2> QED
    BY <1>3, <2>4, <2>5, <2>6 DEF QuietState
<1>8. CASE ForgotPassword
  <2>1. /\ account # None /\ clock \in Nat
        /\ account' = [account EXCEPT !.reset = ops + 1, !.resetAt = clock]
        /\ live' = live
    BY <1>8 DEF ForgotPassword, QuietInv, TrialInv, history
  <2>2. account' \in Account
    <3>1. ops + 1 \in Nat
      BY <1>1
    <3> QED
      BY <1>1, <2>1, <3>1, Written
  <2>3. /\ account' # None /\ account'.id = account.id /\ account'.stored = account.stored
        /\ account'.reset = ops + 1 /\ account'.suspended = account.suspended
    BY <1>1, <2>1, <2>2, SessionsAssumption DEF Account
  <2>4. SessionsMatch'
    BY <1>1, <2>1, <2>3 DEF QuietState, SessionsMatch, Matches, Names
  <2>5. ResetsInOrder'
    BY <1>1, <1>4, <2>1, <2>3 DEF QuietState, ResetsInOrder
  <2>6. ~unlogged' => StatusLogged'
    BY <1>1, <1>2, <1>5, <1>6, <2>1, <2>3 DEF QuietState, StatusLogged
  <2> QED
    BY <1>3, <2>4, <2>5, <2>6 DEF QuietState
<1>9. CASE DeleteAccount
  <2>1. account # None /\ account' = None /\ live' = live \ {account.id}
    BY <1>9 DEF DeleteAccount
  <2>2. SessionsMatch'
    BY <1>1, <2>1 DEF QuietState, SessionsMatch, Matches, Names
  <2>3. ResetsInOrder'
    BY <1>1, <1>4, <2>1 DEF QuietState, ResetsInOrder
  <2>4. ~unlogged' => StatusLogged'
    BY <1>1, <1>5, <2>1 DEF QuietState, StatusLogged
  <2> QED
    BY <1>3, <2>2, <2>3, <2>4 DEF QuietState
<1> QED
  BY <1>7, <1>8, <1>9

(* The trail and the resets only grow, with entries of accounts that exist.  *)
LEMMA HistoriesGrow ==
    ASSUME QuietInv, Next
    PROVE  /\ audit' \in Seq(Entry) /\ \A i \in DOMAIN audit' : audit'[i].sub <= accounts'
           /\ resets' \in Seq(Used) /\ unlogged' \in BOOLEAN
<1>0. /\ audit \in Seq(Entry) /\ \A i \in DOMAIN audit : audit[i].sub <= accounts
      /\ resets \in Seq(Used) /\ unlogged \in BOOLEAN /\ accounts \in Nat
      /\ \A c \in Callers : CallFits(call[c])
  BY DEF QuietInv, TrialInv
<1>1. accounts' \in {accounts, accounts + 1}
  BY DEF Next, SignUp, SignIn, FindReset, ChangePassword, Refresh, ReadStatus,
     InsertUser, StartTrial, ReadTrial, CreateTrial, IssueSession, WriteReset,
     WritePassword, WriteStatus, LogStatus, Abandon, Logout, ForgotPassword,
     DeleteAccount, Tick, tables
<1>2. \/ audit' = audit
      \/ \E c \in Callers :
            call[c].pc = "audit" /\ audit' = Append(audit, StatusEntry(call[c]))
  BY DEF Next, SignUp, SignIn, FindReset, ChangePassword, Refresh, ReadStatus,
     InsertUser, StartTrial, ReadTrial, CreateTrial, IssueSession, WriteReset,
     WritePassword, WriteStatus, LogStatus, Abandon, Logout, ForgotPassword,
     DeleteAccount, Tick, tables
<1>3. \/ resets' = resets
      \/ \E c \in Callers :
            /\ call[c].pc = "reset"
            /\ resets' = Append(resets, [token |-> call[c].token, sub |-> call[c].sub,
                                         at |-> call[c].at])
  BY DEF Next, SignUp, SignIn, FindReset, ChangePassword, Refresh, ReadStatus,
     InsertUser, StartTrial, ReadTrial, CreateTrial, IssueSession, WriteReset,
     WritePassword, WriteStatus, LogStatus, Abandon, Logout, ForgotPassword,
     DeleteAccount, Tick, tables, history
<1>4. unlogged' \in BOOLEAN
  BY <1>0 DEF Next, SignUp, SignIn, FindReset, ChangePassword, Refresh, ReadStatus,
     InsertUser, StartTrial, ReadTrial, CreateTrial, IssueSession, WriteReset,
     WritePassword, WriteStatus, LogStatus, Abandon, Logout, ForgotPassword,
     DeleteAccount, Tick, history
<1>5. audit' \in Seq(Entry) /\ \A i \in DOMAIN audit' : audit'[i].sub <= accounts'
  <2>0. \A i \in DOMAIN audit : audit[i] \in Entry
    BY <1>0
  <2>1. CASE audit' = audit
    BY <1>0, <1>1, <2>0, <2>1 DEF Entry
  <2>2. ASSUME NEW c \in Callers, call[c].pc = "audit",
               audit' = Append(audit, StatusEntry(call[c]))
        PROVE  audit' \in Seq(Entry) /\ \A i \in DOMAIN audit' : audit'[i].sub <= accounts'
    <3> DEFINE e == StatusEntry(call[c])
    <3>1. e \in Entry /\ e.sub <= accounts
      BY <1>0, <2>2 DEF StatusEntry, Entry, CallFits
    <3> HIDE DEF e
    <3>2. /\ audit' \in Seq(Entry)
          /\ \A i \in DOMAIN audit' :
                \/ i \in DOMAIN audit /\ audit'[i] = audit[i]
                \/ audit'[i] = e
      BY <1>0, <2>2, <3>1 DEF e
    <3>3. \A i \in DOMAIN audit' : audit'[i].sub <= accounts
      BY <1>0, <3>1, <3>2
    <3>4. \A i \in DOMAIN audit' : audit'[i].sub \in Nat
      BY <2>0, <3>1, <3>2 DEF Entry
    <3> QED
      BY <1>0, <1>1, <3>2, <3>3, <3>4
  <2> QED
    BY <1>2, <2>1, <2>2
<1>6. resets' \in Seq(Used)
  <2>1. ASSUME NEW c \in Callers, call[c].pc = "reset",
               resets' = Append(resets, [token |-> call[c].token, sub |-> call[c].sub,
                                         at |-> call[c].at])
        PROVE  resets' \in Seq(Used)
    <3>1. [token |-> call[c].token, sub |-> call[c].sub, at |-> call[c].at] \in Used
      BY <1>0, <2>1 DEF CallFits, Used
    <3> QED
      BY <1>0, <2>1, <3>1
  <2> QED
    BY <1>0, <1>3, <2>1
<1> QED
  BY <1>4, <1>5, <1>6

LEMMA QuietStep == QuietInv /\ [Next]_vars => QuietInv'
<1> SUFFICES ASSUME QuietInv, [Next]_vars PROVE QuietInv'
  OBVIOUS
<1>1. TrialInv'
  BY TrialStep DEF QuietInv
<1>2. CASE UNCHANGED vars
  BY <1>1, <1>2 DEF vars, tables, history, QuietInv, QuietState, AloneAtWork, SessionsMatch,
     Matches, Names, ResetsInOrder, StatusLogged, Chained, LastSays, Entries, Current
<1>3. CASE Next
  <2>1. ASSUME ~overlapped' PROVE QuietState'
    <3>1. ASSUME NEW c \in Callers, InsertUser(c) PROVE QuietState'
      BY <2>1, <3>1, EndsQuiet, InsertQuiet
    <3>2. ASSUME NEW c \in Callers, IssueSession(c) \/ WriteReset(c) \/ WriteStatus(c)
          PROVE  QuietState'
      BY <2>1, <3>2, EndsQuiet, WritesQuiet
    <3>3. CASE Tick
      <4>1. /\ ~overlapped /\ QuietState
            /\ UNCHANGED <<tables, call, ops, history>>
        BY <2>1, <3>3 DEF Tick, QuietInv
      <4> QED
        BY <4>1 DEF tables, history, QuietState, AloneAtWork, SessionsMatch,
           Matches, Names, ResetsInOrder, StatusLogged, Chained, LastSays, Entries, Current
    <3> QED
      BY <1>3, <2>1, <3>1, <3>2, <3>3, StartsQuiet, EndsQuiet, WritesQuiet, LogQuiet,
         AtOnceQuiet DEF Next
  <2> QED
    BY <1>1, <1>3, <2>1, HistoriesGrow DEF QuietInv
<1> QED
  BY <1>2, <1>3

LEMMA QuietStart == Init => QuietInv
<1> SUFFICES ASSUME Init PROVE QuietInv
  OBVIOUS
<1>1. Idle.pc = "idle"
  BY DEF Idle
<1>2. /\ audit = <<>> /\ resets = <<>> /\ issued = {} /\ account = None
      /\ unlogged = FALSE /\ \A c \in Callers : call[c].pc = "idle"
  BY <1>1 DEF Init
<1>3. audit \in Seq(Entry) /\ DOMAIN audit = {} /\ resets \in Seq(Used) /\ DOMAIN resets = {}
  BY <1>2
<1>4. QuietState
  BY <1>2, <1>3 DEF QuietState, AloneAtWork, SessionsMatch, ResetsInOrder, StatusLogged,
     Chained, Current
<1> QED
  BY <1>2, <1>3, <1>4, TrialStart DEF QuietInv

LEMMA QuietAlways == Spec => []QuietInv
  BY QuietStart, QuietStep, PTL DEF Spec

(* While requests do not overlap, a refresh token works exactly until the   *)
(* last session of its account is ended by a logout, a password reset or a  *)
(* deletion, and a later account with the address accepts none of the old   *)
(* tokens (auth.service.ts:76).                                            *)
THEOREM SessionsEnded == Spec => []SessionsEnd
<1>1. QuietInv => SessionsEnd
  BY DEF QuietInv, QuietState, SessionsMatch, SessionsEnd
<1> QED
  BY <1>1, QuietAlways, PTL

(* Reset tokens are numbered as they are made; the row holds the newest of   *)
(* its account, and a request that found one found it young.                *)
Newest(id, token) == \A b \in asked : b.sub = id => b.token <= token

Found(q) ==
    q.pc = "reset" => \E a \in asked :
        a.token = q.token /\ a.sub = q.sub /\ q.at < a.at + ResetLife

AskedInv ==
    /\ \A a \in asked : a.token \in Nat /\ a.token <= ops
    /\ account # None /\ account.reset # 0 =>
          /\ [token |-> account.reset, sub |-> account.id, at |-> account.resetAt] \in asked
          /\ Newest(account.id, account.reset)
    /\ \A c \in Callers : Found(call[c])

(* A step that asks for no token and finds none.                            *)
LEMMA AskedSame ==
    ASSUME TrialInv, AskedInv, asked' = asked, ops' \in Nat, ops' >= ops,
           account' # None =>
              \/ account'.reset = 0
              \/ /\ account # None /\ account'.id = account.id
                 /\ account'.reset = account.reset /\ account'.resetAt = account.resetAt,
           \A c \in Callers : call'[c].pc = "reset" => call'[c] = call[c]
    PROVE  AskedInv'
<1>1. \A a \in asked' : a.token \in Nat /\ a.token <= ops'
  BY DEF TrialInv, AskedInv
<1>2. \A c \in Callers : Found(call[c])'
  BY DEF AskedInv, Found
<1> QED
  BY <1>1, <1>2 DEF AskedInv, Newest

LEMMA AskedStep == TrialInv /\ TrialInv' /\ AskedInv /\ [Next]_vars => AskedInv'
<1> SUFFICES ASSUME TrialInv, TrialInv', AskedInv, [Next]_vars PROVE AskedInv'
  OBVIOUS
<1>0. /\ ops \in Nat /\ call = [c \in Callers |-> call[c]] /\ clock \in Nat
      /\ account # None => account \in Account
      /\ \A c \in Callers : CallFits(call[c])
  BY DEF TrialInv
<1>1. CASE UNCHANGED vars
  BY <1>1 DEF vars, tables, history, AskedInv, Newest, Found
<1>2. CASE ForgotPassword
  <2> DEFINE new == [token |-> ops + 1, sub |-> account.id, at |-> clock]
  <2>1. /\ account # None /\ ops' = ops + 1 /\ call' = call
        /\ account' = [account EXCEPT !.reset = ops + 1, !.resetAt = clock]
        /\ asked' = asked \cup {new}
    BY <1>2 DEF ForgotPassword, AtOnce, Counts
  <2>2. account'.id = account.id /\ account'.reset = ops + 1 /\ account'.resetAt = clock
    BY <1>0, <2>1 DEF Account
  <2>3. \A a \in asked' : a.token \in Nat /\ a.token <= ops'
    BY <1>0, <2>1 DEF AskedInv
  <2>4. /\ [token |-> account'.reset, sub |-> account'.id, at |-> account'.resetAt] \in asked'
        /\ Newest(account.id, account.reset)'
    BY <2>1, <2>2, <2>3 DEF Newest
  <2>5. \A c \in Callers : Found(call[c])'
    BY <2>1 DEF AskedInv, Found
  <2> QED
    BY <2>3, <2>4, <2>5 DEF AskedInv
<1>3. ASSUME NEW c \in Callers, NEW token \in 1 .. ops, NEW pw \in Passwords,
             FindReset(c, token, pw)
      PROVE  AskedInv'
  <2> DEFINE q == [Idle EXCEPT !.pc = "reset", !.sub = account.id, !.token = token,
                               !.at = clock, !.pw = pw]
  <2>1. /\ call' = [call EXCEPT ![c] = q] /\ ops' = ops + 1
        /\ UNCHANGED <<account, asked>> /\ account # None /\ account.reset = token
        /\ clock < account.resetAt + ResetLife /\ token # 0
    <3>1. token # 0
      BY <1>0
    <3> QED
      BY <1>3, <3>1 DEF FindReset, FindsToken, Starts, Counts, tables, history
  <2>2. q.pc = "reset" /\ q.token = token /\ q.sub = account.id /\ q.at = clock
    BY IdleShape DEF Fields
  <2> HIDE DEF q
  <2>3. \E a \in asked' :
           a.token = q.token /\ a.sub = q.sub /\ q.at < a.at + ResetLife
    BY <2>1, <2>2 DEF AskedInv
  <2>4. \A o \in Callers : call'[o] = IF o = c THEN q ELSE call[o]
    BY <1>0, <2>1
  <2>5. \A o \in Callers : Found(call[o])'
    BY <2>1, <2>3, <2>4 DEF AskedInv, Found
  <2>6. \A a \in asked' : a.token \in Nat /\ a.token <= ops'
    BY <1>0, <2>1 DEF AskedInv
  <2> QED
    BY <2>1, <2>5, <2>6 DEF AskedInv, Newest
(* The others take no token up.                                             *)
<1>4. ASSUME NEW c \in Callers, NEW q, q.pc # "reset", call' = [call EXCEPT ![c] = q]
      PROVE  \A o \in Callers : call'[o].pc = "reset" => call'[o] = call[o]
  BY <1>0, <1>4
<1>5. Idle.pc = "idle"
  BY DEF Idle
<1>6. ASSUME NEW c \in Callers,
             \/ \E pw \in Passwords : SignUp(c, pw) \/ SignIn(c, pw)
             \/ \E old, pw \in Passwords : ChangePassword(c, old, pw)
             \/ \E t \in issued : Refresh(c, t)
             \/ \E suspend \in BOOLEAN : ReadStatus(c, suspend)
             \/ ReadTrial(c)
      PROVE  AskedInv'
  <2>1. PICK q : q.pc # "reset" /\ Starts(c, q) /\ UNCHANGED <<account, asked>>
    <3>1. \A v, w, x :
            /\ [Idle EXCEPT !.pc = "insert", !.pw = v].pc = "insert"
            /\ [Idle EXCEPT !.pc = "session", !.sub = v].pc = "session"
            /\ [Idle EXCEPT !.pc = "change", !.sub = v, !.pw = w].pc = "change"
            /\ [Idle EXCEPT !.pc = "rotate", !.sub = v].pc = "rotate"
            /\ [Idle EXCEPT !.pc = "status", !.sub = v, !.flag = w, !.at = x].pc = "status"
            /\ [Idle EXCEPT !.pc = "resolve", !.sub = v, !.at = w].pc = "resolve"
      BY IdleShape DEF Fields
    <3> QED
      BY <1>6, <3>1 DEF SignUp, SignIn, ChangePassword, Refresh, ReadStatus, ReadTrial,
         tables, history
  <2>2. call' = [call EXCEPT ![c] = q] /\ ops' = ops + 1
    BY <2>1 DEF Starts, Counts
  <2> QED
    BY <1>0, <1>4, <2>1, <2>2, AskedSame
<1>7. ASSUME NEW c \in Callers,
             \/ InsertUser(c) \/ StartTrial(c) \/ CreateTrial(c) \/ IssueSession(c)
             \/ WriteReset(c) \/ WritePassword(c) \/ WriteStatus(c) \/ LogStatus(c)
             \/ Abandon(c)
      PROVE  AskedInv'
  <2>1. PICK q : q.pc # "reset" /\ call' = [call EXCEPT ![c] = q]
    <3>1. CASE Ends(c)
      BY <1>5, <3>1 DEF Ends
    <3>2. ASSUME NEW pc \in {"session", "audit"}, Goes(c, pc)
          PROVE  \E q : q.pc # "reset" /\ call' = [call EXCEPT ![c] = q]
      <4>1. [call[c] EXCEPT !.pc = pc].pc = pc
        BY <1>0 DEF CallFits, Fields
      <4> QED
        BY <3>2, <4>1 DEF Goes
    <3>3. CASE call' = [call EXCEPT ![c].pc = "trial", ![c].sub = accounts + 1]
      <4> DEFINE w == [[call[c] EXCEPT !.pc = "trial"] EXCEPT !.sub = accounts + 1]
      <4>1. call' = [call EXCEPT ![c] = w]
        BY <1>0, <3>3
      <4>2. w.pc = "trial"
        BY <1>0 DEF CallFits, Fields
      <4> QED
        BY <4>1, <4>2
    <3> QED
      BY <1>7, <3>1, <3>2, <3>3 DEF InsertUser, StartTrial, CreateTrial, IssueSession,
         WriteReset, WritePassword, WriteStatus, LogStatus, Abandon
  <2>2. ops' = ops /\ asked' = asked
    BY <1>7 DEF InsertUser, StartTrial, CreateTrial, IssueSession, WriteReset,
       WritePassword, WriteStatus, LogStatus, Abandon, Ends, Goes, history
  <2>3. account' # None =>
           \/ account'.reset = 0
           \/ /\ account # None /\ account'.id = account.id
              /\ account'.reset = account.reset /\ account'.resetAt = account.resetAt
    <3>1. CASE account' = account
      BY <3>1
    <3>2. CASE InsertUser(c) /\ account' # account
      BY <3>2 DEF InsertUser
    <3>3. CASE WriteReset(c) /\ account' # account
      <4>1. account # None /\ account' = AfterReset(call[c].pw)
        BY <3>3 DEF WriteReset, Names
      <4> QED
        BY <1>0, <4>1 DEF AfterReset, Account
    <3>4. \/ account' = account \/ InsertUser(c) \/ WriteReset(c)
          \/ /\ account # None
             /\ \E v : \/ account' = [account EXCEPT !.stored = v]
                      \/ account' = [account EXCEPT !.password = v]
                      \/ account' = [account EXCEPT !.suspended = v]
      BY <1>7 DEF StartTrial, CreateTrial, IssueSession, WritePassword, WriteStatus,
         LogStatus, Abandon, tables, Names
    <3>5. CASE account # None
               /\ \E v : \/ account' = [account EXCEPT !.stored = v]
                        \/ account' = [account EXCEPT !.password = v]
                        \/ account' = [account EXCEPT !.suspended = v]
      BY <1>0, <3>5 DEF Account
    <3> QED
      BY <3>1, <3>2, <3>3, <3>4, <3>5
  <2> QED
    BY <1>0, <1>4, <2>1, <2>2, <2>3, AskedSame
<1>8. CASE Logout \/ DeleteAccount
  <2>1. ops' = ops + 1 /\ asked' = asked /\ call' = call /\ account # None
        /\ (account' = None \/ account' = [account EXCEPT !.stored = FALSE])
    BY <1>8 DEF Logout, DeleteAccount, AtOnce, Counts
  <2> QED
    BY <1>0, <2>1, AskedSame DEF Account
<1>9. CASE Tick
  BY <1>0, <1>9, AskedSame DEF Tick, tables, history
<1> QED
  BY <1>1, <1>2, <1>3, <1>6, <1>7, <1>8, <1>9 DEF Next

LEMMA AskedStart == Init => AskedInv
<1> SUFFICES ASSUME Init PROVE AskedInv
  OBVIOUS
<1>1. Idle.pc = "idle"
  BY DEF Idle
<1> QED
  BY <1>1 DEF Init, AskedInv, Found

LEMMA AskedAlways == Spec => []AskedInv
<1>1. Spec => []TrialInv
  BY TrialStart, TrialStep, PTL DEF Spec
<1> QED
  BY <1>1, AskedStart, AskedStep, PTL DEF Spec

(* A reset token changes only the account it was made for and was found      *)
(* while it was young, whatever overlaps; while requests do not overlap it  *)
(* is the newest of the account and used for the first time                 *)
(* (auth.service.ts:188).                                                   *)
THEOREM ResetsInTurn == Spec => ResetsOnce
<1>1. QuietInv /\ AskedInv /\ [Next]_vars =>
        [resets' # resets =>
           LET u == resets'[Len(resets')]
           IN  \E a \in asked :
                  /\ a.token = u.token /\ a.sub = u.sub /\ u.at < a.at + ResetLife
                  /\ ~overlapped =>
                        /\ \A b \in asked : b.sub = u.sub => b.token <= u.token
                        /\ \A i \in DOMAIN resets : resets[i].token # u.token]_vars
  <2> DEFINE u == resets'[Len(resets')]
  <2> SUFFICES ASSUME QuietInv, AskedInv, Next, resets' # resets
               PROVE  \E a \in asked :
                         /\ a.token = u.token /\ a.sub = u.sub
                         /\ u.at < a.at + ResetLife
                         /\ ~overlapped =>
                               /\ \A b \in asked : b.sub = u.sub => b.token <= u.token
                               /\ \A i \in DOMAIN resets : resets[i].token # u.token
    OBVIOUS
  <2>1. PICK c \in Callers : WriteReset(c) /\ Names(call[c].sub)
    BY DEF Next, SignUp, SignIn, FindReset, ChangePassword, Refresh, ReadStatus,
       InsertUser, StartTrial, ReadTrial, CreateTrial, IssueSession, WriteReset,
       WritePassword, WriteStatus, LogStatus, Abandon, Logout, ForgotPassword,
       DeleteAccount, Tick, history
  <2> DEFINE q == call[c]
             e == [token |-> q.token, sub |-> q.sub, at |-> q.at]
  <2>2. q.pc = "reset" /\ resets' = Append(resets, e) /\ resets \in Seq(Used) /\ CallFits(q)
    BY <2>1 DEF WriteReset, QuietInv, TrialInv
  <2>3. e \in Used
    BY <2>2 DEF CallFits, Used
  <2>4. u = e
    BY <2>2, <2>3
  <2>5. PICK a \in asked : a.token = q.token /\ a.sub = q.sub /\ q.at < a.at + ResetLife
    BY <2>2 DEF AskedInv, Found
  <2>6. u.token = q.token /\ u.sub = q.sub /\ u.at = q.at
    BY <2>4
  <2> HIDE DEF e, u
  <2>7. ASSUME ~overlapped
        PROVE  /\ \A b \in asked : b.sub = u.sub => b.token <= u.token
               /\ \A i \in DOMAIN resets : resets[i].token # u.token
    <3>1. /\ q.token \in 1 .. ops /\ account # None /\ account.id = q.sub
          /\ account.reset = q.token
          /\ \A i \in DOMAIN resets : resets[i].token < q.token
      BY <2>2, <2>7 DEF QuietInv, QuietState, Current, Names
    <3>2. Newest(q.sub, q.token)
      BY <3>1 DEF AskedInv, QuietInv, TrialInv
    <3>3. ops \in Nat /\ \A i \in DOMAIN resets : resets[i].token \in Nat
      BY TokensUsed DEF QuietInv, TrialInv
    <3> QED
      BY <2>6, <3>1, <3>2, <3>3 DEF Newest
  <2> QED
    BY <2>5, <2>6, <2>7
<1> QED
  BY <1>1, QuietAlways, AskedAlways, PTL DEF Spec, ResetsOnce

(* While requests do not overlap and no entry is lost, the audit trail of   *)
(* an account begins unsuspended, is a chain, and ends in the status the    *)
(* row has (admin-users.service.ts:230).                                    *)
THEOREM AuditChained == Spec => []AuditChain
<1>1. QuietInv => AuditChain
  <2> SUFFICES ASSUME QuietInv, ~overlapped, ~unlogged, NEW i \in DOMAIN audit
               PROVE
        LET earlier == {j \in 1 .. i - 1 : audit[j].sub = audit[i].sub}
            later == {j \in i + 1 .. Len(audit) : audit[j].sub = audit[i].sub}
        IN  /\ earlier = {} => ~audit[i].before
            /\ \A j \in earlier :
                  (\A k \in earlier : k <= j) => audit[j].after = audit[i].before
            /\ later = {} /\ Names(audit[i].sub)
                  /\ (\A c \in Callers : call[c].pc # "audit")
                  => account.suspended = audit[i].after
    BY DEF AuditChain
  <2>1. StatusLogged /\ audit \in Seq(Entry)
    BY DEF QuietInv, QuietState
  <2>2. ASSUME {j \in i + 1 .. Len(audit) : audit[j].sub = audit[i].sub} = {},
               Names(audit[i].sub), \A c \in Callers : call[c].pc # "audit"
        PROVE  account.suspended = audit[i].after
    <3>1. LastSays(audit[i].sub, account.suspended)
      BY <2>1, <2>2 DEF StatusLogged, Names
    <3>2. i \in Entries(audit[i].sub)
      BY DEF Entries
    <3>3. \A k \in Entries(audit[i].sub) : k <= i
      <4>1. DOMAIN audit = 1 .. Len(audit) /\ Len(audit) \in Nat
        BY <2>1
      <4> QED
        BY <2>2, <4>1 DEF Entries
    <3> QED
      BY <3>1, <3>2, <3>3 DEF LastSays
  <2>3. LET earlier == {j \in 1 .. i - 1 : audit[j].sub = audit[i].sub}
        IN  /\ earlier = {} => ~audit[i].before
            /\ \A j \in earlier :
                  (\A k \in earlier : k <= j) => audit[j].after = audit[i].before
    BY <2>1 DEF StatusLogged, Chained
  <2> QED
    BY <2>2, <2>3
<1> QED
  BY <1>1, QuietAlways, PTL
===============================================================================
