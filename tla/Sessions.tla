------------------------------ MODULE Sessions ------------------------------
(***************************************************************************)
(* Logins, refresh tokens, one-time codes and password links of            *)
(* administrators (routers/auth.py, routers/admin_users.py) and of         *)
(* customers (routers/customer_auth.py).                                   *)
(*                                                                         *)
(* A call reads, and writes at its commit.  Two statements write earlier   *)
(* and lock rows up to the commit: the rotation locks the token it uses    *)
(* up, and a new password locks the account's row before it revokes the    *)
(* tokens.  Passwords are taken to be right; a wrong one, like an expired  *)
(* token or link, is answered with an error and changes nothing.           *)
(***************************************************************************)
EXTENDS Integers, Sequences, FiniteSets

CONSTANTS
    Admins, Customers, Workers,
    MaxStep,       \* bound: last step of the clock of one-time codes
    MaxCalls,      \* bound: calls
    MaxLinks,      \* bound: password links asked for
    MaxDesk,       \* bound: accounts switched on or off, or deleted
    NoAccount

Accounts == Admins \cup Customers

ASSUME SessionsAssumption ==
    /\ Admins \cap Customers = {} /\ NoAccount \notin Accounts
    /\ {MaxStep, MaxCalls, MaxLinks, MaxDesk} \subseteq Nat

VARIABLES
    account,     \* account[a]: row of table users or customers
    token,       \* rows of the tables of refresh tokens, in order of issue
    link,        \* rows of the tables of password links, in order of issue
    step,        \* 30-second step the clock is in
    job,         \* job[w]: the call worker w is in
    spent,       \* how much of each bound is used up
    seen         \* observed only; see Observed below

vars == <<account, token, link, step, job, spent, seen>>

-----------------------------------------------------------------------------
(* Rows.  secret: serial number of the one-time code secret, 0 for none;   *)
(* last: step of the last code accepted with it, 0 for none.               *)

Admin     == [live |-> TRUE, active |-> TRUE, member |-> TRUE, secret |-> 0, last |-> 0]
Stranger  == [live |-> FALSE, active |-> FALSE, member |-> FALSE, secret |-> 0, last |-> 0]

Idle == [pc |-> "idle", a |-> NoAccount, t |-> 0, k |-> 0, code |-> 0, from |-> Stranger,
         targets |-> {}, epoch |-> 0, late |-> FALSE]

(* What no column holds.  In a token, parent: the token it was rotated     *)
(* from; epoch: how often all tokens of the account had been revoked when  *)
(* its call began; late: the call, or one before it in its line, was under *)
(* way during such a revocation.  codes[a]: steps accepted with the        *)
(* current secret; twice[a]: one of them again; torn[a]: a login wrote its *)
(* step over another's; uses[k]: passwords set with link k; shared: links  *)
(* of accounts where two password changes overlapped.                      *)
Observed == [epoch |-> [a \in Accounts |-> 0], codes |-> [a \in Accounts |-> {}],
             twice |-> {}, torn |-> {}, uses |-> [k \in 1..MaxLinks |-> 0], shared |-> {}]

Init ==
    /\ account = [a \in Accounts |-> IF a \in Admins THEN Admin ELSE Stranger]
    /\ token = <<>> /\ link = <<>> /\ step = 1
    /\ job = [w \in Workers |-> Idle]
    /\ spent = [calls |-> 0, desk |-> 0]
    /\ seen = Observed

(* current_user, current_customer: what an access token is good for.       *)
SignedIn(a) == a \in Admins /\ account[a].live /\ account[a].active
Member(a)   == a \in Customers /\ account[a].live /\ account[a].active /\ account[a].member

LiveOf(a) == {t \in DOMAIN token : token[t].a = a /\ token[t].st = "live"}

Held(t)   == \E v \in Workers : job[v].pc = "rotated" /\ job[v].t = t
RowHeld(a) == \E v \in Workers : job[v].pc = "revoking" /\ job[v].k >= 0 /\ job[v].a = a

(* A call that ends every session of a has begun to and not committed.     *)
Ending(a) == \E v \in Workers : job[v].pc = "revoking" /\ job[v].a = a

Call(w)   == job[w].pc = "idle" /\ spent.calls < MaxCalls /\ spent' = [spent EXCEPT !.calls = @ + 1]
Start(w, pc, a) == [Idle EXCEPT !.pc = pc, !.a = a, !.from = account[a],
                                !.epoch = seen.epoch[a], !.late = Ending(a)]
Issue(j, parent) ==
    Append(token, [a |-> j.a, st |-> "live", parent |-> parent, epoch |-> j.epoch, late |-> j.late])
Finish(w) == job' = [job EXCEPT ![w] = Idle]

-----------------------------------------------------------------------------
(* One-time codes.                                                         *)

(* Faulty variant of CodeFits: the last accepted code is accepted again.   *)
CodeFitsLast(c, last) == c \in (step - 1)..(step + 1) /\ c >= last /\ c > 0

(* verify_totp: the code of this step or a neighbour, and a newer one than *)
(* the last that was accepted.                                             *)
CodeFits(c, last) == c \in (step - 1)..(step + 1) /\ c > last /\ c > 0

(* The columns of the row the call has changed.                            *)
Flush(a, from, secret, last) ==
    account' = [account EXCEPT ![a].secret = IF secret # from.secret THEN secret ELSE @,
                               ![a].last   = IF last # from.last THEN last ELSE @]

Accept(a, c, from) ==
    seen' = [seen EXCEPT !.codes[a] = @ \cup {c},
                         !.twice = IF c \in seen.codes[a] THEN @ \cup {a} ELSE @,
                         !.torn  = IF account[a] # from THEN @ \cup {a} ELSE @]

-----------------------------------------------------------------------------
(* Logins.                                                                 *)

AdminLogin(w, a, c) ==
    /\ Call(w) /\ a \in Admins /\ account[a].live /\ account[a].active
    /\ IF account[a].secret = 0 THEN c = 0 ELSE CodeFits(c, account[a].last)
    /\ job' = [job EXCEPT ![w] = [Start(w, "login", a) EXCEPT !.code = c]]
    /\ UNCHANGED <<account, token, link, step, seen>>

CustomerLogin(w, a) ==
    /\ Call(w) /\ a \in Customers /\ account[a].live /\ account[a].active /\ account[a].member
    /\ job' = [job EXCEPT ![w] = Start(w, "login", a)]
    /\ UNCHANGED <<account, token, link, step, seen>>

(* register: a new customer, or one that a checkout made, without a        *)
(* password.  The first commit makes the member, the second the session.   *)
Register(w, a) ==
    /\ Call(w) /\ a \in Customers /\ ~ account[a].member
    /\ job' = [job EXCEPT ![w] = Start(w, "register", a)]
    /\ UNCHANGED <<account, token, link, step, seen>>

CommitRegister(w) ==
    LET a == job[w].a IN
    /\ job[w].pc = "register" /\ ~ RowHeld(a)
    /\ IF account[a].live = job[w].from.live
       THEN /\ account' = [account EXCEPT ![a] = [Admin EXCEPT !.secret = 0]]
            /\ job' = [job EXCEPT ![w].pc = "login"]
       ELSE UNCHANGED account /\ Finish(w)
    /\ UNCHANGED <<token, link, step, spent, seen>>

(* A row that has been deleted fails the foreign key of the new token.     *)
CommitLogin(w) ==
    LET a == job[w].a  c == job[w].code IN
    /\ job[w].pc = "login" /\ (a \in Customers \/ c > 0 => ~ RowHeld(a))
    /\ Finish(w)
    /\ IF account[a].live
       THEN /\ token' = Issue(job[w], 0)
            /\ IF c = 0 THEN UNCHANGED <<account, seen>>
               ELSE Flush(a, job[w].from, job[w].from.secret, c) /\ Accept(a, c, job[w].from)
       ELSE UNCHANGED <<account, token, seen>>
    /\ UNCHANGED <<link, step, spent>>

(* twofa_setup and twofa_disable.  A new secret comes with a code of its   *)
(* own, which is not compared with earlier ones.                           *)
SetupCodes(w, a, c) ==
    /\ Call(w) /\ SignedIn(a) /\ CodeFits(c, 0)
    /\ job' = [job EXCEPT ![w] = [Start(w, "setup", a) EXCEPT !.code = c]]
    /\ UNCHANGED <<account, token, link, step, seen>>

DisableCodes(w, a, c) ==
    /\ Call(w) /\ SignedIn(a) /\ account[a].secret # 0 /\ CodeFits(c, account[a].last)
    /\ job' = [job EXCEPT ![w] = Start(w, "disable", a)]
    /\ UNCHANGED <<account, token, link, step, seen>>

CommitCodes(w) ==
    LET a == job[w].a  c == job[w].code IN
    /\ job[w].pc \in {"setup", "disable"} /\ ~ RowHeld(a) /\ account[a].live
    /\ Flush(a, job[w].from, IF c = 0 THEN 0 ELSE spent.calls, c)
    /\ seen' = [seen EXCEPT !.codes[a] = {c} \ {0},
                            !.torn = IF account[a] # job[w].from THEN @ \cup {a} ELSE @ \ {a},
                            !.twice = @ \ {a}]
    /\ Finish(w)
    /\ UNCHANGED <<token, link, step, spent>>

-----------------------------------------------------------------------------
(* Rotation.                                                               *)

(* Faulty variant of CanRotate: the token is read, not taken.              *)
CanRotateHeld(t) == token[t].st # "gone"

(* UPDATE ... WHERE revoked_at IS NULL: waits for a rotation under way,    *)
(* and takes the token only if it is still good.                           *)
CanRotate(t) == ~ Held(t) /\ token[t].st = "live"

Rotate(w, t) ==
    /\ Call(w) /\ CanRotate(t)
    /\ job' = [job EXCEPT ![w] = [Start(w, "rotated", token[t].a) EXCEPT
                                     !.t = t, !.late = @ \/ token[t].late]]
    /\ UNCHANGED <<account, token, link, step, seen>>

(* A used token presented again ends all sessions of its account: the      *)
(* tokens its UPDATE finds, once nobody holds them.  k = -1: it does not   *)
(* hold the account's row.                                                 *)
Replay(w, t) ==
    /\ Call(w) /\ ~ Held(t) /\ token[t].st = "revoked"
    /\ job' = [v \in Workers |->
                  IF v = w THEN [Start(w, "revoking", token[t].a) EXCEPT !.k = -1, !.targets = LiveOf(token[t].a)]
                  ELSE IF job[v].a = token[t].a THEN [job[v] EXCEPT !.late = TRUE] ELSE job[v]]
    /\ UNCHANGED <<account, token, link, step, seen>>

Heir(w) ==
    /\ token' = [Issue(job[w], job[w].t) EXCEPT ![job[w].t].st = "revoked"]
    /\ Finish(w)
    /\ UNCHANGED <<account, link, step, spent, seen>>

AdminHeir(w) == job[w].pc = "rotated" /\ job[w].a \in Admins /\ account[job[w].a].live /\ Heir(w)

(* A customer's heir also notes the login in the account's row.            *)
CustomerHeir(w) ==
    /\ job[w].pc = "rotated" /\ job[w].a \in Customers
    /\ account[job[w].a].live /\ account[job[w].a].active /\ ~ RowHeld(job[w].a)
    /\ Heir(w)

Logout(w, t) ==
    /\ Call(w) /\ token[t].st = "live"
    /\ job' = [job EXCEPT ![w] = [Start(w, "logout", token[t].a) EXCEPT !.t = t]]
    /\ UNCHANGED <<account, token, link, step, seen>>

CommitLogout(w) ==
    LET t == job[w].t IN
    /\ job[w].pc = "logout" /\ ~ Held(t)
    /\ token' = [token EXCEPT ![t].st = IF @ = "gone" THEN @ ELSE "revoked"]
    /\ Finish(w)
    /\ UNCHANGED <<account, link, step, spent, seen>>

-----------------------------------------------------------------------------
(* New passwords.                                                          *)

Link(a) ==
    /\ Len(link) < MaxLinks
    /\ link' = Append(link, [a |-> a, st |-> "open"])
    /\ UNCHANGED <<account, token, step, job, spent, seen>>

(* forgot_password: an administrator needs no more than an e-mail, a       *)
(* customer a password.                                                    *)
AdminForgot(a)    == a \in Admins /\ account[a].live /\ Link(a)
CustomerForgot(a) == a \in Customers /\ account[a].live /\ account[a].member /\ Link(a)

Good(k) == link[k].st = "open"

(* The link is read without a lock.                                        *)
Reset(w, k) ==
    LET a == link[k].a
        others == {v \in Workers \ {w} : job[v].a = a /\ job[v].k > 0}
    IN  /\ Call(w) /\ Good(k) /\ account[a].live
        /\ job' = [job EXCEPT ![w] = [Start(w, "reset", a) EXCEPT !.k = k]]
        /\ seen' = IF others = {} THEN seen
                   ELSE [seen EXCEPT !.shared = @ \cup {i \in DOMAIN link : link[i].a = a}]
        /\ UNCHANGED <<account, token, link, step>>

AdminReset(w, k)    == link[k].a \in Admins /\ Reset(w, k)
CustomerReset(w, k) == link[k].a \in Customers /\ Reset(w, k)

(* change_password of a customer; an administrator's revokes nothing.      *)
ChangePassword(w, a) ==
    /\ Call(w) /\ Member(a)
    /\ job' = [job EXCEPT ![w] = Start(w, "reset", a)]
    /\ UNCHANGED <<account, token, link, step, seen>>

(* Faulty variant of Sessions: only the sessions of the last login.        *)
SessionsLast(a) == {t \in LiveOf(a) : t = Len(token)}

Sessions(a) == LiveOf(a)

(* The new password is flushed, which locks the row, and the UPDATE of the *)
(* tokens finds the ones that are live.                                    *)
WritePassword(w) ==
    LET a == job[w].a IN
    /\ job[w].pc = "reset" /\ account[a].live /\ ~ RowHeld(a)
    /\ job' = [v \in Workers |->
                  IF v = w THEN [job[w] EXCEPT !.pc = "revoking", !.targets = Sessions(a)]
                  ELSE IF job[v].a = a THEN [job[v] EXCEPT !.late = TRUE] ELSE job[v]]
    /\ UNCHANGED <<account, token, link, step, spent, seen>>

CommitRevoke(w) ==
    LET a == job[w].a  k == job[w].k IN
    /\ job[w].pc = "revoking" /\ \A t \in job[w].targets : ~ Held(t)
    /\ token' = [t \in DOMAIN token |->
                    IF t \in job[w].targets /\ token[t].st = "live"
                    THEN [token[t] EXCEPT !.st = "revoked"] ELSE token[t]]
    /\ link' = IF k <= 0 THEN link
               ELSE [i \in DOMAIN link |-> IF link[i].a = a /\ link[i].st = "open"
                                           THEN [link[i] EXCEPT !.st = "used"] ELSE link[i]]
    /\ seen' = [seen EXCEPT !.epoch[a] = @ + 1,
                            !.uses = [i \in DOMAIN @ |-> IF i = k THEN @[i] + 1 ELSE @[i]]]
    /\ Finish(w)
    /\ UNCHANGED <<account, step, spent>>

(* A customer's rotation waits for the row, a new password for the token:  *)
(* the database aborts one of the two.                                     *)
BreakDeadlock(w, v) ==
    /\ job[w].pc = "revoking" /\ job[w].k >= 0
    /\ job[v].pc = "rotated" /\ job[v].t \in job[w].targets /\ job[v].a \in Customers
    /\ \/ Finish(w)
       \/ Finish(v)
    /\ UNCHANGED <<account, token, link, step, spent, seen>>

-----------------------------------------------------------------------------
(* The desk, the clock, and calls that fail.                               *)

Desk == spent.desk < MaxDesk /\ spent' = [spent EXCEPT !.desk = @ + 1]

(* update_user.                                                            *)
SetActive(a, on) ==
    /\ Desk /\ a \in Admins /\ account[a].live /\ account[a].active # on /\ ~ RowHeld(a)
    /\ account' = [account EXCEPT ![a].active = on]
    /\ UNCHANGED <<token, link, step, job, seen>>

(* Tokens and links go with the row (ON DELETE CASCADE).                   *)
Remove(a) ==
    /\ Desk /\ account[a].live /\ ~ RowHeld(a) /\ \A t \in LiveOf(a) : ~ Held(t)
    /\ account' = [account EXCEPT ![a] = Stranger]
    /\ token' = [t \in DOMAIN token |-> IF token[t].a = a THEN [token[t] EXCEPT !.st = "gone"] ELSE token[t]]
    /\ link' = [k \in DOMAIN link |-> IF link[k].a = a THEN [link[k] EXCEPT !.st = "gone"] ELSE link[k]]
    /\ UNCHANGED <<step, job, seen>>

DeleteUser(a)     == a \in Admins /\ Remove(a)
DeleteCustomer(a) == a \in Customers /\ Remove(a)

Tick == step < MaxStep /\ step' = step + 1 /\ UNCHANGED <<account, token, link, job, spent, seen>>

(* The account is gone or switched off, or the process dies: rolled back.  *)
Fail(w) ==
    /\ job[w].pc # "idle"
    /\ Finish(w)
    /\ UNCHANGED <<account, token, link, step, spent, seen>>

-----------------------------------------------------------------------------
Next ==
    \/ \E w \in Workers :
          \/ \E a \in Accounts : \/ CustomerLogin(w, a) \/ Register(w, a) \/ ChangePassword(w, a)
                                 \/ \E c \in 0..(MaxStep + 1) : \/ AdminLogin(w, a, c) \/ SetupCodes(w, a, c)
                                                                \/ DisableCodes(w, a, c)
          \/ \E t \in DOMAIN token : Rotate(w, t) \/ Replay(w, t) \/ Logout(w, t)
          \/ \E k \in DOMAIN link : AdminReset(w, k) \/ CustomerReset(w, k)
          \/ CommitRegister(w) \/ CommitLogin(w) \/ CommitCodes(w)
          \/ AdminHeir(w) \/ CustomerHeir(w) \/ CommitLogout(w)
          \/ WritePassword(w) \/ CommitRevoke(w) \/ Fail(w)
          \/ \E v \in Workers : BreakDeadlock(w, v)
    \/ \E a \in Accounts : \/ AdminForgot(a) \/ CustomerForgot(a) \/ DeleteUser(a) \/ DeleteCustomer(a)
                            \/ \E on \in BOOLEAN : SetActive(a, on)
    \/ Tick

Spec == Init /\ [][Next]_vars

-----------------------------------------------------------------------------
(* Properties.                                                             *)

(* A refresh token has at most one heir, however many requests present it  *)
(* at the same time (auth.py:83-86).                                       *)
OneHeir ==
    \A t \in DOMAIN token : Cardinality({u \in DOMAIN token : token[u].parent = t}) <= 1

(* After a new password, or a replayed token, a session that began before  *)
(* it is dead, unless the call that made it, or one earlier in its line,   *)
(* was under way at the time (auth.py:257, customer_auth.py:306-315).          *)
RevocationReaches ==
    \A t \in DOMAIN token :
        token[t].st = "live" /\ token[t].epoch < seen.epoch[token[t].a] => token[t].late

(* What may be used once is used once.  The code of a step opens one       *)
(* session, as long as no two calls have overlapped on the row that        *)
(* remembers the step; a password link sets one password, unless two       *)
(* changes with links of the account overlap (totp.py:39-42,               *)
(* auth.py:236-243).                                                       *)
UsedOnce ==
    /\ seen.twice \subseteq seen.torn
    /\ \A k \in DOMAIN link : seen.uses[k] > 1 => k \in seen.shared

(* What totp.py:39-42 says of a code: once it was seen it opens nothing    *)
(* more.  Two logins that overlap both read the step before it is written. *)
CodeOnce == seen.twice = {}
=============================================================================
